-------------------------------- MODULE NetDrv --------------------------------
(***************************************************************************)
(* The network driver of mykozos/os/netdrv.c over the RTL8019 card of      *)
(* rtl8019.c: a thread that sends and receives frames, and an interrupt    *)
(* handler that tells it when to.                                          *)
(*                                                                         *)
(* Both use the card without excluding each other.  Every function of      *)
(* rtl8019.c writes the command register CR first, which selects a page of *)
(* registers and starts or aborts the remote DMA; the handler's write may  *)
(* come between the thread's and the access that depends on it.  So an     *)
(* access to the card is a write of CR and then the access, and the        *)
(* handler is one step, for nothing interrupts it.                         *)
(***************************************************************************)
EXTENDS Integers, Sequences, SequencesExt

CONSTANTS
  START,   \* NE2000_RP_START
  STOP,    \* NE2000_RP_STOP
  SENDS,   \* bound on frames to send
  RECVS    \* bound on frames that arrive

Page == START..(STOP - 1)

ASSUME NetDrvAssumption ==
  /\ START \in Nat /\ STOP \in Nat /\ START + 2 < STOP
  /\ SENDS \in Nat /\ RECVS \in Nat

VARIABLES
  box,       \* MSGBOX_ID_NETPROC: [cmd, frame]
  pc,        \* where the thread is: "recv", or the access to the card it is at
  cr,        \* it has written CR for that access
  queue,     \* send_buf_head .. send_buf_tail
  buf,       \* the frame it is sending
  next,      \* header[1] of the frame it is reading
  card,      \* page: selected by CR; dma: "idle", "busy", "aborted"; imr, isr;
             \* bnry, curr, mem: the receive ring; tx: what is being transmitted
  requested, \* frames ever asked to send, counted: they are 1, 2, ...
  wire,      \* frames transmitted
  stored,    \* frames the card has put into its ring, counted
  delivered, \* frames sent to the Ethernet task
  raced      \* the handler came between the thread's write of CR and its access

thread == <<pc, cr, queue, buf, next>>
history == <<requested, wire, stored, delivered, raced>>
vars == <<box, thread, card, history>>

message(c, f) == [cmd |-> c, frame |-> f]

\* netdrv_init() is done and the Ethernet task has sent NETDRV_CMD_USE.
Init ==
  /\ box = <<message("USE", 0)>>
  /\ pc = "recv" /\ cr = FALSE
  /\ queue = <<>> /\ buf = 0 /\ next = START
  /\ card = [page |-> 0, dma |-> "idle", imr |-> {}, isr |-> {}, tx |-> <<>>,
             bnry |-> START, curr |-> START + 1,
             mem |-> [p \in Page |-> [frame |-> 0, next |-> START]]]
  /\ requested = 0 /\ wire = <<>> /\ stored = 0 /\ delivered = <<>>
  /\ raced = FALSE

-----------------------------------------------------------------------------
(* The card.                                                               *)

Beyond(p, n) == IF p + n < STOP THEN p + n ELSE p + n - (STOP - START)

\* A frame of n pages arrives.  The card never writes the page BNRY names.
receive(n) ==
  /\ stored < RECVS
  /\ \A k \in 0..(n - 1) : Beyond(card.curr, k) # card.bnry
  /\ stored' = stored + 1
  /\ card' = [card EXCEPT !.mem[card.curr] = [frame |-> stored + 1, next |-> Beyond(card.curr, n)],
                          !.curr = Beyond(@, n),
                          !.isr = @ \cup {"PRX"}]
  /\ UNCHANGED <<box, thread, requested, wire, delivered, raced>>

transmitted ==
  /\ card.tx # <<>>
  /\ wire' = wire \o card.tx
  /\ card' = [card EXCEPT !.tx = <<>>, !.isr = @ \cup {"PTX"}]
  /\ UNCHANGED <<box, thread, requested, stored, delivered, raced>>

-----------------------------------------------------------------------------
(* The handler.                                                            *)

netdrv_intr ==
  /\ card.isr \cap card.imr # {}
  /\ box' = box \o (IF "PRX" \in card.isr THEN <<message("RECVINTR", 0)>> ELSE <<>>)
                \o (IF "PTX" \in card.isr THEN <<message("SENDINTR", 0)>> ELSE <<>>)
  /\ card' = [card EXCEPT !.isr = {}, !.page = 0,
                          !.dma = IF @ = "busy" THEN "aborted" ELSE @]
  /\ raced' = (raced \/ card.page # 0 \/ card.dma = "busy")
  /\ UNCHANGED <<thread, requested, wire, stored, delivered>>

-----------------------------------------------------------------------------
(* Messages.                                                               *)

\* The Ethernet task has a frame sent.  Its priority is lower than the
\* driver's (main.c:16-17), so it runs while the driver waits.
send ==
  /\ pc = "recv" /\ box = <<>>
  /\ requested < SENDS
  /\ requested' = requested + 1
  /\ box' = <<message("SEND", requested + 1)>>
  /\ UNCHANGED <<thread, card, wire, stored, delivered, raced>>

kz_recv(cmd) ==
  /\ pc = "recv" /\ box # <<>> /\ Head(box).cmd = cmd
  /\ box' = Tail(box)
  /\ UNCHANGED <<cr, next, card, history>>

Pop == buf' = Head(queue) /\ queue' = Tail(queue)

NETDRV_CMD_USE == kz_recv("USE") /\ pc' = "recv_enable" /\ UNCHANGED <<queue, buf>>

enqueued_bug == <<Head(box).frame>> \o queue
enqueued == Append(queue, Head(box).frame)
NETDRV_CMD_SEND ==
  /\ kz_recv("SEND")
  /\ queue' = enqueued
  /\ pc' = "is_send_enable"
  /\ UNCHANGED buf

NETDRV_CMD_RECVINTR == kz_recv("RECVINTR") /\ pc' = "curr" /\ UNCHANGED <<queue, buf>>

NETDRV_CMD_SENDINTR_bug ==   \* leaves the frames in the queue
  kz_recv("SENDINTR") /\ pc' = "send_disable" /\ UNCHANGED <<queue, buf>>
NETDRV_CMD_SENDINTR ==
  /\ kz_recv("SENDINTR")
  /\ \/ queue = <<>> /\ pc' = "send_disable" /\ UNCHANGED <<queue, buf>>
     \/ queue # <<>> /\ pc' = "enabled_before_send" /\ Pop

-----------------------------------------------------------------------------
(* The thread's accesses to the card.                                      *)

\* The write of CR before the access at pc.
CR ==
  /\ pc \notin {"recv", "transmit"} /\ ~cr
  /\ cr' = TRUE
  /\ card' = CASE pc = "curr"                       -> [card EXCEPT !.page = 1]
               [] pc \in {"header", "data", "write"} -> [card EXCEPT !.page = 0, !.dma = "busy"]
               [] OTHER                             -> [card EXCEPT !.page = 2]
  /\ UNCHANGED <<box, pc, queue, buf, next, history>>

At(p) == pc = p /\ cr /\ cr' = FALSE /\ UNCHANGED <<box, requested, wire, stored, raced>>

\* What the thread reads as IMR: on page 0 there is another register, a counter.
Mask == IF card.page = 2 THEN {card.imr} ELSE SUBSET {"PRX", "PTX"}

\* Back on page 0, IMR becomes m.
SetMask(m) == card' = [card EXCEPT !.page = 0, !.imr = m]

rtl8019_intr_recv_enable ==
  /\ At("recv_enable")
  /\ \E mask \in Mask : SetMask(mask \cup {"PRX"})
  /\ pc' = "recv"
  /\ UNCHANGED <<queue, buf, next, delivered>>

\* A new frame: with send interrupts on, an earlier one is being sent.
send_packet ==
  /\ At("is_send_enable")
  /\ \E mask \in Mask :
       \/ "PTX" \in mask /\ pc' = "recv" /\ UNCHANGED <<queue, buf>>
       \/ "PTX" \notin mask /\ pc' = "enabled_before_send" /\ Pop
  /\ SetMask(card.imr)
  /\ UNCHANGED <<next, delivered>>

rtl8019_intr_is_send_enable ==
  /\ At("enabled_before_send")
  /\ \E mask \in Mask : pc' = IF "PTX" \in mask THEN "write" ELSE "send_enable"
  /\ SetMask(card.imr)
  /\ UNCHANGED <<queue, buf, next, delivered>>

rtl8019_intr_send_enable ==
  /\ At("send_enable")
  /\ \E mask \in Mask : SetMask(mask \cup {"PTX"})
  /\ pc' = "write"
  /\ UNCHANGED <<queue, buf, next, delivered>>

rtl8019_intr_send_disable ==
  /\ At("send_disable")
  /\ \E mask \in Mask : SetMask(mask \ {"PTX"})
  /\ pc' = "recv"
  /\ UNCHANGED <<queue, buf, next, delivered>>

\* The end of a remote DMA: the thread waits for RDC, which an aborted one
\* never sets.
Complete == card.dma = "busy"

\* write_data() is through and the card is told to transmit.
rtl8019_send ==
  /\ At("write") /\ Complete
  /\ card' = [card EXCEPT !.dma = "idle", !.tx = <<buf>>]
  /\ pc' = "transmit"
  /\ UNCHANGED <<queue, buf, next, delivered>>

\* TXP is clear.
sent ==
  /\ pc = "transmit" /\ card.tx = <<>>
  /\ pc' = "recv" /\ buf' = 0
  /\ UNCHANGED <<box, cr, queue, next, card, history>>

\* rtl8019_recv(): where the next frame starts, and whether there is one.
Start == card.bnry + 1
Empty_bug(curr) == curr = Start   \* forgets that the ring wraps
Empty(curr) == Start = IF curr < Start THEN curr + STOP - START ELSE curr

\* What the thread reads as CURR: on page 0 there is ISR in its place.
Curr == IF card.page = 1 THEN {card.curr} ELSE 0..STOP
rtl8019_recv ==
  /\ At("curr")
  /\ \E curr \in Curr : pc' = IF Empty(curr) THEN "recv" ELSE "header"
  /\ card' = [card EXCEPT !.page = 0]
  /\ UNCHANGED <<queue, buf, next, delivered>>

First == IF Start = STOP THEN START ELSE Start
Frame == card.mem[First]

read_header ==
  /\ At("header") /\ Complete
  /\ card' = [card EXCEPT !.dma = "idle"]
  /\ next' = Frame.next
  /\ pc' = "data"
  /\ UNCHANGED <<queue, buf, delivered>>

\* The frame goes to the Ethernet task, and the next one is looked for.
\* After a race frames may come more than once: RECVS bounds them, too.
recv_packet ==
  /\ At("data") /\ Complete
  /\ Len(delivered) <= RECVS
  /\ card' = [card EXCEPT !.dma = "idle", !.bnry = IF next = START THEN STOP - 1 ELSE next - 1]
  /\ delivered' = Append(delivered, Frame.frame)
  /\ pc' = "curr"
  /\ next' = START
  /\ UNCHANGED <<queue, buf>>

-----------------------------------------------------------------------------
netdrv ==
  \/ NETDRV_CMD_USE
  \/ NETDRV_CMD_SEND
  \/ NETDRV_CMD_RECVINTR
  \/ NETDRV_CMD_SENDINTR
  \/ CR
  \/ rtl8019_intr_recv_enable
  \/ send_packet
  \/ rtl8019_intr_is_send_enable
  \/ rtl8019_intr_send_enable
  \/ rtl8019_intr_send_disable
  \/ rtl8019_send
  \/ sent
  \/ rtl8019_recv
  \/ read_header
  \/ recv_packet

Next ==
  \/ \E n \in 1..2 : receive(n)
  \/ transmitted
  \/ netdrv_intr
  \/ send
  \/ netdrv

Spec == Init /\ [][Next]_vars

\* The card transmits, its interrupts are served, and the driver runs: the
\* threads above it wait for the console and the timer most of the time.
FairSpec == Spec /\ WF_vars(transmitted) /\ WF_vars(netdrv_intr) /\ WF_vars(netdrv)
-----------------------------------------------------------------------------
(* Properties.                                                             *)

Upto(n) == [k \in 1..n |-> k]

\* Frames are transmitted in the order they were given to the driver, whole
\* and once: what went out, what is on its way and what is queued are
\* together all that was asked for.  A request not yet taken is the first
\* message of the driver's box, so the next is asked for after it.
Sending == IF buf = 0 \/ pc = "transmit" THEN <<>> ELSE <<buf>>
Asked == IF box # <<>> /\ Head(box).cmd = "SEND" THEN <<Head(box).frame>> ELSE <<>>
FramesInOrder ==
  /\ wire \o (card.tx \o (Sending \o (queue \o Asked))) = Upto(requested)
  /\ \A k \in 2..Len(box) : box[k].cmd # "SEND"

\* The Ethernet task gets the frames of the ring in the order of their
\* arrival, each once, and the ring's pointers always tell what is still to be
\* read, unless the handler came in between.
Ring[n \in 0..RECVS] == [p \in Page |->
  IF p = card.curr \/ n = 0 THEN <<>> ELSE <<card.mem[p].frame>> \o Ring[n - 1][card.mem[p].next]]
FramesReceived == raced \/ delivered \o Ring[RECVS][First] = Upto(stored)

\* Everything gets through, unless the handler ever comes in between.
Through == [](~raced) => []<>(Len(delivered) = stored /\ Len(wire) = requested)

\* netdrv.c:119: "there is no need to disable interrupts".  Once it uses the
\* card the driver listens to it: nothing it does turns receive interrupts off.
Listening == pc # "recv_enable" /\ (\A k \in 1..Len(box) : box[k].cmd # "USE") => "PRX" \in card.imr
=============================================================================
