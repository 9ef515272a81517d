-------------------------------- MODULE NetBuf --------------------------------
(***************************************************************************)
(* The packet buffers (struct netbuf of mykozos/os/netdrv.h) the network   *)
(* tasks pass to each other in messages, and the boxes they pass through.  *)
(*                                                                         *)
(* A message is the buffer's address: sending one hands the buffer over,   *)
(* and every task's main loop frees a buffer whose processing returned 0.  *)
(***************************************************************************)
EXTENDS Integers, Sequences, FiniteSets

CONSTANTS
  ME,     \* this board
  Peer,   \* other hosts; a host stands for its IP and for its MAC address
  BUFS    \* buffers there are

ASSUME NetBufAssumption == ME \notin Peer /\ BUFS \in Nat \ {0}

Host == Peer \cup {ME}
Buffer == 1..BUFS
Box == {"NET", "ETH", "ARP", "IP", "ICMP"}   \* MSGBOX_ID_NETPROC, ...

ZERO == "zero"   \* no MAC address yet
ALL == "all"     \* the broadcast address

\* What the tasks look at in a buffer: the command, the MAC address the
\* frame goes to, its type, the hosts it is from and for, and what it says.
Blank == [cmd |-> "", mac |-> ZERO, type |-> "", from |-> ME, to |-> ME, body |-> ""]
packet(cmd, mac, type, from, to, body) ==
  [cmd |-> cmd, mac |-> mac, type |-> type, from |-> from, to |-> to, body |-> body]

VARIABLES
  buf,    \* what is in each buffer
  used,   \* buffers allocated
  box,    \* message boxes: buffers
  down    \* kz_sysdown() was reached

bufVars == <<buf, used, box, down>>

\* kz_recv() of a message with this command.
First(m) == Head(box[m])
Taken(m) == [box EXCEPT ![m] = Tail(@)]
Got(m, cmd) == ~down /\ box[m] # <<>> /\ buf[First(m)].cmd = cmd

\* Buffer b, with contents c, goes to box m.
Pass(boxes, b, c, m) ==
  /\ buf' = [buf EXCEPT ![b] = c]
  /\ box' = [boxes EXCEPT ![m] = Append(@, b)]
  /\ UNCHANGED <<used, down>>

kz_kmfree(boxes, b) ==
  /\ used' = used \ {b}
  /\ buf' = [buf EXCEPT ![b] = Blank]
  /\ box' = boxes
  /\ UNCHANGED down

\* kz_kmalloc() of a buffer that goes to box m with contents c, after which the
\* buffers in "done" are freed.  The system goes down when there is none, with
\* what the task has taken in its hands.
New == CHOOSE b \in Buffer \ used : \A a \in Buffer \ used : b <= a
PassNew(boxes, c, m, done) ==
  \/ /\ used = Buffer
     /\ down' = TRUE
     /\ box' = boxes
     /\ UNCHANGED <<buf, used>>
  \/ /\ used # Buffer
     /\ used' = (used \cup {New}) \ done
     /\ buf' = [b \in Buffer |-> IF b = New THEN c ELSE IF b \in done THEN Blank ELSE buf[b]]
     /\ box' = [boxes EXCEPT ![m] = Append(@, New)]
     /\ UNCHANGED down
=============================================================================
