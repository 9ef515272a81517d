---------------------------- MODULE NetDrvProofs ----------------------------
(***************************************************************************)
(* Proofs about NetDrv.tla, for a ring of any size, any number of frames,  *)
(* and a handler that comes anywhere: whatever it breaks at the card, the  *)
(* frames to send stay in order.                                           *)
(***************************************************************************)
EXTENDS NetDrv, SequenceTheorems, WellFoundedInduction, TLAPS

Frames == Nat \ {0}

Message ==
  [cmd : {"USE", "RECVINTR", "SENDINTR"}, frame : {0}] \cup [cmd : {"SEND"}, frame : Frames]

\* Where the thread has a frame in hand.
Holding == {"enabled_before_send", "send_enable", "write", "transmit"}
Resting == {"recv", "recv_enable", "is_send_enable", "send_disable", "curr", "header", "data"}

TypeOK ==
  /\ box \in Seq(Message)
  /\ pc \in Holding \cup Resting
  /\ queue \in Seq(Frames) /\ buf \in Nat
  /\ DOMAIN card = {"page", "dma", "imr", "isr", "tx", "bnry", "curr", "mem"}
  /\ card.tx \in Seq(Frames) /\ wire \in Seq(Frames)
  /\ requested \in Nat

Flow == wire \o (card.tx \o (Sending \o (queue \o Asked)))

\* A frame is in hand in the four places alone, the card has one only where the
\* thread waits for it, and the thread asks whether it may send when there is something to send.
IInv ==
  /\ TypeOK
  /\ buf # 0 <=> pc \in Holding
  /\ card.tx # <<>> => pc = "transmit"
  /\ pc = "is_send_enable" => queue # <<>>
  /\ FramesInOrder

-----------------------------------------------------------------------------
(* Sequences.                                                              *)

LEMMA Associative ==
  ASSUME NEW s \in Seq(Frames), NEW u \in Seq(Frames), NEW v \in Seq(Frames)
  PROVE  (s \o u) \o v = s \o (u \o v)
BY ConcatAssociative

LEMMA Neutral ==
  ASSUME NEW s \in Seq(Frames)
  PROVE  s \o <<>> = s /\ <<>> \o s = s
BY ConcatEmptySeq

LEMMA UptoNext ==
  ASSUME NEW n \in Nat
  PROVE  Upto(n) \o <<n + 1>> = Upto(n + 1)
<1> DEFINE s == Upto(n)
<1>1. s \in Seq(Frames) /\ Len(s) = n /\ \A k \in 1..n : s[k] = k
  BY DEF Upto, Frames
<1>2. Upto(n + 1) \in Seq(Frames) /\ Len(Upto(n + 1)) = n + 1 /\ \A k \in 1..(n + 1) : Upto(n + 1)[k] = k
  BY DEF Upto, Frames
<1> HIDE DEF s
<1>3. s \o <<n + 1>> = Append(s, n + 1)
  BY <1>1 DEF Frames
<1>4. Len(Append(s, n + 1)) = n + 1 /\ \A k \in 1..(n + 1) : Append(s, n + 1)[k] = k
  BY <1>1, AppendProperties DEF Frames
<1>5. Append(s, n + 1) \in Seq(Frames)
  BY <1>1, AppendProperties DEF Frames
<1>6. Append(s, n + 1) = Upto(n + 1)
  BY <1>2, <1>4, <1>5, SeqEqual
<1> QED BY <1>3, <1>6 DEF s

LEMMA Typed ==
  ASSUME TypeOK, buf # 0 <=> pc \in Holding
  PROVE  Sending \in Seq(Frames) /\ Asked \in Seq(Frames)
<1>1. <<>> \in Seq(Frames)
  BY EmptySeq
<1>2. Sending \in Seq(Frames)
  <2>1. CASE buf = 0 \/ pc = "transmit"
    BY <1>1, <2>1 DEF Sending
  <2>2. CASE ~(buf = 0 \/ pc = "transmit")
    <3>1. buf \in Frames
      BY <2>2 DEF TypeOK, Frames
    <3> QED BY <2>2, <3>1 DEF Sending
  <2> QED BY <2>1, <2>2
<1>3. Asked \in Seq(Frames)
  <2>1. CASE box # <<>> /\ Head(box).cmd = "SEND"
    <3>1. Head(box) \in Message
      BY <2>1, HeadTailProperties DEF TypeOK
    <3>2. Head(box).frame \in Frames
      BY <2>1, <3>1 DEF Message
    <3> QED BY <2>1, <3>2 DEF Asked
  <2>2. CASE ~(box # <<>> /\ Head(box).cmd = "SEND")
    BY <1>1, <2>2 DEF Asked
  <2> QED BY <2>1, <2>2
<1> QED BY <1>2, <1>3

-----------------------------------------------------------------------------
(* The box: the frame to send is its first message.                        *)

LEMMA BoxAppended ==
  ASSUME TypeOK, \A k \in 2..Len(box) : box[k].cmd # "SEND",
         NEW s \in Seq(Message), box' = box \o s, \A k \in 1..Len(s) : s[k].cmd # "SEND"
  PROVE  /\ box' \in Seq(Message)
         /\ Asked' = Asked
         /\ \A k \in 2..Len(box') : box'[k].cmd # "SEND"
<1>1. /\ box \in Seq(Message) /\ box' \in Seq(Message) /\ Len(box) \in Nat /\ Len(s) \in Nat
      /\ Len(box') = Len(box) + Len(s)
      /\ \A k \in 1..Len(box') : box'[k] = IF k <= Len(box) THEN box[k] ELSE s[k - Len(box)]
  BY ConcatProperties, LenProperties DEF TypeOK
<1>2. \A k \in 2..Len(box') : box'[k].cmd # "SEND"
  <2> SUFFICES ASSUME NEW k \in 2..Len(box') PROVE box'[k].cmd # "SEND"
    OBVIOUS
  <2>1. CASE k <= Len(box)
    BY <1>1, <2>1
  <2>2. CASE k > Len(box)
    <3>1. k - Len(box) \in 1..Len(s) /\ box'[k] = s[k - Len(box)]
      BY <1>1, <2>2
    <3> QED BY <3>1
  <2> QED BY <1>1, <2>1, <2>2
<1>3. CASE box = <<>>
  <2>1. Asked = <<>>
    BY <1>3 DEF Asked
  <2>2. box' = s
    BY <1>3, ConcatEmptySeq
  <2>3. box' # <<>> => Head(box') = s[1] /\ 1 \in 1..Len(s)
    BY <1>1, <2>2, HeadTailProperties, EmptySeq
  <2> QED BY <1>1, <1>2, <2>1, <2>2, <2>3 DEF Asked
<1>4. CASE box # <<>>
  <2>1. Len(box) > 0
    BY <1>1, <1>4, EmptySeq
  <2>2. box' # <<>> /\ Head(box') = Head(box)
    BY <1>1, <1>4, <2>1, EmptySeq, HeadTailProperties
  <2> QED BY <1>1, <1>2, <1>4, <2>2 DEF Asked
<1> QED BY <1>3, <1>4

LEMMA BoxReceived ==
  ASSUME TypeOK, \A k \in 2..Len(box) : box[k].cmd # "SEND", box # <<>>, box' = Tail(box)
  PROVE  /\ box' \in Seq(Message)
         /\ Asked' = <<>>
         /\ \A k \in 2..Len(box') : box'[k].cmd # "SEND"
<1>1. /\ box \in Seq(Message) /\ Len(box) \in Nat /\ box' \in Seq(Message)
      /\ Len(box') = Len(box) - 1
      /\ \A k \in 1..Len(box') : box'[k] = box[k + 1]
  BY HeadTailProperties, LenProperties DEF TypeOK
<1>2. \A k \in 1..Len(box') : box'[k].cmd # "SEND"
  BY <1>1
<1>3. box' # <<>> => Head(box') = box'[1] /\ 1 \in 1..Len(box')
  BY <1>1, HeadTailProperties, EmptySeq
<1> QED BY <1>1, <1>2, <1>3 DEF Asked

-----------------------------------------------------------------------------
(* The actions.                                                            *)

LEMMA InitHolds == Init => IInv
<1> SUFFICES ASSUME Init PROVE IInv
  OBVIOUS
<1>1. <<>> \in Seq(Frames)
  BY EmptySeq
<1>2. /\ box = <<message("USE", 0)>> /\ message("USE", 0) \in Message
      /\ message("USE", 0).cmd = "USE"
  BY DEF Init, message, Message
<1>3. box \in Seq(Message) /\ Len(box) = 1 /\ Head(box) = message("USE", 0)
  BY <1>2
<1>4. TypeOK
  BY <1>1, <1>3 DEF Init, TypeOK, Holding, Resting
<1>5. Asked = <<>> /\ Sending = <<>>
  BY <1>2, <1>3 DEF Asked, Sending, Init
<1>6. Upto(0) = <<>>
  BY DEF Upto
<1>7. wire \o (card.tx \o (Sending \o (queue \o Asked))) = Upto(requested)
  BY <1>1, <1>5, <1>6, Neutral DEF Init
<1> QED BY <1>3, <1>4, <1>7 DEF Init, IInv, FramesInOrder, Holding

\* A step that moves no frame, at the thread or the card.
LEMMA Unmoved ==
  ASSUME IInv, UNCHANGED <<queue, buf, wire, requested>>,
         DOMAIN card' = DOMAIN card, card'.tx = card.tx,
         box' \in Seq(Message), Asked' = Asked,
         \A k \in 2..Len(box') : box'[k].cmd # "SEND",
         \/ pc' = pc
         \/ pc \in Resting /\ pc' \in Resting \ {"is_send_enable"}
         \/ pc \in Holding \ {"transmit"} /\ pc' \in Holding \ {"transmit"}
  PROVE  IInv'
<1>1. pc' \in Holding <=> pc \in Holding
  BY DEF Holding, Resting
<1>2. /\ pc' \in Holding \cup Resting
      /\ pc' = "is_send_enable" => pc = "is_send_enable"
      /\ pc' = "transmit" <=> pc = "transmit"
  BY DEF Holding, Resting, IInv, TypeOK
<1>3. TypeOK'
  BY <1>2 DEF IInv, TypeOK
<1>4. Sending' = Sending
  BY <1>2 DEF Sending
<1>5. FramesInOrder'
  BY <1>4 DEF IInv, FramesInOrder, Upto
<1> QED BY <1>1, <1>2, <1>3, <1>5 DEF IInv

\* ... and leaves the box alone.
LEMMA UnmovedThread ==
  ASSUME IInv, UNCHANGED <<queue, buf, wire, requested, box>>,
         DOMAIN card' = DOMAIN card, card'.tx = card.tx,
         \/ pc' = pc
         \/ pc \in Resting /\ pc' \in Resting \ {"is_send_enable"}
         \/ pc \in Holding \ {"transmit"} /\ pc' \in Holding \ {"transmit"}
  PROVE  IInv'
<1>1. box' \in Seq(Message) /\ Asked' = Asked /\ \A k \in 2..Len(box') : box'[k].cmd # "SEND"
  BY DEF IInv, TypeOK, FramesInOrder, Asked
<1> QED BY <1>1, Unmoved

\* The thread takes a message other than a frame.
LEMMA Received ==
  ASSUME IInv, NEW cmd \in {"USE", "RECVINTR", "SENDINTR"}, kz_recv(cmd)
  PROVE  /\ box' \in Seq(Message)
         /\ Asked = <<>> /\ Asked' = <<>>
         /\ \A k \in 2..Len(box') : box'[k].cmd # "SEND"
<1>1. box # <<>> /\ box' = Tail(box) /\ Head(box).cmd = cmd
  BY DEF kz_recv
<1> QED BY <1>1, BoxReceived DEF IInv, FramesInOrder, Asked

LEMMA StepReceive == ASSUME IInv, NEW n \in 1..2, receive(n) PROVE IInv'
<1>1. DOMAIN card' = DOMAIN card /\ card'.tx = card.tx
  BY DEF receive, IInv, TypeOK
<1> QED BY <1>1, UnmovedThread DEF receive, thread

LEMMA StepTransmitted == ASSUME IInv, transmitted PROVE IInv'
<1>1. DOMAIN card' = DOMAIN card /\ card'.tx = <<>> /\ wire' = wire \o card.tx
      /\ UNCHANGED <<box, pc, queue, buf, requested>>
  BY DEF transmitted, thread, IInv, TypeOK
<1>2. Sending' = Sending /\ Asked' = Asked
  BY <1>1 DEF Sending, Asked
<1> DEFINE r == Sending \o (queue \o Asked)
<1>3. /\ r \in Seq(Frames) /\ wire \in Seq(Frames) /\ card.tx \in Seq(Frames)
      /\ wire \o card.tx \in Seq(Frames)
  BY Typed, ConcatProperties DEF IInv, TypeOK
<1> HIDE DEF r
<1>4. (wire \o card.tx) \o (<<>> \o r) = wire \o (card.tx \o r)
  <2>1. <<>> \o r = r
    BY <1>3, Neutral
  <2>2. (wire \o card.tx) \o r = wire \o (card.tx \o r)
    BY <1>3, Associative
  <2> QED BY <2>1, <2>2
<1>5. FramesInOrder'
  BY <1>1, <1>2, <1>4 DEF IInv, FramesInOrder, Upto, r
<1>6. TypeOK'
  BY <1>1, <1>3, EmptySeq DEF IInv, TypeOK
<1> QED BY <1>1, <1>5, <1>6 DEF IInv

LEMMA StepIntr == ASSUME IInv, netdrv_intr PROVE IInv'
<1> DEFINE p == IF "PRX" \in card.isr THEN <<message("RECVINTR", 0)>> ELSE <<>>
           q == IF "PTX" \in card.isr THEN <<message("SENDINTR", 0)>> ELSE <<>>
<1>1. /\ p \in Seq(Message) /\ q \in Seq(Message)
      /\ \A k \in 1..Len(p) : p[k].cmd # "SEND"
      /\ \A k \in 1..Len(q) : q[k].cmd # "SEND"
  <2>1. message("RECVINTR", 0) \in Message /\ message("SENDINTR", 0) \in Message
        /\ message("RECVINTR", 0).cmd # "SEND" /\ message("SENDINTR", 0).cmd # "SEND"
    BY DEF message, Message
  <2> QED BY <2>1
<1>2. box' = (box \o p) \o q /\ UNCHANGED <<pc, queue, buf, wire, requested>>
  BY DEF netdrv_intr, thread
<1>3. DOMAIN card' = DOMAIN card /\ card'.tx = card.tx
  BY DEF netdrv_intr, IInv, TypeOK
<1> HIDE DEF p, q
<1>4. p \o q \in Seq(Message) /\ \A k \in 1..Len(p \o q) : (p \o q)[k].cmd # "SEND"
  <2>1. /\ p \o q \in Seq(Message) /\ Len(p) \in Nat /\ Len(q) \in Nat
        /\ Len(p \o q) = Len(p) + Len(q)
        /\ \A k \in 1..Len(p \o q) : (p \o q)[k] = IF k <= Len(p) THEN p[k] ELSE q[k - Len(p)]
    BY <1>1, ConcatProperties, LenProperties
  <2> SUFFICES ASSUME NEW k \in 1..Len(p \o q) PROVE (p \o q)[k].cmd # "SEND"
    BY <2>1
  <2>2. CASE k <= Len(p)
    BY <1>1, <2>1, <2>2
  <2>3. CASE k > Len(p)
    <3>1. k - Len(p) \in 1..Len(q)
      BY <2>1, <2>3
    <3> QED BY <1>1, <2>1, <2>3, <3>1
  <2> QED BY <2>1, <2>2, <2>3
<1>5. box' = box \o (p \o q)
  <2>1. box \in Seq(Message)
    BY DEF IInv, TypeOK
  <2>2. (box \o p) \o q = box \o (p \o q)
    BY <1>1, <2>1, ConcatAssociative
  <2> QED BY <1>2, <2>2
<1>6. box' \in Seq(Message) /\ Asked' = Asked /\ \A k \in 2..Len(box') : box'[k].cmd # "SEND"
  BY <1>4, <1>5, BoxAppended DEF IInv, FramesInOrder
<1> QED BY <1>2, <1>3, <1>6, Unmoved

LEMMA StepSend == ASSUME IInv, send PROVE IInv'
<1> DEFINE n == requested + 1
<1>1. /\ box = <<>> /\ box' = <<message("SEND", n)>> /\ requested' = n
      /\ UNCHANGED <<pc, queue, buf, card, wire>>
  BY DEF send, thread
<1>2. message("SEND", n) \in Message /\ message("SEND", n).cmd = "SEND"
      /\ message("SEND", n).frame = n /\ n \in Frames
  BY DEF message, Message, Frames, IInv, TypeOK
<1>3. box' \in Seq(Message) /\ Len(box') = 1 /\ box' # <<>> /\ Head(box') = message("SEND", n)
  BY <1>1, <1>2
<1>4. Asked = <<>> /\ Asked' = <<n>> /\ Sending' = Sending
  BY <1>1, <1>2, <1>3 DEF Asked, Sending
<1>5. /\ wire \in Seq(Frames) /\ card.tx \in Seq(Frames) /\ Sending \in Seq(Frames)
      /\ queue \in Seq(Frames) /\ <<n>> \in Seq(Frames)
  BY <1>2, Typed DEF IInv, TypeOK
<1>6. wire \o (card.tx \o (Sending \o queue)) = Upto(requested)
  BY <1>4, <1>5, Neutral DEF IInv, FramesInOrder
<1>7. Upto(requested) \o <<n>> = Upto(n)
  BY UptoNext DEF IInv, TypeOK
<1> HIDE DEF n
<1>8. wire \o (card.tx \o (Sending \o (queue \o <<n>>))) = Upto(n)
  <2> DEFINE p == Sending \o queue
             q == card.tx \o p
  <2>1. p \in Seq(Frames) /\ q \in Seq(Frames)
    BY <1>5, ConcatProperties
  <2>2. Sending \o (queue \o <<n>>) = p \o <<n>>
    BY <1>5, Associative
  <2> HIDE DEF p
  <2>3. card.tx \in Seq(Frames) /\ <<n>> \in Seq(Frames) /\ wire \in Seq(Frames)
    BY <1>5
  <2>4. card.tx \o (p \o <<n>>) = q \o <<n>>
    BY <2>1, <2>3, Associative
  <2> HIDE DEF q
  <2>5. wire \o (q \o <<n>>) = (wire \o q) \o <<n>>
    BY <2>1, <2>3, Associative
  <2>6. wire \o q = Upto(requested)
    BY <1>6 DEF p, q
  <2> QED BY <1>7, <2>2, <2>4, <2>5, <2>6
<1>9. FramesInOrder'
  <2>1. wire' \o (card'.tx \o (Sending' \o (queue' \o Asked'))) = Upto(requested')
    BY <1>1, <1>4, <1>8
  <2>2. \A k \in 2..Len(box') : box'[k].cmd # "SEND"
    BY <1>3
  <2> QED BY <2>1, <2>2 DEF FramesInOrder, Upto
<1>10. TypeOK'
  BY <1>1, <1>2, <1>3 DEF IInv, TypeOK, Frames
<1> QED BY <1>1, <1>9, <1>10 DEF IInv

LEMMA StepCmdUse == ASSUME IInv, NETDRV_CMD_USE PROVE IInv'
BY Received, Unmoved DEF NETDRV_CMD_USE, kz_recv, history, Resting

LEMMA StepCmdSend == ASSUME IInv, NETDRV_CMD_SEND PROVE IInv'
<1> DEFINE f == Head(box).frame
<1>1. /\ box # <<>> /\ box' = Tail(box) /\ Head(box).cmd = "SEND"
      /\ pc = "recv" /\ pc' = "is_send_enable"
      /\ queue' = Append(queue, f)
      /\ UNCHANGED <<buf, card, wire, requested>>
  BY DEF NETDRV_CMD_SEND, kz_recv, history, enqueued
<1>2. f \in Frames /\ Asked = <<f>>
  <2>1. Head(box) \in Message
    BY <1>1, HeadTailProperties DEF IInv, TypeOK
  <2> QED BY <1>1, <2>1 DEF Message, Asked
<1>3. box' \in Seq(Message) /\ Asked' = <<>> /\ \A k \in 2..Len(box') : box'[k].cmd # "SEND"
  BY <1>1, BoxReceived DEF IInv, FramesInOrder
<1>4. Sending' = Sending
  BY <1>1 DEF Sending
<1> HIDE DEF f
<1>5. queue' \in Seq(Frames) /\ queue' = queue \o <<f>> /\ queue' # <<>> /\ queue' \o <<>> = queue'
  BY <1>1, <1>2, AppendProperties, Neutral, EmptySeq DEF IInv, TypeOK
<1>6. FramesInOrder'
  BY <1>1, <1>2, <1>3, <1>4, <1>5 DEF IInv, FramesInOrder, Upto
<1>7. TypeOK'
  BY <1>1, <1>3, <1>5 DEF IInv, TypeOK, Resting
<1> QED BY <1>1, <1>5, <1>6, <1>7 DEF IInv, Holding

LEMMA StepCmdRecvIntr == ASSUME IInv, NETDRV_CMD_RECVINTR PROVE IInv'
BY Received, Unmoved DEF NETDRV_CMD_RECVINTR, kz_recv, history, Resting

\* The first frame of the queue is taken in hand.
LEMMA Popped ==
  ASSUME IInv, queue # <<>>, Pop, pc \in Resting, pc' = "enabled_before_send",
         UNCHANGED <<wire, requested>>, DOMAIN card' = DOMAIN card, card'.tx = card.tx,
         box' \in Seq(Message), Asked' = Asked,
         \A k \in 2..Len(box') : box'[k].cmd # "SEND"
  PROVE  IInv'
<1>1. /\ queue \in Seq(Frames) /\ buf' = Head(queue) /\ queue' = Tail(queue)
      /\ buf' \in Frames /\ queue' \in Seq(Frames)
      /\ queue = <<buf'>> \o queue'
  BY HeadTailProperties DEF Pop, IInv, TypeOK
<1>2. Sending = <<>> /\ Sending' = <<buf'>>
  BY <1>1 DEF IInv, Sending, Resting, Holding, Frames
<1>3. Asked \in Seq(Frames)
  BY Typed DEF IInv
<1>4. Sending' \o (queue' \o Asked) = Sending \o (queue \o Asked)
  <2>1. <<buf'>> \in Seq(Frames) /\ queue \o Asked \in Seq(Frames)
    BY <1>1, <1>3, ConcatProperties
  <2>2. <<buf'>> \o (queue' \o Asked) = queue \o Asked
    BY <1>1, <1>3, <2>1, Associative
  <2> QED BY <1>2, <2>1, <2>2, Neutral
<1>5. FramesInOrder'
  BY <1>4 DEF IInv, FramesInOrder, Upto
<1>6. TypeOK'
  BY <1>1 DEF IInv, TypeOK, Holding, Frames
<1> QED BY <1>1, <1>5, <1>6 DEF IInv, Holding, Resting, Frames

LEMMA StepCmdSendIntr == ASSUME IInv, NETDRV_CMD_SENDINTR PROVE IInv'
<1>1. kz_recv("SENDINTR") /\ pc \in Resting /\ UNCHANGED <<card, wire, requested>>
  BY DEF NETDRV_CMD_SENDINTR, kz_recv, history, Resting
<1>2. /\ box' \in Seq(Message) /\ Asked = <<>> /\ Asked' = <<>>
      /\ \A k \in 2..Len(box') : box'[k].cmd # "SEND"
  BY <1>1, Received
<1>3. CASE queue = <<>> /\ pc' = "send_disable" /\ UNCHANGED <<queue, buf>>
  BY <1>1, <1>2, <1>3, Unmoved DEF Resting
<1>4. CASE queue # <<>> /\ pc' = "enabled_before_send" /\ Pop
  BY <1>1, <1>2, <1>4, Popped
<1> QED BY <1>3, <1>4 DEF NETDRV_CMD_SENDINTR

LEMMA StepCR == ASSUME IInv, CR PROVE IInv'
<1>1. DOMAIN card' = DOMAIN card /\ card'.tx = card.tx
  BY DEF CR, IInv, TypeOK
<1> QED BY <1>1, UnmovedThread DEF CR, history

\* Setting the mask and finishing a transfer leave what is sent alone.
LEMMA CardKeeps ==
  ASSUME TypeOK,
         \/ \E m : SetMask(m)
         \/ card' = [card EXCEPT !.page = 0]
         \/ card' = [card EXCEPT !.dma = "idle"]
         \/ \E b : card' = [card EXCEPT !.dma = "idle", !.bnry = b]
  PROVE  DOMAIN card' = DOMAIN card /\ card'.tx = card.tx
BY DEF SetMask, TypeOK

LEMMA StepAccess ==
  ASSUME IInv,
         \/ rtl8019_intr_recv_enable
         \/ rtl8019_intr_is_send_enable
         \/ rtl8019_intr_send_enable
         \/ rtl8019_intr_send_disable
         \/ rtl8019_recv
         \/ read_header
         \/ recv_packet
  PROVE  IInv'
<1>1. DOMAIN card' = DOMAIN card /\ card'.tx = card.tx
  BY CardKeeps DEF rtl8019_intr_recv_enable, rtl8019_intr_is_send_enable, rtl8019_intr_send_enable,
       rtl8019_intr_send_disable, rtl8019_recv, read_header, recv_packet, IInv
<1>2. UNCHANGED <<queue, buf, wire, requested, box>>
  BY DEF rtl8019_intr_recv_enable, rtl8019_intr_is_send_enable, rtl8019_intr_send_enable,
       rtl8019_intr_send_disable, rtl8019_recv, read_header, recv_packet, At
<1>3. \/ pc \in Resting /\ pc' \in Resting \ {"is_send_enable"}
      \/ pc \in Holding \ {"transmit"} /\ pc' \in Holding \ {"transmit"}
  BY DEF rtl8019_intr_recv_enable, rtl8019_intr_is_send_enable, rtl8019_intr_send_enable,
       rtl8019_intr_send_disable, rtl8019_recv, read_header, recv_packet, At, Resting, Holding
<1> QED BY <1>1, <1>2, <1>3, UnmovedThread

LEMMA StepSendPacket == ASSUME IInv, send_packet PROVE IInv'
<1>1. /\ pc = "is_send_enable" /\ pc \in Resting /\ queue # <<>>
      /\ UNCHANGED <<box, wire, requested>>
  BY DEF send_packet, At, Resting, IInv
<1>2. DOMAIN card' = DOMAIN card /\ card'.tx = card.tx
  BY CardKeeps DEF send_packet, IInv
<1>3. CASE pc' = "recv" /\ UNCHANGED <<queue, buf>>
  BY <1>1, <1>2, <1>3, UnmovedThread DEF Resting
<1>4. CASE pc' = "enabled_before_send" /\ Pop
  <2>1. box' \in Seq(Message) /\ Asked' = Asked /\ \A k \in 2..Len(box') : box'[k].cmd # "SEND"
    BY <1>1 DEF IInv, TypeOK, FramesInOrder, Asked
  <2> QED BY <1>1, <1>2, <1>4, <2>1, Popped
<1> QED BY <1>3, <1>4 DEF send_packet

\* The card gets the frame in hand.
LEMMA StepRtlSend == ASSUME IInv, rtl8019_send PROVE IInv'
<1>1. /\ pc = "write" /\ pc' = "transmit" /\ DOMAIN card' = DOMAIN card /\ card'.tx = <<buf>>
      /\ UNCHANGED <<box, queue, buf, wire, requested>>
  BY DEF rtl8019_send, At, IInv, TypeOK
<1>2. card.tx = <<>> /\ buf # 0 /\ buf \in Frames
  BY <1>1 DEF IInv, TypeOK, Holding, Frames
<1>3. Sending = <<buf>> /\ Sending' = <<>> /\ Asked' = Asked
  BY <1>1, <1>2 DEF Sending, Asked
<1> DEFINE r == queue \o Asked
<1>4. r \in Seq(Frames) /\ <<buf>> \in Seq(Frames) /\ <<buf>> \o r \in Seq(Frames)
  BY <1>2, Typed, ConcatProperties DEF IInv, TypeOK
<1> HIDE DEF r
<1>5. <<buf>> \o (<<>> \o r) = <<>> \o (<<buf>> \o r)
  BY <1>4, Neutral
<1>6. FramesInOrder'
  BY <1>1, <1>2, <1>3, <1>5 DEF IInv, FramesInOrder, Upto, r
<1>7. TypeOK'
  BY <1>1, <1>4 DEF IInv, TypeOK, Holding
<1> QED BY <1>1, <1>6, <1>7 DEF IInv, Holding

LEMMA StepSent == ASSUME IInv, sent PROVE IInv'
<1>1. /\ pc = "transmit" /\ pc' = "recv" /\ buf' = 0 /\ card.tx = <<>>
      /\ UNCHANGED <<box, queue, card, wire, requested>>
  BY DEF sent, history
<1>2. Sending' = Sending /\ Asked' = Asked
  BY <1>1 DEF Sending, Asked
<1>3. FramesInOrder'
  BY <1>1, <1>2 DEF IInv, FramesInOrder, Upto
<1>4. TypeOK'
  BY <1>1 DEF IInv, TypeOK, Resting
<1> QED BY <1>1, <1>3, <1>4 DEF IInv, Holding

-----------------------------------------------------------------------------
LEMMA StepNext == IInv /\ [Next]_vars => IInv'
<1> SUFFICES ASSUME IInv, [Next]_vars PROVE IInv'
  OBVIOUS
<1>1. CASE \E n \in 1..2 : receive(n)
  BY <1>1, StepReceive
<1>2. CASE transmitted
  BY <1>2, StepTransmitted
<1>3. CASE netdrv_intr
  BY <1>3, StepIntr
<1>4. CASE send
  BY <1>4, StepSend
<1>5. CASE netdrv
  BY <1>5, StepCmdUse, StepCmdSend, StepCmdRecvIntr, StepCmdSendIntr, StepCR, StepAccess,
     StepSendPacket, StepRtlSend, StepSent DEF netdrv
<1>6. CASE UNCHANGED vars
  BY <1>6, UnmovedThread DEF vars, thread, history
<1> QED BY <1>1, <1>2, <1>3, <1>4, <1>5, <1>6 DEF Next

\* The order in which frames are sent does not depend on anything the handler may
\* break: it rests on the queue and on the thread's waiting for the card.
THEOREM SendingCorrect == Spec => []FramesInOrder
<1>1. IInv => FramesInOrder
  BY DEF IInv
<1> QED BY <1>1, InitHolds, StepNext, PTL DEF Spec

-----------------------------------------------------------------------------
(* Receiving: as long as the handler has not come in between, the pages    *)
(* from the first one to be read to CURR hold the frames not delivered.    *)

\* How far a page is behind the first one.
Offset(p) == IF p >= First THEN p - First ELSE p - First + (STOP - START)

RingTypes ==
  /\ card.bnry \in Page /\ card.curr \in Page
  /\ card.mem \in [Page -> [frame : Nat, next : Page]]
  /\ stored \in 0..RECVS

\* Frames d + 1 .. d + k begin at the pages c[1] .. c[k], each where the one before ends.
Chain(c, k, d) ==
  /\ c \in [1..(k + 1) -> Page] /\ c[1] = First /\ c[k + 1] = card.curr
  /\ \A i \in 1..k : card.mem[c[i]].frame = d + i /\ card.mem[c[i]].next = c[i + 1]
  /\ \A i, j \in 1..(k + 1) : i < j => Offset(c[i]) < Offset(c[j])

Unread == \E k, d \in Nat : stored = d + k /\ delivered = Upto(d) /\ \E c : Chain(c, k, d)

\* The thread reads CURR on its page, and the header and the data of a frame there is.
RecvOK ==
  /\ RingTypes
  /\ Unread
  /\ pc \in {"recv", "transmit"} => ~cr
  /\ pc = "curr" /\ cr => card.page = 1
  /\ pc \in {"header", "data"} => First # card.curr
  /\ pc = "data" => next = card.mem[First].next

RInv == raced \/ RecvOK

LEMMA OffsetIs ==
  ASSUME card.bnry \in Page
  PROVE  /\ First \in Page
         /\ \A p \in Page : Offset(p) \in 0..(STOP - START - 1)
         /\ \A p \in Page : Offset(p) = 0 <=> p = First
<1>1. First \in START..(STOP - 1)
  BY NetDrvAssumption DEF First, Start, Page
<1>2. \A p \in START..(STOP - 1) : Offset(p) \in 0..(STOP - START - 1) /\ (Offset(p) = 0 <=> p = First)
  <2> HIDE DEF First
  <2> QED BY <1>1, NetDrvAssumption DEF Offset
<1> QED BY <1>1, <1>2 DEF Page

LEMMA SetInduction ==
  ASSUME NEW S \in SUBSET Nat, 0 \in S, \A n \in S : n + 1 \in S
  PROVE  S = Nat
<1> SUFFICES ASSUME Nat \ S # {} PROVE FALSE
  OBVIOUS
<1> DEFINE R == {ss \in Nat \X Nat : ss[1] < ss[2]}
<1>1. IsWellFoundedOn(R, Nat)
  BY NatLessThanWellFounded DEF OpToRel
<1>2. PICK x \in Nat \ S : \A y \in Nat \ S : <<y, x>> \notin R
  <2> HIDE DEF R
  <2> QED BY <1>1, WFMin
<1>3. x # 0 /\ x - 1 \in Nat
  OBVIOUS
<1>4. <<x - 1, x>> \in R
  BY <1>3
<1>5. x - 1 \in S
  BY <1>2, <1>3, <1>4
<1> QED BY <1>3, <1>5

-----------------------------------------------------------------------------
(* What the recursive definition of Ring says.                             *)

Entry(g, p, n) ==
  IF p = card.curr \/ n = 0 THEN <<>> ELSE <<card.mem[p].frame>> \o g[n - 1][card.mem[p].next]
RingTo(g, m) == g = [n \in 0..m |-> [p \in Page |-> Entry(g, p, n)]]

LEMMA RingEntry ==
  ASSUME NEW m \in Nat, NEW g, RingTo(g, m), NEW n \in 0..m, NEW p \in Page
  PROVE  g[n][p] = Entry(g, p, n)
<1> DEFINE E == [j \in 0..m |-> [q \in Page |-> Entry(g, q, j)]]
<1>1. g = E
  BY DEF RingTo
<1>2. E[n] = [q \in Page |-> Entry(g, q, n)]
  OBVIOUS
<1>3. E[n][p] = Entry(g, p, n)
  BY <1>2
<1> HIDE DEF E
<1> QED BY <1>1, <1>3

\* There is such a function, so the definition's equation holds.
LEMMA RingExists ==
  ASSUME RingTypes, NEW m \in Nat
  PROVE  \E g : RingTo(g, m)
<1> DEFINE S == {j \in Nat : \E g : RingTo(g, j)}
<1>1. 0 \in S
  <2> DEFINE z == [p \in Page |-> <<>>]
             g == [n \in 0..0 |-> z]
  <2>1. \A n \in 0..0 : [p \in Page |-> Entry(g, p, n)] = z
    BY DEF Entry
  <2>2. g = [n \in 0..0 |-> [p \in Page |-> Entry(g, p, n)]]
    BY <2>1
  <2> HIDE DEF g
  <2> QED BY <2>2 DEF RingTo
<1>2. ASSUME NEW j \in S PROVE j + 1 \in S
  <2>1. PICK g : RingTo(g, j)
    OBVIOUS
  <2> DEFINE h == [n \in 0..(j + 1) |-> [p \in Page |-> Entry(g, p, n)]]
  <2>2. \A n \in 0..j, p \in Page : h[n][p] = g[n][p]
    BY <2>1, RingEntry
  <2>3. ASSUME NEW n \in 0..(j + 1), NEW p \in Page PROVE Entry(h, p, n) = Entry(g, p, n)
    <3>1. CASE p = card.curr \/ n = 0
      BY <3>1 DEF Entry
    <3>2. CASE ~(p = card.curr \/ n = 0)
      <4>1. n - 1 \in 0..j /\ card.mem[p].next \in Page
        BY <3>2 DEF RingTypes
      <4> HIDE DEF h
      <4> QED BY <2>2, <3>2, <4>1 DEF Entry
    <3> QED BY <3>1, <3>2
  <2>4. h = [n \in 0..(j + 1) |-> [p \in Page |-> Entry(h, p, n)]]
    <3>1. \A n \in 0..(j + 1) : [p \in Page |-> Entry(g, p, n)] = [p \in Page |-> Entry(h, p, n)]
      BY <2>3
    <3> QED BY <3>1
  <2> HIDE DEF h
  <2>5. RingTo(h, j + 1) /\ j + 1 \in Nat
    BY <2>4 DEF RingTo
  <2> QED BY <2>5
<1>3. S = Nat
  <2> HIDE DEF S
  <2>1. S \in SUBSET Nat
    BY DEF S
  <2> QED BY <1>1, <1>2, <2>1, SetInduction
<1> QED BY <1>3

LEMMA RingEquation ==
  ASSUME RingTypes, NEW n \in 0..RECVS, NEW p \in Page
  PROVE  Ring[n][p] = Entry(Ring, p, n)
<1> DEFINE P(h) == h = [j \in 0..RECVS |-> [q \in Page |-> Entry(h, q, j)]]
<1>1. \E h : P(h)
  BY RingExists, NetDrvAssumption DEF RingTo
<1>2. Ring = CHOOSE h : P(h)
  BY DEF Ring, Entry
<1> HIDE DEF P
<1>3. P(Ring)
  BY <1>1, <1>2
<1>4. RingTo(Ring, RECVS) /\ RECVS \in Nat
  BY <1>3, NetDrvAssumption DEF P, RingTo
<1> QED BY <1>4, RingEntry

LEMMA RunPrepended ==
  ASSUME NEW a \in Nat, NEW j \in Nat
  PROVE  <<a>> \o [i \in 1..j |-> a + i] = [i \in 1..(j + 1) |-> a - 1 + i]
<1> DEFINE s == [i \in 1..j |-> a + i]
           u == [i \in 1..(j + 1) |-> a - 1 + i]
<1>1. s \in Seq(Nat) /\ Len(s) = j /\ \A i \in 1..j : s[i] = a + i
  OBVIOUS
<1>2. u \in Seq(Nat) /\ Len(u) = j + 1 /\ \A i \in 1..(j + 1) : u[i] = a - 1 + i
  OBVIOUS
<1>3. <<a>> \in Seq(Nat) /\ Len(<<a>>) = 1 /\ <<a>>[1] = a
  OBVIOUS
<1> HIDE DEF s, u
<1>4. /\ <<a>> \o s \in Seq(Nat) /\ Len(<<a>> \o s) = j + 1
      /\ \A i \in 1..(j + 1) : (<<a>> \o s)[i] = IF i <= 1 THEN <<a>>[i] ELSE s[i - 1]
  BY <1>1, <1>3, ConcatProperties
<1>5. \A i \in 1..(j + 1) : (<<a>> \o s)[i] = u[i]
  <2> SUFFICES ASSUME NEW i \in 1..(j + 1) PROVE (<<a>> \o s)[i] = u[i]
    OBVIOUS
  <2>1. CASE i = 1
    BY <1>2, <1>3, <1>4, <2>1
  <2>2. CASE i # 1
    <3>1. i - 1 \in 1..j
      BY <2>2
    <3> QED BY <1>1, <1>2, <1>4, <2>2, <3>1
  <2> QED BY <2>1, <2>2
<1>6. <<a>> \o s = u
  BY <1>2, <1>4, <1>5, SeqEqual
<1> QED BY <1>6 DEF s, u

LEMMA UptoRun ==
  ASSUME NEW d \in Nat, NEW k \in Nat
  PROVE  Upto(d) \o [i \in 1..k |-> d + i] = Upto(d + k)
<1> DEFINE s == Upto(d)
           u == [i \in 1..k |-> d + i]
           v == Upto(d + k)
<1>1. s \in Seq(Nat) /\ Len(s) = d /\ \A i \in 1..d : s[i] = i
  BY DEF Upto
<1>2. u \in Seq(Nat) /\ Len(u) = k /\ \A i \in 1..k : u[i] = d + i
  OBVIOUS
<1>3. v \in Seq(Nat) /\ Len(v) = d + k /\ \A i \in 1..(d + k) : v[i] = i
  BY DEF Upto
<1> HIDE DEF s, u, v
<1>4. /\ s \o u \in Seq(Nat) /\ Len(s \o u) = d + k
      /\ \A i \in 1..(d + k) : (s \o u)[i] = IF i <= d THEN s[i] ELSE u[i - d]
  BY <1>1, <1>2, ConcatProperties
<1>5. \A i \in 1..(d + k) : (s \o u)[i] = v[i]
  <2> SUFFICES ASSUME NEW i \in 1..(d + k) PROVE (s \o u)[i] = v[i]
    OBVIOUS
  <2>1. CASE i <= d
    BY <1>1, <1>3, <1>4, <2>1
  <2>2. CASE i > d
    <3> DEFINE l == i - d
    <3>1. l \in 1..k /\ d + l = i
      BY <2>2
    <3>2. (s \o u)[i] = u[l] /\ v[i] = i
      BY <1>3, <1>4, <2>2
    <3> HIDE DEF l
    <3> QED BY <1>2, <3>1, <3>2
  <2>3. i <= d \/ i > d
    OBVIOUS
  <2> QED BY <2>1, <2>2, <2>3
<1>6. s \o u = v
  BY <1>3, <1>4, <1>5, SeqEqual
<1> QED BY <1>6 DEF s, u, v

\* Reading the ring gives the frames of the chain.
LEMMA RingOfChain ==
  ASSUME RingTypes, NEW k \in Nat, NEW d \in Nat, stored = d + k, NEW c, Chain(c, k, d)
  PROVE  Ring[RECVS][First] = [i \in 1..k |-> d + i]
<1> DEFINE Run(j) == [i \in 1..j |-> d + k - j + i]
           S == {j \in Nat : j <= k => \A n \in j..RECVS : Ring[n][c[k + 1 - j]] = Run(j)}
<1>1. k <= RECVS /\ RECVS \in Nat
  BY NetDrvAssumption DEF RingTypes
<1>2. 0 \in S
  <2> SUFFICES ASSUME NEW n \in 0..RECVS PROVE Ring[n][c[k + 1]] = <<>>
    OBVIOUS
  <2>1. c[k + 1] = card.curr /\ card.curr \in Page
    BY DEF Chain, RingTypes
  <2> QED BY <2>1, RingEquation DEF Entry
<1>3. ASSUME NEW j \in S, j + 1 <= k, NEW n \in (j + 1)..RECVS
      PROVE  Ring[n][c[k - j]] = Run(j + 1)
  <2>1. k - j \in 1..k /\ k - j \in 1..(k + 1) /\ k + 1 \in 1..(k + 1) /\ k - j < k + 1 /\ j \in Nat
    BY <1>3
  <2>2. c[k - j] \in Page /\ c[k - j] # card.curr
    <3>1. Offset(c[k - j]) < Offset(c[k + 1]) /\ c[k + 1] = card.curr /\ c[k - j] \in Page
      BY <2>1 DEF Chain
    <3>2. Offset(card.curr) \in Nat
      BY OffsetIs DEF RingTypes
    <3> QED BY <3>1, <3>2
  <2>3. card.mem[c[k - j]].frame = d + (k - j) /\ card.mem[c[k - j]].next = c[k - j + 1]
    BY <2>1 DEF Chain
  <2>4. n # 0 /\ n \in 0..RECVS /\ n - 1 \in j..RECVS /\ k - j + 1 = k + 1 - j
    BY <1>1, <2>1
  <2>5. Ring[n - 1][c[k + 1 - j]] = Run(j)
    <3> HIDE DEF Run
    <3>1. j <= k
      BY <1>3, <2>1
    <3> QED BY <2>4, <3>1
  <2>6. Ring[n][c[k - j]] = <<d + (k - j)>> \o Run(j)
    <3>1. Ring[n][c[k - j]] = Entry(Ring, c[k - j], n)
      BY <2>2, <2>4, RingEquation
    <3> HIDE DEF Run
    <3> QED BY <2>2, <2>3, <2>4, <2>5, <3>1 DEF Entry
  <2> DEFINE a == d + (k - j)
  <2>7. a \in Nat /\ Run(j) = [i \in 1..j |-> a + i] /\ Run(j + 1) = [i \in 1..(j + 1) |-> a - 1 + i]
    BY <2>1
  <2> HIDE DEF Run, a
  <2>8. <<a>> \o Run(j) = Run(j + 1)
    BY <2>1, <2>7, RunPrepended
  <2> QED BY <2>6, <2>8 DEF a
<1>4. \A j \in S : j + 1 \in S
  <2> HIDE DEF Run
  <2> SUFFICES ASSUME NEW j \in S, j + 1 <= k
               PROVE  \A n \in (j + 1)..RECVS : Ring[n][c[k + 1 - (j + 1)]] = Run(j + 1)
    OBVIOUS
  <2>1. k + 1 - (j + 1) = k - j
    OBVIOUS
  <2> QED BY <1>3, <2>1
<1>5. S = Nat
  <2> HIDE DEF S
  <2>1. S \in SUBSET Nat
    BY DEF S
  <2> QED BY <1>2, <1>4, <2>1, SetInduction
<1>6. Ring[RECVS][c[k + 1 - k]] = Run(k)
  <2> HIDE DEF Run
  <2>1. k \in S /\ RECVS \in k..RECVS
    BY <1>1, <1>5
  <2> QED BY <2>1
<1>7. k + 1 - k = 1 /\ c[1] = First /\ Run(k) = [i \in 1..k |-> d + i]
  BY DEF Chain
<1> HIDE DEF Run
<1> QED BY <1>6, <1>7

LEMMA RInvShows == RInv => FramesReceived
<1> SUFFICES ASSUME RecvOK PROVE delivered \o Ring[RECVS][First] = Upto(stored)
  BY DEF RInv, FramesReceived
<1>1. PICK k \in Nat, d \in Nat : stored = d + k /\ delivered = Upto(d) /\ \E c : Chain(c, k, d)
  BY DEF RecvOK, Unread
<1>2. Ring[RECVS][First] = [i \in 1..k |-> d + i]
  BY <1>1, RingOfChain DEF RecvOK
<1> QED BY <1>1, <1>2, UptoRun

-----------------------------------------------------------------------------
(* The actions.                                                            *)

LEMMA SameRing ==
  ASSUME RingTypes, Unread, UNCHANGED <<delivered, stored>>,
         card'.bnry = card.bnry, card'.curr = card.curr, card'.mem = card.mem
  PROVE  RingTypes' /\ Unread' /\ First' = First
<1>1. RingTypes' /\ First' = First
  BY DEF RingTypes, First, Start
<1>2. PICK k \in Nat, d \in Nat : stored = d + k /\ delivered = Upto(d) /\ \E c : Chain(c, k, d)
  BY DEF Unread
<1>3. PICK c : Chain(c, k, d)
  BY <1>2
<1>4. Chain(c, k, d)'
  BY <1>1, <1>3 DEF Chain, Offset
<1>5. Unread'
  BY <1>2, <1>4 DEF Unread, Upto
<1> QED BY <1>1, <1>5

\* A step that leaves the ring, and what is read of it, alone.
LEMMA Aside ==
  ASSUME RecvOK, UNCHANGED <<delivered, stored>>,
         card'.bnry = card.bnry, card'.curr = card.curr, card'.mem = card.mem,
         pc' \in {"recv", "transmit"} => ~cr',
         pc' = "curr" /\ cr' => card'.page = 1,
         pc' \in {"header", "data"} => pc' = pc /\ next' = next
  PROVE  RecvOK'
<1>1. RingTypes' /\ Unread' /\ First' = First
  BY SameRing DEF RecvOK
<1> QED BY <1>1 DEF RecvOK

LEMMA RecvInit == Init => RecvOK
<1> SUFFICES ASSUME Init PROVE RecvOK
  OBVIOUS
<1>1. /\ card.bnry = START /\ card.curr = START + 1 /\ pc = "recv" /\ ~cr
      /\ card.mem = [p \in Page |-> [frame |-> 0, next |-> START]]
      /\ stored = 0 /\ delivered = <<>>
  BY DEF Init
<1>2. START \in Page /\ START + 1 \in Page /\ First = START + 1 /\ RECVS \in Nat
  BY <1>1, NetDrvAssumption DEF Page, First, Start
<1>3. RingTypes
  BY <1>1, <1>2 DEF RingTypes
<1>4. Upto(0) = <<>>
  BY DEF Upto
<1> DEFINE c == [i \in 1..1 |-> First]
<1>5. Chain(c, 0, 0)
  BY <1>1, <1>2 DEF Chain
<1> HIDE DEF c
<1>6. Unread
  <2>1. 0 \in Nat /\ stored = 0 + 0 /\ delivered = Upto(0)
    BY <1>1, <1>4
  <2> QED BY <1>5, <2>1 DEF Unread
<1> QED BY <1>1, <1>3, <1>6 DEF RecvOK

LEMMA BeyondIs ==
  ASSUME card.bnry \in Page, NEW p \in Page, NEW n \in 1..2,
         \A k \in 0..(n - 1) : Beyond(p, k) # card.bnry
  PROVE  Beyond(p, n) \in Page /\ Offset(Beyond(p, n)) = Offset(p) + n
<1>1. /\ START \in Nat /\ STOP \in Nat /\ START + 2 < STOP
      /\ p \in START..(STOP - 1) /\ card.bnry \in START..(STOP - 1)
      /\ First = IF card.bnry + 1 = STOP THEN START ELSE card.bnry + 1
  BY NetDrvAssumption DEF Page, First, Start
<1>2. p # card.bnry
  BY <1>1 DEF Beyond
<1>3. CASE n = 1
  BY <1>1, <1>2, <1>3 DEF Beyond, Offset, Page
<1>4. CASE n = 2
  <2>1. Beyond(p, 1) # card.bnry
    BY <1>4
  <2> QED BY <1>1, <1>2, <1>4, <2>1 DEF Beyond, Offset, Page
<1> QED BY <1>3, <1>4

LEMMA RecvReceive == ASSUME IInv, RecvOK, NEW n \in 1..2, receive(n) PROVE RecvOK'
<1>0. PICK curr : curr = Beyond(card.curr, n)
  OBVIOUS
<1>1. /\ card'.bnry = card.bnry /\ card'.curr = curr /\ card'.page = card.page
      /\ card'.mem = [card.mem EXCEPT ![card.curr] = [frame |-> stored + 1, next |-> curr]]
      /\ stored' = stored + 1 /\ stored < RECVS /\ UNCHANGED <<delivered, pc, cr, next>>
  BY <1>0 DEF receive, thread, IInv, TypeOK
<1>2. RingTypes
  BY DEF RecvOK
<1>3. curr \in Page /\ Offset(curr) = Offset(card.curr) + n
  BY <1>0, <1>2, BeyondIs DEF receive, RingTypes
<1>4. /\ card.curr \in Page /\ First \in Page /\ Offset(card.curr) \in Nat /\ Offset(curr) \in Nat
      /\ \A p \in Page : Offset(p) \in Nat
      /\ First' = First /\ \A p : Offset(p)' = Offset(p)
  BY <1>1, <1>2, <1>3, OffsetIs DEF RingTypes, First, Start, Offset
<1>5. RingTypes'
  BY <1>1, <1>2, <1>3, NetDrvAssumption DEF RingTypes
<1>6. PICK k \in Nat, d \in Nat : stored = d + k /\ delivered = Upto(d) /\ \E c : Chain(c, k, d)
  BY DEF RecvOK, Unread
<1>7. PICK c : Chain(c, k, d)
  BY <1>6
<1>8. \A i \in 1..(k + 1) : c[i] \in Page /\ (i # k + 1 => Offset(c[i]) < Offset(card.curr) /\ c[i] # card.curr)
  <2> SUFFICES ASSUME NEW i \in 1..(k + 1), i # k + 1 PROVE Offset(c[i]) < Offset(card.curr) /\ c[i] # card.curr
    BY <1>7 DEF Chain
  <2>1. i < k + 1 /\ k + 1 \in 1..(k + 1)
    OBVIOUS
  <2>2. Offset(c[i]) < Offset(card.curr)
    BY <1>7, <2>1 DEF Chain
  <2> QED BY <1>4, <2>2
<1> DEFINE e == [i \in 1..(k + 2) |-> IF i = k + 2 THEN curr ELSE c[i]]
<1>9. /\ e \in [1..(k + 2) -> Page] /\ e[k + 2] = curr /\ e[k + 1] = card.curr /\ e[1] = First
      /\ \A i \in 1..(k + 1) : e[i] = c[i]
  BY <1>3, <1>7, <1>8 DEF Chain
<1> HIDE DEF e
<1>10. ASSUME NEW i \in 1..(k + 1)
       PROVE  card'.mem[e[i]].frame = d + i /\ card'.mem[e[i]].next = e[i + 1]
  <2>1. CASE i = k + 1
    BY <1>1, <1>2, <1>4, <1>6, <1>9, <2>1 DEF RingTypes
  <2>2. CASE i # k + 1
    <3>1. i \in 1..k /\ i + 1 \in 1..(k + 1)
      BY <2>2
    <3>2. card'.mem[e[i]] = card.mem[c[i]]
      BY <1>1, <1>2, <1>8, <1>9, <2>2 DEF RingTypes
    <3> QED BY <1>7, <1>9, <3>1, <3>2 DEF Chain
  <2> QED BY <2>1, <2>2
<1>11. ASSUME NEW i \in 1..(k + 2), NEW j \in 1..(k + 2), i < j
       PROVE  Offset(e[i]) < Offset(e[j])
  <2>1. i \in 1..(k + 1)
    BY <1>11
  <2>2. CASE j = k + 2
    <3>1. Offset(e[i]) <= Offset(card.curr)
      <4>1. CASE i = k + 1
        BY <1>4, <1>9, <4>1
      <4>2. CASE i # k + 1
        BY <1>4, <1>8, <1>9, <2>1, <4>2
      <4> QED BY <4>1, <4>2
    <3>2. Offset(e[i]) \in Nat
      BY <1>4, <1>9
    <3> QED BY <1>3, <1>4, <1>9, <2>2, <3>1, <3>2
  <2>3. CASE j # k + 2
    <3>1. j \in 1..(k + 1)
      BY <2>3
    <3> QED BY <1>7, <1>9, <1>11, <2>1, <3>1 DEF Chain
  <2> QED BY <2>2, <2>3
<1>12. Chain(e, k + 1, d)'
  <2>1. (k + 1) + 1 = k + 2
    OBVIOUS
  <2>2. \A i, j \in 1..(k + 2) : i < j => Offset(e[i])' < Offset(e[j])'
    BY <1>4, <1>11
  <2> QED BY <1>1, <1>4, <1>9, <1>10, <2>1, <2>2 DEF Chain
<1>13. Unread'
  <2>1. k + 1 \in Nat /\ stored' = d + (k + 1) /\ delivered' = Upto(d)
    BY <1>1, <1>6
  <2> QED BY <1>12, <2>1 DEF Unread, Upto
<1>14. pc \in {"header", "data"} => First # curr /\ card'.mem[First] = card.mem[First]
  <2> SUFFICES ASSUME First # card.curr PROVE First # curr /\ card'.mem[First] = card.mem[First]
    BY DEF RecvOK
  <2>1. Offset(First) = 0
    BY <1>2, <1>4, OffsetIs DEF RingTypes
  <2>2. First # curr
    BY <1>3, <1>4, <2>1
  <2> QED BY <1>1, <1>2, <1>4, <2>2 DEF RingTypes
<1> QED BY <1>1, <1>4, <1>5, <1>13, <1>14 DEF RecvOK

LEMMA RecvIntr == ASSUME IInv, RecvOK, netdrv_intr PROVE RInv'
<1>1. /\ card'.bnry = card.bnry /\ card'.curr = card.curr /\ card'.mem = card.mem
      /\ UNCHANGED <<pc, cr, next, delivered, stored>>
  BY DEF netdrv_intr, thread, IInv, TypeOK
<1>2. raced' \/ ~(pc = "curr" /\ cr)
  <2>1. pc = "curr" /\ cr => card.page # 0
    BY DEF RecvOK
  <2>2. raced' = (raced \/ card.page # 0 \/ card.dma = "busy")
    BY DEF netdrv_intr
  <2> QED BY <2>1, <2>2
<1>3. CASE ~(pc = "curr" /\ cr)
  <2>1. RecvOK'
    BY <1>1, <1>3, Aside DEF RecvOK
  <2> QED BY <2>1 DEF RInv
<1> QED BY <1>2, <1>3 DEF RInv

LEMMA RecvCR == ASSUME IInv, RecvOK, CR PROVE RecvOK'
<1>1. /\ card'.bnry = card.bnry /\ card'.curr = card.curr /\ card'.mem = card.mem
      /\ pc = "curr" => card'.page = 1
  BY DEF CR, IInv, TypeOK
<1> QED BY <1>1, Aside DEF CR, history

\* CURR says whether there is a frame.
LEMMA RecvLook == ASSUME IInv, RecvOK, rtl8019_recv PROVE RecvOK'
<1>1. /\ pc = "curr" /\ cr /\ ~cr' /\ UNCHANGED <<delivered, stored>>
      /\ card' = [card EXCEPT !.page = 0]
      /\ pc' = IF Empty(card.curr) THEN "recv" ELSE "header"
  BY DEF rtl8019_recv, At, Curr, RecvOK
<1>2. card'.bnry = card.bnry /\ card'.curr = card.curr /\ card'.mem = card.mem
  BY <1>1 DEF IInv, TypeOK
<1>3. RingTypes' /\ Unread' /\ First' = First
  BY <1>1, <1>2, SameRing DEF RecvOK
<1>4. ~Empty(card.curr) => First # card.curr
  BY NetDrvAssumption DEF RecvOK, RingTypes, Empty, First, Start, Page
<1> QED BY <1>1, <1>2, <1>3, <1>4 DEF RecvOK

LEMMA RecvHeader == ASSUME IInv, RecvOK, read_header PROVE RecvOK'
<1>1. /\ pc = "header" /\ pc' = "data" /\ ~cr' /\ UNCHANGED <<delivered, stored>>
      /\ card' = [card EXCEPT !.dma = "idle"] /\ next' = card.mem[First].next
  BY DEF read_header, At, Frame
<1>2. card'.bnry = card.bnry /\ card'.curr = card.curr /\ card'.mem = card.mem
  BY <1>1 DEF IInv, TypeOK
<1>3. RingTypes' /\ Unread' /\ First' = First
  BY <1>1, <1>2, SameRing DEF RecvOK
<1> QED BY <1>1, <1>2, <1>3 DEF RecvOK

\* A frame is delivered, and the pages behind it are so much nearer.
LEMMA RecvPacket == ASSUME IInv, RecvOK, recv_packet PROVE RecvOK'
<1>1. /\ pc = "data" /\ pc' = "curr" /\ ~cr' /\ stored' = stored
      /\ card'.curr = card.curr /\ card'.mem = card.mem
      /\ card'.bnry = IF next = START THEN STOP - 1 ELSE next - 1
      /\ delivered' = Append(delivered, card.mem[First].frame)
  BY DEF recv_packet, At, Frame, IInv, TypeOK
<1>2. RingTypes /\ next = card.mem[First].next /\ First # card.curr
  BY <1>1 DEF RecvOK
<1>3. First \in Page /\ next \in Page /\ \A p \in Page : Offset(p) \in Nat
  BY <1>2, OffsetIs DEF RingTypes
<1>4. First' = next /\ card'.bnry \in Page
  BY <1>1, <1>3, NetDrvAssumption DEF First, Start, Page
<1>5. ASSUME NEW p \in Page, Offset(next) <= Offset(p) PROVE Offset(p)' = Offset(p) - Offset(next)
  <2>1. /\ First \in START..(STOP - 1) /\ next \in START..(STOP - 1) /\ p \in START..(STOP - 1)
        /\ Offset(p)' = IF p >= next THEN p - next ELSE p - next + (STOP - START)
    BY <1>3, <1>4 DEF Offset, Page
  <2>2. Offset(p) = IF p >= First THEN p - First ELSE p - First + (STOP - START)
    BY DEF Offset
  <2>3. Offset(next) = IF next >= First THEN next - First ELSE next - First + (STOP - START)
    BY DEF Offset
  <2> HIDE DEF First
  <2> QED BY <1>5, <2>1, <2>2, <2>3, NetDrvAssumption
<1>6. RingTypes'
  BY <1>1, <1>2, <1>4 DEF RingTypes
<1>7. PICK k \in Nat, d \in Nat : stored = d + k /\ delivered = Upto(d) /\ \E c : Chain(c, k, d)
  BY DEF RecvOK, Unread
<1>8. PICK c : Chain(c, k, d)
  BY <1>7
<1>9. k # 0
  BY <1>2, <1>8 DEF Chain
<1>10. card.mem[First].frame = d + 1 /\ c[2] = next
  <2>1. 1 \in 1..k
    BY <1>9
  <2> QED BY <1>2, <1>8, <2>1 DEF Chain
<1>11. delivered' = Upto(d + 1)
  <2>1. Upto(d) \in Seq(Nat) /\ d + 1 \in Nat
    BY DEF Upto
  <2>2. Append(Upto(d), d + 1) = Upto(d) \o <<d + 1>>
    BY <2>1, AppendIsConcat
  <2> QED BY <1>1, <1>7, <1>10, <2>2, UptoNext
<1> DEFINE e == [i \in 1..k |-> c[i + 1]]
<1>12. /\ e \in [1..k -> Page] /\ e[1] = next /\ e[k] = card.curr
       /\ \A i \in 1..k : i + 1 \in 1..(k + 1) /\ e[i] = c[i + 1]
  BY <1>8, <1>9, <1>10 DEF Chain
<1> HIDE DEF e
<1>13. ASSUME NEW i \in 1..(k - 1)
       PROVE  card.mem[e[i]].frame = (d + 1) + i /\ card.mem[e[i]].next = e[i + 1]
  <2>1. i + 1 \in 1..k /\ i \in 1..k /\ d + (i + 1) = (d + 1) + i
    BY <1>9
  <2> QED BY <1>8, <1>12, <2>1 DEF Chain
<1>14. \A i \in 1..k : Offset(next) <= Offset(e[i])
  <2> SUFFICES ASSUME NEW i \in 1..k PROVE Offset(next) <= Offset(e[i])
    OBVIOUS
  <2>1. CASE i = 1
    BY <1>3, <1>12, <2>1
  <2>2. CASE i # 1
    <3>1. 2 < i + 1 /\ 2 \in 1..(k + 1) /\ i + 1 \in 1..(k + 1)
      BY <1>9, <2>2
    <3>2. Offset(c[2]) < Offset(c[i + 1])
      BY <1>8, <3>1 DEF Chain
    <3>3. Offset(next) \in Nat /\ Offset(e[i]) \in Nat
      BY <1>3, <1>12
    <3> QED BY <1>10, <1>12, <3>2, <3>3
  <2> QED BY <2>1, <2>2
<1>15. ASSUME NEW i \in 1..k, NEW j \in 1..k, i < j PROVE Offset(e[i])' < Offset(e[j])'
  <2>1. Offset(e[i]) < Offset(e[j])
    <3>1. i + 1 < j + 1
      BY <1>15
    <3> QED BY <1>8, <1>12, <3>1 DEF Chain
  <2>2. Offset(e[i])' = Offset(e[i]) - Offset(next) /\ Offset(e[j])' = Offset(e[j]) - Offset(next)
    BY <1>5, <1>12, <1>14
  <2>3. Offset(next) \in Nat /\ Offset(e[i]) \in Nat /\ Offset(e[j]) \in Nat
    BY <1>3, <1>12
  <2> QED BY <2>1, <2>2, <2>3
<1>16. Chain(e, k - 1, d + 1)'
  <2>1. (k - 1) + 1 = k
    BY <1>9
  <2> QED BY <1>1, <1>4, <1>12, <1>13, <1>15, <2>1 DEF Chain
<1>17. Unread'
  <2>1. k - 1 \in Nat /\ d + 1 \in Nat /\ stored' = (d + 1) + (k - 1)
    BY <1>1, <1>7, <1>9
  <2> QED BY <1>11, <1>16, <2>1 DEF Unread, Upto
<1> QED BY <1>1, <1>6, <1>17 DEF RecvOK

LEMMA RecvElse ==
  ASSUME IInv, RecvOK,
         \/ transmitted
         \/ send
         \/ NETDRV_CMD_USE
         \/ NETDRV_CMD_SEND
         \/ NETDRV_CMD_RECVINTR
         \/ NETDRV_CMD_SENDINTR
         \/ rtl8019_intr_recv_enable
         \/ send_packet
         \/ rtl8019_intr_is_send_enable
         \/ rtl8019_intr_send_enable
         \/ rtl8019_intr_send_disable
         \/ rtl8019_send
         \/ sent
  PROVE  RecvOK'
<1>1. CASE transmitted
  <2>1. card'.bnry = card.bnry /\ card'.curr = card.curr /\ card'.mem = card.mem /\ card'.page = card.page
    BY <1>1 DEF transmitted, IInv, TypeOK
  <2>2. UNCHANGED <<pc, cr, next, delivered, stored>>
    BY <1>1 DEF transmitted, thread
  <2> QED BY <2>1, <2>2, Aside DEF RecvOK
<1>2. CASE send \/ sent \/ NETDRV_CMD_USE \/ NETDRV_CMD_SEND \/ NETDRV_CMD_RECVINTR \/ NETDRV_CMD_SENDINTR
  <2>1. UNCHANGED <<card, cr, next, delivered, stored>>
    BY <1>2 DEF send, sent, thread, history, kz_recv,
         NETDRV_CMD_USE, NETDRV_CMD_SEND, NETDRV_CMD_RECVINTR, NETDRV_CMD_SENDINTR
  <2>2. pc \in {"recv", "transmit"} /\ pc' \notin {"header", "data"}
    BY <1>2 DEF send, sent, thread, kz_recv,
         NETDRV_CMD_USE, NETDRV_CMD_SEND, NETDRV_CMD_RECVINTR, NETDRV_CMD_SENDINTR
  <2>3. ~cr'
    BY <2>1, <2>2 DEF RecvOK
  <2> QED BY <2>1, <2>2, <2>3, Aside
<1>3. CASE \/ rtl8019_intr_recv_enable \/ send_packet \/ rtl8019_intr_is_send_enable
           \/ rtl8019_intr_send_enable \/ rtl8019_intr_send_disable \/ rtl8019_send
  <2>1. ~cr' /\ UNCHANGED <<next, delivered, stored>> /\ pc' \notin {"header", "data"}
    BY <1>3 DEF rtl8019_intr_recv_enable, send_packet, rtl8019_intr_is_send_enable,
         rtl8019_intr_send_enable, rtl8019_intr_send_disable, rtl8019_send, At
  <2>2. card'.bnry = card.bnry /\ card'.curr = card.curr /\ card'.mem = card.mem
    BY <1>3 DEF rtl8019_intr_recv_enable, send_packet, rtl8019_intr_is_send_enable,
         rtl8019_intr_send_enable, rtl8019_intr_send_disable, rtl8019_send, SetMask, IInv, TypeOK
  <2> QED BY <2>1, <2>2, Aside
<1> QED BY <1>1, <1>2, <1>3

LEMMA RecvNext == ASSUME IInv, RInv, [Next]_vars PROVE RInv'
<1>1. CASE raced
  <2>1. raced'
    BY <1>1 DEF Next, vars, history, receive, transmitted, netdrv_intr, send, netdrv, kz_recv, At, CR, sent,
         NETDRV_CMD_USE, NETDRV_CMD_SEND, NETDRV_CMD_RECVINTR, NETDRV_CMD_SENDINTR,
         rtl8019_intr_recv_enable, send_packet, rtl8019_intr_is_send_enable, rtl8019_intr_send_enable,
         rtl8019_intr_send_disable, rtl8019_send, rtl8019_recv, read_header, recv_packet
  <2> QED BY <2>1 DEF RInv
<1>2. CASE RecvOK
  <2>1. CASE UNCHANGED vars
    BY <1>2, <2>1, Aside DEF vars, thread, history, RInv, RecvOK
  <2>2. CASE Next
    BY <1>2, <2>2, RecvReceive, RecvIntr, RecvCR, RecvLook, RecvHeader, RecvPacket, RecvElse
       DEF Next, netdrv, RInv
  <2> QED BY <2>1, <2>2
<1> QED BY <1>1, <1>2 DEF RInv

\* The Ethernet task gets the frames in the order of their arrival, each once, and the
\* rest of them is in the ring between BNRY and CURR, however often both have wrapped,
\* unless the handler came between a write of CR and its access.
THEOREM ReceivingCorrect == Spec => []FramesReceived
<1>1. Init => IInv /\ RInv
  BY InitHolds, RecvInit DEF RInv
<1>2. IInv /\ RInv /\ [Next]_vars => (IInv /\ RInv)'
  BY StepNext, RecvNext
<1> QED BY <1>1, <1>2, RInvShows, PTL DEF Spec
=============================================================================
