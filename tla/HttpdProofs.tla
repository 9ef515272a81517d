------------------------------ MODULE HttpdProofs ------------------------------
(***************************************************************************)
(* Proofs about Httpd.tla and Tcp.tla, for any number of clients, any      *)
(* requests and replies of any length: Serving and AnswersRight, whatever  *)
(* the clients send (IInv), and ReplyIntact and NeverWild, with what the   *)
(* clients and the network do (JInv).                                      *)
(***************************************************************************)
EXTENDS Httpd, SequenceTheorems, FiniteSetTheorems, WellFoundedInduction, TLAPS

-----------------------------------------------------------------------------
(* One connection.  Nothing is assumed of numbers and data: they come from *)
(* the other end.                                                          *)

Sequence(q) == \E S : q \in Seq(S)

Status == {"LISTEN", "SYNRECV", "ESTAB", "FINWAIT1", "FINWAIT2", "LASTACK", "CLOSED"}
Early == {"LISTEN", "SYNRECV"}

ConOK(con) ==
  /\ DOMAIN con = {"number", "peer", "status", "snd", "seq", "ack", "send_queue", "recv_queue"}
  /\ con.status \in Status
  /\ Sequence(con.send_queue) /\ Sequence(con.recv_queue)

WorkOK(s) ==
  /\ DOMAIN s = {"con", "sent", "told", "opened", "closed", "seen"}
  /\ ConOK(s.con)
  /\ Sequence(s.sent) /\ Sequence(s.told)
  /\ s.opened \in BOOLEAN /\ s.closed \in BOOLEAN

\* Work on s has led to r: it is about the same connection.
Leads(s, r) == WorkOK(r) /\ r.con.number = s.con.number /\ s.seen \subseteq r.seen

\* The task above was told nothing in between.
Silent(s, r) == r.told = s.told /\ r.opened = s.opened /\ r.closed = s.closed

LEMMA Appended ==
  ASSUME NEW q, Sequence(q), NEW x
  PROVE  /\ Sequence(Append(q, x)) /\ Len(q) \in Nat /\ Len(Append(q, x)) = Len(q) + 1
         /\ \A k \in 1..Len(q) : Append(q, x)[k] = q[k]
         /\ Append(q, x)[Len(q) + 1] = x
<1>1. PICK S : q \in Seq(S)
  BY DEF Sequence
<1>2. q \in Seq(S \cup {x}) /\ x \in S \cup {x}
  BY <1>1
<1> HIDE <1>1
<1> QED BY <1>2, AppendProperties, LenProperties DEF Sequence

LEMMA Tailed ==
  ASSUME NEW q, Sequence(q), q # <<>>
  PROVE  /\ Sequence(Tail(q)) /\ Len(q) \in Nat \ {0} /\ Len(Tail(q)) = Len(q) - 1
         /\ \A k \in 1..Len(Tail(q)) : Tail(q)[k] = q[k + 1]
         /\ Head(q) = q[1]
<1>1. PICK S : q \in Seq(S)
  BY DEF Sequence
<1> QED BY <1>1, HeadTailProperties, LenProperties, EmptySeq DEF Sequence

LEMMA Joined ==
  ASSUME NEW q, Sequence(q), NEW t, Sequence(t)
  PROVE  /\ Sequence(q \o t) /\ Len(q) \in Nat /\ Len(t) \in Nat /\ Len(q \o t) = Len(q) + Len(t)
         /\ \A k \in 1..Len(q) : (q \o t)[k] = q[k]
         /\ \A k \in 1..Len(t) : (q \o t)[Len(q) + k] = t[k]
<1>1. PICK S : q \in Seq(S)
  BY DEF Sequence
<1>2. PICK T : t \in Seq(T)
  BY DEF Sequence
<1>3. q \in Seq(S \cup T) /\ t \in Seq(S \cup T)
  BY <1>1, <1>2
<1> HIDE <1>1, <1>2
<1>4. /\ q \o t \in Seq(S \cup T) /\ Len(q) \in Nat /\ Len(t) \in Nat
      /\ Len(q \o t) = Len(q) + Len(t)
      /\ \A k \in 1..Len(q) + Len(t) : (q \o t)[k] = IF k <= Len(q) THEN q[k] ELSE t[k - Len(q)]
  BY <1>3, ConcatProperties, LenProperties
<1> QED BY <1>4 DEF Sequence

\* One packet is sent.
Sends(s, r, flags, data) ==
  /\ r.con.peer = s.con.peer /\ r.con.seq = s.con.seq /\ r.con.ack = s.con.ack
  /\ r.con.send_queue = s.con.send_queue
  /\ r.con.snd = s.con.seq + Size(flags, data)
  /\ r.con.status = IF {"FIN", "ACK"} \subseteq flags THEN "FINWAIT1" ELSE s.con.status
  /\ r.sent = Append(s.sent, segment(flags, s.con.seq, s.con.ack, data))
  /\ "rewound" \notin r.seen => s.con.snd = s.con.seq

LEMMA SendPkt ==
  ASSUME NEW s, WorkOK(s), NEW flags, NEW data
  PROVE  LET r == tcp_sendpkt(s, flags, data)
         IN Leads(s, r) /\ Silent(s, r) /\ Sends(s, r, flags, data)
<1> DEFINE r == tcp_sendpkt(s, flags, data)
<1>1. /\ DOMAIN r = DOMAIN s /\ DOMAIN r.con = DOMAIN s.con
      /\ r.con.number = s.con.number /\ r.con.peer = s.con.peer
      /\ r.con.seq = s.con.seq /\ r.con.ack = s.con.ack
      /\ r.con.snd = s.con.seq + Size(flags, data)
      /\ r.con.send_queue = s.con.send_queue /\ r.con.recv_queue = s.con.recv_queue
      /\ r.sent = Append(s.sent, segment(flags, s.con.seq, s.con.ack, data))
      /\ r.told = s.told /\ r.opened = s.opened /\ r.closed = s.closed
      /\ r.con.status = IF {"FIN", "ACK"} \subseteq flags THEN "FINWAIT1" ELSE s.con.status
      /\ r.seen = IF s.con.snd = s.con.seq THEN s.seen ELSE s.seen \cup {"rewound"}
  BY DEF tcp_sendpkt, WorkOK, ConOK
<1> HIDE DEF r
<1>2. s.seen \subseteq r.seen /\ r.con.status \in Status
  BY <1>1 DEF WorkOK, ConOK, Status
<1>3. Sequence(r.sent)
  BY <1>1, Appended DEF WorkOK
<1>4. WorkOK(r)
  BY <1>1, <1>2, <1>3 DEF WorkOK, ConOK
<1>5. Sends(s, r, flags, data)
  BY <1>1 DEF Sends, WorkOK, ConOK
<1> QED BY <1>1, <1>2, <1>4, <1>5 DEF Leads, Silent, r

\* The first packet of the queue q is sent, when it may be; otherwise nothing.
Flushes(s, r, q) ==
  /\ r.con.peer = s.con.peer /\ r.con.seq = s.con.seq /\ r.con.ack = s.con.ack
  /\ \/ /\ s.con.snd = s.con.seq /\ q # <<>>
        /\ r.con.send_queue = Tail(q)
        /\ r.con.snd = s.con.seq + Size(q[1].flags, q[1].data)
        /\ r.con.status = IF {"FIN", "ACK"} \subseteq q[1].flags THEN "FINWAIT1" ELSE s.con.status
        /\ r.sent = Append(s.sent, segment(q[1].flags, s.con.seq, s.con.ack, q[1].data))
     \/ /\ s.con.snd # s.con.seq \/ q = <<>>
        /\ r.con.send_queue = q
        /\ r.con.snd = s.con.snd /\ r.con.status = s.con.status /\ r.sent = s.sent

LEMMA SendFlush ==
  ASSUME NEW s, WorkOK(s)
  PROVE  LET r == tcp_send_flush(s)
         IN Leads(s, r) /\ Silent(s, r) /\ Flushes(s, r, s.con.send_queue)
<1> DEFINE r == tcp_send_flush(s)
           t == [s EXCEPT !.con.send_queue = Tail(s.con.send_queue)]
           pkt == Head(s.con.send_queue)
<1>1. CASE s.con.snd = s.con.seq /\ s.con.send_queue # <<>>
  <2>1. r = tcp_sendpkt(t, pkt.flags, pkt.data)
    BY <1>1 DEF tcp_send_flush
  <2>2. Sequence(Tail(s.con.send_queue)) /\ pkt = s.con.send_queue[1]
    BY <1>1, Tailed DEF WorkOK, ConOK
  <2>3. /\ DOMAIN t = DOMAIN s /\ DOMAIN t.con = DOMAIN s.con
        /\ t.con.number = s.con.number /\ t.con.status = s.con.status /\ t.con.peer = s.con.peer
        /\ t.con.snd = s.con.snd /\ t.con.seq = s.con.seq /\ t.con.ack = s.con.ack
        /\ t.con.send_queue = Tail(s.con.send_queue) /\ t.con.recv_queue = s.con.recv_queue
        /\ t.sent = s.sent /\ t.told = s.told
        /\ t.opened = s.opened /\ t.closed = s.closed /\ t.seen = s.seen
    BY DEF WorkOK, ConOK
  <2> HIDE DEF t
  <2>4. WorkOK(t)
    BY <2>2, <2>3 DEF WorkOK, ConOK
  <2> HIDE DEF pkt, r
  <2>5. Leads(t, r) /\ Silent(t, r) /\ Sends(t, r, pkt.flags, pkt.data)
    BY <2>1, <2>4, SendPkt
  <2>6. Leads(s, r) /\ Silent(s, r)
    BY <2>3, <2>5 DEF Leads, Silent
  <2>7. Flushes(s, r, s.con.send_queue)
    BY <1>1, <2>2, <2>3, <2>5 DEF Flushes, Sends
  <2> QED BY <2>6, <2>7 DEF r
<1>2. CASE ~(s.con.snd = s.con.seq /\ s.con.send_queue # <<>>)
  <2>1. r = s
    BY <1>2 DEF tcp_send_flush
  <2> HIDE DEF r
  <2> QED BY <1>2, <2>1 DEF Leads, Silent, Flushes, r
<1> QED BY <1>1, <1>2

LEMMA SendEnqueue ==
  ASSUME NEW s, WorkOK(s), NEW flags, NEW data
  PROVE  LET r == tcp_send_enqueue(s, flags, data)
         IN /\ Leads(s, r) /\ Silent(s, r)
            /\ Flushes(s, r, Append(s.con.send_queue, [flags |-> flags, data |-> data]))
<1> DEFINE pkt == [flags |-> flags, data |-> data]
           t == [s EXCEPT !.con.send_queue = Append(s.con.send_queue, pkt)]
           r == tcp_send_enqueue(s, flags, data)
<1>1. r = tcp_send_flush(t)
  BY DEF tcp_send_enqueue
<1>2. Sequence(Append(s.con.send_queue, pkt))
  BY Appended DEF WorkOK, ConOK
<1>3. /\ DOMAIN t = DOMAIN s /\ DOMAIN t.con = DOMAIN s.con
      /\ t.con.number = s.con.number /\ t.con.status = s.con.status /\ t.con.peer = s.con.peer
      /\ t.con.snd = s.con.snd /\ t.con.seq = s.con.seq /\ t.con.ack = s.con.ack
      /\ t.con.send_queue = Append(s.con.send_queue, pkt) /\ t.con.recv_queue = s.con.recv_queue
      /\ t.sent = s.sent /\ t.told = s.told
      /\ t.opened = s.opened /\ t.closed = s.closed /\ t.seen = s.seen
  BY DEF WorkOK, ConOK
<1> HIDE DEF t, r, pkt
<1>4. WorkOK(t)
  BY <1>2, <1>3 DEF WorkOK, ConOK
<1>5. Leads(t, r) /\ Silent(t, r) /\ Flushes(t, r, t.con.send_queue)
  BY <1>1, <1>4, SendFlush
<1>6. Leads(s, r) /\ Silent(s, r)
  BY <1>3, <1>5 DEF Leads, Silent
<1>7. Flushes(s, r, Append(s.con.send_queue, pkt))
  BY <1>3, <1>5 DEF Flushes
<1> QED BY <1>6, <1>7 DEF r, pkt

\* What sending means for the state of the connection.
LEMMA FlushStatus ==
  ASSUME NEW s, NEW r, NEW q, Flushes(s, r, q)
  PROVE  r.con.status \in {s.con.status, "FINWAIT1"}
BY DEF Flushes

-----------------------------------------------------------------------------
(* The pass over the queue of tcp_recv_flush().                            *)

\* What is told is data of connection n and nothing else.
DataOf(told, n) ==
  \A k \in 1..Len(told) : told[k].cmd = "RECV" /\ told[k].number = n

\* What is sent in addition are acknowledgements.
Acknowledgement(seg, n) == seg.flags = {"ACK"} /\ seg.data = <<>> /\ seg.seq = n
Acks(old, new, n) ==
  /\ Len(old) \in Nat /\ Len(new) \in Nat /\ Len(old) <= Len(new)
  /\ \A k \in 1..Len(old) : new[k] = old[k]
  /\ \A k \in 1..Len(new) : k > Len(old) => Acknowledgement(new[k], n)

LEMMA AcksSame == ASSUME NEW q, Sequence(q), NEW n PROVE Acks(q, q, n)
<1>1. Len(q) \in Nat
  BY Appended
<1> QED BY <1>1 DEF Acks

LEMMA AcksMore ==
  ASSUME NEW old, NEW q, NEW n, Acks(old, q, n), Sequence(q), NEW seg, Acknowledgement(seg, n)
  PROVE  Acks(old, Append(q, seg), n)
<1> DEFINE new == Append(q, seg)
<1>1. /\ Len(q) \in Nat /\ Len(new) = Len(q) + 1
      /\ \A k \in 1..Len(q) : new[k] = q[k]
      /\ new[Len(q) + 1] = seg
  BY Appended
<1> HIDE DEF new
<1> QED BY <1>1 DEF Acks, new

\* The pass has led from s to r.
Passes(s, r) ==
  /\ Leads(s, r)
  /\ r.con.status = s.con.status /\ r.opened = s.opened /\ r.closed = s.closed
  /\ r.con.peer = s.con.peer /\ r.con.seq = s.con.seq /\ r.con.send_queue = s.con.send_queue
  /\ s.con.seq \in Int => /\ r.con.snd \in {s.con.snd, s.con.seq}
                          /\ "rewound" \notin r.seen => r.con.snd = s.con.snd
  /\ Acks(s.sent, r.sent, s.con.seq)
  /\ DataOf(r.told, s.con.number)

pass(t, pkt) ==
  IF pkt.seq # t.con.ack
  THEN [t EXCEPT !.con.recv_queue = Append(@, pkt)]
  ELSE LET u == tcp_sendpkt([t EXCEPT !.con.ack = pkt.seq + Len(pkt.data)], {"ACK"}, <<>>)
       IN [u EXCEPT !.told = Append(@, [cmd |-> "RECV", number |-> t.con.number, data |-> pkt.data])]

LEMMA PassStep ==
  ASSUME NEW s, NEW t, Passes(s, t), NEW pkt
  PROVE  Passes(s, pass(t, pkt))
<1> DEFINE r == pass(t, pkt)
<1>0. WorkOK(t)
  BY DEF Passes, Leads
<1>1. CASE pkt.seq # t.con.ack
  <2>1. r = [t EXCEPT !.con.recv_queue = Append(t.con.recv_queue, pkt)]
    BY <1>1 DEF pass
  <2>2. Sequence(Append(t.con.recv_queue, pkt))
    BY <1>0, Appended DEF WorkOK, ConOK
  <2>3. /\ DOMAIN r = DOMAIN t /\ DOMAIN r.con = DOMAIN t.con
        /\ r.con.number = t.con.number /\ r.con.status = t.con.status /\ r.con.peer = t.con.peer
        /\ r.con.snd = t.con.snd /\ r.con.seq = t.con.seq
        /\ r.con.send_queue = t.con.send_queue
        /\ r.con.recv_queue = Append(t.con.recv_queue, pkt)
        /\ r.sent = t.sent /\ r.told = t.told /\ r.opened = t.opened /\ r.closed = t.closed /\ r.seen = t.seen
    BY <1>0, <2>1 DEF WorkOK, ConOK
  <2> HIDE DEF r
  <2>4. WorkOK(r)
    BY <1>0, <2>2, <2>3 DEF WorkOK, ConOK
  <2>5. Passes(s, r)
    BY <2>3, <2>4 DEF Passes, Leads
  <2> QED BY <2>5 DEF r
<1>2. CASE pkt.seq = t.con.ack
  <2> DEFINE v == [t EXCEPT !.con.ack = pkt.seq + Len(pkt.data)]
             u == tcp_sendpkt(v, {"ACK"}, <<>>)
             m == [cmd |-> "RECV", number |-> t.con.number, data |-> pkt.data]
  <2>1. r = [u EXCEPT !.told = Append(u.told, m)]
    BY <1>2 DEF pass
  <2>2. /\ DOMAIN v = DOMAIN t /\ DOMAIN v.con = DOMAIN t.con
        /\ v.con.number = t.con.number /\ v.con.status = t.con.status /\ v.con.peer = t.con.peer
        /\ v.con.snd = t.con.snd /\ v.con.seq = t.con.seq
        /\ v.con.send_queue = t.con.send_queue /\ v.con.recv_queue = t.con.recv_queue
        /\ v.sent = t.sent /\ v.told = t.told /\ v.opened = t.opened /\ v.closed = t.closed /\ v.seen = t.seen
    BY <1>0 DEF WorkOK, ConOK
  <2> HIDE DEF v
  <2>3. WorkOK(v)
    BY <1>0, <2>2 DEF WorkOK, ConOK
  <2>4. Leads(v, u) /\ Silent(v, u) /\ Sends(v, u, {"ACK"}, <<>>)
    BY <2>3, SendPkt
  <2> HIDE DEF u
  <2>5. /\ u.con.status = v.con.status /\ u.con.peer = v.con.peer
        /\ u.con.seq = v.con.seq /\ u.con.send_queue = v.con.send_queue
        /\ v.con.seq \in Int => /\ u.con.snd = v.con.seq
                                /\ "rewound" \notin u.seen => u.con.snd = v.con.snd
        /\ \E seg : Acknowledgement(seg, t.con.seq) /\ u.sent = Append(v.sent, seg)
    <3>1. Acknowledgement(segment({"ACK"}, v.con.seq, v.con.ack, <<>>), t.con.seq)
      BY <2>2 DEF Acknowledgement, segment
    <3>2. u.con.snd = v.con.seq + Size({"ACK"}, <<>>)
      BY <2>4 DEF Sends
    <3>3. Size({"ACK"}, <<>>) = 0
      BY DEF Size
    <3>4. v.con.seq \in Int => u.con.snd = v.con.seq
      BY <3>2, <3>3
    <3> QED BY <2>4, <3>1, <3>4 DEF Sends
  <2>6. m.cmd = "RECV" /\ m.number = t.con.number
    OBVIOUS
  <2> HIDE DEF m
  <2>7. /\ DOMAIN r = DOMAIN u /\ r.con = u.con /\ r.sent = u.sent /\ r.told = Append(u.told, m)
        /\ r.opened = u.opened /\ r.closed = u.closed /\ r.seen = u.seen
    BY <2>1, <2>4 DEF Leads, WorkOK
  <2> HIDE DEF r
  <2>8. /\ Sequence(r.told) /\ Len(t.told) \in Nat /\ Len(r.told) = Len(t.told) + 1
        /\ \A k \in 1..Len(t.told) : r.told[k] = t.told[k]
        /\ r.told[Len(t.told) + 1] = m
    BY <1>0, <2>2, <2>4, <2>7, Appended DEF WorkOK, Silent
  <2>9. WorkOK(r)
    BY <2>4, <2>7, <2>8 DEF Leads, WorkOK
  <2>10. t.con.number = s.con.number
    BY DEF Passes, Leads
  <2>11. DataOf(r.told, s.con.number)
    <3> SUFFICES ASSUME NEW k \in 1..Len(r.told)
                 PROVE  r.told[k].cmd = "RECV" /\ r.told[k].number = s.con.number
      BY DEF DataOf
    <3>1. CASE k \in 1..Len(t.told)
      BY <2>8, <3>1 DEF Passes, DataOf
    <3>2. CASE k = Len(t.told) + 1
      BY <2>6, <2>8, <2>10, <3>2
    <3> QED BY <2>8, <3>1, <3>2
  <2>12. Acks(s.sent, r.sent, s.con.seq)
    <3>1. Acks(s.sent, t.sent, s.con.seq) /\ Sequence(t.sent) /\ t.con.seq = s.con.seq
      BY <1>0 DEF Passes, WorkOK
    <3>2. PICK seg : Acknowledgement(seg, t.con.seq) /\ u.sent = Append(v.sent, seg)
      BY <2>5
    <3> QED BY <2>2, <2>7, <3>1, <3>2, AcksMore
  <2>13. Passes(s, r)
    BY <2>2, <2>4, <2>5, <2>7, <2>9, <2>11, <2>12 DEF Passes, Leads, Silent
  <2> QED BY <2>13 DEF r
<1> QED BY <1>1, <1>2

\* The fold of the pass: g[S] is what the packets with the numbers S lead to.
Highest(S) == CHOOSE x \in S : \A y \in S : x >= y
Result(g, s, q, S) == IF S = {} THEN s ELSE pass(g[S \ {Highest(S)}], q[Highest(S)])
Results(g, s, q) == g = [S \in SUBSET DOMAIN q |-> Result(g, s, q, S)]

LEMMA FlushIs ==
  ASSUME NEW s
  PROVE  LET q == s.con.recv_queue
             t == [s EXCEPT !.con.recv_queue = <<>>]
         IN tcp_recv_flush(s) = (CHOOSE g : Results(g, t, q))[DOMAIN q]
BY DEF tcp_recv_flush, pass, FoldLeft, MapThenFoldSet, Max, Highest, Result, Results

\* Induction over the natural numbers, for a set.
LEMMA SetInduction ==
  ASSUME NEW S \in SUBSET Nat, 0 \in S, \A n \in S : n + 1 \in S
  PROVE  S = Nat
<1> SUFFICES ASSUME Nat \ S # {} PROVE FALSE
  OBVIOUS
<1> DEFINE R == {ss \in Nat \X Nat : ss[1] < ss[2]}
<1>1. IsWellFoundedOn(R, Nat)
  BY NatLessThanWellFounded DEF OpToRel
<1>2. PICK x \in Nat \ S : \A y \in Nat \ S : <<y, x>> \notin R
  <2> HIDE DEF R
  <2> QED BY <1>1, WFMin
<1>3. x # 0 /\ x - 1 \in Nat
  OBVIOUS
<1>4. <<x - 1, x>> \in R
  BY <1>3
<1>5. x - 1 \in S
  BY <1>2, <1>3, <1>4
<1> QED BY <1>3, <1>5

LEMMA NumbersFinite ==
  ASSUME NEW n \in Nat, NEW S \in SUBSET (1..n)
  PROVE  IsFiniteSet(S) /\ Cardinality(S) \in Nat /\ Cardinality(S) <= n
<1> DEFINE U == 1..n
<1>1. IsFiniteSet(U) /\ Cardinality(U) = n /\ S \in SUBSET U
  BY FS_Interval
<1> HIDE DEF U
<1> QED BY <1>1, FS_Subset, FS_CardinalityType

LEMMA Fewer ==
  ASSUME NEW n \in Nat, NEW S \in SUBSET (1..n), S # {}
  PROVE  /\ Highest(S) \in S /\ S \ {Highest(S)} \in SUBSET (1..n)
         /\ Cardinality(S) \in Nat \ {0}
         /\ Cardinality(S \ {Highest(S)}) = Cardinality(S) - 1
<1>1. \E x \in S : \A y \in S : x >= y
  <2> DEFINE N == {k \in Nat : S \cap (1..k) = {} \/ \E x \in S \cap (1..k) : \A y \in S \cap (1..k) : x >= y}
  <2>1. 0 \in N
    OBVIOUS
  <2>2. ASSUME NEW k \in N PROVE k + 1 \in N
    <3>1. CASE k + 1 \in S
      <4>1. k + 1 \in S \cap (1..(k + 1)) /\ \A y \in S \cap (1..(k + 1)) : k + 1 >= y
        BY <3>1
      <4> QED BY <4>1
    <3>2. CASE k + 1 \notin S
      <4>1. S \cap (1..(k + 1)) = S \cap (1..k)
        BY <3>2
      <4> QED BY <4>1
    <3> QED BY <3>1, <3>2
  <2>3. N = Nat
    <3>1. N \in SUBSET Nat
      OBVIOUS
    <3> HIDE DEF N
    <3> QED BY <2>1, <2>2, <3>1, SetInduction
  <2>4. S \cap (1..n) = S
    OBVIOUS
  <2> QED BY <2>3, <2>4
<1>2. Highest(S) \in S
  BY <1>1 DEF Highest
<1>3. IsFiniteSet(S)
  BY NumbersFinite
<1>4. IsFiniteSet(S \ {Highest(S)}) /\ Cardinality(S \ {Highest(S)}) = Cardinality(S) - 1
  BY <1>2, <1>3, FS_RemoveElement
<1>5. Cardinality(S) \in Nat /\ Cardinality(S \ {Highest(S)}) \in Nat
  BY <1>3, <1>4, FS_CardinalityType
<1>6. Cardinality(S) # 0
  BY <1>4, <1>5
<1> QED BY <1>2, <1>4, <1>5, <1>6

LEMMA ResultsExist ==
  ASSUME NEW s, NEW q, NEW n \in Nat, DOMAIN q = 1..n
  PROVE  \E g : Results(g, s, q)
<1> DEFINE Small(k) == {S \in SUBSET (1..n) : Cardinality(S) <= k}
           Upto(g, k) == g = [S \in Small(k) |-> Result(g, s, q, S)]
           N == {k \in Nat : \E g : Upto(g, k)}
<1>0. \A S \in SUBSET (1..n) : Cardinality(S) \in Nat
  BY NumbersFinite
<1>1. 0 \in N
  <2> DEFINE h == [S \in Small(0) |-> s]
  <2>1. \A S \in Small(0) : S = {}
    <3> SUFFICES ASSUME NEW S \in SUBSET (1..n), Cardinality(S) <= 0, S # {} PROVE FALSE
      OBVIOUS
    <3>1. Cardinality(S) \in Nat \ {0}
      BY Fewer
    <3> QED BY <3>1
  <2>2. \A S \in Small(0) : Result(h, s, q, S) = s
    BY <2>1 DEF Result
  <2>3. Upto(h, 0)
    BY <2>2
  <2> QED BY <2>3
<1>2. ASSUME NEW k \in N PROVE k + 1 \in N
  <2>1. PICK g : Upto(g, k)
    OBVIOUS
  <2> DEFINE h == [S \in Small(k + 1) |-> Result(g, s, q, S)]
  <2>2. \A S \in Small(k) : S \in Small(k + 1) /\ h[S] = g[S]
    <3> SUFFICES ASSUME NEW S \in Small(k) PROVE S \in Small(k + 1) /\ h[S] = g[S]
      OBVIOUS
    <3>1. g[S] = Result(g, s, q, S)
      <4>1. [T \in Small(k) |-> Result(g, s, q, T)][S] = Result(g, s, q, S)
        OBVIOUS
      <4> QED BY <4>1, <2>1
    <3> QED BY <1>0, <3>1
  <2>3. \A S \in Small(k + 1) : Result(h, s, q, S) = Result(g, s, q, S)
    <3> SUFFICES ASSUME NEW S \in Small(k + 1) PROVE Result(h, s, q, S) = Result(g, s, q, S)
      OBVIOUS
    <3>1. CASE S = {}
      BY <3>1 DEF Result
    <3>2. CASE S # {}
      <4>1. S \ {Highest(S)} \in Small(k)
        <5> DEFINE T == S \ {Highest(S)}
        <5>1. S \in SUBSET (1..n) /\ Cardinality(S) <= k + 1
          OBVIOUS
        <5>2. T \in SUBSET (1..n) /\ Cardinality(S) \in Nat /\ Cardinality(T) = Cardinality(S) - 1
          BY <3>2, <5>1, Fewer
        <5> HIDE DEF T
        <5>3. Cardinality(T) <= k
          BY <5>1, <5>2
        <5>4. T \in Small(k)
          BY <5>2, <5>3
        <5> QED BY <5>4 DEF T
      <4>2. h[S \ {Highest(S)}] = g[S \ {Highest(S)}]
        BY <2>2, <4>1
      <4> HIDE DEF h
      <4> QED BY <4>2 DEF Result
    <3> QED BY <3>1, <3>2
  <2>4. Upto(h, k + 1)
    BY <2>3
  <2>5. k + 1 \in Nat
    OBVIOUS
  <2> HIDE DEF h, Upto
  <2> QED BY <2>4, <2>5
<1>3. N = Nat
  <2>1. N \in SUBSET Nat
    OBVIOUS
  <2> HIDE DEF N
  <2> QED BY <1>1, <1>2, <2>1, SetInduction
<1>4. n \in Nat /\ Small(n) = SUBSET (1..n)
  <2>1. \A S \in SUBSET (1..n) : Cardinality(S) <= n
    BY NumbersFinite
  <2> QED BY <2>1
<1>5. PICK g : Upto(g, n)
  BY <1>3, <1>4
<1>6. Results(g, s, q)
  BY <1>4, <1>5 DEF Results
<1> QED BY <1>6

\* Packets of the queue that are next are told as data of the connection, and
\* nothing else happens to it.
LEMMA RecvFlush ==
  ASSUME NEW s, WorkOK(s), s.told = <<>>
  PROVE  Passes(s, tcp_recv_flush(s))
<1> DEFINE q == s.con.recv_queue
           t == [s EXCEPT !.con.recv_queue = <<>>]
           g == CHOOSE g : Results(g, t, q)
<1>1. PICK n \in Nat : DOMAIN q = 1..n
  <2>1. PICK S : q \in Seq(S)
    BY DEF WorkOK, ConOK, Sequence
  <2> HIDE DEF q
  <2>2. Len(q) \in Nat /\ DOMAIN q = 1..Len(q)
    BY <2>1, LenProperties
  <2> QED BY <2>2
<1>2. tcp_recv_flush(s) = g[DOMAIN q]
  BY FlushIs
<1>3. /\ DOMAIN t = DOMAIN s /\ DOMAIN t.con = DOMAIN s.con
      /\ t.con.number = s.con.number /\ t.con.status = s.con.status /\ t.con.peer = s.con.peer
      /\ t.con.snd = s.con.snd /\ t.con.seq = s.con.seq
      /\ t.con.send_queue = s.con.send_queue /\ t.con.recv_queue = <<>>
      /\ t.sent = s.sent /\ t.told = <<>> /\ t.opened = s.opened /\ t.closed = s.closed /\ t.seen = s.seen
  BY DEF WorkOK, ConOK
<1> HIDE DEF t, q
<1>4. Passes(s, t)
  <2>1. Sequence(<<>>) /\ Len(<<>>) = 0
    <3>1. <<>> \in Seq({})
      OBVIOUS
    <3> QED BY <3>1 DEF Sequence
  <2>2. WorkOK(t)
    BY <1>3, <2>1 DEF WorkOK, ConOK
  <2>3. Acks(s.sent, t.sent, s.con.seq)
    BY <1>3, AcksSame DEF WorkOK
  <2> QED BY <1>3, <2>1, <2>2, <2>3 DEF Passes, Leads, DataOf
<1>5. Results(g, t, q)
  BY <1>1, ResultsExist
<1> HIDE DEF g
<1>6. \A S \in SUBSET (1..n) : g[S] = Result(g, t, q, S)
  <2> SUFFICES ASSUME NEW S \in SUBSET (1..n) PROVE g[S] = Result(g, t, q, S)
    OBVIOUS
  <2>1. [T \in SUBSET (1..n) |-> Result(g, t, q, T)][S] = Result(g, t, q, S)
    OBVIOUS
  <2> QED BY <1>1, <1>5, <2>1 DEF Results
<1> DEFINE N == {k \in Nat : \A S \in SUBSET (1..n) : Cardinality(S) = k => Passes(s, g[S])}
<1>7. 0 \in N
  <2> SUFFICES ASSUME NEW S \in SUBSET (1..n), Cardinality(S) = 0 PROVE Passes(s, g[S])
    OBVIOUS
  <2>1. S = {}
    <3> SUFFICES ASSUME S # {} PROVE FALSE
      OBVIOUS
    <3>1. Cardinality(S) \in Nat \ {0}
      BY Fewer
    <3> QED BY <3>1
  <2>2. g[S] = t
    BY <1>6, <2>1 DEF Result
  <2> QED BY <1>4, <2>2
<1>8. ASSUME NEW k \in N PROVE k + 1 \in N
  <2> SUFFICES ASSUME NEW S \in SUBSET (1..n), Cardinality(S) = k + 1 PROVE Passes(s, g[S])
    OBVIOUS
  <2>1. CASE S = {}
    <3>1. g[S] = t
      BY <1>6, <2>1 DEF Result
    <3> QED BY <1>4, <3>1
  <2>2. CASE S # {}
    <3>1. S \ {Highest(S)} \in SUBSET (1..n) /\ Cardinality(S \ {Highest(S)}) = Cardinality(S) - 1
      BY <2>2, Fewer
    <3>2. Cardinality(S \ {Highest(S)}) = k
      BY <3>1
    <3>3. Passes(s, g[S \ {Highest(S)}])
      BY <3>1, <3>2
    <3>4. g[S] = pass(g[S \ {Highest(S)}], q[Highest(S)])
      BY <1>6, <2>2 DEF Result
    <3> QED BY <3>3, <3>4, PassStep
  <2> QED BY <2>1, <2>2
<1>9. N = Nat
  <2>1. N \in SUBSET Nat
    OBVIOUS
  <2> HIDE DEF N
  <2> QED BY <1>7, <1>8, <2>1, SetInduction
<1>10. Cardinality(1..n) \in Nat
  BY FS_Interval, FS_CardinalityType
<1>11. Passes(s, g[1..n])
  BY <1>9, <1>10
<1> QED BY <1>1, <1>2, <1>11

-----------------------------------------------------------------------------
(* tcp_recv(): what becomes of a connection.                               *)

\* An acknowledgement opens a connection that waits for the end of the
\* handshake; no other connection comes to be past it.
LEMMA AcknowledgedStep ==
  ASSUME NEW s, WorkOK(s), s.told = <<>>, s.opened = FALSE, NEW seg
  PROVE  LET r == Acknowledged(s, seg)
         IN /\ Leads(s, r) /\ r.told = <<>>
            /\ r.opened => s.con.status \in Early /\ r.con.status = "ESTAB"
            /\ ~r.opened => (r.con.status \in Early <=> s.con.status \in Early)
            /\ ~r.opened /\ r.con.status = "ESTAB" => s.con.status = "ESTAB"
<1> DEFINE r == Acknowledged(s, seg)
           t == [s EXCEPT !.con.seq = seg.ack]
           u == IF t.con.status = "ESTAB" THEN tcp_send_flush(t) ELSE t
<1>1. CASE "ACK" \notin seg.flags
  <2>1. r = s
    BY <1>1 DEF Acknowledged
  <2> QED BY <2>1 DEF Leads
<1>2. CASE "ACK" \in seg.flags
  <2>1. /\ DOMAIN t = DOMAIN s /\ DOMAIN t.con = DOMAIN s.con
        /\ t.con.number = s.con.number /\ t.con.status = s.con.status
        /\ t.con.send_queue = s.con.send_queue /\ t.con.recv_queue = s.con.recv_queue
        /\ t.sent = s.sent /\ t.told = s.told /\ t.opened = s.opened /\ t.closed = s.closed /\ t.seen = s.seen
    BY DEF WorkOK, ConOK
  <2>2. r = CASE u.con.status = "SYNRECV"  -> [u EXCEPT !.con.status = "ESTAB", !.opened = TRUE]
              [] u.con.status = "FINWAIT1" -> [u EXCEPT !.con.status = "FINWAIT2"]
              [] u.con.status = "LASTACK"  -> [u EXCEPT !.con.status = "CLOSED", !.closed = TRUE]
              [] OTHER                     -> u
    BY <1>2 DEF Acknowledged
  <2> HIDE DEF t
  <2>3. WorkOK(t)
    BY <2>1 DEF WorkOK, ConOK
  <2>4. /\ Leads(s, u) /\ u.told = <<>> /\ u.opened = FALSE
        /\ u.con.status = s.con.status \/ (s.con.status = "ESTAB" /\ u.con.status = "FINWAIT1")
    <3>1. CASE t.con.status = "ESTAB"
      <4>1. u = tcp_send_flush(t)
        BY <3>1
      <4> HIDE DEF u
      <4>2. Leads(t, u) /\ Silent(t, u) /\ u.con.status \in {t.con.status, "FINWAIT1"}
        BY <2>3, <4>1, SendFlush, FlushStatus
      <4> QED BY <2>1, <3>1, <4>2 DEF Leads, Silent
    <3>2. CASE t.con.status # "ESTAB"
      <4>1. u = t
        BY <3>2
      <4> HIDE DEF u
      <4> QED BY <2>1, <2>3, <4>1 DEF Leads
    <3> QED BY <3>1, <3>2
  <2> HIDE DEF u, r
  <2>5. WorkOK(u)
    BY <2>4 DEF Leads
  <2>6. CASE u.con.status = "SYNRECV"
    <3>1. r = [u EXCEPT !.con.status = "ESTAB", !.opened = TRUE]
      BY <2>2, <2>6
    <3>2. /\ DOMAIN r = DOMAIN u /\ DOMAIN r.con = DOMAIN u.con
          /\ r.con.number = u.con.number /\ r.con.status = "ESTAB"
          /\ r.con.send_queue = u.con.send_queue /\ r.con.recv_queue = u.con.recv_queue
          /\ r.sent = u.sent /\ r.told = u.told /\ r.opened = TRUE /\ r.closed = u.closed /\ r.seen = u.seen
      BY <2>5, <3>1 DEF WorkOK, ConOK
    <3>3. WorkOK(r)
      BY <2>5, <3>2 DEF WorkOK, ConOK, Status
    <3>4. Leads(s, r) /\ r.told = <<>> /\ s.con.status \in Early
      BY <2>4, <2>6, <3>2, <3>3 DEF Leads, Early
    <3> QED BY <3>2, <3>4 DEF r
  <2>7. CASE u.con.status \in {"FINWAIT1", "LASTACK"}
    <3>1. \/ u.con.status = "FINWAIT1" /\ r = [u EXCEPT !.con.status = "FINWAIT2"]
          \/ u.con.status = "LASTACK" /\ r = [u EXCEPT !.con.status = "CLOSED", !.closed = TRUE]
      BY <2>2, <2>7
    <3>2. /\ DOMAIN r = DOMAIN u /\ DOMAIN r.con = DOMAIN u.con
          /\ r.con.number = u.con.number /\ r.con.status \in {"FINWAIT2", "CLOSED"}
          /\ r.con.send_queue = u.con.send_queue /\ r.con.recv_queue = u.con.recv_queue
          /\ r.sent = u.sent /\ r.told = u.told /\ r.opened = u.opened /\ r.closed \in {TRUE, u.closed} /\ r.seen = u.seen
      <4>1. CASE r = [u EXCEPT !.con.status = "FINWAIT2"]
        BY <2>5, <4>1 DEF WorkOK, ConOK
      <4>2. CASE r = [u EXCEPT !.con.status = "CLOSED", !.closed = TRUE]
        BY <2>5, <4>2 DEF WorkOK, ConOK
      <4> QED BY <3>1, <4>1, <4>2
    <3>3. WorkOK(r)
      BY <2>5, <3>2 DEF WorkOK, ConOK, Status
    <3>4. Leads(s, r) /\ r.told = <<>> /\ r.opened = FALSE
          /\ s.con.status \notin Early /\ r.con.status \notin Early
      BY <2>4, <2>7, <3>2, <3>3 DEF Leads, Early
    <3> QED BY <3>2, <3>4 DEF r
  <2>8. CASE u.con.status \notin {"SYNRECV", "FINWAIT1", "LASTACK"}
    <3>1. r = u
      BY <2>2, <2>8
    <3> QED BY <2>4, <2>8, <3>1 DEF r, Early
  <2> QED BY <2>6, <2>7, <2>8
<1> QED BY <1>1, <1>2

\* What SYN and FIN do: a connection past the handshake stays past it, an
\* other one before it, and none comes to be established.
Moves(s, r) ==
  /\ Leads(s, r) /\ r.told = s.told /\ r.opened = s.opened
  /\ r.con.status \in Early <=> s.con.status \in Early
  /\ r.con.status = "ESTAB" => s.con.status = "ESTAB"

LEMMA SynchronizedStep ==
  ASSUME NEW s, WorkOK(s), NEW c, NEW seg
  PROVE  Moves(s, Synchronized(s, c, seg))
<1> DEFINE r == Synchronized(s, c, seg)
           t == [s EXCEPT !.con.snd = 1, !.con.seq = 1, !.con.peer = c, !.con.ack = seg.seq + 1]
           u == tcp_send_enqueue(t, {"SYN", "ACK"}, <<>>)
<1>1. CASE "SYN" \notin seg.flags \/ s.con.status # "LISTEN"
  <2>1. r = s
    BY <1>1 DEF Synchronized
  <2> QED BY <2>1 DEF Moves, Leads
<1>2. CASE ~("SYN" \notin seg.flags \/ s.con.status # "LISTEN")
  <2>1. r = [u EXCEPT !.con.status = "SYNRECV"] /\ s.con.status = "LISTEN"
    BY <1>2 DEF Synchronized
  <2>2. /\ DOMAIN t = DOMAIN s /\ DOMAIN t.con = DOMAIN s.con
        /\ t.con.number = s.con.number /\ t.con.status = s.con.status
        /\ t.con.send_queue = s.con.send_queue /\ t.con.recv_queue = s.con.recv_queue
        /\ t.sent = s.sent /\ t.told = s.told /\ t.opened = s.opened /\ t.closed = s.closed /\ t.seen = s.seen
    BY DEF WorkOK, ConOK
  <2> HIDE DEF t
  <2>3. WorkOK(t)
    BY <2>2 DEF WorkOK, ConOK
  <2>4. Leads(t, u) /\ Silent(t, u)
    BY <2>3, SendEnqueue
  <2> HIDE DEF u, r
  <2>5. WorkOK(u)
    BY <2>4 DEF Leads
  <2>6. /\ DOMAIN r = DOMAIN u /\ DOMAIN r.con = DOMAIN u.con
        /\ r.con.number = u.con.number /\ r.con.status = "SYNRECV"
        /\ r.con.send_queue = u.con.send_queue /\ r.con.recv_queue = u.con.recv_queue
        /\ r.sent = u.sent /\ r.told = u.told /\ r.opened = u.opened /\ r.closed = u.closed /\ r.seen = u.seen
    BY <2>1, <2>5 DEF WorkOK, ConOK
  <2>7. WorkOK(r)
    BY <2>5, <2>6 DEF WorkOK, ConOK, Status
  <2>8. Moves(s, r)
    BY <2>1, <2>2, <2>4, <2>6, <2>7 DEF Moves, Leads, Silent, Early
  <2> QED BY <2>8 DEF r
<1> QED BY <1>1, <1>2

LEMMA FinishedStep ==
  ASSUME NEW s, WorkOK(s), NEW seg
  PROVE  Moves(s, Finished(s, seg))
<1> DEFINE r == Finished(s, seg)
           v == [s EXCEPT !.con.ack = seg.seq + 1]
           t == tcp_sendpkt(v, {"ACK"}, <<>>)
           u == tcp_send_enqueue(t, {"FIN", "ACK"}, <<>>)
<1>1. CASE "FIN" \notin seg.flags \/ s.con.status \notin {"FINWAIT2", "ESTAB"}
  <2>1. r = s
    BY <1>1 DEF Finished
  <2> QED BY <2>1 DEF Moves, Leads
<1>2. CASE ~("FIN" \notin seg.flags \/ s.con.status \notin {"FINWAIT2", "ESTAB"})
  <2>1. /\ s.con.status \in {"FINWAIT2", "ESTAB"}
        /\ r = IF s.con.status = "FINWAIT2"
               THEN [t EXCEPT !.con.status = "CLOSED", !.closed = TRUE]
               ELSE [u EXCEPT !.con.status = "LASTACK"]
    BY <1>2 DEF Finished
  <2>2. /\ DOMAIN v = DOMAIN s /\ DOMAIN v.con = DOMAIN s.con
        /\ v.con.number = s.con.number /\ v.con.status = s.con.status
        /\ v.con.send_queue = s.con.send_queue /\ v.con.recv_queue = s.con.recv_queue
        /\ v.sent = s.sent /\ v.told = s.told /\ v.opened = s.opened /\ v.closed = s.closed /\ v.seen = s.seen
    BY DEF WorkOK, ConOK
  <2> HIDE DEF v
  <2>3. WorkOK(v)
    BY <2>2 DEF WorkOK, ConOK
  <2>4. Leads(v, t) /\ Silent(v, t)
    BY <2>3, SendPkt
  <2> HIDE DEF t
  <2>5. WorkOK(t)
    BY <2>4 DEF Leads
  <2>6. Leads(t, u) /\ Silent(t, u)
    BY <2>5, SendEnqueue
  <2> HIDE DEF u, r
  <2>7. WorkOK(u)
    BY <2>6 DEF Leads
  <2>8. CASE s.con.status = "FINWAIT2"
    <3>1. r = [t EXCEPT !.con.status = "CLOSED", !.closed = TRUE]
      BY <2>1, <2>8
    <3>2. /\ DOMAIN r = DOMAIN t /\ DOMAIN r.con = DOMAIN t.con
          /\ r.con.number = t.con.number /\ r.con.status = "CLOSED"
          /\ r.con.send_queue = t.con.send_queue /\ r.con.recv_queue = t.con.recv_queue
          /\ r.sent = t.sent /\ r.told = t.told /\ r.opened = t.opened /\ r.closed = TRUE /\ r.seen = t.seen
      BY <2>5, <3>1 DEF WorkOK, ConOK
    <3>3. WorkOK(r)
      BY <2>5, <3>2 DEF WorkOK, ConOK, Status
    <3>4. Moves(s, r)
      BY <2>2, <2>4, <2>8, <3>2, <3>3 DEF Moves, Leads, Silent, Early
    <3> QED BY <3>4 DEF r
  <2>9. CASE s.con.status # "FINWAIT2"
    <3>1. r = [u EXCEPT !.con.status = "LASTACK"]
      BY <2>1, <2>9
    <3>2. /\ DOMAIN r = DOMAIN u /\ DOMAIN r.con = DOMAIN u.con
          /\ r.con.number = u.con.number /\ r.con.status = "LASTACK"
          /\ r.con.send_queue = u.con.send_queue /\ r.con.recv_queue = u.con.recv_queue
          /\ r.sent = u.sent /\ r.told = u.told /\ r.opened = u.opened /\ r.closed = u.closed /\ r.seen = u.seen
      BY <2>7, <3>1 DEF WorkOK, ConOK
    <3>3. WorkOK(r)
      BY <2>7, <3>2 DEF WorkOK, ConOK, Status
    <3>4. Moves(s, r)
      BY <2>1, <2>2, <2>4, <2>6, <3>2, <3>3 DEF Moves, Leads, Silent, Early
    <3> QED BY <3>4 DEF r
  <2> QED BY <2>8, <2>9
<1> QED BY <1>1, <1>2

LEMMA PushedStep ==
  ASSUME NEW s, WorkOK(s), s.told = <<>>, NEW seg
  PROVE  LET r == Pushed(s, seg)
         IN /\ Passes(s, r)
            /\ r.told # <<>> => s.con.status = "ESTAB"
<1> DEFINE r == Pushed(s, seg)
           t == [s EXCEPT !.con.recv_queue = Append(s.con.recv_queue, seg)]
<1>1. CASE "PSH" \notin seg.flags \/ s.con.status # "ESTAB"
  <2>1. r = s
    BY <1>1 DEF Pushed
  <2>2. Len(<<>>) = 0
    OBVIOUS
  <2> HIDE DEF r
  <2>3. Passes(s, r) /\ r.told = <<>>
    BY <2>1, <2>2, AcksSame DEF Passes, Leads, DataOf, WorkOK
  <2> QED BY <2>3 DEF r
<1>2. CASE ~("PSH" \notin seg.flags \/ s.con.status # "ESTAB")
  <2>1. r = tcp_recv_flush(t) /\ s.con.status = "ESTAB"
    BY <1>2 DEF Pushed
  <2>2. Sequence(Append(s.con.recv_queue, seg))
    BY Appended DEF WorkOK, ConOK
  <2>3. /\ DOMAIN t = DOMAIN s /\ DOMAIN t.con = DOMAIN s.con
        /\ t.con.number = s.con.number /\ t.con.status = s.con.status /\ t.con.peer = s.con.peer
        /\ t.con.snd = s.con.snd /\ t.con.seq = s.con.seq
        /\ t.con.send_queue = s.con.send_queue /\ t.con.recv_queue = Append(s.con.recv_queue, seg)
        /\ t.sent = s.sent /\ t.told = s.told /\ t.opened = s.opened /\ t.closed = s.closed /\ t.seen = s.seen
    BY DEF WorkOK, ConOK
  <2> HIDE DEF t, r
  <2>4. WorkOK(t)
    BY <2>2, <2>3 DEF WorkOK, ConOK
  <2>5. Passes(t, r)
    BY <2>1, <2>3, <2>4, RecvFlush
  <2>6. Passes(s, r)
    BY <2>3, <2>5 DEF Passes, Leads
  <2> QED BY <2>1, <2>6 DEF r
<1> QED BY <1>1, <1>2

\* A segment for the connection con.
Receives(con, s) ==
  /\ WorkOK(s) /\ s.con.number = con.number
  /\ DataOf(s.told, con.number)
  /\ s.told # <<>> => s.opened \/ con.status = "ESTAB"
  /\ s.opened => con.status \in Early /\ s.con.status \notin Early
  /\ ~s.opened => (s.con.status \in Early <=> con.status \in Early)

LEMMA RecvStep ==
  ASSUME NEW con, ConOK(con), NEW c, NEW seg, NEW seen0, NEW s \in tcp_recv(con, c, seg, seen0)
  PROVE  Receives(con, s) /\ seen0 \subseteq s.seen
<1> DEFINE b == [Begin(con, seen0) EXCEPT !.closed = "RST" \in seg.flags]
           a == Acknowledged(b, seg)
           y == Synchronized(a, c, seg)
           f == Finished(y, seg)
<1>1. s = Pushed(f, seg)
  BY DEF tcp_recv
<1>2. /\ DOMAIN b = {"con", "sent", "told", "opened", "closed", "seen"}
      /\ b.con = con /\ b.sent = <<>> /\ b.told = <<>> /\ b.opened = FALSE /\ b.closed \in BOOLEAN /\ b.seen = seen0
  BY DEF Begin
<1> HIDE DEF b
<1>3. WorkOK(b)
  <2>1. <<>> \in Seq({})
    OBVIOUS
  <2> QED BY <1>2, <2>1 DEF WorkOK, Sequence
<1>4. /\ Leads(b, a) /\ a.told = <<>>
      /\ a.opened => con.status \in Early /\ a.con.status = "ESTAB"
      /\ ~a.opened => (a.con.status \in Early <=> con.status \in Early)
      /\ ~a.opened /\ a.con.status = "ESTAB" => con.status = "ESTAB"
  BY <1>2, <1>3, AcknowledgedStep
<1> HIDE DEF a
<1>5. Moves(a, y)
  BY <1>4, SynchronizedStep DEF Leads
<1> HIDE DEF y
<1>6. Moves(y, f)
  BY <1>5, FinishedStep DEF Moves, Leads
<1> HIDE DEF f
<1>7. WorkOK(f) /\ f.told = <<>>
  BY <1>4, <1>5, <1>6 DEF Moves, Leads
<1>8. Passes(f, s) /\ (s.told # <<>> => f.con.status = "ESTAB")
  BY <1>1, <1>7, PushedStep
<1>9. /\ s.opened = a.opened /\ s.con.number = con.number /\ seen0 \subseteq s.seen
      /\ s.con.status \in Early <=> a.con.status \in Early
      /\ s.told # <<>> => a.con.status = "ESTAB"
      /\ DataOf(s.told, con.number) /\ WorkOK(s)
  BY <1>2, <1>4, <1>5, <1>6, <1>8 DEF Moves, Leads, Passes
<1>10. a.opened \in BOOLEAN /\ "ESTAB" \notin Early
  BY <1>4 DEF Leads, WorkOK, Early
<1> QED BY <1>4, <1>9, <1>10 DEF Receives

-----------------------------------------------------------------------------
(* The messages to httpd.                                                  *)

\* Current(k) for any box: the connection httpd takes the k-th message to be
\* about, when its number is n now.
Signs(box, k) == {l \in 1..(k - 1) : box[l].cmd \in {"ESTAB", "CLOSE"}}
Latest(S) == CHOOSE l \in S : \A j \in S : j <= l
NumberOf(box, n, S) ==
  IF S = {} THEN n ELSE IF box[Latest(S)].cmd = "ESTAB" THEN box[Latest(S)].number ELSE 0
NumberAt(box, n, k) == NumberOf(box, n, Signs(box, k))
\* The number httpd has after message x.
Noted(x, n) == IF x.cmd = "ESTAB" THEN x.number ELSE IF x.cmd = "CLOSE" THEN 0 ELSE n
EndNumber(box, n) == NumberAt(box, n, Len(box) + 1)
RightBox(box, n) ==
  \A k \in 1..Len(box) : box[k].cmd = "RECV" => NumberAt(box, n, k) = box[k].number

LEMMA CurrentIs == ASSUME NEW k PROVE Current(k) = NumberAt(HTTPD, httpd.number, k)
BY DEF Current, NumberAt, NumberOf, Latest, Signs

LEMMA NumberFirst == ASSUME NEW box, NEW n PROVE NumberAt(box, n, 1) = n
<1>1. Signs(box, 1) = {}
  BY DEF Signs
<1> QED BY <1>1 DEF NumberAt, NumberOf

LEMMA NumberAfter ==
  ASSUME NEW box, NEW n, NEW k \in Nat \ {0}
  PROVE  NumberAt(box, n, k + 1) = Noted(box[k], NumberAt(box, n, k))
<1>1. CASE box[k].cmd \in {"ESTAB", "CLOSE"}
  <2> DEFINE S == Signs(box, k + 1)
  <2>1. k \in S /\ S \subseteq Int /\ \A j \in S : j <= k
    BY <1>1 DEF Signs
  <2> HIDE DEF S
  <2>2. Latest(S) \in S /\ \A j \in S : j <= Latest(S)
    BY <2>1 DEF Latest
  <2>3. Latest(S) = k
    <3>1. k <= Latest(S) /\ Latest(S) <= k /\ Latest(S) \in Int
      BY <2>1, <2>2
    <3> QED BY <3>1
  <2>4. NumberOf(box, n, S) = IF box[k].cmd = "ESTAB" THEN box[k].number ELSE 0
    BY <2>1, <2>3 DEF NumberOf
  <2> QED BY <1>1, <2>4 DEF NumberAt, Noted, S
<1>2. CASE box[k].cmd \notin {"ESTAB", "CLOSE"}
  <2>1. Signs(box, k + 1) = Signs(box, k)
    BY <1>2 DEF Signs
  <2>2. NumberAt(box, n, k + 1) = NumberAt(box, n, k)
    BY <2>1 DEF NumberAt
  <2> QED BY <1>2, <2>2 DEF Noted
<1> QED BY <1>1, <1>2

\* Only what is in front of a message counts.
LEMMA NumberAgree ==
  ASSUME NEW box, NEW other, NEW n, NEW m \in Nat, \A k \in 1..m : box[k] = other[k]
  PROVE  \A k \in 1..(m + 1) : NumberAt(box, n, k) = NumberAt(other, n, k)
<1> DEFINE N == {k \in Nat : k <= m => NumberAt(box, n, k + 1) = NumberAt(other, n, k + 1)}
<1>1. 0 \in N
  BY NumberFirst
<1>2. ASSUME NEW k \in N PROVE k + 1 \in N
  <2> SUFFICES ASSUME k + 1 <= m PROVE NumberAt(box, n, k + 2) = NumberAt(other, n, k + 2)
    OBVIOUS
  <2> DEFINE j == k + 1
  <2>1. j \in Nat \ {0} /\ j + 1 = k + 2 /\ box[j] = other[j]
        /\ NumberAt(box, n, j) = NumberAt(other, n, j)
    OBVIOUS
  <2> HIDE DEF j
  <2> QED BY <2>1, NumberAfter
<1>3. N = Nat
  <2>1. N \in SUBSET Nat
    OBVIOUS
  <2> HIDE DEF N
  <2> QED BY <1>1, <1>2, <2>1, SetInduction
<1>4. ASSUME NEW k \in 1..(m + 1) PROVE NumberAt(box, n, k) = NumberAt(other, n, k)
  <2>1. k - 1 \in Nat /\ k - 1 <= m /\ (k - 1) + 1 = k
    OBVIOUS
  <2>2. k - 1 \in N
    BY <1>3, <2>1
  <2>3. NumberAt(box, n, (k - 1) + 1) = NumberAt(other, n, (k - 1) + 1)
    BY <2>1, <2>2
  <2> QED BY <2>1, <2>3
<1> QED BY <1>4

\* When the first message has been taken, the others are about what they were.
LEMMA NumberTail ==
  ASSUME NEW box, Sequence(box), box # <<>>, NEW n
  PROVE  \A k \in 1..Len(box) : NumberAt(Tail(box), NumberAt(box, n, 2), k) = NumberAt(box, n, k + 1)
<1> DEFINE rest == Tail(box)
           n2 == NumberAt(box, n, 2)
           N == {k \in Nat : k < Len(box) => NumberAt(rest, n2, k + 1) = NumberAt(box, n, k + 2)}
<1>0. /\ Len(box) \in Nat \ {0} /\ Len(rest) = Len(box) - 1
      /\ \A k \in 1..Len(rest) : rest[k] = box[k + 1]
  BY Tailed
<1> HIDE DEF rest
<1>1. 0 \in N
  BY NumberFirst
<1> HIDE DEF n2
<1>2. ASSUME NEW k \in N PROVE k + 1 \in N
  <2> SUFFICES ASSUME k + 1 < Len(box)
               PROVE  NumberAt(rest, n2, k + 2) = NumberAt(box, n, k + 3)
    OBVIOUS
  <2> DEFINE j == k + 1
             i == k + 2
  <2>1. /\ j \in Nat \ {0} /\ j + 1 = k + 2 /\ i \in Nat \ {0} /\ i + 1 = k + 3 /\ rest[j] = box[i]
        /\ NumberAt(rest, n2, j) = NumberAt(box, n, i)
    BY <1>0
  <2> HIDE DEF i, j
  <2> QED BY <2>1, NumberAfter
<1>3. N = Nat
  <2>1. N \in SUBSET Nat
    OBVIOUS
  <2> HIDE DEF N
  <2> QED BY <1>1, <1>2, <2>1, SetInduction
<1>4. ASSUME NEW k \in 1..Len(box) PROVE NumberAt(rest, n2, k) = NumberAt(box, n, k + 1)
  <2>1. k - 1 \in Nat /\ k - 1 < Len(box) /\ (k - 1) + 1 = k /\ (k - 1) + 2 = k + 1
    BY <1>0
  <2>2. k - 1 \in N
    BY <1>3, <2>1
  <2>3. NumberAt(rest, n2, (k - 1) + 1) = NumberAt(box, n, (k - 1) + 2)
    BY <2>1, <2>2
  <2> QED BY <2>1, <2>3
<1> QED BY <1>4 DEF rest, n2

LEMMA TakeMessage ==
  ASSUME NEW box, Sequence(box), box # <<>>, NEW n
  PROVE  /\ EndNumber(Tail(box), Noted(Head(box), n)) = EndNumber(box, n)
         /\ RightBox(box, n) => RightBox(Tail(box), Noted(Head(box), n))
<1> DEFINE n2 == Noted(Head(box), n)
           rest == Tail(box)
<1>1. n2 = NumberAt(box, n, 2)
  <2>1. NumberAt(box, n, 1 + 1) = Noted(box[1], NumberAt(box, n, 1))
    <3>1. 1 \in Nat \ {0}
      OBVIOUS
    <3> QED BY <3>1, NumberAfter
  <2>2. Head(box) = box[1] /\ 1 + 1 = 2
    BY Tailed
  <2> QED BY <2>1, <2>2, NumberFirst
<1> HIDE DEF n2
<1>2. /\ Len(box) \in Nat \ {0} /\ Len(rest) = Len(box) - 1
      /\ \A k \in 1..Len(rest) : rest[k] = box[k + 1]
  BY Tailed
<1>3. \A k \in 1..Len(box) : NumberAt(rest, n2, k) = NumberAt(box, n, k + 1)
  BY <1>1, NumberTail
<1> HIDE DEF rest
<1>4. EndNumber(rest, n2) = EndNumber(box, n)
  <2>1. Len(rest) + 1 = Len(box) /\ Len(box) \in 1..Len(box)
    BY <1>2
  <2> QED BY <1>3, <2>1 DEF EndNumber
<1>5. ASSUME RightBox(box, n), NEW k \in 1..Len(rest), rest[k].cmd = "RECV"
      PROVE  NumberAt(rest, n2, k) = rest[k].number
  <2>1. k + 1 \in 1..Len(box) /\ k \in 1..Len(box) /\ rest[k] = box[k + 1]
    BY <1>2
  <2>2. NumberAt(box, n, k + 1) = box[k + 1].number
    BY <1>5, <2>1 DEF RightBox
  <2> QED BY <1>3, <2>1, <2>2
<1>6. RightBox(box, n) => RightBox(rest, n2)
  BY <1>5 DEF RightBox
<1> QED BY <1>4, <1>6 DEF n2, rest

\* ESTAB and CLOSE change the connection of what comes behind them.
LEMMA AddSign ==
  ASSUME NEW box, Sequence(box), NEW n, NEW x, x.cmd \in {"ESTAB", "CLOSE"}
  PROVE  /\ EndNumber(Append(box, x), n) = Noted(x, n)
         /\ RightBox(box, n) => RightBox(Append(box, x), n)
<1> DEFINE more == Append(box, x)
<1>1. /\ Len(box) \in Nat /\ Len(more) = Len(box) + 1
      /\ \A k \in 1..Len(box) : more[k] = box[k]
      /\ more[Len(box) + 1] = x
  BY Appended
<1> HIDE DEF more
<1>2. EndNumber(more, n) = Noted(x, n)
  <2> DEFINE j == Len(box) + 1
  <2>1. j \in Nat \ {0} /\ Len(more) = j /\ more[j] = x
    BY <1>1
  <2> HIDE DEF j
  <2> QED BY <2>1, NumberAfter DEF EndNumber, Noted
<1>3. \A k \in 1..(Len(box) + 1) : NumberAt(more, n, k) = NumberAt(box, n, k)
  BY <1>1, NumberAgree
<1>4. ASSUME RightBox(box, n), NEW k \in 1..Len(more), more[k].cmd = "RECV"
      PROVE  NumberAt(more, n, k) = more[k].number
  <2>1. k \in 1..Len(box)
    <3>1. k # Len(box) + 1
      BY <1>1, <1>4
    <3> QED BY <1>1, <3>1
  <2>2. more[k] = box[k] /\ NumberAt(more, n, k) = NumberAt(box, n, k)
    BY <1>1, <1>3, <2>1
  <2> QED BY <1>4, <2>1, <2>2 DEF RightBox
<1> QED BY <1>2, <1>4 DEF more, RightBox

\* Data changes nothing.
LEMMA AddData ==
  ASSUME NEW box, Sequence(box), NEW n, NEW told, Sequence(told), NEW m, DataOf(told, m)
  PROVE  /\ EndNumber(box \o told, n) = EndNumber(box, n)
         /\ RightBox(box, n) /\ (told # <<>> => EndNumber(box, n) = m) => RightBox(box \o told, n)
<1> DEFINE more == box \o told
<1>1. /\ Len(box) \in Nat /\ Len(told) \in Nat /\ Len(more) = Len(box) + Len(told)
      /\ \A k \in 1..Len(box) : more[k] = box[k]
      /\ \A k \in 1..Len(told) : more[Len(box) + k] = told[k]
  <2>1. Len(box) \in Nat /\ Len(told) \in Nat /\ Len(more) = Len(box) + Len(told)
    BY Joined
  <2>2. \A k \in 1..Len(box) : more[k] = box[k]
    BY Joined
  <2>3. \A k \in 1..Len(told) : more[Len(box) + k] = told[k]
    BY Joined
  <2> QED BY <2>1, <2>2, <2>3
<1> HIDE DEF more
<1>2. \A k \in 1..(Len(box) + 1) : NumberAt(more, n, k) = NumberAt(box, n, k)
  <2>1. Len(box) \in Nat
    BY <1>1
  <2>2. \A k \in 1..Len(box) : more[k] = box[k]
    BY <1>1
  <2> QED BY <2>1, <2>2, NumberAgree
<1> DEFINE N == {k \in Nat : k <= Len(told) =>
                   NumberAt(more, n, Len(box) + 1 + k) = EndNumber(box, n)}
<1>3. 0 \in N
  <2>1. Len(box) + 1 + 0 = Len(box) + 1 /\ Len(box) + 1 \in 1..(Len(box) + 1)
    BY <1>1
  <2> QED BY <1>2, <2>1 DEF EndNumber
<1>4. ASSUME NEW k \in N PROVE k + 1 \in N
  <2> SUFFICES ASSUME k + 1 <= Len(told)
               PROVE  NumberAt(more, n, Len(box) + 1 + (k + 1)) = EndNumber(box, n)
    OBVIOUS
  <2> DEFINE j == Len(box) + 1 + k
  <2>1. j \in Nat \ {0} /\ j + 1 = Len(box) + 1 + (k + 1) /\ j = Len(box) + (k + 1) /\ k + 1 \in 1..Len(told)
    BY <1>1
  <2>2. NumberAt(more, n, j) = EndNumber(box, n)
    BY <1>1
  <2> HIDE DEF j
  <2>3. more[j].cmd = "RECV"
    BY <1>1, <2>1 DEF DataOf
  <2>4. NumberAt(more, n, j + 1) = NumberAt(more, n, j)
    BY <2>1, <2>3, NumberAfter DEF Noted
  <2> QED BY <2>1, <2>2, <2>4
<1>5. N = Nat
  <2>1. N \in SUBSET Nat
    OBVIOUS
  <2> HIDE DEF N
  <2> QED BY <1>3, <1>4, <2>1, SetInduction
<1>6. \A k \in 0..Len(told) : NumberAt(more, n, Len(box) + 1 + k) = EndNumber(box, n)
  <2> SUFFICES ASSUME NEW k \in 0..Len(told)
               PROVE  NumberAt(more, n, Len(box) + 1 + k) = EndNumber(box, n)
    OBVIOUS
  <2>1. k \in Nat /\ k <= Len(told)
    BY <1>1
  <2>2. k \in N
    BY <1>5, <2>1
  <2> QED BY <2>1, <2>2
<1>7. EndNumber(more, n) = EndNumber(box, n)
  <2>1. Len(more) + 1 = Len(box) + 1 + Len(told) /\ Len(told) \in 0..Len(told)
    BY <1>1
  <2> QED BY <1>6, <2>1 DEF EndNumber
<1>8. ASSUME RightBox(box, n), told # <<>> => EndNumber(box, n) = m,
             NEW k \in 1..Len(more), more[k].cmd = "RECV"
      PROVE  NumberAt(more, n, k) = more[k].number
  <2>1. CASE k \in 1..Len(box)
    <3>1. more[k] = box[k] /\ NumberAt(more, n, k) = NumberAt(box, n, k)
      BY <1>1, <1>2, <2>1
    <3> QED BY <1>8, <2>1, <3>1 DEF RightBox
  <2>2. CASE k \notin 1..Len(box)
    <3> DEFINE j == k - Len(box)
    <3>1. j \in 1..Len(told) /\ k = Len(box) + j /\ k = Len(box) + 1 + (j - 1) /\ j - 1 \in 0..Len(told)
      BY <1>1, <2>2
    <3>2. told # <<>>
      BY <1>1, <3>1
    <3> HIDE DEF j
    <3>3. more[k].number = m
      BY <1>1, <3>1 DEF DataOf
    <3>4. NumberAt(more, n, k) = EndNumber(box, n)
      BY <1>6, <3>1
    <3> QED BY <1>8, <3>2, <3>3, <3>4
  <2> QED BY <2>1, <2>2
<1> QED BY <1>7, <1>8 DEF more, RightBox

-----------------------------------------------------------------------------
(* How many requests or messages of a kind a box holds.                    *)

Where(box, cmd) == {k \in 1..Len(box) : box[k].cmd = cmd}
One(x, cmd) == IF x.cmd = cmd THEN 1 ELSE 0

LEMMA CountType ==
  ASSUME NEW box, Len(box) \in Nat, NEW cmd
  PROVE  IsFiniteSet(Where(box, cmd)) /\ Count(box, cmd) = Cardinality(Where(box, cmd)) /\ Count(box, cmd) \in Nat
<1>1. Where(box, cmd) \in SUBSET (1..Len(box)) /\ Count(box, cmd) = Cardinality(Where(box, cmd))
  BY DEF Where, Count
<1> QED BY <1>1, NumbersFinite

LEMMA CountNone ==
  ASSUME NEW box, NEW cmd, \A k \in 1..Len(box) : box[k].cmd # cmd
  PROVE  Count(box, cmd) = 0
<1>1. {k \in 1..Len(box) : box[k].cmd = cmd} = {}
  OBVIOUS
<1> QED BY <1>1, FS_EmptySet DEF Count

LEMMA CountEmpty == ASSUME NEW cmd PROVE Count(<<>>, cmd) = 0
<1>1. 1..Len(<<>>) = {}
  OBVIOUS
<1>2. {k \in 1..Len(<<>>) : <<>>[k].cmd = cmd} = {}
  BY <1>1
<1> QED BY <1>2, FS_EmptySet DEF Count

LEMMA CountAppend ==
  ASSUME NEW box, Sequence(box), NEW x, NEW cmd
  PROVE  Count(Append(box, x), cmd) = Count(box, cmd) + One(x, cmd)
<1> DEFINE more == Append(box, x)
           W == Where(box, cmd)
           V == Where(more, cmd)
<1>1. /\ Len(box) \in Nat /\ Len(more) = Len(box) + 1
      /\ \A k \in 1..Len(box) : more[k] = box[k]
      /\ more[Len(box) + 1] = x
  BY Appended
<1> HIDE DEF more
<1>2. IsFiniteSet(W) /\ Cardinality(W) \in Nat /\ Count(box, cmd) = Cardinality(W)
  BY <1>1, CountType
<1>3. Len(more) \in Nat
  BY <1>1
<1>4. Count(more, cmd) = Cardinality(V)
  BY <1>3, CountType
<1>5. CASE x.cmd = cmd
  <2>1. V = W \cup {Len(box) + 1} /\ Len(box) + 1 \notin W
    BY <1>1, <1>5 DEF Where
  <2> HIDE DEF V, W
  <2>2. Cardinality(V) = Cardinality(W) + 1
    BY <1>2, <2>1, FS_AddElement
  <2> QED BY <1>2, <1>4, <1>5, <2>2 DEF One, more
<1>6. CASE x.cmd # cmd
  <2>1. V = W
    BY <1>1, <1>6 DEF Where
  <2> HIDE DEF V, W
  <2> QED BY <1>2, <1>4, <1>6, <2>1 DEF One, more
<1> QED BY <1>5, <1>6

LEMMA CountTail ==
  ASSUME NEW box, Sequence(box), box # <<>>, NEW cmd
  PROVE  Count(box, cmd) = Count(Tail(box), cmd) + One(Head(box), cmd)
<1> DEFINE rest == Tail(box)
           W == Where(box, cmd)
           V == Where(rest, cmd)
           U == W \ {1}
           f == [k \in V |-> k + 1]
<1>1. /\ Len(box) \in Nat \ {0} /\ Len(rest) = Len(box) - 1
      /\ \A k \in 1..Len(rest) : rest[k] = box[k + 1]
      /\ Head(box) = box[1]
  BY Tailed
<1> HIDE DEF rest
<1>2. Len(rest) \in Nat /\ Len(box) \in Nat
  BY <1>1
<1>3. /\ IsFiniteSet(W) /\ Count(box, cmd) = Cardinality(W) /\ Cardinality(W) \in Nat
      /\ IsFiniteSet(V) /\ Count(rest, cmd) = Cardinality(V) /\ Cardinality(V) \in Nat
  BY <1>2, CountType
<1>4. \A k \in V : k + 1 \in U
  BY <1>1 DEF Where
<1>5. \A k \in U : k - 1 \in V /\ (k - 1) + 1 = k
  BY <1>1 DEF Where
<1>6. V \subseteq Int
  BY DEF Where
<1>7. f \in Bijection(V, U)
  <2> HIDE DEF U, V
  <2>1. f \in Injection(V, U)
    BY <1>4, <1>6 DEF Injection, IsInjective
  <2>2. f \in Surjection(V, U)
    BY <1>4, <1>5 DEF Surjection
  <2> QED BY <2>1, <2>2 DEF Bijection
<1>8. Cardinality(U) = Cardinality(V)
  <2>1. ExistsBijection(V, U)
    BY <1>7 DEF ExistsBijection
  <2> HIDE DEF U, V
  <2> QED BY <1>3, <2>1, FS_Bijection
<1>9. CASE box[1].cmd = cmd
  <2>1. 1 \in W
    BY <1>1, <1>9 DEF Where
  <2>2. Cardinality(U) = Cardinality(W) - 1
    <3> HIDE DEF W
    <3> QED BY <1>3, <2>1, FS_RemoveElement
  <2> HIDE DEF U, V, W
  <2> QED BY <1>1, <1>3, <1>8, <1>9, <2>2 DEF One, rest
<1>10. CASE box[1].cmd # cmd
  <2>1. U = W
    BY <1>10 DEF Where
  <2> HIDE DEF U, V, W
  <2> QED BY <1>1, <1>3, <1>8, <1>10, <2>1 DEF One, rest
<1> QED BY <1>9, <1>10

\* Data is neither the end of a connection nor a request.
LEMMA CountData ==
  ASSUME NEW box, Sequence(box), NEW told, Sequence(told), NEW m, DataOf(told, m), NEW cmd, cmd # "RECV"
  PROVE  Count(box \o told, cmd) = Count(box, cmd)
<1> DEFINE more == box \o told
<1>1. Len(box) \in Nat /\ Len(told) \in Nat /\ Len(more) = Len(box) + Len(told)
  BY Joined
<1>2. \A k \in 1..Len(box) : more[k] = box[k]
  BY Joined
<1>3. \A k \in 1..Len(told) : more[Len(box) + k] = told[k]
  BY Joined
<1> HIDE DEF more
<1>4. \A k \in 1..Len(more) : k \notin 1..Len(box) => more[k].cmd # cmd
  <2> SUFFICES ASSUME NEW k \in 1..Len(more), k \notin 1..Len(box) PROVE more[k].cmd # cmd
    OBVIOUS
  <2> DEFINE j == k - Len(box)
  <2>1. j \in 1..Len(told) /\ k = Len(box) + j
    BY <1>1
  <2> HIDE DEF j
  <2> QED BY <1>3, <2>1 DEF DataOf
<1>5. 1..Len(box) \subseteq 1..Len(more)
  BY <1>1
<1>6. {k \in 1..Len(more) : more[k].cmd = cmd} = {k \in 1..Len(box) : box[k].cmd = cmd}
  <2> DEFINE A == 1..Len(more)
             B == 1..Len(box)
  <2>1. B \subseteq A /\ (\A k \in B : more[k] = box[k]) /\ \A k \in A : k \notin B => more[k].cmd # cmd
    BY <1>2, <1>4, <1>5
  <2> HIDE DEF A, B
  <2>2. {k \in A : more[k].cmd = cmd} = {k \in B : box[k].cmd = cmd}
    BY <2>1
  <2> QED BY <2>2 DEF A, B
<1> QED BY <1>6 DEF Count, more

-----------------------------------------------------------------------------
(* What is put into the boxes.                                             *)

\* A box whose entries are of the kinds cmds, about connections up to number n.
Boxed(box, cmds, n) ==
  /\ Sequence(box)
  /\ \A k \in 1..Len(box) : box[k].cmd \in cmds /\ box[k].number \in 0..n
Absent(box, n) == \A k \in 1..Len(box) : box[k].number # n

LEMMA BoxedEmpty ==
  ASSUME NEW cmds, NEW n
  PROVE  Boxed(<<>>, cmds, n) /\ \A m : Absent(<<>>, m)
<1>1. <<>> \in Seq({})
  OBVIOUS
<1> QED BY <1>1 DEF Boxed, Sequence, Absent

LEMMA BoxedAppend ==
  ASSUME NEW box, NEW cmds, NEW n, Boxed(box, cmds, n), NEW x, x.cmd \in cmds, x.number \in 0..n
  PROVE  Boxed(Append(box, x), cmds, n)
<1> DEFINE more == Append(box, x)
<1>1. /\ Sequence(more) /\ Len(box) \in Nat /\ Len(more) = Len(box) + 1
      /\ \A k \in 1..Len(box) : more[k] = box[k]
      /\ more[Len(box) + 1] = x
  BY Appended DEF Boxed
<1> HIDE DEF more
<1>2. ASSUME NEW k \in 1..Len(more) PROVE more[k].cmd \in cmds /\ more[k].number \in 0..n
  <2>1. CASE k \in 1..Len(box)
    BY <1>1, <2>1 DEF Boxed
  <2>2. CASE k = Len(box) + 1
    BY <1>1, <2>2
  <2> QED BY <1>1, <2>1, <2>2
<1> QED BY <1>1, <1>2 DEF Boxed, more

LEMMA BoxedTail ==
  ASSUME NEW box, NEW cmds, NEW n, Boxed(box, cmds, n), box # <<>>
  PROVE  /\ Boxed(Tail(box), cmds, n)
         /\ Head(box).cmd \in cmds /\ Head(box).number \in 0..n
         /\ \A m : Absent(box, m) => Absent(Tail(box), m) /\ Head(box).number # m
<1> DEFINE rest == Tail(box)
<1>1. /\ Sequence(rest) /\ Len(box) \in Nat \ {0} /\ Len(rest) = Len(box) - 1
      /\ \A k \in 1..Len(rest) : rest[k] = box[k + 1]
      /\ Head(box) = box[1]
  BY Tailed DEF Boxed
<1> HIDE DEF rest
<1>2. 1 \in 1..Len(box) /\ \A k \in 1..Len(rest) : k + 1 \in 1..Len(box)
  BY <1>1
<1>3. Boxed(rest, cmds, n)
  BY <1>1, <1>2 DEF Boxed
<1>4. Head(box).cmd \in cmds /\ Head(box).number \in 0..n
  BY <1>1, <1>2 DEF Boxed
<1>5. ASSUME NEW m, Absent(box, m) PROVE Absent(rest, m) /\ Head(box).number # m
  BY <1>1, <1>2, <1>5 DEF Absent
<1> QED BY <1>3, <1>4, <1>5 DEF rest

LEMMA BoxedData ==
  ASSUME NEW box, NEW cmds, NEW n, Boxed(box, cmds, n), "RECV" \in cmds,
         NEW told, Sequence(told), NEW m \in 0..n, DataOf(told, m)
  PROVE  Boxed(box \o told, cmds, n)
<1> DEFINE more == box \o told
<1>0. Sequence(box)
  BY DEF Boxed
<1>1. Sequence(more) /\ Len(box) \in Nat /\ Len(told) \in Nat /\ Len(more) = Len(box) + Len(told)
  BY <1>0, Joined
<1>2. \A k \in 1..Len(box) : more[k] = box[k]
  BY <1>0, Joined
<1>3. \A k \in 1..Len(told) : more[Len(box) + k] = told[k]
  BY <1>0, Joined
<1> HIDE DEF more
<1>4. ASSUME NEW k \in 1..Len(more) PROVE more[k].cmd \in cmds /\ more[k].number \in 0..n
  <2>1. CASE k \in 1..Len(box)
    BY <1>2, <2>1 DEF Boxed
  <2>2. CASE k \notin 1..Len(box)
    <3> DEFINE j == k - Len(box)
    <3>1. j \in 1..Len(told) /\ k = Len(box) + j
      BY <1>1, <2>2
    <3> HIDE DEF j
    <3> QED BY <1>3, <3>1 DEF DataOf
  <2> QED BY <2>1, <2>2
<1> QED BY <1>1, <1>4 DEF Boxed, more

\* A new connection has a number no entry has.
LEMMA BoxedMore ==
  ASSUME NEW box, NEW cmds, NEW n \in Nat, Boxed(box, cmds, n)
  PROVE  Boxed(box, cmds, n + 1) /\ Absent(box, n + 1)
BY DEF Boxed, Absent

\* What a handler tells: data, then that the connection is open, then that it is closed.
signal(s, cmd) == [cmd |-> cmd, number |-> s.con.number, data |-> <<>>]
Opening(box, s) == IF s.opened THEN Append(box, signal(s, "ESTAB")) ELSE box
Closing(box, s) == IF s.closed THEN Append(box, signal(s, "CLOSE")) ELSE box

LEMMA ToldIs ==
  ASSUME NEW box, Sequence(box), NEW s, Sequence(s.told)
  PROVE  box \o Told(s) = Closing(Opening(box \o s.told, s), s)
<1>1. PICK S : box \in Seq(S)
  BY DEF Sequence
<1>2. PICK T : s.told \in Seq(T)
  BY DEF Sequence
<1> DEFINE x == signal(s, "ESTAB")
           y == signal(s, "CLOSE")
           U == S \cup T \cup {x, y}
           t == s.told
           e == IF s.opened THEN <<x>> ELSE <<>>
           f == IF s.closed THEN <<y>> ELSE <<>>
<1>3. box \in Seq(U) /\ t \in Seq(U) /\ x \in U /\ y \in U
  BY <1>1, <1>2
<1>4. Told(s) = t \o e \o f
  BY DEF Told, signal
<1> HIDE DEF U, x, y, t
<1>5. e \in Seq(U) /\ f \in Seq(U)
  BY <1>3
<1>6. box \o (t \o e \o f) = ((box \o t) \o e) \o f
  <2> HIDE DEF e, f
  <2>1. t \o e \in Seq(U)
    BY <1>3, <1>5, ConcatProperties
  <2> DEFINE v == t \o e
  <2>2. box \o (v \o f) = (box \o v) \o f
    <3> HIDE DEF v
    <3>1. box \in Seq(U) /\ v \in Seq(U) /\ f \in Seq(U)
      BY <1>3, <1>5, <2>1 DEF v
    <3> QED BY <3>1, ConcatAssociative
  <2>3. box \o (t \o e) = (box \o t) \o e
    BY <1>3, <1>5, ConcatAssociative
  <2> QED BY <2>2, <2>3
<1>7. (box \o t) \o e = Opening(box \o t, s) /\ (box \o t) \o e \in Seq(U)
  <2> DEFINE b == box \o t
  <2>1. b \in Seq(U)
    BY <1>3, ConcatProperties
  <2> HIDE DEF b
  <2>2. CASE s.opened
    <3>1. b \o <<x>> = Append(b, x) /\ Append(b, x) \in Seq(U)
      BY <1>3, <2>1, AppendIsConcat, AppendProperties
    <3> QED BY <2>2, <3>1 DEF Opening, x, b
  <2>3. CASE ~s.opened
    <3>1. b \o <<>> = b
      BY <2>1, ConcatEmptySeq
    <3> QED BY <2>1, <2>3, <3>1 DEF Opening, b
  <2> QED BY <2>2, <2>3
<1>8. ((box \o t) \o e) \o f = Closing((box \o t) \o e, s)
  <2> DEFINE b == (box \o t) \o e
  <2>1. b \in Seq(U)
    BY <1>7
  <2> HIDE DEF b
  <2>2. CASE s.closed
    <3>1. b \o <<y>> = Append(b, y)
      BY <1>3, <2>1, AppendIsConcat
    <3> QED BY <2>2, <3>1 DEF Closing, y, b
  <2>3. CASE ~s.closed
    <3>1. b \o <<>> = b
      BY <2>1, ConcatEmptySeq
    <3> QED BY <2>3, <3>1 DEF Closing, b
  <2> QED BY <2>2, <2>3
<1>9. box \o Told(s) = Closing((box \o t) \o e, s)
  BY <1>4, <1>6, <1>8
<1> HIDE DEF e, f
<1> QED BY <1>7, <1>9 DEF t

-----------------------------------------------------------------------------
(* The inductive invariant.                                                *)

Signals == {"RECV", "ESTAB", "CLOSE"}
Requests == {"ACCEPT", "SEND", "CLOSE"}

\* The connections httpd, its messages and its requests are about exist.
Numbers ==
  /\ number \in Nat
  /\ DOMAIN httpd = {"number", "p", "buffer", "answered"} /\ httpd.number \in 0..number
  /\ Boxed(HTTPD, Signals, number)
  /\ Boxed(calls, Requests, number)

\* Serving, also when a NULL pointer was used.
Balance == Count(calls, "ACCEPT") + Len(TCPCONLIST) + Count(HTTPD, "CLOSE") = 1

\* httpd has not heard of connection n.
Unmentioned(n) == httpd.number # n /\ Absent(HTTPD, n) /\ Absent(calls, n)

\* httpd hears of a connection when the handshake is over, and from then on it
\* is the last one the messages in the box speak of.
Known(con) ==
  /\ ConOK(con) /\ con.number \in 1..number
  /\ con.status \in Early => Unmentioned(con.number)
  /\ con.status \notin Early => EndNumber(HTTPD, httpd.number) = con.number
Server == TCPCONLIST # <<>> => TCPCONLIST = <<TCPCONLIST[1]>> /\ Known(TCPCONLIST[1])

Right == "early" \notin seen => RightBox(HTTPD, httpd.number)

IInv == Numbers /\ Balance /\ Server /\ Right

LEMMA InitIInv == Init => IInv
<1> SUFFICES ASSUME Init PROVE IInv
  OBVIOUS
<1>1. /\ TCPCONLIST = <<>> /\ number = 0 /\ HTTPD = <<>>
      /\ calls = <<send_accept>> /\ httpd = [number |-> 0, p |-> FALSE, buffer |-> <<>>, answered |-> FALSE]
  BY DEF Init
<1>2. calls = Append(<<>>, send_accept) /\ send_accept.cmd = "ACCEPT" /\ send_accept.number = 0
  BY <1>1 DEF send_accept, call
<1> HIDE DEF send_accept
<1>3. Boxed(<<>>, Signals, 0) /\ Boxed(<<>>, Requests, 0)
  BY BoxedEmpty
<1>4. Boxed(calls, Requests, 0)
  <2>1. send_accept.cmd \in Requests /\ send_accept.number \in 0..0
    BY <1>2 DEF Requests
  <2> QED BY <1>2, <1>3, <2>1, BoxedAppend
<1>5. Numbers
  BY <1>1, <1>3, <1>4 DEF Numbers
<1>6. Balance
  <2>1. Len(<<>>) = 0 /\ Sequence(<<>>)
    BY <1>3 DEF Boxed
  <2>2. Count(<<>>, "ACCEPT") = 0 /\ Count(<<>>, "CLOSE") = 0
    BY CountEmpty
  <2>3. Count(calls, "ACCEPT") = 1
    <3>1. Count(calls, "ACCEPT") = Count(<<>>, "ACCEPT") + One(send_accept, "ACCEPT")
      BY <1>2, <2>1, CountAppend
    <3> QED BY <1>2, <2>2, <3>1 DEF One
  <2> QED BY <1>1, <2>1, <2>2, <2>3 DEF Balance
<1>7. Server /\ Right
  BY <1>1 DEF Server, Right, RightBox
<1> QED BY <1>5, <1>6, <1>7 DEF IInv

\* The clients and the network change nothing of this.
LEMMA BoardStep ==
  ASSUME IInv, UNCHANGED board, seen \subseteq seen'
  PROVE  IInv'
<1>1. UNCHANGED <<TCPCONLIST, number, HTTPD, calls, httpd>>
  BY DEF board, conVars
<1> QED BY <1>1 DEF IInv, Numbers, Balance, Server, Known, Unmentioned, Right

-----------------------------------------------------------------------------
(* The TCP task.                                                           *)

\* What tcp_recv() tells httpd.
LEMMA ToldStep ==
  ASSUME NEW n \in Nat, NEW con, con.number \in 1..n, NEW s, Receives(con, s),
         NEW box, Boxed(box, Signals, n), NEW h,
         con.status \notin Early => EndNumber(box, h) = con.number
  PROVE  LET more == box \o Told(s)
         IN /\ Boxed(more, Signals, n)
            /\ Count(more, "CLOSE") = Count(box, "CLOSE") + (IF s.closed THEN 1 ELSE 0)
            /\ ~s.closed /\ s.con.status \notin Early => EndNumber(more, h) = con.number
            /\ ~s.closed /\ s.con.status \in Early => more = box
            /\ RightBox(box, h) /\ (~s.opened \/ s.told = <<>>) => RightBox(more, h)
<1> DEFINE b1 == box \o s.told
           b2 == Opening(b1, s)
           more == box \o Told(s)
           x == signal(s, "ESTAB")
           y == signal(s, "CLOSE")
<1>1. /\ Sequence(box) /\ Sequence(s.told) /\ s.opened \in BOOLEAN /\ s.closed \in BOOLEAN
      /\ s.con.number = con.number /\ con.number \in 0..n /\ DataOf(s.told, con.number)
      /\ s.told # <<>> => s.opened \/ con.status \notin Early
      /\ s.opened => s.con.status \notin Early
      /\ ~s.opened => (s.con.status \in Early <=> con.status \in Early)
  BY DEF Boxed, Receives, WorkOK, Early
<1>2. more = Closing(b2, s)
  BY <1>1, ToldIs
<1>3. /\ x.cmd = "ESTAB" /\ x.number = con.number
      /\ y.cmd = "CLOSE" /\ y.number = con.number
  BY <1>1 DEF signal
<1>4. Boxed(b1, Signals, n)
  BY <1>1, BoxedData DEF Signals
<1>5. Count(b1, "CLOSE") = Count(box, "CLOSE")
  BY <1>1, CountData
<1>6. EndNumber(b1, h) = EndNumber(box, h)
  BY <1>1, AddData
<1>7. RightBox(box, h) /\ (s.told # <<>> => EndNumber(box, h) = con.number) => RightBox(b1, h)
  BY <1>1, AddData
<1>8. s.told = <<>> => b1 = box
  <2>1. PICK S : box \in Seq(S)
    BY <1>1 DEF Sequence
  <2> QED BY <2>1, ConcatEmptySeq
<1> HIDE DEF b1
<1>9. Sequence(b1) /\ b2 = IF s.opened THEN Append(b1, x) ELSE b1
  BY <1>4 DEF Boxed, Opening
<1> HIDE DEF b2, x, y
<1>10. /\ Boxed(b2, Signals, n)
       /\ Count(b2, "CLOSE") = Count(b1, "CLOSE")
       /\ EndNumber(b2, h) = IF s.opened THEN con.number ELSE EndNumber(b1, h)
       /\ RightBox(b1, h) => RightBox(b2, h)
  <2>1. CASE s.opened
    <3>1. b2 = Append(b1, x)
      BY <1>9, <2>1
    <3>2. Boxed(b2, Signals, n)
      BY <1>1, <1>3, <1>4, <3>1, BoxedAppend DEF Signals
    <3>3. Count(b2, "CLOSE") = Count(b1, "CLOSE") + One(x, "CLOSE")
      BY <1>9, <3>1, CountAppend
    <3>4. EndNumber(b2, h) = Noted(x, h) /\ (RightBox(b1, h) => RightBox(b2, h))
      BY <1>3, <1>9, <3>1, AddSign
    <3>5. Count(b1, "CLOSE") \in Nat
      <4>1. Len(b1) \in Nat
        BY <1>9, Appended
      <4> QED BY <4>1, CountType
    <3>6. One(x, "CLOSE") = 0 /\ Noted(x, h) = con.number
      BY <1>3 DEF One, Noted
    <3> QED BY <2>1, <3>2, <3>3, <3>4, <3>5, <3>6
  <2>2. CASE ~s.opened
    BY <1>4, <1>9, <2>2
  <2> QED BY <2>1, <2>2
<1>11. Sequence(b2) /\ more = IF s.closed THEN Append(b2, y) ELSE b2
  BY <1>2, <1>10 DEF Boxed, Closing, y
<1> HIDE DEF more
<1>12. /\ Boxed(more, Signals, n)
       /\ Count(more, "CLOSE") = Count(b2, "CLOSE") + (IF s.closed THEN 1 ELSE 0)
       /\ ~s.closed => more = b2
       /\ RightBox(b2, h) => RightBox(more, h)
  <2>0. Count(b2, "CLOSE") \in Nat
    <3>1. Len(b2) \in Nat
      BY <1>11, Appended
    <3> QED BY <3>1, CountType
  <2>1. CASE s.closed
    <3>1. more = Append(b2, y)
      BY <1>11, <2>1
    <3>2. Boxed(more, Signals, n)
      BY <1>1, <1>3, <1>10, <3>1, BoxedAppend DEF Signals
    <3>3. Count(more, "CLOSE") = Count(b2, "CLOSE") + One(y, "CLOSE")
      BY <1>11, <3>1, CountAppend
    <3>4. RightBox(b2, h) => RightBox(more, h)
      BY <1>3, <1>11, <3>1, AddSign
    <3> QED BY <1>3, <2>1, <3>2, <3>3, <3>4 DEF One
  <2>2. CASE ~s.closed
    BY <1>10, <1>11, <2>0, <2>2
  <2> QED BY <2>1, <2>2
<1>13. ~s.closed /\ s.con.status \notin Early => EndNumber(more, h) = con.number
  BY <1>1, <1>6, <1>10, <1>12
<1>14. ~s.closed /\ s.con.status \in Early => more = box
  BY <1>1, <1>8, <1>9, <1>12
<1>15. RightBox(box, h) /\ (~s.opened \/ s.told = <<>>) => RightBox(more, h)
  BY <1>1, <1>7, <1>10, <1>12
<1>16. Count(more, "CLOSE") = Count(box, "CLOSE") + (IF s.closed THEN 1 ELSE 0)
  BY <1>5, <1>10, <1>12
<1> QED BY <1>12, <1>13, <1>14, <1>15, <1>16 DEF more

LEMMA OneCon ==
  ASSUME NEW con, NEW x, NEW list, list = <<con>>
  PROVE  /\ list[1] = con /\ Len(list) = 1 /\ list # <<>>
         /\ RemoveAt(list, 1) = <<>>
         /\ [list EXCEPT ![1] = x] = <<x>>
<1>1. list[1] = con /\ Len(list) = 1 /\ list # <<>>
  OBVIOUS
<1>2. RemoveAt(list, 1) = <<>>
  BY DEF RemoveAt
<1>3. [list EXCEPT ![1] = x] = <<x>>
  OBVIOUS
<1> QED BY <1>1, <1>2, <1>3

LEMMA IPRECVStep ==
  ASSUME IInv, NEW c \in Client, TCP_CMD_IPRECV(c)
  PROVE  IInv'
<1>0. UNCHANGED <<calls, httpd>>
  BY DEF TCP_CMD_IPRECV
<1>1. CASE TCPCONLIST = <<>>
  <2>1. UNCHANGED <<TCPCONLIST, number, HTTPD, seen>>
    BY <1>1 DEF TCP_CMD_IPRECV, conVars
  <2> QED BY <1>0, <2>1 DEF IInv, Numbers, Balance, Server, Known, Unmentioned, Right
<1>2. CASE TCPCONLIST # <<>>
  <2> DEFINE con == TCPCONLIST[1]
  <2>1. TCPCONLIST = <<con>> /\ Known(con)
    BY <1>2 DEF IInv, Server
  <2>2. Found(c) = 1
    <3>1. 1..Len(TCPCONLIST) = {1}
      BY <2>1
    <3>2. Opened(c) = {} \/ Opened(c) = {1}
      BY <3>1 DEF Opened
    <3>3. (IF Opened(c) = {} THEN 1..Len(TCPCONLIST) ELSE Opened(c)) = {1}
      BY <3>1, <3>2
    <3> QED BY <3>3 DEF Found
  <2>3. PICK s \in tcp_recv(TCPCONLIST[Found(c)], c, Head(net[c]), seen) :
          /\ Done(Found(c), s)
          /\ HTTPD' = HTTPD \o Told(s)
          /\ s.seen \subseteq seen'
          /\ s.opened /\ s.told # <<>> => "early" \in seen'
    BY <1>2 DEF TCP_CMD_IPRECV
  <2>4. s \in tcp_recv(con, c, Head(net[c]), seen) /\ Done(1, s)
    BY <2>2, <2>3
  <2> HIDE DEF con
  <2>5. ConOK(con) /\ con.number \in 1..number
    BY <2>1 DEF Known
  <2>6. Receives(con, s) /\ seen \subseteq s.seen
    BY <2>4, <2>5, RecvStep
  <2>7. number' = number /\ TCPCONLIST' = IF s.closed THEN <<>> ELSE <<s.con>>
    BY <2>1, <2>4, OneCon DEF Done
  <2> DEFINE h == httpd.number
             more == HTTPD \o Told(s)
  <2>8. /\ Boxed(more, Signals, number)
        /\ Count(more, "CLOSE") = Count(HTTPD, "CLOSE") + (IF s.closed THEN 1 ELSE 0)
        /\ ~s.closed /\ s.con.status \notin Early => EndNumber(more, h) = con.number
        /\ ~s.closed /\ s.con.status \in Early => more = HTTPD
        /\ RightBox(HTTPD, h) /\ (~s.opened \/ s.told = <<>>) => RightBox(more, h)
    <3>1. number \in Nat /\ Boxed(HTTPD, Signals, number)
      BY DEF IInv, Numbers
    <3>2. con.status \notin Early => EndNumber(HTTPD, h) = con.number
      BY <2>1 DEF Known
    <3> HIDE DEF h
    <3> QED BY <2>5, <2>6, <3>1, <3>2, ToldStep
  <2>9. HTTPD' = more
    BY <2>3
  <2> HIDE DEF more
  <2>10. Numbers'
    BY <1>0, <2>7, <2>8, <2>9 DEF IInv, Numbers
  <2>11. Balance'
    <3>1. Len(TCPCONLIST) = 1
      BY <2>1
    <3>2. Len(TCPCONLIST') = IF s.closed THEN 0 ELSE 1
      BY <2>7
    <3>3. Count(HTTPD, "CLOSE") \in Nat /\ Count(calls, "ACCEPT") \in Nat
      <4>1. Len(HTTPD) \in Nat /\ Len(calls) \in Nat
        BY Appended DEF IInv, Numbers, Boxed
      <4> QED BY <4>1, CountType
    <3>4. Count(calls', "ACCEPT") = Count(calls, "ACCEPT") /\ Count(HTTPD', "CLOSE") = Count(more, "CLOSE")
      BY <1>0, <2>9
    <3>5. Count(calls, "ACCEPT") + Len(TCPCONLIST) + Count(HTTPD, "CLOSE") = 1
      BY DEF IInv, Balance
    <3> QED BY <2>8, <3>1, <3>2, <3>3, <3>4, <3>5 DEF Balance
  <2>12. Server'
    <3> SUFFICES ASSUME TCPCONLIST' # <<>>
                 PROVE  TCPCONLIST' = <<TCPCONLIST'[1]>> /\ Known(TCPCONLIST[1])'
      BY DEF Server
    <3>1. ~s.closed /\ TCPCONLIST' = <<s.con>>
      BY <2>7
    <3>2. TCPCONLIST'[1] = s.con
      BY <3>1
    <3>3. ConOK(s.con) /\ s.con.number = con.number
      BY <2>6 DEF Receives, WorkOK
    <3>4. s.con.status \in Early => con.status \in Early /\ HTTPD' = HTTPD
      BY <2>6, <2>8, <2>9, <3>1 DEF Receives
    <3>5. s.con.status \in Early => httpd'.number # s.con.number /\ Absent(HTTPD', s.con.number)
                                    /\ Absent(calls', s.con.number)
      BY <1>0, <2>1, <3>3, <3>4 DEF Known, Unmentioned
    <3>6. s.con.status \notin Early => EndNumber(HTTPD', httpd'.number) = s.con.number
      BY <1>0, <2>8, <2>9, <3>1, <3>3
    <3> QED BY <2>5, <2>7, <3>1, <3>2, <3>3, <3>5, <3>6 DEF Known, Unmentioned
  <2>13. Right'
    <3> SUFFICES ASSUME "early" \notin seen' PROVE RightBox(HTTPD', httpd'.number)
      BY DEF Right
    <3>1. "early" \notin seen /\ ~(s.opened /\ s.told # <<>>)
      BY <2>3, <2>6
    <3>2. RightBox(HTTPD, h)
      BY <3>1 DEF IInv, Right
    <3>3. s.opened \in BOOLEAN
      BY <2>6 DEF Receives, WorkOK
    <3> QED BY <1>0, <2>8, <2>9, <3>1, <3>2, <3>3
  <2> QED BY <2>10, <2>11, <2>12, <2>13 DEF IInv
<1> QED BY <1>1, <1>2

\* A request of httpd is about a connection it has heard of.
LEMMA CMDStep ==
  ASSUME IInv, NEW cmd, cmd # "ACCEPT", NEW flags, TCP_CMD(cmd, flags)
  PROVE  IInv'
<1> DEFINE con == TCPCONLIST[1]
           n == Head(calls).number
<1>1. /\ calls # <<>> /\ Head(calls).cmd = cmd /\ calls' = Tail(calls)
      /\ UNCHANGED <<HTTPD, httpd>>
  BY DEF TCP_CMD
<1>2. /\ number \in Nat /\ Boxed(calls, Requests, number)
      /\ TCPCONLIST # <<>> => TCPCONLIST = <<con>> /\ Known(con)
  BY DEF IInv, Numbers, Server
<1>3. /\ Boxed(calls', Requests, number)
      /\ \A m : Absent(calls, m) => Absent(calls', m) /\ n # m
  BY <1>1, <1>2, BoxedTail
<1>4. Count(calls', "ACCEPT") = Count(calls, "ACCEPT")
  <2>1. Sequence(calls) /\ Sequence(calls')
    BY <1>2, <1>3 DEF Boxed
  <2>2. Len(calls') \in Nat
    BY <2>1, Appended
  <2>3. Count(calls', "ACCEPT") \in Nat
    BY <2>2, CountType
  <2>4. Count(calls, "ACCEPT") = Count(calls', "ACCEPT") + One(Head(calls), "ACCEPT")
    BY <1>1, <2>1, CountTail
  <2>5. One(Head(calls), "ACCEPT") = 0
    BY <1>1 DEF One
  <2> QED BY <2>3, <2>4, <2>5
<1>5. \/ UNCHANGED <<TCPCONLIST, number, seen>>
      \/ \E s : /\ TCPCONLIST = <<con>> /\ Known(con) /\ con.number = n
                /\ s = tcp_send_enqueue(Begin(con, seen), flags, Head(calls).data)
                /\ Done(1, s) /\ seen' = s.seen
  <2>1. CASE Numbered(n) = {}
    BY <2>1 DEF TCP_CMD, conVars
  <2>2. CASE Numbered(n) # {}
    <3>1. PICK k \in Numbered(n) :
            \E s \in {tcp_send_enqueue(Begin(TCPCONLIST[k], seen), flags, Head(calls).data)} :
              Done(k, s) /\ seen' = s.seen
      BY <2>2 DEF TCP_CMD
    <3>2. k \in 1..Len(TCPCONLIST) /\ TCPCONLIST[k].number = n
      BY <3>1 DEF Numbered
    <3>3. TCPCONLIST # <<>>
      BY <3>2
    <3>4. k = 1
      <4>1. TCPCONLIST = <<con>>
        BY <1>2, <3>3
      <4> HIDE DEF con
      <4>2. Len(TCPCONLIST) = 1
        BY <4>1
      <4> QED BY <3>2, <4>2
    <3>5. PICK s : /\ s = tcp_send_enqueue(Begin(TCPCONLIST[k], seen), flags, Head(calls).data)
                   /\ Done(k, s) /\ seen' = s.seen
      BY <3>1
    <3>6. s = tcp_send_enqueue(Begin(con, seen), flags, Head(calls).data) /\ Done(1, s) /\ con.number = n
      BY <3>2, <3>4, <3>5
    <3>7. TCPCONLIST = <<con>> /\ Known(con)
      BY <1>2, <3>3
    <3> HIDE DEF con, n
    <3> QED BY <3>5, <3>6, <3>7, Zenon
  <2> QED BY <2>1, <2>2
<1> HIDE DEF con
<1>6. CASE UNCHANGED <<TCPCONLIST, number, seen>>
  <2>1. Numbers' /\ Balance' /\ Right'
    BY <1>1, <1>3, <1>4, <1>6 DEF IInv, Numbers, Balance, Right
  <2>2. Server'
    BY <1>1, <1>3, <1>6 DEF IInv, Server, Known, Unmentioned
  <2> QED BY <2>1, <2>2 DEF IInv
<1>7. ASSUME NEW s, TCPCONLIST = <<con>>, Known(con), con.number = n,
             s = tcp_send_enqueue(Begin(con, seen), flags, Head(calls).data),
             Done(1, s), seen' = s.seen
      PROVE  IInv'
  <2> DEFINE b == Begin(con, seen)
  <2>1. /\ DOMAIN b = {"con", "sent", "told", "opened", "closed", "seen"}
        /\ b.con = con /\ b.sent = <<>> /\ b.told = <<>> /\ b.opened = FALSE /\ b.closed = FALSE /\ b.seen = seen
    BY DEF Begin
  <2> HIDE DEF b
  <2>2. WorkOK(b)
    <3>1. <<>> \in Seq({})
      OBVIOUS
    <3> QED BY <1>7, <2>1, <3>1 DEF WorkOK, Sequence, Known
  <2>3. Leads(b, s) /\ Silent(b, s) /\ s.con.status \in {con.status, "FINWAIT1"}
    BY <1>7, <2>1, <2>2, SendEnqueue, FlushStatus DEF b
  <2>4. ConOK(s.con) /\ s.con.number = con.number /\ s.closed = FALSE /\ seen \subseteq seen'
    BY <1>7, <2>1, <2>3 DEF Leads, Silent, WorkOK
  <2>5. con.status \notin Early /\ s.con.status \notin Early
    <3>1. ~Unmentioned(con.number)
      BY <1>3, <1>7 DEF Unmentioned
    <3> QED BY <1>7, <2>3, <3>1 DEF Known, Early
  <2>6. number' = number /\ TCPCONLIST' = <<s.con>>
    BY <1>7, <2>4, OneCon DEF Done
  <2>7. TCPCONLIST'[1] = s.con /\ Len(TCPCONLIST') = 1 /\ Len(TCPCONLIST) = 1
    BY <1>7, <2>6
  <2>8. Numbers' /\ Balance' /\ Right'
    BY <1>1, <1>3, <1>4, <2>4, <2>6, <2>7 DEF IInv, Numbers, Balance, Right
  <2>9. Server'
    <3>1. EndNumber(HTTPD', httpd'.number) = s.con.number /\ s.con.number \in 1..number
      BY <1>1, <1>7, <2>4, <2>5 DEF Known
    <3> QED BY <2>4, <2>5, <2>6, <2>7, <3>1 DEF Server, Known
  <2> QED BY <2>8, <2>9 DEF IInv
<1> QED BY <1>5, <1>6, <1>7

LEMMA AcceptStep ==
  ASSUME IInv, accept
  PROVE  IInv'
<1>1. /\ calls # <<>> /\ Head(calls).cmd = "ACCEPT" /\ calls' = Tail(calls)
      /\ TCPCONLIST' = <<Listening>> \o TCPCONLIST /\ number' = number + 1
      /\ UNCHANGED <<HTTPD, httpd, seen>>
  BY DEF accept, TCP_CMD_ACCEPT
<1>2. /\ number \in Nat /\ httpd.number \in 0..number
      /\ Boxed(HTTPD, Signals, number) /\ Boxed(calls, Requests, number)
  BY DEF IInv, Numbers
<1>3. Boxed(calls', Requests, number)
  BY <1>1, <1>2, BoxedTail
<1>4. /\ Boxed(calls', Requests, number + 1) /\ Absent(calls', number + 1)
      /\ Boxed(HTTPD, Signals, number + 1) /\ Absent(HTTPD, number + 1)
  BY <1>2, <1>3, BoxedMore
<1>5. /\ Count(calls, "ACCEPT") = Count(calls', "ACCEPT") + 1
      /\ Count(calls', "ACCEPT") \in Nat /\ Count(HTTPD, "CLOSE") \in Nat
  <2>1. Sequence(calls) /\ Sequence(calls') /\ Sequence(HTTPD)
    BY <1>2, <1>3 DEF Boxed
  <2>2. Len(calls') \in Nat /\ Len(HTTPD) \in Nat
    BY <2>1, Appended
  <2>3. Count(calls', "ACCEPT") \in Nat /\ Count(HTTPD, "CLOSE") \in Nat
    BY <2>2, CountType
  <2>4. Count(calls, "ACCEPT") = Count(calls', "ACCEPT") + One(Head(calls), "ACCEPT")
    BY <1>1, <2>1, CountTail
  <2>5. One(Head(calls), "ACCEPT") = 1
    BY <1>1 DEF One
  <2> QED BY <2>3, <2>4, <2>5
<1>6. TCPCONLIST = <<>>
  <2>1. CASE TCPCONLIST # <<>>
    <3>1. TCPCONLIST = <<TCPCONLIST[1]>>
      BY <2>1 DEF IInv, Server
    <3>2. Len(TCPCONLIST) = 1
      BY <3>1
    <3> QED BY <1>5, <3>2 DEF IInv, Balance
  <2> QED BY <2>1
<1>7. TCPCONLIST' = <<Listening>>
  BY <1>1, <1>6
<1>8. TCPCONLIST'[1] = Listening /\ Len(TCPCONLIST') = 1 /\ Len(TCPCONLIST) = 0
  BY <1>6, <1>7
<1>9. ConOK(Listening) /\ Listening.number = number + 1 /\ Listening.status \in Early
  <2>1. <<>> \in Seq({})
    OBVIOUS
  <2>2. Sequence(<<>>)
    BY <2>1 DEF Sequence
  <2>3. /\ DOMAIN Listening = {"number", "peer", "status", "snd", "seq", "ack", "send_queue", "recv_queue"}
        /\ Listening.status = "LISTEN" /\ Listening.number = number + 1
        /\ Listening.send_queue = <<>> /\ Listening.recv_queue = <<>>
    BY DEF Listening
  <2> HIDE DEF Listening
  <2> QED BY <2>2, <2>3 DEF ConOK, Status, Early
<1> HIDE DEF Listening
<1>10. Numbers'
  BY <1>1, <1>2, <1>4 DEF IInv, Numbers
<1>11. Balance'
  BY <1>1, <1>5, <1>8 DEF IInv, Balance
<1>12. Server'
  <2>1. httpd'.number # number + 1 /\ Absent(HTTPD', number + 1) /\ Absent(calls', number + 1)
    BY <1>1, <1>2, <1>4
  <2> QED BY <1>1, <1>2, <1>7, <1>8, <1>9, <2>1 DEF Server, Known, Unmentioned
<1>13. Right'
  BY <1>1 DEF IInv, Right
<1> QED BY <1>10, <1>11, <1>12, <1>13 DEF IInv

-----------------------------------------------------------------------------
(* httpd.                                                                  *)

\* A message is taken from the box; the requests made are of this connection.
LEMMA TakeStep ==
  ASSUME IInv, HTTPD # <<>>, HTTPD' = Tail(HTTPD), calls = <<>>,
         UNCHANGED <<TCPCONLIST, number>>, seen \subseteq seen',
         DOMAIN httpd' = {"number", "p", "buffer", "answered"},
         httpd'.number = Noted(Head(HTTPD), httpd.number),
         Boxed(calls', Requests, number),
         \A m : m # 0 /\ m # httpd.number => Absent(calls', m),
         Count(calls', "ACCEPT") = One(Head(HTTPD), "CLOSE")
  PROVE  IInv'
<1>1. /\ number \in Nat /\ httpd.number \in 0..number /\ Boxed(HTTPD, Signals, number)
      /\ TCPCONLIST # <<>> => TCPCONLIST = <<TCPCONLIST[1]>> /\ Known(TCPCONLIST[1])
  BY DEF IInv, Numbers, Server
<1>2. /\ Boxed(HTTPD', Signals, number)
      /\ Head(HTTPD).cmd \in Signals /\ Head(HTTPD).number \in 0..number
      /\ \A m : Absent(HTTPD, m) => Absent(HTTPD', m) /\ Head(HTTPD).number # m
  BY <1>1, BoxedTail
<1>3. httpd'.number \in 0..number
  BY <1>1, <1>2 DEF Noted
<1>4. Sequence(HTTPD) /\ Sequence(HTTPD')
  BY <1>1, <1>2 DEF Boxed
<1>5. /\ EndNumber(HTTPD', httpd'.number) = EndNumber(HTTPD, httpd.number)
      /\ RightBox(HTTPD, httpd.number) => RightBox(HTTPD', httpd'.number)
  BY <1>4, TakeMessage
<1>6. Numbers'
  BY <1>1, <1>2, <1>3 DEF Numbers
<1>7. Balance'
  <2>1. Count(HTTPD, "CLOSE") = Count(HTTPD', "CLOSE") + One(Head(HTTPD), "CLOSE")
    BY <1>4, CountTail
  <2>2. Len(HTTPD') \in Nat
    BY <1>4, Appended
  <2>3. Count(HTTPD', "CLOSE") \in Nat
    BY <2>2, CountType
  <2>4. Count(calls, "ACCEPT") = 0
    <3>1. \A k \in 1..Len(calls) : calls[k].cmd # "ACCEPT"
      OBVIOUS
    <3> QED BY <3>1, CountNone
  <2>5. One(Head(HTTPD), "CLOSE") \in Nat
    BY DEF One
  <2>6. Len(TCPCONLIST) \in Nat
    BY <1>1
  <2>7. Count(calls, "ACCEPT") + Len(TCPCONLIST) + Count(HTTPD, "CLOSE") = 1
    BY DEF IInv, Balance
  <2>8. Count(calls', "ACCEPT") + Len(TCPCONLIST') + Count(HTTPD', "CLOSE") = 1
    BY <2>1, <2>3, <2>4, <2>5, <2>6, <2>7
  <2> QED BY <2>8 DEF Balance
<1>8. Server'
  <2> SUFFICES ASSUME TCPCONLIST # <<>> PROVE TCPCONLIST = <<TCPCONLIST[1]>> /\ Known(TCPCONLIST[1])'
    BY DEF Server
  <2> DEFINE con == TCPCONLIST[1]
  <2>1. con' = con /\ Known(con)
    BY <1>1
  <2> HIDE DEF con
  <2>2. con.number # 0 /\ con.number \in 1..number /\ ConOK(con)
    BY <1>1, <2>1 DEF Known
  <2>3. con.status \in Early => httpd'.number # con.number /\ Absent(HTTPD', con.number)
                                /\ Absent(calls', con.number)
    BY <1>2, <2>1, <2>2 DEF Known, Unmentioned, Noted
  <2>4. con.status \notin Early => EndNumber(HTTPD', httpd'.number) = con.number
    BY <1>5, <2>1 DEF Known
  <2> QED BY <1>1, <2>1, <2>2, <2>3, <2>4 DEF Known, Unmentioned, con
<1>9. Right'
  BY <1>5 DEF IInv, Right
<1> QED BY <1>6, <1>7, <1>8, <1>9 DEF IInv

LEMMA ESTABStep ==
  ASSUME IInv, TCP_CMD_ESTAB
  PROVE  IInv'
<1>1. /\ HTTPD # <<>> /\ HTTPD' = Tail(HTTPD) /\ calls = <<>> /\ calls' = <<>>
      /\ UNCHANGED <<TCPCONLIST, number, seen>>
      /\ Head(HTTPD).cmd = "ESTAB"
      /\ httpd' = [number |-> Head(HTTPD).number, p |-> TRUE, buffer |-> <<>>, answered |-> FALSE]
  BY DEF TCP_CMD_ESTAB, kz_recv, conVars
<1>2. DOMAIN httpd' = {"number", "p", "buffer", "answered"} /\ httpd'.number = Noted(Head(HTTPD), httpd.number)
  BY <1>1 DEF Noted
<1>3. Boxed(calls', Requests, number) /\ \A m : Absent(calls', m)
  BY <1>1, BoxedEmpty
<1>4. Count(calls', "ACCEPT") = One(Head(HTTPD), "CLOSE")
  <2>1. \A k \in 1..Len(calls') : calls'[k].cmd # "ACCEPT"
    BY <1>1
  <2>2. Count(calls', "ACCEPT") = 0
    BY <2>1, CountNone
  <2> QED BY <1>1, <2>2 DEF One
<1> QED BY <1>1, <1>2, <1>3, <1>4, TakeStep

LEMMA ClosedStep ==
  ASSUME IInv, closed
  PROVE  IInv'
<1>1. /\ HTTPD # <<>> /\ HTTPD' = Tail(HTTPD) /\ calls = <<>> /\ calls' = <<send_accept>>
      /\ UNCHANGED <<TCPCONLIST, number, seen>>
      /\ Head(HTTPD).cmd = "CLOSE"
      /\ httpd' = [httpd EXCEPT !.number = 0]
  BY DEF closed, kz_recv, conVars
<1>2. DOMAIN httpd' = {"number", "p", "buffer", "answered"} /\ httpd'.number = Noted(Head(HTTPD), httpd.number)
  BY <1>1 DEF Noted, IInv, Numbers
<1>3. calls' = Append(<<>>, send_accept) /\ send_accept.cmd = "ACCEPT" /\ send_accept.number = 0
  BY <1>1 DEF send_accept, call
<1> HIDE DEF send_accept
<1>4. number \in Nat /\ Boxed(<<>>, Requests, number)
  BY BoxedEmpty DEF IInv, Numbers
<1>5. Boxed(calls', Requests, number)
  <2>1. send_accept.cmd \in Requests /\ send_accept.number \in 0..number
    BY <1>3, <1>4 DEF Requests
  <2> QED BY <1>3, <1>4, <2>1, BoxedAppend
<1>6. \A m : m # 0 => Absent(calls', m)
  BY <1>1, <1>3 DEF Absent
<1>7. Count(calls', "ACCEPT") = One(Head(HTTPD), "CLOSE")
  <2>1. Sequence(<<>>)
    BY <1>4 DEF Boxed
  <2>2. Count(calls', "ACCEPT") = Count(<<>>, "ACCEPT") + One(send_accept, "ACCEPT")
    BY <1>3, <2>1, CountAppend
  <2>3. Count(<<>>, "ACCEPT") = 0
    BY CountEmpty
  <2> QED BY <1>1, <1>3, <2>2, <2>3 DEF One
<1> QED BY <1>1, <1>2, <1>5, <1>6, <1>7, TakeStep

\* The requests of a reply are of httpd's connection, none asks for another one.
LEMMA ParseIs ==
  ASSUME NEW line, NEW n \in Nat, httpd.number \in 0..n
  PROVE  /\ Boxed(parse(line), Requests, n)
         /\ \A m : m # httpd.number => Absent(parse(line), m)
         /\ Count(parse(line), "ACCEPT") = 0
<1> DEFINE h == httpd.number
           q == [k \in 1..PIECES |-> call("SEND", h, <<k>>)]
           x == call("CLOSE", h, <<>>)
           all == Append(q, x)
<1>1. x.cmd = "CLOSE" /\ x.number = h
  BY DEF call
<1>2. q \in Seq(Range(q)) /\ Len(q) = PIECES /\ \A k \in 1..Len(q) : q[k].cmd = "SEND" /\ q[k].number = h
  <2>1. PIECES \in Nat
    BY HttpdAssumption
  <2>2. DOMAIN q = 1..PIECES /\ \A k \in 1..PIECES : q[k].cmd = "SEND" /\ q[k].number = h
    BY DEF call
  <2>3. \A k \in 1..PIECES : q[k] \in Range(q)
    BY DEF Range
  <2>4. q \in Seq(Range(q))
    <3> DEFINE R == Range(q)
    <3>1. q \in [1..PIECES -> R]
      BY <2>3
    <3> HIDE DEF R, q
    <3> QED BY <2>1, <3>1, IsASeq DEF R
  <2> HIDE DEF q
  <2>5. Len(q) = PIECES
    BY <2>1, <2>2, <2>4, LenProperties
  <2> QED BY <2>2, <2>4, <2>5
<1>3. parse(line) = all \/ parse(line) = <<>>
  <2>1. parse(line) = q \o <<x>> \/ parse(line) = <<>>
    BY DEF parse
  <2>2. q \o <<x>> = Append(q, x)
    <3>1. q \in Seq(Range(q) \cup {x}) /\ x \in Range(q) \cup {x}
      BY <1>2
    <3> HIDE DEF q, x
    <3> QED BY <3>1, AppendIsConcat
  <2> QED BY <2>1, <2>2
<1> HIDE DEF q, x
<1>4. Sequence(q)
  BY <1>2 DEF Sequence
<1>5. Boxed(q, Requests, n)
  BY <1>2, <1>4 DEF Boxed, Requests
<1>6. Boxed(all, Requests, n)
  BY <1>1, <1>5, BoxedAppend DEF Requests
<1>7. /\ Len(q) \in Nat /\ Len(all) = Len(q) + 1
      /\ \A k \in 1..Len(q) : all[k] = q[k]
      /\ all[Len(q) + 1] = x
  BY <1>4, Appended
<1> HIDE DEF all
<1>8. \A k \in 1..Len(all) : all[k].number = h /\ all[k].cmd # "ACCEPT"
  <2> SUFFICES ASSUME NEW k \in 1..Len(all) PROVE all[k].number = h /\ all[k].cmd # "ACCEPT"
    OBVIOUS
  <2>1. CASE k \in 1..Len(q)
    BY <1>2, <1>7, <2>1
  <2>2. CASE k = Len(q) + 1
    BY <1>1, <1>7, <2>2
  <2> QED BY <1>7, <2>1, <2>2
<1>9. Count(all, "ACCEPT") = 0
  BY <1>8, CountNone
<1>10. \A m : m # h => Absent(all, m)
  BY <1>8 DEF Absent
<1>11. CASE parse(line) = all
  BY <1>6, <1>9, <1>10, <1>11
<1>12. CASE parse(line) = <<>>
  BY <1>12, BoxedEmpty, CountEmpty
<1> QED BY <1>3, <1>11, <1>12

LEMMA RECVStep ==
  ASSUME IInv, TCP_CMD_RECV
  PROVE  IInv'
<1>1. /\ HTTPD # <<>> /\ HTTPD' = Tail(HTTPD) /\ calls = <<>>
      /\ UNCHANGED <<TCPCONLIST, number>>
      /\ Head(HTTPD).cmd = "RECV"
  BY DEF TCP_CMD_RECV, kz_recv, conVars
<1>2. /\ seen \subseteq seen'
      /\ \/ httpd' = httpd
         \/ \E text : httpd' = [httpd EXCEPT !.buffer = text]
         \/ \E text, a : httpd' = [httpd EXCEPT !.buffer = text, !.answered = a]
      /\ calls' = <<>> \/ \E line : calls' = parse(line)
  BY <1>1 DEF TCP_CMD_RECV
<1>3. number \in Nat /\ httpd.number \in 0..number /\ DOMAIN httpd = {"number", "p", "buffer", "answered"}
  BY DEF IInv, Numbers
<1>4. DOMAIN httpd' = {"number", "p", "buffer", "answered"} /\ httpd'.number = Noted(Head(HTTPD), httpd.number)
  BY <1>1, <1>2, <1>3 DEF Noted
<1>5. /\ Boxed(calls', Requests, number) /\ Count(calls', "ACCEPT") = 0
      /\ \A m : m # httpd.number => Absent(calls', m)
  <2>1. CASE calls' = <<>>
    BY <2>1, BoxedEmpty, CountEmpty
  <2>2. ASSUME NEW line, calls' = parse(line)
        PROVE  /\ Boxed(calls', Requests, number) /\ Count(calls', "ACCEPT") = 0
               /\ \A m : m # httpd.number => Absent(calls', m)
    BY <1>3, <2>2, ParseIs
  <2> QED BY <1>2, <2>1, <2>2
<1>6. Count(calls', "ACCEPT") = One(Head(HTTPD), "CLOSE")
  BY <1>1, <1>5 DEF One
<1> QED BY <1>1, <1>2, <1>4, <1>5, <1>6, TakeStep

-----------------------------------------------------------------------------
(* Serving and AnswersRight.                                               *)

LEMMA NextIInv == IInv /\ [Next]_vars => IInv'
<1> SUFFICES ASSUME IInv, [Next]_vars PROVE IInv'
  OBVIOUS
<1>1. CASE tcp_proc
  <2>1. CASE tcp_send
    <3>1. "SEND" # "ACCEPT"
      OBVIOUS
    <3> QED BY <2>1, <3>1, CMDStep DEF tcp_send
  <2>2. CASE TCP_CMD_CLOSE
    <3>1. "CLOSE" # "ACCEPT"
      OBVIOUS
    <3> QED BY <2>2, <3>1, CMDStep DEF TCP_CMD_CLOSE
  <2>3. CASE accept
    BY <2>3, AcceptStep
  <2> QED BY <1>1, <2>1, <2>2, <2>3 DEF tcp_proc
<1>2. CASE httpd_main
  BY <1>2, ESTABStep, ClosedStep, RECVStep DEF httpd_main
<1>3. ASSUME NEW c \in Client, TCP_CMD_IPRECV(c) PROVE IInv'
  BY <1>3, IPRECVStep
<1>4. ASSUME NEW c \in Client,
             \/ connect(c) \/ establish(c) \/ receive(c) \/ refuse(c) \/ request(c)
             \/ retransmit(c) \/ close(c) \/ leave(c)
      PROVE  IInv'
  <2>1. UNCHANGED board
    BY <1>4 DEF connect, establish, receive, refuse, request, retransmit, close, leave
  <2>2. seen \subseteq seen'
    BY <1>4 DEF connect, establish, receive, refuse, request, retransmit, close, leave
  <2> QED BY <2>1, <2>2, BoardStep
<1>5. CASE UNCHANGED vars
  BY <1>5, BoardStep DEF vars
<1> QED BY <1>1, <1>2, <1>3, <1>4, <1>5 DEF Next

\* httpd.c always has one connection or has asked for the next one, however a
\* connection ends.
THEOREM ServingCorrect == Spec => []Serving
<1>1. IInv => Serving
  BY DEF IInv, Balance, Serving
<1> QED BY <1>1, InitIInv, NextIInv, PTL DEF Spec

\* httpd answers to the connection the data came from, unless data came with
\* the end of the handshake.
THEOREM AnswersCorrect == Spec => []AnswersRight
<1>1. IInv => AnswersRight
  BY CurrentIs DEF IInv, Right, RightBox, AnswersRight
<1> QED BY <1>1, InitIInv, NextIInv, PTL DEF Spec

-----------------------------------------------------------------------------
(* What the handlers of tcp.c come to.                                     *)

Kinds == {{"SYN"}, {"RST"}, {"ACK"}, {"PSH", "ACK"}, {"FIN", "ACK"}}

\* What an acknowledgement makes of the status of a connection.
Advanced(status) ==
  CASE status = "SYNRECV"  -> "ESTAB"
    [] status = "FINWAIT1" -> "FINWAIT2"
    [] status = "LASTACK"  -> "CLOSED"
    [] OTHER               -> status

\* An acknowledgement of ack has led from con to a: the packet in front of the
\* queue is sent, or nothing is.
Acked(con, a, ack) ==
  /\ a.con.peer = con.peer /\ a.con.number = con.number /\ a.con.seq = ack
  /\ a.told = <<>> /\ a.closed = (con.status = "LASTACK")
  /\ \/ /\ con.status = "ESTAB" /\ con.snd = ack /\ con.send_queue # <<>>
        /\ a.con.send_queue = Tail(con.send_queue)
        /\ a.con.snd = ack + Size(con.send_queue[1].flags, con.send_queue[1].data)
        /\ a.con.status = IF {"FIN", "ACK"} \subseteq con.send_queue[1].flags THEN "FINWAIT2" ELSE "ESTAB"
        /\ a.sent = Append(<<>>, segment(con.send_queue[1].flags, ack, con.ack, con.send_queue[1].data))
     \/ /\ con.status = "ESTAB" => con.snd # ack \/ con.send_queue = <<>>
        /\ a.con.send_queue = con.send_queue /\ a.con.snd = con.snd
        /\ a.con.status = Advanced(con.status) /\ a.sent = <<>>

LEMMA AcknowledgedIs ==
  ASSUME NEW con, ConOK(con), NEW seen0, NEW seg, "ACK" \in seg.flags, "RST" \notin seg.flags,
         NEW b, b = [Begin(con, seen0) EXCEPT !.closed = "RST" \in seg.flags]
  PROVE  LET a == Acknowledged(b, seg)
         IN Leads(b, a) /\ Acked(con, a, seg.ack)
<1> DEFINE t == [b EXCEPT !.con.seq = seg.ack]
           u == IF t.con.status = "ESTAB" THEN tcp_send_flush(t) ELSE t
           a == Acknowledged(b, seg)
<1>1. /\ DOMAIN b = {"con", "sent", "told", "opened", "closed", "seen"}
      /\ b.con = con /\ b.sent = <<>> /\ b.told = <<>> /\ b.opened = FALSE /\ b.closed = FALSE
  <2>1. ("RST" \in seg.flags) = FALSE
    <3>1. ("RST" \in seg.flags) \in BOOLEAN
      OBVIOUS
    <3> QED BY <3>1
  <2>2. b = [Begin(con, seen0) EXCEPT !.closed = FALSE]
    BY <2>1
  <2> QED BY <2>2 DEF Begin
<1>2. Sequence(<<>>)
  <2>1. <<>> \in Seq({})
    OBVIOUS
  <2> QED BY <2>1 DEF Sequence
<1>3. WorkOK(b)
  BY <1>1, <1>2 DEF WorkOK
<1>4. Leads(b, a)
  BY <1>1, <1>3, AcknowledgedStep
<1>5. /\ DOMAIN t = DOMAIN b /\ DOMAIN t.con = DOMAIN con
      /\ t.con.number = con.number /\ t.con.status = con.status /\ t.con.peer = con.peer
      /\ t.con.snd = con.snd /\ t.con.seq = seg.ack /\ t.con.ack = con.ack
      /\ t.con.send_queue = con.send_queue /\ t.con.recv_queue = con.recv_queue
      /\ t.sent = <<>> /\ t.told = <<>> /\ t.opened = FALSE /\ t.closed = FALSE
  BY <1>1 DEF ConOK
<1>6. a = CASE u.con.status = "SYNRECV"  -> [u EXCEPT !.con.status = "ESTAB", !.opened = TRUE]
            [] u.con.status = "FINWAIT1" -> [u EXCEPT !.con.status = "FINWAIT2"]
            [] u.con.status = "LASTACK"  -> [u EXCEPT !.con.status = "CLOSED", !.closed = TRUE]
            [] OTHER                     -> u
  BY DEF Acknowledged
<1> HIDE DEF t, a
<1>7. WorkOK(t)
  BY <1>1, <1>2, <1>5 DEF WorkOK, ConOK
<1>8. /\ WorkOK(u) /\ u.con.number = con.number /\ Silent(t, u)
      /\ con.status = "ESTAB" => Flushes(t, u, con.send_queue)
      /\ con.status # "ESTAB" => u = t
  <2>1. CASE t.con.status = "ESTAB"
    <3>1. u = tcp_send_flush(t)
      BY <2>1
    <3> HIDE DEF u
    <3>2. Leads(t, u) /\ Silent(t, u) /\ Flushes(t, u, t.con.send_queue)
      BY <1>7, <3>1, SendFlush
    <3> QED BY <1>5, <2>1, <3>2 DEF Leads
  <2>2. CASE t.con.status # "ESTAB"
    <3>1. u = t
      BY <2>2
    <3> HIDE DEF u
    <3> QED BY <1>5, <1>7, <2>2, <3>1 DEF Silent
  <2> QED BY <2>1, <2>2
<1> HIDE DEF u
<1>9. /\ a.con.peer = u.con.peer /\ a.con.number = u.con.number /\ a.con.seq = u.con.seq
      /\ a.con.snd = u.con.snd /\ a.con.send_queue = u.con.send_queue
      /\ a.con.status = Advanced(u.con.status)
      /\ a.sent = u.sent /\ a.told = u.told /\ a.closed = (u.closed \/ u.con.status = "LASTACK")
  <2>1. CASE u.con.status = "SYNRECV"
    <3>1. a = [u EXCEPT !.con.status = "ESTAB", !.opened = TRUE]
      BY <1>6, <2>1
    <3> QED BY <1>8, <2>1, <3>1 DEF WorkOK, ConOK, Advanced
  <2>2. CASE u.con.status = "FINWAIT1"
    <3>1. a = [u EXCEPT !.con.status = "FINWAIT2"]
      BY <1>6, <2>2
    <3> QED BY <1>8, <2>2, <3>1 DEF WorkOK, ConOK, Advanced
  <2>3. CASE u.con.status = "LASTACK"
    <3>1. a = [u EXCEPT !.con.status = "CLOSED", !.closed = TRUE]
      BY <1>6, <2>3
    <3> QED BY <1>8, <2>3, <3>1 DEF WorkOK, ConOK, Advanced
  <2>4. CASE u.con.status \notin {"SYNRECV", "FINWAIT1", "LASTACK"}
    <3>1. a = u
      BY <1>6, <2>4
    <3> QED BY <1>8, <2>4, <3>1 DEF WorkOK, ConOK, Advanced
  <2> QED BY <2>1, <2>2, <2>3, <2>4
<1>10. Acked(con, a, seg.ack)
  <2>1. CASE con.status # "ESTAB"
    <3>1. u = t
      BY <1>8, <2>1
    <3> QED BY <1>5, <1>9, <2>1, <3>1 DEF Acked
  <2>2. CASE con.status = "ESTAB" /\ con.snd = seg.ack /\ con.send_queue # <<>>
    <3>1. Flushes(t, u, con.send_queue) /\ Silent(t, u)
      BY <1>8, <2>2
    <3>2. /\ u.con.peer = con.peer /\ u.con.seq = seg.ack /\ u.con.send_queue = Tail(con.send_queue)
          /\ u.con.snd = seg.ack + Size(con.send_queue[1].flags, con.send_queue[1].data)
          /\ u.con.status = IF {"FIN", "ACK"} \subseteq con.send_queue[1].flags THEN "FINWAIT1" ELSE "ESTAB"
          /\ u.sent = Append(<<>>, segment(con.send_queue[1].flags, seg.ack, con.ack, con.send_queue[1].data))
          /\ u.told = <<>> /\ u.closed = FALSE
      BY <1>5, <2>2, <3>1 DEF Flushes, Silent
    <3>3. a.con.status = IF {"FIN", "ACK"} \subseteq con.send_queue[1].flags THEN "FINWAIT2" ELSE "ESTAB"
      BY <1>9, <3>2 DEF Advanced
    <3>4. a.closed = (con.status = "LASTACK")
      BY <1>9, <2>2, <3>2
    <3> QED BY <1>8, <1>9, <2>2, <3>2, <3>3, <3>4 DEF Acked
  <2>3. CASE con.status = "ESTAB" /\ (con.snd # seg.ack \/ con.send_queue = <<>>)
    <3>1. Flushes(t, u, con.send_queue) /\ Silent(t, u)
      BY <1>8, <2>3
    <3>2. /\ u.con.peer = con.peer /\ u.con.seq = seg.ack /\ u.con.send_queue = con.send_queue
          /\ u.con.snd = con.snd /\ u.con.status = "ESTAB" /\ u.sent = <<>>
          /\ u.told = <<>> /\ u.closed = FALSE
      BY <1>5, <2>3, <3>1 DEF Flushes, Silent
    <3>3. a.con.status = Advanced(con.status) /\ a.closed = (con.status = "LASTACK")
      BY <1>9, <2>3, <3>2
    <3> QED BY <1>8, <1>9, <2>3, <3>2, <3>3 DEF Acked
  <2> QED BY <2>1, <2>2, <2>3
<1> QED BY <1>4, <1>10 DEF a

\* A SYN opens a listening connection and is ignored by any other; a reset closes.
Ignores(con, s) == s.con = con /\ s.sent = <<>> /\ s.told = <<>> /\ s.closed = FALSE
Welcomes(con, c, s) ==
  /\ s.con.status = "SYNRECV" /\ s.con.peer = c /\ s.con.number = con.number
  /\ s.con.snd = 2 /\ s.con.seq = 1 /\ s.con.send_queue = <<>>
  /\ \E ack : s.sent = Append(<<>>, segment({"SYN", "ACK"}, 1, ack, <<>>))
  /\ s.told = <<>> /\ s.closed = FALSE
Resets(s) == s.sent = <<>> /\ s.told = <<>> /\ s.closed = TRUE

LEMMA OpeningIs ==
  ASSUME NEW con, ConOK(con), con.snd \in Int, NEW c, NEW seg, seg.flags = {"SYN"}, NEW seen0,
         con.status = "LISTEN" => con.send_queue = <<>>,
         NEW s \in tcp_recv(con, c, seg, seen0)
  PROVE  IF con.status = "LISTEN" THEN Welcomes(con, c, s) ELSE Ignores(con, s)
<1> DEFINE b == [Begin(con, seen0) EXCEPT !.closed = "RST" \in seg.flags]
           y == Synchronized(b, c, seg)
<1>1. s = y
  <2>1. Acknowledged(b, seg) = b
    BY DEF Acknowledged
  <2>2. Finished(y, seg) = y
    BY DEF Finished
  <2>3. Pushed(y, seg) = y
    BY DEF Pushed
  <2>4. s = Pushed(Finished(Synchronized(Acknowledged(b, seg), c, seg), seg), seg)
    BY DEF tcp_recv
  <2> HIDE DEF b
  <2> QED BY <2>1, <2>2, <2>3, <2>4
<1>2. /\ DOMAIN b = {"con", "sent", "told", "opened", "closed", "seen"}
      /\ b.con = con /\ b.sent = <<>> /\ b.told = <<>> /\ b.opened = FALSE /\ b.closed = FALSE
      /\ b.seen = seen0
  <2>1. "RST" \notin seg.flags
    OBVIOUS
  <2>2. ("RST" \in seg.flags) = FALSE
    <3>1. ("RST" \in seg.flags) \in BOOLEAN
      OBVIOUS
    <3> QED BY <2>1, <3>1
  <2>3. b = [Begin(con, seen0) EXCEPT !.closed = FALSE]
    BY <2>2
  <2> QED BY <2>3 DEF Begin
<1> HIDE DEF b
<1>3. CASE con.status # "LISTEN"
  <2>1. s = b
    BY <1>1, <1>2, <1>3 DEF Synchronized
  <2> QED BY <1>2, <1>3, <2>1 DEF Ignores
<1>4. CASE con.status = "LISTEN"
  <2> DEFINE t == [b EXCEPT !.con.snd = 1, !.con.seq = 1, !.con.peer = c, !.con.ack = seg.seq + 1]
             u == tcp_send_enqueue(t, {"SYN", "ACK"}, <<>>)
             pkt == [flags |-> {"SYN", "ACK"}, data |-> <<>>]
  <2>1. s = [u EXCEPT !.con.status = "SYNRECV"]
    BY <1>1, <1>2, <1>4 DEF Synchronized
  <2>2. /\ DOMAIN t = DOMAIN b /\ DOMAIN t.con = DOMAIN con
        /\ t.con.number = con.number /\ t.con.peer = c /\ t.con.status = "LISTEN"
        /\ t.con.snd = 1 /\ t.con.seq = 1 /\ t.con.ack = seg.seq + 1 /\ t.con.send_queue = <<>>
        /\ t.sent = <<>> /\ t.told = <<>> /\ t.closed = FALSE /\ t.seen = seen0
    BY <1>2, <1>4 DEF ConOK
  <2>3. tcp_send_enqueue(t, {"SYN", "ACK"}, <<>>)
          = tcp_send_flush([t EXCEPT !.con.send_queue = Append(t.con.send_queue, pkt)])
    BY DEF tcp_send_enqueue
  <2> DEFINE v == [t EXCEPT !.con.send_queue = Append(t.con.send_queue, pkt)]
             w == [v EXCEPT !.con.send_queue = Tail(v.con.send_queue)]
  <2> HIDE DEF t
  <2>10. Append(t.con.send_queue, pkt) = <<pkt>>
    BY <2>2
  <2>4. /\ DOMAIN v = DOMAIN b /\ DOMAIN v.con = DOMAIN con
        /\ v.con.number = con.number /\ v.con.peer = c /\ v.con.status = "LISTEN"
        /\ v.con.snd = 1 /\ v.con.seq = 1 /\ v.con.ack = seg.seq + 1 /\ v.con.send_queue = <<pkt>>
        /\ v.sent = <<>> /\ v.told = <<>> /\ v.closed = FALSE /\ v.seen = seen0
    <3>1. v = [t EXCEPT !.con.send_queue = <<pkt>>]
      BY <2>10
    <3> HIDE DEF v, pkt
    <3> QED BY <1>2, <2>2, <3>1 DEF ConOK
  <2> HIDE DEF v
  <2>5. /\ DOMAIN w = DOMAIN b /\ DOMAIN w.con = DOMAIN con
        /\ w.con.number = con.number /\ w.con.peer = c /\ w.con.status = "LISTEN"
        /\ w.con.snd = 1 /\ w.con.seq = 1 /\ w.con.ack = seg.seq + 1 /\ w.con.send_queue = <<>>
        /\ w.sent = <<>> /\ w.told = <<>> /\ w.closed = FALSE /\ w.seen = seen0
    BY <1>2, <2>4 DEF ConOK
  <2>6. u = tcp_sendpkt(w, pkt.flags, pkt.data)
    <3>1. Head(v.con.send_queue) = pkt /\ v.con.send_queue # <<>>
      BY <2>4
    <3>2. u = tcp_send_flush(v)
      BY <2>3 DEF v
    <3> QED BY <2>4, <3>1, <3>2 DEF tcp_send_flush
  <2>11. w.con.recv_queue = con.recv_queue /\ w.opened = FALSE
    <3>1. t.con.recv_queue = con.recv_queue /\ t.opened = FALSE
      BY <1>2, <1>4 DEF ConOK, t
    <3>2. v.con.recv_queue = con.recv_queue /\ v.opened = FALSE
      BY <1>2, <2>2, <3>1 DEF ConOK, v
    <3> QED BY <1>2, <2>4, <3>2 DEF ConOK
  <2> HIDE DEF w, u
  <2>7. pkt.flags = {"SYN", "ACK"} /\ pkt.data = <<>> /\ Size({"SYN", "ACK"}, <<>>) = 1
    BY DEF Size
  <2> HIDE DEF pkt
  <2>8. /\ DOMAIN u = DOMAIN b /\ DOMAIN u.con = DOMAIN con
        /\ u.con.number = con.number /\ u.con.peer = c
        /\ u.con.snd = 2 /\ u.con.seq = 1 /\ u.con.send_queue = <<>>
        /\ u.sent = Append(<<>>, segment({"SYN", "ACK"}, 1, seg.seq + 1, <<>>))
        /\ u.told = <<>> /\ u.closed = FALSE /\ u.seen = seen0
    <3>1. u = tcp_sendpkt(w, {"SYN", "ACK"}, <<>>)
      BY <2>6, <2>7
    <3>2. WorkOK(w)
      <4>1. Sequence(<<>>)
        <5>1. <<>> \in Seq({})
          OBVIOUS
        <5> QED BY <5>1 DEF Sequence
      <4>2. w.con.status \in Status /\ w.con.recv_queue = con.recv_queue
        BY <1>2, <2>11, <2>5 DEF Status
      <4>3. w.opened = FALSE
        BY <2>11
      <4> QED BY <1>2, <2>5, <4>1, <4>2, <4>3 DEF WorkOK, ConOK
    <3>3. Leads(w, u) /\ Silent(w, u) /\ Sends(w, u, {"SYN", "ACK"}, <<>>)
      BY <3>1, <3>2, SendPkt
    <3>4. u.seen = w.seen
      BY <2>5, <3>1, <3>2 DEF tcp_sendpkt, WorkOK
    <3>5. DOMAIN u = DOMAIN b /\ DOMAIN u.con = DOMAIN con
      BY <1>2, <3>3 DEF Leads, WorkOK, ConOK
    <3> QED BY <2>5, <2>7, <3>3, <3>4, <3>5 DEF Leads, Silent, Sends
  <2>9. /\ s.con.number = con.number /\ s.con.peer = c /\ s.con.status = "SYNRECV"
        /\ s.con.snd = 2 /\ s.con.seq = 1 /\ s.con.send_queue = <<>>
        /\ s.sent = u.sent /\ s.told = <<>> /\ s.closed = FALSE /\ s.seen = seen0
    BY <1>2, <2>1, <2>8 DEF ConOK
  <2> QED BY <1>4, <2>8, <2>9 DEF Welcomes
<1> QED BY <1>3, <1>4

LEMMA ResetIs ==
  ASSUME NEW con, NEW c, NEW seg, seg.flags = {"RST"}, NEW seen0, NEW s \in tcp_recv(con, c, seg, seen0)
  PROVE  Resets(s)
<1> DEFINE b == [Begin(con, seen0) EXCEPT !.closed = "RST" \in seg.flags]
<1>1. /\ b.con = con /\ b.sent = <<>> /\ b.told = <<>> /\ b.closed = TRUE /\ b.seen = seen0
  <2>1. "RST" \in seg.flags
    OBVIOUS
  <2>2. ("RST" \in seg.flags) = TRUE
    BY <2>1, Zenon
  <2>3. b = [Begin(con, seen0) EXCEPT !.closed = TRUE]
    BY <2>2
  <2> QED BY <2>3 DEF Begin
<1>2. s = Pushed(Finished(Synchronized(Acknowledged(b, seg), c, seg), seg), seg)
  BY DEF tcp_recv
<1> HIDE DEF b
<1>3. s = b
  <2>1. Acknowledged(b, seg) = b
    BY DEF Acknowledged
  <2>2. Synchronized(b, c, seg) = b
    BY DEF Synchronized
  <2>3. Finished(b, seg) = b
    BY DEF Finished
  <2>4. Pushed(b, seg) = b
    BY DEF Pushed
  <2> QED BY <1>2, <2>1, <2>2, <2>3, <2>4
<1> QED BY <1>1, <1>3 DEF Resets

Fin == [flags |-> {"FIN", "ACK"}, data |-> <<>>]

\* The end the client announced has led from y to f.
Ended(y, f) ==
  /\ f.con.peer = y.con.peer /\ f.con.number = y.con.number /\ f.con.seq = y.con.seq
  /\ f.told = y.told
  /\ "rewound" \notin f.seen => y.con.snd = y.con.seq
  /\ \E seg, ack :
       /\ Acknowledgement(seg, y.con.seq)
       /\ \/ /\ y.con.status = "FINWAIT2"
             /\ f.con.status = "CLOSED" /\ f.closed = TRUE
             /\ f.con.send_queue = y.con.send_queue /\ f.con.snd = y.con.seq
             /\ f.sent = Append(y.sent, seg)
          \/ LET q == Append(y.con.send_queue, Fin)
             IN /\ y.con.status = "ESTAB"
                /\ f.con.status = "LASTACK" /\ f.closed = y.closed
                /\ f.con.send_queue = Tail(q)
                /\ f.con.snd = y.con.seq + Size(q[1].flags, q[1].data)
                /\ f.sent = Append(Append(y.sent, seg), segment(q[1].flags, y.con.seq, ack, q[1].data))

LEMMA FinishedIs ==
  ASSUME NEW y, WorkOK(y), y.con.seq \in Int, NEW seg
  PROVE  LET f == Finished(y, seg)
         IN \/ f = y /\ ("FIN" \notin seg.flags \/ y.con.status \notin {"FINWAIT2", "ESTAB"})
            \/ "FIN" \in seg.flags /\ Ended(y, f)
<1> DEFINE f == Finished(y, seg)
           v == [y EXCEPT !.con.ack = seg.seq + 1]
           t == tcp_sendpkt(v, {"ACK"}, <<>>)
           u == tcp_send_enqueue(t, {"FIN", "ACK"}, <<>>)
           q == Append(y.con.send_queue, Fin)
<1>1. CASE "FIN" \notin seg.flags \/ y.con.status \notin {"FINWAIT2", "ESTAB"}
  <2>1. f = y
    BY <1>1 DEF Finished
  <2> QED BY <1>1, <2>1
<1>2. CASE "FIN" \in seg.flags /\ y.con.status \in {"FINWAIT2", "ESTAB"}
  <2>1. f = IF y.con.status = "FINWAIT2"
            THEN [t EXCEPT !.con.status = "CLOSED", !.closed = TRUE]
            ELSE [u EXCEPT !.con.status = "LASTACK"]
    BY <1>2 DEF Finished
  <2>2. /\ DOMAIN v = DOMAIN y /\ DOMAIN v.con = DOMAIN y.con
        /\ v.con.number = y.con.number /\ v.con.status = y.con.status /\ v.con.peer = y.con.peer
        /\ v.con.snd = y.con.snd /\ v.con.seq = y.con.seq
        /\ v.con.send_queue = y.con.send_queue /\ v.con.recv_queue = y.con.recv_queue
        /\ v.sent = y.sent /\ v.told = y.told /\ v.opened = y.opened /\ v.closed = y.closed /\ v.seen = y.seen
    BY DEF WorkOK, ConOK
  <2> HIDE DEF v
  <2>3. WorkOK(v)
    BY <2>2 DEF WorkOK, ConOK
  <2>4. Leads(v, t) /\ Silent(v, t) /\ Sends(v, t, {"ACK"}, <<>>)
    BY <2>3, SendPkt
  <2> HIDE DEF t
  <2> DEFINE ackn == segment({"ACK"}, v.con.seq, v.con.ack, <<>>)
  <2>5. Acknowledgement(ackn, y.con.seq) /\ t.sent = Append(y.sent, ackn)
    BY <2>2, <2>4 DEF Sends, Acknowledgement, segment
  <2> HIDE DEF ackn
  <2>6. /\ WorkOK(t) /\ t.con.number = y.con.number /\ t.con.status = y.con.status
        /\ t.con.peer = y.con.peer /\ t.con.seq = y.con.seq /\ t.con.snd = y.con.seq
        /\ t.con.send_queue = y.con.send_queue /\ t.told = y.told /\ t.closed = y.closed
        /\ "rewound" \notin t.seen => y.con.snd = y.con.seq
    <3>1. Size({"ACK"}, <<>>) = 0
      BY DEF Size
    <3>2. t.con.snd = y.con.seq
      BY <2>2, <2>4, <3>1 DEF Sends
    <3>3. t.con.status = y.con.status
      BY <2>2, <2>4 DEF Sends
    <3> QED BY <2>2, <2>4, <3>2, <3>3 DEF Sends, Leads, Silent
  <2>7. Leads(t, u) /\ Silent(t, u) /\ Flushes(t, u, q)
    BY <2>6, SendEnqueue DEF Fin
  <2> HIDE DEF u, f
  <2>8. q # <<>>
    BY <2>6, Appended DEF WorkOK, ConOK
  <2> HIDE DEF q
  <2>9. /\ WorkOK(u) /\ u.con.number = y.con.number /\ u.con.peer = y.con.peer /\ u.con.seq = y.con.seq
        /\ u.con.send_queue = Tail(q) /\ u.con.snd = y.con.seq + Size(q[1].flags, q[1].data)
        /\ u.sent = Append(t.sent, segment(q[1].flags, y.con.seq, t.con.ack, q[1].data))
        /\ u.told = y.told /\ u.closed = y.closed /\ t.seen \subseteq u.seen
    BY <2>6, <2>7, <2>8 DEF Flushes, Leads, Silent
  <2>10. CASE y.con.status = "FINWAIT2"
    <3>1. f = [t EXCEPT !.con.status = "CLOSED", !.closed = TRUE]
      BY <2>1, <2>10
    <3>2. /\ f.con.peer = t.con.peer /\ f.con.number = t.con.number /\ f.con.seq = t.con.seq
          /\ f.con.status = "CLOSED" /\ f.closed = TRUE /\ f.con.send_queue = t.con.send_queue
          /\ f.con.snd = t.con.snd /\ f.sent = t.sent /\ f.told = t.told /\ f.seen = t.seen
      BY <2>6, <3>1 DEF WorkOK, ConOK
    <3>3. Ended(y, f)
      BY <2>5, <2>6, <2>10, <3>2 DEF Ended
    <3> QED BY <1>2, <3>3 DEF f
  <2>11. CASE y.con.status = "ESTAB"
    <3>1. f = [u EXCEPT !.con.status = "LASTACK"]
      BY <2>1, <2>11
    <3>2. /\ f.con.peer = u.con.peer /\ f.con.number = u.con.number /\ f.con.seq = u.con.seq
          /\ f.con.status = "LASTACK" /\ f.closed = u.closed /\ f.con.send_queue = u.con.send_queue
          /\ f.con.snd = u.con.snd /\ f.sent = u.sent /\ f.told = u.told /\ f.seen = u.seen
      BY <2>9, <3>1 DEF WorkOK, ConOK
    <3>3. \E seg2, ack :
             /\ Acknowledgement(seg2, y.con.seq)
             /\ f.sent = Append(Append(y.sent, seg2), segment(q[1].flags, y.con.seq, ack, q[1].data))
      BY <2>5, <2>9, <3>2
    <3>4. "rewound" \notin f.seen => y.con.snd = y.con.seq
      BY <2>6, <2>9, <3>2
    <3>5. Ended(y, f)
      BY <2>9, <2>11, <3>2, <3>3, <3>4 DEF Ended, q
    <3> QED BY <1>2, <3>5 DEF f
  <2> QED BY <1>2, <2>10, <2>11
<1> QED BY <1>1, <1>2

\* What a segment with an acknowledgement comes to.
Answers(con, seg, s) ==
  \E a, f :
    /\ WorkOK(a) /\ WorkOK(f) /\ a.seen \subseteq f.seen
    /\ Acked(con, a, seg.ack)
    /\ \/ f = a /\ ("FIN" \notin seg.flags \/ a.con.status \notin {"FINWAIT2", "ESTAB"})
       \/ "FIN" \in seg.flags /\ Ended(a, f)
    /\ Passes(f, s) /\ (s = f \/ f.con.status = "ESTAB")

LEMMA AnswerIs ==
  ASSUME NEW con, ConOK(con), NEW c, NEW seg, seg.ack \in Int,
         "ACK" \in seg.flags, "RST" \notin seg.flags, "SYN" \notin seg.flags,
         NEW seen0, NEW s \in tcp_recv(con, c, seg, seen0)
  PROVE  Answers(con, seg, s)
<1> DEFINE b == [Begin(con, seen0) EXCEPT !.closed = "RST" \in seg.flags]
           a == Acknowledged(b, seg)
           f == Finished(a, seg)
<1>1. s = Pushed(Finished(Synchronized(Acknowledged(b, seg), c, seg), seg), seg)
  BY DEF tcp_recv
<1>2. Leads(b, a) /\ Acked(con, a, seg.ack)
  BY AcknowledgedIs
<1> HIDE DEF b, a
<1>3. Synchronized(a, c, seg) = a
  BY DEF Synchronized
<1>4. s = Pushed(f, seg)
  BY <1>1, <1>3 DEF a
<1>5. WorkOK(a) /\ a.con.seq \in Int /\ a.told = <<>>
  BY <1>2 DEF Leads, Acked
<1>6. \/ f = a /\ ("FIN" \notin seg.flags \/ a.con.status \notin {"FINWAIT2", "ESTAB"})
      \/ "FIN" \in seg.flags /\ Ended(a, f)
  BY <1>5, FinishedIs
<1>7. Moves(a, f)
  BY <1>5, FinishedStep
<1> HIDE DEF f
<1>8. WorkOK(f) /\ f.told = <<>> /\ a.seen \subseteq f.seen
  BY <1>5, <1>7 DEF Moves, Leads
<1>9. Passes(f, s)
  BY <1>4, <1>8, PushedStep
<1>10. s = f \/ f.con.status = "ESTAB"
  BY <1>4 DEF Pushed
<1> QED BY <1>2, <1>5, <1>6, <1>8, <1>9, <1>10 DEF Answers

-----------------------------------------------------------------------------
(* The elements of a queue.                                                *)

LEMMA RangeEmpty == Range(<<>>) = {}
BY DEF Range

LEMMA RangeIs ==
  ASSUME NEW q, Sequence(q)
  PROVE  Range(q) = {q[k] : k \in 1..Len(q)} /\ Len(q) \in Nat
<1>1. PICK S : q \in Seq(S)
  BY DEF Sequence
<1>2. DOMAIN q = 1..Len(q) /\ Len(q) \in Nat
  BY <1>1, LenProperties
<1> QED BY <1>2 DEF Range

LEMMA RangeAppend ==
  ASSUME NEW q, Sequence(q), NEW x
  PROVE  Sequence(Append(q, x)) /\ Range(Append(q, x)) = Range(q) \cup {x}
<1> DEFINE r == Append(q, x)
<1>1. /\ Sequence(r) /\ Len(q) \in Nat /\ Len(r) = Len(q) + 1
      /\ \A k \in 1..Len(q) : r[k] = q[k]
      /\ r[Len(q) + 1] = x
  BY Appended
<1> HIDE DEF r
<1>2. Range(q) = {q[k] : k \in 1..Len(q)} /\ Range(r) = {r[k] : k \in 1..Len(r)}
  BY <1>1, RangeIs
<1>3. Range(q) \cup {x} \subseteq Range(r)
  <2>1. x \in Range(r)
    BY <1>1, <1>2
  <2>2. ASSUME NEW k \in 1..Len(q) PROVE q[k] \in Range(r)
    <3>1. k \in 1..Len(r) /\ r[k] = q[k]
      BY <1>1
    <3> QED BY <1>2, <3>1
  <2> QED BY <1>2, <2>1, <2>2
<1>4. Range(r) \subseteq Range(q) \cup {x}
  <2>1. ASSUME NEW k \in 1..Len(r) PROVE r[k] \in Range(q) \cup {x}
    <3>1. k \in 1..Len(q) \/ k = Len(q) + 1
      BY <1>1
    <3> QED BY <1>1, <1>2, <3>1
  <2> QED BY <1>2, <2>1
<1> QED BY <1>1, <1>3, <1>4 DEF r

LEMMA RangeTail ==
  ASSUME NEW q, Sequence(q), q # <<>>
  PROVE  /\ Sequence(Tail(q)) /\ Range(q) = Range(Tail(q)) \cup {q[1]}
         /\ Head(q) = q[1] /\ q[1] \in Range(q) /\ Range(Tail(q)) \subseteq Range(q)
<1> DEFINE r == Tail(q)
<1>1. /\ Sequence(r) /\ Len(q) \in Nat \ {0} /\ Len(r) = Len(q) - 1
      /\ \A k \in 1..Len(r) : r[k] = q[k + 1]
      /\ Head(q) = q[1]
  BY Tailed
<1> HIDE DEF r
<1>2. Range(q) = {q[k] : k \in 1..Len(q)} /\ Range(r) = {r[k] : k \in 1..Len(r)}
  BY <1>1, RangeIs
<1>3. Range(r) \subseteq Range(q) /\ q[1] \in Range(q)
  <2>1. \A k \in 1..Len(r) : k + 1 \in 1..Len(q)
    BY <1>1
  <2>2. 1 \in 1..Len(q)
    BY <1>1
  <2> QED BY <1>1, <1>2, <2>1, <2>2
<1>4. Range(q) \subseteq Range(r) \cup {q[1]}
  <2>1. ASSUME NEW k \in 1..Len(q) PROVE q[k] \in Range(r) \cup {q[1]}
    <3>1. CASE k = 1
      BY <3>1
    <3>2. CASE k # 1
      <4>1. k - 1 \in 1..Len(r) /\ (k - 1) + 1 = k
        BY <1>1, <3>2
      <4>2. r[k - 1] = q[k]
        BY <1>1, <4>1
      <4> QED BY <1>2, <4>1, <4>2
    <3> QED BY <3>1, <3>2
  <2> QED BY <1>2, <2>1
<1> QED BY <1>1, <1>3, <1>4 DEF r

LEMMA RangeJoin ==
  ASSUME NEW q, Sequence(q), NEW t, Sequence(t)
  PROVE  Sequence(q \o t) /\ Range(q \o t) = Range(q) \cup Range(t)
<1> DEFINE r == q \o t
<1>1. /\ Sequence(r) /\ Len(q) \in Nat /\ Len(t) \in Nat /\ Len(r) = Len(q) + Len(t)
  BY Joined
<1>2. \A k \in 1..Len(q) : r[k] = q[k]
  BY Joined
<1>3. \A k \in 1..Len(t) : r[Len(q) + k] = t[k]
  BY Joined
<1> HIDE DEF r
<1>4. /\ Range(q) = {q[k] : k \in 1..Len(q)} /\ Range(t) = {t[k] : k \in 1..Len(t)}
      /\ Range(r) = {r[k] : k \in 1..Len(r)}
  BY <1>1, RangeIs
<1>5. ASSUME NEW k \in 1..Len(r) PROVE r[k] \in Range(q) \cup Range(t)
  <2>1. CASE k \in 1..Len(q)
    BY <1>2, <1>4, <2>1
  <2>2. CASE k \notin 1..Len(q)
    <3>1. k - Len(q) \in 1..Len(t) /\ Len(q) + (k - Len(q)) = k
      BY <1>1, <2>2
    <3>2. r[k] = t[k - Len(q)]
      BY <1>3, <3>1
    <3> QED BY <1>4, <3>1, <3>2
  <2> QED BY <2>1, <2>2
<1>6. ASSUME NEW k \in 1..Len(q) PROVE q[k] \in Range(r)
  <2>1. k \in 1..Len(r) /\ r[k] = q[k]
    BY <1>1, <1>2
  <2> QED BY <1>4, <2>1
<1>7. ASSUME NEW k \in 1..Len(t) PROVE t[k] \in Range(r)
  <2>1. Len(q) + k \in 1..Len(r) /\ r[Len(q) + k] = t[k]
    BY <1>1, <1>3
  <2> QED BY <1>4, <2>1
<1>8. Range(r) = Range(q) \cup Range(t)
  BY <1>4, <1>5, <1>6, <1>7
<1> QED BY <1>1, <1>8 DEF r

LEMMA RangeAcks ==
  ASSUME NEW old, Sequence(old), NEW new, Sequence(new), NEW n, Acks(old, new, n)
  PROVE  \A x \in Range(new) : x \in Range(old) \/ Acknowledgement(x, n)
<1>1. /\ Range(old) = {old[k] : k \in 1..Len(old)} /\ Range(new) = {new[k] : k \in 1..Len(new)}
      /\ Len(old) \in Nat /\ Len(new) \in Nat
  BY RangeIs
<1>2. ASSUME NEW k \in 1..Len(new) PROVE new[k] \in Range(old) \/ Acknowledgement(new[k], n)
  <2>1. CASE k \in 1..Len(old)
    BY <1>1, <2>1 DEF Acks
  <2>2. CASE k \notin 1..Len(old)
    BY <1>1, <2>2 DEF Acks
  <2> QED BY <2>1, <2>2
<1> QED BY <1>1, <1>2

LEMMA EmptySequence == Sequence(<<>>) /\ Len(<<>>) = 0
<1>1. <<>> \in Seq({})
  OBVIOUS
<1> QED BY <1>1 DEF Sequence

-----------------------------------------------------------------------------
(* What a segment with an acknowledgement does to a connection that is not *)
(* listening.                                                              *)

Ends(seg) == "FIN" \in seg.flags
Packet(pkt) == pkt.flags \in {{"PSH", "ACK"}, {"FIN", "ACK"}} /\ Size(pkt.flags, pkt.data) \in Int
Written(seg) == seg.seq \in Int /\ Size(seg.flags, seg.data) \in Int

Formed(con) ==
  /\ con.snd \in Int /\ con.seq \in Int
  /\ con.status # "CLOSED"
  /\ con.status = "LISTEN" => con.peer = None /\ con.send_queue = <<>>
  /\ con.status # "LISTEN" => con.peer \in Client
  /\ \A pkt \in Range(con.send_queue) : Packet(pkt)

Unended == {"SYNRECV", "ESTAB"}

\* What Formed is on the way, for a connection that was con before.
Sound(con, s) ==
  /\ WorkOK(s) /\ s.con.peer = con.peer /\ s.con.number = con.number
  /\ s.con.snd \in Int /\ s.con.seq \in Int
  /\ s.con.status # "LISTEN"
  /\ s.con.status = "CLOSED" => s.closed
  /\ \A pkt \in Range(s.con.send_queue) : Packet(pkt)
  /\ \A seg \in Range(s.sent) : Written(seg)
  /\ s.con.status \in Unended => con.status \in Unended /\ \A seg \in Range(s.sent) : ~Ends(seg)

LEMMA SizeAck == ASSUME NEW seg, NEW n \in Int, Acknowledgement(seg, n)
                 PROVE  Written(seg) /\ ~Ends(seg) /\ Size(seg.flags, seg.data) = 0
<1>1. seg.flags = {"ACK"} /\ seg.seq = n
  BY DEF Acknowledgement
<1>2. Size(seg.flags, seg.data) = 0
  BY <1>1 DEF Size
<1> QED BY <1>1, <1>2 DEF Written, Ends

LEMMA AckedSound ==
  ASSUME NEW con, ConOK(con), Formed(con), con.status # "LISTEN", NEW ack \in Int,
         NEW a, WorkOK(a), Acked(con, a, ack)
  PROVE  Sound(con, a)
<1>0. Sequence(con.send_queue) /\ con.status \in Status
  BY DEF ConOK
<1>1. CASE /\ con.status = "ESTAB" /\ con.snd = ack /\ con.send_queue # <<>>
           /\ a.con.send_queue = Tail(con.send_queue)
           /\ a.con.snd = ack + Size(con.send_queue[1].flags, con.send_queue[1].data)
           /\ a.con.status = IF {"FIN", "ACK"} \subseteq con.send_queue[1].flags THEN "FINWAIT2" ELSE "ESTAB"
           /\ a.sent = Append(<<>>, segment(con.send_queue[1].flags, ack, con.ack, con.send_queue[1].data))
  <2> DEFINE pkt == con.send_queue[1]
             seg == segment(pkt.flags, ack, con.ack, pkt.data)
  <2>1. Packet(pkt) /\ Range(a.con.send_queue) \subseteq Range(con.send_queue)
    BY <1>0, <1>1, RangeTail DEF Formed
  <2>2. Range(a.sent) = {seg}
    <3> HIDE DEF seg
    <3>1. a.sent = Append(<<>>, seg)
      BY <1>1 DEF seg
    <3>2. Range(Append(<<>>, seg)) = Range(<<>>) \cup {seg}
      BY EmptySequence, RangeAppend
    <3> QED BY <3>1, <3>2, RangeEmpty
  <2>3. seg.flags = pkt.flags /\ seg.seq = ack /\ seg.data = pkt.data
    BY DEF segment
  <2> HIDE DEF seg
  <2>4. Written(seg) /\ a.con.snd \in Int
    BY <1>1, <2>1, <2>3 DEF Packet, Written
  <2>5. a.con.status \in Unended => ~Ends(seg)
    BY <1>1, <2>1, <2>3 DEF Packet, Ends, Unended
  <2>6. a.con.status # "LISTEN" /\ a.con.status # "CLOSED"
    BY <1>1
  <2> QED BY <1>1, <2>1, <2>2, <2>4, <2>5, <2>6 DEF Sound, Formed, Acked, Unended
<1>2. CASE /\ con.status = "ESTAB" => con.snd # ack \/ con.send_queue = <<>>
           /\ a.con.send_queue = con.send_queue /\ a.con.snd = con.snd
           /\ a.con.status = Advanced(con.status) /\ a.sent = <<>>
  <2>1. Range(a.sent) = {}
    BY <1>2, RangeEmpty
  <2>2. /\ a.con.status # "LISTEN" /\ (a.con.status \in Unended => con.status \in Unended)
        /\ a.con.status = "CLOSED" => con.status = "LASTACK"
    BY <1>0, <1>2 DEF Advanced, Unended, Formed, Status
  <2>3. a.con.status = "CLOSED" => a.closed
    BY <2>2 DEF Acked
  <2> QED BY <1>2, <2>1, <2>2, <2>3 DEF Sound, Formed, Acked
<1> QED BY <1>1, <1>2 DEF Acked

LEMMA EndedSound ==
  ASSUME NEW con, NEW a, Sound(con, a), NEW f, WorkOK(f), Ended(a, f)
  PROVE  Sound(con, f)
<1>0. Sequence(a.con.send_queue) /\ Sequence(a.sent) /\ a.con.seq \in Int
  BY DEF Sound, WorkOK, ConOK
<1>1. PICK seg, ack :
       /\ Acknowledgement(seg, a.con.seq)
       /\ \/ /\ a.con.status = "FINWAIT2"
             /\ f.con.status = "CLOSED" /\ f.closed = TRUE
             /\ f.con.send_queue = a.con.send_queue /\ f.con.snd = a.con.seq
             /\ f.sent = Append(a.sent, seg)
          \/ LET q == Append(a.con.send_queue, Fin)
             IN /\ a.con.status = "ESTAB"
                /\ f.con.status = "LASTACK" /\ f.closed = a.closed
                /\ f.con.send_queue = Tail(q)
                /\ f.con.snd = a.con.seq + Size(q[1].flags, q[1].data)
                /\ f.sent = Append(Append(a.sent, seg), segment(q[1].flags, a.con.seq, ack, q[1].data))
  BY DEF Ended
<1>2. Written(seg)
  BY <1>0, <1>1, SizeAck
<1>3. Sequence(Append(a.sent, seg)) /\ Range(Append(a.sent, seg)) = Range(a.sent) \cup {seg}
  BY <1>0, RangeAppend
<1>4. f.con.peer = a.con.peer /\ f.con.number = a.con.number /\ f.con.seq = a.con.seq
  BY DEF Ended
<1>5. CASE a.con.status = "FINWAIT2" /\ f.con.status = "CLOSED" /\ f.closed = TRUE
           /\ f.con.send_queue = a.con.send_queue /\ f.con.snd = a.con.seq /\ f.sent = Append(a.sent, seg)
  <2>1. f.con.status # "LISTEN" /\ f.con.status \notin Unended
    BY <1>5 DEF Unended
  <2> QED BY <1>0, <1>2, <1>3, <1>4, <1>5, <2>1 DEF Sound
<1>6. CASE LET q == Append(a.con.send_queue, Fin)
             IN /\ a.con.status = "ESTAB"
                /\ f.con.status = "LASTACK" /\ f.closed = a.closed
                /\ f.con.send_queue = Tail(q)
                /\ f.con.snd = a.con.seq + Size(q[1].flags, q[1].data)
                /\ f.sent = Append(Append(a.sent, seg), segment(q[1].flags, a.con.seq, ack, q[1].data))
  <2> DEFINE q == Append(a.con.send_queue, Fin)
             seg2 == segment(q[1].flags, a.con.seq, ack, q[1].data)
  <2>1. Sequence(q) /\ q # <<>> /\ Range(q) = Range(a.con.send_queue) \cup {Fin}
    <3> Sequence(a.con.send_queue)
      BY <1>0
    <3>1. Sequence(q) /\ Len(q) = Len(a.con.send_queue) + 1 /\ Len(a.con.send_queue) \in Nat
      BY Appended
    <3>2. Range(q) = Range(a.con.send_queue) \cup {Fin}
      BY RangeAppend
    <3> HIDE DEF q
    <3>3. q # <<>>
      BY <3>1, EmptySequence
    <3> QED BY <3>1, <3>2, <3>3
  <2>2. Packet(Fin)
    <3>1. Size({"FIN", "ACK"}, <<>>) = 1
      BY DEF Size
    <3> QED BY <3>1 DEF Packet, Fin
  <2>3. \A pkt \in Range(q) : Packet(pkt)
    BY <2>1, <2>2 DEF Sound
  <2>4. /\ f.con.status = "LASTACK" /\ f.con.send_queue = Tail(q)
        /\ f.con.snd = a.con.seq + Size(q[1].flags, q[1].data)
        /\ f.sent = Append(Append(a.sent, seg), seg2)
    BY <1>6
  <2>5. seg2.flags = q[1].flags /\ seg2.seq = a.con.seq /\ seg2.data = q[1].data
    BY DEF segment
  <2> HIDE DEF q, seg2
  <2>6. q[1] \in Range(q) /\ Range(Tail(q)) \subseteq Range(q)
    BY <2>1, RangeTail
  <2>7. Packet(q[1])
    BY <2>3, <2>6
  <2>8. Written(seg2) /\ f.con.snd \in Int
    BY <1>0, <2>4, <2>5, <2>7 DEF Packet, Written
  <2>9. Range(f.sent) = Range(a.sent) \cup {seg, seg2}
    BY <1>3, <2>4, RangeAppend
  <2>10. f.con.status \notin Unended
    BY <2>4 DEF Unended
  <2> QED BY <1>0, <1>2, <1>4, <2>3, <2>4, <2>6, <2>8, <2>9, <2>10 DEF Sound
<1> QED BY <1>1, <1>5, <1>6

LEMMA PassSound ==
  ASSUME NEW con, NEW f, Sound(con, f), NEW s, Passes(f, s)
  PROVE  Sound(con, s)
<1>1. /\ WorkOK(s) /\ s.con.number = f.con.number /\ s.con.peer = f.con.peer
      /\ s.con.status = f.con.status /\ s.closed = f.closed
      /\ s.con.seq = f.con.seq /\ s.con.send_queue = f.con.send_queue
      /\ s.con.snd \in {f.con.snd, f.con.seq}
      /\ Acks(f.sent, s.sent, f.con.seq)
  <2>1. f.con.seq \in Int
    BY DEF Sound
  <2>2. s.con.snd \in {f.con.snd, f.con.seq}
    <3>1. f.con.seq \in Int => s.con.snd \in {f.con.snd, f.con.seq}
      BY Zenon DEF Passes
    <3> QED BY <2>1, <3>1, Zenon
  <2> QED BY <2>2 DEF Passes, Leads
<1>2. Sequence(f.sent) /\ Sequence(s.sent) /\ f.con.seq \in Int
  BY <1>1 DEF Sound, WorkOK
<1>3. \A x \in Range(s.sent) : x \in Range(f.sent) \/ (Written(x) /\ ~Ends(x))
  BY <1>1, <1>2, RangeAcks, SizeAck
<1> QED BY <1>1, <1>3 DEF Sound

LEMMA AnswerSound ==
  ASSUME NEW con, ConOK(con), Formed(con), con.status # "LISTEN", NEW seg, seg.ack \in Int,
         NEW s, Answers(con, seg, s)
  PROVE  Sound(con, s)
<1>1. PICK a, f :
    /\ WorkOK(a) /\ WorkOK(f) /\ a.seen \subseteq f.seen
    /\ Acked(con, a, seg.ack)
    /\ \/ f = a /\ ("FIN" \notin seg.flags \/ a.con.status \notin {"FINWAIT2", "ESTAB"})
       \/ "FIN" \in seg.flags /\ Ended(a, f)
    /\ Passes(f, s)
  BY DEF Answers
<1>2. Sound(con, a)
  BY <1>1, AckedSound
<1>3. Sound(con, f)
  BY <1>1, <1>2, EndedSound
<1> QED BY <1>1, <1>3, PassSound

\* To a listening connection an acknowledgement is nothing but a number.
\* A listening connection only notes the number.
Notes(con, s, n) ==
  /\ s.con.status = "LISTEN" /\ s.con.peer = con.peer /\ s.con.number = con.number
  /\ s.con.snd = con.snd /\ s.con.seq = n /\ s.con.send_queue = con.send_queue
  /\ s.sent = <<>> /\ s.told = <<>> /\ s.closed = FALSE

LEMMA AnswerListen ==
  ASSUME NEW con, con.status = "LISTEN", NEW seg, NEW s, Answers(con, seg, s)
  PROVE  Notes(con, s, seg.ack)
<1>1. PICK a, f :
    /\ Acked(con, a, seg.ack)
    /\ \/ f = a /\ ("FIN" \notin seg.flags \/ a.con.status \notin {"FINWAIT2", "ESTAB"})
       \/ "FIN" \in seg.flags /\ Ended(a, f)
    /\ s = f \/ f.con.status = "ESTAB"
  BY DEF Answers
<1>2. /\ a.con.status = "LISTEN" /\ a.con.peer = con.peer /\ a.con.number = con.number
      /\ a.con.snd = con.snd /\ a.con.seq = seg.ack /\ a.con.send_queue = con.send_queue
      /\ a.sent = <<>> /\ a.told = <<>> /\ a.closed = FALSE
  BY <1>1 DEF Acked, Advanced
<1>3. f = a
  BY <1>1, <1>2 DEF Ended
<1> QED BY <1>1, <1>2, <1>3 DEF Notes

-----------------------------------------------------------------------------
(* The reply of a connection, as a stream: its p-th unit is Piece(p), where *)
(* the first is the SYN and the last the FIN.                              *)

Piece(p) ==
  IF p = PIECES + 2 THEN [flags |-> {"FIN", "ACK"}, data |-> <<>>]
                    ELSE [flags |-> {"PSH", "ACK"}, data |-> <<p - 1>>]

\* The queue q is what comes from the n-th unit to the one before e.
Line(q, n, e) ==
  /\ n \in 2..(PIECES + 3)
  /\ \A k \in 1..Len(q) : q[k] = Piece(n + k - 1)
  /\ n + Len(q) = e

\* What a client in state st may get.
Fits(seg, st) ==
  \/ seg.flags = {"ACK"} /\ seg.data = <<>>
  \/ seg.flags = {"SYN", "ACK"} /\ seg.seq = 1 /\ seg.data = <<>>
  \/ seg.flags = {"PSH", "ACK"} /\ seg.seq \in 2..(PIECES + 1) /\ seg.data = <<seg.seq - 1>>
  \/ seg.flags = {"FIN", "ACK"} /\ seg.data = <<>> /\ (seg.seq = PIECES + 2 \/ st \in {"finwait", "done"})

ConStream(con, e) ==
  /\ con.status \in {"SYNRECV", "ESTAB", "FINWAIT1", "FINWAIT2"} => Line(con.send_queue, con.snd, e)
  /\ con.status = "LASTACK" => con.snd # con.seq

Streams(s, e, st) ==
  /\ s.con.status # "CLOSED" => ConStream(s.con, e)
  /\ \A seg \in Range(s.sent) : Fits(seg, st)

LEMMA PieceIs ==
  ASSUME NEW p \in 2..(PIECES + 2)
  PROVE  /\ Size(Piece(p).flags, Piece(p).data) = 1 /\ Packet(Piece(p))
         /\ \A n, ack, st : n = p => Fits(segment(Piece(p).flags, n, ack, Piece(p).data), st)
         /\ {"FIN", "ACK"} \subseteq Piece(p).flags <=> p = PIECES + 2
         /\ "FIN" \in Piece(p).flags <=> p = PIECES + 2
<1>0. PIECES \in Nat /\ p \in Int
  BY HttpdAssumption
<1>1. CASE p = PIECES + 2
  <2>1. Piece(p).flags = {"FIN", "ACK"} /\ Piece(p).data = <<>>
    BY <1>1 DEF Piece
  <2>2. Size({"FIN", "ACK"}, <<>>) = 1
    BY DEF Size
  <2>3. Packet(Piece(p))
    BY <2>1, <2>2 DEF Packet
  <2>4. \A n, ack, st : n = p => Fits(segment(Piece(p).flags, n, ack, Piece(p).data), st)
    BY <1>1, <2>1 DEF Fits, segment
  <2> QED BY <1>1, <2>1, <2>2, <2>3, <2>4
<1>2. CASE p # PIECES + 2
  <2>1. Piece(p).flags = {"PSH", "ACK"} /\ Piece(p).data = <<p - 1>>
    BY <1>2 DEF Piece
  <2>2. Len(<<p - 1>>) = 1
    OBVIOUS
  <2>3. Size({"PSH", "ACK"}, <<p - 1>>) = 1
    BY <2>2 DEF Size
  <2>4. Packet(Piece(p))
    BY <2>1, <2>3 DEF Packet
  <2>5. \A n, ack, st : n = p => Fits(segment(Piece(p).flags, n, ack, Piece(p).data), st)
    BY <1>0, <1>2, <2>1 DEF Fits, segment
  <2> QED BY <1>2, <2>1, <2>3, <2>4, <2>5
<1> QED BY <1>1, <1>2

LEMMA LineTail ==
  ASSUME NEW q, Sequence(q), q # <<>>, NEW e \in 2..(PIECES + 3), NEW n, Line(q, n, e)
  PROVE  q[1] = Piece(n) /\ n \in 2..(PIECES + 2) /\ Line(Tail(q), n + 1, e)
<1> DEFINE r == Tail(q)
<1>0. PIECES \in Nat /\ n \in Int /\ n \in 2..(PIECES + 3)
  BY HttpdAssumption DEF Line
<1>1. /\ Len(q) \in Nat \ {0} /\ Len(r) = Len(q) - 1
      /\ \A k \in 1..Len(r) : r[k] = q[k + 1]
  BY Tailed
<1> HIDE DEF r
<1>2. q[1] = Piece(n)
  <2>1. 1 \in 1..Len(q) /\ n + 1 - 1 = n
    BY <1>0, <1>1
  <2>2. \A m : m = n + 1 - 1 => q[1] = Piece(m)
    BY <2>1 DEF Line
  <2> QED BY <2>1, <2>2
<1>3. n \in 2..(PIECES + 2) /\ (n + 1) + Len(r) = e
  <2>1. n + Len(q) = e
    BY DEF Line
  <2>2. e <= PIECES + 3 /\ e \in Int
    BY <1>0
  <2>3. Len(q) \in Nat /\ Len(q) >= 1 /\ Len(r) = Len(q) - 1
    BY <1>1
  <2>4. n \in Int /\ 2 <= n
    BY <1>0
  <2>5. n <= PIECES + 2
    BY <1>0, <2>1, <2>2, <2>3, <2>4
  <2>6. (n + 1) + Len(r) = e
    BY <2>1, <2>2, <2>3, <2>4
  <2> QED BY <1>0, <2>4, <2>5, <2>6
<1>4. ASSUME NEW k \in 1..Len(r) PROVE r[k] = Piece((n + 1) + k - 1)
  <2>1. k + 1 \in 1..Len(q) /\ n + (k + 1) - 1 = (n + 1) + k - 1
    BY <1>0, <1>1
  <2>2. q[k + 1] = Piece(n + (k + 1) - 1)
    BY <2>1 DEF Line
  <2> QED BY <1>1, <2>1, <2>2
<1>5. Line(r, n + 1, e)
  BY <1>0, <1>3, <1>4 DEF Line
<1> QED BY <1>2, <1>3, <1>5 DEF r

LEMMA LineAppend ==
  ASSUME NEW q, Sequence(q), NEW e \in 2..(PIECES + 2), NEW n, Line(q, n, e)
  PROVE  Line(Append(q, Piece(e)), n, e + 1)
<1> DEFINE r == Append(q, Piece(e))
<1>0. PIECES \in Nat /\ n \in Int /\ e \in Int /\ n + Len(q) = e
  BY HttpdAssumption DEF Line
<1>1. /\ Len(q) \in Nat /\ Len(r) = Len(q) + 1
      /\ \A k \in 1..Len(q) : r[k] = q[k]
      /\ r[Len(q) + 1] = Piece(e)
  BY Appended
<1> HIDE DEF r
<1>2. ASSUME NEW k \in 1..Len(r) PROVE r[k] = Piece(n + k - 1)
  <2>1. CASE k \in 1..Len(q)
    BY <1>1, <2>1 DEF Line
  <2>2. CASE k = Len(q) + 1
    <3>1. n + k - 1 = e
      BY <1>0, <1>1, <2>2
    <3> QED BY <1>1, <2>2, <3>1
  <2> QED BY <1>1, <2>1, <2>2
<1>3. n + Len(r) = e + 1
  BY <1>0, <1>1
<1> QED BY <1>2, <1>3 DEF Line, r

LEMMA AckFits == ASSUME NEW seg, NEW n, Acknowledgement(seg, n), NEW st PROVE Fits(seg, st)
BY DEF Acknowledgement, Fits

LEMMA AckedStream ==
  ASSUME NEW con, ConOK(con), con.status \notin {"LISTEN", "CLOSED"},
         NEW e \in 2..(PIECES + 3), ConStream(con, e), NEW st,
         NEW ack, NEW a, WorkOK(a), Acked(con, a, ack)
  PROVE  Streams(a, e, st)
<1>0. Sequence(con.send_queue) /\ con.status \in Status
  BY DEF ConOK
<1>1. CASE /\ con.status = "ESTAB" /\ con.snd = ack /\ con.send_queue # <<>>
           /\ a.con.send_queue = Tail(con.send_queue)
           /\ a.con.snd = ack + Size(con.send_queue[1].flags, con.send_queue[1].data)
           /\ a.con.status = IF {"FIN", "ACK"} \subseteq con.send_queue[1].flags THEN "FINWAIT2" ELSE "ESTAB"
           /\ a.sent = Append(<<>>, segment(con.send_queue[1].flags, ack, con.ack, con.send_queue[1].data))
  <2> DEFINE q == con.send_queue
             pkt == q[1]
             seg == segment(pkt.flags, ack, con.ack, pkt.data)
  <2>1. Line(q, ack, e) /\ q # <<>> /\ Sequence(q)
    BY <1>0, <1>1 DEF ConStream
  <2>2. pkt = Piece(ack) /\ ack \in 2..(PIECES + 2) /\ Line(Tail(q), ack + 1, e)
    <3> HIDE DEF q
    <3> QED BY <2>1, LineTail
  <2>3. Size(pkt.flags, pkt.data) = 1 /\ Fits(seg, st)
    BY <2>2, PieceIs
  <2>4. a.con.send_queue = Tail(q) /\ a.con.snd = ack + 1
    BY <1>1, <2>3
  <2>5. a.con.status \in {"FINWAIT2", "ESTAB"}
    BY <1>1
  <2>6. Range(a.sent) = {seg}
    <3> HIDE DEF seg
    <3>1. a.sent = Append(<<>>, seg)
      BY <1>1 DEF seg
    <3>2. Range(Append(<<>>, seg)) = Range(<<>>) \cup {seg}
      BY EmptySequence, RangeAppend
    <3> QED BY <3>1, <3>2, RangeEmpty
  <2>7. ConStream(a.con, e)
    BY <2>2, <2>4, <2>5 DEF ConStream
  <2> HIDE DEF seg
  <2> QED BY <2>3, <2>6, <2>7 DEF Streams
<1>2. CASE /\ con.status = "ESTAB" => con.snd # ack \/ con.send_queue = <<>>
           /\ a.con.send_queue = con.send_queue /\ a.con.snd = con.snd
           /\ a.con.status = Advanced(con.status) /\ a.sent = <<>>
  <2>1. Range(a.sent) = {}
    BY <1>2, RangeEmpty
  <2>2. CASE con.status = "LASTACK"
    BY <1>2, <2>1, <2>2 DEF Advanced, Streams
  <2>3. CASE con.status # "LASTACK"
    <3>1. con.status \in {"SYNRECV", "ESTAB", "FINWAIT1", "FINWAIT2"}
      BY <1>0, <2>3 DEF Status
    <3>2. a.con.status \in {"ESTAB", "FINWAIT2"}
      BY <1>2, <3>1 DEF Advanced
    <3> QED BY <1>2, <2>1, <3>1, <3>2 DEF Streams, ConStream
  <2> QED BY <2>2, <2>3
<1> QED BY <1>1, <1>2 DEF Acked

LEMMA EndedStream ==
  ASSUME NEW a, WorkOK(a), a.con.seq \in Int, NEW e \in 2..(PIECES + 3), NEW st, Streams(a, e, st),
         NEW f, WorkOK(f), Ended(a, f), "rewound" \notin f.seen,
         a.con.status = "ESTAB" => st \in {"finwait", "done"}
  PROVE  Streams(f, e, st)
<1>0. Sequence(a.con.send_queue) /\ Sequence(a.sent)
  BY DEF WorkOK, ConOK
<1>1. PICK seg, ack :
       /\ Acknowledgement(seg, a.con.seq)
       /\ \/ /\ a.con.status = "FINWAIT2"
             /\ f.con.status = "CLOSED" /\ f.closed = TRUE
             /\ f.con.send_queue = a.con.send_queue /\ f.con.snd = a.con.seq
             /\ f.sent = Append(a.sent, seg)
          \/ LET q == Append(a.con.send_queue, Fin)
             IN /\ a.con.status = "ESTAB"
                /\ f.con.status = "LASTACK" /\ f.closed = a.closed
                /\ f.con.send_queue = Tail(q)
                /\ f.con.snd = a.con.seq + Size(q[1].flags, q[1].data)
                /\ f.sent = Append(Append(a.sent, seg), segment(q[1].flags, a.con.seq, ack, q[1].data))
  BY DEF Ended
<1>2. Fits(seg, st)
  BY <1>1, AckFits
<1>3. Sequence(Append(a.sent, seg)) /\ Range(Append(a.sent, seg)) = Range(a.sent) \cup {seg}
  BY <1>0, RangeAppend
<1>4. \A x \in Range(a.sent) : Fits(x, st)
  BY DEF Streams
<1>5. CASE a.con.status = "FINWAIT2" /\ f.con.status = "CLOSED" /\ f.sent = Append(a.sent, seg)
  BY <1>2, <1>3, <1>4, <1>5 DEF Streams
<1>6. CASE LET q == Append(a.con.send_queue, Fin)
             IN /\ a.con.status = "ESTAB"
                /\ f.con.status = "LASTACK" /\ f.closed = a.closed
                /\ f.con.send_queue = Tail(q)
                /\ f.con.snd = a.con.seq + Size(q[1].flags, q[1].data)
                /\ f.sent = Append(Append(a.sent, seg), segment(q[1].flags, a.con.seq, ack, q[1].data))
  <2> DEFINE old == a.con.send_queue
             n == a.con.seq
             q == Append(old, Fin)
             seg2 == segment(q[1].flags, n, ack, q[1].data)
  <2>1. Line(old, n, e)
    <3>1. a.con.snd = a.con.seq
      BY DEF Ended
    <3> QED BY <1>6, <3>1 DEF Streams, ConStream
  <2>2. f.con.status = "LASTACK" /\ f.con.snd = n + Size(q[1].flags, q[1].data) /\ f.con.seq = n
    BY <1>6 DEF Ended
  <2>3. f.sent = Append(Append(a.sent, seg), seg2)
    BY <1>6
  <2>4. Size(q[1].flags, q[1].data) = 1 /\ Fits(seg2, st)
    <3>1. CASE old = <<>>
      <4>1. q = <<Fin>>
        BY <3>1
      <4>2. q[1] = Fin
        BY <4>1
      <4>3. Size({"FIN", "ACK"}, <<>>) = 1
        BY DEF Size
      <4>4. Fin.flags = {"FIN", "ACK"} /\ Fin.data = <<>>
        BY DEF Fin
      <4>5. seg2.flags = {"FIN", "ACK"} /\ seg2.data = <<>>
        BY <4>2, <4>4 DEF segment
      <4> QED BY <1>6, <4>2, <4>3, <4>4, <4>5 DEF Fits
    <3>2. CASE old # <<>>
      <4> HIDE DEF old, n
      <4>1. old[1] = Piece(n) /\ n \in 2..(PIECES + 2)
        BY <1>0, <2>1, <3>2, LineTail DEF old
      <4>2. q[1] = old[1]
        <5>1. Len(old) \in Nat \ {0}
          BY <1>0, <3>2, Tailed DEF old
        <5>2. \A k \in 1..Len(old) : q[k] = old[k]
          BY <1>0, Appended DEF old
        <5> QED BY <5>1, <5>2
      <4>3. /\ Size(Piece(n).flags, Piece(n).data) = 1
            /\ \A m, ac, x : m = n => Fits(segment(Piece(n).flags, m, ac, Piece(n).data), x)
        BY <4>1, PieceIs
      <4>4. q[1] = Piece(n)
        BY <4>1, <4>2
      <4> HIDE DEF q
      <4> QED BY <4>3, <4>4
    <3> QED BY <3>1, <3>2
  <2>5. f.con.snd # f.con.seq
    BY <2>2, <2>4
  <2> HIDE DEF seg2
  <2>6. Range(f.sent) = Range(a.sent) \cup {seg, seg2}
    BY <1>3, <2>3, RangeAppend
  <2>7. ConStream(f.con, e)
    BY <2>2, <2>5 DEF ConStream
  <2> QED BY <1>2, <1>4, <2>4, <2>6, <2>7 DEF Streams
<1> QED BY <1>1, <1>5, <1>6

LEMMA PassStream ==
  ASSUME NEW f, WorkOK(f), f.con.seq \in Int, NEW e, NEW st, Streams(f, e, st),
         NEW s, Passes(f, s), "rewound" \notin s.seen
  PROVE  Streams(s, e, st)
<1>1. /\ WorkOK(s) /\ s.con.status = f.con.status
      /\ s.con.seq = f.con.seq /\ s.con.send_queue = f.con.send_queue /\ s.con.snd = f.con.snd
      /\ Acks(f.sent, s.sent, f.con.seq)
  BY DEF Passes, Leads
<1>2. Sequence(f.sent) /\ Sequence(s.sent)
  BY <1>1 DEF WorkOK
<1>3. \A x \in Range(s.sent) : x \in Range(f.sent) \/ Fits(x, st)
  BY <1>1, <1>2, RangeAcks, AckFits
<1>4. s.con.status # "CLOSED" => ConStream(s.con, e)
  BY <1>1 DEF Streams, ConStream
<1> QED BY <1>3, <1>4 DEF Streams

LEMMA AnswerStream ==
  ASSUME NEW con, ConOK(con), Formed(con), con.status # "LISTEN", NEW seg, seg.ack \in Int,
         NEW e \in 2..(PIECES + 3), ConStream(con, e), NEW st,
         Ends(seg) /\ con.status \in Unended => st \in {"finwait", "done"},
         NEW s, Answers(con, seg, s), "rewound" \notin s.seen
  PROVE  Streams(s, e, st)
<1>1. PICK a, f :
    /\ WorkOK(a) /\ WorkOK(f) /\ a.seen \subseteq f.seen
    /\ Acked(con, a, seg.ack)
    /\ \/ f = a /\ ("FIN" \notin seg.flags \/ a.con.status \notin {"FINWAIT2", "ESTAB"})
       \/ "FIN" \in seg.flags /\ Ended(a, f)
    /\ Passes(f, s)
  BY DEF Answers
<1>2. Sound(con, a)
  BY <1>1, AckedSound
<1>3. Sound(con, f)
  BY <1>1, <1>2, EndedSound
<1>4. "rewound" \notin f.seen
  BY <1>1 DEF Passes, Leads
<1>5. con.status \notin {"LISTEN", "CLOSED"}
  BY DEF Formed
<1>6. Streams(a, e, st)
  BY <1>1, <1>5, AckedStream
<1>7. a.con.seq \in Int /\ f.con.seq \in Int /\ (a.con.status = "ESTAB" => con.status \in Unended)
  BY <1>2, <1>3 DEF Sound, Unended
<1>8. Streams(f, e, st)
  <2>1. CASE f = a
    BY <1>6, <2>1
  <2>2. CASE "FIN" \in seg.flags /\ Ended(a, f)
    <3>1. a.con.status = "ESTAB" => st \in {"finwait", "done"}
      BY <1>7, <2>2 DEF Ends
    <3> QED BY <1>1, <1>4, <1>6, <1>7, <2>2, <3>1, EndedStream
  <2> QED BY <1>1, <2>1, <2>2
<1> QED BY <1>1, <1>7, <1>8, PassStream

\* A request of httpd for the next unit of the reply.
LEMMA FlushStream ==
  ASSUME NEW con, ConOK(con), con.status \in {"ESTAB", "FINWAIT1", "FINWAIT2", "LASTACK"},
         NEW e \in 2..(PIECES + 2), ConStream(con, e), NEW st,
         NEW b, b.con = con, b.sent = <<>>,
         NEW s, Flushes(b, s, Append(con.send_queue, Piece(e)))
  PROVE  Streams(s, e + 1, st)
<1> DEFINE q == Append(con.send_queue, Piece(e))
<1>0. Sequence(con.send_queue) /\ PIECES \in Nat /\ e + 1 \in 2..(PIECES + 3)
  BY HttpdAssumption DEF ConOK
<1>1. Sequence(q)
  BY <1>0, RangeAppend
<1>2. con.status # "LASTACK" => Line(q, con.snd, e + 1)
  BY <1>0, LineAppend DEF ConStream
<1>3. q # <<>>
  <2>1. Len(q) = Len(con.send_queue) + 1 /\ Len(con.send_queue) \in Nat
    BY <1>0, Appended
  <2> HIDE DEF q
  <2> QED BY <2>1, EmptySequence
<1> HIDE DEF q
<1>4. CASE /\ con.snd = con.seq
           /\ s.con.send_queue = Tail(q)
           /\ s.con.snd = con.seq + Size(q[1].flags, q[1].data)
           /\ s.con.status = IF {"FIN", "ACK"} \subseteq q[1].flags THEN "FINWAIT1" ELSE con.status
           /\ s.sent = Append(<<>>, segment(q[1].flags, con.seq, con.ack, q[1].data))
  <2> DEFINE n == con.snd
             seg == segment(q[1].flags, n, con.ack, q[1].data)
  <2>1. con.status # "LASTACK" /\ Line(q, n, e + 1)
    BY <1>2, <1>4 DEF ConStream
  <2>2. q[1] = Piece(n) /\ n \in 2..(PIECES + 2) /\ Line(Tail(q), n + 1, e + 1)
    <3> HIDE DEF n
    <3> QED BY <1>0, <1>1, <1>3, <2>1, LineTail
  <2>3. Size(q[1].flags, q[1].data) = 1 /\ Fits(seg, st)
    BY <2>2, PieceIs
  <2>4. s.con.send_queue = Tail(q) /\ s.con.snd = n + 1
    BY <1>4, <2>3
  <2>5. s.con.status # "LASTACK"
    BY <1>4, <2>1
  <2>6. Range(s.sent) = {seg}
    <3> HIDE DEF seg
    <3>1. s.sent = Append(<<>>, seg)
      BY <1>4 DEF seg
    <3>2. Range(Append(<<>>, seg)) = Range(<<>>) \cup {seg}
      BY EmptySequence, RangeAppend
    <3> QED BY <3>1, <3>2, RangeEmpty
  <2>7. ConStream(s.con, e + 1)
    BY <2>2, <2>4, <2>5 DEF ConStream
  <2> HIDE DEF seg
  <2> QED BY <2>3, <2>6, <2>7 DEF Streams
<1>5. CASE /\ con.snd # con.seq
           /\ s.con.send_queue = q /\ s.con.seq = con.seq
           /\ s.con.snd = con.snd /\ s.con.status = con.status /\ s.sent = <<>>
  <2>1. Range(s.sent) = {}
    BY <1>5, RangeEmpty
  <2>2. ConStream(s.con, e + 1)
    BY <1>2, <1>5 DEF ConStream
  <2> QED BY <2>1, <2>2 DEF Streams
<1> QED BY <1>3, <1>4, <1>5 DEF Flushes, q

-----------------------------------------------------------------------------
(* The end of a connection that the server ends first.                     *)

Sized(seg) == Size(seg.flags, seg.data) # 0

\* The FIN is sent or queued.
Finishing(con) ==
  con.status \in {"FINWAIT1", "FINWAIT2"} \/ \E pkt \in Range(con.send_queue) : Ends(pkt)

\* Nothing comes after the FIN.
CalmCon(con) ==
  /\ con.status # "LASTACK"
  /\ con.status \in {"FINWAIT1", "FINWAIT2"} => con.send_queue = <<>>
  /\ \A k \in 1..Len(con.send_queue) : Ends(con.send_queue[k]) => k = Len(con.send_queue)

Calms(con, s) ==
  /\ s.con.status # "CLOSED" => CalmCon(s.con) /\ (Finishing(s.con) => Finishing(con))
  /\ \A k \in 1..Len(s.sent) : Sized(s.sent[k]) => k = 1 /\ con.status \in Unended

LEMMA OneOf ==
  ASSUME NEW x
  PROVE  LET q == Append(<<>>, x) IN Sequence(q) /\ Len(q) = 1 /\ q[1] = x /\ Range(q) = {x}
<1>1. Range(Append(<<>>, x)) = Range(<<>>) \cup {x} /\ Sequence(Append(<<>>, x))
  BY EmptySequence, RangeAppend
<1>2. Append(<<>>, x) = <<x>>
  OBVIOUS
<1>3. Len(<<x>>) = 1 /\ <<x>>[1] = x
  OBVIOUS
<1> QED BY <1>1, <1>2, <1>3, RangeEmpty

LEMMA LastTail ==
  ASSUME NEW q, Sequence(q), q # <<>>, \A k \in 1..Len(q) : Ends(q[k]) => k = Len(q)
  PROVE  /\ Ends(q[1]) => Tail(q) = <<>>
         /\ \A k \in 1..Len(Tail(q)) : Ends(Tail(q)[k]) => k = Len(Tail(q))
<1> DEFINE r == Tail(q)
<1>1. /\ Sequence(r) /\ Len(q) \in Nat \ {0} /\ Len(r) = Len(q) - 1
      /\ \A k \in 1..Len(r) : r[k] = q[k + 1]
  BY Tailed
<1> HIDE DEF r
<1>2. Ends(q[1]) => Len(r) = 0
  <2>1. 1 \in 1..Len(q)
    BY <1>1
  <2>2. Ends(q[1]) => 1 = Len(q)
    BY <2>1
  <2> QED BY <1>1, <2>2
<1>3. Len(r) = 0 => r = <<>>
  <2>1. PICK S : r \in Seq(S)
    BY <1>1 DEF Sequence
  <2> QED BY <2>1, EmptySeq
<1>4. ASSUME NEW k \in 1..Len(r), Ends(r[k]) PROVE k = Len(r)
  <2>1. k + 1 \in 1..Len(q) /\ Ends(q[k + 1])
    BY <1>1, <1>4
  <2>2. k + 1 = Len(q)
    BY <2>1
  <2> QED BY <1>1, <2>2
<1> QED BY <1>2, <1>3, <1>4 DEF r

LEMMA AckedCalm ==
  ASSUME NEW con, ConOK(con), Formed(con), CalmCon(con), con.status # "LISTEN",
         NEW ack, NEW a, WorkOK(a), Acked(con, a, ack)
  PROVE  /\ Calms(con, a) /\ a.con.status # "CLOSED" /\ a.closed = FALSE
         /\ con.status \notin Unended => a.con.status = "FINWAIT2" /\ a.sent = <<>>
<1>0. /\ Sequence(con.send_queue)
      /\ con.status \in {"SYNRECV", "ESTAB", "FINWAIT1", "FINWAIT2"}
  BY DEF ConOK, Status, Formed, CalmCon
<1>00. a.closed = FALSE
  <2>1. a.closed = (con.status = "LASTACK")
    BY DEF Acked
  <2>2. (con.status = "LASTACK") = FALSE
    BY <1>0
  <2> QED BY <2>1, <2>2
<1>1. CASE /\ con.status = "ESTAB" /\ con.snd = ack /\ con.send_queue # <<>>
           /\ a.con.send_queue = Tail(con.send_queue)
           /\ a.con.snd = ack + Size(con.send_queue[1].flags, con.send_queue[1].data)
           /\ a.con.status = IF {"FIN", "ACK"} \subseteq con.send_queue[1].flags THEN "FINWAIT2" ELSE "ESTAB"
           /\ a.sent = Append(<<>>, segment(con.send_queue[1].flags, ack, con.ack, con.send_queue[1].data))
  <2> DEFINE q == con.send_queue
             seg == segment(q[1].flags, ack, con.ack, q[1].data)
  <2>1. /\ q[1] \in Range(q) /\ Range(Tail(q)) \subseteq Range(q)
        /\ Ends(q[1]) => Tail(q) = <<>>
        /\ \A k \in 1..Len(Tail(q)) : Ends(Tail(q)[k]) => k = Len(Tail(q))
    <3>1. \A k \in 1..Len(q) : Ends(q[k]) => k = Len(q)
      BY DEF CalmCon
    <3>2. Sequence(q) /\ q # <<>>
      BY <1>0, <1>1
    <3> HIDE DEF q
    <3> QED BY <3>1, <3>2, RangeTail, LastTail
  <2>2. Packet(q[1])
    BY <2>1 DEF Formed
  <2>3. a.con.status = IF Ends(q[1]) THEN "FINWAIT2" ELSE "ESTAB"
    <3>1. {"FIN", "ACK"} \subseteq q[1].flags <=> Ends(q[1])
      BY <2>2 DEF Packet, Ends
    <3> QED BY <1>1, <3>1
  <2>4. CalmCon(a.con)
    BY <1>1, <2>1, <2>3 DEF CalmCon
  <2>5. Finishing(a.con) => Finishing(con)
    BY <1>1, <2>1, <2>3 DEF Finishing
  <2>6. Len(a.sent) = 1
    <3> HIDE DEF seg
    <3>1. a.sent = Append(<<>>, seg)
      BY <1>1 DEF seg
    <3> QED BY <3>1, OneOf
  <2>7. \A k \in 1..Len(a.sent) : k = 1
    BY <2>6
  <2> QED BY <1>00, <1>1, <2>3, <2>4, <2>5, <2>7 DEF Calms, Unended
<1>2. CASE /\ con.status = "ESTAB" => con.snd # ack \/ con.send_queue = <<>>
           /\ a.con.send_queue = con.send_queue /\ a.con.snd = con.snd
           /\ a.con.status = Advanced(con.status) /\ a.sent = <<>>
  <2>1. /\ a.con.status = (IF con.status \in Unended THEN "ESTAB" ELSE "FINWAIT2")
    BY <1>0, <1>2 DEF Advanced, Unended
  <2>2. CalmCon(a.con)
    BY <1>0, <1>2, <2>1 DEF CalmCon, Unended
  <2>3. Finishing(a.con) => Finishing(con)
    BY <1>0, <1>2, <2>1 DEF Finishing, Unended
  <2>4. Len(a.sent) = 0
    BY <1>2, EmptySequence
  <2>5. \A k \in 1..Len(a.sent) : FALSE
    BY <2>4
  <2> QED BY <1>00, <1>2, <2>1, <2>2, <2>3, <2>5 DEF Calms
<1> QED BY <1>1, <1>2 DEF Acked

LEMMA AnswerCalm ==
  ASSUME NEW con, ConOK(con), Formed(con), CalmCon(con), con.status # "LISTEN",
         NEW seg, Ends(seg) => con.status \notin Unended, NEW s, Answers(con, seg, s)
  PROVE  /\ Calms(con, s)
         /\ s.closed \/ s.con.status = "CLOSED" => Ends(seg) /\ con.status \notin Unended
<1>1. PICK a, f :
    /\ WorkOK(a) /\ WorkOK(f) /\ a.seen \subseteq f.seen
    /\ Acked(con, a, seg.ack)
    /\ \/ f = a /\ ("FIN" \notin seg.flags \/ a.con.status \notin {"FINWAIT2", "ESTAB"})
       \/ "FIN" \in seg.flags /\ Ended(a, f)
    /\ Passes(f, s)
  BY DEF Answers
<1>2. /\ Calms(con, a) /\ a.con.status # "CLOSED" /\ a.closed = FALSE
      /\ con.status \notin Unended => a.con.status = "FINWAIT2" /\ a.sent = <<>>
  BY <1>1, AckedCalm
<1>3. /\ Calms(con, f)
      /\ f.closed \/ f.con.status = "CLOSED" => Ends(seg) /\ con.status \notin Unended
  <2>1. CASE f = a
    BY <1>2, <2>1
  <2>2. CASE "FIN" \in seg.flags /\ Ended(a, f)
    <3>1. con.status \notin Unended /\ Ends(seg)
      BY <2>2 DEF Ends
    <3>2. PICK ackn : Acknowledgement(ackn, a.con.seq) /\ f.con.status = "CLOSED" /\ f.sent = Append(a.sent, ackn)
      BY <1>2, <2>2, <3>1 DEF Ended
    <3>3. a.sent = <<>> 
      BY <1>2, <3>1
    <3>4. f.sent = Append(<<>>, ackn)
      BY <3>2, <3>3
    <3>5. Len(f.sent) = 1 /\ f.sent[1] = ackn
      BY <3>4, OneOf
    <3>6. ~Sized(ackn)
      <4>1. ackn.flags = {"ACK"}
        BY <3>2 DEF Acknowledgement
      <4>2. Size(ackn.flags, ackn.data) = 0
        BY <4>1 DEF Size
      <4> QED BY <4>2 DEF Sized
    <3>7. \A k \in 1..Len(f.sent) : ~Sized(f.sent[k])
      BY <3>5, <3>6
    <3> QED BY <3>1, <3>2, <3>7 DEF Calms
  <2> QED BY <1>1, <2>1, <2>2
<1>4. /\ s.con.status = f.con.status /\ s.con.send_queue = f.con.send_queue /\ s.closed = f.closed
      /\ Acks(f.sent, s.sent, f.con.seq)
  BY <1>1 DEF Passes
<1>5. ASSUME NEW k \in 1..Len(s.sent), Sized(s.sent[k]) PROVE k = 1 /\ con.status \in Unended
  <2>1. CASE k \in 1..Len(f.sent)
    BY <1>3, <1>4, <1>5, <2>1 DEF Acks, Calms
  <2>2. CASE k \notin 1..Len(f.sent)
    <3>1. Acknowledgement(s.sent[k], f.con.seq)
      BY <1>4, <2>2 DEF Acks
    <3>2. s.sent[k].flags = {"ACK"}
      BY <3>1 DEF Acknowledgement
    <3>3. Size(s.sent[k].flags, s.sent[k].data) = 0
      BY <3>2 DEF Size
    <3> QED BY <1>5, <3>3 DEF Sized
  <2> QED BY <2>1, <2>2
<1>6. s.con.status # "CLOSED" => CalmCon(s.con) /\ (Finishing(s.con) => Finishing(con))
  BY <1>3, <1>4 DEF Calms, CalmCon, Finishing
<1> QED BY <1>3, <1>4, <1>5, <1>6 DEF Calms

-----------------------------------------------------------------------------
(* What a request of httpd does to its connection.                         *)

LEMMA FlushSound ==
  ASSUME NEW con, ConOK(con), Formed(con), con.status # "LISTEN",
         NEW b, b.con = con, b.sent = <<>>, b.closed = FALSE,
         NEW pkt, Packet(pkt),
         NEW s, Leads(b, s), Silent(b, s), Flushes(b, s, Append(con.send_queue, pkt))
  PROVE  Sound(con, s) /\ s.con.status # "CLOSED"
<1> DEFINE q == Append(con.send_queue, pkt)
<1>0. Sequence(con.send_queue) /\ con.snd \in Int /\ con.seq \in Int /\ con.status # "CLOSED"
  BY DEF ConOK, Formed
<1>1. Sequence(q) /\ Range(q) = Range(con.send_queue) \cup {pkt}
  BY <1>0, RangeAppend
<1>2. \A p \in Range(q) : Packet(p)
  BY <1>1 DEF Formed
<1> HIDE DEF q
<1>3. WorkOK(s) /\ s.con.number = con.number /\ s.con.peer = con.peer /\ s.con.seq = con.seq /\ s.closed = FALSE
  BY DEF Leads, Silent, Flushes
<1>4. CASE /\ q # <<>>
           /\ s.con.send_queue = Tail(q)
           /\ s.con.snd = con.seq + Size(q[1].flags, q[1].data)
           /\ s.con.status = IF {"FIN", "ACK"} \subseteq q[1].flags THEN "FINWAIT1" ELSE con.status
           /\ s.sent = Append(<<>>, segment(q[1].flags, con.seq, con.ack, q[1].data))
  <2> DEFINE seg == segment(q[1].flags, con.seq, con.ack, q[1].data)
  <2>1. q[1] \in Range(q) /\ Range(Tail(q)) \subseteq Range(q)
    BY <1>1, <1>4, RangeTail
  <2>2. Packet(q[1])
    BY <1>2, <2>1
  <2>3. seg.flags = q[1].flags /\ seg.seq = con.seq /\ seg.data = q[1].data
    BY DEF segment
  <2>4. s.sent = Append(<<>>, seg)
    BY <1>4
  <2> HIDE DEF seg
  <2>5. Range(s.sent) = {seg}
    BY <2>4, OneOf
  <2>6. Written(seg) /\ s.con.snd \in Int
    BY <1>0, <1>4, <2>2, <2>3 DEF Packet, Written
  <2>7. s.con.status \in Unended => con.status \in Unended /\ ~Ends(seg)
    BY <1>4, <2>2, <2>3 DEF Packet, Ends, Unended
  <2>8. s.con.status # "LISTEN" /\ s.con.status # "CLOSED"
    BY <1>0, <1>4
  <2> QED BY <1>0, <1>2, <1>3, <1>4, <2>1, <2>5, <2>6, <2>7, <2>8 DEF Sound
<1>5. CASE s.con.send_queue = q /\ s.con.snd = con.snd /\ s.con.status = con.status /\ s.sent = <<>>
  <2>1. Range(s.sent) = {}
    BY <1>5, RangeEmpty
  <2> QED BY <1>0, <1>2, <1>3, <1>5, <2>1 DEF Sound
<1> QED BY <1>4, <1>5 DEF Flushes, q

LEMMA FlushCalm ==
  ASSUME NEW con, ConOK(con), Formed(con), CalmCon(con), con.status = "ESTAB", ~Finishing(con),
         NEW b, b.con = con, b.sent = <<>>, NEW pkt, Packet(pkt),
         NEW s, Flushes(b, s, Append(con.send_queue, pkt))
  PROVE  /\ CalmCon(s.con) /\ (Finishing(s.con) => Ends(pkt))
         /\ \A k \in 1..Len(s.sent) : k = 1
<1> DEFINE q == Append(con.send_queue, pkt)
<1>0. Sequence(con.send_queue)
  BY DEF ConOK
<1>1. /\ Sequence(q) /\ Range(q) = Range(con.send_queue) \cup {pkt}
      /\ Len(con.send_queue) \in Nat /\ Len(q) = Len(con.send_queue) + 1
      /\ \A k \in 1..Len(con.send_queue) : q[k] = con.send_queue[k]
  BY <1>0, RangeAppend, Appended
<1>2. \A p \in Range(q) : Packet(p) /\ (Ends(p) => p = pkt)
  BY <1>1 DEF Formed, Finishing
<1>3. \A k \in 1..Len(con.send_queue) : ~Ends(con.send_queue[k])
  BY <1>0, RangeIs DEF Finishing
<1> HIDE DEF q
<1>4. \A k \in 1..Len(q) : Ends(q[k]) => k = Len(q)
  BY <1>1, <1>3
<1>5. CASE /\ q # <<>>
           /\ s.con.send_queue = Tail(q)
           /\ s.con.status = IF {"FIN", "ACK"} \subseteq q[1].flags THEN "FINWAIT1" ELSE con.status
           /\ s.sent = Append(<<>>, segment(q[1].flags, con.seq, con.ack, q[1].data))
  <2>1. /\ q[1] \in Range(q) /\ Range(Tail(q)) \subseteq Range(q)
        /\ Ends(q[1]) => Tail(q) = <<>>
        /\ \A k \in 1..Len(Tail(q)) : Ends(Tail(q)[k]) => k = Len(Tail(q))
    BY <1>1, <1>4, <1>5, RangeTail, LastTail
  <2>2. {"FIN", "ACK"} \subseteq q[1].flags <=> Ends(q[1])
    BY <1>2, <2>1 DEF Packet, Ends
  <2>3. s.con.status = IF Ends(q[1]) THEN "FINWAIT1" ELSE "ESTAB"
    BY <1>5, <2>2
  <2>4. CalmCon(s.con)
    BY <1>5, <2>1, <2>3 DEF CalmCon
  <2>5. Finishing(s.con) => \E p \in Range(q) : Ends(p)
    BY <1>5, <2>1, <2>3 DEF Finishing
  <2>6. Len(s.sent) = 1
    BY <1>5, OneOf
  <2> QED BY <1>2, <2>4, <2>5, <2>6
<1>6. CASE s.con.send_queue = q /\ s.con.status = con.status /\ s.sent = <<>>
  <2>1. Finishing(s.con) => \E p \in Range(q) : Ends(p)
    BY <1>6 DEF Finishing
  <2>2. Len(s.sent) = 0
    BY <1>6, EmptySequence
  <2>3. CalmCon(s.con)
    BY <1>4, <1>6 DEF CalmCon
  <2>4. \A k \in 1..Len(s.sent) : k = 1
    BY <2>2
  <2> QED BY <1>2, <2>1, <2>3, <2>4
<1> QED BY <1>5, <1>6 DEF Flushes, q

-----------------------------------------------------------------------------
(* A client: k is its state, out the segments on their way from it and in  *)
(* those on their way to it.                                               *)

Opens(seg) == "SYN" \in seg.flags
Fresh == {"closed", "synsent"}
States == Fresh \cup {"estab", "finwait", "closewait", "lastack", "done", "reset"}

\* What it keeps to send again.
Copy(seg) == DOMAIN seg = {"flags", "seq", "ack", "data"} /\ seg.flags = {"PSH", "ACK"}
Copies(k) == Sequence(k.unacked) /\ \A x \in Range(k.unacked) : Copy(x)

\* One segment more is on its way.
Adds(out, out2, kinds) == \E seg : seg.flags \in kinds /\ seg.ack \in Int /\ out2 = Append(out, seg)

\* The sequence kept on receiving.
Keeps(k, k2) == k2.rcv = k.rcv /\ k2.got = k.got

Connects(k, out, in, k2, out2, in2) ==
  /\ k.st \in Fresh /\ out = <<>>
  /\ k2.st = "synsent" /\ Keeps(k, k2)
  /\ Adds(out, out2, {{"SYN"}}) /\ in2 = in
Says(k, out, in, k2, out2, in2) ==
  /\ k.st \in {"estab", "finwait", "closewait"}
  /\ k2.st = k.st /\ Keeps(k, k2)
  /\ Adds(out, out2, {{"PSH", "ACK"}}) /\ in2 = in
Establishes(k, out, in, k2, out2, in2) ==
  /\ k.st = "synsent" /\ in # <<>>
  /\ k2.st = "estab" /\ k2.rcv = in[1].seq + 1 /\ k2.got = k.got
  /\ Adds(out, out2, {{"ACK"}, {"PSH", "ACK"}}) /\ in2 = Tail(in)
Takes(k, k2, seg) ==
  /\ k2.rcv = IF seg.seq = k.rcv THEN k.rcv + Size(seg.flags, seg.data) ELSE k.rcv
  /\ k2.got = IF seg.seq = k.rcv THEN k.got \o seg.data ELSE k.got
  /\ LET fin == Ends(seg) /\ seg.seq = k.rcv
     IN \/ k.st = "estab" /\ fin /\ k2.st = "closewait"
        \/ k.st = "finwait" /\ fin /\ k2.st = "done"
        \/ k.st = "lastack" /\ k2.st = "done"
        \/ ~(fin /\ k.st \in {"estab", "finwait"}) /\ k2.st = k.st
Hears(k, out, in, k2, out2, in2) ==
  /\ k.st \in {"estab", "finwait", "closewait", "lastack"} /\ in # <<>>
  /\ Takes(k, k2, in[1])
  /\ IF Sized(in[1]) THEN Adds(out, out2, {{"ACK"}}) ELSE out2 = out
  /\ in2 = Tail(in)
Refuses(k, out, in, k2, out2, in2) ==
  /\ in # <<>> /\ k2 = k
  /\ \/ k.st = "done" /\ out2 = out
     \/ k.st = "reset" /\ Adds(out, out2, {{"RST"}})
  /\ in2 = Tail(in)
Closes(k, out, in, k2, out2, in2) ==
  /\ k.st = "closewait"
  /\ k2.st = "lastack" /\ Keeps(k, k2)
  /\ Adds(out, out2, {{"FIN", "ACK"}}) /\ in2 = in
Leaves(k, out, in, k2, out2, in2) ==
  /\ k.st = "estab" /\ Keeps(k, k2)
  /\ \/ k2.st = "finwait" /\ Adds(out, out2, {{"FIN", "ACK"}})
     \/ k2.st = "reset" /\ Adds(out, out2, {{"RST"}})
  /\ in2 = in

Acting(k, out, in, k2, out2, in2) ==
  \/ Connects(k, out, in, k2, out2, in2)
  \/ Says(k, out, in, k2, out2, in2)
  \/ Establishes(k, out, in, k2, out2, in2)
  \/ Hears(k, out, in, k2, out2, in2)
  \/ Refuses(k, out, in, k2, out2, in2)
  \/ Closes(k, out, in, k2, out2, in2)

Typed(k, out, in) ==
  /\ DOMAIN k = {"st", "snd", "rcv", "req", "unacked", "got"}
  /\ k.st \in States /\ k.rcv \in Int
  /\ Copies(k)
  /\ Sequence(out) /\ Sequence(in)
  /\ \A x \in Range(in) : Written(x)

LEMMA UnackedIs ==
  ASSUME NEW q, Sequence(q), NEW ack
  PROVE  Sequence(Unacked(q, ack)) /\ Range(Unacked(q, ack)) \subseteq Range(q)
<1> DEFINE R == Range(q)
           n == Len(q)
           S == {i \in DOMAIN q : q[i].seq + Len(q[i].data) <= ack}
           m == Cardinality(S) + 1
           r == SubSeq(q, m, n)
<1>1. n \in Nat /\ DOMAIN q = 1..n /\ q \in Seq(R)
  <2>1. PICK T : q \in Seq(T)
    BY DEF Sequence
  <2>2. n \in Nat /\ DOMAIN q = 1..n
    BY <2>1, LenProperties
  <2>3. \A k \in 1..n : q[k] \in R
    BY <2>2 DEF Range
  <2>4. q \in [1..n -> R]
    <3>1. q = [k \in 1..n |-> q[k]]
      BY <2>1, <2>2, LenProperties
    <3> HIDE DEF R, n
    <3> QED BY <2>3, <3>1
  <2> HIDE DEF R, n
  <2> QED BY <2>2, <2>4
<1>2. S \in SUBSET (1..n)
  BY <1>1
<1>3. Unacked(q, ack) = r
  BY DEF Unacked
<1> HIDE DEF S, n, R
<1>4. Cardinality(S) \in Nat /\ Cardinality(S) <= n
  BY <1>1, <1>2, NumbersFinite
<1>5. m \in 1..(n + 1) /\ n \in (m - 1)..n
  BY <1>1, <1>4
<1> HIDE DEF m
<1>6. r \in Seq(R)
  BY <1>1, <1>5, SubSeqProperties DEF n
<1> HIDE DEF r
<1>7. Range(r) \subseteq R
  <2>1. DOMAIN r = 1..Len(r) /\ \A k \in 1..Len(r) : r[k] \in R
    BY <1>6, LenProperties, ElementOfSeq
  <2> QED BY <2>1 DEF Range
<1> QED BY <1>3, <1>6, <1>7 DEF Sequence, R

LEMMA SegmentIs ==
  ASSUME NEW flags, NEW seq, NEW ack, NEW data
  PROVE  LET seg == segment(flags, seq, ack, data)
         IN /\ DOMAIN seg = {"flags", "seq", "ack", "data"}
            /\ seg.flags = flags /\ seg.seq = seq /\ seg.ack = ack /\ seg.data = data
BY DEF segment

LEMMA PushedIs ==
  ASSUME NEW k, DOMAIN k = {"st", "snd", "rcv", "req", "unacked", "got"}, k.rcv \in Int, Copies(k)
  PROVE  LET k2 == Pushed_(k)
             seg == Pushing(k)
         IN /\ DOMAIN k2 = DOMAIN k /\ k2.st = k.st /\ Keeps(k, k2) /\ Copies(k2)
            /\ seg.flags = {"PSH", "ACK"} /\ seg.ack \in Int
<1> DEFINE k2 == Pushed_(k)
           seg == Pushing(k)
<1>1. DOMAIN seg = {"flags", "seq", "ack", "data"} /\ seg.flags = {"PSH", "ACK"} /\ seg.ack = k.rcv
  BY SegmentIs DEF Pushing
<1>2. k2 = [k EXCEPT !.snd = k.snd + Len(Head(k.req)), !.req = Tail(k.req), !.unacked = Append(k.unacked, seg)]
  BY DEF Pushed_
<1> HIDE DEF seg
<1>3. /\ DOMAIN k2 = DOMAIN k /\ k2.st = k.st /\ k2.rcv = k.rcv /\ k2.got = k.got
      /\ k2.unacked = Append(k.unacked, seg)
  BY <1>2
<1>4. Copies(k2)
  <2>1. Sequence(Append(k.unacked, seg)) /\ Range(Append(k.unacked, seg)) = Range(k.unacked) \cup {seg}
    BY RangeAppend DEF Copies
  <2> QED BY <1>1, <1>3, <2>1 DEF Copies, Copy
<1> QED BY <1>1, <1>3, <1>4 DEF Keeps, seg

-----------------------------------------------------------------------------
Shape == DOMAIN net = Client /\ DOMAIN wire = Client /\ DOMAIN client = Client

\* A step of client c and of nothing else.
Alters(c) ==
  /\ Shape'
  /\ \A d \in Client : d # c => client'[d] = client[d] /\ net'[d] = net[d] /\ wire'[d] = wire[d]
  /\ DOMAIN client'[c] = DOMAIN client[c] /\ Copies(client'[c])

LEMMA SendsIs ==
  ASSUME Shape, NEW c \in Client, NEW seg, sends(c, seg), NEW kinds, seg.flags \in kinds, seg.ack \in Int
  PROVE  /\ DOMAIN net' = Client /\ \A d \in Client : d # c => net'[d] = net[d]
         /\ Adds(net[c], net'[c], kinds)
<1>1. net' = [net EXCEPT ![c] = Append(net[c], seg)]
  BY DEF sends
<1>2. net'[c] = Append(net[c], seg)
  BY <1>1 DEF Shape
<1>3. Adds(net[c], net'[c], kinds)
  BY <1>2 DEF Adds
<1> QED BY <1>1, <1>3 DEF Shape

LEMMA ClientIs ==
  ASSUME Shape, NEW c \in Client, Typed(client[c], net[c], wire[c]),
         \/ connect(c) \/ establish(c) \/ receive(c) \/ refuse(c) \/ request(c)
         \/ retransmit(c) \/ close(c)
  PROVE  /\ Alters(c) /\ UNCHANGED <<board, seen>>
         /\ Acting(client[c], net[c], wire[c], client'[c], net'[c], wire'[c])
<1> DEFINE k == client[c]
           out == net[c]
           in == wire[c]
           Same(f, g) == DOMAIN g = Client /\ \A d \in Client : d # c => g[d] = f[d]
<1>0. /\ DOMAIN k = {"st", "snd", "rcv", "req", "unacked", "got"} /\ k.rcv \in Int /\ Copies(k)
      /\ Sequence(out) /\ Sequence(in) /\ \A x \in Range(in) : Written(x)
  BY DEF Typed
<1>1. CASE connect(c)
  <2>1. /\ k.st \in Fresh /\ out = <<>> /\ wire' = wire
        /\ client' = [client EXCEPT ![c].st = "synsent"] /\ sends(c, segment({"SYN"}, 0, 0, <<>>))
        /\ UNCHANGED <<board, seen>>
    BY <1>1 DEF connect, Fresh
  <2>2. Same(client, client') /\ client'[c] = [k EXCEPT !.st = "synsent"]
    BY <2>1 DEF Shape
  <2>3. Same(net, net') /\ Adds(out, net'[c], {{"SYN"}})
    <3> DEFINE seg == segment({"SYN"}, 0, 0, <<>>)
    <3>1. seg.flags \in {{"SYN"}} /\ seg.ack \in Int /\ sends(c, seg)
      BY <2>1, SegmentIs
    <3> HIDE DEF seg
    <3> QED BY <3>1, SendsIs
  <2>4. /\ DOMAIN client'[c] = DOMAIN k /\ client'[c].st = "synsent" /\ Keeps(k, client'[c])
        /\ client'[c].unacked = k.unacked
    BY <1>0, <2>2 DEF Keeps
  <2>5. Alters(c)
    BY <1>0, <2>1, <2>2, <2>3, <2>4 DEF Alters, Shape, Copies
  <2>6. Connects(k, out, in, client'[c], net'[c], wire'[c])
    BY <2>1, <2>3, <2>4 DEF Connects
  <2> QED BY <2>1, <2>5, <2>6 DEF Acting
<1>2. CASE request(c)
  <2>1. /\ k.st = "estab" /\ wire' = wire
        /\ client' = [client EXCEPT ![c] = Pushed_(k)] /\ sends(c, Pushing(k))
        /\ UNCHANGED <<board, seen>>
    BY <1>2 DEF request
  <2>2. Same(client, client') /\ client'[c] = Pushed_(k)
    BY <2>1 DEF Shape
  <2>3. /\ DOMAIN client'[c] = DOMAIN k /\ client'[c].st = k.st /\ Keeps(k, client'[c]) /\ Copies(client'[c])
        /\ Pushing(k).flags = {"PSH", "ACK"} /\ Pushing(k).ack \in Int
    BY <1>0, <2>2, PushedIs
  <2>4. Same(net, net') /\ Adds(out, net'[c], {{"PSH", "ACK"}})
    BY <2>1, <2>3, SendsIs
  <2>5. Alters(c)
    BY <2>1, <2>2, <2>3, <2>4 DEF Alters, Shape
  <2>6. Says(k, out, in, client'[c], net'[c], wire'[c])
    BY <2>1, <2>3, <2>4 DEF Says
  <2> QED BY <2>1, <2>5, <2>6 DEF Acting
<1>3. CASE establish(c)
  <2> DEFINE k1 == [k EXCEPT !.st = "estab", !.snd = 1, !.rcv = in[1].seq + 1]
             kinds == {{"ACK"}, {"PSH", "ACK"}}
  <2>1. Head(in) = in[1] /\ in # <<>> /\ in[1] \in Range(in)
    BY <1>0, <1>3, RangeTail DEF establish
  <2>2. /\ k.st = "synsent" /\ wire' = [wire EXCEPT ![c] = Tail(in)]
        /\ UNCHANGED <<board, seen>>
        /\ \/ client' = [client EXCEPT ![c] = k1] /\ sends(c, segment({"ACK"}, k1.snd, k1.rcv, <<>>))
           \/ client' = [client EXCEPT ![c] = Pushed_(k1)] /\ sends(c, Pushing(k1))
    BY <1>3, <2>1 DEF establish
  <2>3. /\ DOMAIN k1 = DOMAIN k /\ k1.st = "estab" /\ k1.rcv = in[1].seq + 1 /\ k1.got = k.got
        /\ k1.unacked = k.unacked
    BY <1>0
  <2>4. Same(wire, wire') /\ wire'[c] = Tail(in)
    BY <2>2 DEF Shape
  <2>5. k1.rcv \in Int /\ Copies(k1)
    BY <1>0, <2>1, <2>3 DEF Written, Copies
  <2> HIDE DEF k1
  <2>6. /\ Same(client, client') /\ Same(net, net') /\ Adds(out, net'[c], kinds)
        /\ DOMAIN client'[c] = DOMAIN k /\ client'[c].st = "estab"
        /\ client'[c].rcv = in[1].seq + 1 /\ client'[c].got = k.got /\ Copies(client'[c])
    <3>1. CASE client' = [client EXCEPT ![c] = k1] /\ sends(c, segment({"ACK"}, k1.snd, k1.rcv, <<>>))
      <4> DEFINE seg == segment({"ACK"}, k1.snd, k1.rcv, <<>>)
      <4>1. seg.flags \in kinds /\ seg.ack \in Int /\ sends(c, seg)
        BY <2>5, <3>1, SegmentIs
      <4> HIDE DEF seg, kinds
      <4>2. Same(net, net') /\ Adds(out, net'[c], kinds)
        BY <4>1, SendsIs
      <4>3. client'[c] = k1 /\ Same(client, client')
        BY <3>1 DEF Shape
      <4> QED BY <2>3, <2>5, <4>2, <4>3
    <3>2. CASE client' = [client EXCEPT ![c] = Pushed_(k1)] /\ sends(c, Pushing(k1))
      <4>1. client'[c] = Pushed_(k1) /\ Same(client, client')
        BY <3>2 DEF Shape
      <4>2. /\ DOMAIN client'[c] = DOMAIN k1 /\ client'[c].st = k1.st /\ Keeps(k1, client'[c]) /\ Copies(client'[c])
            /\ Pushing(k1).flags = {"PSH", "ACK"} /\ Pushing(k1).ack \in Int
        BY <1>0, <2>3, <2>5, <4>1, PushedIs
      <4>3. Pushing(k1).flags \in kinds
        BY <4>2
      <4> HIDE DEF kinds
      <4>4. Same(net, net') /\ Adds(out, net'[c], kinds)
        BY <3>2, <4>2, <4>3, SendsIs
      <4> QED BY <2>3, <4>1, <4>2, <4>4 DEF Keeps
    <3> QED BY <2>2, <3>1, <3>2
  <2>7. Alters(c)
    BY <2>4, <2>6 DEF Alters, Shape
  <2>8. Establishes(k, out, in, client'[c], net'[c], wire'[c])
    BY <2>1, <2>2, <2>4, <2>6 DEF Establishes
  <2> QED BY <2>2, <2>7, <2>8 DEF Acting
<1>4. CASE receive(c)
  <2> DEFINE seg == Head(in)
             size == Size(seg.flags, seg.data)
             fin == "FIN" \in seg.flags /\ seg.seq = k.rcv
             st2 == CASE k.st = "estab" /\ fin                     -> "closewait"
                      [] k.st = "finwait" /\ fin                   -> "done"
                      [] k.st = "lastack" /\ seg.ack = k.snd       -> "done"
                      [] OTHER                                     -> k.st
             next == [k EXCEPT !.rcv = IF seg.seq = k.rcv THEN k.rcv + size ELSE k.rcv,
                               !.got = IF seg.seq = k.rcv THEN k.got \o seg.data ELSE k.got,
                               !.unacked = Unacked(k.unacked, seg.ack),
                               !.st = st2]
  <2>1. seg = in[1] /\ in # <<>>
    BY <1>0, <1>4, RangeTail DEF receive
  <2>2. /\ k.st \in {"estab", "finwait", "closewait", "lastack"}
        /\ client' = [client EXCEPT ![c] = next]
        /\ IF size = 0 THEN UNCHANGED net ELSE sends(c, segment({"ACK"}, k.snd, next.rcv, <<>>))
        /\ wire' = [wire EXCEPT ![c] = Tail(in)]
        /\ UNCHANGED <<board, seen>>
    BY <1>4 DEF receive
  <2>3. Same(wire, wire') /\ wire'[c] = Tail(in)
    BY <2>2 DEF Shape
  <2>4. client'[c] = next /\ Same(client, client')
    BY <2>2 DEF Shape
  <2>5. \/ k.st = "estab" /\ fin /\ st2 = "closewait"
        \/ k.st = "finwait" /\ fin /\ st2 = "done"
        \/ k.st = "lastack" /\ st2 = "done"
        \/ ~(fin /\ k.st \in {"estab", "finwait"}) /\ st2 = k.st
    <3> HIDE DEF fin, seg
    <3>1. CASE k.st = "estab" /\ fin
      BY <3>1
    <3>2. CASE k.st = "finwait" /\ fin
      BY <3>2
    <3>3. CASE k.st = "lastack" /\ seg.ack = k.snd
      BY <3>3
    <3>4. CASE ~(k.st = "estab" /\ fin) /\ ~(k.st = "finwait" /\ fin) /\ ~(k.st = "lastack" /\ seg.ack = k.snd)
      BY <3>4
    <3> QED BY <3>1, <3>2, <3>3, <3>4
  <2> HIDE DEF st2
  <2>6. /\ DOMAIN next = DOMAIN k /\ next.st = st2
        /\ next.rcv = (IF seg.seq = k.rcv THEN k.rcv + size ELSE k.rcv)
        /\ next.got = (IF seg.seq = k.rcv THEN k.got \o seg.data ELSE k.got)
        /\ next.unacked = Unacked(k.unacked, seg.ack)
    <3> HIDE DEF seg, size
    <3> QED BY <1>0
  <2> HIDE DEF next
  <2>7. Copies(next)
    BY <1>0, <2>6, UnackedIs DEF Copies
  <2>8. Takes(k, next, in[1])
    <3> HIDE DEF seg
    <3> QED BY <2>1, <2>5, <2>6 DEF Takes, Ends
  <2>9. next.rcv \in Int
    <3>1. Written(seg)
      BY <1>0, <2>1, RangeTail
    <3> HIDE DEF seg
    <3> QED BY <1>0, <2>6, <3>1 DEF Written
  <2>10. /\ Same(net, net')
         /\ IF Sized(in[1]) THEN Adds(out, net'[c], {{"ACK"}}) ELSE net'[c] = out
    <3>1. Sized(in[1]) <=> size # 0
      BY <2>1 DEF Sized
    <3> HIDE DEF seg, size
    <3>2. CASE size = 0
      BY <2>2, <3>1, <3>2 DEF Shape
    <3>3. CASE size # 0
      <4> DEFINE ackn == segment({"ACK"}, k.snd, next.rcv, <<>>)
      <4>1. ackn.flags \in {{"ACK"}} /\ ackn.ack \in Int /\ sends(c, ackn)
        BY <2>2, <2>9, <3>3, SegmentIs
      <4> HIDE DEF ackn
      <4>2. Same(net, net') /\ Adds(out, net'[c], {{"ACK"}})
        BY <4>1, SendsIs
      <4> QED BY <3>1, <3>3, <4>2
    <3> QED BY <3>2, <3>3
  <2>11. Alters(c)
    BY <2>3, <2>4, <2>6, <2>7, <2>10 DEF Alters, Shape
  <2>12. Hears(k, out, in, client'[c], net'[c], wire'[c])
    BY <2>1, <2>2, <2>3, <2>4, <2>8, <2>10 DEF Hears
  <2> QED BY <2>2, <2>11, <2>12 DEF Acting
<1>5. CASE refuse(c)
  <2> DEFINE ack == Head(in).ack
  <2>1. /\ k.st \in {"reset", "done"} /\ in # <<>> /\ client' = client
        /\ IF k.st = "reset" THEN sends(c, segment({"RST"}, ack, 0, <<>>)) ELSE UNCHANGED net
        /\ wire' = [wire EXCEPT ![c] = Tail(in)]
        /\ UNCHANGED <<board, seen>>
    BY <1>5 DEF refuse
  <2> HIDE DEF ack
  <2>2. Same(wire, wire') /\ wire'[c] = Tail(in)
    BY <2>1 DEF Shape
  <2>3. /\ Same(net, net')
        /\ \/ k.st = "done" /\ net'[c] = out
           \/ k.st = "reset" /\ Adds(out, net'[c], {{"RST"}})
    <3>1. CASE k.st = "reset"
      <4> DEFINE seg == segment({"RST"}, ack, 0, <<>>)
      <4>1. seg.flags \in {{"RST"}} /\ seg.ack \in Int /\ sends(c, seg)
        BY <2>1, <3>1, SegmentIs
      <4> HIDE DEF seg
      <4> QED BY <3>1, <4>1, SendsIs
    <3>2. CASE k.st = "done"
      <4>1. net' = net
        BY <2>1, <3>2
      <4> QED BY <3>2, <4>1 DEF Shape
    <3> QED BY <2>1, <3>1, <3>2
  <2>4. Alters(c)
    BY <1>0, <2>1, <2>2, <2>3 DEF Alters, Shape
  <2>5. Refuses(k, out, in, client'[c], net'[c], wire'[c])
    BY <2>1, <2>2, <2>3 DEF Refuses
  <2> QED BY <2>1, <2>4, <2>5 DEF Acting
<1>6. CASE retransmit(c)
  <2> DEFINE seg == [Head(k.unacked) EXCEPT !.ack = k.rcv]
  <2>1. /\ k.st \in {"estab", "finwait", "closewait"} /\ k.unacked # <<>>
        /\ sends(c, seg) /\ UNCHANGED <<wire, client>> /\ UNCHANGED <<board, seen>>
    BY <1>6 DEF retransmit
  <2>2. Copy(Head(k.unacked))
    <3>1. Sequence(k.unacked) /\ \A x \in Range(k.unacked) : Copy(x)
      BY <1>0 DEF Copies
    <3> QED BY <2>1, <3>1, RangeTail
  <2>3. seg.flags \in {{"PSH", "ACK"}} /\ seg.ack \in Int
    BY <1>0, <2>2 DEF Copy
  <2> HIDE DEF seg
  <2>4. Same(net, net') /\ Adds(out, net'[c], {{"PSH", "ACK"}})
    BY <2>1, <2>3, SendsIs
  <2>5. Alters(c)
    BY <1>0, <2>1, <2>4 DEF Alters, Shape
  <2>6. Says(k, out, in, client'[c], net'[c], wire'[c])
    BY <2>1, <2>4 DEF Says, Keeps
  <2> QED BY <2>1, <2>5, <2>6 DEF Acting
<1>7. CASE close(c)
  <2> DEFINE seg == segment({"FIN", "ACK"}, k.snd, k.rcv, <<>>)
  <2>1. /\ k.st = "closewait" /\ wire' = wire /\ sends(c, seg) /\ UNCHANGED <<board, seen>>
        /\ client' = [client EXCEPT ![c].st = "lastack", ![c].snd = @ + 1]
    BY <1>7 DEF close
  <2>2. /\ Same(client, client') /\ DOMAIN client'[c] = DOMAIN k /\ client'[c].st = "lastack"
        /\ Keeps(k, client'[c]) /\ client'[c].unacked = k.unacked
    BY <1>0, <2>1 DEF Shape, Keeps
  <2>3. seg.flags \in {{"FIN", "ACK"}} /\ seg.ack \in Int
    BY <1>0, SegmentIs
  <2> HIDE DEF seg
  <2>4. Same(net, net') /\ Adds(out, net'[c], {{"FIN", "ACK"}})
    BY <2>1, <2>3, SendsIs
  <2>5. Alters(c)
    BY <1>0, <2>1, <2>2, <2>4 DEF Alters, Shape, Copies
  <2>6. Closes(k, out, in, client'[c], net'[c], wire'[c])
    BY <2>1, <2>2, <2>4 DEF Closes
  <2> QED BY <2>1, <2>5, <2>6 DEF Acting
<1> QED BY <1>1, <1>2, <1>3, <1>4, <1>5, <1>6, <1>7

LEMMA LeaveIs ==
  ASSUME Shape, NEW c \in Client, Typed(client[c], net[c], wire[c]), leave(c)
  PROVE  /\ Alters(c) /\ UNCHANGED board /\ seen' = seen \cup {"left"}
         /\ Leaves(client[c], net[c], wire[c], client'[c], net'[c], wire'[c])
<1> DEFINE k == client[c]
           out == net[c]
           Same(f, g) == DOMAIN g = Client /\ \A d \in Client : d # c => g[d] = f[d]
<1>0. DOMAIN k = {"st", "snd", "rcv", "req", "unacked", "got"} /\ k.rcv \in Int /\ Copies(k)
  BY DEF Typed
<1>1. /\ k.st = "estab" /\ wire' = wire /\ UNCHANGED board /\ seen' = seen \cup {"left"}
      /\ \/ /\ client' = [client EXCEPT ![c].st = "finwait", ![c].snd = @ + 1]
            /\ sends(c, segment({"FIN", "ACK"}, k.snd, k.rcv, <<>>))
         \/ /\ client' = [client EXCEPT ![c].st = "reset"]
            /\ sends(c, segment({"RST"}, k.snd, 0, <<>>))
  BY DEF leave
<1>2. CASE /\ client' = [client EXCEPT ![c].st = "finwait", ![c].snd = @ + 1]
           /\ sends(c, segment({"FIN", "ACK"}, k.snd, k.rcv, <<>>))
  <2> DEFINE seg == segment({"FIN", "ACK"}, k.snd, k.rcv, <<>>)
  <2>2. /\ Same(client, client') /\ DOMAIN client'[c] = DOMAIN k /\ client'[c].st = "finwait"
        /\ Keeps(k, client'[c]) /\ client'[c].unacked = k.unacked
    BY <1>0, <1>2 DEF Shape, Keeps
  <2>3. seg.flags \in {{"FIN", "ACK"}} /\ seg.ack \in Int /\ sends(c, seg)
    BY <1>0, <1>2, SegmentIs
  <2> HIDE DEF seg
  <2>4. Same(net, net') /\ Adds(out, net'[c], {{"FIN", "ACK"}})
    BY <2>3, SendsIs
  <2>5. Alters(c)
    BY <1>0, <1>1, <2>2, <2>4 DEF Alters, Shape, Copies
  <2>6. Leaves(k, out, wire[c], client'[c], net'[c], wire'[c])
    BY <1>1, <2>2, <2>4 DEF Leaves
  <2> QED BY <1>1, <2>5, <2>6
<1>3. CASE /\ client' = [client EXCEPT ![c].st = "reset"]
           /\ sends(c, segment({"RST"}, k.snd, 0, <<>>))
  <2> DEFINE seg == segment({"RST"}, k.snd, 0, <<>>)
  <2>2. /\ Same(client, client') /\ DOMAIN client'[c] = DOMAIN k /\ client'[c].st = "reset"
        /\ Keeps(k, client'[c]) /\ client'[c].unacked = k.unacked
    BY <1>0, <1>3 DEF Shape, Keeps
  <2>3. seg.flags \in {{"RST"}} /\ seg.ack \in Int /\ sends(c, seg)
    BY <1>0, <1>3, SegmentIs
  <2> HIDE DEF seg
  <2>4. Same(net, net') /\ Adds(out, net'[c], {{"RST"}})
    BY <2>3, SendsIs
  <2>5. Alters(c)
    BY <1>0, <1>1, <2>2, <2>4 DEF Alters, Shape, Copies
  <2>6. Leaves(k, out, wire[c], client'[c], net'[c], wire'[c])
    BY <1>1, <2>2, <2>4 DEF Leaves
  <2> QED BY <1>1, <2>5, <2>6
<1> QED BY <1>1, <1>2, <1>3

-----------------------------------------------------------------------------
(* A client and its connection, as long as no segment gets to another one. *)

Parting == {"finwait", "lastack", "done"}

Outgoing(k, out) ==
  /\ k.st = "closed" => out = <<>>
  /\ \A x \in Range(out) :
       /\ x.flags \in Kinds /\ x.ack \in Int
       /\ k.st \in Fresh => Opens(x)
       /\ Ends(x) => k.st \in Parting
  /\ \A j \in 1..Len(out) : Opens(out[j]) => j = 1

\* A client without a connection.
Alone(k, out, in) ==
  k.st \in Fresh \/ (\E x \in Range(out) : Opens(x)) => k.st \in Fresh /\ in = <<>>

\* A client with the connection con.
Side(con, k, in) ==
  /\ k.st \in Fresh => k.st = "synsent" /\ con.status = "SYNRECV" /\ \A x \in Range(in) : x.seq = 1
  /\ con.status \in Unended => k.st \notin {"closewait", "lastack"} /\ \A x \in Range(in) : ~Ends(x)

There(list, c) == list # <<>> /\ list[1].peer = c

Path(list, c, k, out, in) ==
  /\ Typed(k, out, in) /\ Outgoing(k, out)
  /\ There(list, c) => Side(list[1], k, in)
  /\ ~There(list, c) => Alone(k, out, in)

LEMMA AddIs ==
  ASSUME NEW out, Sequence(out), NEW kinds, NEW out2, Adds(out, out2, kinds)
  PROVE  \E seg : /\ seg.flags \in kinds /\ seg.ack \in Int
                  /\ Sequence(out2) /\ Range(out2) = Range(out) \cup {seg}
                  /\ Len(out) \in Nat /\ Len(out2) = Len(out) + 1
                  /\ \A j \in 1..Len(out) : out2[j] = out[j]
                  /\ out2[Len(out) + 1] = seg
<1>1. PICK seg : seg.flags \in kinds /\ seg.ack \in Int /\ out2 = Append(out, seg)
  BY DEF Adds
<1>2. /\ Sequence(out2) /\ Range(out2) = Range(out) \cup {seg}
      /\ Len(out) \in Nat /\ Len(out2) = Len(out) + 1
      /\ \A j \in 1..Len(out) : out2[j] = out[j]
      /\ out2[Len(out) + 1] = seg
  BY <1>1, RangeAppend, Appended
<1> QED BY <1>1, <1>2

LEMMA OutStep ==
  ASSUME NEW k, NEW out, Sequence(out), Outgoing(k, out),
         NEW kinds, kinds \subseteq Kinds \ {{"SYN"}},
         NEW out2, out2 = out \/ Adds(out, out2, kinds),
         NEW k2, k2.st \notin Fresh, k.st \in Parting => k2.st \in Parting,
         {"FIN", "ACK"} \in kinds => k2.st \in Parting
  PROVE  /\ Sequence(out2) /\ Outgoing(k2, out2)
         /\ \A x \in Range(out2) : Opens(x) => x \in Range(out)
<1>1. k2.st # "closed"
  BY DEF Fresh
<1>2. CASE out2 = out
  BY <1>1, <1>2 DEF Outgoing
<1>3. CASE Adds(out, out2, kinds)
  <2>1. PICK seg : /\ seg.flags \in kinds /\ seg.ack \in Int
                   /\ Sequence(out2) /\ Range(out2) = Range(out) \cup {seg}
                   /\ Len(out) \in Nat /\ Len(out2) = Len(out) + 1
                   /\ \A j \in 1..Len(out) : out2[j] = out[j]
                   /\ out2[Len(out) + 1] = seg
    BY <1>3, AddIs
  <2>2. seg.flags \in Kinds /\ ~Opens(seg) /\ (Ends(seg) => k2.st \in Parting)
    <3>1. seg.flags \in Kinds /\ seg.flags # {"SYN"}
      BY <2>1
    <3>2. seg.flags \in {{"RST"}, {"ACK"}, {"PSH", "ACK"}, {"FIN", "ACK"}}
      BY <3>1 DEF Kinds
    <3>3. ~Opens(seg)
      BY <3>2 DEF Opens
    <3>4. Ends(seg) => seg.flags = {"FIN", "ACK"}
      BY <3>2 DEF Ends
    <3> QED BY <2>1, <3>1, <3>3, <3>4
  <2>3. ASSUME NEW j \in 1..Len(out2), Opens(out2[j]) PROVE j = 1
    <3>1. CASE j \in 1..Len(out)
      BY <2>1, <2>3, <3>1 DEF Outgoing
    <3>2. CASE j = Len(out) + 1
      BY <2>1, <2>2, <2>3, <3>2
    <3> QED BY <2>1, <3>1, <3>2
  <2>4. \A x \in Range(out2) :
          /\ x.flags \in Kinds /\ x.ack \in Int
          /\ k2.st \in Fresh => Opens(x)
          /\ Ends(x) => k2.st \in Parting
    BY <2>1, <2>2 DEF Outgoing
  <2>5. Outgoing(k2, out2)
    BY <1>1, <2>3, <2>4 DEF Outgoing
  <2> QED BY <2>1, <2>2, <2>5
<1> QED BY <1>2, <1>3

\* The kinds of segments the actions of a client but connect send.
Answering == {{"RST"}, {"ACK"}, {"PSH", "ACK"}}

LEMMA ActingPath ==
  ASSUME NEW list, NEW c, NEW k, NEW out, NEW in, Path(list, c, k, out, in),
         NEW k2, NEW out2, NEW in2, DOMAIN k2 = DOMAIN k, Copies(k2),
         Acting(k, out, in, k2, out2, in2) \/ Leaves(k, out, in, k2, out2, in2)
  PROVE  Path(list, c, k2, out2, in2)
<1>0. /\ DOMAIN k = {"st", "snd", "rcv", "req", "unacked", "got"}
      /\ k.st \in States /\ k.rcv \in Int /\ Sequence(out) /\ Sequence(in)
      /\ \A x \in Range(in) : Written(x)
      /\ Outgoing(k, out)
  BY DEF Path, Typed
<1>1. CASE Connects(k, out, in, k2, out2, in2)
  <2>1. /\ k.st \in Fresh /\ out = <<>> /\ k2.st = "synsent" /\ k2.rcv = k.rcv /\ in2 = in
        /\ Adds(out, out2, {{"SYN"}})
    BY <1>1 DEF Connects, Keeps
  <2>2. PICK seg : seg.flags = {"SYN"} /\ seg.ack \in Int /\ out2 = Append(<<>>, seg)
    BY <2>1 DEF Adds
  <2>3. Sequence(out2) /\ Len(out2) = 1 /\ Range(out2) = {seg}
    BY <2>2, OneOf
  <2>4. Typed(k2, out2, in2)
    BY <1>0, <2>1, <2>3 DEF Typed, States, Fresh
  <2>5. Outgoing(k2, out2)
    <3>1. Opens(seg) /\ ~Ends(seg) /\ seg.flags \in Kinds
      BY <2>2 DEF Opens, Ends, Kinds
    <3>2. k2.st # "closed"
      BY <2>1
    <3>3. \A j \in 1..Len(out2) : j = 1
      BY <2>3
    <3>4. \A x \in Range(out2) : x = seg
      BY <2>3
    <3> QED BY <2>2, <3>1, <3>2, <3>3, <3>4 DEF Outgoing
  <2>6. There(list, c) => Side(list[1], k2, in2)
    BY <2>1 DEF Path, Side
  <2>7. ~There(list, c) => Alone(k2, out2, in2)
    BY <2>1 DEF Path, Alone, Fresh
  <2> QED BY <2>4, <2>5, <2>6, <2>7 DEF Path
<1>2. CASE ~Connects(k, out, in, k2, out2, in2)
  <2>1. /\ k2.st \in States \ Fresh /\ k2.rcv \in Int
        /\ k.st \in Fresh => k.st = "synsent" /\ in # <<>>
        /\ in2 = in \/ (in # <<>> /\ in2 = Tail(in))
        /\ k.st \in Parting => k2.st \in Parting
        /\ \/ out2 = out \/ Adds(out, out2, Answering)
           \/ k2.st \in Parting /\ Adds(out, out2, {{"FIN", "ACK"}})
        /\ k2.st \in {"closewait", "lastack"} =>
             k.st \in {"closewait", "lastack"} \/ (in # <<>> /\ Ends(in[1]))
    <3>1. CASE Says(k, out, in, k2, out2, in2)
      <4>1. Adds(out, out2, Answering)
        BY <3>1 DEF Says, Adds, Answering
      <4>2. /\ k.st \in {"estab", "finwait", "closewait"} /\ k2.st = k.st /\ k2.rcv = k.rcv
            /\ in2 = in
        BY <3>1 DEF Says, Keeps
      <4>3. k.st \notin Fresh
        BY <4>2 DEF Fresh
      <4> HIDE DEF Answering
      <4> QED BY <1>0, <4>1, <4>2, <4>3
    <3>2. CASE Establishes(k, out, in, k2, out2, in2)
      <4>1. Adds(out, out2, Answering)
        BY <3>2 DEF Establishes, Adds, Answering
      <4>2. in[1].seq \in Int
        BY <1>0, <3>2, RangeTail DEF Establishes, Written
      <4> QED BY <1>0, <3>2, <4>1, <4>2 DEF Establishes, States, Fresh, Parting
    <3>3. CASE Hears(k, out, in, k2, out2, in2)
      <4>1. out2 = out \/ Adds(out, out2, Answering)
        BY <3>3 DEF Hears, Adds, Answering
      <4>2. in # <<>> /\ Written(in[1])
        BY <1>0, <3>3, RangeTail DEF Hears
      <4>3. k2.rcv \in Int
        <5>1. k2.rcv = IF in[1].seq = k.rcv THEN k.rcv + Size(in[1].flags, in[1].data) ELSE k.rcv
          BY <3>3 DEF Hears, Takes
        <5>2. Size(in[1].flags, in[1].data) \in Int
          BY <4>2 DEF Written
        <5> QED BY <1>0, <5>1, <5>2
      <4>4. /\ k.st \in {"estab", "finwait", "closewait", "lastack"}
            /\ \/ k.st = "estab" /\ Ends(in[1]) /\ k2.st = "closewait"
               \/ k.st = "finwait" /\ k2.st = "done"
               \/ k.st = "lastack" /\ k2.st = "done"
               \/ k2.st = k.st
        BY <3>3 DEF Hears, Takes
      <4>5. in2 = Tail(in)
        BY <3>3 DEF Hears
      <4>6. /\ k.st \notin Fresh /\ k2.st \in States \ Fresh
            /\ k.st \in Parting => k2.st \in Parting
        BY <4>4 DEF States, Fresh, Parting
      <4>7. k2.st \in {"closewait", "lastack"} =>
             k.st \in {"closewait", "lastack"} \/ (in # <<>> /\ Ends(in[1]))
        BY <4>2, <4>4
      <4> QED BY <4>1, <4>2, <4>3, <4>5, <4>6, <4>7
    <3>4. CASE Refuses(k, out, in, k2, out2, in2)
      <4>1. out2 = out \/ Adds(out, out2, Answering)
        BY <3>4 DEF Refuses, Adds, Answering
      <4>2. k2 = k /\ k.st \in {"done", "reset"} /\ in # <<>> /\ in2 = Tail(in)
        BY <3>4 DEF Refuses
      <4>3. /\ k.st \notin Fresh /\ k2.st \in States \ Fresh
        BY <4>2 DEF States, Fresh
      <4> QED BY <1>0, <4>1, <4>2, <4>3
    <3>5. CASE Closes(k, out, in, k2, out2, in2)
      BY <1>0, <3>5 DEF Closes, Keeps, States, Fresh, Parting
    <3>6. CASE Leaves(k, out, in, k2, out2, in2)
      <4>1. /\ k.st = "estab" /\ k2.rcv = k.rcv /\ in2 = in
            /\ \/ k2.st = "finwait" /\ Adds(out, out2, {{"FIN", "ACK"}})
               \/ k2.st = "reset" /\ Adds(out, out2, Answering)
        BY <3>6 DEF Leaves, Keeps, Adds, Answering
      <4> QED BY <1>0, <4>1 DEF States, Fresh, Parting
    <3> QED BY <1>2, <3>1, <3>2, <3>3, <3>4, <3>5, <3>6 DEF Acting
  <2>2. /\ Sequence(out2) /\ Outgoing(k2, out2)
        /\ \A x \in Range(out2) : Opens(x) => x \in Range(out)
    <3>1. CASE out2 = out \/ Adds(out, out2, Answering)
      <4>1. Answering \subseteq Kinds \ {{"SYN"}} /\ {"FIN", "ACK"} \notin Answering
        <5>1. {"FIN", "ACK"} \notin Answering
          BY DEF Answering
        <5>2. {"SYN"} \notin Answering
          BY DEF Answering
        <5>3. Answering \subseteq Kinds
          BY DEF Answering, Kinds
        <5> QED BY <5>1, <5>2, <5>3
      <4> QED BY <1>0, <2>1, <3>1, <4>1, OutStep
    <3>2. CASE k2.st \in Parting /\ Adds(out, out2, {{"FIN", "ACK"}})
      <4>1. {{"FIN", "ACK"}} \subseteq Kinds \ {{"SYN"}}
        <5>1. {"FIN", "ACK"} # {"SYN"}
          OBVIOUS
        <5> QED BY <5>1 DEF Kinds
      <4> QED BY <1>0, <2>1, <3>2, <4>1, OutStep
    <3> QED BY <2>1, <3>1, <3>2
  <2>3. Sequence(in2) /\ Range(in2) \subseteq Range(in)
    BY <1>0, <2>1, RangeTail
  <2>4. Typed(k2, out2, in2)
    BY <1>0, <2>1, <2>2, <2>3 DEF Typed
  <2>5. ASSUME There(list, c) PROVE Side(list[1], k2, in2)
    <3>1. Side(list[1], k, in)
      BY <2>5 DEF Path
    <3>2. in # <<>> => in[1] \in Range(in)
      BY <1>0, RangeTail
    <3> QED BY <2>1, <2>3, <3>1, <3>2 DEF Side
  <2>6. ASSUME ~There(list, c) PROVE Alone(k2, out2, in2)
    <3>1. Alone(k, out, in)
      BY <2>6 DEF Path
    <3> QED BY <2>1, <2>2, <3>1 DEF Alone
  <2> QED BY <2>2, <2>4, <2>5, <2>6 DEF Path
<1> QED BY <1>1, <1>2

-----------------------------------------------------------------------------
(* What a client has got of the reply.                                     *)

Reply(n) == [k \in 1..n |-> k]

GotOK(k) ==
  /\ k.st \in Fresh => k.got = Reply(0)
  /\ k.st \in {"estab", "finwait"} => k.rcv \in 2..(PIECES + 2) /\ k.got = Reply(k.rcv - 2)
  /\ k.st \in {"closewait", "lastack"} => k.rcv = PIECES + 3 /\ k.got = Reply(PIECES)
  /\ \E n \in 0..PIECES : k.got = Reply(n)

LEMMA ReplyIs ==
  ASSUME NEW n \in Nat
  PROVE  /\ Reply(n) \o <<>> = Reply(n) /\ Reply(n) \o <<n + 1>> = Reply(n + 1)
         /\ Len(Reply(n)) = n
<1>1. Reply(n) \in Seq(Nat) /\ Len(Reply(n)) = n
  BY DEF Reply
<1>2. Reply(n) \o <<>> = Reply(n)
  BY <1>1
<1>3. Reply(n) \o <<n + 1>> = Reply(n + 1)
  <2> DEFINE q == Reply(n)
             r == Append(q, n + 1)
  <2>1. q \in Seq(Nat) /\ Sequence(q) /\ Len(q) = n
    BY <1>1 DEF Sequence
  <2>2. q \o <<n + 1>> = r
    <3> HIDE DEF q
    <3> QED BY <2>1
  <2>3. Len(r) = n + 1 /\ (\A k \in 1..n : r[k] = q[k]) /\ r[n + 1] = n + 1
    <3> HIDE DEF q
    <3> QED BY <2>1, Appended
  <2>4. r \in Seq(Nat)
    <3> HIDE DEF q
    <3> QED BY <2>1
  <2> HIDE DEF r
  <2>5. \A k \in 1..(n + 1) : r[k] = k
    <3>1. \A k \in 1..n : Reply(n)[k] = k
      BY DEF Reply
    <3>2. \A k \in 1..(n + 1) : k \in 1..n \/ k = n + 1
      OBVIOUS
    <3> QED BY <2>3, <3>1, <3>2
  <2>6. r = [k \in 1..(n + 1) |-> r[k]]
    BY <2>3, <2>4, LenProperties
  <2>7. r = [k \in 1..(n + 1) |-> k]
    BY <2>5, <2>6
  <2> QED BY <2>2, <2>7 DEF Reply
<1> QED BY <1>1, <1>2, <1>3

LEMMA FitsStill ==
  ASSUME NEW seg, NEW st, Fits(seg, st), NEW st2, st \in {"finwait", "done"} => st2 \in {"finwait", "done"}
  PROVE  Fits(seg, st2)
BY DEF Fits

\* A client takes the next segment of the reply.
LEMMA TakesStream ==
  ASSUME NEW k, k.st \in {"estab", "finwait", "closewait", "lastack"}, k.rcv \in Int, GotOK(k),
         NEW seg, Fits(seg, k.st), NEW k2, Takes(k, k2, seg)
  PROVE  /\ GotOK(k2) /\ k2.st \notin Fresh
         /\ k.st \in {"finwait", "done"} => k2.st \in {"finwait", "done"}
<1>0. PIECES \in Nat /\ k.st \notin Fresh /\ k.rcv \in Nat /\ k.rcv >= 2
  <2>1. PIECES \in Nat
    BY HttpdAssumption
  <2>2. k.st \notin Fresh
    BY DEF Fresh
  <2>3. k.rcv \in 2..(PIECES + 2) \/ k.rcv = PIECES + 3
    BY DEF GotOK
  <2> QED BY <2>1, <2>2, <2>3
<1>1. /\ k2.rcv = IF seg.seq = k.rcv THEN k.rcv + Size(seg.flags, seg.data) ELSE k.rcv
      /\ k2.got = IF seg.seq = k.rcv THEN k.got \o seg.data ELSE k.got
      /\ \/ k.st = "estab" /\ Ends(seg) /\ seg.seq = k.rcv /\ k2.st = "closewait"
         \/ k.st = "finwait" /\ Ends(seg) /\ seg.seq = k.rcv /\ k2.st = "done"
         \/ k.st = "lastack" /\ k2.st = "done"
         \/ ~(Ends(seg) /\ seg.seq = k.rcv /\ k.st \in {"estab", "finwait"}) /\ k2.st = k.st
  BY DEF Takes
<1>2. PICK m \in 0..PIECES : k.got = Reply(m)
  BY DEF GotOK
<1>3. m \in Nat /\ k.got \o <<>> = k.got
  BY <1>0, <1>2, ReplyIs
<1>4. k2.st \notin Fresh /\ (k.st \in {"finwait", "done"} => k2.st \in {"finwait", "done"})
  BY <1>0, <1>1 DEF Fresh
<1>5. ASSUME k2.rcv = k.rcv, k2.got = k.got, ~Ends(seg) \/ seg.seq # k.rcv
      PROVE  GotOK(k2)
  <2>1. k2.st = k.st \/ k2.st = "done"
    BY <1>1, <1>5
  <2>2. CASE k2.st = k.st
    BY <1>5, <2>2 DEF GotOK
  <2>3. CASE k2.st = "done"
    BY <1>2, <1>5, <2>3 DEF GotOK, Fresh
  <2> QED BY <2>1, <2>2, <2>3
<1>6. CASE seg.seq # k.rcv
  BY <1>1, <1>4, <1>5, <1>6
<1>7. CASE seg.flags = {"ACK"} /\ seg.data = <<>>
  <2>1. ~Ends(seg) /\ Size(seg.flags, seg.data) = 0
    BY <1>7 DEF Ends, Size
  <2>2. k.rcv + 0 = k.rcv
    BY <1>0
  <2>3. k2.rcv = k.rcv
    BY <1>1, <2>1, <2>2
  <2>4. k2.got = k.got
    BY <1>1, <1>3, <1>7
  <2> QED BY <1>4, <1>5, <2>1, <2>3, <2>4
<1>8. CASE seg.flags = {"SYN", "ACK"} /\ seg.seq = 1
  BY <1>0, <1>6, <1>8
<1>9. CASE seg.flags = {"PSH", "ACK"} /\ seg.seq \in 2..(PIECES + 1) /\ seg.data = <<seg.seq - 1>> /\ seg.seq = k.rcv
  <2>1. k.st \in {"estab", "finwait"} /\ k.got = Reply(k.rcv - 2)
    <3>1. k.rcv # PIECES + 3
      BY <1>0, <1>9
    <3> QED BY <3>1 DEF GotOK
  <2>2. ~Ends(seg) /\ Size(seg.flags, seg.data) = 1
    <3>1. Len(<<seg.seq - 1>>) = 1
      OBVIOUS
    <3> QED BY <1>9, <3>1 DEF Ends, Size
  <2>3. k2.st = k.st /\ k2.rcv = k.rcv + 1
    BY <1>1, <1>9, <2>1, <2>2
  <2>4. k2.got = Reply(k.rcv - 1)
    <3>1. PICK n \in Nat : n = k.rcv - 2
      BY <1>0
    <3>2. seg.data = <<n + 1>>
      <4>1. seg.seq - 1 = n + 1
        BY <1>0, <1>9, <3>1
      <4> QED BY <1>9, <4>1
    <3>3. n + 1 = k.rcv - 1
      BY <1>0, <3>1
    <3> QED BY <1>1, <1>9, <2>1, <3>1, <3>2, <3>3, ReplyIs
  <2>5. k2.rcv \in 2..(PIECES + 2) /\ k2.rcv - 2 = k.rcv - 1 /\ k.rcv - 1 \in 0..PIECES
    <3>1. k.rcv \in 2..(PIECES + 1)
      BY <1>9
    <3> QED BY <1>0, <2>3, <3>1
  <2> HIDE DEF Reply
  <2> QED BY <1>4, <2>1, <2>3, <2>4, <2>5 DEF GotOK
<1>10. CASE /\ seg.flags = {"FIN", "ACK"} /\ seg.data = <<>> /\ seg.seq = k.rcv
            /\ seg.seq = PIECES + 2 \/ k.st \in {"finwait", "done"}
  <2>1. Ends(seg) /\ Size(seg.flags, seg.data) = 1
    <3>1. "PSH" \notin seg.flags /\ seg.flags \cap {"SYN", "FIN"} # {}
      BY <1>10
    <3> QED BY <1>10, <3>1 DEF Ends, Size
  <2>2. k.st \in {"estab", "finwait"}
    <3>1. k.st # "finwait" => k.rcv # PIECES + 3
      BY <1>0, <1>10
    <3> QED BY <3>1 DEF GotOK
  <2>3. k2.got = k.got /\ k2.rcv = k.rcv + 1
    BY <1>1, <1>3, <1>10, <2>1
  <2>4. CASE k.st = "finwait"
    <3>1. k2.st = "done"
      BY <1>1, <1>10, <2>1, <2>4
    <3> QED BY <1>2, <1>4, <2>3, <3>1 DEF GotOK
  <2>5. CASE k.st = "estab"
    <3>1. k2.st = "closewait" /\ k.rcv = PIECES + 2
      BY <1>1, <1>10, <2>1, <2>5
    <3>2. k2.rcv = PIECES + 3 /\ k.rcv - 2 = PIECES
      BY <1>0, <2>3, <3>1
    <3>3. k.got = Reply(PIECES)
      BY <2>5, <3>2 DEF GotOK
    <3> QED BY <1>2, <1>4, <2>3, <3>1, <3>2, <3>3 DEF GotOK
  <2> QED BY <2>2, <2>4, <2>5
<1> QED BY <1>4, <1>6, <1>7, <1>8, <1>9, <1>10 DEF Fits

LEMMA ActingStream ==
  ASSUME NEW list, NEW c, NEW k, NEW out, NEW in, Path(list, c, k, out, in),
         GotOK(k), \A x \in Range(in) : Fits(x, k.st),
         NEW k2, NEW out2, NEW in2,
         Acting(k, out, in, k2, out2, in2) \/ Leaves(k, out, in, k2, out2, in2)
  PROVE  GotOK(k2) /\ \A x \in Range(in2) : Fits(x, k2.st)
<1>0. PIECES \in Nat /\ k.st \in States /\ k.rcv \in Int /\ Sequence(in)
  BY HttpdAssumption DEF Path, Typed
<1>1. in # <<>> => in[1] \in Range(in) /\ Range(Tail(in)) \subseteq Range(in)
  BY <1>0, RangeTail
<1>2. ASSUME k2.st = k.st \/ (k.st \in Fresh /\ k2.st \in Fresh), k2.rcv = k.rcv, k2.got = k.got
      PROVE  GotOK(k2)
  BY <1>2 DEF GotOK, Fresh
<1>3. ASSUME GotOK(k2), k.st \in {"finwait", "done"} => k2.st \in {"finwait", "done"},
             Range(in2) \subseteq Range(in)
      PROVE  GotOK(k2) /\ \A x \in Range(in2) : Fits(x, k2.st)
  BY <1>3, FitsStill
<1>4. CASE Connects(k, out, in, k2, out2, in2)
  <2>1. k.st \in Fresh /\ k2.st = "synsent" /\ k2.rcv = k.rcv /\ k2.got = k.got /\ in2 = in
    BY <1>4 DEF Connects, Keeps
  <2> QED BY <1>2, <1>3, <2>1 DEF Fresh
<1>5. CASE Says(k, out, in, k2, out2, in2)
  BY <1>2, <1>3, <1>5 DEF Says, Keeps
<1>6. CASE Establishes(k, out, in, k2, out2, in2)
  <2>1. /\ k.st = "synsent" /\ in # <<>> /\ k2.st = "estab" /\ k2.rcv = in[1].seq + 1 /\ k2.got = k.got
        /\ in2 = Tail(in)
    BY <1>6 DEF Establishes
  <2>2. k.st \in Fresh
    BY <2>1 DEF Fresh
  <2>3. in[1].seq = 1
    <3>1. There(list, c)
      BY <2>1, <2>2 DEF Path, Alone
    <3>2. Side(list[1], k, in)
      BY <3>1 DEF Path
    <3> QED BY <1>1, <2>1, <2>2, <3>2 DEF Side
  <2>4. k2.rcv = 2 /\ k2.rcv \in 2..(PIECES + 2) /\ k2.rcv - 2 = 0 /\ 0 \in 0..PIECES
    BY <1>0, <2>1, <2>3
  <2>5. k2.got = Reply(0)
    BY <2>1, <2>2 DEF GotOK
  <2>6. GotOK(k2)
    BY <2>1, <2>4, <2>5 DEF GotOK, Fresh
  <2> QED BY <1>1, <1>3, <2>1, <2>6
<1>7. CASE Hears(k, out, in, k2, out2, in2)
  <2>1. /\ k.st \in {"estab", "finwait", "closewait", "lastack"} /\ in # <<>> /\ Takes(k, k2, in[1])
        /\ in2 = Tail(in)
    BY <1>7 DEF Hears
  <2>2. Fits(in[1], k.st)
    BY <1>1, <2>1
  <2>3. GotOK(k2) /\ (k.st \in {"finwait", "done"} => k2.st \in {"finwait", "done"})
    BY <1>0, <2>1, <2>2, TakesStream
  <2> QED BY <1>1, <1>3, <2>1, <2>3
<1>8. CASE Refuses(k, out, in, k2, out2, in2)
  BY <1>1, <1>3, <1>8 DEF Refuses
<1>9. CASE Closes(k, out, in, k2, out2, in2)
  <2>1. /\ k.st = "closewait" /\ k2.st = "lastack" /\ k2.rcv = k.rcv /\ k2.got = k.got /\ in2 = in
    BY <1>9 DEF Closes, Keeps
  <2>2. GotOK(k2)
    BY <2>1 DEF GotOK, Fresh
  <2> QED BY <1>3, <2>1, <2>2
<1>10. CASE Leaves(k, out, in, k2, out2, in2)
  <2>1. /\ k.st = "estab" /\ k2.st \in {"finwait", "reset"} /\ k2.rcv = k.rcv /\ k2.got = k.got /\ in2 = in
    BY <1>10 DEF Leaves, Keeps
  <2>2. GotOK(k2)
    BY <2>1 DEF GotOK, Fresh
  <2> QED BY <1>3, <2>1, <2>2
<1> QED BY <1>4, <1>5, <1>6, <1>7, <1>8, <1>9, <1>10 DEF Acting

-----------------------------------------------------------------------------
(* A client and the end of its connection, as long as none leaves.         *)

\* It has a connection.
Live(k, out) == k.st \in {"estab", "closewait"} \/ \E x \in Range(out) : ~Opens(x)

\* Nothing comes after a FIN, in either direction.
EndsLast(out) == \A j \in 1..Len(out) : out[j].flags # {"RST"} /\ (Ends(out[j]) => j = Len(out))
Ceases(in) == \A j, l \in 1..Len(in) : j < l /\ Ends(in[j]) => ~Sized(in[l])

Orderly(list, c, k, out, in) ==
  /\ k.st \notin {"finwait", "reset"}
  /\ Live(k, out) => There(list, c)
  /\ EndsLast(out) /\ Ceases(in)
  /\ There(list, c) /\ list[1].status \in Unended => k.st # "done"
  /\ k.st \in {"closewait", "lastack", "done"} => \A x \in Range(in) : ~Sized(x)

LEMMA LastAppend ==
  ASSUME NEW out, Sequence(out), NEW seg, seg.flags # {"RST"}, \A x \in Range(out) : ~Ends(x), EndsLast(out)
  PROVE  EndsLast(Append(out, seg))
<1> DEFINE r == Append(out, seg)
<1>1. /\ Len(out) \in Nat /\ Len(r) = Len(out) + 1
      /\ \A j \in 1..Len(out) : r[j] = out[j]
      /\ r[Len(out) + 1] = seg
  BY Appended
<1> HIDE DEF r
<1>2. \A j \in 1..Len(out) : ~Ends(out[j]) /\ out[j].flags # {"RST"}
  BY RangeIs DEF EndsLast
<1>3. \A j \in 1..Len(r) : j \in 1..Len(out) \/ j = Len(out) + 1
  BY <1>1
<1> QED BY <1>1, <1>2, <1>3 DEF EndsLast, r

LEMMA CeasesTail ==
  ASSUME NEW in, Sequence(in), in # <<>>, Ceases(in)
  PROVE  Ceases(Tail(in)) /\ (Ends(in[1]) => \A x \in Range(Tail(in)) : ~Sized(x))
<1> DEFINE r == Tail(in)
<1>1. /\ Sequence(r) /\ Len(in) \in Nat \ {0} /\ Len(r) = Len(in) - 1
      /\ \A k \in 1..Len(r) : r[k] = in[k + 1]
  BY Tailed
<1> HIDE DEF r
<1>2. ASSUME NEW j \in 1..Len(r), NEW l \in 1..Len(r), j < l, Ends(r[j]) PROVE ~Sized(r[l])
  <2>1. /\ j + 1 \in 1..Len(in) /\ l + 1 \in 1..Len(in) /\ j + 1 < l + 1
        /\ r[j] = in[j + 1] /\ r[l] = in[l + 1]
    BY <1>1, <1>2
  <2> QED BY <1>2, <2>1 DEF Ceases
<1>3. ASSUME Ends(in[1]), NEW l \in 1..Len(r) PROVE ~Sized(r[l])
  <2>1. 1 \in 1..Len(in) /\ l + 1 \in 1..Len(in) /\ 1 < l + 1 /\ r[l] = in[l + 1]
    BY <1>1, <1>3
  <2> QED BY <1>3, <2>1 DEF Ceases
<1>4. Range(r) = {r[l] : l \in 1..Len(r)}
  BY <1>1, RangeIs
<1> QED BY <1>2, <1>3, <1>4 DEF Ceases, r

LEMMA ActingCalm ==
  ASSUME NEW list, NEW c, NEW k, NEW out, NEW in, Path(list, c, k, out, in), Orderly(list, c, k, out, in),
         NEW k2, NEW out2, NEW in2, Acting(k, out, in, k2, out2, in2)
  PROVE  Orderly(list, c, k2, out2, in2)
<1>0. /\ k.st \in {"closed", "synsent", "estab", "closewait", "lastack", "done"} /\ Sequence(out) /\ Sequence(in)
      /\ \A x \in Range(out) : Ends(x) => k.st \in Parting
      /\ EndsLast(out) /\ Ceases(in)
  BY DEF Path, Typed, Outgoing, Orderly, States, Fresh
<1>1. in # <<>> => /\ in[1] \in Range(in) /\ Range(Tail(in)) \subseteq Range(in)
                   /\ Ceases(Tail(in)) /\ (Ends(in[1]) => \A x \in Range(Tail(in)) : ~Sized(x))
  BY <1>0, RangeTail, CeasesTail
<1>2. ASSUME k.st \notin Parting, Live(k, out), NEW kinds, {"RST"} \notin kinds, Adds(out, out2, kinds)
      PROVE  EndsLast(out2) /\ There(list, c)
  <2>1. PICK seg : seg.flags \in kinds /\ out2 = Append(out, seg)
    BY <1>2 DEF Adds
  <2>2. seg.flags # {"RST"} /\ \A x \in Range(out) : ~Ends(x)
    BY <1>0, <1>2, <2>1
  <2>3. EndsLast(out2)
    BY <1>0, <2>1, <2>2, LastAppend
  <2> QED BY <1>2, <2>3 DEF Orderly
<1>3. CASE Connects(k, out, in, k2, out2, in2)
  <2>1. /\ k.st \in Fresh /\ out = <<>> /\ k2.st = "synsent" /\ in2 = in /\ Adds(out, out2, {{"SYN"}})
    BY <1>3 DEF Connects
  <2>2. PICK seg : seg.flags = {"SYN"} /\ out2 = Append(<<>>, seg)
    BY <2>1 DEF Adds
  <2>3. Opens(seg) /\ ~Ends(seg) /\ seg.flags # {"RST"}
    BY <2>2 DEF Opens, Ends
  <2>4. Len(out2) = 1 /\ out2[1] = seg /\ Range(out2) = {seg}
    BY <2>2, OneOf
  <2>5. EndsLast(out2)
    <3>1. \A j \in 1..Len(out2) : j = 1
      BY <2>4
    <3> QED BY <2>3, <2>4, <3>1 DEF EndsLast
  <2>6. ~Live(k2, out2)
    BY <2>1, <2>3, <2>4 DEF Live
  <2> QED BY <1>0, <2>1, <2>5, <2>6 DEF Orderly
<1>4. CASE Says(k, out, in, k2, out2, in2)
  <2>1. k.st \in {"estab", "closewait"} /\ k2.st = k.st /\ in2 = in /\ Adds(out, out2, {{"PSH", "ACK"}})
    BY <1>0, <1>4 DEF Says
  <2>2. k.st \notin Parting /\ Live(k, out)
    BY <2>1 DEF Parting, Live
  <2>3. {"RST"} \notin {{"PSH", "ACK"}}
    <3>1. {"RST"} # {"PSH", "ACK"}
      OBVIOUS
    <3> QED BY <3>1
  <2>4. EndsLast(out2) /\ There(list, c)
    BY <1>2, <2>1, <2>2, <2>3
  <2> QED BY <2>1, <2>4 DEF Orderly
<1>5. CASE Establishes(k, out, in, k2, out2, in2)
  <2>1. /\ k.st = "synsent" /\ in # <<>> /\ k2.st = "estab" /\ in2 = Tail(in)
        /\ Adds(out, out2, {{"ACK"}, {"PSH", "ACK"}})
    BY <1>5 DEF Establishes
  <2>2. There(list, c)
    BY <2>1 DEF Path, Alone, Fresh
  <2>3. PICK seg : seg.flags \in {{"ACK"}, {"PSH", "ACK"}} /\ out2 = Append(out, seg)
    BY <2>1 DEF Adds
  <2>4. seg.flags # {"RST"}
    BY <2>3
  <2>5. \A x \in Range(out) : ~Ends(x)
    BY <1>0, <2>1 DEF Parting
  <2>6. EndsLast(out2)
    BY <1>0, <2>3, <2>4, <2>5, LastAppend
  <2> QED BY <1>1, <2>1, <2>2, <2>6 DEF Orderly
<1>6. CASE Hears(k, out, in, k2, out2, in2)
  <2>1. /\ k.st \in {"estab", "closewait", "lastack"} /\ in # <<>> /\ in2 = Tail(in)
        /\ IF Sized(in[1]) THEN Adds(out, out2, {{"ACK"}}) ELSE out2 = out
    BY <1>0, <1>6 DEF Hears
  <2>2. \/ k.st = "estab" /\ Ends(in[1]) /\ k2.st = "closewait"
        \/ k.st = "lastack" /\ k2.st = "done"
        \/ k2.st = k.st
    BY <1>6, <2>1 DEF Hears, Takes
  <2>3. CASE k.st = "lastack"
    <3>1. ~Sized(in[1]) /\ \A x \in Range(in2) : ~Sized(x)
      BY <1>1, <2>1, <2>3 DEF Orderly
    <3>2. out2 = out
      BY <2>1, <3>1
    <3>3. ~(There(list, c) /\ list[1].status \in Unended)
      BY <2>3 DEF Path, Side
    <3>4. k2.st \in {"lastack", "done"}
      BY <2>2, <2>3
    <3>5. Live(k2, out2) => Live(k, out)
      BY <3>2, <3>4 DEF Live
    <3> QED BY <1>0, <1>1, <2>1, <3>1, <3>2, <3>3, <3>4, <3>5 DEF Orderly
  <2>4. CASE k.st \in {"estab", "closewait"}
    <3>1. k.st \notin Parting /\ Live(k, out) /\ There(list, c)
      BY <2>4 DEF Parting, Live, Orderly
    <3>2. EndsLast(out2)
      <4>1. {"RST"} \notin {{"ACK"}}
        <5>1. {"RST"} # {"ACK"}
          OBVIOUS
        <5> QED BY <5>1
      <4> QED BY <1>0, <1>2, <2>1, <3>1, <4>1
    <3>3. k2.st \in {"estab", "closewait"}
      BY <2>2, <2>4
    <3>4. k2.st = "closewait" => \A x \in Range(in2) : ~Sized(x)
      BY <1>1, <2>1, <2>2, <2>4 DEF Orderly
    <3> QED BY <1>1, <2>1, <3>1, <3>2, <3>3, <3>4 DEF Orderly
  <2> QED BY <2>1, <2>3, <2>4
<1>7. CASE Refuses(k, out, in, k2, out2, in2)
  <2>1. in # <<>> /\ k2 = k /\ out2 = out /\ in2 = Tail(in)
    BY <1>0, <1>7 DEF Refuses
  <2> QED BY <1>1, <2>1 DEF Orderly
<1>8. CASE Closes(k, out, in, k2, out2, in2)
  <2>1. k.st = "closewait" /\ k2.st = "lastack" /\ in2 = in /\ Adds(out, out2, {{"FIN", "ACK"}})
    BY <1>8 DEF Closes
  <2>2. k.st \notin Parting /\ Live(k, out)
    BY <2>1 DEF Parting, Live
  <2>3. {"RST"} \notin {{"FIN", "ACK"}}
    <3>1. {"RST"} # {"FIN", "ACK"}
      OBVIOUS
    <3> QED BY <3>1
  <2>4. EndsLast(out2) /\ There(list, c)
    BY <1>2, <2>1, <2>2, <2>3
  <2> QED BY <2>1, <2>4 DEF Orderly
<1> QED BY <1>3, <1>4, <1>5, <1>6, <1>7, <1>8 DEF Acting

-----------------------------------------------------------------------------
(* A segment of client d on its connection con, or on a listening one.     *)

Acking == {{"ACK"}, {"PSH", "ACK"}, {"FIN", "ACK"}}

Replies(con, d, seg, s) == con.status # "LISTEN" /\ con.peer = d /\ Answers(con, seg, s)

Outcome(con, d, seg, s) ==
  \/ seg.flags = {"SYN"} /\ Ignores(con, s)
  \/ seg.flags = {"SYN"} /\ con.status = "LISTEN" /\ Welcomes(con, d, s)
  \/ seg.flags = {"RST"} /\ con.peer \in {d, None} /\ Resets(s)
  \/ seg.flags \in Acking /\ con.status = "LISTEN" /\ Notes(con, s, seg.ack)
  \/ seg.flags \in Acking /\ Replies(con, d, seg, s)

LEMMA OutcomeIs ==
  ASSUME NEW con, ConOK(con), Formed(con), NEW d \in Client, NEW seg, seg.flags \in Kinds, seg.ack \in Int,
         ~Stray(con, d, seg), NEW seen0, NEW s \in tcp_recv(con, d, seg, seen0)
  PROVE  Outcome(con, d, seg, s)
<1>0. None \notin Client /\ con.snd \in Int
  BY HttpdAssumption DEF Formed
<1>1. CASE seg.flags = {"SYN"}
  <2>1. con.status = "LISTEN" => con.send_queue = <<>>
    BY DEF Formed
  <2>2. IF con.status = "LISTEN" THEN Welcomes(con, d, s) ELSE Ignores(con, s)
    BY <1>0, <1>1, <2>1, OpeningIs
  <2> QED BY <1>1, <2>2 DEF Outcome
<1>2. "SYN" \notin seg.flags => con.peer \in {d, None}
  BY DEF Stray
<1>3. CASE seg.flags = {"RST"}
  <2>1. "SYN" \notin seg.flags
    BY <1>3
  <2>2. Resets(s)
    BY <1>3, ResetIs
  <2> QED BY <1>2, <1>3, <2>1, <2>2 DEF Outcome
<1>4. CASE seg.flags \in Acking
  <2>1. "ACK" \in seg.flags /\ "RST" \notin seg.flags /\ "SYN" \notin seg.flags
    BY <1>4 DEF Acking
  <2>2. Answers(con, seg, s)
    BY <2>1, AnswerIs
  <2>3. CASE con.status = "LISTEN"
    <3>1. Notes(con, s, seg.ack)
      BY <2>2, <2>3, AnswerListen
    <3> QED BY <1>4, <2>3, <3>1 DEF Outcome
  <2>4. CASE con.status # "LISTEN"
    <3>1. con.peer = d
      BY <1>0, <1>2, <2>1, <2>4 DEF Formed
    <3> QED BY <1>4, <2>2, <2>4, <3>1 DEF Outcome, Replies
  <2> QED BY <2>3, <2>4
<1> QED BY <1>1, <1>3, <1>4 DEF Kinds, Acking

\* The connection it leaves behind.
LEMMA OutcomeFormed ==
  ASSUME NEW con, ConOK(con), Formed(con), NEW d \in Client, NEW seg, seg.ack \in Int,
         NEW s, Outcome(con, d, seg, s), s.closed = FALSE
  PROVE  Formed(s.con)
<1>0. None \notin Client
  BY HttpdAssumption
<1>1. CASE Ignores(con, s)
  BY <1>1 DEF Ignores
<1>2. CASE con.status = "LISTEN" /\ Welcomes(con, d, s)
  BY <1>2, RangeEmpty DEF Welcomes, Formed
<1>3. CASE Resets(s)
  BY <1>3 DEF Resets
<1>4. CASE con.status = "LISTEN" /\ Notes(con, s, seg.ack)
  BY <1>4 DEF Notes, Formed
<1>5. CASE Replies(con, d, seg, s)
  <2>1. Sound(con, s)
    BY <1>5, AnswerSound DEF Replies
  <2> QED BY <1>5, <2>1 DEF Sound, Formed, Replies
<1> QED BY <1>1, <1>2, <1>3, <1>4, <1>5 DEF Outcome

LEMMA ThereIs ==
  /\ \A con, c : There(<<con>>, c) <=> con.peer = c
  /\ \A c : ~There(<<>>, c)
<1>1. ASSUME NEW con, NEW c PROVE There(<<con>>, c) <=> con.peer = c
  <2>1. <<con>> # <<>> /\ <<con>>[1] = con
    OBVIOUS
  <2> QED BY <2>1 DEF There
<1> QED BY <1>1 DEF There

\* The first segment is taken.
LEMMA OutgoingTail ==
  ASSUME NEW k, NEW out, Sequence(out), out # <<>>, Outgoing(k, out)
  PROVE  /\ Sequence(Tail(out)) /\ Outgoing(k, Tail(out))
         /\ \A x \in Range(Tail(out)) : ~Opens(x)
<1> DEFINE r == Tail(out)
<1>1. /\ Sequence(r) /\ Len(out) \in Nat \ {0} /\ Len(r) = Len(out) - 1
      /\ \A k2 \in 1..Len(r) : r[k2] = out[k2 + 1]
  BY Tailed
<1>2. Range(r) \subseteq Range(out)
  BY RangeTail
<1> HIDE DEF r
<1>3. ASSUME NEW j \in 1..Len(r) PROVE ~Opens(r[j])
  <2>1. j + 1 \in 1..Len(out) /\ j + 1 # 1 /\ r[j] = out[j + 1]
    BY <1>1
  <2> QED BY <2>1 DEF Outgoing
<1>4. Range(r) = {r[j] : j \in 1..Len(r)}
  BY <1>1, RangeIs
<1>5. \A x \in Range(r) : ~Opens(x)
  BY <1>3, <1>4
<1>6. out # <<>> => k.st # "closed"
  BY DEF Outgoing
<1>7. Outgoing(k, r)
  BY <1>2, <1>3, <1>6 DEF Outgoing
<1> QED BY <1>1, <1>5, <1>7 DEF r

\* What client c sees of it.
Passed(c, d, out) == IF c = d THEN Tail(out) ELSE out
Joins(c, s, in) == IF c = s.con.peer THEN in \o s.sent ELSE in
Left(s) == IF s.closed THEN <<>> ELSE <<s.con>>

LEMMA JoinsNone ==
  ASSUME NEW c, NEW s, s.sent = <<>>, NEW in, Sequence(in)
  PROVE  Joins(c, s, in) = in
<1>1. PICK S : in \in Seq(S)
  BY DEF Sequence
<1>2. in \o <<>> = in
  BY <1>1, ConcatEmptySeq
<1> QED BY <1>2 DEF Joins

LEMMA PathReceive ==
  ASSUME NEW con, ConOK(con), Formed(con), NEW d \in Client, NEW c \in Client,
         NEW k, NEW out, NEW in, Path(<<con>>, c, k, out, in),
         NEW seg, seg.ack \in Int, c = d => out # <<>> /\ seg = out[1],
         NEW s, Outcome(con, d, seg, s)
  PROVE  Path(Left(s), c, k, Passed(c, d, out), Joins(c, s, in))
<1> DEFINE out2 == Passed(c, d, out)
           in2 == Joins(c, s, in)
<1>0. /\ None \notin Client /\ Sequence(out) /\ Sequence(in) /\ Outgoing(k, out)
      /\ Typed(k, out, in)
  BY HttpdAssumption DEF Path, Typed
<1>1. /\ Sequence(out2) /\ Outgoing(k, out2) /\ Range(out2) \subseteq Range(out)
      /\ c = d => \A x \in Range(out2) : ~Opens(x)
  BY <1>0, OutgoingTail, RangeTail DEF Passed
<1>2. con.peer = c => Side(con, k, in)
  <2>1. <<con>>[1] = con
    OBVIOUS
  <2> QED BY <2>1, ThereIs DEF Path
<1>3. con.peer # c => Alone(k, out, in)
  BY ThereIs DEF Path
<1>4. c = d => seg \in Range(out)
  BY <1>0, RangeTail
<1> HIDE DEF out2, in2
<1>5. ASSUME in2 = in, s.closed = FALSE, s.con.peer = con.peer, s.con.status = con.status
      PROVE  Path(Left(s), c, k, out2, in2)
  <2>1. Left(s) = <<s.con>> /\ <<s.con>>[1] = s.con
    BY <1>5 DEF Left
  <2>2. CASE con.peer = c
    <3>1. Side(s.con, k, in2)
      BY <1>2, <1>5, <2>2 DEF Side
    <3> QED BY <1>0, <1>1, <1>5, <2>1, <2>2, <3>1, ThereIs DEF Path, Typed
  <2>3. CASE con.peer # c
    <3>1. Alone(k, out2, in2)
      BY <1>1, <1>3, <1>5, <2>3 DEF Alone
    <3> QED BY <1>0, <1>1, <1>5, <2>1, <2>3, <3>1, ThereIs DEF Path, Typed
  <2> QED BY <2>2, <2>3
<1>6. CASE Ignores(con, s)
  <2>1. in2 = in
    BY <1>0, <1>6, JoinsNone DEF Ignores, in2
  <2> QED BY <1>5, <1>6, <2>1 DEF Ignores, out2, in2
<1>7. CASE con.status = "LISTEN" /\ Notes(con, s, seg.ack)
  <2>1. in2 = in
    BY <1>0, <1>7, JoinsNone DEF Notes, in2
  <2> QED BY <1>5, <1>7, <2>1 DEF Notes, out2, in2
<1>8. CASE seg.flags = {"SYN"} /\ con.status = "LISTEN" /\ Welcomes(con, d, s)
  <2>1. con.peer = None /\ s.con.peer = d /\ s.con.status = "SYNRECV" /\ Left(s) = <<s.con>>
    BY <1>8 DEF Welcomes, Formed, Left
  <2>2. Alone(k, out, in) /\ <<s.con>>[1] = s.con
    BY <1>0, <1>3, <2>1
  <2>3. CASE c # d
    <3>1. in2 = in /\ Alone(k, out2, in2)
      BY <1>1, <2>1, <2>2, <2>3 DEF Alone, in2, Joins
    <3> QED BY <1>0, <1>1, <2>1, <2>3, <3>1, ThereIs DEF Path, Typed, out2, in2
  <2>4. CASE c = d
    <3>1. Opens(seg) /\ k.st \in Fresh /\ in = <<>>
      BY <1>4, <1>8, <2>2, <2>4 DEF Alone, Opens
    <3>2. k.st = "synsent"
      BY <1>0, <2>4, <3>1 DEF Outgoing, Fresh
    <3>3. PICK ack : s.sent = Append(<<>>, segment({"SYN", "ACK"}, 1, ack, <<>>))
      BY <1>8 DEF Welcomes
    <3> DEFINE x == segment({"SYN", "ACK"}, 1, ack, <<>>)
    <3>4. x.seq = 1 /\ ~Ends(x) /\ Written(x)
      <4>1. x.flags = {"SYN", "ACK"} /\ x.seq = 1 /\ x.data = <<>>
        BY SegmentIs
      <4>2. Size({"SYN", "ACK"}, <<>>) = 1
        BY DEF Size
      <4> HIDE DEF x
      <4> QED BY <4>1, <4>2 DEF Ends, Written
    <3> HIDE DEF x
    <3>5. in2 = Append(<<>>, x)
      <4>1. in2 = <<>> \o <<x>> /\ <<>> \o <<x>> = <<x>> /\ Append(<<>>, x) = <<x>>
        BY <2>1, <2>4, <3>1, <3>3 DEF in2, Joins, x
      <4> QED BY <4>1
    <3>6. Sequence(in2) /\ Range(in2) = {x}
      BY <3>5, OneOf
    <3>7. Side(s.con, k, in2)
      BY <2>1, <3>1, <3>2, <3>4, <3>6 DEF Side, Fresh
    <3>8. Typed(k, out2, in2)
      BY <1>0, <1>1, <3>4, <3>6 DEF Typed
    <3> QED BY <1>1, <2>1, <2>2, <2>4, <3>7, <3>8, ThereIs DEF Path, out2, in2
  <2> QED BY <2>3, <2>4
<1>9. ASSUME c # d, con.peer \in {d, None}, s.con.peer = d \/ s.sent = <<>>
      PROVE  in2 = in /\ Alone(k, out2, in2)
  <2>1. in2 = in
    <3>1. CASE s.sent = <<>>
      BY <1>0, <3>1, JoinsNone DEF in2
    <3>2. CASE s.con.peer = d
      BY <1>9, <3>2 DEF in2, Joins
    <3> QED BY <1>9, <3>1, <3>2
  <2>2. Alone(k, out, in)
    BY <1>0, <1>3, <1>9
  <2> QED BY <1>1, <2>1, <2>2 DEF Alone
<1>10. ASSUME c = d, ~Opens(seg) PROVE k.st \notin Fresh /\ Alone(k, out2, in2)
  <2>1. k.st \notin Fresh
    BY <1>0, <1>4, <1>10 DEF Outgoing
  <2> QED BY <1>1, <1>10, <2>1 DEF Alone
<1>11. CASE seg.flags = {"RST"} /\ con.peer \in {d, None} /\ Resets(s)
  <2>1. con.peer \in {d, None} /\ s.sent = <<>> /\ Left(s) = <<>> /\ ~Opens(seg)
    BY <1>11 DEF Resets, Left, Opens
  <2>2. in2 = in
    BY <1>0, <2>1, JoinsNone DEF in2
  <2>3. Alone(k, out2, in2)
    BY <1>9, <1>10, <2>1
  <2> QED BY <1>0, <1>1, <2>1, <2>2, <2>3, ThereIs DEF Path, Typed, out2, in2
<1>12. CASE seg.flags \in Acking /\ Replies(con, d, seg, s)
  <2>1. Sound(con, s) /\ con.peer = d /\ ~Opens(seg)
    <3>1. ~Opens(seg)
      BY <1>12 DEF Acking, Opens
    <3> QED BY <1>12, <3>1, AnswerSound DEF Replies
  <2>2. /\ s.con.peer = d /\ Sequence(s.sent) /\ \A x \in Range(s.sent) : Written(x)
        /\ s.con.status \in Unended => con.status \in Unended /\ \A x \in Range(s.sent) : ~Ends(x)
    BY <2>1 DEF Sound, WorkOK
  <2>3. CASE c # d
    <3>1. in2 = in /\ Alone(k, out2, in2)
      BY <1>9, <2>1, <2>2, <2>3
    <3>2. ~There(Left(s), c)
      BY <2>2, <2>3, ThereIs DEF Left
    <3> QED BY <1>0, <1>1, <3>1, <3>2 DEF Path, Typed, out2, in2
  <2>4. CASE c = d
    <3>1. Sequence(in2) /\ Range(in2) = Range(in) \cup Range(s.sent)
      BY <1>0, <2>2, <2>4, RangeJoin DEF in2, Joins
    <3>2. Typed(k, out2, in2)
      BY <1>0, <1>1, <2>2, <3>1 DEF Typed
    <3>3. k.st \notin Fresh /\ Alone(k, out2, in2)
      BY <1>10, <2>1, <2>4
    <3>4. Side(s.con, k, in2)
      BY <1>2, <2>1, <2>2, <2>4, <3>1, <3>3 DEF Side
    <3>5. There(Left(s), c) => Left(s)[1] = s.con
      <4>1. <<s.con>>[1] = s.con
        OBVIOUS
      <4> QED BY <4>1, ThereIs DEF Left
    <3> QED BY <1>1, <3>2, <3>3, <3>4, <3>5 DEF Path, out2, in2
  <2> QED BY <2>3, <2>4
<1> QED BY <1>6, <1>7, <1>8, <1>11, <1>12 DEF Outcome

-----------------------------------------------------------------------------
(* What a segment comes to: the reply, and the end of a connection.        *)

LEMMA StreamReceive ==
  ASSUME NEW con, ConOK(con), Formed(con), NEW d \in Client, NEW seg, seg.ack \in Int,
         NEW s, Outcome(con, d, seg, s), "rewound" \notin s.seen,
         NEW e \in 2..(PIECES + 3), ConStream(con, e), con.status \in Early => e = 2,
         NEW st, con.peer = d /\ Ends(seg) /\ con.status \in Unended => st \in {"finwait", "done"}
  PROVE  (s.closed = FALSE => ConStream(s.con, e)) /\ \A x \in Range(s.sent) : Fits(x, st)
<1>0. PIECES \in Nat
  BY HttpdAssumption
<1>1. CASE Ignores(con, s)
  BY <1>1, RangeEmpty DEF Ignores
<1>2. CASE con.status = "LISTEN" /\ Welcomes(con, d, s)
  <2>1. PICK ack : s.sent = Append(<<>>, segment({"SYN", "ACK"}, 1, ack, <<>>))
    BY <1>2 DEF Welcomes
  <2> DEFINE x == segment({"SYN", "ACK"}, 1, ack, <<>>)
  <2>2. Fits(x, st)
    BY SegmentIs DEF Fits
  <2> HIDE DEF x
  <2>3. Range(s.sent) = {x}
    BY <2>1, OneOf DEF x
  <2>4. s.con.status = "SYNRECV" /\ s.con.snd = 2 /\ s.con.send_queue = <<>> /\ e = 2
    BY <1>2 DEF Welcomes, Early
  <2>5. Line(<<>>, 2, 2)
    <3>1. 2 \in 2..(PIECES + 3) /\ Len(<<>>) = 0
      BY <1>0
    <3> QED BY <3>1 DEF Line
  <2>6. ConStream(s.con, e)
    BY <2>4, <2>5 DEF ConStream
  <2> QED BY <2>2, <2>3, <2>6
<1>3. CASE Resets(s)
  BY <1>3, RangeEmpty DEF Resets
<1>4. CASE con.status = "LISTEN" /\ Notes(con, s, seg.ack)
  BY <1>4, RangeEmpty DEF Notes, ConStream
<1>5. CASE Replies(con, d, seg, s)
  <2>1. con.status # "LISTEN" /\ con.peer = d /\ Answers(con, seg, s)
    BY <1>5 DEF Replies
  <2>2. Streams(s, e, st) /\ Sound(con, s)
    BY <2>1, AnswerStream, AnswerSound
  <2> QED BY <2>2 DEF Streams, Sound
<1> QED BY <1>1, <1>2, <1>3, <1>4, <1>5 DEF Outcome

-----------------------------------------------------------------------------
Calmly(con, d, seg, s) ==
  \/ seg.flags = {"SYN"} /\ Ignores(con, s)
  \/ seg.flags = {"SYN"} /\ con.status = "LISTEN" /\ Welcomes(con, d, s)
  \/ /\ con.status # "LISTEN" /\ con.peer = d /\ ~Opens(seg)
     /\ Sound(con, s) /\ Calms(con, s)
     /\ s.closed => Ends(seg) /\ Finishing(con)

LEMMA CalmOutcome ==
  ASSUME NEW con, ConOK(con), Formed(con), CalmCon(con), NEW d \in Client,
         NEW k, NEW out, NEW in, Path(<<con>>, d, k, out, in), Orderly(<<con>>, d, k, out, in),
         out # <<>>, NEW seg, seg = out[1], NEW s, Outcome(con, d, seg, s)
  PROVE  Calmly(con, d, seg, s)
<1>0. /\ None \notin Client /\ Sequence(out) /\ Outgoing(k, out) /\ <<con>>[1] = con
      /\ seg \in Range(out) /\ seg.ack \in Int
  <2>1. Sequence(out) /\ Outgoing(k, out)
    BY DEF Path, Typed
  <2>2. seg \in Range(out)
    BY <2>1, RangeTail
  <2> QED BY <2>1, <2>2, HttpdAssumption DEF Outgoing
<1>1. ~Opens(seg) => con.peer = d /\ con.status # "LISTEN"
  BY <1>0, ThereIs DEF Orderly, Live, Formed
<1>2. seg.flags # {"RST"}
  <2>1. 1 \in 1..Len(out)
    BY <1>0, Tailed
  <2> QED BY <2>1 DEF Orderly, EndsLast
<1>3. CASE seg.flags \in Acking /\ con.status = "LISTEN" /\ Notes(con, s, seg.ack)
  BY <1>1, <1>3 DEF Acking, Opens
<1>4. CASE seg.flags \in Acking /\ Replies(con, d, seg, s)
  <2>1. con.status # "LISTEN" /\ con.peer = d /\ ~Opens(seg) /\ Answers(con, seg, s)
    BY <1>4 DEF Acking, Opens, Replies
  <2>2. There(<<con>>, d) /\ Side(con, k, in)
    BY <1>0, <2>1, ThereIs DEF Path
  <2>3. Ends(seg) => con.status \notin Unended
    <3>1. Ends(seg) => k.st \in {"lastack", "done"}
      BY <1>0 DEF Outgoing, Parting, Orderly
    <3> QED BY <1>0, <2>2, <3>1 DEF Side, Orderly
  <2>4. /\ Calms(con, s)
        /\ s.closed \/ s.con.status = "CLOSED" => Ends(seg) /\ con.status \notin Unended
    BY <2>1, <2>3, AnswerCalm
  <2>5. Sound(con, s)
    BY <1>0, <2>1, AnswerSound
  <2>6. con.status \notin Unended => Finishing(con)
    BY <2>1 DEF ConOK, Status, Formed, CalmCon, Unended, Finishing
  <2> QED BY <2>1, <2>4, <2>5, <2>6 DEF Calmly
<1> QED BY <1>2, <1>3, <1>4 DEF Outcome, Calmly

LEMMA CalmReceive ==
  ASSUME NEW con, CalmCon(con), NEW d, NEW seg, NEW s, Calmly(con, d, seg, s), ~s.closed
  PROVE  CalmCon(s.con) /\ (Finishing(s.con) => Finishing(con))
<1>1. CASE Ignores(con, s)
  BY <1>1 DEF Ignores
<1>2. CASE Welcomes(con, d, s)
  <2>1. s.con.status = "SYNRECV" /\ s.con.send_queue = <<>> /\ Len(<<>>) = 0
    BY <1>2, EmptySequence DEF Welcomes
  <2> QED BY <2>1, RangeEmpty DEF CalmCon, Finishing
<1>3. CASE Sound(con, s) /\ Calms(con, s)
  BY <1>3 DEF Sound, Calms
<1> QED BY <1>1, <1>2, <1>3 DEF Calmly

LEMMA CeasesJoin ==
  ASSUME NEW in, Sequence(in), NEW t, Sequence(t), Ceases(in),
         \A j \in 1..Len(t) : Sized(t[j]) => j = 1 /\ \A x \in Range(in) : ~Ends(x)
  PROVE  Ceases(in \o t)
<1> DEFINE r == in \o t
<1>1. /\ Len(in) \in Nat /\ Len(t) \in Nat /\ Len(r) = Len(in) + Len(t)
      /\ \A j \in 1..Len(in) : r[j] = in[j]
  BY Joined
<1>2. \A j \in 1..Len(t) : r[Len(in) + j] = t[j]
  BY Joined
<1> HIDE DEF r
<1>3. ASSUME NEW j \in 1..Len(r), NEW l \in 1..Len(r), j < l, Ends(r[j]) PROVE ~Sized(r[l])
  <2>1. CASE l \in 1..Len(in)
    <3>1. j \in 1..Len(in)
      BY <1>1, <1>3, <2>1
    <3> QED BY <1>1, <1>3, <2>1, <3>1 DEF Ceases
  <2>2. CASE l \notin 1..Len(in)
    <3>1. l - Len(in) \in 1..Len(t) /\ Len(in) + (l - Len(in)) = l
      BY <1>1, <2>2
    <3>2. r[l] = t[l - Len(in)]
      BY <1>2, <3>1
    <3>3. CASE j \in 1..Len(in)
      <4>1. in[j] \in Range(in) /\ r[j] = in[j]
        BY <1>1, <3>3, RangeIs
      <4> QED BY <1>3, <3>1, <3>2, <4>1
    <3>4. CASE j \notin 1..Len(in)
      <4>1. l - Len(in) # 1
        BY <1>1, <1>3, <2>2, <3>4
      <4> QED BY <3>1, <3>2, <4>1
    <3> QED BY <3>3, <3>4
  <2> QED BY <2>1, <2>2
<1> QED BY <1>3 DEF Ceases, r

\* More comes from a connection that was con, and is x now.
LEMMA OrderlyMore ==
  ASSUME NEW con, NEW c, NEW k, NEW out, NEW in, NEW list, list # <<>>, list[1] = con, con.peer = c,
         Path(list, c, k, out, in), Orderly(list, c, k, out, in),
         NEW t, Sequence(t), \A j \in 1..Len(t) : Sized(t[j]) => j = 1 /\ con.status \in Unended
  PROVE  /\ Ceases(in \o t)
         /\ k.st \in {"closewait", "lastack", "done"} => \A x \in Range(in \o t) : ~Sized(x)
<1>1. Sequence(in) /\ Side(con, k, in)
  BY DEF Path, Typed, There
<1>2. con.status \in Unended => k.st \notin {"closewait", "lastack", "done"} /\ \A x \in Range(in) : ~Ends(x)
  BY <1>1 DEF Side, Orderly, There
<1>3. Ceases(in \o t)
  <2>1. Ceases(in)
    BY DEF Orderly
  <2> QED BY <1>1, <1>2, <2>1, CeasesJoin
<1>4. ASSUME k.st \in {"closewait", "lastack", "done"}, NEW x \in Range(in \o t) PROVE ~Sized(x)
  <2>1. x \in Range(in) \cup Range(t)
    BY <1>1, RangeJoin
  <2>2. CASE x \in Range(in)
    BY <1>4, <2>2 DEF Orderly
  <2>3. CASE x \in Range(t)
    <3>1. PICK j \in 1..Len(t) : x = t[j]
      BY <2>3, RangeIs
    <3> QED BY <1>2, <1>4, <3>1
  <2> QED BY <2>1, <2>2, <2>3
<1> QED BY <1>3, <1>4

LEMMA LastOut ==
  ASSUME NEW out, Sequence(out), out # <<>>, EndsLast(out)
  PROVE  EndsLast(Tail(out)) /\ (Ends(out[1]) => Tail(out) = <<>>)
<1> DEFINE r == Tail(out)
<1>1. /\ Len(out) \in Nat \ {0} /\ Len(r) = Len(out) - 1
      /\ \A j \in 1..Len(r) : r[j] = out[j + 1]
  BY Tailed
<1>2. /\ Ends(out[1]) => Tail(out) = <<>>
      /\ \A j \in 1..Len(r) : Ends(r[j]) => j = Len(r)
  BY LastTail DEF EndsLast
<1> HIDE DEF r
<1>3. ASSUME NEW j \in 1..Len(r) PROVE r[j].flags # {"RST"}
  <2>1. j + 1 \in 1..Len(out) /\ r[j] = out[j + 1]
    BY <1>1
  <2> QED BY <2>1 DEF EndsLast
<1> QED BY <1>2, <1>3 DEF EndsLast, r

LEMMA OrderlyReceive ==
  ASSUME NEW con, Formed(con), NEW d \in Client, NEW c \in Client,
         NEW k, NEW out, NEW in, Path(<<con>>, c, k, out, in), Orderly(<<con>>, c, k, out, in),
         NEW seg, c = d => out # <<>> /\ seg = out[1],
         NEW s, Calmly(con, d, seg, s)
  PROVE  Orderly(Left(s), c, k, Passed(c, d, out), Joins(c, s, in))
<1> DEFINE out2 == Passed(c, d, out)
           in2 == Joins(c, s, in)
<1>0. /\ None \notin Client /\ Sequence(out) /\ Sequence(in) /\ Outgoing(k, out)
      /\ <<con>>[1] = con /\ <<s.con>>[1] = s.con /\ <<con>> # <<>>
  BY HttpdAssumption DEF Path, Typed
<1>1. /\ Range(out2) \subseteq Range(out) /\ EndsLast(out2)
      /\ Live(k, out2) => Live(k, out)
      /\ c = d /\ Ends(seg) => out2 = <<>> /\ k.st \in Parting
  <2>1. EndsLast(out)
    BY DEF Orderly
  <2>2. Range(out2) \subseteq Range(out) /\ EndsLast(out2)
    BY <1>0, <2>1, RangeTail, LastOut DEF Passed
  <2>3. c = d /\ Ends(seg) => out2 = <<>>
    BY <1>0, <2>1, LastOut DEF Passed
  <2>4. c = d => seg \in Range(out)
    BY <1>0, RangeTail
  <2> HIDE DEF out2
  <2> QED BY <1>0, <2>2, <2>3, <2>4 DEF Live, Outgoing
<1> HIDE DEF out2, in2
<1>2. CASE Ignores(con, s)
  <2>1. in2 = in
    BY <1>0, <1>2, JoinsNone DEF Ignores, in2
  <2>2. Left(s) = <<con>>
    BY <1>2 DEF Ignores, Left
  <2> QED BY <1>1, <2>1, <2>2 DEF Orderly, out2, in2
<1>3. CASE con.status = "LISTEN" /\ Welcomes(con, d, s)
  <2>1. /\ con.peer = None /\ s.con.peer = d /\ s.con.status = "SYNRECV" /\ Left(s) = <<s.con>>
    BY <1>3 DEF Welcomes, Formed, Left
  <2>2. ~Live(k, out)
    BY <1>0, <2>1, ThereIs DEF Orderly
  <2>3. CASE c # d
    <3>1. in2 = in
      BY <2>1, <2>3 DEF in2, Joins
    <3> QED BY <1>1, <2>1, <2>2, <2>3, <3>1, ThereIs DEF Orderly, out2, in2
  <2>4. CASE c = d
    <3>1. Alone(k, out, in)
      BY <1>0, <2>1, ThereIs DEF Path
    <3>2. seg \in Range(out)
      BY <1>0, <2>4, RangeTail
    <3>3. Opens(seg)
      BY <2>2, <3>2 DEF Live
    <3>4. k.st \in Fresh /\ in = <<>>
      BY <3>1, <3>2, <3>3 DEF Alone
    <3>5. PICK x : s.sent = Append(<<>>, x)
      BY <1>3 DEF Welcomes
    <3>6. in2 = Append(<<>>, x)
      <4>1. in2 = <<>> \o <<x>> /\ <<>> \o <<x>> = <<x>> /\ Append(<<>>, x) = <<x>>
        BY <2>1, <2>4, <3>4, <3>5 DEF in2, Joins
      <4> QED BY <4>1
    <3>7. Len(in2) = 1
      BY <3>6, OneOf
    <3>8. Ceases(in2)
      BY <3>7 DEF Ceases
    <3>9. k.st \notin {"finwait", "reset", "done", "closewait", "lastack"}
      BY <3>4 DEF Fresh
    <3> QED BY <1>1, <2>2, <3>8, <3>9 DEF Orderly, out2, in2
  <2> QED BY <2>3, <2>4
<1>4. CASE /\ con.status # "LISTEN" /\ con.peer = d /\ ~Opens(seg)
           /\ Sound(con, s) /\ Calms(con, s)
           /\ s.closed => Ends(seg) /\ Finishing(con)
  <2>1. /\ s.con.peer = d /\ Sequence(s.sent)
        /\ s.con.status \in Unended => con.status \in Unended
    BY <1>4 DEF Sound, WorkOK
  <2>2. CASE c # d
    <3>1. in2 = in
      BY <2>1, <2>2 DEF in2, Joins
    <3>2. ~Live(k, out) /\ ~There(Left(s), c)
      BY <1>4, <2>1, <2>2, ThereIs DEF Orderly, Left
    <3> QED BY <1>1, <3>1, <3>2 DEF Orderly, out2, in2
  <2>3. CASE c = d
    <3>1. in2 = in \o s.sent
      BY <2>1, <2>3 DEF in2, Joins
    <3>2. \A j \in 1..Len(s.sent) : Sized(s.sent[j]) => j = 1 /\ con.status \in Unended
      BY <1>4 DEF Calms
    <3>3. /\ Ceases(in2)
          /\ k.st \in {"closewait", "lastack", "done"} => \A x \in Range(in2) : ~Sized(x)
      BY <1>0, <1>4, <2>1, <2>3, <3>1, <3>2, OrderlyMore
    <3>4. Live(k, out2) => There(Left(s), c)
      <4>1. CASE s.closed
        <5>1. out2 = <<>> /\ k.st \in Parting
          BY <1>1, <1>4, <2>3, <4>1
        <5> QED BY <5>1, RangeEmpty DEF Live, Parting
      <4>2. CASE ~s.closed
        BY <2>1, <2>3, <4>2, ThereIs DEF Left
      <4> QED BY <4>1, <4>2
    <3>5. There(Left(s), c) /\ Left(s)[1].status \in Unended => k.st # "done"
      <4>1. There(Left(s), c) => Left(s)[1] = s.con
        BY <1>0, ThereIs DEF Left
      <4>2. There(<<con>>, c)
        BY <1>4, <2>3, ThereIs
      <4> QED BY <1>0, <2>1, <4>1, <4>2 DEF Orderly
    <3> QED BY <1>1, <3>3, <3>4, <3>5 DEF Orderly, out2, in2
  <2> QED BY <2>2, <2>3
<1> QED BY <1>2, <1>3, <1>4 DEF Calmly

-----------------------------------------------------------------------------
(* The invariant for ReplyIntact and NeverWild.                            *)

\* The connection is the newest.
Newest == TCPCONLIST # <<>> => TCPCONLIST[1].number = number

\* The connections box tells of, after the one with number n, come in order.
Rising(box, n) ==
  \A k \in 1..Len(box) : box[k].cmd = "ESTAB" =>
    /\ box[k].number > n
    /\ \A j \in 1..Len(box) : j < k /\ box[j].cmd = "ESTAB" => box[j].number < box[k].number

\* Data is of a connection, and httpd has a buffer when it knows of one.
Marked == \A x \in Range(HTTPD) : x.cmd = "RECV" => x.number # 0
Pointed == httpd.p \in BOOLEAN /\ httpd.answered \in BOOLEAN /\ (~httpd.p => httpd.number = 0)

\* httpd is about to ask for the rest of the reply, the units from one on to the last.
Asked(n, p) == IF p = PIECES + 2 THEN call("CLOSE", n, <<>>) ELSE call("SEND", n, <<p - 1>>)
Rest(q, n) ==
  /\ Sequence(q) /\ Len(q) \in 1..(PIECES + 1)
  /\ \A k \in 1..Len(q) : q[k] = Asked(n, PIECES + 2 - Len(q) + k)
Asking == calls = <<send_accept>> \/ calls = <<>> \/ (httpd.answered /\ Rest(calls, httpd.number))

\* The unit connection n is asked to send next.
Expected(n) == IF httpd.number = n /\ httpd.answered THEN PIECES + 3 - Len(calls) ELSE 2

Exists(n) == TCPCONLIST # <<>> /\ TCPCONLIST[1].number = n

Order == Newest /\ Rising(HTTPD, httpd.number) /\ Marked /\ Pointed /\ Asking

\* Nothing of this has happened; no segment got to another one's connection.
Quiet == seen \cap {"left", "early", "second"} = {}
Straight == "stray" \notin seen \/ Quiet

Paths == Straight =>
  /\ TCPCONLIST # <<>> => Formed(TCPCONLIST[1])
  /\ \A c \in Client : Path(TCPCONLIST, c, client[c], net[c], wire[c])

Stream == seen \cap {"rewound", "second", "stray"} = {} =>
  /\ TCPCONLIST # <<>> => ConStream(TCPCONLIST[1], Expected(TCPCONLIST[1].number))
  /\ \A c \in Client : GotOK(client[c]) /\ \A x \in Range(wire[c]) : Fits(x, client[c].st)

\* The connection in the list is n.
Has(list, n) == list # <<>> /\ list[1].number = n

Serene(list, h, q) ==
  list # <<>> =>
    /\ CalmCon(list[1])
    /\ Finishing(list[1]) => h.number = list[1].number /\ h.answered /\ q = <<>>

\* What is not over is about the connection there is.
Mentions(list, box, h, q) ==
  /\ \A x \in Range(box) : x.cmd = "ESTAB" => Has(list, x.number)
  /\ h.number # 0 /\ ~h.answered => Has(list, h.number)
  /\ q # <<>> /\ q[1].cmd # "ACCEPT" => Has(list, h.number)

Calm == Quiet =>
  /\ ~wild
  /\ Serene(TCPCONLIST, httpd, calls)
  /\ Mentions(TCPCONLIST, HTTPD, httpd, calls)
  /\ \A c \in Client : Orderly(TCPCONLIST, c, client[c], net[c], wire[c])

JInv == Shape /\ Order /\ Paths /\ Stream /\ Calm

-----------------------------------------------------------------------------
(* The messages in the box.                                                *)

\* All connections box tells of have numbers below m.
Below(box, m) == \A k \in 1..Len(box) : box[k].cmd = "ESTAB" => box[k].number < m

LEMMA RisingMore ==
  ASSUME NEW box, NEW n, Rising(box, n), NEW more, Len(box) \in Nat, Len(more) \in Nat,
         \A k \in 1..Len(box) : more[k] = box[k],
         \A k \in 1..Len(more) : k \notin 1..Len(box) => more[k].cmd # "ESTAB"
  PROVE  Rising(more, n) /\ \A m : Below(box, m) => Below(more, m)
<1>1. \A k \in 1..Len(more) : more[k].cmd = "ESTAB" => k \in 1..Len(box) /\ more[k] = box[k]
  OBVIOUS
<1> QED BY <1>1 DEF Rising, Below

LEMMA RisingAppend ==
  ASSUME NEW box, Sequence(box), NEW n, Rising(box, n), NEW x,
         x.cmd = "ESTAB" => x.number > n /\ Below(box, x.number)
  PROVE  Rising(Append(box, x), n)
<1> DEFINE more == Append(box, x)
<1>1. /\ Len(box) \in Nat /\ Len(more) = Len(box) + 1
      /\ \A k \in 1..Len(box) : more[k] = box[k]
      /\ more[Len(box) + 1] = x
  BY Appended
<1> HIDE DEF more
<1>2. ASSUME NEW k \in 1..Len(more), more[k].cmd = "ESTAB"
      PROVE  /\ more[k].number > n
             /\ \A j \in 1..Len(more) : j < k /\ more[j].cmd = "ESTAB" => more[j].number < more[k].number
  <2>1. \A j \in 1..Len(more) : j < k => j \in 1..Len(box) /\ more[j] = box[j]
    BY <1>1
  <2>2. CASE k \in 1..Len(box)
    BY <1>1, <1>2, <2>1, <2>2 DEF Rising
  <2>3. CASE k \notin 1..Len(box)
    <3>1. more[k] = x
      BY <1>1, <2>3
    <3> QED BY <1>2, <2>1, <3>1 DEF Below
  <2> QED BY <2>2, <2>3
<1> QED BY <1>2 DEF Rising, more

LEMMA RisingTail ==
  ASSUME NEW box, Sequence(box), box # <<>>, NEW n, Rising(box, n)
  PROVE  /\ Rising(Tail(box), n)
         /\ box[1].cmd = "ESTAB" => Rising(Tail(box), box[1].number) /\ box[1].number > n
<1> DEFINE rest == Tail(box)
<1>1. /\ Len(box) \in Nat \ {0} /\ Len(rest) = Len(box) - 1
      /\ \A k \in 1..Len(rest) : rest[k] = box[k + 1]
  BY Tailed
<1> HIDE DEF rest
<1>2. ASSUME NEW k \in 1..Len(rest), rest[k].cmd = "ESTAB"
      PROVE  /\ rest[k].number > n
             /\ \A j \in 1..Len(rest) : j < k /\ rest[j].cmd = "ESTAB" => rest[j].number < rest[k].number
             /\ box[1].cmd = "ESTAB" => box[1].number < rest[k].number
  <2>1. 1 \in 1..Len(box) /\ 1 < k + 1 /\ k + 1 \in 1..Len(box) /\ rest[k] = box[k + 1]
    BY <1>1
  <2>2. \A j \in 1..Len(rest) : j < k => j + 1 \in 1..Len(box) /\ j + 1 < k + 1 /\ rest[j] = box[j + 1]
    BY <1>1
  <2> QED BY <1>2, <2>1, <2>2 DEF Rising
<1>3. 1 \in 1..Len(box)
  BY <1>1
<1> QED BY <1>2, <1>3 DEF Rising, rest

\* The elements that come with the work of a handler.
Telling(s) ==
  Range(s.told) \cup (IF s.opened THEN {signal(s, "ESTAB")} ELSE {})
                \cup (IF s.closed THEN {signal(s, "CLOSE")} ELSE {})

LEMMA TellingIs ==
  ASSUME NEW box, Sequence(box), NEW con, NEW s, Receives(con, s)
  PROVE  /\ Sequence(box \o Told(s)) /\ Range(box \o Told(s)) = Range(box) \cup Telling(s)
         /\ \A x \in Range(s.told) : x.cmd = "RECV" /\ x.number = con.number
<1> DEFINE b1 == box \o s.told
           b2 == Opening(b1, s)
           b3 == Closing(b2, s)
<1>1. Sequence(s.told) /\ DataOf(s.told, con.number) /\ s.opened \in BOOLEAN /\ s.closed \in BOOLEAN
  BY DEF Receives, WorkOK
<1>2. box \o Told(s) = b3
  BY <1>1, ToldIs
<1>3. Sequence(b1) /\ Range(b1) = Range(box) \cup Range(s.told)
  BY <1>1, RangeJoin
<1> HIDE DEF b1
<1>4. /\ Sequence(b2)
      /\ Range(b2) = Range(b1) \cup (IF s.opened THEN {signal(s, "ESTAB")} ELSE {})
  BY <1>3, RangeAppend DEF Opening
<1> HIDE DEF b2
<1>5. /\ Sequence(b3)
      /\ Range(b3) = Range(b2) \cup (IF s.closed THEN {signal(s, "CLOSE")} ELSE {})
  BY <1>4, RangeAppend DEF Closing
<1> HIDE DEF b3
<1>6. \A x \in Range(s.told) : x.cmd = "RECV" /\ x.number = con.number
  BY <1>1, RangeIs DEF DataOf
<1> QED BY <1>2, <1>3, <1>4, <1>5, <1>6 DEF Telling

LEMMA RisingTold ==
  ASSUME NEW box, Sequence(box), NEW n, Rising(box, n), NEW con, NEW s, Receives(con, s),
         s.opened => con.number > n /\ Below(box, con.number)
  PROVE  Rising(box \o Told(s), n)
<1> DEFINE b1 == box \o s.told
           b2 == Opening(b1, s)
           b3 == Closing(b2, s)
           m == con.number
<1>1. /\ Sequence(s.told) /\ DataOf(s.told, m) /\ s.opened \in BOOLEAN /\ s.closed \in BOOLEAN
      /\ s.con.number = m
  BY DEF Receives, WorkOK
<1>2. box \o Told(s) = b3
  BY <1>1, ToldIs
<1>3. /\ Sequence(b1) /\ Len(box) \in Nat /\ Len(s.told) \in Nat /\ Len(b1) = Len(box) + Len(s.told)
      /\ \A k \in 1..Len(box) : b1[k] = box[k]
      /\ \A k \in 1..Len(s.told) : b1[Len(box) + k] = s.told[k]
  <2>1. PICK t : t = s.told
    OBVIOUS
  <2>0. Sequence(t)
    BY <1>1, <2>1
  <2>2. Sequence(box \o t) /\ Len(box) \in Nat /\ Len(t) \in Nat /\ Len(box \o t) = Len(box) + Len(t)
    BY <2>0, Joined
  <2>3. \A k \in 1..Len(box) : (box \o t)[k] = box[k]
    BY <2>0, Joined
  <2>4. \A k \in 1..Len(t) : (box \o t)[Len(box) + k] = t[k]
    BY <2>0, Joined
  <2> QED BY <2>1, <2>2, <2>3, <2>4
<1> HIDE DEF b1, m
<1>5. ASSUME NEW k \in 1..Len(b1), k \notin 1..Len(box) PROVE b1[k].cmd # "ESTAB"
  <2>1. k - Len(box) \in 1..Len(s.told) /\ Len(box) + (k - Len(box)) = k
    BY <1>3, <1>5
  <2>2. b1[k] = s.told[k - Len(box)]
    BY <1>3, <2>1
  <2>3. b1[k].cmd = "RECV"
    BY <1>1, <2>1, <2>2 DEF DataOf
  <2> QED BY <2>3
<1>6. Len(b1) \in Nat
  BY <1>3
<1>7. Rising(b1, n) /\ (Below(box, m) => Below(b1, m))
  BY <1>3, <1>5, <1>6, RisingMore
<1>8. Sequence(b2) /\ Rising(b2, n)
  <2> DEFINE x == signal(s, "ESTAB")
  <2>1. x.number = m
    BY <1>1 DEF signal
  <2>2. b2 = IF s.opened THEN Append(b1, x) ELSE b1
    BY DEF Opening
  <2> HIDE DEF x, b2
  <2>3. CASE s.opened
    <3>1. m > n /\ Below(b1, m)
      BY <1>7, <2>3 DEF m
    <3>2. Rising(Append(b1, x), n) /\ Sequence(Append(b1, x))
      BY <1>3, <1>7, <2>1, <3>1, RisingAppend, RangeAppend
    <3> QED BY <2>2, <2>3, <3>2
  <2>4. CASE ~s.opened
    BY <1>3, <1>7, <2>2, <2>4
  <2> QED BY <2>3, <2>4
<1> HIDE DEF b2
<1>9. Rising(b3, n)
  <2> DEFINE y == signal(s, "CLOSE")
  <2>1. y.cmd # "ESTAB"
    BY DEF signal
  <2>2. b3 = IF s.closed THEN Append(b2, y) ELSE b2
    BY DEF Closing
  <2> HIDE DEF y, b3
  <2>3. CASE s.closed
    BY <1>8, <2>1, <2>2, <2>3, RisingAppend
  <2>4. CASE ~s.closed
    BY <1>8, <2>2, <2>4
  <2> QED BY <2>3, <2>4
<1> QED BY <1>2, <1>9

-----------------------------------------------------------------------------
(* What the TCP task does, with the one connection there is.               *)

\* Segment seg of client c is taken by con, and s is what it comes to.
Received(con, c, seg, s) ==
  /\ s \in tcp_recv(con, c, seg, seen)
  /\ Receives(con, s) /\ seen \subseteq s.seen /\ s.seen \subseteq seen'
  /\ TCPCONLIST' = Left(s) /\ number' = number
  /\ HTTPD' = HTTPD \o Told(s)
  /\ s.opened /\ s.told # <<>> => "early" \in seen'
  /\ Stray(con, c, seg) => "stray" \in seen'
  /\ DOMAIN wire' = Client
  /\ \A x \in Client : Sequence(wire[x]) => wire'[x] = Joins(x, s, wire[x])

LEMMA IPRECVIs ==
  ASSUME IInv, Shape, NEW c \in Client, TCP_CMD_IPRECV(c), TCPCONLIST # <<>>
  PROVE  \E s : Received(TCPCONLIST[1], c, Head(net[c]), s)
<1> DEFINE con == TCPCONLIST[1]
           seg == Head(net[c])
<1>1. TCPCONLIST = <<con>> /\ Known(con)
  BY DEF IInv, Server
<1>2. Found(c) = 1
  <2>0. Len(TCPCONLIST) = 1
    BY <1>1, OneCon
  <2>1. 1..Len(TCPCONLIST) = {1}
    BY <2>0
  <2>2. Opened(c) = {} \/ Opened(c) = {1}
    BY <2>1 DEF Opened
  <2>3. (IF Opened(c) = {} THEN 1..Len(TCPCONLIST) ELSE Opened(c)) = {1}
    BY <2>1, <2>2
  <2> QED BY <2>3 DEF Found
<1>3. PICK s \in tcp_recv(TCPCONLIST[Found(c)], c, seg, seen) :
        /\ Done(Found(c), s)
        /\ HTTPD' = HTTPD \o Told(s)
        /\ wire' = IF s.sent = <<>> THEN wire ELSE [wire EXCEPT ![s.con.peer] = @ \o s.sent]
        /\ s.seen \subseteq seen'
        /\ s.opened /\ s.told # <<>> => "early" \in seen'
        /\ Stray(TCPCONLIST[Found(c)], c, seg) => "stray" \in seen'
  BY DEF TCP_CMD_IPRECV
<1>4. /\ s \in tcp_recv(con, c, seg, seen) /\ Done(1, s)
      /\ Stray(con, c, seg) => "stray" \in seen'
  BY <1>2, <1>3
<1> HIDE DEF con, seg
<1>5. Receives(con, s) /\ seen \subseteq s.seen
  BY <1>1, <1>4, RecvStep DEF Known
<1>6. number' = number /\ TCPCONLIST' = Left(s)
  BY <1>1, <1>4, OneCon DEF Done, Left
<1>7. DOMAIN wire' = Client
  BY <1>3 DEF Shape
<1>8. ASSUME NEW x \in Client, Sequence(wire[x]) PROVE wire'[x] = Joins(x, s, wire[x])
  <2>1. CASE s.sent = <<>>
    BY <1>3, <1>8, <2>1, JoinsNone
  <2>2. CASE s.sent # <<>>
    <3>1. wire' = [wire EXCEPT ![s.con.peer] = wire[s.con.peer] \o s.sent]
      BY <1>3, <2>2
    <3> QED BY <3>1 DEF Shape, Joins
  <2> QED BY <2>1, <2>2
<1>9. Received(con, c, seg, s)
  BY <1>3, <1>4, <1>5, <1>6, <1>7, <1>8 DEF Received
<1> QED BY <1>9 DEF con, seg

LEMMA PassedIs ==
  ASSUME Shape, NEW c \in Client, TCP_CMD_IPRECV(c)
  PROVE  /\ DOMAIN net' = Client /\ net[c] # <<>>
         /\ \A x \in Client : net'[x] = Passed(x, c, net[x])
         /\ UNCHANGED <<calls, httpd, wild, client>>
<1>1. /\ net[c] # <<>> /\ net' = [net EXCEPT ![c] = Tail(net[c])]
      /\ UNCHANGED <<calls, httpd, wild, client>>
  BY DEF TCP_CMD_IPRECV
<1> QED BY <1>1 DEF Shape, Passed

-----------------------------------------------------------------------------
(* A request of httpd other than for a connection.                         *)

\* The packet pkt is put into the queue of con, and s is what it comes to.
Starts(b, con) == WorkOK(b) /\ b.con = con /\ b.sent = <<>> /\ b.closed = FALSE /\ b.opened = FALSE
Enqueued(con, pkt, s) ==
  LET b == Begin(con, seen)
  IN /\ Starts(b, con) /\ b.seen = seen
     /\ Leads(b, s) /\ Silent(b, s)
     /\ Flushes(b, s, Append(con.send_queue, pkt))

\* One request is served, by the connection of httpd if there is one.
Serves(e) ==
  /\ httpd.answered /\ Rest(calls, httpd.number)
  /\ e = Expected(httpd.number) /\ e \in 2..(PIECES + 2)
  /\ Head(calls).number = httpd.number
  /\ calls' = Tail(calls)
  /\ \/ ~Exists(httpd.number) /\ UNCHANGED <<TCPCONLIST, number, seen, wire>>
     \/ /\ Exists(httpd.number) /\ UNCHANGED <<number, wild>>
        /\ TCPCONLIST = <<TCPCONLIST[1]>> /\ Known(TCPCONLIST[1])
        /\ \E s : /\ Enqueued(TCPCONLIST[1], Piece(e), s)
                  /\ TCPCONLIST' = <<s.con>> /\ seen' = s.seen
                  /\ DOMAIN wire' = Client
                  /\ \A x \in Client : wire'[x] = Joins(x, s, wire[x])

LEMMA RestIs ==
  ASSUME NEW q, NEW n, Rest(q, n)
  PROVE  LET e == PIECES + 3 - Len(q)
         IN /\ e \in 2..(PIECES + 2) /\ q # <<>> /\ Head(q) = Asked(n, e)
            /\ Sequence(Tail(q)) /\ Len(Tail(q)) = Len(q) - 1
            /\ IF e = PIECES + 2 THEN Tail(q) = <<>> ELSE Rest(Tail(q), n)
<1> DEFINE e == PIECES + 3 - Len(q)
           r == Tail(q)
<1>0. PIECES \in Nat /\ Sequence(q) /\ Len(q) \in 1..(PIECES + 1)
  BY HttpdAssumption DEF Rest
<1>1. q # <<>> /\ 1 \in 1..Len(q)
  BY <1>0, EmptySequence
<1>2. /\ Sequence(r) /\ Len(r) = Len(q) - 1 /\ Head(q) = q[1]
      /\ \A k \in 1..Len(r) : r[k] = q[k + 1]
  BY <1>0, <1>1, Tailed
<1>3. e \in 2..(PIECES + 2) /\ PIECES + 2 - Len(q) + 1 = e
  BY <1>0
<1>4. Head(q) = Asked(n, e)
  <2> DEFINE i == PIECES + 2 - Len(q) + 1
  <2>1. q[1] = Asked(n, i)
    BY <1>1 DEF Rest
  <2>2. i = e
    BY <1>3
  <2> HIDE DEF e, i
  <2> QED BY <1>2, <2>1, <2>2
<1>5. CASE e = PIECES + 2
  <2>1. Len(r) = 0
    <3>1. Len(r) = Len(q) - 1 /\ Len(q) \in Int /\ PIECES \in Int
      BY <1>0, <1>2
    <3> HIDE DEF r
    <3> QED BY <1>5, <3>1
  <2>2. PICK S : r \in Seq(S)
    BY <1>2 DEF Sequence
  <2>3. r = <<>>
    BY <2>1, <2>2, EmptySeq
  <2> QED BY <1>1, <1>2, <1>3, <1>4, <1>5, <2>3
<1>6. CASE e # PIECES + 2
  <2>1. Len(r) \in 1..(PIECES + 1)
    BY <1>0, <1>2, <1>6
  <2>2. ASSUME NEW k \in 1..Len(r) PROVE r[k] = Asked(n, PIECES + 2 - Len(r) + k)
    <3> DEFINE i == PIECES + 2 - Len(q) + (k + 1)
               j == PIECES + 2 - Len(r) + k
    <3>1. k + 1 \in 1..Len(q) /\ i = j
      <4>1. Len(r) = Len(q) - 1 /\ Len(q) \in Int /\ PIECES \in Int
        BY <1>0, <1>2
      <4> HIDE DEF r
      <4> QED BY <4>1
    <3>2. r[k] = q[k + 1]
      BY <1>2
    <3>3. q[k + 1] = Asked(n, i)
      BY <3>1 DEF Rest
    <3> HIDE DEF i, j, r
    <3> QED BY <3>1, <3>2, <3>3 DEF j
  <2>3. Rest(r, n)
    BY <1>2, <2>1, <2>2 DEF Rest
  <2> QED BY <1>1, <1>2, <1>3, <1>4, <1>6, <2>3
<1> QED BY <1>5, <1>6
\* The two kinds of request.
Requested(cmd, flags) ==
  \/ cmd = "SEND" /\ flags = {"PSH", "ACK"}
  \/ cmd = "CLOSE" /\ flags = {"FIN", "ACK"}

LEMMA AskedIs ==
  ASSUME NEW n, NEW e, NEW cmd, NEW flags, Requested(cmd, flags), Asked(n, e).cmd = cmd
  PROVE  Asked(n, e).number = n /\ [flags |-> flags, data |-> Asked(n, e).data] = Piece(e)
<1>1. CASE e = PIECES + 2
  <2>1. Asked(n, e) = call("CLOSE", n, <<>>) /\ Piece(e) = [flags |-> {"FIN", "ACK"}, data |-> <<>>]
    BY <1>1 DEF Asked, Piece
  <2>2. Asked(n, e).cmd = "CLOSE" /\ Asked(n, e).number = n /\ Asked(n, e).data = <<>>
    BY <2>1 DEF call
  <2>3. flags = {"FIN", "ACK"}
    BY <2>2 DEF Requested
  <2> QED BY <2>1, <2>2, <2>3
<1>2. CASE e # PIECES + 2
  <2>1. Asked(n, e) = call("SEND", n, <<e - 1>>) /\ Piece(e) = [flags |-> {"PSH", "ACK"}, data |-> <<e - 1>>]
    BY <1>2 DEF Asked, Piece
  <2>2. Asked(n, e).cmd = "SEND" /\ Asked(n, e).number = n /\ Asked(n, e).data = <<e - 1>>
    BY <2>1 DEF call
  <2>3. flags = {"PSH", "ACK"}
    BY <2>2 DEF Requested
  <2> QED BY <2>1, <2>2, <2>3
<1> QED BY <1>1, <1>2

LEMMA BeginIs ==
  ASSUME NEW con, ConOK(con), NEW seen0
  PROVE  Starts(Begin(con, seen0), con) /\ Begin(con, seen0).seen = seen0
<1> DEFINE b == Begin(con, seen0)
<1>1. /\ DOMAIN b = {"con", "sent", "told", "opened", "closed", "seen"}
      /\ b.con = con /\ b.sent = <<>> /\ b.told = <<>> /\ b.opened = FALSE /\ b.closed = FALSE
      /\ b.seen = seen0
  BY DEF Begin
<1> HIDE DEF b
<1>2. WorkOK(b)
  BY <1>1, EmptySequence DEF WorkOK
<1> QED BY <1>1, <1>2 DEF b, Starts

LEMMA CMDIs ==
  ASSUME IInv, Order, Shape, NEW cmd, NEW flags, Requested(cmd, flags), TCP_CMD(cmd, flags)
  PROVE  (\E e : Serves(e)) /\ UNCHANGED <<HTTPD, httpd, net, client>>
<1> DEFINE con == TCPCONLIST[1]
           h == httpd.number
           e == PIECES + 3 - Len(calls)
           pkt == [flags |-> flags, data |-> Head(calls).data]
<1>1. /\ calls # <<>> /\ Head(calls).cmd = cmd /\ calls' = Tail(calls)
      /\ UNCHANGED <<HTTPD, httpd, net, client>>
  BY DEF TCP_CMD
<1>2. httpd.answered /\ Rest(calls, h)
  <2>1. calls # <<send_accept>>
    <3>1. Head(<<send_accept>>) = send_accept /\ send_accept.cmd = "ACCEPT"
      BY DEF send_accept, call
    <3>2. cmd # "ACCEPT"
      BY DEF Requested
    <3> QED BY <1>1, <3>1, <3>2
  <2> QED BY <1>1, <2>1 DEF Order, Asking
<1>3. e \in 2..(PIECES + 2) /\ Head(calls) = Asked(h, e) /\ e = Expected(h)
  <2>1. e \in 2..(PIECES + 2) /\ Head(calls) = Asked(h, e)
    BY <1>2, RestIs
  <2> QED BY <1>2, <2>1 DEF Expected
<1>4. Head(calls).number = h /\ pkt = Piece(e)
  BY <1>1, <1>3, AskedIs
<1>5. TCPCONLIST # <<>> => TCPCONLIST = <<con>> /\ Known(con)
  BY DEF IInv, Server
<1> HIDE DEF e
<1>6. CASE Numbered(h) = {}
  <2>1. UNCHANGED <<TCPCONLIST, number, seen, wire>>
    BY <1>4, <1>6 DEF TCP_CMD, conVars
  <2>2. ~Exists(h)
    <3> SUFFICES ASSUME Exists(h) PROVE FALSE
      OBVIOUS
    <3>1. Len(TCPCONLIST) = 1 /\ TCPCONLIST[1].number = h
      BY <1>5, OneCon DEF Exists
    <3>2. 1 \in Numbered(h)
      BY <3>1 DEF Numbered
    <3> QED BY <1>6, <3>2
  <2>3. Serves(e)
    BY <1>1, <1>2, <1>3, <1>4, <2>1, <2>2 DEF Serves
  <2> QED BY <1>1, <2>3
<1>7. CASE Numbered(h) # {}
  <2>1. PICK k \in Numbered(h) :
          \E s \in {tcp_send_enqueue(Begin(TCPCONLIST[k], seen), flags, Head(calls).data)} :
            /\ Done(k, s)
            /\ wire' = [wire EXCEPT ![s.con.peer] = @ \o s.sent]
            /\ seen' = s.seen
            /\ UNCHANGED wild
    BY <1>4, <1>7 DEF TCP_CMD
  <2>2. k \in 1..Len(TCPCONLIST) /\ TCPCONLIST[k].number = h
    BY <2>1 DEF Numbered
  <2>3. TCPCONLIST # <<>>
    BY <2>2
  <2>4. TCPCONLIST = <<con>> /\ Known(con) /\ Len(TCPCONLIST) = 1
    BY <1>5, <2>3, OneCon
  <2>5. k = 1
    BY <2>2, <2>4
  <2>6. PICK s : /\ s = tcp_send_enqueue(Begin(TCPCONLIST[k], seen), flags, Head(calls).data)
                 /\ Done(k, s)
                 /\ wire' = [wire EXCEPT ![s.con.peer] = wire[s.con.peer] \o s.sent]
                 /\ seen' = s.seen
                 /\ UNCHANGED wild
    BY <2>1
  <2>7. /\ s = tcp_send_enqueue(Begin(con, seen), flags, Head(calls).data) /\ Done(1, s) /\ con.number = h
    BY <2>2, <2>5, <2>6
  <2> HIDE DEF con
  <2>8. ConOK(con)
    BY <2>4 DEF Known
  <2>9. Enqueued(con, Piece(e), s)
    <3> DEFINE b == Begin(con, seen)
    <3>1. Starts(b, con) /\ b.seen = seen
      BY <2>8, BeginIs
    <3>2. /\ Leads(b, s) /\ Silent(b, s)
          /\ Flushes(b, s, Append(b.con.send_queue, pkt))
      <4> HIDE DEF b
      <4>1. s = tcp_send_enqueue(b, flags, Head(calls).data)
        BY <2>7 DEF b
      <4> QED BY <3>1, <4>1, SendEnqueue DEF Starts
    <3> HIDE DEF b, pkt
    <3>3. Enqueued(con, pkt, s)
      BY <3>1, <3>2 DEF Enqueued, Starts, b
    <3> QED BY <1>4, <3>3
  <2>10. s.closed = FALSE
    BY <2>9 DEF Enqueued, Silent, Starts
  <2>11. TCPCONLIST' = <<s.con>> /\ number' = number
    BY <2>4, <2>7, <2>10, OneCon DEF Done
  <2>12. DOMAIN wire' = Client /\ \A x \in Client : wire'[x] = Joins(x, s, wire[x])
    BY <2>6 DEF Shape, Joins
  <2>13. Exists(h) /\ TCPCONLIST[1] = con
    BY <2>3, <2>7 DEF Exists, con
  <2>14. Serves(e)
    BY <1>1, <1>2, <1>3, <1>4, <2>4, <2>6, <2>9, <2>11, <2>12, <2>13 DEF Serves
  <2> QED BY <1>1, <2>14
<1> QED BY <1>6, <1>7

-----------------------------------------------------------------------------
(* httpd takes data.                                                       *)

LEMMA ParseRest ==
  ASSUME NEW line
  PROVE  parse(line) = <<>> \/ (Rest(parse(line), httpd.number) /\ Len(parse(line)) = PIECES + 1)
<1> DEFINE n == httpd.number
           q == [k \in 1..PIECES |-> call("SEND", n, <<k>>)]
           x == call("CLOSE", n, <<>>)
           all == Append(q, x)
<1>0. PIECES \in Nat
  BY HttpdAssumption
<1>1. q \in Seq(Range(q)) /\ Len(q) = PIECES
  <2>1. DOMAIN q = 1..PIECES /\ \A k \in 1..PIECES : q[k] \in Range(q)
    BY DEF Range
  <2> DEFINE R == Range(q)
  <2>2. q \in [1..PIECES -> R]
    BY <2>1
  <2> HIDE DEF R, q
  <2>3. q \in Seq(R)
    BY <1>0, <2>2, IsASeq
  <2>4. Len(q) = PIECES
    BY <1>0, <2>1, <2>3, LenProperties
  <2> QED BY <2>3, <2>4 DEF R
<1>2. \A k \in 1..PIECES : q[k] = Asked(n, k + 1)
  <2> SUFFICES ASSUME NEW k \in 1..PIECES PROVE call("SEND", n, <<k>>) = Asked(n, k + 1)
    OBVIOUS
  <2>1. k + 1 # PIECES + 2 /\ k + 1 - 1 = k
    BY <1>0
  <2> QED BY <2>1 DEF Asked
<1>3. x = Asked(n, PIECES + 2)
  BY DEF Asked
<1>4. parse(line) = all \/ parse(line) = <<>>
  <2>1. parse(line) = q \o <<x>> \/ parse(line) = <<>>
    BY DEF parse
  <2>2. q \o <<x>> = Append(q, x)
    <3>1. q \in Seq(Range(q) \cup {x}) /\ x \in Range(q) \cup {x}
      BY <1>1
    <3> HIDE DEF q, x
    <3> QED BY <3>1, AppendIsConcat
  <2> QED BY <2>1, <2>2
<1> HIDE DEF q, x
<1>5. Sequence(q)
  BY <1>1 DEF Sequence
<1>6. /\ Sequence(all) /\ Len(all) = PIECES + 1
      /\ \A k \in 1..PIECES : all[k] = q[k]
      /\ all[PIECES + 1] = x
  BY <1>1, <1>5, Appended
<1> HIDE DEF all
<1>7. ASSUME NEW k \in 1..Len(all) PROVE all[k] = Asked(n, PIECES + 2 - Len(all) + k)
  <2>1. PICK i : i = PIECES + 2 - Len(all) + k
    OBVIOUS
  <2>2. i = k + 1
    BY <1>0, <1>6, <2>1
  <2>3. CASE k \in 1..PIECES
    <3>1. all[k] = Asked(n, k + 1)
      BY <1>2, <1>6, <2>3
    <3> QED BY <2>1, <2>2, <3>1
  <2>4. CASE k = PIECES + 1
    <3>1. k + 1 = PIECES + 2
      BY <1>0, <2>4
    <3>2. all[k] = Asked(n, k + 1)
      BY <1>3, <1>6, <2>4, <3>1
    <3> QED BY <2>1, <2>2, <3>2
  <2> QED BY <1>0, <1>6, <2>3, <2>4
<1>8. Rest(all, n)
  <2>1. Len(all) \in 1..(PIECES + 1)
    BY <1>0, <1>6
  <2> QED BY <1>6, <1>7, <2>1 DEF Rest
<1> QED BY <1>4, <1>6, <1>8

\* Nothing is asked for, or a whole reply.
Asks ==
  \/ calls' = <<>> /\ httpd'.answered = httpd.answered /\ seen' = seen
  \/ /\ Rest(calls', httpd.number) /\ Len(calls') = PIECES + 1 /\ calls' # <<>>
     /\ httpd'.answered = TRUE
     /\ seen \subseteq seen' /\ (httpd.answered => "second" \in seen')
     /\ seen' \subseteq seen \cup {"second"}

Reads ==
  /\ HTTPD # <<>> /\ Head(HTTPD).cmd = "RECV" /\ HTTPD' = Tail(HTTPD) /\ calls = <<>>
  /\ UNCHANGED <<TCPCONLIST, number, net, wire, client>>
  /\ httpd'.number = httpd.number /\ httpd'.p = httpd.p
  /\ \/ ~httpd.p /\ UNCHANGED <<httpd, calls, seen>>
     \/ httpd.p /\ UNCHANGED wild /\ Asks

LEMMA RECVIs ==
  ASSUME IInv, Order, TCP_CMD_RECV
  PROVE  Reads
<1>0. DOMAIN httpd = {"number", "p", "buffer", "answered"} /\ httpd.answered \in BOOLEAN
  BY DEF IInv, Numbers, Order, Pointed
<1>1. /\ HTTPD # <<>> /\ Head(HTTPD).cmd = "RECV" /\ HTTPD' = Tail(HTTPD) /\ calls = <<>>
      /\ UNCHANGED <<TCPCONLIST, number, net, wire, client>>
  BY DEF TCP_CMD_RECV, kz_recv, conVars
<1>2. CASE ~httpd.p /\ UNCHANGED <<httpd, calls, seen>>
  BY <1>1, <1>2 DEF Reads
<1>3. ASSUME httpd.p, UNCHANGED <<wild, calls, seen>>, NEW text, httpd' = [httpd EXCEPT !.buffer = text]
      PROVE  Reads
  <2>1. httpd'.number = httpd.number /\ httpd'.p = httpd.p /\ httpd'.answered = httpd.answered
    BY <1>0, <1>3
  <2> QED BY <1>1, <1>3, <2>1 DEF Reads, Asks
<1>4. ASSUME httpd.p, UNCHANGED wild, NEW line, NEW text,
             calls' = parse(line),
             httpd' = [httpd EXCEPT !.buffer = text, !.answered = httpd.answered \/ calls' # <<>>],
             seen' = seen \cup (IF httpd.answered /\ calls' # <<>> THEN {"second"} ELSE {})
      PROVE  Reads
  <2>1. /\ httpd'.number = httpd.number /\ httpd'.p = httpd.p
        /\ httpd'.answered = (httpd.answered \/ calls' # <<>>)
    BY <1>0, <1>4
  <2>2. CASE calls' = <<>>
    <3>1. httpd'.answered = httpd.answered
      BY <1>0, <2>1, <2>2
    <3> QED BY <1>1, <1>4, <2>1, <2>2, <3>1 DEF Reads, Asks
  <2>3. CASE calls' # <<>>
    <3>1. Rest(calls', httpd.number) /\ Len(calls') = PIECES + 1
      BY <1>4, <2>3, ParseRest
    <3>2. httpd'.answered = TRUE
      BY <1>0, <2>1, <2>3
    <3>3. Asks
      BY <1>4, <2>3, <3>1, <3>2 DEF Asks
    <3> QED BY <1>1, <1>4, <2>1, <3>3 DEF Reads
  <2> QED BY <2>2, <2>3
<1>5. \/ ~httpd.p /\ UNCHANGED <<httpd, calls, seen>>
      \/ httpd.p /\ UNCHANGED wild /\ UNCHANGED <<calls, seen>> /\ \E text : httpd' = [httpd EXCEPT !.buffer = text]
      \/ /\ httpd.p /\ UNCHANGED wild
         /\ \E line, text :
              /\ calls' = parse(line)
              /\ httpd' = [httpd EXCEPT !.buffer = text, !.answered = httpd.answered \/ calls' # <<>>]
              /\ seen' = seen \cup (IF httpd.answered /\ calls' # <<>> THEN {"second"} ELSE {})
  BY DEF TCP_CMD_RECV
<1> QED BY <1>2, <1>3, <1>4, <1>5

-----------------------------------------------------------------------------
(* Order.                                                                  *)

LEMMA AcceptIs ==
  ASSUME IInv, Order, accept
  PROVE  /\ TCPCONLIST = <<>> /\ TCPCONLIST' = <<Listening>> /\ number' = number + 1
         /\ calls = <<send_accept>> /\ calls' = <<>>
         /\ UNCHANGED <<HTTPD, httpd, wild, net, wire, client, seen>>
<1>1. /\ calls # <<>> /\ Head(calls).cmd = "ACCEPT" /\ calls' = Tail(calls)
      /\ TCPCONLIST' = <<Listening>> \o TCPCONLIST /\ number' = number + 1
      /\ UNCHANGED <<HTTPD, httpd, wild, net, wire, client, seen>>
  BY DEF accept, TCP_CMD_ACCEPT
<1>2. calls = <<send_accept>>
  <2>1. ASSUME Rest(calls, httpd.number) PROVE FALSE
    <3>1. PICK n, e : Head(calls) = Asked(n, e)
      BY <2>1, RestIs
    <3>2. Asked(n, e).cmd # "ACCEPT"
      BY DEF Asked, call
    <3> QED BY <1>1, <3>1, <3>2
  <2> QED BY <1>1, <2>1 DEF Order, Asking
<1>3. calls' = <<>>
  BY <1>1, <1>2
<1>4. TCPCONLIST = <<>>
  <2>1. CASE TCPCONLIST # <<>>
    <3>1. TCPCONLIST = <<TCPCONLIST[1]>>
      BY <2>1 DEF IInv, Server
    <3>2. Len(TCPCONLIST) = 1
      BY <3>1, OneCon
    <3>3. calls = Append(<<>>, send_accept) /\ Sequence(<<>>) /\ One(send_accept, "ACCEPT") = 1
      BY <1>2, EmptySequence DEF One, send_accept, call
    <3>4. Count(calls, "ACCEPT") = Count(<<>>, "ACCEPT") + One(send_accept, "ACCEPT")
      BY <3>3, CountAppend
    <3>5. Count(calls, "ACCEPT") = 1
      BY <3>3, <3>4, CountEmpty
    <3>6. Len(HTTPD) \in Nat
      BY Appended DEF IInv, Numbers, Boxed
    <3>7. Count(HTTPD, "CLOSE") \in Nat
      BY <3>6, CountType
    <3> QED BY <3>2, <3>5, <3>7 DEF IInv, Balance
  <2> QED BY <2>1
<1>5. TCPCONLIST' = <<Listening>>
  BY <1>1, <1>4
<1> QED BY <1>1, <1>2, <1>3, <1>4, <1>5

LEMMA MarkedTail ==
  ASSUME Sequence(HTTPD), HTTPD # <<>>, HTTPD' = Tail(HTTPD), Marked
  PROVE  Marked' /\ HTTPD[1] \in Range(HTTPD) /\ Head(HTTPD) = HTTPD[1]
<1>1. HTTPD[1] \in Range(HTTPD) /\ Range(Tail(HTTPD)) \subseteq Range(HTTPD) /\ Head(HTTPD) = HTTPD[1]
  BY RangeTail, Tailed
<1>2. Range(HTTPD') \subseteq Range(HTTPD)
  BY <1>1
<1>3. Range(HTTPD)' = Range(HTTPD')
  BY DEF Range
<1> QED BY <1>1, <1>2, <1>3 DEF Marked

LEMMA OrderReceive ==
  ASSUME IInv, Order, TCPCONLIST # <<>>, NEW c, NEW seg, NEW s, Received(TCPCONLIST[1], c, seg, s),
         UNCHANGED <<calls, httpd>>
  PROVE  Order'
<1> DEFINE con == TCPCONLIST[1]
<1>1. Known(con) /\ Newest /\ Rising(HTTPD, httpd.number) /\ Marked /\ Pointed /\ Asking /\ Sequence(HTTPD)
  BY DEF IInv, Server, Numbers, Boxed, Order
<1>2. con.number = number /\ number \in Nat /\ number # 0
  <2>1. con.number = number /\ number \in Nat /\ con.number \in 1..number
    BY <1>1 DEF Newest, IInv, Numbers, Known
  <2> QED BY <2>1
<1>3. /\ Receives(con, s) /\ TCPCONLIST' = Left(s) /\ number' = number /\ HTTPD' = HTTPD \o Told(s)
  BY DEF Received
<1> HIDE DEF con
<1>4. s.con.number = con.number /\ (s.opened => con.status \in Early)
  BY <1>3 DEF Receives
<1>5. Newest'
  <2>1. TCPCONLIST' # <<>> => TCPCONLIST'[1] = s.con
    <3>1. <<s.con>>[1] = s.con
      OBVIOUS
    <3> QED BY <1>3, <3>1 DEF Left
  <2> QED BY <1>2, <1>3, <1>4, <2>1 DEF Newest
<1>6. s.opened => con.number > httpd.number /\ Below(HTTPD, con.number)
  <2> SUFFICES ASSUME s.opened PROVE con.number > httpd.number /\ Below(HTTPD, con.number)
    OBVIOUS
  <2>1. httpd.number # number /\ Absent(HTTPD, number)
    BY <1>1, <1>2, <1>4 DEF Known, Unmentioned
  <2>2. httpd.number \in 0..number /\ Boxed(HTTPD, Signals, number)
    BY DEF IInv, Numbers
  <2>3. con.number > httpd.number
    BY <1>2, <2>1, <2>2
  <2>4. Below(HTTPD, number)
    <3> SUFFICES ASSUME NEW k \in 1..Len(HTTPD) PROVE HTTPD[k].number < number
      BY DEF Below
    <3>1. HTTPD[k].number \in 0..number /\ HTTPD[k].number # number
      BY <2>1, <2>2 DEF Boxed, Absent
    <3> QED BY <1>2, <3>1
  <2> QED BY <1>2, <2>3, <2>4
<1>7. Rising(HTTPD', httpd'.number)
  <2>1. Rising(HTTPD \o Told(s), httpd.number)
    BY <1>1, <1>3, <1>6, RisingTold
  <2> QED BY <1>3, <2>1
<1>8. Marked'
  <2>1. /\ Range(HTTPD \o Told(s)) = Range(HTTPD) \cup Telling(s)
        /\ \A x \in Range(s.told) : x.cmd = "RECV" /\ x.number = con.number
    BY <1>1, <1>3, TellingIs
  <2>2. \A x \in Telling(s) : x.cmd = "RECV" => x.number # 0
    BY <1>2, <2>1 DEF Telling, signal
  <2>3. \A x \in Range(HTTPD') : x.cmd = "RECV" => x.number # 0
    BY <1>1, <1>3, <2>1, <2>2 DEF Marked
  <2>4. Range(HTTPD)' = Range(HTTPD')
    BY DEF Range
  <2> QED BY <2>3, <2>4 DEF Marked
<1>9. Pointed' /\ Asking'
  BY <1>1 DEF Pointed, Asking, Rest, Asked, Sequence, send_accept, call
<1>10. Rising(HTTPD, httpd.number)'
  BY <1>7 DEF Rising
<1> QED BY <1>5, <1>8, <1>9, <1>10 DEF Order

LEMMA OrderServe ==
  ASSUME IInv, Order, NEW e, Serves(e), UNCHANGED <<HTTPD, httpd>>
  PROVE  Order'
<1>1. Rest(calls, httpd.number) /\ httpd.answered /\ calls' = Tail(calls)
  BY DEF Serves
<1>2. Tail(calls) = <<>> \/ Rest(Tail(calls), httpd.number)
  BY <1>1, RestIs
<1>3. Asking'
  BY <1>1, <1>2 DEF Asking, Rest, Asked, Sequence, send_accept, call
<1>4. Newest'
  <2>1. CASE UNCHANGED <<TCPCONLIST, number>>
    BY <2>1 DEF Order, Newest
  <2>2. ASSUME NEW s, Exists(httpd.number), Enqueued(TCPCONLIST[1], Piece(e), s), TCPCONLIST' = <<s.con>>, number' = number
        PROVE  Newest'
    <3>1. s.con.number = TCPCONLIST[1].number
      BY <2>2 DEF Enqueued, Starts, Leads
    <3>2. TCPCONLIST'[1] = s.con
      <4>1. <<s.con>>[1] = s.con
        OBVIOUS
      <4> QED BY <2>2, <4>1
    <3> QED BY <2>2, <3>1, <3>2 DEF Order, Newest, Exists
  <2> QED BY <2>1, <2>2 DEF Serves
<1>5. Marked' /\ Pointed' /\ Rising(HTTPD, httpd.number)'
  BY DEF Order, Marked, Pointed, Rising, Range
<1> QED BY <1>3, <1>4, <1>5 DEF Order

LEMMA OrderAccept ==
  ASSUME IInv, Order, accept
  PROVE  Order'
<1>1. /\ TCPCONLIST' = <<Listening>> /\ number' = number + 1 /\ calls' = <<>>
      /\ UNCHANGED <<HTTPD, httpd>>
  BY AcceptIs
<1>2. Newest'
  <2>1. <<Listening>>[1] = Listening /\ Listening.number = number + 1
    BY DEF Listening
  <2> HIDE DEF Listening
  <2> QED BY <1>1, <2>1 DEF Newest
<1>3. Asking'
  BY <1>1 DEF Asking
<1>4. Marked' /\ Pointed' /\ Rising(HTTPD, httpd.number)'
  BY <1>1 DEF Order, Marked, Pointed, Rising, Range
<1> QED BY <1>2, <1>3, <1>4 DEF Order

LEMMA OrderHttpd ==
  ASSUME IInv, Order, httpd_main
  PROVE  Order'
<1>0. /\ Sequence(HTTPD) /\ httpd.number \in 0..number /\ number \in Nat
      /\ Boxed(HTTPD, Signals, number) /\ DOMAIN httpd = {"number", "p", "buffer", "answered"}
      /\ Newest /\ Rising(HTTPD, httpd.number) /\ Marked /\ Pointed /\ Asking
  BY DEF IInv, Numbers, Boxed, Order
<1>1. HTTPD # <<>> /\ HTTPD' = Tail(HTTPD) /\ UNCHANGED <<TCPCONLIST, number>>
  BY DEF httpd_main, TCP_CMD_ESTAB, closed, TCP_CMD_RECV, kz_recv, conVars
<1>2. Newest' /\ Marked' /\ Head(HTTPD) = HTTPD[1]
  BY <1>0, <1>1, MarkedTail DEF Newest
<1>3. /\ Rising(HTTPD', httpd.number)
      /\ HTTPD[1].cmd = "ESTAB" => Rising(HTTPD', HTTPD[1].number)
  BY <1>0, <1>1, RisingTail
<1>4. CASE TCP_CMD_ESTAB
  <2>1. /\ HTTPD[1].cmd = "ESTAB" /\ calls' = <<>>
        /\ httpd' = [number |-> HTTPD[1].number, p |-> TRUE, buffer |-> <<>>, answered |-> FALSE]
    BY <1>2, <1>4 DEF TCP_CMD_ESTAB, kz_recv
  <2>2. Pointed' /\ Asking' /\ httpd'.number = HTTPD[1].number
    BY <2>1 DEF Pointed, Asking
  <2>3. Rising(HTTPD', httpd'.number)
    BY <1>3, <2>1, <2>2
  <2>4. Rising(HTTPD, httpd.number)'
    BY <2>3 DEF Rising
  <2> QED BY <1>2, <2>2, <2>4 DEF Order
<1>5. CASE closed
  <2>1. httpd' = [httpd EXCEPT !.number = 0] /\ calls' = <<send_accept>>
    BY <1>5 DEF closed
  <2>2. httpd'.number = 0 /\ httpd'.p = httpd.p /\ httpd'.answered = httpd.answered
    BY <1>0, <2>1
  <2>3. Pointed' /\ Asking'
    BY <1>0, <2>1, <2>2 DEF Pointed, Asking, send_accept, call
  <2>4. Rising(HTTPD', 0)
    <3>1. Boxed(HTTPD', Signals, number)
      BY <1>0, <1>1, BoxedTail
    <3>2. \A k \in 1..Len(HTTPD') : HTTPD'[k].number > httpd.number => HTTPD'[k].number > 0
      BY <1>0, <3>1 DEF Boxed
    <3> QED BY <1>3, <3>2 DEF Rising
  <2>5. Rising(HTTPD, httpd.number)'
    BY <2>2, <2>4 DEF Rising
  <2> QED BY <1>2, <2>3, <2>5 DEF Order
<1>6. CASE TCP_CMD_RECV
  <2>1. Reads
    BY <1>6, RECVIs DEF Order
  <2>2. httpd'.number = httpd.number /\ httpd'.p = httpd.p /\ calls = <<>>
    BY <2>1 DEF Reads
  <2>3. Rising(HTTPD, httpd.number)'
    BY <1>3, <2>2 DEF Rising
  <2>4. Pointed' /\ Asking'
    <3>1. CASE UNCHANGED <<httpd, calls>>
      BY <1>0, <2>2, <3>1 DEF Pointed, Asking
    <3>2. CASE Asks
      <4>1. httpd'.answered \in BOOLEAN
        BY <1>0, <3>2 DEF Asks, Pointed
      <4>2. Pointed'
        BY <1>0, <2>2, <4>1 DEF Pointed
      <4>3. Asking'
        BY <2>2, <3>2 DEF Asks, Asking, Rest, Asked, Sequence, send_accept, call
      <4> QED BY <4>2, <4>3
    <3> QED BY <2>1, <3>1, <3>2 DEF Reads
  <2> QED BY <1>2, <2>3, <2>4 DEF Order
<1> QED BY <1>4, <1>5, <1>6 DEF httpd_main

LEMMA OrderStays ==
  ASSUME Order, UNCHANGED board
  PROVE  Order'
<1>1. UNCHANGED <<TCPCONLIST, number, HTTPD, calls, httpd>>
  BY DEF board, conVars
<1>2. Newest' /\ Marked' /\ Pointed' /\ Rising(HTTPD, httpd.number)'
  BY <1>1 DEF Order, Newest, Marked, Pointed, Rising, Range
<1>3. Asking'
  BY <1>1 DEF Order, Asking, Rest, Asked, Sequence, send_accept, call
<1> QED BY <1>2, <1>3 DEF Order

-----------------------------------------------------------------------------
(* Paths.                                                                  *)

LEMMA PathNext ==
  ASSUME NEW c
  PROVE  /\ Path(TCPCONLIST, c, client[c], net[c], wire[c])'
              <=> Path(TCPCONLIST', c, client'[c], net'[c], wire'[c])
         /\ Formed(TCPCONLIST[1])' <=> Formed(TCPCONLIST'[1])
BY DEF Path, Typed, Copies, Copy, Sequence, Written, Size, Outgoing, Kinds, Opens, Ends, Fresh, Parting,
       Alone, Side, There, States, Unended, Formed, Packet, Range

LEMMA PathsNext ==
  ASSUME TCPCONLIST' # <<>> => Formed(TCPCONLIST'[1]),
         \A c \in Client : Path(TCPCONLIST', c, client'[c], net'[c], wire'[c])
  PROVE  Paths'
BY PathNext DEF Paths

LEMMA StraightBack ==
  ASSUME seen \subseteq seen'
  PROVE  (Straight' => Straight) /\ (Quiet' => Quiet) /\ ("stray" \notin seen => Straight)
BY DEF Straight, Quiet

\* What a segment that is not another one's comes to.
LEMMA ReceivedIs ==
  ASSUME IInv, Shape, Paths, NEW con, TCPCONLIST = <<con>>,
         NEW c \in Client, net[c] # <<>>, NEW seg, seg = Head(net[c]),
         NEW s, Received(con, c, seg, s), Straight, ~Stray(con, c, seg)
  PROVE  /\ ConOK(con) /\ Formed(con) /\ seg = net[c][1] /\ seg.ack \in Int
         /\ Outcome(con, c, seg, s)
         /\ \A x \in Client : /\ Path(<<con>>, x, client[x], net[x], wire[x])
                              /\ wire'[x] = Joins(x, s, wire[x])
<1>1. TCPCONLIST[1] = con /\ TCPCONLIST # <<>>
  BY OneCon
<1>2. ConOK(con)
  BY <1>1 DEF IInv, Server, Known
<1>4. Formed(con) /\ \A x \in Client : Path(<<con>>, x, client[x], net[x], wire[x])
  BY <1>1 DEF Paths
<1>5. Sequence(net[c]) /\ Outgoing(client[c], net[c])
  BY <1>4 DEF Path, Typed
<1>6. seg = net[c][1] /\ seg \in Range(net[c])
  BY <1>5, Tailed, RangeTail
<1>7. seg.flags \in Kinds /\ seg.ack \in Int
  BY <1>5, <1>6 DEF Outgoing
<1>8. Outcome(con, c, seg, s)
  <2>1. s \in tcp_recv(con, c, seg, seen)
    BY DEF Received
  <2> QED BY <1>2, <1>4, <1>7, <2>1, OutcomeIs
<1>9. ASSUME NEW x \in Client PROVE wire'[x] = Joins(x, s, wire[x])
  <2>1. Sequence(wire[x])
    BY <1>4 DEF Path, Typed
  <2> QED BY <2>1 DEF Received
<1> QED BY <1>2, <1>4, <1>6, <1>7, <1>8, <1>9

LEMMA PathsReceive ==
  ASSUME IInv, Shape, Paths, NEW con, TCPCONLIST = <<con>>,
         NEW c \in Client, net[c] # <<>>, NEW seg, seg = Head(net[c]),
         NEW s, Received(con, c, seg, s), UNCHANGED client,
         \A x \in Client : net'[x] = Passed(x, c, net[x]),
         Straight' => Straight /\ ~Stray(con, c, seg)
  PROVE  Paths'
<1> SUFFICES ASSUME Straight'
             PROVE  /\ TCPCONLIST' # <<>> => Formed(TCPCONLIST'[1])
                    /\ \A x \in Client : Path(TCPCONLIST', x, client'[x], net'[x], wire'[x])
  BY PathsNext DEF Paths
<1>1. /\ ConOK(con) /\ Formed(con) /\ seg = net[c][1] /\ seg.ack \in Int
      /\ Outcome(con, c, seg, s)
      /\ \A x \in Client : /\ Path(<<con>>, x, client[x], net[x], wire[x])
                           /\ wire'[x] = Joins(x, s, wire[x])
  BY ReceivedIs
<1>2. TCPCONLIST' = Left(s) /\ <<s.con>>[1] = s.con /\ s.closed \in BOOLEAN
  BY DEF Received, Receives, WorkOK
<1>3. TCPCONLIST' # <<>> => Formed(TCPCONLIST'[1])
  <2> SUFFICES ASSUME TCPCONLIST' # <<>> PROVE Formed(TCPCONLIST'[1])
    OBVIOUS
  <2>1. s.closed = FALSE /\ TCPCONLIST'[1] = s.con
    BY <1>2 DEF Left
  <2>2. Formed(s.con)
    BY <1>1, <2>1, OutcomeFormed
  <2> QED BY <2>1, <2>2
<1>4. ASSUME NEW x \in Client PROVE Path(TCPCONLIST', x, client'[x], net'[x], wire'[x])
  <2>1. Path(Left(s), x, client[x], Passed(x, c, net[x]), Joins(x, s, wire[x]))
    <3>1. x = c => net[x] # <<>> /\ seg = net[x][1]
      BY <1>1
    <3> QED BY <1>1, <3>1, PathReceive
  <2>2. /\ TCPCONLIST' = Left(s) /\ client'[x] = client[x] /\ net'[x] = Passed(x, c, net[x])
        /\ wire'[x] = Joins(x, s, wire[x])
    BY <1>1, <1>2
  <2> QED BY <2>1, <2>2
<1> QED BY <1>3, <1>4

\* The connection that serves a request.
LEMMA ServedIs ==
  ASSUME Paths, Straight, NEW con, TCPCONLIST[1] = con, TCPCONLIST # <<>>,
         Known(con), con.number = httpd.number,
         NEW e \in 2..(PIECES + 2), NEW s, Enqueued(con, Piece(e), s)
  PROVE  /\ ConOK(con) /\ Formed(con) /\ Formed(s.con) /\ Sound(con, s) /\ Packet(Piece(e))
         /\ con.status \notin Early
<1>1. ConOK(con) /\ con.status \notin Early /\ con.status # "LISTEN"
  BY DEF Known, Unmentioned, Early
<1>2. Formed(con)
  BY DEF Paths
<1>3. Packet(Piece(e))
  BY PieceIs
<1>4. Sound(con, s) /\ s.con.status # "CLOSED"
  BY <1>1, <1>2, <1>3, FlushSound DEF Enqueued, Starts
<1>5. Formed(s.con)
  BY <1>1, <1>2, <1>4 DEF Formed, Sound
<1> QED BY <1>1, <1>2, <1>3, <1>4, <1>5

\* More comes from the connection con, which is x now.
LEMMA PathMore ==
  ASSUME NEW con, con.status \notin Early, NEW s, Sound(con, s), NEW c,
         NEW k, NEW out, NEW in, Path(<<con>>, c, k, out, in)
  PROVE  Path(<<s.con>>, c, k, out, Joins(c, s, in))
<1> DEFINE in2 == Joins(c, s, in)
<1>0. /\ Typed(k, out, in) /\ Outgoing(k, out) /\ Sequence(in)
      /\ <<con>>[1] = con /\ <<s.con>>[1] = s.con
  BY DEF Path, Typed
<1>1. /\ s.con.peer = con.peer /\ Sequence(s.sent) /\ \A x \in Range(s.sent) : Written(x)
      /\ s.con.status \in Unended => con.status \in Unended /\ \A x \in Range(s.sent) : ~Ends(x)
  BY DEF Sound, WorkOK
<1>2. CASE c = con.peer
  <2>1. in2 = in \o s.sent
    BY <1>1, <1>2 DEF Joins
  <2>2. Sequence(in2) /\ Range(in2) = Range(in) \cup Range(s.sent)
    BY <1>0, <1>1, <2>1, RangeJoin
  <2> HIDE DEF in2
  <2>3. Side(con, k, in)
    BY <1>0, <1>2, ThereIs DEF Path
  <2>4. k.st \notin Fresh
    BY <2>3 DEF Side, Early
  <2>5. Side(s.con, k, in2)
    BY <1>1, <2>2, <2>3, <2>4 DEF Side
  <2>6. Typed(k, out, in2)
    BY <1>0, <1>1, <2>2 DEF Typed
  <2> QED BY <1>0, <1>1, <1>2, <2>5, <2>6, ThereIs DEF Path, in2
<1>3. CASE c # con.peer
  <2>1. in2 = in
    BY <1>1, <1>3 DEF Joins
  <2> HIDE DEF in2
  <2>2. Alone(k, out, in)
    BY <1>3, ThereIs DEF Path
  <2> QED BY <1>0, <1>1, <1>3, <2>1, <2>2, ThereIs DEF Path, in2
<1> QED BY <1>2, <1>3

LEMMA PathsServe ==
  ASSUME IInv, Shape, Paths, NEW e, Serves(e), UNCHANGED <<httpd, net, client>>
  PROVE  Paths'
<1>1. CASE UNCHANGED <<TCPCONLIST, number, seen, wire>>
  <2> SUFFICES ASSUME Straight'
               PROVE  /\ TCPCONLIST' # <<>> => Formed(TCPCONLIST'[1])
                      /\ \A x \in Client : Path(TCPCONLIST', x, client'[x], net'[x], wire'[x])
    BY PathsNext DEF Paths
  <2>0. Straight
    BY <1>1, StraightBack
  <2>1. /\ TCPCONLIST # <<>> => Formed(TCPCONLIST[1])
        /\ \A x \in Client : Path(TCPCONLIST, x, client[x], net[x], wire[x])
    BY <2>0 DEF Paths
  <2>2. TCPCONLIST' = TCPCONLIST /\ client' = client /\ net' = net /\ wire' = wire
    BY <1>1
  <2> QED BY <2>1, <2>2
<1>2. ASSUME Exists(httpd.number), TCPCONLIST = <<TCPCONLIST[1]>>, Known(TCPCONLIST[1]),
             NEW s, Enqueued(TCPCONLIST[1], Piece(e), s), TCPCONLIST' = <<s.con>>, seen' = s.seen,
             \A x \in Client : wire'[x] = Joins(x, s, wire[x])
      PROVE  Paths'
  <2> SUFFICES ASSUME Straight'
               PROVE  /\ TCPCONLIST' # <<>> => Formed(TCPCONLIST'[1])
                      /\ \A x \in Client : Path(TCPCONLIST', x, client'[x], net'[x], wire'[x])
    BY PathsNext DEF Paths
  <2>1. PICK con : con = TCPCONLIST[1]
    OBVIOUS
  <2>2. TCPCONLIST = <<con>> /\ TCPCONLIST # <<>> /\ con.number = httpd.number /\ Known(con) /\ Enqueued(con, Piece(e), s)
    BY <1>2, <2>1 DEF Exists
  <2>3. Straight
    <3>1. seen \subseteq seen'
      BY <1>2, <2>2 DEF Enqueued, Leads
    <3> QED BY <3>1, StraightBack
  <2>4. e \in 2..(PIECES + 2)
    BY DEF Serves
  <2>5. Formed(s.con) /\ Sound(con, s) /\ con.status \notin Early
    BY <2>1, <2>2, <2>3, <2>4, ServedIs
  <2>6. TCPCONLIST'[1] = s.con
    <3>1. <<s.con>>[1] = s.con
      OBVIOUS
    <3> QED BY <1>2, <3>1
  <2>7. ASSUME NEW x \in Client PROVE Path(TCPCONLIST', x, client'[x], net'[x], wire'[x])
    <3>1. Path(<<con>>, x, client[x], net[x], wire[x])
      BY <2>2, <2>3 DEF Paths
    <3>2. Path(<<s.con>>, x, client[x], net[x], Joins(x, s, wire[x]))
      BY <2>5, <3>1, PathMore
    <3>3. /\ TCPCONLIST' = <<s.con>> /\ client'[x] = client[x] /\ net'[x] = net[x]
          /\ wire'[x] = Joins(x, s, wire[x])
      BY <1>2
    <3> QED BY <3>2, <3>3
  <2> QED BY <2>5, <2>6, <2>7
<1> QED BY <1>1, <1>2 DEF Serves

LEMMA PathsAccept ==
  ASSUME IInv, Order, Paths, accept
  PROVE  Paths'
<1>1. /\ TCPCONLIST = <<>> /\ TCPCONLIST' = <<Listening>>
      /\ UNCHANGED <<net, wire, client, seen>>
  BY AcceptIs
<1> SUFFICES ASSUME Straight
             PROVE  /\ TCPCONLIST' # <<>> => Formed(TCPCONLIST'[1])
                    /\ \A x \in Client : Path(TCPCONLIST', x, client'[x], net'[x], wire'[x])
  BY <1>1, StraightBack, PathsNext DEF Paths
<1>2. TCPCONLIST'[1] = Listening
  <2>1. <<Listening>>[1] = Listening
    OBVIOUS
  <2> QED BY <1>1, <2>1
<1>3. Formed(Listening) /\ Listening.peer = None
  <2>1. /\ Listening.peer = None /\ Listening.status = "LISTEN" /\ Listening.snd = 1 /\ Listening.seq = 1
        /\ Listening.send_queue = <<>>
    BY DEF Listening
  <2> HIDE DEF Listening
  <2> QED BY <2>1, RangeEmpty DEF Formed
<1> HIDE DEF Listening
<1>4. ASSUME NEW x \in Client PROVE Path(TCPCONLIST', x, client'[x], net'[x], wire'[x])
  <2>1. Path(<<>>, x, client[x], net[x], wire[x])
    BY <1>1 DEF Paths
  <2>2. None # x
    BY HttpdAssumption
  <2>3. Path(<<Listening>>, x, client[x], net[x], wire[x])
    BY <1>3, <2>1, <2>2, ThereIs DEF Path
  <2> QED BY <1>1, <2>3
<1> QED BY <1>2, <1>3, <1>4

LEMMA PathsClient ==
  ASSUME Paths, UNCHANGED <<TCPCONLIST, number>>, NEW c \in Client, Alters(c), seen \subseteq seen',
         \/ Acting(client[c], net[c], wire[c], client'[c], net'[c], wire'[c])
         \/ Leaves(client[c], net[c], wire[c], client'[c], net'[c], wire'[c])
  PROVE  Paths'
<1> SUFFICES ASSUME Straight
             PROVE  /\ TCPCONLIST' # <<>> => Formed(TCPCONLIST'[1])
                    /\ \A x \in Client : Path(TCPCONLIST', x, client'[x], net'[x], wire'[x])
  BY StraightBack, PathsNext DEF Paths
<1>1. /\ TCPCONLIST # <<>> => Formed(TCPCONLIST[1])
      /\ \A x \in Client : Path(TCPCONLIST, x, client[x], net[x], wire[x])
  BY DEF Paths
<1>2. /\ DOMAIN client'[c] = DOMAIN client[c] /\ Copies(client'[c])
      /\ \A d \in Client : d # c => client'[d] = client[d] /\ net'[d] = net[d] /\ wire'[d] = wire[d]
  BY DEF Alters
<1>3. Path(TCPCONLIST, c, client'[c], net'[c], wire'[c])
  BY <1>1, <1>2, ActingPath
<1>4. ASSUME NEW x \in Client PROVE Path(TCPCONLIST', x, client'[x], net'[x], wire'[x])
  <2>1. CASE x = c
    BY <1>3, <2>1
  <2>2. CASE x # c
    <3>1. client'[x] = client[x] /\ net'[x] = net[x] /\ wire'[x] = wire[x]
      BY <1>2, <2>2
    <3> QED BY <1>1, <3>1
  <2> QED BY <2>1, <2>2
<1> QED BY <1>1, <1>4

LEMMA PathsStay ==
  ASSUME Paths, UNCHANGED <<TCPCONLIST, client, net, wire>>, seen \subseteq seen'
  PROVE  Paths'
<1>1. Straight' => Straight
  BY StraightBack
<1>2. TCPCONLIST' = TCPCONLIST /\ client' = client /\ net' = net /\ wire' = wire
  OBVIOUS
<1>3. ASSUME Straight
      PROVE  /\ TCPCONLIST' # <<>> => Formed(TCPCONLIST'[1])
             /\ \A x \in Client : Path(TCPCONLIST', x, client'[x], net'[x], wire'[x])
  BY <1>2, <1>3 DEF Paths
<1> QED BY <1>1, <1>3, PathsNext DEF Paths

-----------------------------------------------------------------------------
(* Stream.                                                                 *)

Spoilt == seen \cap {"rewound", "second", "stray"} # {}
Flowing == \A c \in Client : GotOK(client[c]) /\ \A x \in Range(wire[c]) : Fits(x, client[c].st)

LEMMA StreamNext ==
  ASSUME NEW e,
         TCPCONLIST' # <<>> =>
           /\ e = IF httpd'.number = TCPCONLIST'[1].number /\ httpd'.answered THEN PIECES + 3 - Len(calls') ELSE 2
           /\ ConStream(TCPCONLIST'[1], e),
         \A c \in Client : GotOK(client'[c]) /\ \A x \in Range(wire'[c]) : Fits(x, client'[c].st)
  PROVE  Stream'
<1>1. (TCPCONLIST # <<>> => ConStream(TCPCONLIST[1], Expected(TCPCONLIST[1].number)))'
  BY DEF ConStream, Line, Piece, Expected
<1>2. Flowing'
  BY DEF Flowing, GotOK, Reply, Fits, Fresh, Range
<1> QED BY <1>1, <1>2 DEF Stream, Flowing

LEMMA ExpectedType ==
  ASSUME Order, NEW n
  PROVE  Expected(n) \in 2..(PIECES + 3)
<1>0. PIECES \in Nat
  BY HttpdAssumption
<1>1. Len(calls) \in 0..(PIECES + 1)
  <2>1. CASE calls = <<send_accept>>
    BY <1>0, <2>1
  <2>2. CASE calls = <<>>
    BY <1>0, <2>2
  <2>3. CASE Rest(calls, httpd.number)
    BY <1>0, <2>3 DEF Rest
  <2> QED BY <2>1, <2>2, <2>3 DEF Order, Asking
<1> QED BY <1>0, <1>1 DEF Expected

\* What is sent goes to d.
OnlyTo(s, d) == s.sent = <<>> \/ s.con.peer = d

LEMMA PeerIs ==
  ASSUME NEW con, ConOK(con), Formed(con), NEW d, NEW seg, seg.ack \in Int, NEW s, Outcome(con, d, seg, s)
  PROVE  OnlyTo(s, d)
<1>1. CASE Ignores(con, s) \/ Resets(s) \/ Notes(con, s, seg.ack)
  BY <1>1 DEF Ignores, Resets, Notes, OnlyTo
<1>2. CASE Welcomes(con, d, s)
  BY <1>2 DEF Welcomes, OnlyTo
<1>3. CASE Replies(con, d, seg, s)
  <2>1. Sound(con, s) /\ con.peer = d
    BY <1>3, AnswerSound DEF Replies
  <2> QED BY <2>1 DEF Sound, OnlyTo
<1> QED BY <1>1, <1>2, <1>3 DEF Outcome

\* What a client sees of what is sent to another one, or to nobody.
LEMMA JoinsOther ==
  ASSUME NEW s, NEW d, OnlyTo(s, d), NEW c, c # d, NEW in, Sequence(in)
  PROVE  Joins(c, s, in) = in
<1>1. CASE s.sent = <<>>
  BY <1>1, JoinsNone
<1>2. CASE s.con.peer = d
  BY <1>2 DEF Joins
<1> QED BY <1>1, <1>2 DEF OnlyTo

LEMMA JoinsRange ==
  ASSUME NEW s, Sequence(s.sent), NEW c, NEW in, Sequence(in)
  PROVE  Range(Joins(c, s, in)) \subseteq Range(in) \cup Range(s.sent)
BY RangeJoin DEF Joins

LEMMA StreamsReceive ==
  ASSUME IInv, Shape, Order, Paths, Stream, NEW con, TCPCONLIST = <<con>>,
         NEW c \in Client, net[c] # <<>>, NEW seg, seg = Head(net[c]),
         NEW s, Received(con, c, seg, s), UNCHANGED <<client, calls, httpd>>
  PROVE  Stream'
<1> SUFFICES ASSUME ~Spoilt' PROVE Stream'
  BY DEF Spoilt, Stream
<1>0. "rewound" \notin seen' /\ ~Spoilt /\ Straight /\ ~Stray(con, c, seg)
  BY DEF Received, Spoilt, Straight
<1>1. /\ ConOK(con) /\ Formed(con) /\ seg = net[c][1] /\ seg.ack \in Int
      /\ Outcome(con, c, seg, s)
      /\ \A x \in Client : /\ Path(<<con>>, x, client[x], net[x], wire[x])
                           /\ wire'[x] = Joins(x, s, wire[x])
  BY <1>0, ReceivedIs
<1>2. /\ TCPCONLIST' = Left(s) /\ <<s.con>>[1] = s.con /\ s.closed \in BOOLEAN
      /\ s.con.number = con.number /\ Sequence(s.sent) /\ "rewound" \notin s.seen
  BY <1>0 DEF Received, Receives, WorkOK
<1>3. TCPCONLIST[1] = con /\ TCPCONLIST # <<>>
  BY OneCon
<1> DEFINE e == Expected(con.number)
<1>4. e \in 2..(PIECES + 3) /\ ConStream(con, e)
  BY <1>0, <1>3, ExpectedType DEF Stream, Spoilt
<1>5. con.status \in Early => e = 2
  <2>1. Known(con)
    BY <1>3 DEF IInv, Server
  <2> QED BY <2>1 DEF Known, Unmentioned, Expected
<1>6. con.peer = c /\ Ends(seg) /\ con.status \in Unended => client[c].st \in {"finwait", "done"}
  <2> SUFFICES ASSUME con.peer = c, Ends(seg), con.status \in Unended
               PROVE  client[c].st \in {"finwait", "done"}
    OBVIOUS
  <2>1. Path(<<con>>, c, client[c], net[c], wire[c]) /\ <<con>>[1] = con
    BY <1>1
  <2>2. Sequence(net[c]) /\ Outgoing(client[c], net[c]) /\ Side(con, client[c], wire[c])
    BY <2>1, ThereIs DEF Path, Typed
  <2>3. seg \in Range(net[c])
    BY <1>1, <2>2, RangeTail
  <2>4. client[c].st \in Parting
    BY <2>2, <2>3 DEF Outgoing
  <2> QED BY <2>2, <2>4 DEF Side, Parting
<1> HIDE DEF e
<1>7. (s.closed = FALSE => ConStream(s.con, e)) /\ \A x \in Range(s.sent) : Fits(x, client[c].st)
  <2>1. PICK st : st = client[c].st
    OBVIOUS
  <2>2. con.peer = c /\ Ends(seg) /\ con.status \in Unended => st \in {"finwait", "done"}
    BY <1>6, <2>1
  <2>3. (s.closed = FALSE => ConStream(s.con, e)) /\ \A x \in Range(s.sent) : Fits(x, st)
    BY <1>1, <1>2, <1>4, <1>5, <2>2, StreamReceive
  <2> QED BY <2>1, <2>3
<1>8. TCPCONLIST' # <<>> =>
        /\ e = IF httpd'.number = TCPCONLIST'[1].number /\ httpd'.answered THEN PIECES + 3 - Len(calls') ELSE 2
        /\ ConStream(TCPCONLIST'[1], e)
  <2> SUFFICES ASSUME TCPCONLIST' # <<>>
               PROVE  /\ e = IF httpd'.number = TCPCONLIST'[1].number /\ httpd'.answered THEN PIECES + 3 - Len(calls') ELSE 2
                      /\ ConStream(TCPCONLIST'[1], e)
    OBVIOUS
  <2>1. s.closed = FALSE /\ TCPCONLIST'[1] = s.con
    BY <1>2 DEF Left
  <2>2. httpd' = httpd /\ calls' = calls
    OBVIOUS
  <2> QED BY <1>2, <1>7, <2>1, <2>2 DEF e, Expected
<1>9. ASSUME NEW x \in Client
      PROVE  GotOK(client'[x]) /\ \A y \in Range(wire'[x]) : Fits(y, client'[x].st)
  <2>1. GotOK(client[x]) /\ \A y \in Range(wire[x]) : Fits(y, client[x].st)
    BY <1>0 DEF Stream, Spoilt
  <2>2. Sequence(wire[x]) /\ wire'[x] = Joins(x, s, wire[x]) /\ client' = client
    BY <1>1 DEF Path, Typed
  <2>3. CASE x = c
    <3>1. Range(wire'[x]) \subseteq Range(wire[x]) \cup Range(s.sent)
      BY <1>2, <2>2, JoinsRange
    <3> QED BY <1>7, <2>1, <2>2, <2>3, <3>1
  <2>4. CASE x # c
    <3>1. OnlyTo(s, c)
      BY <1>1, PeerIs
    <3>2. PICK in : in = wire[x]
      OBVIOUS
    <3>3. Joins(x, s, in) = in
      BY <2>2, <2>4, <3>1, <3>2, JoinsOther
    <3>4. wire'[x] = wire[x]
      BY <2>2, <3>2, <3>3
    <3> QED BY <2>1, <2>2, <3>4
  <2> QED BY <2>3, <2>4
<1> QED BY <1>8, <1>9, StreamNext

LEMMA StreamsServe ==
  ASSUME IInv, Shape, Order, Paths, Stream, NEW e, Serves(e), UNCHANGED <<httpd, net, client>>
  PROVE  Stream'
<1> DEFINE h == httpd.number
<1>0. /\ e \in 2..(PIECES + 2) /\ calls' = Tail(calls) /\ PIECES \in Nat
      /\ Rest(calls, h) /\ httpd.answered /\ e = Expected(h)
  BY HttpdAssumption DEF Serves
<1>1. e = PIECES + 3 - Len(calls) /\ Len(calls') = Len(calls) - 1 /\ Len(calls) \in Int
  <2>1. e = PIECES + 3 - Len(calls)
    BY <1>0 DEF Expected
  <2>2. Len(Tail(calls)) = Len(calls) - 1 /\ Len(calls) \in Int
    BY <1>0, RestIs DEF Rest
  <2> QED BY <1>0, <2>1, <2>2
<1>2. CASE ~Exists(h) /\ UNCHANGED <<TCPCONLIST, number, seen, wire>>
  <2> SUFFICES ASSUME ~Spoilt PROVE Stream'
    BY <1>2 DEF Spoilt, Stream
  <2>1. TCPCONLIST # <<>> => ConStream(TCPCONLIST[1], 2) /\ h # TCPCONLIST[1].number
    BY <1>2 DEF Stream, Spoilt, Expected, Exists
  <2>2. /\ TCPCONLIST' = TCPCONLIST /\ client' = client /\ wire' = wire /\ httpd' = httpd
    BY <1>2
  <2>3. Flowing
    BY DEF Stream, Spoilt, Flowing
  <2> QED BY <2>1, <2>2, <2>3, StreamNext DEF Flowing
<1>3. ASSUME Exists(h), TCPCONLIST = <<TCPCONLIST[1]>>, Known(TCPCONLIST[1]),
             NEW s, Enqueued(TCPCONLIST[1], Piece(e), s), TCPCONLIST' = <<s.con>>, seen' = s.seen,
             \A x \in Client : wire'[x] = Joins(x, s, wire[x])
      PROVE  Stream'
  <2> SUFFICES ASSUME ~Spoilt' PROVE Stream'
    BY DEF Spoilt, Stream
  <2>1. PICK con : con = TCPCONLIST[1]
    OBVIOUS
  <2>2. TCPCONLIST = <<con>> /\ TCPCONLIST # <<>> /\ con.number = h /\ Known(con) /\ Enqueued(con, Piece(e), s)
    BY <1>3, <2>1 DEF Exists
  <2>3. ~Spoilt /\ Straight
    BY <1>3, <2>2 DEF Enqueued, Leads, Spoilt, Straight
  <2>4. /\ ConOK(con) /\ Formed(con) /\ Formed(s.con) /\ Sound(con, s) /\ con.status \notin Early
    BY <1>0, <2>1, <2>2, <2>3, ServedIs
  <2>5. ConStream(con, e)
    BY <1>0, <2>1, <2>2, <2>3 DEF Stream, Spoilt
  <2>6. con.status \in {"ESTAB", "FINWAIT1", "FINWAIT2", "LASTACK"}
    BY <2>4 DEF ConOK, Status, Early, Formed
  <2>7. ASSUME NEW st PROVE Streams(s, e + 1, st)
    <3>1. PICK b : b = Begin(con, seen)
      OBVIOUS
    <3>2. b.con = con /\ b.sent = <<>> /\ Flushes(b, s, Append(con.send_queue, Piece(e)))
      BY <2>2, <3>1 DEF Enqueued, Starts
    <3> QED BY <1>0, <2>4, <2>5, <2>6, <3>2, FlushStream
  <2>8. TCPCONLIST'[1] = s.con /\ s.con.number = h /\ httpd' = httpd
    <3>1. <<s.con>>[1] = s.con
      OBVIOUS
    <3> QED BY <1>3, <2>2, <2>4, <3>1 DEF Sound
  <2>9. ConStream(s.con, e + 1)
    BY <2>4, <2>7 DEF Streams, Formed
  <2>10. e + 1 = PIECES + 3 - Len(calls')
    <3>1. PICK n, m : n = Len(calls) /\ m = Len(calls')
      OBVIOUS
    <3>2. e = PIECES + 3 - n /\ m = n - 1 /\ n \in Int /\ PIECES \in Int
      BY <1>0, <1>1, <3>1
    <3>3. e + 1 = PIECES + 3 - m
      BY <3>2
    <3> QED BY <3>1, <3>3
  <2>11. ASSUME NEW x \in Client
         PROVE  GotOK(client'[x]) /\ \A y \in Range(wire'[x]) : Fits(y, client'[x].st)
    <3>1. GotOK(client[x]) /\ \A y \in Range(wire[x]) : Fits(y, client[x].st)
      BY <2>3 DEF Stream, Spoilt
    <3>2. Sequence(wire[x])
      BY <2>3 DEF Paths, Path, Typed
    <3>3. Range(Joins(x, s, wire[x])) \subseteq Range(wire[x]) \cup Range(s.sent)
      BY <2>4, <3>2, JoinsRange DEF Sound, WorkOK
    <3>4. \A y \in Range(s.sent) : Fits(y, client[x].st)
      BY <2>7 DEF Streams
    <3>5. wire'[x] = Joins(x, s, wire[x]) /\ client' = client
      BY <1>3
    <3> QED BY <3>1, <3>3, <3>4, <3>5
  <2>12. TCPCONLIST' # <<>> =>
           /\ e + 1 = IF httpd'.number = TCPCONLIST'[1].number /\ httpd'.answered THEN PIECES + 3 - Len(calls') ELSE 2
           /\ ConStream(TCPCONLIST'[1], e + 1)
    BY <1>0, <2>8, <2>9, <2>10
  <2> QED BY <2>11, <2>12, StreamNext
<1> QED BY <1>2, <1>3 DEF Serves

LEMMA StreamsAccept ==
  ASSUME IInv, Order, Stream, accept
  PROVE  Stream'
<1>1. /\ TCPCONLIST' = <<Listening>> /\ UNCHANGED <<wire, client, seen>>
  BY AcceptIs
<1> SUFFICES ASSUME ~Spoilt PROVE Stream'
  BY <1>1 DEF Spoilt, Stream
<1>2. TCPCONLIST'[1] = Listening
  <2>1. <<Listening>>[1] = Listening
    OBVIOUS
  <2> QED BY <1>1, <2>1
<1>3. Listening.status = "LISTEN"
  BY DEF Listening
<1> HIDE DEF Listening
<1>4. \A e : ConStream(Listening, e)
  BY <1>3 DEF ConStream
<1>5. PICK e : e = IF httpd'.number = TCPCONLIST'[1].number /\ httpd'.answered THEN PIECES + 3 - Len(calls') ELSE 2
  OBVIOUS
<1>6. Flowing
  BY DEF Stream, Spoilt, Flowing
<1> QED BY <1>1, <1>2, <1>4, <1>5, <1>6, StreamNext DEF Flowing

\* A message that a connection is closed comes when there is none.
LEMMA ClosedIs ==
  ASSUME IInv, HTTPD # <<>>, Head(HTTPD).cmd = "CLOSE"
  PROVE  TCPCONLIST = <<>>
<1>1. Sequence(HTTPD) /\ Sequence(calls) /\ Sequence(Tail(HTTPD))
  BY Tailed DEF IInv, Numbers, Boxed
<1>2. Len(Tail(HTTPD)) \in Nat /\ Len(calls) \in Nat
  BY <1>1, Appended
<1>3. Count(Tail(HTTPD), "CLOSE") \in Nat /\ Count(calls, "ACCEPT") \in Nat
  BY <1>2, CountType
<1>4. Count(HTTPD, "CLOSE") = Count(Tail(HTTPD), "CLOSE") + One(Head(HTTPD), "CLOSE")
  BY <1>1, CountTail
<1>5. One(Head(HTTPD), "CLOSE") = 1
  BY DEF One
<1>6. CASE TCPCONLIST # <<>>
  <2>1. TCPCONLIST = <<TCPCONLIST[1]>>
    BY <1>6 DEF IInv, Server
  <2>2. Len(TCPCONLIST) = 1
    BY <2>1, OneCon
  <2> QED BY <1>3, <1>4, <1>5, <2>2 DEF IInv, Balance
<1> QED BY <1>6

\* httpd takes an ESTAB of a connection that is there: it is news.
LEMMA ESTABIs ==
  ASSUME IInv, Order, TCP_CMD_ESTAB
  PROVE  /\ HTTPD # <<>> /\ HTTPD[1].cmd = "ESTAB" /\ HTTPD[1] \in Range(HTTPD)
         /\ HTTPD' = Tail(HTTPD) /\ Range(HTTPD') \subseteq Range(HTTPD)
         /\ httpd'.number = HTTPD[1].number /\ httpd'.answered = FALSE
         /\ calls = <<>> /\ calls' = <<>>
         /\ UNCHANGED <<TCPCONLIST, number, wild, net, wire, client, seen>>
         /\ TCPCONLIST # <<>> => TCPCONLIST[1].number # httpd.number
         /\ HTTPD[1].number \in 0..number /\ HTTPD[1].number > httpd.number
<1>0. Sequence(HTTPD) /\ Boxed(HTTPD, Signals, number) /\ httpd.number \in 0..number /\ number \in Nat
  BY DEF IInv, Numbers, Boxed
<1>1. /\ HTTPD # <<>> /\ Head(HTTPD).cmd = "ESTAB" /\ HTTPD' = Tail(HTTPD) /\ calls = <<>> /\ calls' = <<>>
      /\ httpd' = [number |-> Head(HTTPD).number, p |-> TRUE, buffer |-> <<>>, answered |-> FALSE]
      /\ UNCHANGED <<TCPCONLIST, number, wild, net, wire, client, seen>>
  BY DEF TCP_CMD_ESTAB, kz_recv, conVars
<1>2. Head(HTTPD) = HTTPD[1] /\ HTTPD[1] \in Range(HTTPD) /\ Range(HTTPD') \subseteq Range(HTTPD)
  BY <1>0, <1>1, Tailed, RangeTail
<1>3. HTTPD[1].number \in 0..number
  BY <1>0, <1>1, <1>2, BoxedTail
<1>4. HTTPD[1].number > httpd.number
  <2>1. Rising(HTTPD, httpd.number)
    BY DEF Order
  <2> QED BY <1>0, <1>1, <1>2, <2>1, RisingTail
<1>5. TCPCONLIST # <<>> => TCPCONLIST[1].number # httpd.number
  BY <1>0, <1>3, <1>4 DEF Order, Newest
<1>6. httpd'.number = HTTPD[1].number /\ httpd'.answered = FALSE
  BY <1>1, <1>2
<1> QED BY <1>1, <1>2, <1>3, <1>4, <1>5, <1>6

LEMMA StreamsHttpd ==
  ASSUME IInv, Order, Stream, httpd_main
  PROVE  Stream'
<1>1. UNCHANGED <<TCPCONLIST, wire, client>> /\ seen \subseteq seen'
  BY DEF httpd_main, TCP_CMD_ESTAB, closed, TCP_CMD_RECV, kz_recv, conVars
<1> SUFFICES ASSUME ~Spoilt' PROVE Stream'
  BY DEF Spoilt, Stream
<1>2. ~Spoilt
  BY <1>1 DEF Spoilt
<1>3. Flowing /\ (TCPCONLIST # <<>> => ConStream(TCPCONLIST[1], Expected(TCPCONLIST[1].number)))
  BY <1>2 DEF Stream, Spoilt, Flowing
<1>4. \A c \in Client : GotOK(client'[c]) /\ \A x \in Range(wire'[c]) : Fits(x, client'[c].st)
  BY <1>1, <1>3 DEF Flowing
<1>5. ASSUME NEW e,
             TCPCONLIST # <<>> =>
               /\ e = Expected(TCPCONLIST[1].number)
               /\ e = IF httpd'.number = TCPCONLIST[1].number /\ httpd'.answered THEN PIECES + 3 - Len(calls') ELSE 2
      PROVE  Stream'
  <2>1. TCPCONLIST' # <<>> =>
          /\ e = IF httpd'.number = TCPCONLIST'[1].number /\ httpd'.answered THEN PIECES + 3 - Len(calls') ELSE 2
          /\ ConStream(TCPCONLIST'[1], e)
    BY <1>1, <1>3, <1>5
  <2> QED BY <1>4, <2>1, StreamNext
<1>6. CASE TCP_CMD_ESTAB
  <2>1. httpd'.answered = FALSE /\ (TCPCONLIST # <<>> => TCPCONLIST[1].number # httpd.number)
    BY <1>6, ESTABIs
  <2>2. TCPCONLIST # <<>> => Expected(TCPCONLIST[1].number) = 2
    BY <2>1 DEF Expected
  <2> QED BY <1>5, <2>1, <2>2
<1>7. CASE closed
  <2>1. HTTPD # <<>> /\ Head(HTTPD).cmd = "CLOSE"
    BY <1>7 DEF closed, kz_recv
  <2>2. TCPCONLIST = <<>>
    BY <2>1, ClosedIs
  <2> QED BY <1>5, <2>2
<1>8. CASE TCP_CMD_RECV
  <2>1. Reads
    BY <1>8, RECVIs
  <2>2. httpd'.number = httpd.number /\ calls = <<>> /\ PIECES \in Nat
    BY <2>1, HttpdAssumption DEF Reads
  <2>3. CASE calls' = <<>> /\ httpd'.answered = httpd.answered
    <3>1. \A n : Expected(n) = IF httpd'.number = n /\ httpd'.answered THEN PIECES + 3 - Len(calls') ELSE 2
      BY <2>2, <2>3 DEF Expected
    <3> QED BY <1>5, <3>1
  <2>4. CASE /\ Len(calls') = PIECES + 1 /\ (httpd.answered => "second" \in seen')
    <3>1. ~httpd.answered
      BY <2>4 DEF Spoilt
    <3>2. PIECES + 3 - Len(calls') = 2
      BY <2>2, <2>4
    <3>3. \A n : Expected(n) = 2
      BY <3>1 DEF Expected
    <3> QED BY <1>5, <3>2, <3>3
  <2> QED BY <2>1, <2>2, <2>3, <2>4 DEF Reads, Asks
<1> QED BY <1>6, <1>7, <1>8 DEF httpd_main

LEMMA StreamsClient ==
  ASSUME Order, Paths, Stream, UNCHANGED <<TCPCONLIST, number, calls, httpd>>, NEW c \in Client, Alters(c),
         seen \subseteq seen',
         \/ Acting(client[c], net[c], wire[c], client'[c], net'[c], wire'[c])
         \/ Leaves(client[c], net[c], wire[c], client'[c], net'[c], wire'[c])
  PROVE  Stream'
<1> SUFFICES ASSUME ~Spoilt' PROVE Stream'
  BY DEF Spoilt, Stream
<1>1. ~Spoilt /\ Straight
  BY DEF Spoilt, Straight
<1>2. /\ Flowing /\ (TCPCONLIST # <<>> => ConStream(TCPCONLIST[1], Expected(TCPCONLIST[1].number)))
      /\ Path(TCPCONLIST, c, client[c], net[c], wire[c])
  BY <1>1 DEF Stream, Spoilt, Flowing, Paths
<1>3. GotOK(client'[c]) /\ \A x \in Range(wire'[c]) : Fits(x, client'[c].st)
  <2>1. GotOK(client[c]) /\ \A x \in Range(wire[c]) : Fits(x, client[c].st)
    BY <1>2 DEF Flowing
  <2> QED BY <1>2, <2>1, ActingStream
<1>4. \A d \in Client : GotOK(client'[d]) /\ \A x \in Range(wire'[d]) : Fits(x, client'[d].st)
  <2> SUFFICES ASSUME NEW d \in Client, d # c
               PROVE  GotOK(client'[d]) /\ \A x \in Range(wire'[d]) : Fits(x, client'[d].st)
    BY <1>3
  <2>1. client'[d] = client[d] /\ wire'[d] = wire[d]
    BY DEF Alters
  <2> QED BY <1>2, <2>1 DEF Flowing
<1>5. PICK e : e = Expected(TCPCONLIST[1].number)
  OBVIOUS
<1>6. TCPCONLIST' # <<>> =>
        /\ e = IF httpd'.number = TCPCONLIST'[1].number /\ httpd'.answered THEN PIECES + 3 - Len(calls') ELSE 2
        /\ ConStream(TCPCONLIST'[1], e)
  <2>1. TCPCONLIST' = TCPCONLIST /\ httpd' = httpd /\ calls' = calls
    OBVIOUS
  <2> QED BY <1>2, <1>5, <2>1 DEF Expected
<1> QED BY <1>4, <1>6, StreamNext

LEMMA StreamStays ==
  ASSUME Stream, UNCHANGED <<TCPCONLIST, calls, httpd, client, wire>>, seen \subseteq seen'
  PROVE  Stream'
<1> SUFFICES ASSUME ~Spoilt' PROVE Stream'
  BY DEF Spoilt, Stream
<1>1. Flowing /\ (TCPCONLIST # <<>> => ConStream(TCPCONLIST[1], Expected(TCPCONLIST[1].number)))
  BY DEF Stream, Spoilt, Flowing
<1>2. PICK e : e = Expected(TCPCONLIST[1].number)
  OBVIOUS
<1>3. TCPCONLIST' # <<>> =>
        /\ e = IF httpd'.number = TCPCONLIST'[1].number /\ httpd'.answered THEN PIECES + 3 - Len(calls') ELSE 2
        /\ ConStream(TCPCONLIST'[1], e)
  <2>1. TCPCONLIST' = TCPCONLIST /\ httpd' = httpd /\ calls' = calls
    OBVIOUS
  <2> QED BY <1>1, <1>2, <2>1 DEF Expected
<1>4. \A c \in Client : GotOK(client'[c]) /\ \A x \in Range(wire'[c]) : Fits(x, client'[c].st)
  BY <1>1 DEF Flowing
<1> QED BY <1>3, <1>4, StreamNext

-----------------------------------------------------------------------------
(* Calm.                                                                   *)

LEMMA CalmNext ==
  ASSUME ~wild', Serene(TCPCONLIST', httpd', calls'), Mentions(TCPCONLIST', HTTPD', httpd', calls'),
         \A c \in Client : Orderly(TCPCONLIST', c, client'[c], net'[c], wire'[c])
  PROVE  Calm'
<1>1. Serene(TCPCONLIST, httpd, calls)'
  BY DEF Serene, CalmCon, Finishing, Ends, Range
<1>2. Mentions(TCPCONLIST, HTTPD, httpd, calls)'
  BY DEF Mentions, Has, Range
<1>3. (\A c \in Client : Orderly(TCPCONLIST, c, client[c], net[c], wire[c]))'
  BY DEF Orderly, Live, There, EndsLast, Ceases, Ends, Opens, Sized, Size, Unended, Range
<1> QED BY <1>1, <1>2, <1>3 DEF Calm

\* No segment gets to another one's connection.
LEMMA NotStray ==
  ASSUME Paths, Calm, Quiet, NEW con, TCPCONLIST = <<con>>,
         NEW c \in Client, net[c] # <<>>, NEW seg, seg = Head(net[c])
  PROVE  ~Stray(con, c, seg)
<1>1. Path(<<con>>, c, client[c], net[c], wire[c]) /\ Orderly(<<con>>, c, client[c], net[c], wire[c])
  BY DEF Paths, Straight, Calm
<1>2. Sequence(net[c])
  BY <1>1 DEF Path, Typed
<1>3. seg \in Range(net[c])
  BY <1>2, RangeTail
<1>4. ASSUME ~Opens(seg) PROVE con.peer = c
  <2>1. Live(client[c], net[c])
    BY <1>3, <1>4 DEF Live
  <2>2. There(<<con>>, c)
    BY <1>1, <2>1 DEF Orderly
  <2> QED BY <2>2, ThereIs
<1> QED BY <1>4 DEF Stray, Opens

LEMMA CalmsReceive ==
  ASSUME IInv, Shape, Order, Paths, Calm, NEW con, TCPCONLIST = <<con>>,
         NEW c \in Client, net[c] # <<>>, NEW seg, seg = Head(net[c]),
         NEW s, Received(con, c, seg, s), UNCHANGED <<client, calls, httpd, wild>>,
         \A x \in Client : net'[x] = Passed(x, c, net[x])
  PROVE  Calm'
<1> SUFFICES ASSUME Quiet' PROVE Calm'
  BY DEF Calm
<1>0. Quiet /\ Straight
  <2>1. seen \subseteq seen'
    BY DEF Received
  <2> QED BY <2>1, StraightBack DEF Straight
<1>1. ~Stray(con, c, seg)
  BY <1>0, NotStray
<1>2. /\ ConOK(con) /\ Formed(con) /\ seg = net[c][1] /\ seg.ack \in Int
      /\ Outcome(con, c, seg, s)
      /\ \A x \in Client : /\ Path(<<con>>, x, client[x], net[x], wire[x])
                           /\ wire'[x] = Joins(x, s, wire[x])
  BY <1>0, <1>1, ReceivedIs
<1>3. /\ ~wild /\ Serene(<<con>>, httpd, calls) /\ Mentions(<<con>>, HTTPD, httpd, calls)
      /\ \A x \in Client : Orderly(<<con>>, x, client[x], net[x], wire[x])
      /\ <<con>>[1] = con /\ <<con>> # <<>>
  BY <1>0 DEF Calm
<1>4. CalmCon(con) /\ (Finishing(con) => httpd.number = con.number /\ httpd.answered /\ calls = <<>>)
  BY <1>3 DEF Serene
<1>5. Calmly(con, c, seg, s)
  BY <1>2, <1>3, <1>4, CalmOutcome
<1>6. /\ TCPCONLIST' = Left(s) /\ <<s.con>>[1] = s.con /\ <<s.con>> # <<>> /\ s.closed \in BOOLEAN
      /\ s.con.number = con.number /\ Receives(con, s) /\ HTTPD' = HTTPD \o Told(s)
  BY DEF Received, Receives, WorkOK
<1>7. Known(con) /\ Rising(HTTPD, httpd.number) /\ Sequence(HTTPD) /\ httpd.number \in Int
  <2>1. TCPCONLIST # <<>> /\ TCPCONLIST[1] = con
    BY OneCon
  <2> QED BY <2>1 DEF IInv, Server, Order, Numbers, Boxed
<1>8. /\ Range(HTTPD') = Range(HTTPD) \cup Telling(s)
      /\ \A x \in Range(s.told) : x.cmd = "RECV" /\ x.number = con.number
  BY <1>6, <1>7, TellingIs
<1>9. \A x \in Client : Orderly(TCPCONLIST', x, client'[x], net'[x], wire'[x])
  <2> SUFFICES ASSUME NEW x \in Client PROVE Orderly(TCPCONLIST', x, client'[x], net'[x], wire'[x])
    OBVIOUS
  <2>1. Orderly(Left(s), x, client[x], Passed(x, c, net[x]), Joins(x, s, wire[x]))
    <3>1. x = c => net[x] # <<>> /\ seg = net[x][1]
      BY <1>2
    <3> QED BY <1>2, <1>3, <1>5, <3>1, OrderlyReceive
  <2>2. /\ TCPCONLIST' = Left(s) /\ client'[x] = client[x] /\ net'[x] = Passed(x, c, net[x])
        /\ wire'[x] = Joins(x, s, wire[x])
    BY <1>2, <1>6
  <2> QED BY <2>1, <2>2
<1>10. CASE s.closed
  <2>1. TCPCONLIST' = <<>>
    BY <1>6, <1>10 DEF Left
  <2>2. Finishing(con)
    BY <1>5, <1>10 DEF Calmly, Ignores, Welcomes
  <2>3. httpd.number = con.number /\ httpd.answered /\ calls = <<>>
    BY <1>4, <2>2
  <2>4. \A x \in Range(HTTPD) : x.cmd # "ESTAB"
    <3> SUFFICES ASSUME NEW x \in Range(HTTPD), x.cmd = "ESTAB" PROVE FALSE
      OBVIOUS
    <3>1. x.number = httpd.number
      BY <1>3, <2>3 DEF Mentions, Has
    <3>2. PICK k \in 1..Len(HTTPD) : x = HTTPD[k]
      BY <1>7, RangeIs
    <3>3. x.number > httpd.number
      BY <1>7, <3>2 DEF Rising
    <3> QED BY <1>7, <3>1, <3>3
  <2>5. ~s.opened
    BY <1>6, <1>7, <2>3 DEF Receives, Known, Unmentioned
  <2>6. \A x \in Telling(s) : x.cmd # "ESTAB"
    BY <1>8, <2>5 DEF Telling, signal
  <2>7. Mentions(TCPCONLIST', HTTPD', httpd', calls')
    BY <1>8, <2>3, <2>4, <2>6 DEF Mentions
  <2>8. Serene(TCPCONLIST', httpd', calls')
    BY <2>1 DEF Serene
  <2> QED BY <1>3, <1>9, <2>7, <2>8, CalmNext
<1>11. CASE ~s.closed
  <2>1. TCPCONLIST' = <<s.con>> /\ TCPCONLIST' # <<>> /\ TCPCONLIST'[1] = s.con
    BY <1>6, <1>11 DEF Left
  <2>2. CalmCon(s.con) /\ (Finishing(s.con) => Finishing(con))
    BY <1>4, <1>5, <1>11, CalmReceive
  <2>3. Serene(TCPCONLIST', httpd', calls')
    BY <1>4, <1>6, <2>1, <2>2 DEF Serene
  <2>4. \A n : Has(<<con>>, n) => Has(TCPCONLIST', n)
    BY <1>3, <1>6, <2>1 DEF Has
  <2>5. \A x \in Telling(s) : x.cmd = "ESTAB" => Has(TCPCONLIST', x.number)
    BY <1>8, <2>1 DEF Telling, signal, Has
  <2>6. Mentions(TCPCONLIST', HTTPD', httpd', calls')
    BY <1>3, <1>8, <2>4, <2>5 DEF Mentions
  <2> QED BY <1>3, <1>9, <2>3, <2>6, CalmNext
<1> QED BY <1>10, <1>11

LEMMA OrderlyServe ==
  ASSUME NEW con, NEW s, Sound(con, s), NEW c, NEW k, NEW out, NEW in,
         Path(<<con>>, c, k, out, in), Orderly(<<con>>, c, k, out, in),
         \A j \in 1..Len(s.sent) : Sized(s.sent[j]) => j = 1 /\ con.status \in Unended
  PROVE  Orderly(<<s.con>>, c, k, out, Joins(c, s, in))
<1>1. /\ <<con>>[1] = con /\ <<s.con>>[1] = s.con /\ <<con>> # <<>>
      /\ There(<<con>>, c) <=> con.peer = c
      /\ There(<<s.con>>, c) <=> s.con.peer = c
  BY ThereIs
<1>2. s.con.peer = con.peer /\ Sequence(s.sent) /\ (s.con.status \in Unended => con.status \in Unended)
  BY DEF Sound, WorkOK
<1>3. CASE c = con.peer
  <2>1. PICK t : t = s.sent
    OBVIOUS
  <2>2. /\ Ceases(in \o t)
        /\ k.st \in {"closewait", "lastack", "done"} => \A x \in Range(in \o t) : ~Sized(x)
    <3>1. Sequence(t) /\ \A j \in 1..Len(t) : Sized(t[j]) => j = 1 /\ con.status \in Unended
      BY <1>2, <2>1
    <3> QED BY <1>1, <1>3, <3>1, OrderlyMore
  <2>3. Joins(c, s, in) = in \o t
    BY <1>2, <1>3, <2>1 DEF Joins
  <2> QED BY <1>1, <1>2, <1>3, <2>2, <2>3 DEF Orderly
<1>4. CASE c # con.peer
  <2>1. Joins(c, s, in) = in
    BY <1>2, <1>4 DEF Joins
  <2> QED BY <1>1, <1>2, <1>4, <2>1 DEF Orderly
<1> QED BY <1>3, <1>4

LEMMA CalmsServe ==
  ASSUME IInv, Shape, Order, Paths, Calm, NEW e, Serves(e), UNCHANGED <<HTTPD, httpd, net, client>>
  PROVE  Calm'
<1> SUFFICES ASSUME Quiet' PROVE Calm'
  BY DEF Calm
<1> DEFINE h == httpd.number
<1>0. /\ e \in 2..(PIECES + 2) /\ calls' = Tail(calls)
      /\ Rest(calls, h) /\ httpd.answered /\ e = Expected(h)
  BY DEF Serves
<1>1. /\ calls # <<>> /\ calls[1].cmd # "ACCEPT"
      /\ e = PIECES + 2 => calls' = <<>>
      /\ calls' # <<>> => calls'[1].cmd # "ACCEPT"
  <2>1. PICK f : f = PIECES + 3 - Len(calls)
    OBVIOUS
  <2>2. f = e
    BY <1>0, <2>1 DEF Expected
  <2>3. /\ calls # <<>> /\ Head(calls) = Asked(h, e)
        /\ IF e = PIECES + 2 THEN Tail(calls) = <<>> ELSE Rest(Tail(calls), h)
    BY <1>0, <2>1, <2>2, RestIs
  <2>4. \A n, i : Asked(n, i).cmd # "ACCEPT"
    BY DEF Asked, call
  <2>5. Head(calls) = calls[1]
    BY <1>0, <2>3, Tailed DEF Rest
  <2>6. ASSUME Rest(Tail(calls), h) PROVE calls'[1].cmd # "ACCEPT"
    <3>1. PICK q, i : q = Tail(calls) /\ i = PIECES + 3 - Len(q)
      OBVIOUS
    <3>2. q # <<>> /\ Head(q) = Asked(h, i) /\ Sequence(q)
      BY <2>6, <3>1, RestIs DEF Rest
    <3>3. q[1] = Asked(h, i)
      BY <3>2, Tailed
    <3> QED BY <1>0, <2>4, <3>1, <3>3
  <2> QED BY <1>0, <2>3, <2>4, <2>5, <2>6
<1>2. CASE ~Exists(h) /\ UNCHANGED <<TCPCONLIST, number, seen, wire>>
  <2>1. Quiet
    BY <1>2 DEF Quiet
  <2>2. Has(TCPCONLIST, h)
    BY <1>1, <2>1 DEF Calm, Mentions
  <2> QED BY <1>2, <2>2 DEF Exists, Has
<1>3. ASSUME Exists(h), UNCHANGED wild, TCPCONLIST = <<TCPCONLIST[1]>>, Known(TCPCONLIST[1]),
             NEW s, Enqueued(TCPCONLIST[1], Piece(e), s), TCPCONLIST' = <<s.con>>, seen' = s.seen,
             \A x \in Client : wire'[x] = Joins(x, s, wire[x])
      PROVE  Calm'
  <2>1. PICK con : con = TCPCONLIST[1]
    OBVIOUS
  <2>2. TCPCONLIST = <<con>> /\ TCPCONLIST # <<>> /\ con.number = h /\ Known(con) /\ Enqueued(con, Piece(e), s)
    BY <1>3, <2>1 DEF Exists
  <2>3. Quiet /\ Straight
    <3>1. seen \subseteq seen'
      BY <1>3, <2>2 DEF Enqueued, Leads
    <3> QED BY <3>1, StraightBack DEF Straight
  <2>4. /\ ConOK(con) /\ Formed(con) /\ Sound(con, s) /\ Packet(Piece(e)) /\ con.status \notin Early
    BY <1>0, <2>1, <2>2, <2>3, ServedIs
  <2>5. /\ ~wild /\ Serene(<<con>>, httpd, calls) /\ Mentions(<<con>>, HTTPD, httpd, calls)
        /\ \A x \in Client : Orderly(<<con>>, x, client[x], net[x], wire[x])
        /\ \A x \in Client : Path(<<con>>, x, client[x], net[x], wire[x])
        /\ <<con>>[1] = con /\ <<con>> # <<>> /\ <<s.con>>[1] = s.con /\ <<s.con>> # <<>>
    BY <2>2, <2>3 DEF Calm, Paths
  <2>6. CalmCon(con) /\ ~Finishing(con)
    BY <1>1, <2>5 DEF Serene
  <2>7. con.status = "ESTAB" /\ con.status \in Unended
    BY <2>4, <2>6 DEF ConOK, Status, Early, Formed, CalmCon, Finishing, Unended
  <2>8. CalmCon(s.con) /\ (Finishing(s.con) => Ends(Piece(e))) /\ \A k \in 1..Len(s.sent) : k = 1
    <3>1. PICK b, pkt : b = Begin(con, seen) /\ pkt = Piece(e)
      OBVIOUS
    <3>2. b.con = con /\ b.sent = <<>> /\ Flushes(b, s, Append(con.send_queue, pkt)) /\ Packet(pkt)
      BY <2>2, <2>4, <3>1 DEF Enqueued, Starts
    <3>3. CalmCon(s.con) /\ (Finishing(s.con) => Ends(pkt)) /\ \A k \in 1..Len(s.sent) : k = 1
      BY <2>4, <2>6, <2>7, <3>2, FlushCalm
    <3> QED BY <3>1, <3>3
  <2>9. Finishing(s.con) => calls' = <<>>
    <3>1. Ends(Piece(e)) => e = PIECES + 2
      BY <1>0, PieceIs DEF Ends
    <3> QED BY <1>1, <2>8, <3>1
  <2>10. s.con.number = h
    BY <2>2, <2>4 DEF Sound
  <2>11. Serene(TCPCONLIST', httpd', calls')
    BY <1>0, <1>3, <2>5, <2>8, <2>9, <2>10 DEF Serene
  <2>12. Mentions(TCPCONLIST', HTTPD', httpd', calls')
    <3>1. \A n : Has(<<con>>, n) => Has(TCPCONLIST', n)
      BY <1>3, <2>2, <2>5, <2>10 DEF Has
    <3>2. Has(TCPCONLIST', h)
      BY <1>3, <2>5, <2>10 DEF Has
    <3> QED BY <2>5, <3>1, <3>2 DEF Mentions
  <2>13. ASSUME NEW x \in Client PROVE Orderly(TCPCONLIST', x, client'[x], net'[x], wire'[x])
    <3>1. Orderly(<<s.con>>, x, client[x], net[x], Joins(x, s, wire[x]))
      BY <2>4, <2>5, <2>7, <2>8, OrderlyServe
    <3>2. /\ TCPCONLIST' = <<s.con>> /\ client'[x] = client[x] /\ net'[x] = net[x]
          /\ wire'[x] = Joins(x, s, wire[x])
      BY <1>3
    <3> QED BY <3>1, <3>2
  <2> QED BY <1>3, <2>5, <2>11, <2>12, <2>13, CalmNext
<1> QED BY <1>2, <1>3 DEF Serves

LEMMA CalmsAccept ==
  ASSUME IInv, Order, Calm, accept
  PROVE  Calm'
<1>1. /\ TCPCONLIST = <<>> /\ TCPCONLIST' = <<Listening>> /\ calls' = <<>>
      /\ UNCHANGED <<HTTPD, httpd, wild, net, wire, client, seen>>
  BY AcceptIs
<1> SUFFICES ASSUME Quiet PROVE Calm'
  BY <1>1 DEF Calm, Quiet
<1>2. TCPCONLIST'[1] = Listening
  <2>1. <<Listening>>[1] = Listening
    OBVIOUS
  <2> QED BY <1>1, <2>1
<1>3. /\ Listening.status = "LISTEN" /\ Listening.peer = None
      /\ Listening.send_queue = <<>> /\ Range(Listening.send_queue) = {}
  <2>1. Listening.status = "LISTEN" /\ Listening.peer = None /\ Listening.send_queue = <<>>
    BY DEF Listening
  <2> QED BY <2>1, RangeEmpty
<1> HIDE DEF Listening
<1>4. CalmCon(Listening) /\ ~Finishing(Listening)
  BY <1>3 DEF CalmCon, Finishing
<1>5. Serene(TCPCONLIST', httpd', calls')
  BY <1>2, <1>4 DEF Serene
<1>6. Mentions(TCPCONLIST', HTTPD', httpd', calls')
  BY <1>1 DEF Calm, Mentions, Has
<1>7. ASSUME NEW x \in Client PROVE Orderly(TCPCONLIST', x, client'[x], net'[x], wire'[x])
  <2>1. Orderly(<<>>, x, client[x], net[x], wire[x])
    BY <1>1 DEF Calm
  <2>2. None # x
    BY HttpdAssumption
  <2>3. ~There(<<>>, x) /\ ~There(<<Listening>>, x)
    BY <1>3, <2>2, ThereIs
  <2>4. Orderly(<<Listening>>, x, client[x], net[x], wire[x])
    BY <2>1, <2>3 DEF Orderly
  <2> QED BY <1>1, <2>4
<1> QED BY <1>1, <1>5, <1>6, <1>7, CalmNext DEF Calm

\* Data that httpd takes came from the connection it knows.
LEMMA ReadNumber ==
  ASSUME IInv, Order, "early" \notin seen, HTTPD # <<>>, Head(HTTPD).cmd = "RECV"
  PROVE  httpd.number # 0 /\ httpd.p
<1>1. Sequence(HTTPD) /\ RightBox(HTTPD, httpd.number) /\ Marked /\ Pointed
  BY DEF IInv, Numbers, Boxed, Right, Order
<1>2. Head(HTTPD) = HTTPD[1] /\ HTTPD[1] \in Range(HTTPD) /\ 1 \in 1..Len(HTTPD)
  <2>1. Len(HTTPD) \in Nat \ {0} /\ Head(HTTPD) = HTTPD[1]
    BY <1>1, Tailed
  <2>2. HTTPD[1] \in Range(HTTPD)
    BY <1>1, RangeTail
  <2> QED BY <2>1, <2>2
<1>3. NumberAt(HTTPD, httpd.number, 1) = HTTPD[1].number
  BY <1>1, <1>2 DEF RightBox
<1>4. HTTPD[1].number = httpd.number
  BY <1>3, NumberFirst
<1>5. HTTPD[1].number # 0
  BY <1>1, <1>2 DEF Marked
<1> QED BY <1>1, <1>4, <1>5 DEF Pointed

LEMMA CalmsHttpd ==
  ASSUME IInv, Order, Calm, httpd_main
  PROVE  Calm'
<1>1. UNCHANGED <<TCPCONLIST, net, wire, client>> /\ seen \subseteq seen'
  BY DEF httpd_main, TCP_CMD_ESTAB, closed, TCP_CMD_RECV, kz_recv, conVars
<1> SUFFICES ASSUME Quiet' PROVE Calm'
  BY DEF Calm
<1>2. Quiet
  BY <1>1, StraightBack
<1>3. /\ ~wild /\ Serene(TCPCONLIST, httpd, calls) /\ Mentions(TCPCONLIST, HTTPD, httpd, calls)
      /\ \A c \in Client : Orderly(TCPCONLIST', c, client'[c], net'[c], wire'[c])
  BY <1>1, <1>2 DEF Calm
<1>4. CASE TCP_CMD_ESTAB
  <2>1. /\ HTTPD[1].cmd = "ESTAB" /\ HTTPD[1] \in Range(HTTPD)
        /\ Range(HTTPD') \subseteq Range(HTTPD)
        /\ httpd'.number = HTTPD[1].number /\ calls' = <<>> /\ UNCHANGED wild
        /\ TCPCONLIST # <<>> => TCPCONLIST[1].number # httpd.number
    BY <1>4, ESTABIs
  <2>2. TCPCONLIST # <<>> => ~Finishing(TCPCONLIST[1])
    BY <1>3, <2>1 DEF Serene
  <2>3. Serene(TCPCONLIST', httpd', calls')
    BY <1>1, <1>3, <2>2 DEF Serene
  <2>4. Mentions(TCPCONLIST', HTTPD', httpd', calls')
    BY <1>1, <1>3, <2>1 DEF Mentions
  <2> QED BY <1>3, <2>1, <2>3, <2>4, CalmNext
<1>5. CASE closed
  <2>1. /\ HTTPD # <<>> /\ Head(HTTPD).cmd = "CLOSE" /\ HTTPD' = Tail(HTTPD) /\ UNCHANGED wild
        /\ httpd' = [httpd EXCEPT !.number = 0] /\ calls' = <<send_accept>>
    BY <1>5 DEF closed, kz_recv
  <2>2. TCPCONLIST = <<>>
    BY <2>1, ClosedIs
  <2>3. Range(HTTPD') \subseteq Range(HTTPD)
    BY <2>1, RangeTail DEF IInv, Numbers, Boxed
  <2>4. httpd'.number = 0 /\ calls'[1].cmd = "ACCEPT"
    BY <2>1 DEF IInv, Numbers, send_accept, call
  <2>5. Serene(TCPCONLIST', httpd', calls')
    BY <1>1, <2>2 DEF Serene
  <2>6. Mentions(TCPCONLIST', HTTPD', httpd', calls')
    BY <1>1, <1>3, <2>3, <2>4 DEF Mentions
  <2> QED BY <1>3, <2>1, <2>5, <2>6, CalmNext
<1>6. CASE TCP_CMD_RECV
  <2>1. Reads
    BY <1>6, RECVIs
  <2>2. httpd.number # 0 /\ httpd.p
    BY <1>2, <2>1, ReadNumber DEF Reads, Quiet
  <2>3. /\ calls = <<>> /\ httpd'.number = httpd.number /\ UNCHANGED wild /\ Asks
        /\ Range(HTTPD') \subseteq Range(HTTPD)
    BY <2>1, <2>2, RangeTail DEF Reads, IInv, Numbers, Boxed
  <2>4. CASE calls' = <<>> /\ httpd'.answered = httpd.answered
    <3>1. Serene(TCPCONLIST', httpd', calls')
      BY <1>1, <1>3, <2>3, <2>4 DEF Serene
    <3>2. Mentions(TCPCONLIST', HTTPD', httpd', calls')
      BY <1>1, <1>3, <2>3, <2>4 DEF Mentions
    <3> QED BY <1>3, <2>3, <3>1, <3>2, CalmNext
  <2>5. CASE httpd'.answered = TRUE /\ (httpd.answered => "second" \in seen')
    <3>1. ~httpd.answered
      BY <2>5 DEF Quiet
    <3>2. Has(TCPCONLIST, httpd.number)
      BY <1>3, <2>2, <3>1 DEF Mentions
    <3>3. Serene(TCPCONLIST', httpd', calls')
      BY <1>1, <1>3, <3>1 DEF Serene
    <3>4. Mentions(TCPCONLIST', HTTPD', httpd', calls')
      BY <1>1, <1>3, <2>3, <2>5, <3>2 DEF Mentions
    <3> QED BY <1>3, <2>3, <3>3, <3>4, CalmNext
  <2> QED BY <2>3, <2>4, <2>5 DEF Asks
<1> QED BY <1>4, <1>5, <1>6 DEF httpd_main

LEMMA CalmsClient ==
  ASSUME Paths, Calm, UNCHANGED board, seen \subseteq seen', NEW c \in Client, Alters(c),
         Acting(client[c], net[c], wire[c], client'[c], net'[c], wire'[c])
  PROVE  Calm'
<1> SUFFICES ASSUME Quiet PROVE Calm'
  BY StraightBack DEF Calm
<1>1. /\ ~wild /\ Serene(TCPCONLIST, httpd, calls) /\ Mentions(TCPCONLIST, HTTPD, httpd, calls)
      /\ \A x \in Client : Orderly(TCPCONLIST, x, client[x], net[x], wire[x])
      /\ \A x \in Client : Path(TCPCONLIST, x, client[x], net[x], wire[x])
  BY DEF Calm, Paths, Straight
<1>2. TCPCONLIST' = TCPCONLIST /\ HTTPD' = HTTPD /\ httpd' = httpd /\ calls' = calls /\ wild' = wild
  BY DEF board, conVars
<1>3. Orderly(TCPCONLIST, c, client'[c], net'[c], wire'[c])
  BY <1>1, ActingCalm
<1>4. ASSUME NEW x \in Client PROVE Orderly(TCPCONLIST', x, client'[x], net'[x], wire'[x])
  <2>1. CASE x = c
    BY <1>2, <1>3, <2>1
  <2>2. CASE x # c
    <3>1. client'[x] = client[x] /\ net'[x] = net[x] /\ wire'[x] = wire[x]
      BY <2>2 DEF Alters
    <3> QED BY <1>1, <1>2, <3>1
  <2> QED BY <2>1, <2>2
<1> QED BY <1>1, <1>2, <1>4, CalmNext

LEMMA CalmStays ==
  ASSUME Calm, UNCHANGED <<TCPCONLIST, HTTPD, httpd, calls, wild, client, net, wire>>, seen \subseteq seen'
  PROVE  Calm'
<1> SUFFICES ASSUME Quiet PROVE Calm'
  BY StraightBack DEF Calm
<1>1. /\ TCPCONLIST' = TCPCONLIST /\ HTTPD' = HTTPD /\ httpd' = httpd /\ calls' = calls /\ wild' = wild
      /\ client' = client /\ net' = net /\ wire' = wire
  OBVIOUS
<1> QED BY <1>1, CalmNext DEF Calm

-----------------------------------------------------------------------------
(* A segment that comes when there is no connection is dropped.            *)

LEMMA PathDrop ==
  ASSUME NEW c, NEW k, NEW out, NEW in, Path(<<>>, c, k, out, in), out # <<>>
  PROVE  Path(<<>>, c, k, Tail(out), in)
<1>1. Typed(k, out, in) /\ Sequence(out) /\ Outgoing(k, out) /\ Alone(k, out, in) /\ ~There(<<>>, c)
  BY ThereIs DEF Path, Typed
<1> DEFINE rest == Tail(out)
<1>2. Sequence(rest) /\ Outgoing(k, rest) /\ \A x \in Range(rest) : ~Opens(x)
  BY <1>1, OutgoingTail
<1> HIDE DEF rest
<1>3. Typed(k, rest, in) /\ Alone(k, rest, in)
  BY <1>1, <1>2 DEF Typed, Alone
<1> QED BY <1>1, <1>2, <1>3 DEF Path, rest

LEMMA OrderlyDrop ==
  ASSUME NEW c, NEW k, NEW out, NEW in, Path(<<>>, c, k, out, in), Orderly(<<>>, c, k, out, in), out # <<>>
  PROVE  Orderly(<<>>, c, k, Tail(out), in)
<1>1. Sequence(out) /\ ~There(<<>>, c) /\ ~Live(k, out) /\ EndsLast(out)
  BY ThereIs DEF Path, Typed, Orderly
<1>2. Range(Tail(out)) \subseteq Range(out)
  BY <1>1, RangeTail
<1>3. EndsLast(Tail(out))
  BY <1>1, LastOut
<1>4. ~Live(k, Tail(out))
  BY <1>1, <1>2 DEF Live
<1> QED BY <1>1, <1>3, <1>4 DEF Orderly

LEMMA JDrop ==
  ASSUME Order, Paths, Stream, Calm, NEW c \in Client, Shape, TCP_CMD_IPRECV(c), TCPCONLIST = <<>>
  PROVE  Order' /\ Paths' /\ Stream' /\ Calm'
<1>1. /\ net[c] # <<>> /\ \A x \in Client : net'[x] = Passed(x, c, net[x])
      /\ UNCHANGED <<calls, httpd, wild, client, TCPCONLIST, number, HTTPD, wire, seen>>
  BY PassedIs DEF TCP_CMD_IPRECV, conVars
<1>2. UNCHANGED board
  BY <1>1 DEF board, conVars
<1>3. Order' /\ Stream'
  BY <1>1, <1>2, OrderStays, StreamStays
<1>4. \A x \in Client : /\ x = c => net'[x] = Tail(net[x]) /\ net[x] # <<>>
                        /\ x # c => net'[x] = net[x]
  BY <1>1 DEF Passed
<1>5. TCPCONLIST' = <<>> /\ client' = client /\ wire' = wire
  BY <1>1
<1>6. ASSUME Straight, NEW x \in Client
      PROVE  /\ Path(<<>>, x, client[x], net[x], wire[x])
             /\ Path(TCPCONLIST', x, client'[x], net'[x], wire'[x])
  <2>1. Path(<<>>, x, client[x], net[x], wire[x])
    BY <1>6 DEF Paths
  <2>2. x = c => Path(<<>>, x, client[x], Tail(net[x]), wire[x])
    BY <1>4, <2>1, PathDrop
  <2> QED BY <1>4, <1>5, <2>1, <2>2
<1>7. Paths'
  <2>1. Straight' => Straight
    BY <1>1, StraightBack
  <2> QED BY <1>5, <1>6, <2>1, PathsNext DEF Paths
<1>8. Calm'
  <2> SUFFICES ASSUME Quiet PROVE Calm'
    BY <1>1, StraightBack DEF Calm
  <2>1. /\ ~wild' /\ Serene(TCPCONLIST', httpd', calls') /\ Mentions(TCPCONLIST', HTTPD', httpd', calls')
        /\ \A x \in Client : Orderly(<<>>, x, client[x], net[x], wire[x])
    BY <1>1 DEF Calm
  <2>2. ASSUME NEW x \in Client PROVE Orderly(TCPCONLIST', x, client'[x], net'[x], wire'[x])
    <3>1. Path(<<>>, x, client[x], net[x], wire[x])
      BY <1>6 DEF Straight
    <3>2. x = c => Orderly(<<>>, x, client[x], Tail(net[x]), wire[x])
      BY <1>4, <2>1, <3>1, OrderlyDrop
    <3> QED BY <1>4, <1>5, <2>1, <3>2
  <2> QED BY <2>1, <2>2, CalmNext
<1> QED BY <1>3, <1>7, <1>8

-----------------------------------------------------------------------------
(* ReplyIntact and NeverWild.                                              *)

LEMMA ShapeNext == Shape /\ [Next]_vars => Shape'
<1> SUFFICES ASSUME Shape, [Next]_vars PROVE Shape'
  OBVIOUS
<1>1. ASSUME NEW cmd, NEW flags, TCP_CMD(cmd, flags) PROVE Shape'
  BY <1>1 DEF TCP_CMD, Shape
<1>2. CASE tcp_proc
  <2>1. CASE accept
    BY <2>1 DEF accept, Shape
  <2> QED BY <1>1, <1>2, <2>1 DEF tcp_proc, tcp_send, TCP_CMD_CLOSE
<1>3. CASE httpd_main
  BY <1>3 DEF httpd_main, TCP_CMD_ESTAB, closed, TCP_CMD_RECV, kz_recv, Shape
<1>4. ASSUME NEW c \in Client, TCP_CMD_IPRECV(c) PROVE Shape'
  <2>1. DOMAIN net' = Client /\ UNCHANGED client
    BY <1>4, PassedIs
  <2>2. DOMAIN wire' = Client
    <3>1. UNCHANGED wire \/ \E x, q : wire' = [wire EXCEPT ![x] = q]
      BY <1>4 DEF TCP_CMD_IPRECV
    <3> QED BY <3>1 DEF Shape
  <2> QED BY <2>1, <2>2 DEF Shape
<1>5. ASSUME NEW c \in Client,
             \/ connect(c) \/ establish(c) \/ receive(c) \/ refuse(c) \/ request(c)
             \/ retransmit(c) \/ close(c) \/ leave(c)
      PROVE  Shape'
  <2>1. UNCHANGED net \/ \E seg : sends(c, seg)
    BY <1>5 DEF connect, establish, receive, refuse, request, retransmit, close, leave
  <2>2. DOMAIN net' = Client
    BY <2>1 DEF sends, Shape
  <2>3. DOMAIN wire' = Client
    BY <1>5 DEF connect, establish, receive, refuse, request, retransmit, close, leave, Shape
  <2>4. DOMAIN client' = Client
    BY <1>5 DEF connect, establish, receive, refuse, request, retransmit, close, leave, Shape
  <2> QED BY <2>2, <2>3, <2>4 DEF Shape
<1>6. CASE UNCHANGED vars
  BY <1>6 DEF vars, Shape
<1> QED BY <1>2, <1>3, <1>4, <1>5, <1>6 DEF Next

\* When a segment got to another one's connection after all, nothing is left to show.
LEMMA Crooked ==
  ASSUME seen \subseteq seen'
  PROVE  ~Straight => Paths' /\ Stream' /\ Calm'
BY DEF Straight, Quiet, Paths, Stream, Calm

LEMMA JReceive ==
  ASSUME IInv, JInv, NEW c \in Client, TCP_CMD_IPRECV(c), TCPCONLIST # <<>>
  PROVE  Order' /\ Paths' /\ Stream' /\ Calm'
<1>0. Shape /\ Order /\ Paths /\ Stream /\ Calm
  BY DEF JInv
<1>1. PICK con, seg : con = TCPCONLIST[1] /\ seg = Head(net[c])
  OBVIOUS
<1>2. TCPCONLIST = <<con>>
  BY <1>1 DEF IInv, Server
<1>3. PICK s : Received(con, c, seg, s)
  <2>1. \E s : Received(TCPCONLIST[1], c, Head(net[c]), s)
    BY <1>0, IPRECVIs
  <2> QED BY <1>1, <2>1
<1>4. /\ net[c] # <<>> /\ \A x \in Client : net'[x] = Passed(x, c, net[x])
      /\ UNCHANGED <<calls, httpd, wild, client>>
  BY <1>0, PassedIs
<1>5. Order'
  BY <1>0, <1>1, <1>3, <1>4, OrderReceive
<1>6. Straight' => Straight /\ ~Stray(con, c, seg)
  <2> SUFFICES ASSUME Straight' PROVE Straight /\ ~Stray(con, c, seg)
    OBVIOUS
  <2>1. seen \subseteq seen'
    BY <1>3 DEF Received
  <2>2. Straight
    BY <2>1, StraightBack
  <2>3. CASE "stray" \notin seen'
    BY <1>3, <2>2, <2>3 DEF Received
  <2>4. CASE Quiet'
    <3>1. Quiet
      BY <2>1, <2>4, StraightBack
    <3> QED BY <1>0, <1>1, <1>2, <1>4, <2>2, <3>1, NotStray
  <2> QED BY <2>3, <2>4 DEF Straight
<1>7. Paths'
  BY <1>0, <1>1, <1>2, <1>3, <1>4, <1>6, PathsReceive
<1>8. Stream'
  BY <1>0, <1>1, <1>2, <1>3, <1>4, StreamsReceive
<1>9. Calm'
  BY <1>0, <1>1, <1>2, <1>3, <1>4, CalmsReceive
<1> QED BY <1>5, <1>7, <1>8, <1>9

LEMMA JServe ==
  ASSUME IInv, JInv, NEW cmd, NEW flags, Requested(cmd, flags), TCP_CMD(cmd, flags)
  PROVE  Order' /\ Paths' /\ Stream' /\ Calm'
<1>0. Shape /\ Order /\ Paths /\ Stream /\ Calm
  BY DEF JInv
<1>1. (\E e : Serves(e)) /\ UNCHANGED <<HTTPD, httpd, net, client>>
  BY <1>0, CMDIs
<1> QED BY <1>0, <1>1, OrderServe, PathsServe, StreamsServe, CalmsServe

LEMMA JAccept ==
  ASSUME IInv, JInv, accept
  PROVE  Order' /\ Paths' /\ Stream' /\ Calm'
BY OrderAccept, PathsAccept, StreamsAccept, CalmsAccept DEF JInv

LEMMA JHttpd ==
  ASSUME IInv, JInv, httpd_main
  PROVE  Order' /\ Paths' /\ Stream' /\ Calm'
<1>1. UNCHANGED <<TCPCONLIST, net, wire, client>> /\ seen \subseteq seen'
  BY DEF httpd_main, TCP_CMD_ESTAB, closed, TCP_CMD_RECV, kz_recv, conVars
<1> QED BY <1>1, OrderHttpd, PathsStay, StreamsHttpd, CalmsHttpd DEF JInv

LEMMA JClient ==
  ASSUME IInv, JInv, NEW c \in Client,
         \/ connect(c) \/ establish(c) \/ receive(c) \/ refuse(c) \/ request(c)
         \/ retransmit(c) \/ close(c) \/ leave(c)
  PROVE  Order' /\ Paths' /\ Stream' /\ Calm'
<1>0. Shape /\ Order /\ Paths /\ Stream /\ Calm
  BY DEF JInv
<1>1. UNCHANGED board /\ seen \subseteq seen'
  BY DEF connect, establish, receive, refuse, request, retransmit, close, leave
<1>2. Order'
  BY <1>0, <1>1, OrderStays
<1>3. CASE ~Straight
  BY <1>1, <1>2, <1>3, Crooked
<1>4. CASE Straight
  <2>1. Typed(client[c], net[c], wire[c])
    BY <1>0, <1>4 DEF Paths, Path
  <2>2. UNCHANGED <<TCPCONLIST, number, calls, httpd>>
    BY <1>1 DEF board, conVars
  <2>3. CASE leave(c)
    <3>1. /\ Alters(c) /\ seen' = seen \cup {"left"}
          /\ Leaves(client[c], net[c], wire[c], client'[c], net'[c], wire'[c])
      BY <1>0, <2>1, <2>3, LeaveIs
    <3>2. Paths' /\ Stream'
      BY <1>0, <1>1, <2>2, <3>1, PathsClient, StreamsClient
    <3>3. Calm'
      BY <3>1 DEF Calm, Quiet
    <3> QED BY <1>2, <3>2, <3>3
  <2>4. CASE ~leave(c)
    <3>1. Alters(c) /\ Acting(client[c], net[c], wire[c], client'[c], net'[c], wire'[c])
      BY <1>0, <2>1, <2>4, ClientIs
    <3> QED BY <1>0, <1>1, <1>2, <2>2, <3>1, PathsClient, StreamsClient, CalmsClient
  <2> QED BY <2>3, <2>4
<1> QED BY <1>3, <1>4

LEMMA NextJInv == IInv /\ JInv /\ [Next]_vars => JInv'
<1> SUFFICES ASSUME IInv, JInv, [Next]_vars PROVE JInv'
  OBVIOUS
<1>1. Shape'
  BY ShapeNext DEF JInv
<1> SUFFICES Order' /\ Paths' /\ Stream' /\ Calm'
  BY <1>1 DEF JInv
<1>2. CASE tcp_proc
  <2>1. Requested("SEND", {"PSH", "ACK"}) /\ Requested("CLOSE", {"FIN", "ACK"})
    BY DEF Requested
  <2> QED BY <1>2, <2>1, JServe, JAccept DEF tcp_proc, tcp_send, TCP_CMD_CLOSE
<1>3. CASE httpd_main
  BY <1>3, JHttpd
<1>4. ASSUME NEW c \in Client, TCP_CMD_IPRECV(c) PROVE Order' /\ Paths' /\ Stream' /\ Calm'
  BY <1>4, JReceive, JDrop DEF JInv
<1>5. ASSUME NEW c \in Client,
             \/ connect(c) \/ establish(c) \/ receive(c) \/ refuse(c) \/ request(c)
             \/ retransmit(c) \/ close(c) \/ leave(c)
      PROVE  Order' /\ Paths' /\ Stream' /\ Calm'
  BY <1>5, JClient
<1>6. CASE UNCHANGED vars
  <2>1. /\ UNCHANGED board /\ seen \subseteq seen'
        /\ UNCHANGED <<TCPCONLIST, HTTPD, httpd, calls, wild, client, net, wire>>
    BY <1>6 DEF vars, board, conVars
  <2> QED BY <2>1, OrderStays, PathsStay, StreamStays, CalmStays DEF JInv
<1> QED BY <1>2, <1>3, <1>4, <1>5, <1>6 DEF Next

LEMMA InitJInv == Init => JInv
<1> SUFFICES ASSUME Init PROVE JInv
  OBVIOUS
<1>1. /\ TCPCONLIST = <<>> /\ number = 0 /\ HTTPD = <<>> /\ calls = <<send_accept>>
      /\ httpd = [number |-> 0, p |-> FALSE, buffer |-> <<>>, answered |-> FALSE]
      /\ wild = FALSE /\ seen = {}
      /\ net = [c \in Client |-> <<>>] /\ wire = [c \in Client |-> <<>>]
  BY DEF Init
<1>2. PICK req : client = [c \in Client |-> [st |-> "closed", snd |-> 0, rcv |-> 0, req |-> req[c],
                                             unacked |-> <<>>, got |-> <<>>]]
  BY DEF Init
<1>3. /\ httpd.number = 0 /\ httpd.p = FALSE /\ httpd.answered = FALSE
      /\ Range(<<>>) = {} /\ Sequence(<<>>) /\ Len(<<>>) = 0
  BY <1>1, RangeEmpty, EmptySequence
<1>4. Shape
  BY <1>1, <1>2 DEF Shape
<1>5. Order
  <2>1. Newest /\ Marked /\ Pointed /\ Asking
    BY <1>1, <1>3 DEF Newest, Marked, Pointed, Asking
  <2>2. Rising(HTTPD, httpd.number)
    BY <1>1, <1>3 DEF Rising
  <2> QED BY <2>1, <2>2 DEF Order
<1>6. ASSUME NEW c \in Client
      PROVE  /\ Path(<<>>, c, client[c], net[c], wire[c]) /\ GotOK(client[c])
             /\ Orderly(<<>>, c, client[c], net[c], wire[c])
  <2>1. PICK k : k = client[c]
    OBVIOUS
  <2>2. /\ DOMAIN k = {"st", "snd", "rcv", "req", "unacked", "got"}
        /\ k.st = "closed" /\ k.rcv = 0 /\ k.unacked = <<>> /\ k.got = <<>>
        /\ net[c] = <<>> /\ wire[c] = <<>>
    BY <1>1, <1>2, <2>1
  <2>3. Typed(k, <<>>, <<>>) /\ Outgoing(k, <<>>) /\ Alone(k, <<>>, <<>>) /\ ~There(<<>>, c)
    BY <1>3, <2>2, ThereIs DEF Typed, Copies, States, Fresh, Outgoing, Alone
  <2>4. GotOK(k)
    <3>1. Reply(0) = <<>>
      BY DEF Reply
    <3>2. 0 \in 0..PIECES
      BY HttpdAssumption
    <3> QED BY <2>2, <3>1, <3>2 DEF GotOK
  <2>5. Orderly(<<>>, c, k, <<>>, <<>>)
    BY <1>3, <2>2, <2>3 DEF Orderly, Live, EndsLast, Ceases
  <2> QED BY <2>1, <2>2, <2>3, <2>4, <2>5 DEF Path
<1>7. Paths
  BY <1>1, <1>6 DEF Paths
<1>8. Stream
  <2>1. \A c \in Client : wire[c] = <<>>
    BY <1>1
  <2> QED BY <1>1, <1>3, <1>6, <2>1 DEF Stream
<1>9. Calm
  <2>1. calls[1].cmd = "ACCEPT"
    BY <1>1 DEF send_accept, call
  <2> QED BY <1>1, <1>3, <1>6, <2>1 DEF Calm, Serene, Mentions
<1> QED BY <1>4, <1>5, <1>7, <1>8, <1>9 DEF JInv

\* Clients receive the pieces of the reply in order, and all of them before the
\* end, unless tcp_sendpkt() rewound a number, httpd answered a second GET, or
\* tcp_recv() took a segment for another client's.
THEOREM ReplyCorrect == Spec => []ReplyIntact
<1>1. Stream => ReplyIntact
  <2> SUFFICES ASSUME Stream, seen \cap {"rewound", "second", "stray"} = {}, NEW c \in Client
               PROVE  /\ IsPrefix(client[c].got, Reply(PIECES))
                      /\ client[c].st \in {"closewait", "lastack"} => Len(client[c].got) = PIECES
    BY DEF ReplyIntact, Reply
  <2>1. GotOK(client[c])
    BY DEF Stream
  <2>2. PICK n \in 0..PIECES : client[c].got = Reply(n)
    BY <2>1 DEF GotOK
  <2>3. PIECES \in Nat /\ n \in Nat /\ n <= PIECES
    BY HttpdAssumption
  <2>4. Len(Reply(n)) = n /\ Len(Reply(PIECES)) = PIECES
    BY <2>3, ReplyIs
  <2>5. IsPrefix(Reply(n), Reply(PIECES))
    <3>1. SubSeq(Reply(n), 1, n) = SubSeq(Reply(PIECES), 1, n)
      BY <2>3, <2>4 DEF Reply
    <3> QED BY <2>3, <2>4, <3>1 DEF IsPrefix
  <2>6. client[c].st \in {"closewait", "lastack"} => Len(client[c].got) = PIECES
    BY <2>1, <2>4 DEF GotOK
  <2> QED BY <2>2, <2>5, <2>6
<1>2. Init => IInv /\ JInv
  BY InitIInv, InitJInv
<1>3. IInv /\ JInv /\ [Next]_vars => IInv' /\ JInv'
  BY NextIInv, NextJInv
<1>4. JInv => ReplyIntact
  BY <1>1 DEF JInv
<1> QED BY <1>2, <1>3, <1>4, PTL DEF Spec

\* A request of httpd always finds its connection, and httpd has a buffer when
\* data comes, unless a client left, data came early or a second GET was answered.
THEOREM WildCorrect == Spec => []NeverWild
<1>1. JInv => NeverWild
  BY DEF JInv, Calm, Quiet, NeverWild
<1>2. Init => IInv /\ JInv
  BY InitIInv, InitJInv
<1>3. IInv /\ JInv /\ [Next]_vars => IInv' /\ JInv'
  BY NextIInv, NextJInv
<1> QED BY <1>1, <1>2, <1>3, PTL DEF Spec
=============================================================================
