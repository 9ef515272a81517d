--------------------------- MODULE TimerDrvProofs ---------------------------
(***************************************************************************)
(* Proofs about TimerDrv.tla, for any number of requests and any interval. *)
(***************************************************************************)
EXTENDS TimerDrv, SequenceTheorems, WellFoundedInduction, TLAPS

Message == [req : Req, msec : 0..MSEC] \cup {expired}

Pending == \E k \in 1..Len(box) : box[k] = expired

\* Armed also holds while a new timer is inserted: only between the expiry
\* of a timer and the start of the next one nothing is on its way.
IInv ==
  /\ box \in Seq(Message)
  /\ DOMAIN tmr = {"running", "tcnt", "tcora"}
  /\ timers # <<>> /\ pc # "rearm" => tmr.running \/ Pending

\* A message at the end keeps an expiry that is in the box.
LEMMA AppendPending ==
  ASSUME box \in Seq(Message), NEW msg \in Message, box' = Append(box, msg)
  PROVE  /\ box' \in Seq(Message)
         /\ Pending => Pending'
         /\ msg = expired => Pending'
BY AppendProperties, LenProperties DEF Pending

\* Receiving any other message keeps it as well.
LEMMA RecvPending ==
  ASSUME box \in Seq(Message), kz_recv
  PROVE  /\ box' \in Seq(Message)
         /\ Pending /\ Head(box) # expired => Pending'
<1>1. box # <<>> /\ box' = Tail(box)
  BY DEF kz_recv
<1>2. /\ box' \in Seq(Message) /\ Len(box') = Len(box) - 1 /\ Head(box) = box[1]
      /\ \A k \in 1..Len(box') : box'[k] = box[k + 1]
      /\ Len(box) \in Nat
  BY <1>1, HeadTailProperties, LenProperties
<1>3. ASSUME Pending, Head(box) # expired PROVE Pending'
  <2>1. PICK k \in 1..Len(box) : box[k] = expired
    BY <1>3 DEF Pending
  <2>2. k # 1
    BY <1>2, <1>3, <2>1
  <2>3. k - 1 \in 1..Len(box') /\ box'[k - 1] = expired
    BY <1>2, <2>1, <2>2
  <2> QED BY <2>3 DEF Pending, expired
<1> QED BY <1>2, <1>3

LEMMA StartRuns ==
  ASSUME NEW msec, timer_start(msec)
  PROVE  DOMAIN tmr' = {"running", "tcnt", "tcora"} /\ tmr'.running
BY DEF timer_start

LEMMA StepIntr == ASSUME IInv, timerdrv_intr PROVE IInv'
<1>1. box' = Append(box, expired) /\ tmr' = [tmr EXCEPT !.running = FALSE]
  BY DEF timerdrv_intr
<1>2. expired \in Message
  BY DEF Message
<1>3. box' \in Seq(Message) /\ Pending'
  BY <1>1, <1>2, AppendPending DEF IInv
<1> QED BY <1>1, <1>3 DEF IInv

LEMMA StepTick == ASSUME IInv, Tick PROVE IInv'
<1>1. tmr' = tmr \/ tmr' = [tmr EXCEPT !.tcnt = tmr.tcnt + 1]
  BY DEF Tick
<1>2. DOMAIN tmr' = {"running", "tcnt", "tcora"} /\ tmr'.running = tmr.running
  BY <1>1 DEF IInv
<1> QED BY <1>2 DEF IInv, Tick, Pending, expired

LEMMA StepSendStart ==
  ASSUME IInv, NEW r \in Req, NEW msec \in 1..MSEC, send_start(r, msec)
  PROVE  IInv'
<1>1. box' = Append(box, [req |-> r, msec |-> msec]) /\ UNCHANGED <<timers, pc, tmr>>
  BY DEF send_start
<1>2. [req |-> r, msec |-> msec] \in Message
  BY TimerAssumption DEF Message
<1>3. box' \in Seq(Message) /\ (Pending => Pending')
  BY <1>1, <1>2, AppendPending DEF IInv
<1> QED BY <1>1, <1>3 DEF IInv

LEMMA StepExpire == ASSUME IInv, expire PROVE IInv'
<1>1. kz_recv /\ UNCHANGED tmr
  BY DEF expire
<1>2. box' \in Seq(Message)
  BY <1>1, RecvPending DEF IInv
<1>3. timers' = <<>> \/ pc' = "rearm"
  BY DEF expire
<1> QED BY <1>1, <1>2, <1>3 DEF IInv

LEMMA StepRearm == ASSUME IInv, rearm PROVE IInv'
<1>1. UNCHANGED <<timers, box>>
  BY DEF rearm
<1>2. CASE timers = <<>>
  BY <1>1, <1>2 DEF rearm, IInv
<1>3. CASE timers # <<>>
  BY <1>1, <1>3, StartRuns DEF rearm, IInv
<1> QED BY <1>2, <1>3

LEMMA StepStart == ASSUME IInv, start PROVE IInv'
<1>1. /\ kz_recv /\ Head(box) # expired /\ pc = "recv"
      /\ UNCHANGED <<timers, tmr>>
  BY DEF start, kz_recv
<1>2. box' \in Seq(Message) /\ (Pending => Pending')
  BY <1>1, RecvPending DEF IInv
<1> QED BY <1>1, <1>2 DEF IInv

LEMMA StepInsert == ASSUME IInv, insert PROVE IInv'
<1>1. pc = "insert" /\ UNCHANGED box
  BY DEF insert
<1>2. Pending' <=> Pending
  BY <1>1 DEF Pending, expired
<1>3. \/ \E msec : timer_start(msec)
      \/ timers # <<>> /\ UNCHANGED tmr
  BY DEF insert
<1>4. CASE \E msec : timer_start(msec)
  BY <1>1, <1>4, StartRuns DEF IInv
<1>5. CASE timers # <<>> /\ UNCHANGED tmr
  BY <1>1, <1>2, <1>5 DEF IInv
<1> QED BY <1>3, <1>4, <1>5

LEMMA StepNext == IInv /\ [Next]_vars => IInv'
<1> SUFFICES ASSUME IInv, [Next]_vars PROVE IInv'
  OBVIOUS
<1>1. CASE UNCHANGED vars
  BY <1>1 DEF vars, IInv, Pending, expired
<1>2. CASE Next
  BY <1>2, StepIntr, StepTick, StepSendStart, StepExpire, StepRearm, StepStart, StepInsert
     DEF Next, driver
<1> QED BY <1>1, <1>2

\* The driver never waits with timers in its list and nothing to wake it: no
\* order of requests and interrupts loses the expiry of a timer.
THEOREM ArmedCorrect == Spec => []Armed
<1>1. Init => IInv
  BY DEF Init, IInv
<1>2. IInv => Armed
  BY DEF IInv, Armed, Pending
<1> QED BY <1>1, <1>2, StepNext, PTL DEF Spec

-----------------------------------------------------------------------------
(* Where a request is.                                                     *)

\* The list's entries are kept apart from their intervals, which the walk computes.
Listed(s) == \E S : s \in Seq(S)

Never(s, r) == \A k \in 1..Len(s) : s[k].req # r
Once(s, r) == \E k \in 1..Len(s) : s[k].req = r /\ \A j \in 1..Len(s) : s[j].req = r => j = k

Inserting(r) == pc = "insert" /\ new.req = r

\* A request that is not made yet, or answered, is nowhere.
Nowhere(r) == Never(box, r) /\ Never(timers, r) /\ ~Inserting(r)

\* Any other is in one place.
Somewhere(r) ==
  \/ Once(box, r) /\ Never(timers, r) /\ ~Inserting(r)
  \/ Never(box, r) /\ Once(timers, r) /\ ~Inserting(r)
  \/ Never(box, r) /\ Never(timers, r) /\ Inserting(r)

Placed(r) ==
  /\ togo[r] \in Int /\ answers[r] \in {0, 1}
  /\ togo[r] = -1 => answers[r] = 0
  /\ IF togo[r] = -1 \/ answers[r] = 1 THEN Nowhere(r) ELSE Somewhere(r)

PInv ==
  /\ box \in Seq(Message)
  /\ Listed(timers) /\ \A k \in 1..Len(timers) : timers[k].req \in Req
  /\ DOMAIN togo = Req /\ DOMAIN answers = Req
  /\ pc = "insert" => new \in [req : Req, msec : 0..MSEC]
  /\ \A r \in Req : Placed(r)

LEMMA AppendPlaces ==
  ASSUME NEW S, NEW s \in Seq(S), NEW e \in S, NEW r
  PROVE  /\ e.req # r /\ Never(s, r) => Never(Append(s, e), r)
         /\ e.req # r /\ Once(s, r) => Once(Append(s, e), r)
         /\ e.req = r /\ Never(s, r) => Once(Append(s, e), r)
<1> DEFINE u == Append(s, e)
<1>1. /\ Len(s) \in Nat /\ Len(u) = Len(s) + 1 /\ u[Len(s) + 1] = e
      /\ \A k \in 1..Len(s) : u[k] = s[k]
  BY AppendProperties, LenProperties
<1> HIDE DEF u
<1>2. \A k \in 1..Len(u) : k \in 1..Len(s) \/ k = Len(s) + 1
  BY <1>1
<1>3. 1..Len(s) \subseteq 1..Len(u) /\ Len(s) + 1 \in 1..Len(u) /\ Len(s) + 1 \notin 1..Len(s)
  BY <1>1
<1>4. e.req # r /\ Never(s, r) => Never(u, r)
  BY <1>1, <1>2 DEF Never
<1>5. ASSUME e.req # r, Once(s, r) PROVE Once(u, r)
  <2>1. PICK k \in 1..Len(s) : s[k].req = r /\ \A j \in 1..Len(s) : s[j].req = r => j = k
    BY <1>5 DEF Once
  <2>2. k \in 1..Len(u) /\ u[k].req = r
    BY <1>1, <1>3, <2>1
  <2>3. \A j \in 1..Len(u) : u[j].req = r => j = k
    BY <1>1, <1>2, <1>5, <2>1
  <2> QED BY <2>2, <2>3 DEF Once
<1>6. ASSUME e.req = r, Never(s, r) PROVE Once(u, r)
  <2>1. \A j \in 1..Len(u) : u[j].req = r => j = Len(s) + 1
    BY <1>1, <1>2, <1>6 DEF Never
  <2> QED BY <1>1, <1>3, <1>6, <2>1 DEF Once
<1> QED BY <1>4, <1>5, <1>6 DEF u

LEMMA TailPlaces ==
  ASSUME NEW S, NEW s \in Seq(S), s # <<>>, NEW r
  PROVE  /\ Never(s, r) => Never(Tail(s), r)
         /\ Head(s).req # r /\ Once(s, r) => Once(Tail(s), r)
         /\ Head(s).req = r => ~Never(s, r)
         /\ Head(s).req = r /\ Once(s, r) => Never(Tail(s), r)
<1> DEFINE u == Tail(s)
<1>1. /\ Len(s) \in Nat /\ Len(s) > 0 /\ Len(u) = Len(s) - 1 /\ Head(s) = s[1]
      /\ \A k \in 1..Len(u) : u[k] = s[k + 1]
  BY HeadTailProperties, LenProperties, EmptySeq
<1> HIDE DEF u
<1>2. \A k \in 1..Len(u) : k + 1 \in 1..Len(s) /\ k + 1 # 1
  BY <1>1
<1>3. 1 \in 1..Len(s)
  BY <1>1
<1>4. Never(s, r) => Never(u, r)
  BY <1>1, <1>2 DEF Never
<1>5. ASSUME Head(s).req # r, Once(s, r) PROVE Once(u, r)
  <2>1. PICK k \in 1..Len(s) : s[k].req = r /\ \A j \in 1..Len(s) : s[j].req = r => j = k
    BY <1>5 DEF Once
  <2>2. k # 1
    BY <1>1, <1>5, <2>1
  <2>3. k - 1 \in 1..Len(u) /\ u[k - 1].req = r
    BY <1>1, <2>1, <2>2
  <2>4. \A j \in 1..Len(u) : u[j].req = r => j = k - 1
    BY <1>1, <1>2, <2>1
  <2> QED BY <2>3, <2>4 DEF Once
<1>6. Head(s).req = r => ~Never(s, r)
  BY <1>1, <1>3 DEF Never
<1>7. ASSUME Head(s).req = r, Once(s, r) PROVE Never(u, r)
  <2>1. PICK k \in 1..Len(s) : s[k].req = r /\ \A j \in 1..Len(s) : s[j].req = r => j = k
    BY <1>7 DEF Once
  <2>2. k = 1
    BY <1>1, <1>3, <1>7, <2>1
  <2> QED BY <1>1, <1>2, <2>1, <2>2 DEF Never
<1> QED BY <1>4, <1>5, <1>6, <1>7 DEF u

\* The timer of q goes in at k, and what was there or behind comes one later.
Inserted(u, s, k, q) ==
  /\ Len(s) \in Nat /\ Len(u) = Len(s) + 1
  /\ k \in 1..(Len(s) + 1) /\ u[k].req = q
  /\ \A j \in 1..(k - 1) : u[j].req = s[j].req
  /\ \A j \in k..Len(s) : u[j + 1].req = s[j].req

LEMMA InsertPlaces ==
  ASSUME NEW s, NEW u, NEW q, NEW r, NEW k, Inserted(u, s, k, q)
  PROVE  /\ q # r /\ Never(s, r) => Never(u, r)
         /\ q # r /\ Once(s, r) => Once(u, r)
         /\ q = r /\ Never(s, r) => Once(u, r)
<1>0. /\ Len(s) \in Nat /\ Len(u) = Len(s) + 1
      /\ k \in 1..(Len(s) + 1) /\ u[k].req = q
      /\ \A j \in 1..(k - 1) : u[j].req = s[j].req
      /\ \A j \in k..Len(s) : u[j + 1].req = s[j].req
  BY DEF Inserted
<1> USE <1>0
<1> DEFINE up(j) == IF j < k THEN j ELSE j + 1
<1>1. \A j \in 1..Len(u) : j = k \/ \E i \in 1..Len(s) : j = up(i)
  <2> SUFFICES ASSUME NEW j \in 1..Len(u), j # k PROVE \E i \in 1..Len(s) : j = up(i)
    OBVIOUS
  <2>1. CASE j < k
    BY <2>1
  <2>2. CASE j > k
    <3>1. j - 1 \in 1..Len(s) /\ up(j - 1) = j
      BY <2>2
    <3> QED BY <3>1
  <2> QED BY <2>1, <2>2
<1>2. \A i \in 1..Len(s) : up(i) \in 1..Len(u) /\ u[up(i)].req = s[i].req
  <2> SUFFICES ASSUME NEW i \in 1..Len(s) PROVE up(i) \in 1..Len(u) /\ u[up(i)].req = s[i].req
    OBVIOUS
  <2>1. CASE i < k
    BY <2>1
  <2>2. CASE i >= k
    BY <2>2
  <2> QED BY <2>1, <2>2
<1>3. k \in 1..Len(u)
  OBVIOUS
<1> HIDE DEF up
<1>4. ASSUME q # r, Never(s, r) PROVE Never(u, r)
  <2> SUFFICES ASSUME NEW j \in 1..Len(u) PROVE u[j].req # r
    BY DEF Never
  <2>1. CASE j = k
    BY <1>4, <2>1
  <2>2. CASE \E i \in 1..Len(s) : j = up(i)
    <3>1. PICK i \in 1..Len(s) : j = up(i)
      BY <2>2
    <3> QED BY <1>2, <1>4, <3>1 DEF Never
  <2> QED BY <1>1, <2>1, <2>2
<1>5. ASSUME q # r, Once(s, r) PROVE Once(u, r)
  <2>1. PICK i \in 1..Len(s) : s[i].req = r /\ \A j \in 1..Len(s) : s[j].req = r => j = i
    BY <1>5 DEF Once
  <2>2. \A j \in 1..Len(u) : u[j].req = r => j = up(i)
    <3> SUFFICES ASSUME NEW j \in 1..Len(u), u[j].req = r PROVE j = up(i)
      OBVIOUS
    <3>1. PICK m \in 1..Len(s) : j = up(m)
      BY <1>1, <1>5
    <3>2. s[m].req = r
      BY <1>2, <3>1
    <3> QED BY <2>1, <3>1, <3>2
  <2> QED BY <1>2, <2>1, <2>2 DEF Once
<1>6. ASSUME q = r, Never(s, r) PROVE Once(u, r)
  <2>1. \A j \in 1..Len(u) : u[j].req = r => j = k
    <3> SUFFICES ASSUME NEW j \in 1..Len(u), u[j].req = r, j # k PROVE FALSE
      OBVIOUS
    <3>1. PICK m \in 1..Len(s) : j = up(m)
      BY <1>1
    <3> QED BY <1>2, <1>6, <3>1 DEF Never
  <2> QED BY <1>3, <1>6, <2>1 DEF Once
<1> QED BY <1>4, <1>5, <1>6

-----------------------------------------------------------------------------
(* The actions.                                                            *)

\* What does not touch the places of a request.
LEMMA Still ==
  ASSUME PInv, UNCHANGED <<timers, pc, new, box, answers>>, DOMAIN togo' = Req,
         \A r \in Req : togo'[r] \in Int /\ (togo'[r] = -1 <=> togo[r] = -1)
  PROVE  PInv'
BY DEF PInv, Placed, Nowhere, Somewhere, Never, Once, Inserting, Listed

\* The expiry is a message of no request.
LEMMA ExpiryElsewhere == expired \in Message /\ \A r \in Req : expired.req # r
BY TimerAssumption DEF expired, Message

LEMMA PlacedIntr == ASSUME PInv, timerdrv_intr PROVE PInv'
<1>1. box' = Append(box, expired) /\ UNCHANGED <<timers, pc, new, togo, answers>>
  BY DEF timerdrv_intr
<1>2. box \in Seq(Message) /\ box' \in Seq(Message)
  BY <1>1, ExpiryElsewhere, AppendProperties DEF PInv
<1>3. ASSUME NEW r \in Req PROVE Placed(r)'
  <2>1. (Never(box, r) => Never(box', r)) /\ (Once(box, r) => Once(box', r))
    BY <1>1, <1>2, ExpiryElsewhere, AppendPlaces
  <2>2. Placed(r)
    BY DEF PInv
  <2>3. /\ Never(box, r)' <=> Never(box', r)
        /\ Once(box, r)' <=> Once(box', r)
        /\ Never(timers, r)' <=> Never(timers, r)
        /\ Once(timers, r)' <=> Once(timers, r)
        /\ Inserting(r)' <=> Inserting(r)
    BY <1>1 DEF Never, Once, Inserting
  <2> QED BY <1>1, <2>1, <2>2, <2>3 DEF Placed, Nowhere, Somewhere
<1> QED BY <1>1, <1>2, <1>3 DEF PInv, Listed

LEMMA PlacedTick == ASSUME PInv, Tick PROVE PInv'
<1>1. UNCHANGED <<timers, pc, new, box, answers>> /\ DOMAIN togo' = Req
  BY DEF Tick
<1>2. \A r \in Req : togo'[r] \in Int /\ (togo'[r] = -1 <=> togo[r] = -1)
  BY DEF Tick, PInv, Placed
<1> QED BY <1>1, <1>2, Still

LEMMA PlacedSendStart ==
  ASSUME PInv, NEW q \in Req, NEW msec \in 1..MSEC, send_start(q, msec)
  PROVE  PInv'
<1> DEFINE m == [req |-> q, msec |-> msec]
<1>1. /\ pc = "recv" /\ togo[q] = -1 /\ togo' = [togo EXCEPT ![q] = msec]
      /\ box' = Append(box, m)
      /\ UNCHANGED <<timers, pc, new, answers>>
  BY DEF send_start
<1>2. m \in Message /\ m.req = q /\ msec \in Int /\ msec # -1
  BY TimerAssumption DEF Message
<1> HIDE DEF m
<1>3. box \in Seq(Message) /\ box' \in Seq(Message)
  BY <1>1, <1>2, AppendProperties DEF PInv
<1>4. ASSUME NEW r \in Req PROVE Placed(r)'
  <2>1. /\ q # r /\ Never(box, r) => Never(box', r)
        /\ q # r /\ Once(box, r) => Once(box', r)
        /\ q = r /\ Never(box, r) => Once(box', r)
    BY <1>1, <1>2, <1>3, AppendPlaces
  <2>2. Placed(r)
    BY DEF PInv
  <2>3. /\ Never(box, r)' <=> Never(box', r)
        /\ Once(box, r)' <=> Once(box', r)
        /\ Never(timers, r)' <=> Never(timers, r)
        /\ Once(timers, r)' <=> Once(timers, r)
        /\ Inserting(r)' <=> Inserting(r)
    BY <1>1 DEF Never, Once, Inserting
  <2>4. togo'[r] = IF r = q THEN msec ELSE togo[r]
    BY <1>1 DEF PInv
  <2> QED BY <1>1, <1>2, <2>1, <2>2, <2>3, <2>4 DEF Placed, Nowhere, Somewhere
<1>5. DOMAIN togo' = Req
  BY <1>1 DEF PInv
<1> QED BY <1>1, <1>3, <1>4, <1>5 DEF PInv, Listed

LEMMA PlacedExpire == ASSUME PInv, expire PROVE PInv'
<1>1. /\ pc = "recv" /\ box # <<>> /\ box' = Tail(box) /\ Head(box) = expired
      /\ UNCHANGED <<new, togo>>
  BY DEF expire, kz_recv
<1>2. box \in Seq(Message) /\ box' \in Seq(Message)
  BY <1>1, HeadTailProperties DEF PInv
<1>3. ASSUME NEW r \in Req
      PROVE  (Never(box, r) => Never(box', r)) /\ (Once(box, r) => Once(box', r))
  BY <1>1, <1>2, ExpiryElsewhere, TailPlaces
<1>4. CASE timers = <<>> /\ UNCHANGED <<timers, answers, pc>>
  <2>1. ASSUME NEW r \in Req PROVE Placed(r)'
    <3>1. Placed(r)
      BY DEF PInv
    <3>2. /\ Never(box, r)' <=> Never(box', r)
          /\ Once(box, r)' <=> Once(box', r)
          /\ Never(timers, r)' <=> Never(timers, r)
          /\ Once(timers, r)' <=> Once(timers, r)
          /\ Inserting(r)' <=> Inserting(r)
      BY <1>1, <1>4 DEF Never, Once, Inserting
    <3> QED BY <1>1, <1>3, <1>4, <3>1, <3>2 DEF Placed, Nowhere, Somewhere
  <2> QED BY <1>1, <1>2, <1>4, <2>1 DEF PInv, Listed
<1>5. CASE /\ timers # <<>>
           /\ answers' = [answers EXCEPT ![Head(timers).req] = @ + 1]
           /\ timers' = Tail(timers) /\ pc' = "rearm"
  <2> DEFINE h == Head(timers).req
  <2>1. PICK S : timers \in Seq(S)
    BY DEF PInv, Listed
  <2>2. /\ timers' \in Seq(S) /\ Head(timers) = timers[1] /\ Len(timers) \in Nat /\ Len(timers) > 0
        /\ Len(timers') = Len(timers) - 1
        /\ \A k \in 1..Len(timers') : timers'[k] = timers[k + 1]
    BY <1>5, <2>1, HeadTailProperties, LenProperties, EmptySeq
  <2>3. h \in Req /\ \A k \in 1..Len(timers') : timers'[k].req \in Req
    BY <2>2 DEF PInv
  <2>4. answers' = [answers EXCEPT ![h] = answers[h] + 1]
    BY <1>5
  <2>5. ASSUME NEW r \in Req
        PROVE  /\ Never(timers, r) => Never(timers', r)
               /\ h # r /\ Once(timers, r) => Once(timers', r)
               /\ h = r => ~Never(timers, r)
               /\ h = r /\ Once(timers, r) => Never(timers', r)
    BY <1>5, <2>1, TailPlaces
  <2> HIDE DEF h
  <2>6. ASSUME NEW r \in Req PROVE Placed(r)'
    <3>1. Placed(r)
      BY DEF PInv
    <3>2. /\ Never(box, r)' <=> Never(box', r)
          /\ Once(box, r)' <=> Once(box', r)
          /\ Never(timers, r)' <=> Never(timers', r)
          /\ Once(timers, r)' <=> Once(timers', r)
          /\ ~Inserting(r)' /\ ~Inserting(r)
      BY <1>1, <1>5 DEF Never, Once, Inserting
    <3>3. answers'[r] = IF r = h THEN answers[r] + 1 ELSE answers[r]
      BY <2>4 DEF PInv
    <3>4. CASE r = h
      BY <1>1, <1>3, <2>5, <3>1, <3>2, <3>3, <3>4 DEF Placed, Nowhere, Somewhere
    <3>5. CASE r # h
      BY <1>1, <1>3, <2>5, <3>1, <3>2, <3>3, <3>5 DEF Placed, Nowhere, Somewhere
    <3> QED BY <3>4, <3>5
  <2>7. Listed(timers)' /\ DOMAIN answers' = Req
    BY <2>2, <2>4 DEF Listed, PInv
  <2> QED BY <1>1, <1>2, <1>5, <2>3, <2>6, <2>7 DEF PInv
<1> QED BY <1>4, <1>5 DEF expire

LEMMA PlacedRearm == ASSUME PInv, rearm PROVE PInv'
<1>1. UNCHANGED <<timers, box, new, togo, answers>> /\ pc = "rearm" /\ pc' = "recv"
  BY DEF rearm
<1>2. ASSUME NEW r \in Req PROVE Placed(r)'
  <2>1. Placed(r)
    BY DEF PInv
  <2>2. /\ Never(box, r)' <=> Never(box, r)
        /\ Once(box, r)' <=> Once(box, r)
        /\ Never(timers, r)' <=> Never(timers, r)
        /\ Once(timers, r)' <=> Once(timers, r)
        /\ ~Inserting(r)' /\ ~Inserting(r)
    BY <1>1 DEF Never, Once, Inserting
  <2> QED BY <1>1, <2>1, <2>2 DEF Placed, Nowhere, Somewhere
<1> QED BY <1>1, <1>2 DEF PInv, Listed

LEMMA PlacedStart == ASSUME PInv, start PROVE PInv'
<1>1. /\ pc = "recv" /\ box # <<>> /\ box' = Tail(box) /\ Head(box) # expired
      /\ new' = Head(box) /\ pc' = "insert"
      /\ UNCHANGED <<timers, togo, answers>>
  BY DEF start, kz_recv
<1>2. box \in Seq(Message) /\ box' \in Seq(Message) /\ new' \in [req : Req, msec : 0..MSEC]
  BY <1>1, HeadTailProperties DEF PInv, Message
<1>3. ASSUME NEW r \in Req PROVE Placed(r)'
  <2>1. /\ Never(box, r) => Never(box', r)
        /\ new'.req # r /\ Once(box, r) => Once(box', r)
        /\ new'.req = r => ~Never(box, r)
        /\ new'.req = r /\ Once(box, r) => Never(box', r)
    BY <1>1, <1>2, TailPlaces
  <2>2. Placed(r)
    BY DEF PInv
  <2>3. /\ Never(box, r)' <=> Never(box', r)
        /\ Once(box, r)' <=> Once(box', r)
        /\ Never(timers, r)' <=> Never(timers, r)
        /\ Once(timers, r)' <=> Once(timers, r)
        /\ Inserting(r)' <=> new'.req = r
        /\ ~Inserting(r)
    BY <1>1 DEF Never, Once, Inserting
  <2>4. CASE new'.req = r
    BY <1>1, <2>1, <2>2, <2>3, <2>4 DEF Placed, Nowhere, Somewhere
  <2>5. CASE new'.req # r
    BY <1>1, <2>1, <2>2, <2>3, <2>5 DEF Placed, Nowhere, Somewhere
  <2> QED BY <2>4, <2>5
<1> QED BY <1>1, <1>2, <1>3 DEF PInv, Listed

\* What insert makes of the list: e before the k-th, and l in its place.
Splice(s, k, e, l) == SubSeq(s, 1, k - 1) \o <<e, l>> \o SubSeq(s, k + 1, Len(s))

Spliced(u, S, s, k, e, l) ==
  /\ u \in Seq(S) /\ Len(u) = Len(s) + 1 /\ u[k] = e /\ u[k + 1] = l
  /\ \A j \in 1..(k - 1) : u[j] = s[j]
  /\ \A j \in (k + 1)..Len(s) : u[j + 1] = s[j]

LEMMA SpliceIs ==
  ASSUME NEW S, NEW s \in Seq(S), NEW e \in S, NEW l \in S, NEW k \in 1..Len(s)
  PROVE  Spliced(Splice(s, k, e, l), S, s, k, e, l)
<1> DEFINE u == Splice(s, k, e, l)
           n == Len(s)
           a == SubSeq(s, 1, k - 1)
           b == <<e, l>>
           c == SubSeq(s, k + 1, n)
<1>1. n \in Nat
  BY LenProperties
<1>2. a \in Seq(S) /\ Len(a) = k - 1 /\ \A j \in 1..(k - 1) : a[j] = s[j]
  BY <1>1, SubSeqProperties
<1>3. c \in Seq(S) /\ Len(c) = n - k /\ \A j \in 1..(n - k) : c[j] = s[k + j]
  BY <1>1, SubSeqProperties
<1>4. b \in Seq(S) /\ Len(b) = 2 /\ b[1] = e /\ b[2] = l
  OBVIOUS
<1>5. u = (a \o b) \o c
  BY DEF Splice
<1> HIDE DEF u, a, b, c
<1>6. /\ a \o b \in Seq(S) /\ Len(a \o b) = k + 1
      /\ \A j \in 1..(k + 1) : (a \o b)[j] = IF j <= k - 1 THEN a[j] ELSE b[j - (k - 1)]
  <2>1. /\ a \o b \in Seq(S) /\ Len(a \o b) = Len(a) + Len(b)
        /\ \A j \in 1..(Len(a) + Len(b)) : (a \o b)[j] = IF j <= Len(a) THEN a[j] ELSE b[j - Len(a)]
    BY <1>2, <1>4, ConcatProperties
  <2>2. Len(a) + Len(b) = k + 1 /\ Len(a) = k - 1
    BY <1>2, <1>4
  <2> QED BY <2>1, <2>2
<1>7. /\ u \in Seq(S) /\ Len(u) = n + 1
      /\ \A j \in 1..(n + 1) : u[j] = IF j <= k + 1 THEN (a \o b)[j] ELSE c[j - (k + 1)]
  <2> DEFINE d == a \o b
  <2>1. d \in Seq(S) /\ Len(d) = k + 1 /\ u = d \o c
    BY <1>5, <1>6
  <2> HIDE DEF d
  <2>2. /\ d \o c \in Seq(S) /\ Len(d \o c) = Len(d) + Len(c)
        /\ \A j \in 1..(Len(d) + Len(c)) : (d \o c)[j] = IF j <= Len(d) THEN d[j] ELSE c[j - Len(d)]
    BY <1>3, <2>1, ConcatProperties
  <2>3. Len(d) + Len(c) = n + 1
    BY <1>1, <1>3, <2>1
  <2> QED BY <2>1, <2>2, <2>3 DEF d
<1>8. u[k] = e /\ u[k + 1] = l /\ \A j \in 1..(k - 1) : u[j] = s[j]
  <2>1. k \in 1..(n + 1) /\ k + 1 \in 1..(n + 1) /\ k \in 1..(k + 1) /\ k + 1 \in 1..(k + 1)
    BY <1>1
  <2> k <= k + 1 /\ k + 1 <= k + 1
    OBVIOUS
  <2>2. u[k] = (a \o b)[k] /\ u[k + 1] = (a \o b)[k + 1]
    BY <1>1, <1>7, <2>1
  <2>3. (a \o b)[k] = b[k - (k - 1)] /\ (a \o b)[k + 1] = b[(k + 1) - (k - 1)]
    BY <1>1, <1>6, <2>1
  <2>4. k - (k - 1) = 1 /\ (k + 1) - (k - 1) = 2
    OBVIOUS
  <2>5. ASSUME NEW j \in 1..(k - 1) PROVE u[j] = s[j]
    <3>1. j \in 1..(n + 1) /\ j \in 1..(k + 1) /\ j <= k + 1 /\ j <= k - 1
      BY <1>1
    <3>2. u[j] = (a \o b)[j]
      BY <1>7, <3>1
    <3>3. (a \o b)[j] = a[j]
      BY <1>6, <3>1
    <3> QED BY <1>2, <3>2, <3>3
  <2> QED BY <1>4, <2>2, <2>3, <2>4, <2>5
<1>9. \A j \in (k + 1)..n : u[j + 1] = s[j]
  <2> SUFFICES ASSUME NEW j \in (k + 1)..n PROVE u[j + 1] = s[j]
    OBVIOUS
  <2>1. j + 1 \in 1..(n + 1) /\ ~(j + 1 <= k + 1) /\ j - k \in 1..(n - k)
        /\ (j + 1) - (k + 1) = j - k /\ k + (j - k) = j
    BY <1>1
  <2>2. u[j + 1] = c[(j + 1) - (k + 1)]
    BY <1>7, <2>1
  <2> QED BY <1>3, <2>1, <2>2
<1>10. Spliced(u, S, s, k, e, l)
  BY <1>7, <1>8, <1>9 DEF Spliced
<1> QED BY <1>10 DEF u

\* The walk's outcome: the new timer is in the list, before one of the others or
\* behind them, and they are as they were but for their intervals.
LEMMA InsertedOnce ==
  ASSUME PInv, insert
  PROVE  Listed(timers') /\ \E k : Inserted(timers', timers, k, new.req)
<1> DEFINE n == Len(timers)
           entry(k) == [new EXCEPT !.msec = Left[k]]
           later(k) == [timers[k] EXCEPT !.msec = Wait(k) - Left[k]]
<1>1. PICK S0 : timers \in Seq(S0)
  BY DEF PInv, Listed
<1>2. n \in Nat /\ pc = "insert"
  BY <1>1, LenProperties DEF insert
<1>3. ASSUME NEW k PROVE entry(k).req = new.req /\ later(k).req = timers[k].req
  BY <1>2 DEF PInv
<1>4. CASE timers' = Append(timers, entry(n + 1))
  <2> DEFINE S == S0 \cup {entry(n + 1)}
  <2>1. timers \in Seq(S) /\ entry(n + 1) \in S
    BY <1>1
  <2> DEFINE e == entry(n + 1)
  <2>2. e.req = new.req
    BY <1>3
  <2> HIDE DEF S, e, entry
  <2>3. /\ timers' \in Seq(S) /\ Len(timers') = n + 1 /\ timers'[n + 1] = e
        /\ \A j \in 1..n : timers'[j] = timers[j]
    BY <1>4, <2>1, AppendProperties DEF e
  <2>4. Inserted(timers', timers, n + 1, new.req)
    BY <1>2, <2>2, <2>3 DEF Inserted
  <2> QED BY <2>3, <2>4 DEF Listed
<1>5. ASSUME NEW k \in 1..n,
             timers' = SubSeq(timers, 1, k - 1) \o <<entry(k), later(k)>> \o SubSeq(timers, k + 1, n)
      PROVE  Listed(timers') /\ Inserted(timers', timers, k, new.req)
  <2> DEFINE e == entry(k)
             l == later(k)
             S == S0 \cup {e, l}
  <2>1. e.req = new.req /\ l.req = timers[k].req
    BY <1>3
  <2>2. timers \in Seq(S) /\ e \in S /\ l \in S
    BY <1>1
  <2>3. timers' = Splice(timers, k, e, l)
    BY <1>5 DEF Splice
  <2> HIDE DEF e, l, S, entry, later
  <2>4. /\ timers' \in Seq(S) /\ Len(timers') = n + 1 /\ timers'[k] = e /\ timers'[k + 1] = l
        /\ \A j \in 1..(k - 1) : timers'[j] = timers[j]
        /\ \A j \in (k + 1)..n : timers'[j + 1] = timers[j]
    <3>1. k \in 1..Len(timers)
      OBVIOUS
    <3>2. Spliced(timers', S, timers, k, e, l)
      BY <2>2, <2>3, <3>1, SpliceIs
    <3> QED BY <3>2 DEF Spliced
  <2>5. \A j \in k..n : timers'[j + 1].req = timers[j].req
    <3> SUFFICES ASSUME NEW j \in k..n PROVE timers'[j + 1].req = timers[j].req
      OBVIOUS
    <3>1. CASE j = k
      BY <2>1, <2>4, <3>1
    <3>2. CASE j # k
      <4>1. j \in (k + 1)..n
        BY <1>2, <3>2
      <4> QED BY <2>4, <4>1
    <3> QED BY <3>1, <3>2
  <2>6. Listed(timers')
    BY <2>4 DEF Listed
  <2>7. k \in 1..(n + 1)
    BY <1>2
  <2> QED BY <1>2, <2>1, <2>4, <2>5, <2>6, <2>7 DEF Inserted
<1>6. \/ timers' = Append(timers, entry(n + 1))
      \/ \E k \in 1..n :
           timers' = SubSeq(timers, 1, k - 1) \o <<entry(k), later(k)>> \o SubSeq(timers, k + 1, n)
  BY DEF insert
<1> HIDE DEF entry, later
<1>7. CASE timers' = Append(timers, entry(n + 1))
  BY <1>2, <1>4, <1>7
<1>8. CASE \E k \in 1..n :
             timers' = SubSeq(timers, 1, k - 1) \o <<entry(k), later(k)>> \o SubSeq(timers, k + 1, n)
  <2>1. PICK k \in 1..n :
           timers' = SubSeq(timers, 1, k - 1) \o <<entry(k), later(k)>> \o SubSeq(timers, k + 1, n)
    BY <1>8
  <2> QED BY <1>5, <2>1
<1> QED BY <1>6, <1>7, <1>8

LEMMA PlacedInsert == ASSUME PInv, insert PROVE PInv'
<1>1. /\ pc = "insert" /\ pc' = "recv" /\ UNCHANGED <<box, togo, answers>>
      /\ new \in [req : Req, msec : 0..MSEC]
  BY DEF insert, PInv
<1>2. PICK k : Inserted(timers', timers, k, new.req)
  BY InsertedOnce
<1>3. /\ Len(timers) \in Nat /\ Len(timers') = Len(timers) + 1
      /\ k \in 1..(Len(timers) + 1) /\ timers'[k].req = new.req
      /\ \A j \in 1..(k - 1) : timers'[j].req = timers[j].req
      /\ \A j \in k..Len(timers) : timers'[j + 1].req = timers[j].req
  BY <1>2 DEF Inserted
<1>4. ASSUME NEW r \in Req
      PROVE  /\ new.req # r /\ Never(timers, r) => Never(timers', r)
             /\ new.req # r /\ Once(timers, r) => Once(timers', r)
             /\ new.req = r /\ Never(timers, r) => Once(timers', r)
  BY <1>2, InsertPlaces
<1>5. \A j \in 1..Len(timers') : timers'[j].req \in Req
  <2> SUFFICES ASSUME NEW j \in 1..Len(timers') PROVE timers'[j].req \in Req
    OBVIOUS
  <2>1. CASE j = k
    BY <1>1, <1>3, <2>1
  <2>2. CASE j < k
    <3>1. j \in 1..(k - 1) /\ j \in 1..Len(timers)
      BY <1>3, <2>2
    <3> QED BY <1>3, <3>1 DEF PInv
  <2>3. CASE j > k
    <3>1. j - 1 \in k..Len(timers) /\ j - 1 \in 1..Len(timers) /\ (j - 1) + 1 = j
      BY <1>3, <2>3
    <3>2. timers'[j].req = timers[j - 1].req
      BY <1>3, <3>1
    <3> QED BY <3>1, <3>2 DEF PInv
  <2> QED BY <1>3, <2>1, <2>2, <2>3
<1>6. ASSUME NEW r \in Req PROVE Placed(r)'
  <2>1. Placed(r)
    BY DEF PInv
  <2>2. /\ Never(box, r)' <=> Never(box, r)
        /\ Once(box, r)' <=> Once(box, r)
        /\ Never(timers, r)' <=> Never(timers', r)
        /\ Once(timers, r)' <=> Once(timers', r)
        /\ ~Inserting(r)'
        /\ Inserting(r) <=> new.req = r
    BY <1>1 DEF Never, Once, Inserting
  <2>3. CASE new.req = r
    BY <1>1, <1>4, <2>1, <2>2, <2>3 DEF Placed, Nowhere, Somewhere
  <2>4. CASE new.req # r
    BY <1>1, <1>4, <2>1, <2>2, <2>4 DEF Placed, Nowhere, Somewhere
  <2> QED BY <2>3, <2>4
<1>7. Listed(timers)'
  BY InsertedOnce DEF Listed
<1> QED BY <1>1, <1>5, <1>6, <1>7 DEF PInv

LEMMA PlacedNext == PInv /\ [Next]_vars => PInv'
<1> SUFFICES ASSUME PInv, [Next]_vars PROVE PInv'
  OBVIOUS
<1>1. CASE UNCHANGED vars
  BY <1>1, Still DEF vars, PInv, Placed
<1>2. CASE Next
  BY <1>2, PlacedIntr, PlacedTick, PlacedSendStart, PlacedExpire, PlacedRearm, PlacedStart,
     PlacedInsert DEF Next, driver
<1> QED BY <1>1, <1>2

LEMMA PlacedInit == Init => PInv
<1> SUFFICES ASSUME Init PROVE PInv
  OBVIOUS
<1>1. <<>> \in Seq(Message) /\ Len(<<>>) = 0
  BY EmptySeq
<1>2. Listed(timers)
  BY <1>1 DEF Init, Listed
<1>3. ASSUME NEW r \in Req PROVE Placed(r)
  BY <1>1 DEF Init, Placed, Nowhere, Never, Inserting
<1> QED BY <1>1, <1>2, <1>3 DEF Init, PInv

\* Requests are neither lost nor doubled on their way through the message box, the
\* walk and the list, however interrupts and requests follow each other.
THEOREM PlacesCorrect == Spec => []InOnePlace
<1>1. PInv => InOnePlace
  <2> SUFFICES ASSUME PInv, NEW r \in Req
               PROVE  LET places == {k \in 1..Len(box) : box[k].req = r}
                        \cup {-k : k \in {j \in 1..Len(timers) : timers[j].req = r}}
                        \cup (IF pc = "insert" /\ new.req = r THEN {0} ELSE {})
                      IN /\ answers[r] <= 1
                         /\ IF togo[r] = -1 \/ answers[r] = 1 THEN places = {} ELSE \E p \in places : places = {p}
    BY DEF InOnePlace
  <2> DEFINE inBox == {k \in 1..Len(box) : box[k].req = r}
             inList == {-k : k \in {j \in 1..Len(timers) : timers[j].req = r}}
             inHand == IF pc = "insert" /\ new.req = r THEN {0} ELSE {}
  <2>1. Placed(r)
    BY DEF PInv
  <2>2. /\ Never(box, r) => inBox = {}
        /\ Never(timers, r) => inList = {}
        /\ ~Inserting(r) => inHand = {}
        /\ Inserting(r) => inHand = {0}
    BY DEF Never, Inserting
  <2>3. ASSUME Once(box, r) PROVE \E p : inBox = {p}
    <3>1. PICK k \in 1..Len(box) : box[k].req = r /\ \A j \in 1..Len(box) : box[j].req = r => j = k
      BY <2>3 DEF Once
    <3>2. inBox = {k}
      BY <3>1
    <3> QED BY <3>2
  <2>4. ASSUME Once(timers, r) PROVE \E p : inList = {p}
    <3>1. PICK k \in 1..Len(timers) : timers[k].req = r /\ \A j \in 1..Len(timers) : timers[j].req = r => j = k
      BY <2>4 DEF Once
    <3>2. {j \in 1..Len(timers) : timers[j].req = r} = {k}
      BY <3>1
    <3>3. inList = {-k}
      BY <3>2
    <3> QED BY <3>3
  <2> HIDE DEF inBox, inList, inHand
  <2>5. /\ answers[r] <= 1
        /\ togo[r] = -1 \/ answers[r] = 1 => inBox \cup inList \cup inHand = {}
        /\ ~(togo[r] = -1 \/ answers[r] = 1)
             => \E p \in inBox \cup inList \cup inHand : inBox \cup inList \cup inHand = {p}
    <3>1. answers[r] <= 1
      BY <2>1 DEF Placed
    <3>2. CASE togo[r] = -1 \/ answers[r] = 1
      BY <2>1, <2>2, <3>1, <3>2 DEF Placed, Nowhere
    <3>3. CASE ~(togo[r] = -1 \/ answers[r] = 1)
      <4>1. Somewhere(r)
        BY <2>1, <3>3 DEF Placed
      <4> QED BY <2>2, <2>3, <2>4, <3>1, <3>3, <4>1 DEF Somewhere
    <3> QED BY <3>2, <3>3
  <2> QED BY <2>5 DEF inBox, inList, inHand
<1> QED BY <1>1, PlacedInit, PlacedNext, PTL DEF Spec

-----------------------------------------------------------------------------
(* When a request is due.                                                  *)

Entry == [req : Req, msec : Nat]
Hardware == [running : BOOLEAN, tcnt : Nat, tcora : Nat]

\* Ticks until the first timer expires.
Base ==
  IF pc = "rearm" THEN timers[1].msec
  ELSE IF tmr.running THEN tmr.tcora - tmr.tcnt ELSE 0

\* d[k], ticks until the k-th timer of the list s expires: b for the first, and
\* each after the one before it.  No request is then early, by what it has togo.
Due(d, s, b, left) ==
  /\ \A k \in 1..Len(s) : d[k] \in Int
  /\ s # <<>> => d[1] = b
  /\ \A k \in 1..(Len(s) - 1) : d[k + 1] = d[k] + s[k + 1].msec
  /\ \A k \in 1..Len(s) : left[s[k].req] <= d[k]

\* As long as no interrupt came while the driver was busy, one message waits at
\* most, and the hardware timer is what it should be for the first of the list.
OneMessage ==
  \/ box = <<>>
  \/ box = <<expired>>
  \/ \E r \in Req, m \in 0..MSEC : box = <<[req |-> r, msec |-> m]>> /\ togo[r] <= m

Waiting ==
  \/ timers = <<>> /\ ~tmr.running /\ box # <<expired>>
  \/ pc = "rearm" /\ ~tmr.running
  \/ timers # <<>> /\ pc # "rearm" /\ box = <<expired>> /\ ~tmr.running
  \/ /\ timers # <<>> /\ pc # "rearm" /\ box # <<expired>>
     /\ tmr.running /\ tmr.tcora = timers[1].msec

\* What has passed since the driver read the counter is off the new interval too.
Elapsed == tmr.tcnt - t
NewDue ==
  IF timers = <<>> THEN togo[new.req] <= new.msec
  ELSE /\ t \in Nat /\ t <= tmr.tcnt
       /\ togo[new.req] <= 0 \/ togo[new.req] <= new.msec - Elapsed

Timely ==
  /\ timers \in Seq(Entry) /\ tmr \in Hardware
  /\ tmr.running => tmr.tcnt <= tmr.tcora
  /\ \A r \in Req : togo[r] \in Nat \cup {-1}
  /\ pc # "recv" => box = <<>>
  /\ OneMessage
  /\ Waiting
  /\ pc = "insert" => NewDue
  /\ \E d : Due(d, timers, Base, togo)
  /\ NotEarly

EInv == PInv /\ (raced \/ Timely)

LEMMA SetInduction ==
  ASSUME NEW S \in SUBSET Nat, 0 \in S, \A n \in S : n + 1 \in S
  PROVE  S = Nat
<1> SUFFICES ASSUME Nat \ S # {} PROVE FALSE
  OBVIOUS
<1> DEFINE R == {ss \in Nat \X Nat : ss[1] < ss[2]}
<1>1. IsWellFoundedOn(R, Nat)
  BY NatLessThanWellFounded DEF OpToRel
<1>2. PICK x \in Nat \ S : \A y \in Nat \ S : <<y, x>> \notin R
  <2> HIDE DEF R
  <2> QED BY <1>1, WFMin
<1>3. x # 0 /\ x - 1 \in Nat
  OBVIOUS
<1>4. <<x - 1, x>> \in R
  BY <1>3
<1>5. x - 1 \in S
  BY <1>2, <1>3, <1>4
<1> QED BY <1>3, <1>5

\* No timer is due before the first.
LEMMA DueRises ==
  ASSUME NEW s \in Seq(Entry), NEW d, NEW b, NEW left, Due(d, s, b, left)
  PROVE  \A k \in 1..Len(s) : d[k] >= d[1]
<1> DEFINE S == {j \in Nat : j \in 1..Len(s) => d[j] >= d[1]}
<1>1. 0 \in S
  OBVIOUS
<1>2. ASSUME NEW j \in S PROVE j + 1 \in S
  <2> SUFFICES ASSUME j + 1 \in 1..Len(s) PROVE d[j + 1] >= d[1]
    OBVIOUS
  <2>1. Len(s) \in Nat /\ d[1] \in Int
    BY LenProperties DEF Due
  <2>2. CASE j = 0
    BY <2>1, <2>2
  <2>3. CASE j # 0
    <3>1. j \in 1..(Len(s) - 1) /\ j \in 1..Len(s)
      BY <2>1, <2>3
    <3>2. d[j] \in Int /\ d[j + 1] = d[j] + s[j + 1].msec
      BY <3>1 DEF Due
    <3>3. s[j + 1] \in Entry
      BY ElementOfSeq
    <3>4. s[j + 1].msec \in Nat
      BY <3>3 DEF Entry
    <3>5. d[j] >= d[1]
      BY <3>1
    <3> QED BY <2>1, <3>2, <3>4, <3>5
  <2> QED BY <2>2, <2>3
<1>3. S = Nat
  <2> HIDE DEF S
  <2>1. S \in SUBSET Nat
    BY DEF S
  <2> QED BY <1>1, <1>2, <2>1, SetInduction
<1> QED BY <1>3

\* A request in the list is made and not answered.
LEMMA ListedTogo ==
  ASSUME PInv, Timely, NEW k \in 1..Len(timers)
  PROVE  timers[k].req \in Req /\ togo[timers[k].req] \in Nat
<1>1. timers[k].req \in Req
  BY DEF PInv
<1>2. Placed(timers[k].req)
  BY <1>1 DEF PInv
<1>3. ~Never(timers, timers[k].req)
  BY DEF Never
<1> QED BY <1>1, <1>2, <1>3 DEF Placed, Nowhere, Timely

LEMMA TimelyIntr ==
  ASSUME PInv, Timely, timerdrv_intr, ~raced'
  PROVE  Timely'
<1>1. /\ pc = "recv" /\ box = <<>> /\ box' = Append(box, expired)
      /\ tmr.running /\ tmr.tcnt >= tmr.tcora /\ tmr' = [tmr EXCEPT !.running = FALSE]
      /\ UNCHANGED <<timers, pc, new, t, togo, answers>>
  BY DEF timerdrv_intr, timer_is_expired
<1>2. box' = <<expired>> /\ box # <<expired>>
  BY <1>1
<1>3. timers # <<>>
  BY <1>1 DEF Timely, Waiting
<1>4. tmr' \in Hardware /\ ~tmr'.running
  BY <1>1 DEF Timely, Hardware
<1>5. Base = 0 /\ Base' = 0
  BY <1>1, <1>4 DEF Base, Timely, Hardware
<1>6. Waiting' /\ OneMessage'
  BY <1>1, <1>2, <1>3, <1>4 DEF Waiting, OneMessage, expired
<1>7. \E d : Due(d, timers', Base', togo')
  BY <1>1, <1>5 DEF Timely
<1> QED BY <1>1, <1>4, <1>6, <1>7 DEF Timely, NotEarly

LEMMA TimelyTick ==
  ASSUME PInv, Timely, Tick
  PROVE  Timely'
<1> DEFINE on == tmr.running /\ tmr.tcnt < tmr.tcora
<1>1. /\ on => tmr' = [tmr EXCEPT !.tcnt = tmr.tcnt + 1]
      /\ ~on => tmr' = tmr
      /\ UNCHANGED <<timers, box, pc, new, t, answers>>
  BY DEF Tick
<1>2. tmr \in Hardware /\ timers \in Seq(Entry) /\ (tmr.running => tmr.tcnt <= tmr.tcora)
  BY DEF Timely
<1>3. /\ tmr' \in Hardware /\ tmr'.running = tmr.running /\ tmr'.tcora = tmr.tcora
      /\ tmr'.tcnt = IF on THEN tmr.tcnt + 1 ELSE tmr.tcnt
      /\ tmr'.running => tmr'.tcnt <= tmr'.tcora
  BY <1>1, <1>2 DEF Hardware
<1>4. \A r \in Req : /\ togo[r] \in Nat \cup {-1}
                     /\ togo'[r] = IF togo[r] > 0 THEN togo[r] - 1 ELSE togo[r]
  BY DEF Tick, Timely
<1>5. Waiting' /\ OneMessage'
  <2>1. Waiting'
    BY <1>1, <1>3 DEF Timely, Waiting, expired
  <2>2. CASE box = <<>> \/ box = <<expired>>
    BY <1>1, <2>1, <2>2 DEF OneMessage, expired
  <2>3. ASSUME NEW r \in Req, NEW m \in 0..MSEC, box = <<[req |-> r, msec |-> m]>>, togo[r] <= m
        PROVE  OneMessage'
    BY <1>1, <1>4, <2>3, TimerAssumption DEF OneMessage
  <2>4. OneMessage'
    <3>1. OneMessage
      BY DEF Timely
    <3> QED BY <2>2, <2>3, <3>1 DEF OneMessage
  <2> QED BY <2>1, <2>4
<1>6. ASSUME pc = "insert" PROVE NewDue'
  <2>1. new.req \in Req /\ new.msec \in Nat /\ NewDue
    BY <1>6, TimerAssumption DEF PInv, Timely
  <2>2. CASE timers = <<>>
    BY <1>1, <1>4, <2>1, <2>2 DEF NewDue
  <2>3. CASE timers # <<>>
    <3>1. tmr.running
      BY <1>6, <2>3 DEF Timely, Waiting
    <3>2. t \in Nat /\ t <= tmr.tcnt /\ tmr.tcnt \in Nat
      BY <1>2, <2>1, <2>3 DEF NewDue, Hardware
    <3>3. t <= tmr'.tcnt
      BY <1>3, <3>2
    <3>4. togo'[new.req] <= 0 \/ togo'[new.req] <= new.msec - (tmr'.tcnt - t)
      <4>1. /\ togo[new.req] \in Nat \cup {-1}
            /\ togo'[new.req] = IF togo[new.req] > 0 THEN togo[new.req] - 1 ELSE togo[new.req]
        BY <1>4, <2>1
      <4>2. togo[new.req] <= 0 \/ togo[new.req] <= new.msec - (tmr.tcnt - t)
        BY <2>1, <2>3 DEF NewDue, Elapsed
      <4>3. tmr'.tcnt = tmr.tcnt \/ tmr'.tcnt = tmr.tcnt + 1
        BY <1>3
      <4> HIDE DEF on
      <4>4. new.msec \in Nat
        BY <2>1
      <4> QED BY <3>2, <4>1, <4>2, <4>3, <4>4
    <3> QED BY <1>1, <2>3, <3>2, <3>3, <3>4 DEF NewDue, Elapsed
  <2> QED BY <2>2, <2>3
<1>7. \E d : Due(d, timers', Base', togo')
  <2>1. PICK d : Due(d, timers, Base, togo)
    BY DEF Timely
  <2> DEFINE f == [k \in 1..Len(timers) |-> IF on THEN d[k] - 1 ELSE d[k]]
  <2>2. timers # <<>> => Base' = IF on THEN Base - 1 ELSE Base
    <3>1. on => pc # "rearm"
      BY DEF Timely, Waiting
    <3> QED BY <1>1, <1>2, <1>3, <3>1 DEF Base, Hardware
  <2>3. Len(timers) \in Nat
    BY <1>2, LenProperties
  <2>4. \A k \in 1..Len(timers) : f[k] \in Int
    BY <2>1 DEF Due
  <2>5. timers # <<>> => f[1] = Base'
    <3>1. timers # <<>> => 1 \in 1..Len(timers)
      BY <1>2, <2>3, EmptySeq
    <3> QED BY <2>1, <2>2, <3>1 DEF Due
  <2>6. \A k \in 1..(Len(timers) - 1) : f[k + 1] = f[k] + timers[k + 1].msec
    <3> SUFFICES ASSUME NEW k \in 1..(Len(timers) - 1) PROVE f[k + 1] = f[k] + timers[k + 1].msec
      OBVIOUS
    <3>1. k \in 1..Len(timers) /\ k + 1 \in 1..Len(timers)
      BY <2>3
    <3>2. d[k] \in Int /\ d[k + 1] = d[k] + timers[k + 1].msec
      BY <2>1, <3>1 DEF Due
    <3>3. timers[k + 1] \in Entry
      BY <1>2, <3>1, ElementOfSeq
    <3>4. timers[k + 1].msec \in Nat
      BY <3>3 DEF Entry
    <3> QED BY <3>1, <3>2, <3>4
  <2>7. \A k \in 1..Len(timers) : togo'[timers[k].req] <= f[k]
    <3> SUFFICES ASSUME NEW k \in 1..Len(timers) PROVE togo'[timers[k].req] <= f[k]
      OBVIOUS
    <3>1. timers[k].req \in Req /\ togo[timers[k].req] \in Nat
      BY ListedTogo
    <3>2. d[k] \in Int /\ togo[timers[k].req] <= d[k]
      BY <2>1 DEF Due
    <3>3. on => d[k] >= 1
      <4>1. d[k] >= d[1]
        BY <1>2, <2>1, DueRises
      <4>2. d[1] = Base
        BY <2>1, <2>3, EmptySeq DEF Due
      <4>3. on => Base >= 1
        <5>1. on => pc # "rearm"
          BY DEF Timely, Waiting
        <5> QED BY <1>2, <5>1 DEF Base, Hardware
      <4>4. d[1] \in Int
        BY <2>1, <2>3 DEF Due
      <4> QED BY <3>2, <4>1, <4>2, <4>3, <4>4
    <3> QED BY <1>4, <3>1, <3>2, <3>3
  <2> HIDE DEF f
  <2>8. Due(f, timers, Base', togo')
    BY <2>4, <2>5, <2>6, <2>7 DEF Due
  <2> QED BY <1>1, <2>8
<1>8. NotEarly'
  BY <1>1, <1>4 DEF Timely, NotEarly
<1>9. \A r \in Req : togo'[r] \in Nat \cup {-1}
  BY <1>4
<1> HIDE DEF on
<1> QED BY <1>1, <1>2, <1>3, <1>5, <1>6, <1>7, <1>8, <1>9 DEF Timely

LEMMA TimelySendStart ==
  ASSUME PInv, Timely, NEW q \in Req, NEW msec \in 1..MSEC, send_start(q, msec)
  PROVE  Timely'
<1> DEFINE m == [req |-> q, msec |-> msec]
<1>1. /\ pc = "recv" /\ box = <<>> /\ togo[q] = -1 /\ togo' = [togo EXCEPT ![q] = msec]
      /\ box' = Append(box, m)
      /\ UNCHANGED <<timers, pc, new, t, tmr, answers>>
  BY DEF send_start
<1>2. m.req # expired.req /\ box' = <<m>>
  BY <1>1, ExpiryElsewhere
<1>3. /\ \A r \in Req : togo'[r] = IF r = q THEN msec ELSE togo[r]
      /\ msec \in Nat /\ msec \in 0..MSEC
  BY <1>1, TimerAssumption DEF PInv
<1>4. Never(timers, q) /\ answers[q] = 0
  BY <1>1 DEF PInv, Placed, Nowhere
<1>5. OneMessage'
  BY <1>2, <1>3 DEF OneMessage
<1>6. box' # <<expired>> /\ box # <<expired>>
  BY <1>1, <1>2
<1>7. Waiting'
  BY <1>1, <1>6 DEF Timely, Waiting, expired
<1>8. \E d : Due(d, timers', Base', togo')
  <2>1. PICK d : Due(d, timers, Base, togo)
    BY DEF Timely
  <2>2. Base' = Base
    BY <1>1 DEF Base
  <2>3. \A k \in 1..Len(timers) : togo'[timers[k].req] <= d[k]
    BY <1>3, <1>4, <2>1 DEF Never, Due, PInv
  <2>4. Due(d, timers', Base', togo')
    BY <1>1, <2>1, <2>2, <2>3 DEF Due
  <2> QED BY <2>4
<1>9. NotEarly'
  BY <1>1, <1>3, <1>4 DEF Timely, NotEarly
<1>10. \A r \in Req : togo'[r] \in Nat \cup {-1}
  BY <1>3 DEF Timely
<1> HIDE DEF m
<1> QED BY <1>1, <1>5, <1>7, <1>8, <1>9, <1>10 DEF Timely

\* The first timer expires when its client's time has passed.
LEMMA TimelyExpire ==
  ASSUME PInv, Timely, expire
  PROVE  Timely'
<1>1. /\ pc = "recv" /\ box # <<>> /\ box' = Tail(box) /\ Head(box) = expired
      /\ UNCHANGED <<new, t, tmr, togo>>
  BY DEF expire, kz_recv
<1>2. box = <<expired>> /\ box' = <<>>
  <2>1. OneMessage
    BY DEF Timely
  <2>2. ASSUME NEW r \in Req, NEW m \in 0..MSEC, box = <<[req |-> r, msec |-> m]>> PROVE FALSE
    <3>1. Head(box) = [req |-> r, msec |-> m]
      BY <2>2
    <3>2. Head(box).req = r
      BY <3>1
    <3> QED BY <1>1, <3>2, ExpiryElsewhere
  <2>3. box = <<expired>>
    BY <1>1, <2>1, <2>2 DEF OneMessage
  <2> QED BY <1>1, <2>3
<1>3. timers # <<>> /\ ~tmr.running
  BY <1>1, <1>2 DEF Timely, Waiting
<1> DEFINE c == Head(timers).req
<1>4. /\ answers' = [answers EXCEPT ![c] = answers[c] + 1]
      /\ timers' = Tail(timers) /\ pc' = "rearm"
  BY <1>3 DEF expire
<1>5. /\ timers \in Seq(Entry) /\ timers' \in Seq(Entry)
      /\ Len(timers) \in Nat /\ Len(timers) > 0 /\ Len(timers') = Len(timers) - 1
      /\ c = timers[1].req
      /\ \A k \in 1..Len(timers') : timers'[k] = timers[k + 1]
  BY <1>3, <1>4, HeadTailProperties, LenProperties, EmptySeq DEF Timely
<1> HIDE DEF c
<1>6. PICK d : Due(d, timers, Base, togo)
  BY DEF Timely
<1>7. d[1] = 0
  BY <1>1, <1>3, <1>6 DEF Due, Base
<1>8. togo[c] = 0 /\ c \in Req
  <2>1. 1 \in 1..Len(timers)
    BY <1>5
  <2>2. togo[c] \in Nat /\ c \in Req
    BY <1>5, <2>1, ListedTogo
  <2>3. togo[c] <= d[1]
    BY <1>5, <1>6, <2>1 DEF Due
  <2> QED BY <1>7, <2>2, <2>3
<1>9. NotEarly'
  BY <1>1, <1>4, <1>8 DEF Timely, NotEarly, PInv
<1>10. \E f : Due(f, timers', Base', togo')
  <2> DEFINE f == [k \in 1..Len(timers') |-> d[k + 1]]
  <2>1. \A k \in 1..Len(timers') : k + 1 \in 1..Len(timers)
    BY <1>5
  <2>2. \A k \in 1..Len(timers') : f[k] \in Int /\ togo'[timers'[k].req] <= f[k]
    BY <1>1, <1>5, <1>6, <2>1 DEF Due
  <2>3. timers' # <<>> => f[1] = Base'
    <3> SUFFICES ASSUME timers' # <<>> PROVE f[1] = Base'
      OBVIOUS
    <3>1. 1 \in 1..Len(timers') /\ 1 \in 1..(Len(timers) - 1)
      BY <1>5, EmptySeq
    <3>2. d[2] = d[1] + timers[2].msec /\ timers'[1] = timers[2] /\ timers[2] \in Entry
      BY <1>5, <1>6, <2>1, <3>1, ElementOfSeq DEF Due
    <3>3. f[1] = timers'[1].msec
      BY <1>7, <3>1, <3>2 DEF Entry
    <3> QED BY <1>4, <3>3 DEF Base
  <2>4. \A k \in 1..(Len(timers') - 1) : f[k + 1] = f[k] + timers'[k + 1].msec
    <3> SUFFICES ASSUME NEW k \in 1..(Len(timers') - 1)
                 PROVE  f[k + 1] = f[k] + timers'[k + 1].msec
      OBVIOUS
    <3>1. k \in 1..Len(timers') /\ k + 1 \in 1..Len(timers') /\ k + 1 \in 1..(Len(timers) - 1)
      BY <1>5
    <3>2. d[(k + 1) + 1] = d[k + 1] + timers[(k + 1) + 1].msec
      BY <1>6, <3>1 DEF Due
    <3> QED BY <1>5, <3>1, <3>2
  <2> HIDE DEF f
  <2>5. Due(f, timers', Base', togo')
    BY <2>2, <2>3, <2>4 DEF Due
  <2> QED BY <2>5
<1>11. Waiting' /\ OneMessage'
  BY <1>1, <1>2, <1>3, <1>4 DEF Waiting, OneMessage
<1> QED BY <1>1, <1>2, <1>4, <1>5, <1>9, <1>10, <1>11 DEF Timely

LEMMA TimelyRearm ==
  ASSUME PInv, Timely, rearm
  PROVE  Timely'
<1>1. pc = "rearm" /\ pc' = "recv" /\ UNCHANGED <<timers, box, new, t, togo, answers>>
  BY DEF rearm
<1>2. box = <<>> /\ ~tmr.running /\ timers \in Seq(Entry)
  BY <1>1 DEF Timely, Waiting
<1>3. OneMessage' /\ NotEarly'
  BY <1>1, <1>2 DEF Timely, OneMessage, NotEarly
<1>4. box' # <<expired>>
  BY <1>1, <1>2
<1>5. CASE timers = <<>>
  <2>1. tmr' = tmr
    BY <1>5 DEF rearm
  <2>2. Waiting'
    BY <1>1, <1>2, <1>4, <1>5, <2>1 DEF Waiting
  <2>3. \E d : Due(d, timers', Base', togo')
    <3>1. PICK d : Due(d, timers, Base, togo)
      BY DEF Timely
    <3>2. Due(d, timers', Base', togo')
      BY <1>1, <1>5, <3>1 DEF Due
    <3> QED BY <3>2
  <2> QED BY <1>1, <1>2, <1>3, <2>1, <2>2, <2>3 DEF Timely
<1>6. CASE timers # <<>>
  <2>1. Head(timers) = timers[1] /\ timers[1] \in Entry
    BY <1>2, <1>6, HeadTailProperties
  <2>2. tmr' = [running |-> TRUE, tcnt |-> 0, tcora |-> timers[1].msec]
    BY <1>6, <2>1 DEF rearm, timer_start
  <2>3. /\ tmr' \in Hardware /\ tmr'.running /\ tmr'.tcnt = 0
        /\ tmr'.tcora = timers[1].msec /\ tmr'.tcnt <= tmr'.tcora
    BY <2>1, <2>2 DEF Hardware, Entry
  <2>4. Waiting'
    BY <1>1, <1>4, <1>6, <2>3 DEF Waiting
  <2>5. Base' = Base
    BY <1>1, <2>1, <2>3 DEF Base, Entry
  <2>6. \E d : Due(d, timers', Base', togo')
    BY <1>1, <2>5 DEF Timely
  <2> QED BY <1>1, <1>2, <1>3, <2>3, <2>4, <2>6 DEF Timely
<1> QED BY <1>5, <1>6

LEMMA TimelyStart ==
  ASSUME PInv, Timely, start
  PROVE  Timely'
<1>1. /\ pc = "recv" /\ box # <<>> /\ box' = Tail(box) /\ Head(box) # expired
      /\ new' = Head(box) /\ t' = (IF timers = <<>> THEN 0 ELSE timer_gettime) /\ pc' = "insert"
      /\ UNCHANGED <<timers, tmr, togo, answers>>
  BY DEF start, kz_recv
<1>2. PICK r \in Req, m \in 0..MSEC : box = <<[req |-> r, msec |-> m]>> /\ togo[r] <= m
  <2>1. OneMessage /\ box # <<expired>>
    BY <1>1 DEF Timely
  <2> QED BY <1>1, <2>1 DEF OneMessage
<1>3. box' = <<>> /\ new' = [req |-> r, msec |-> m] /\ box # <<expired>> /\ box' # <<expired>>
  BY <1>1, <1>2
<1>4. new'.req = r /\ new'.msec = m
  BY <1>3
<1>5. timers # <<>> => tmr.running
  BY <1>1, <1>3 DEF Timely, Waiting
<1>6. NewDue'
  <2>1. CASE timers = <<>>
    BY <1>1, <1>2, <1>4, <2>1 DEF NewDue
  <2>2. CASE timers # <<>>
    <3>1. t' = tmr.tcnt /\ tmr.tcnt \in Nat
      BY <1>1, <1>5, <2>2 DEF timer_gettime, Timely, Hardware
    <3>2. togo[r] <= m - (tmr.tcnt - tmr.tcnt)
      BY <1>2, <3>1, TimerAssumption
    <3>3. t' \in Nat /\ t' <= tmr'.tcnt /\ togo'[new'.req] <= new'.msec - (tmr'.tcnt - t')
      BY <1>1, <1>4, <3>1, <3>2
    <3> QED BY <1>1, <2>2, <3>3 DEF NewDue, Elapsed
  <2> QED BY <2>1, <2>2
<1>7. Waiting' /\ OneMessage'
  BY <1>1, <1>3, <1>5 DEF Timely, Waiting, OneMessage
<1>8. \E d : Due(d, timers', Base', togo')
  <2>1. Base' = Base
    BY <1>1 DEF Base
  <2> QED BY <1>1, <2>1 DEF Timely
<1> QED BY <1>1, <1>3, <1>6, <1>7, <1>8 DEF Timely, NotEarly

\* The walk along the list: a recursive function, and what is left at each place.
Step(g, j) == IF j = 1 THEN new.msec ELSE g[j - 1] - Wait(j - 1)
Steps(g, m) == g = [j \in 1..m |-> Step(g, j)]

LEMMA StepsExist ==
  ASSUME NEW m \in Nat
  PROVE  \E g : Steps(g, m)
<1> DEFINE S == {j \in Nat : \E g : Steps(g, j)}
<1>1. 0 \in S
  <2> DEFINE z == [j \in 1..0 |-> 0]
  <2>1. z = [j \in 1..0 |-> Step(z, j)]
    OBVIOUS
  <2> HIDE DEF z
  <2> QED BY <2>1 DEF Steps
<1>2. ASSUME NEW i \in S PROVE i + 1 \in S
  <2>1. PICK g : Steps(g, i)
    OBVIOUS
  <2> DEFINE h == [j \in 1..(i + 1) |-> Step(g, j)]
  <2>2. \A j \in 1..i : h[j] = g[j]
    BY <2>1 DEF Steps
  <2>3. ASSUME NEW j \in 1..(i + 1) PROVE Step(h, j) = Step(g, j)
    <3>1. CASE j = 1
      BY <3>1 DEF Step
    <3>2. CASE j # 1
      <4>1. j - 1 \in 1..i
        BY <3>2
      <4> HIDE DEF h
      <4> QED BY <2>2, <3>2, <4>1 DEF Step
    <3> QED BY <3>1, <3>2
  <2>4. h = [j \in 1..(i + 1) |-> Step(h, j)]
    BY <2>3
  <2> HIDE DEF h
  <2> QED BY <2>4 DEF Steps
<1>3. S = Nat
  <2> HIDE DEF S
  <2>1. S \in SUBSET Nat
    BY DEF S
  <2> QED BY <1>1, <1>2, <2>1, SetInduction
<1> QED BY <1>3

LEMMA StepsAre ==
  ASSUME NEW g, NEW m \in Nat, Steps(g, m), NEW i \in 1..m
  PROVE  g[i] = IF i = 1 THEN new.msec ELSE g[i - 1] - Wait(i - 1)
<1>1. g = [j \in 1..m |-> Step(g, j)]
  BY DEF Steps
<1>2. [j \in 1..m |-> Step(g, j)][i] = Step(g, i)
  OBVIOUS
<1> QED BY <1>1, <1>2 DEF Step

LEMMA StepsAgree ==
  ASSUME NEW g, NEW h, NEW m \in Nat, NEW n \in Nat, m <= n, Steps(g, m), Steps(h, n)
  PROVE  \A i \in 1..m : g[i] = h[i]
<1> DEFINE S == {j \in Nat : j \in 1..m => g[j] = h[j]}
<1>1. 0 \in S
  OBVIOUS
<1>2. ASSUME NEW j \in S PROVE j + 1 \in S
  <2> SUFFICES ASSUME j + 1 \in 1..m PROVE g[j + 1] = h[j + 1]
    OBVIOUS
  <2>1. /\ g[j + 1] = IF j + 1 = 1 THEN new.msec ELSE g[j + 1 - 1] - Wait(j + 1 - 1)
        /\ h[j + 1] = IF j + 1 = 1 THEN new.msec ELSE h[j + 1 - 1] - Wait(j + 1 - 1)
    BY StepsAre
  <2>2. j = 0 \/ g[j] = h[j]
    OBVIOUS
  <2>3. j + 1 - 1 = j
    OBVIOUS
  <2> QED BY <2>1, <2>2, <2>3
<1>3. S = Nat
  <2> HIDE DEF S
  <2>1. S \in SUBSET Nat
    BY DEF S
  <2> QED BY <1>1, <1>2, <2>1, SetInduction
<1> QED BY <1>3

LEMMA LeftIsStep ==
  ASSUME Len(timers) \in Nat, NEW k \in 1..(Len(timers) + 1)
  PROVE  \E g : Steps(g, k) /\ Left[k] = g[k]
<1> DEFINE P(h) == h = [j \in 1..k |-> IF j = 1 THEN new.msec ELSE h[j - 1] - Wait(j - 1)]
           f == CHOOSE h : P(h)
<1>1. \E h : P(h)
  <2>1. k \in Nat
    OBVIOUS
  <2>2. \E h : Steps(h, k)
    BY <2>1, StepsExist
  <2> QED BY <2>2 DEF Steps, Step
<1>2. Left[k] = f[k]
  BY DEF Left
<1>3. P(f)
  <2> HIDE DEF P
  <2> QED BY <1>1
<1>4. Steps(f, k)
  <2> HIDE DEF f
  <2> QED BY <1>3 DEF Steps, Step
<1> HIDE DEF f
<1> QED BY <1>2, <1>4

LEMMA LeftFalls ==
  ASSUME Len(timers) \in Nat
  PROVE  /\ Left[1] = new.msec
         /\ \A k \in 1..Len(timers) : Left[k + 1] = Left[k] - Wait(k)
<1>1. Left[1] = new.msec
  <2>1. 1 \in 1..(Len(timers) + 1)
    OBVIOUS
  <2>2. PICK g : Steps(g, 1) /\ Left[1] = g[1]
    BY <2>1, LeftIsStep
  <2>3. 1 \in 1..1
    OBVIOUS
  <2> QED BY <2>2, <2>3, StepsAre
<1>2. ASSUME NEW k \in 1..Len(timers) PROVE Left[k + 1] = Left[k] - Wait(k)
  <2>1. k \in 1..(Len(timers) + 1) /\ k + 1 \in 1..(Len(timers) + 1)
    OBVIOUS
  <2>2. PICK g : Steps(g, k) /\ Left[k] = g[k]
    BY <2>1, LeftIsStep
  <2>3. PICK h : Steps(h, k + 1) /\ Left[k + 1] = h[k + 1]
    BY <2>1, LeftIsStep
  <2>4. \A i \in 1..k : g[i] = h[i]
    <3>1. k \in Nat /\ k + 1 \in Nat /\ k <= k + 1
      OBVIOUS
    <3> QED BY <2>2, <2>3, <3>1, StepsAgree
  <2>5. h[k + 1] = IF k + 1 = 1 THEN new.msec ELSE h[k + 1 - 1] - Wait(k + 1 - 1)
    <3>1. k + 1 \in Nat /\ k + 1 \in 1..(k + 1)
      OBVIOUS
    <3> QED BY <2>3, <3>1, StepsAre
  <2>6. k + 1 # 1 /\ k + 1 - 1 = k /\ k \in 1..k
    OBVIOUS
  <2> QED BY <2>2, <2>3, <2>4, <2>5, <2>6
<1> QED BY <1>1, <1>2

\* What insert knows: what is left at a place and what is due there make up the
\* new interval.
Walked(d) ==
  /\ Due(d, timers, Base, togo) /\ timers \in Seq(Entry) /\ Len(timers) \in Nat
  /\ t \in Nat /\ Elapsed \in Nat /\ new.req \in Req /\ new.msec \in Nat
  /\ d[1] + Elapsed + t = timers[1].msec /\ Wait(1) = d[1] + Elapsed
  /\ \A k \in 1..Len(timers) : Wait(k) \in Nat /\ (k > 1 => Wait(k) = timers[k].msec)
  /\ Left[1] = new.msec
  /\ \A k \in 1..Len(timers) : /\ Left[k] \in Int
                               /\ Left[k + 1] = Left[k] - Wait(k)
                               /\ Left[k + 1] = new.msec - (d[k] + Elapsed)

LEMMA WalkIs ==
  ASSUME PInv, Timely, insert, timers # <<>>
  PROVE  \E d : Walked(d)
<1>1. PICK d : Due(d, timers, Base, togo)
  BY DEF Timely
<1> DEFINE n == Len(timers)
<1>2. /\ timers \in Seq(Entry) /\ n \in Nat /\ n > 0 /\ pc = "insert" /\ box = <<>>
      /\ new.req \in Req /\ new.msec \in Nat
  BY LenProperties, EmptySeq, TimerAssumption DEF Timely, insert, PInv
<1>3. tmr.running /\ tmr.tcora = timers[1].msec /\ tmr.tcnt \in Nat /\ tmr.tcnt <= tmr.tcora
      /\ tmr.tcora \in Nat
  BY <1>2 DEF Timely, Waiting, Hardware
<1>4. t \in Nat /\ t <= tmr.tcnt /\ Elapsed \in Nat /\ Elapsed = tmr.tcnt - t
  BY <1>2, <1>3 DEF Timely, NewDue, Elapsed
<1>5. d[1] = timers[1].msec - tmr.tcnt /\ d[1] \in Int /\ timers[1].msec \in Nat
  BY <1>1, <1>2, <1>3 DEF Due, Base
<1>6. d[1] + Elapsed + t = timers[1].msec /\ Wait(1) = d[1] + Elapsed
  <2>1. d[1] + Elapsed = timers[1].msec - t
    BY <1>3, <1>4, <1>5
  <2>2. t <= timers[1].msec
    BY <1>3, <1>4
  <2>3. Wait(1) = IF timers[1].msec > t THEN timers[1].msec - t ELSE 0
    BY DEF Wait
  <2> QED BY <1>4, <1>5, <2>1, <2>2, <2>3
<1>7. ASSUME NEW k \in 1..n PROVE Wait(k) \in Nat /\ (k > 1 => Wait(k) = timers[k].msec)
  <2>1. timers[k] \in Entry
    BY <1>2, ElementOfSeq
  <2>2. timers[k].msec \in Nat
    BY <2>1 DEF Entry
  <2> QED BY <1>4, <1>5, <2>2 DEF Wait
<1>8. Left[1] = new.msec /\ \A k \in 1..n : Left[k + 1] = Left[k] - Wait(k)
  BY <1>2, LeftFalls
<1>9. \A k \in 1..n : Left[k] \in Int /\ Left[k + 1] = new.msec - (d[k] + Elapsed)
  <2> DEFINE S == {j \in Nat : j + 1 \in 1..n =>
                     Left[j + 1] \in Int /\ Left[j + 2] = new.msec - (d[j + 1] + Elapsed)}
  <2>1. 0 \in S
    <3>1. 1 \in 1..n
      BY <1>2
    <3>2. Left[1 + 1] = Left[1] - Wait(1) /\ Wait(1) \in Nat
      BY <1>7, <1>8, <3>1
    <3>3. Left[2] = new.msec - (d[1] + Elapsed)
      BY <1>6, <1>8, <3>2
    <3> QED BY <1>2, <1>8, <3>3
  <2>2. ASSUME NEW j \in S PROVE j + 1 \in S
    <3> SUFFICES ASSUME j + 2 \in 1..n
                 PROVE  Left[j + 2] \in Int /\ Left[j + 3] = new.msec - (d[j + 2] + Elapsed)
      OBVIOUS
    <3>1. j + 1 \in 1..n /\ j + 1 \in 1..(n - 1) /\ (j + 1) + 1 = j + 2 /\ (j + 2) + 1 = j + 3
          /\ j + 2 > 1
      BY <1>2
    <3>2. Left[j + 2] = new.msec - (d[j + 1] + Elapsed)
      BY <3>1
    <3>3. d[j + 1] \in Int /\ d[(j + 1) + 1] = d[j + 1] + timers[(j + 1) + 1].msec
      BY <1>1, <3>1 DEF Due
    <3>4. Wait(j + 2) = timers[j + 2].msec /\ Wait(j + 2) \in Nat
      BY <1>7, <3>1
    <3>5. Left[(j + 2) + 1] = Left[j + 2] - Wait(j + 2)
      BY <1>8
    <3>6. d[j + 2] = d[j + 1] + Wait(j + 2)
      BY <3>1, <3>3, <3>4
    <3>7. Left[j + 2] \in Int
      BY <1>2, <1>4, <3>2, <3>3
    <3>8. Left[j + 3] = Left[j + 2] - Wait(j + 2)
      BY <3>1, <3>5
    <3>9. Left[j + 3] = new.msec - (d[j + 2] + Elapsed)
      BY <1>2, <1>4, <3>2, <3>3, <3>4, <3>6, <3>8
    <3> QED BY <3>7, <3>9
  <2>3. S = Nat
    <3> HIDE DEF S
    <3>1. S \in SUBSET Nat
      BY DEF S
    <3> QED BY <2>1, <2>2, <3>1, SetInduction
  <2>4. ASSUME NEW k \in 1..n
        PROVE  Left[k] \in Int /\ Left[k + 1] = new.msec - (d[k] + Elapsed)
    <3>1. k - 1 \in Nat /\ (k - 1) + 1 = k /\ (k - 1) + 2 = k + 1
      BY <1>2
    <3> QED BY <2>3, <3>1
  <2> QED BY <2>4
<1>10. Walked(d)
  BY <1>1, <1>2, <1>4, <1>6, <1>7, <1>8, <1>9 DEF Walked
<1> QED BY <1>10

\* A list, with the hardware timer it needs and the times its timers are due at, is
\* all that insert has to leave.
LEMMA TimelyAfter ==
  ASSUME PInv, Timely, insert, timers' \in Seq(Entry), timers' # <<>>,
         tmr' \in Hardware, tmr'.running, tmr'.tcnt <= tmr'.tcora, tmr'.tcora = timers'[1].msec,
         NEW d, Due(d, timers', tmr'.tcora - tmr'.tcnt, togo)
  PROVE  Timely'
<1>1. pc = "insert" /\ pc' = "recv" /\ UNCHANGED <<box, togo, answers>>
  BY DEF insert
<1>2. box = <<>> /\ box # <<expired>>
  BY <1>1 DEF Timely
<1>3. Base' = tmr'.tcora - tmr'.tcnt
  BY <1>1 DEF Base
<1>4. Waiting' /\ OneMessage'
  BY <1>1, <1>2 DEF Waiting, OneMessage, expired
<1>5. NotEarly' /\ \A r \in Req : togo'[r] \in Nat \cup {-1}
  BY <1>1 DEF Timely, NotEarly
<1>6. \E f : Due(f, timers', Base', togo')
  BY <1>1, <1>3
<1> QED BY <1>1, <1>4, <1>5, <1>6 DEF Timely

LEMMA NewIs ==
  ASSUME PInv, insert
  PROVE  /\ new \in [req : Req, msec : Nat]
         /\ \A m \in Nat : [new EXCEPT !.msec = m] \in Entry
         /\ \A m : [new EXCEPT !.msec = m].req = new.req /\ [new EXCEPT !.msec = m].msec = m
<1>1. new \in [req : Req, msec : 0..MSEC] /\ 0..MSEC \subseteq Nat
  BY TimerAssumption DEF PInv, insert
<1> QED BY <1>1 DEF Entry

\* The only timer.
LEMMA TimelyFirst ==
  ASSUME PInv, Timely, insert, timers = <<>>
  PROVE  Timely'
<1> DEFINE e == [new EXCEPT !.msec = Left[1]]
<1>1. Len(timers) = 0 /\ timers \in Seq(Entry)
  BY DEF Timely
<1>2. Left[1] = new.msec /\ new.msec \in Nat
  BY <1>1, LeftFalls, NewIs
<1>3. e \in Entry /\ e.req = new.req /\ e.msec = new.msec
  BY <1>2, NewIs
<1>4. timers' = Append(timers, e) /\ tmr' = [running |-> TRUE, tcnt |-> 0, tcora |-> new.msec]
  BY <1>1 DEF insert, timer_start
<1> HIDE DEF e
<1>5. timers' \in Seq(Entry) /\ timers' # <<>> /\ Len(timers') = 1 /\ timers'[1] = e
  BY <1>1, <1>3, <1>4
<1>6. /\ tmr' \in Hardware /\ tmr'.running /\ tmr'.tcnt = 0 /\ tmr'.tcora = new.msec
  BY <1>2, <1>4 DEF Hardware
<1>7. togo[new.req] <= new.msec
  BY DEF Timely, NewDue, insert
<1> DEFINE d == [k \in 1..1 |-> new.msec]
<1>8. Due(d, timers', tmr'.tcora - tmr'.tcnt, togo)
  BY <1>2, <1>3, <1>5, <1>6, <1>7 DEF Due
<1> HIDE DEF d
<1> QED BY <1>2, <1>3, <1>5, <1>6, <1>8, TimelyAfter

Longer == {k \in 1..Len(timers) : Left[k] < Wait(k)}

\* Behind all others: it is due when what is left has passed after the last.
LEMMA TimelyLast ==
  ASSUME PInv, Timely, insert, timers # <<>>, Longer = {},
         timers' = Append(timers, [new EXCEPT !.msec = Left[Len(timers) + 1]]), tmr' = tmr
  PROVE  Timely'
<1> DEFINE n == Len(timers)
           e == [new EXCEPT !.msec = Left[n + 1]]
<1>1. PICK d : Walked(d)
  BY WalkIs
<1>2. /\ timers \in Seq(Entry) /\ n \in Nat /\ n > 0
      /\ Due(d, timers, Base, togo) /\ Elapsed \in Nat /\ new.req \in Req /\ new.msec \in Nat
  BY <1>1, EmptySeq DEF Walked
<1>3. n \in 1..n
  BY <1>2
<1>4. /\ Left[n] \in Int /\ Wait(n) \in Nat /\ Left[n + 1] = Left[n] - Wait(n)
      /\ Left[n + 1] = new.msec - (d[n] + Elapsed) /\ d[n] \in Int
  BY <1>1, <1>2, <1>3 DEF Walked, Due
<1>5. Left[n] >= Wait(n)
  BY <1>3, <1>4 DEF Longer
<1>6. Left[n + 1] \in Nat
  BY <1>4, <1>5
<1>7. e \in Entry /\ e.req = new.req /\ e.msec = Left[n + 1]
  BY <1>6, NewIs
<1> HIDE DEF e
<1>8. /\ timers' \in Seq(Entry) /\ Len(timers') = n + 1 /\ timers'[n + 1] = e /\ timers' # <<>>
      /\ \A k \in 1..n : timers'[k] = timers[k]
  <2>1. timers' = Append(timers, e)
    BY DEF e
  <2> QED BY <1>2, <1>7, <2>1, AppendProperties, EmptySeq
<1>9. /\ tmr' \in Hardware /\ tmr'.running /\ tmr'.tcnt <= tmr'.tcora /\ tmr'.tcora = timers'[1].msec
      /\ Base = tmr'.tcora - tmr'.tcnt
  <2>1. pc = "insert" /\ box = <<>> /\ box # <<expired>>
    BY DEF insert, Timely
  <2>2. timers'[1] = timers[1]
    BY <1>2, <1>8
  <2> QED BY <2>1, <2>2 DEF Timely, Waiting, Base
<1> DEFINE f == [k \in 1..(n + 1) |-> IF k = n + 1 THEN d[n] + Left[n + 1] ELSE d[k]]
<1>10. f[n + 1] = d[n] + Left[n + 1] /\ \A k \in 1..n : f[k] = d[k]
  BY <1>2
<1>11. togo[new.req] <= f[n + 1] /\ f[n + 1] \in Int
  <2>1. togo[new.req] <= 0 \/ togo[new.req] <= new.msec - Elapsed
    BY DEF Timely, NewDue, insert
  <2>2. f[n + 1] = new.msec - Elapsed /\ f[n + 1] \in Int
    BY <1>2, <1>4, <1>10
  <2>3. d[n] >= 0
    <3>1. d[n] >= d[1]
      BY <1>2, <1>3, DueRises
    <3>2. d[1] = Base /\ Base >= 0 /\ d[1] \in Int
      BY <1>2, <1>9 DEF Due, Hardware
    <3> QED BY <1>4, <3>1, <3>2
  <2>4. f[n + 1] >= 0
    BY <1>4, <1>6, <1>10, <2>3
  <2>5. togo[new.req] \in Int
    BY <1>2 DEF Timely
  <2> QED BY <1>2, <2>1, <2>2, <2>4, <2>5
<1> HIDE DEF f
<1>12. Due(f, timers', tmr'.tcora - tmr'.tcnt, togo)
  <2>1. \A k \in 1..Len(timers') : k = n + 1 \/ k \in 1..n
    BY <1>2, <1>8
  <2>2. \A k \in 1..Len(timers') : f[k] \in Int /\ togo[timers'[k].req] <= f[k]
    BY <1>2, <1>7, <1>8, <1>10, <1>11, <2>1 DEF Due
  <2>3. f[1] = tmr'.tcora - tmr'.tcnt
    BY <1>2, <1>9, <1>10 DEF Due
  <2>4. ASSUME NEW k \in 1..(Len(timers') - 1) PROVE f[k + 1] = f[k] + timers'[k + 1].msec
    <3>1. CASE k = n
      BY <1>3, <1>7, <1>8, <1>10, <3>1
    <3>2. CASE k # n
      <4>1. k \in 1..(n - 1) /\ k \in 1..n /\ k + 1 \in 1..n
        BY <1>2, <1>8, <3>2
      <4>2. d[k + 1] = d[k] + timers[k + 1].msec
        BY <1>2, <4>1 DEF Due
      <4> QED BY <1>8, <1>10, <4>1, <4>2
    <3> QED BY <3>1, <3>2
  <2> QED BY <2>2, <2>3, <2>4 DEF Due
<1> QED BY <1>8, <1>9, <1>12, TimelyAfter

InsertsAt(k) ==
  /\ k \in Longer /\ \A j \in Longer : k <= j
  /\ timers' = Splice(timers, k, [new EXCEPT !.msec = Left[k]],
                                 [timers[k] EXCEPT !.msec = Wait(k) - Left[k]])
  /\ tmr' = [running |-> TRUE, tcnt |-> 0, tcora |-> timers'[1].msec]

\* Before the k-th: the hardware timer starts over, so that what has passed is
\* waited for once more, and for the others the time read as well.
LEMMA TimelyBefore ==
  ASSUME PInv, Timely, insert, timers # <<>>, NEW k, InsertsAt(k)
  PROVE  Timely'
<1> DEFINE n == Len(timers)
           e == [new EXCEPT !.msec = Left[k]]
           l == [timers[k] EXCEPT !.msec = Wait(k) - Left[k]]
<1>1. PICK d : Walked(d)
  BY WalkIs
<1>2. /\ timers \in Seq(Entry) /\ n \in Nat
      /\ Due(d, timers, Base, togo) /\ Elapsed \in Nat /\ t \in Nat
      /\ new.req \in Req /\ new.msec \in Nat
  BY <1>1 DEF Walked
<1>3. k \in 1..n /\ Left[k] < Wait(k) /\ \A j \in 1..(k - 1) : ~(Left[j] < Wait(j))
  BY <1>2 DEF InsertsAt, Longer
<1>4. Left[k] \in Int /\ Wait(k) \in Nat /\ d[k] \in Int
  BY <1>1, <1>2, <1>3 DEF Walked, Due
<1>5. Left[1] = new.msec /\ d[1] + Elapsed + t = timers[1].msec /\ Wait(1) = d[1] + Elapsed
      /\ d[1] \in Int
  <2>1. Left[1] = new.msec /\ d[1] + Elapsed + t = timers[1].msec /\ Wait(1) = d[1] + Elapsed
    BY <1>1 DEF Walked
  <2>2. 1 \in 1..n
    BY <1>2, <1>3
  <2>3. d[1] \in Int
    BY <1>2, <2>2 DEF Due
  <2> QED BY <2>1, <2>3
<1>6. k > 1 => /\ Left[k] \in Nat /\ d[k - 1] \in Int /\ Wait(k) = timers[k].msec
               /\ Left[k] = new.msec - (d[k - 1] + Elapsed) /\ d[k] = d[k - 1] + Wait(k)
  <2> SUFFICES ASSUME k > 1
               PROVE  /\ Left[k] \in Nat /\ d[k - 1] \in Int /\ Wait(k) = timers[k].msec
                      /\ Left[k] = new.msec - (d[k - 1] + Elapsed) /\ d[k] = d[k - 1] + Wait(k)
    OBVIOUS
  <2>1. k - 1 \in 1..n /\ k - 1 \in 1..(k - 1) /\ k - 1 \in 1..(n - 1) /\ (k - 1) + 1 = k
    BY <1>2, <1>3
  <2>2. /\ Left[k - 1] \in Int /\ Left[(k - 1) + 1] = Left[k - 1] - Wait(k - 1)
        /\ Left[(k - 1) + 1] = new.msec - (d[k - 1] + Elapsed) /\ Wait(k - 1) \in Nat
    BY <1>1, <2>1 DEF Walked
  <2>3. d[k - 1] \in Int /\ d[(k - 1) + 1] = d[k - 1] + timers[(k - 1) + 1].msec
    BY <1>2, <2>1 DEF Due
  <2>4. Wait(k) = timers[k].msec
    BY <1>1, <1>3 DEF Walked
  <2>5. ~(Left[k - 1] < Wait(k - 1))
    BY <1>3, <2>1
  <2>6. Left[k] = Left[k - 1] - Wait(k - 1)
    BY <2>1, <2>2
  <2>7. Left[k] \in Nat
    BY <2>2, <2>5, <2>6
  <2> QED BY <2>1, <2>2, <2>3, <2>4, <2>7
<1>7. Left[k] \in Nat /\ Wait(k) - Left[k] \in Nat
  <2>1. Left[k] \in Nat
    <3>1. k = 1 \/ k > 1
      BY <1>3
    <3> QED BY <1>2, <1>5, <1>6, <3>1
  <2> QED BY <1>3, <1>4, <2>1
<1>8. e \in Entry /\ e.req = new.req /\ e.msec = Left[k]
  BY <1>7, NewIs
<1>9. l \in Entry /\ l.req = timers[k].req /\ l.msec = Wait(k) - Left[k]
  <2>1. timers[k] \in Entry
    BY <1>2, <1>3, ElementOfSeq
  <2> QED BY <1>7, <2>1 DEF Entry
<1>10. Spliced(timers', Entry, timers, k, e, l)
  <2>1. timers' = Splice(timers, k, e, l)
    BY DEF InsertsAt
  <2> HIDE DEF e, l
  <2> QED BY <1>2, <1>3, <1>8, <1>9, <2>1, SpliceIs
<1> HIDE DEF e, l
<1>11. /\ timers' \in Seq(Entry) /\ Len(timers') = n + 1 /\ timers'[k] = e /\ timers'[k + 1] = l
       /\ \A j \in 1..(k - 1) : timers'[j] = timers[j]
       /\ \A j \in (k + 1)..n : timers'[j + 1] = timers[j]
  BY <1>10 DEF Spliced
<1>12. timers' # <<>> /\ timers'[1] \in Entry
  <2>1. 1 \in 1..Len(timers')
    BY <1>2, <1>11
  <2> QED BY <1>2, <1>11, <2>1, ElementOfSeq, EmptySeq
<1>13. /\ tmr' \in Hardware /\ tmr'.running /\ tmr'.tcnt = 0 /\ tmr'.tcora = timers'[1].msec
       /\ timers'[1].msec \in Nat
  BY <1>12 DEF InsertsAt, Hardware, Entry
<1> DEFINE late == IF k = 1 THEN 0 ELSE t
           c == Elapsed + late
           f == [j \in 1..(n + 1) |-> IF j < k THEN d[j] + c
                                      ELSE IF j = k THEN new.msec + late ELSE d[j - 1] + c]
<1>14. late \in Nat /\ c \in Nat /\ c = Elapsed + late /\ (k = 1 => late = 0) /\ (k > 1 => late = t)
  BY <1>2
<1>15. /\ \A j \in 1..(k - 1) : f[j] = d[j] + c
       /\ f[k] = new.msec + late
       /\ \A j \in k..n : f[j + 1] = d[j] + c
  BY <1>2, <1>3
<1> HIDE DEF late, c, f
<1>16. ASSUME NEW j \in 1..n PROVE d[j] \in Int /\ togo[timers[j].req] <= d[j]
  BY <1>2 DEF Due
<1>17. /\ f[k] \in Int /\ togo[new.req] <= f[k]
  <2>1. togo[new.req] <= 0 \/ togo[new.req] <= new.msec - Elapsed
    BY DEF Timely, NewDue, insert
  <2>2. togo[new.req] \in Int
    BY <1>2 DEF Timely
  <2> QED BY <1>2, <1>14, <1>15, <2>1, <2>2
<1>18. ASSUME NEW j \in 1..Len(timers') PROVE f[j] \in Int /\ togo[timers'[j].req] <= f[j]
  <2>1. j \in 1..(k - 1) \/ j = k \/ (j - 1 \in k..n /\ (j - 1) + 1 = j)
    BY <1>2, <1>3, <1>11
  <2>2. CASE j \in 1..(k - 1)
    <3>0. j \in 1..n
      BY <1>2, <1>3, <2>2
    <3>1. f[j] = d[j] + c /\ timers'[j] = timers[j]
      BY <1>11, <1>15, <2>2
    <3>2. timers[j].req \in Req
      BY <3>0 DEF PInv
    <3>3. togo[timers[j].req] \in Int
      BY <3>2 DEF Timely
    <3>4. d[j] \in Int /\ togo[timers[j].req] <= d[j]
      BY <1>16, <3>0
    <3> QED BY <1>14, <3>1, <3>3, <3>4
  <2>3. CASE j = k
    BY <1>8, <1>11, <1>17, <2>3
  <2>4. CASE j - 1 \in k..n /\ (j - 1) + 1 = j
    <3>0. j - 1 \in 1..n
      BY <1>2, <1>3, <2>4
    <3>1. f[j] = d[j - 1] + c
      <4>1. f[(j - 1) + 1] = d[j - 1] + c
        BY <1>15, <2>4
      <4> QED BY <2>4, <4>1
    <3>2. timers'[j].req = timers[j - 1].req
      <4>1. j - 1 = k \/ j - 1 \in (k + 1)..n
        BY <1>2, <1>3, <2>4
      <4> QED BY <1>9, <1>11, <2>4, <4>1
    <3>3. timers[j - 1].req \in Req
      BY <3>0 DEF PInv
    <3>4. togo[timers[j - 1].req] \in Int
      BY <3>3 DEF Timely
    <3>5. d[j - 1] \in Int /\ togo[timers[j - 1].req] <= d[j - 1]
      BY <1>16, <3>0
    <3> QED BY <1>14, <3>1, <3>2, <3>4, <3>5
  <2> QED BY <2>1, <2>2, <2>3, <2>4
<1>19. f[1] = tmr'.tcora - tmr'.tcnt
  <2>1. f[1] = timers'[1].msec
    <3>1. CASE k = 1
      <4>1. f[1] = new.msec + late /\ timers'[1] = e
        BY <1>11, <1>15, <3>1
      <4>2. e.msec = new.msec /\ late = 0
        BY <1>5, <1>8, <1>14, <3>1
      <4> QED BY <1>2, <4>1, <4>2
    <3>2. CASE k > 1
      <4>1. 1 \in 1..(k - 1)
        BY <1>3, <3>2
      <4>2. f[1] = d[1] + c /\ timers'[1] = timers[1]
        BY <1>11, <1>15, <4>1
      <4>3. c = Elapsed + t
        BY <1>14, <3>2
      <4>4. d[1] + (Elapsed + t) = (d[1] + Elapsed) + t
        <5>1. \A a, x, y \in Int : a + (x + y) = (a + x) + y
          OBVIOUS
        <5>2. Elapsed \in Int /\ t \in Int /\ d[1] \in Int
          BY <1>2, <1>5
        <5> QED BY <5>1, <5>2
      <4> QED BY <1>5, <4>2, <4>3, <4>4
    <3> QED BY <1>3, <3>1, <3>2
  <2> QED BY <1>13, <2>1
<1>20. ASSUME NEW j \in 1..n PROVE f[j + 1] = f[j] + timers'[j + 1].msec
  <2>1. CASE j + 1 < k
    <3>1. j \in 1..(k - 1) /\ j + 1 \in 1..(k - 1) /\ j \in 1..(n - 1)
      BY <1>2, <1>3, <2>1
    <3>2. d[j + 1] = d[j] + timers[j + 1].msec
      BY <1>2, <3>1 DEF Due
    <3>3. timers[j + 1] \in Entry /\ j + 1 \in 1..n
      BY <1>2, <3>1, ElementOfSeq
    <3>4. timers[j + 1].msec \in Nat
      BY <3>3 DEF Entry
    <3>5. f[j] = d[j] + c /\ f[j + 1] = d[j + 1] + c /\ timers'[j + 1] = timers[j + 1]
      BY <1>11, <1>15, <3>1
    <3>6. d[j] \in Int
      BY <1>16
    <3> QED BY <1>14, <3>2, <3>4, <3>5, <3>6
  <2>2. CASE j + 1 = k
    <3>1. j \in 1..(k - 1) /\ j = k - 1 /\ k > 1
      BY <1>3, <2>2
    <3>2. f[j] = d[k - 1] + c /\ f[j + 1] = new.msec + late /\ timers'[j + 1].msec = Left[k]
      BY <1>8, <1>11, <1>15, <2>2, <3>1
    <3>3. d[k - 1] \in Int /\ Left[k] = new.msec - (d[k - 1] + Elapsed)
      BY <1>6, <3>1
    <3> QED BY <1>2, <1>14, <3>2, <3>3
  <2>3. CASE j = k
    <3>1. f[j] = new.msec + late /\ f[j + 1] = d[k] + c /\ timers'[j + 1].msec = Wait(k) - Left[k]
      BY <1>2, <1>3, <1>9, <1>11, <1>15, <2>3
    <3>2. d[k] + Elapsed = new.msec + (Wait(k) - Left[k])
      <4>1. CASE k = 1
        <5>1. Left[k] = new.msec /\ Wait(k) = d[k] + Elapsed
          BY <1>5, <4>1
        <5> QED BY <1>2, <1>4, <5>1
      <4>2. CASE k > 1
        <5>1. d[k - 1] \in Int /\ Left[k] = new.msec - (d[k - 1] + Elapsed) /\ d[k] = d[k - 1] + Wait(k)
          BY <1>6, <4>2
        <5>2. new.msec \in Int /\ Elapsed \in Int /\ Wait(k) \in Int
          BY <1>2, <1>4
        <5>3. ASSUME NEW a \in Int, NEW w \in Int, NEW m \in Int, NEW x \in Int
              PROVE  (a + w) + x = m + (w - (m - (a + x)))
          OBVIOUS
        <5>4. (d[k - 1] + Wait(k)) + Elapsed = new.msec + (Wait(k) - (new.msec - (d[k - 1] + Elapsed)))
          BY <5>1, <5>2, <5>3
        <5> QED BY <5>1, <5>4
      <4> QED BY <1>3, <4>1, <4>2
    <3>3. late \in Nat /\ c = Elapsed + late
      BY <1>14
    <3>4. new.msec \in Int /\ Elapsed \in Int /\ late \in Int /\ c \in Int /\ Wait(k) - Left[k] \in Int
      BY <1>2, <1>4, <1>14
    <3>5. ASSUME NEW a \in Int, NEW x \in Int, NEW v \in Int PROVE a + (x + v) = (a + x) + v
      OBVIOUS
    <3>6. ASSUME NEW m \in Int, NEW y \in Int, NEW v \in Int PROVE (m + y) + v = (m + v) + y
      OBVIOUS
    <3>7. d[k] + c = (d[k] + Elapsed) + late
      BY <1>4, <3>3, <3>4, <3>5
    <3>8. (new.msec + (Wait(k) - Left[k])) + late = (new.msec + late) + (Wait(k) - Left[k])
      BY <3>4, <3>6
    <3> QED BY <3>1, <3>2, <3>7, <3>8, Zenon
  <2>4. CASE j > k
    <3>1. j \in k..n /\ j - 1 \in k..n /\ (j - 1) + 1 = j /\ j \in (k + 1)..n /\ j - 1 \in 1..(n - 1)
          /\ j - 1 \in 1..n
      BY <1>2, <1>3, <2>4
    <3>2. f[j + 1] = d[j] + c /\ f[j] = d[j - 1] + c /\ timers'[j + 1] = timers[j]
      BY <1>11, <1>15, <3>1
    <3>3. d[(j - 1) + 1] = d[j - 1] + timers[(j - 1) + 1].msec
      BY <1>2, <3>1 DEF Due
    <3>4. timers[j] \in Entry
      BY <1>2, ElementOfSeq
    <3>5. timers[j].msec \in Nat
      BY <3>4 DEF Entry
    <3>6. d[j - 1] \in Int
      BY <1>16, <3>1
    <3> QED BY <1>14, <3>1, <3>2, <3>3, <3>5, <3>6
  <2> QED BY <1>2, <1>3, <2>1, <2>2, <2>3, <2>4
<1>21. Due(f, timers', tmr'.tcora - tmr'.tcnt, togo)
  <2>1. \A j \in 1..(Len(timers') - 1) : f[j + 1] = f[j] + timers'[j + 1].msec
    <3>1. Len(timers') - 1 = n
      BY <1>2, <1>11
    <3> HIDE DEF n
    <3> QED BY <1>20, <3>1
  <2> QED BY <1>18, <1>19, <2>1 DEF Due
<1> QED BY <1>11, <1>12, <1>13, <1>21, TimelyAfter

LEMMA TimelyInsert ==
  ASSUME PInv, Timely, insert
  PROVE  Timely'
<1>1. CASE timers = <<>>
  BY <1>1, TimelyFirst
<1>2. CASE timers # <<>>
  <2> DEFINE entry(k) == [new EXCEPT !.msec = Left[k]]
             later(k) == [timers[k] EXCEPT !.msec = Wait(k) - Left[k]]
  <2>1. \/ Longer = {} /\ timers' = Append(timers, entry(Len(timers) + 1)) /\ tmr' = tmr
        \/ \E k \in Longer :
             /\ \A j \in Longer : k <= j
             /\ timers' = SubSeq(timers, 1, k - 1) \o <<entry(k), later(k)>>
                            \o SubSeq(timers, k + 1, Len(timers))
             /\ timer_start(timers'[1].msec)
    BY <1>2 DEF insert, Longer
  <2>2. CASE Longer = {} /\ timers' = Append(timers, entry(Len(timers) + 1)) /\ tmr' = tmr
    BY <1>2, <2>2, TimelyLast
  <2>3. ASSUME NEW k \in Longer, \A j \in Longer : k <= j,
               timers' = SubSeq(timers, 1, k - 1) \o <<entry(k), later(k)>>
                           \o SubSeq(timers, k + 1, Len(timers)),
               timer_start(timers'[1].msec)
        PROVE  Timely'
    <3>1. timers' = Splice(timers, k, entry(k), later(k))
      BY <2>3 DEF Splice
    <3>2. tmr' = [running |-> TRUE, tcnt |-> 0, tcora |-> timers'[1].msec]
      BY <2>3 DEF timer_start
    <3>3. InsertsAt(k)
      BY <2>3, <3>1, <3>2 DEF InsertsAt
    <3> QED BY <1>2, <3>3, TimelyBefore
  <2> QED BY <2>1, <2>2, <2>3
<1> QED BY <1>1, <1>2

LEMMA EarlyInit == Init => EInv
<1> SUFFICES ASSUME Init PROVE EInv
  OBVIOUS
<1>1. <<>> \in Seq(Entry) /\ Len(<<>>) = 0
  BY EmptySeq
<1>2. tmr \in Hardware /\ ~tmr.running
  BY DEF Init, Hardware
<1>3. \E d : Due(d, timers, Base, togo)
  <2> DEFINE d == [k \in 1..0 |-> 0]
  <2>1. Due(d, timers, Base, togo)
    BY <1>1 DEF Init, Due
  <2> QED BY <2>1
<1>4. box # <<expired>>
  BY DEF Init
<1>5. Waiting /\ OneMessage
  BY <1>2, <1>4 DEF Init, Waiting, OneMessage
<1>6. Timely
  BY <1>1, <1>2, <1>3, <1>5 DEF Init, Timely, NotEarly
<1> QED BY <1>6, PlacedInit DEF EInv

LEMMA EarlyNext == EInv /\ [Next]_vars => EInv'
<1> SUFFICES ASSUME EInv, [Next]_vars PROVE EInv'
  OBVIOUS
<1>1. PInv /\ PInv'
  BY PlacedNext DEF EInv
<1>2. raced => raced'
  BY DEF Next, driver, vars, timerdrv_intr, Tick, send_start, expire, rearm, start, insert
<1>3. SUFFICES ASSUME Timely, ~raced' PROVE Timely'
  BY <1>1, <1>2 DEF EInv
<1>4. CASE UNCHANGED vars
  BY <1>3, <1>4 DEF vars, Timely, OneMessage, Waiting, NewDue, Elapsed, Base, NotEarly, expired
<1>5. CASE Next
  BY <1>1, <1>3, <1>5, TimelyIntr, TimelyTick, TimelySendStart, TimelyExpire, TimelyRearm,
     TimelyStart, TimelyInsert DEF Next, driver
<1> QED BY <1>4, <1>5

\* The arithmetic of the list: as long as no interrupt came while the driver was
\* busy, no client is told before its time, whatever is inserted where and however
\* much time passes between the reading of the counter and its restart.
THEOREM EarlyCorrect == Spec => []EarlyByRaceOnly
<1>1. EInv => EarlyByRaceOnly
  BY DEF EInv, Timely, EarlyByRaceOnly
<1> QED BY <1>1, EarlyInit, EarlyNext, PTL DEF Spec
=============================================================================
