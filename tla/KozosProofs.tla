----------------------------- MODULE KozosProofs -----------------------------
(***************************************************************************)
(* Proofs about Kozos.tla, for every number of threads, priorities, boxes  *)
(* and blocks.                                                             *)
(***************************************************************************)
EXTENDS Kozos, SequenceTheorems, FiniteSetTheorems, WellFoundedInduction, TLAPS

\* The ready queues q are well formed for the priorities pri: what
\* ReadyQueueOK says of readyque, ready and priority, with the types.
WellQueued(q, pri) ==
  /\ q.que \in [Priority -> Seq(Thread)]
  /\ q.ready \in [Thread -> BOOLEAN]
  /\ \A i \in Priority : \A k \in 1..Len(q.que[i]) :
       q.ready[q.que[i][k]] /\ pri[q.que[i][k]] = i
  /\ \A t \in Thread : q.ready[t] => \E k \in 1..Len(q.que[pri[t]]) : q.que[pri[t]][k] = t
  /\ \A i \in Priority : \A k, l \in 1..Len(q.que[i]) :
       q.que[i][k] = q.que[i][l] => k = l

\* t is not ready, or first of its queue.
InFront(q, pri, t) ==
  q.ready[t] => q.que[pri[t]] # <<>> /\ Head(q.que[pri[t]]) = t

LEMMA NullIsNoThread == NULL \notin Thread
BY DEF NULL, Thread

\* getcurrent() keeps the queues well formed if the thread is the head of
\* its queue, and changes no READY flag but that thread's.
LEMMA GetCurrent ==
  ASSUME NEW q, NEW t \in Thread, priority \in [Thread -> Priority],
         WellQueued(q, priority), InFront(q, priority, t)
  PROVE  /\ WellQueued(getcurrent(q, t), priority)
         /\ getcurrent(q, t).ready = [q.ready EXCEPT ![t] = FALSE]
<1> DEFINE i0 == priority[t]
           r == getcurrent(q, t)
<1>0. t # NULL /\ i0 \in Priority
  BY NullIsNoThread
<1>1. CASE ~q.ready[t]
  <2>1. r = q
    BY <1>1 DEF getcurrent
  <2>2. q.ready \in [Thread -> BOOLEAN]
    BY DEF WellQueued
  <2>3. q.ready[t] = FALSE
    BY <1>1, <2>2
  <2>4. q.ready = [q.ready EXCEPT ![t] = FALSE]
    BY <2>2, <2>3
  <2> QED BY <2>1, <2>4
<1>2. CASE q.ready[t]
  <2>1. r = [que |-> [q.que EXCEPT ![i0] = Tail(@)], ready |-> [q.ready EXCEPT ![t] = FALSE]]
    BY <1>0, <1>2 DEF getcurrent
  <2>2. q.que[i0] \in Seq(Thread) /\ q.que[i0] # <<>> /\ Head(q.que[i0]) = t
    BY <1>0, <1>2 DEF WellQueued, InFront
  <2>3. /\ Tail(q.que[i0]) \in Seq(Thread)
        /\ Len(Tail(q.que[i0])) = Len(q.que[i0]) - 1
        /\ \A k \in 1..Len(Tail(q.que[i0])) : Tail(q.que[i0])[k] = q.que[i0][k + 1]
        /\ Len(q.que[i0]) \in Nat \ {0}
        /\ q.que[i0][1] = t
    BY <2>2, HeadTailProperties, LenProperties, EmptySeq
  <2>4. /\ r.que \in [Priority -> Seq(Thread)]
        /\ r.ready \in [Thread -> BOOLEAN]
        /\ r.ready = [q.ready EXCEPT ![t] = FALSE]
    BY <1>0, <2>1, <2>3 DEF WellQueued
  <2>5. ASSUME NEW i \in Priority, NEW k \in 1..Len(r.que[i])
        PROVE  /\ r.ready[r.que[i][k]] /\ priority[r.que[i][k]] = i
    <3>1. CASE i = i0
      <4>1. r.que[i] = Tail(q.que[i0])
        BY <2>1, <3>1, <1>0 DEF WellQueued
      <4>2. k + 1 \in 1..Len(q.que[i0]) /\ r.que[i][k] = q.que[i0][k + 1]
        BY <4>1, <2>3, <2>5
      <4>3. q.que[i0][k + 1] # t
        <5>1. \A a, b \in 1..Len(q.que[i0]) : q.que[i0][a] = q.que[i0][b] => a = b
          BY <1>0 DEF WellQueued
        <5>2. k \in Nat \ {0} /\ 1 \in 1..Len(q.que[i0])
          BY <4>1, <2>3, <2>5
        <5> QED BY <5>1, <5>2, <4>2, <2>3
      <4>4. q.que[i0][k + 1] \in Thread
        BY <4>2, <2>2, ElementOfSeq
      <4>5. q.ready[q.que[i0][k + 1]] /\ priority[q.que[i0][k + 1]] = i0
        BY <4>2, <1>0 DEF WellQueued
      <4>6. r.ready[q.que[i0][k + 1]] = q.ready[q.que[i0][k + 1]]
        BY <2>4, <4>3, <4>4, q.ready \in [Thread -> BOOLEAN] DEF WellQueued
      <4> HIDE DEF r, i0
      <4> QED BY <4>2, <4>5, <4>6, <3>1
    <3>2. CASE i # i0
      <4>1. r.que[i] = q.que[i]
        BY <2>1, <3>2 DEF WellQueued
      <4>2. q.que[i][k] \in Thread
        BY <4>1, <2>5, ElementOfSeq DEF WellQueued
      <4>3. q.ready[q.que[i][k]] /\ priority[q.que[i][k]] = i
        BY <4>1, <2>5 DEF WellQueued
      <4>4. q.que[i][k] # t
        BY <4>3, <3>2
      <4> QED BY <4>1, <4>2, <4>3, <4>4, <2>4
    <3> QED BY <3>1, <3>2
  <2>6. ASSUME NEW u \in Thread, r.ready[u]
        PROVE  \E k \in 1..Len(r.que[priority[u]]) : r.que[priority[u]][k] = u
    <3>1. u # t /\ q.ready[u]
      BY <2>4, <2>6 DEF WellQueued
    <3>2. PICK k \in 1..Len(q.que[priority[u]]) : q.que[priority[u]][k] = u
      BY <3>1 DEF WellQueued
    <3>3. CASE priority[u] = i0
      <4>1. r.que[priority[u]] = Tail(q.que[i0])
        BY <2>1, <3>3, <1>0 DEF WellQueued
      <4>2. k # 1
        BY <3>1, <3>2, <3>3, <2>3
      <4>3. k - 1 \in 1..Len(Tail(q.que[i0])) /\ Tail(q.que[i0])[k - 1] = u
        BY <4>2, <3>2, <3>3, <2>3
      <4> QED BY <4>1, <4>3
    <3>4. CASE priority[u] # i0
      <4>1. r.que[priority[u]] = q.que[priority[u]]
        BY <2>1, <3>4 DEF WellQueued
      <4> QED BY <4>1, <3>2
    <3> QED BY <3>3, <3>4
  <2>7. ASSUME NEW i \in Priority, NEW k \in 1..Len(r.que[i]), NEW l \in 1..Len(r.que[i]),
               r.que[i][k] = r.que[i][l]
        PROVE  k = l
    <3>1. CASE i = i0
      <4>1. r.que[i] = Tail(q.que[i0])
        BY <2>1, <3>1, <1>0 DEF WellQueued
      <4>2. /\ k + 1 \in 1..Len(q.que[i0]) /\ l + 1 \in 1..Len(q.que[i0])
            /\ q.que[i0][k + 1] = q.que[i0][l + 1]
        BY <4>1, <2>3, <2>7
      <4>3. k + 1 = l + 1
        BY <4>2, <1>0 DEF WellQueued
      <4> QED BY <4>3
    <3>2. CASE i # i0
      BY <2>1, <2>7, <3>2 DEF WellQueued
    <3> QED BY <3>1, <3>2
  <2> QED BY <2>4, <2>5, <2>6, <2>7 DEF WellQueued
<1> QED BY <1>1, <1>2

\* putcurrent() keeps the queues well formed, sets only t's READY flag, and
\* leaves the head of every queue that has one.
LEMMA PutCurrent ==
  ASSUME NEW q, NEW pri \in [Thread -> Priority], NEW t \in Thread \cup {NULL},
         WellQueued(q, pri)
  PROVE  /\ WellQueued(putcurrent(q, pri, t), pri)
         /\ \A u \in Thread : putcurrent(q, pri, t).ready[u] <=> (q.ready[u] \/ u = t)
         /\ \A i \in Priority : q.que[i] # <<>> =>
              /\ putcurrent(q, pri, t).que[i] # <<>>
              /\ Head(putcurrent(q, pri, t).que[i]) = Head(q.que[i])
<1> DEFINE i0 == pri[t]
           r == putcurrent(q, pri, t)
<1>1. CASE t = NULL \/ q.ready[t]
  <2>1. r = q
    BY <1>1 DEF putcurrent
  <2>2. \A u \in Thread : q.ready[u] <=> (q.ready[u] \/ u = t)
    BY <1>1, NullIsNoThread DEF WellQueued
  <2> QED BY <2>1, <2>2
<1>2. CASE t # NULL /\ ~q.ready[t]
  <2>1. r = [que |-> [q.que EXCEPT ![i0] = Append(@, t)], ready |-> [q.ready EXCEPT ![t] = TRUE]]
    BY <1>2 DEF putcurrent
  <2>2. t \in Thread /\ i0 \in Priority /\ q.que[i0] \in Seq(Thread)
    BY <1>2 DEF WellQueued
  <2>3. /\ Append(q.que[i0], t) \in Seq(Thread)
        /\ Append(q.que[i0], t) # <<>>
        /\ Len(Append(q.que[i0], t)) = Len(q.que[i0]) + 1
        /\ \A k \in 1..Len(q.que[i0]) : Append(q.que[i0], t)[k] = q.que[i0][k]
        /\ Append(q.que[i0], t)[Len(q.que[i0]) + 1] = t
        /\ Len(q.que[i0]) \in Nat
    BY <2>2, AppendProperties, LenProperties
  <2>4. /\ r.que \in [Priority -> Seq(Thread)]
        /\ r.ready \in [Thread -> BOOLEAN]
        /\ r.ready = [q.ready EXCEPT ![t] = TRUE]
        /\ r.que[i0] = Append(q.que[i0], t)
        /\ \A i \in Priority : i # i0 => r.que[i] = q.que[i]
    BY <2>1, <2>2, <2>3 DEF WellQueued
  <2>5. \A i \in Priority : \A k \in 1..Len(q.que[i]) : q.que[i][k] \in Thread /\ q.que[i][k] # t
    <3> SUFFICES ASSUME NEW i \in Priority, NEW k \in 1..Len(q.que[i])
                 PROVE  q.que[i][k] \in Thread /\ q.que[i][k] # t
      OBVIOUS
    <3>1. q.que[i][k] \in Thread
      BY ElementOfSeq DEF WellQueued
    <3>2. q.ready[q.que[i][k]]
      BY DEF WellQueued
    <3> QED BY <3>1, <3>2, <1>2
  <2>6. ASSUME NEW i \in Priority, NEW k \in 1..Len(r.que[i])
        PROVE  r.ready[r.que[i][k]] /\ pri[r.que[i][k]] = i
    <3>1. CASE k \in 1..Len(q.que[i])
      <4>1. r.que[i][k] = q.que[i][k]
        BY <3>1, <2>3, <2>4
      <4>2. q.que[i][k] \in Thread /\ q.que[i][k] # t
        BY <3>1, <2>5
      <4>3. q.ready[q.que[i][k]] /\ pri[q.que[i][k]] = i
        BY <3>1 DEF WellQueued
      <4>4. q.ready \in [Thread -> BOOLEAN]
        BY DEF WellQueued
      <4>5. r.ready[q.que[i][k]] = TRUE
        <5>1. q.ready[q.que[i][k]] = TRUE
          BY <4>2, <4>3, <4>4
        <5> HIDE DEF r
        <5> QED BY <5>1, <2>4, <4>2, <4>4
      <4> HIDE DEF r
      <4> QED BY <4>1, <4>3, <4>5
    <3>2. CASE k \notin 1..Len(q.que[i])
      <4>1. i = i0 /\ k = Len(q.que[i0]) + 1
        BY <3>2, <2>3, <2>4, <2>6
      <4>2. r.ready[t]
        BY <2>2, <2>4 DEF WellQueued
      <4> QED BY <4>1, <4>2, <2>3, <2>4
    <3> QED BY <3>1, <3>2
  <2>7. ASSUME NEW u \in Thread, r.ready[u]
        PROVE  \E k \in 1..Len(r.que[pri[u]]) : r.que[pri[u]][k] = u
    <3>1. CASE u = t
      <4>1. Len(q.que[i0]) + 1 \in 1..Len(r.que[i0]) /\ r.que[i0][Len(q.que[i0]) + 1] = t
        BY <2>3, <2>4
      <4> QED BY <3>1, <4>1
    <3>2. CASE u # t
      <4>1. q.ready[u]
        BY <3>2, <2>4, <2>7 DEF WellQueued
      <4>2. PICK k \in 1..Len(q.que[pri[u]]) : q.que[pri[u]][k] = u
        BY <4>1 DEF WellQueued
      <4>3. CASE pri[u] = i0
        BY <4>2, <4>3, <2>3, <2>4
      <4>4. CASE pri[u] # i0
        <5>1. pri[u] \in Priority
          OBVIOUS
        <5> QED BY <5>1, <4>2, <4>4, <2>4
      <4> QED BY <4>3, <4>4
    <3> QED BY <3>1, <3>2
  <2>8. ASSUME NEW i \in Priority, NEW k \in 1..Len(r.que[i]), NEW l \in 1..Len(r.que[i]),
               r.que[i][k] = r.que[i][l]
        PROVE  k = l
    <3>1. CASE i # i0
      <4>1. r.que[i] = q.que[i]
        BY <2>4, <3>1
      <4> QED BY <2>8, <4>1 DEF WellQueued
    <3>2. CASE i = i0 /\ k \in 1..Len(q.que[i0]) /\ l \in 1..Len(q.que[i0])
      <4>1. q.que[i0][k] = q.que[i0][l]
        BY <3>2, <2>3, <2>4, <2>8
      <4> QED BY <4>1, <3>2 DEF WellQueued
    <3>3. CASE i = i0 /\ ~(k \in 1..Len(q.que[i0]) /\ l \in 1..Len(q.que[i0]))
      <4>1. k = Len(q.que[i0]) + 1 \/ l = Len(q.que[i0]) + 1
        BY <3>3, <2>3, <2>4, <2>8
      <4>2. \A n \in 1..Len(q.que[i0]) : Append(q.que[i0], t)[n] # t
        BY <2>2, <2>3, <2>5
      <4>3. k \in 1..(Len(q.que[i0]) + 1) /\ l \in 1..(Len(q.que[i0]) + 1)
        BY <3>3, <2>3, <2>4
      <4>4. Append(q.que[i0], t)[k] = Append(q.que[i0], t)[l]
        BY <3>3, <2>4, <2>8
      <4>5. CASE k = Len(q.que[i0]) + 1
        BY <4>2, <4>3, <4>4, <4>5, <2>3
      <4>6. CASE l = Len(q.que[i0]) + 1
        BY <4>2, <4>3, <4>4, <4>6, <2>3
      <4> QED BY <4>1, <4>5, <4>6
    <3> QED BY <3>1, <3>2, <3>3
  <2>9. WellQueued(r, pri)
    BY <2>4, <2>6, <2>7, <2>8 DEF WellQueued
  <2>10. \A u \in Thread : r.ready[u] <=> (q.ready[u] \/ u = t)
    <3> SUFFICES ASSUME NEW u \in Thread PROVE r.ready[u] <=> (q.ready[u] \/ u = t)
      OBVIOUS
    <3>1. CASE u = t
      BY <3>1, <2>2, <2>4 DEF WellQueued
    <3>2. CASE u # t
      BY <3>2, <2>4 DEF WellQueued
    <3> QED BY <3>1, <3>2
  <2>11. ASSUME NEW i \in Priority, q.que[i] # <<>>
         PROVE  r.que[i] # <<>> /\ Head(r.que[i]) = Head(q.que[i])
    <3>1. q.que[i] \in Seq(Thread)
      BY DEF WellQueued
    <3>2. CASE i = i0
      BY <3>1, <3>2, <2>2, <2>3, <2>4, <2>11, HeadTailAppend
    <3>3. CASE i # i0
      BY <3>3, <2>4, <2>11
    <3> QED BY <3>2, <3>3
  <2> QED BY <2>9, <2>10, <2>11
<1> QED BY <1>1, <1>2

\* The priority of a thread that is not ready can change freely.
LEMMA Reprioritise ==
  ASSUME NEW q, NEW pri \in [Thread -> Priority], NEW t \in Thread, NEW p \in Priority,
         WellQueued(q, pri), ~q.ready[t]
  PROVE  WellQueued(q, [pri EXCEPT ![t] = p])
<1> DEFINE new == [pri EXCEPT ![t] = p]
<1>1. \A u \in Thread : u # t => new[u] = pri[u]
  OBVIOUS
<1>2. ASSUME NEW i \in Priority, NEW k \in 1..Len(q.que[i])
      PROVE  q.ready[q.que[i][k]] /\ new[q.que[i][k]] = i
  <2>1. q.que[i][k] \in Thread
    BY ElementOfSeq DEF WellQueued
  <2>2. q.ready[q.que[i][k]] /\ pri[q.que[i][k]] = i
    BY DEF WellQueued
  <2> QED BY <1>1, <2>1, <2>2
<1>3. ASSUME NEW u \in Thread, q.ready[u]
      PROVE  \E k \in 1..Len(q.que[new[u]]) : q.que[new[u]][k] = u
  <2>1. u # t
    BY <1>3
  <2>2. \E k \in 1..Len(q.que[pri[u]]) : q.que[pri[u]][k] = u
    BY <1>3 DEF WellQueued
  <2> QED BY <1>1, <2>1, <2>2
<1> QED BY <1>2, <1>3 DEF WellQueued


-----------------------------------------------------------------------------
(* The inductive invariant.                                                *)

\* A TCB not in use holds no system call.
DeadIsClear == \A t \in Thread : ~live[t] => syscall[t] = "OTHER"

IInv ==
  /\ TypeOK
  /\ ReadyQueueOK
  /\ ReadyIsLive
  /\ RunningIsFirst
  /\ ReceiverBlocked
  /\ RecvAnswered
  /\ NobodyForgotten
  /\ DeadIsClear

LEMMA QueuesWell == TypeOK /\ ReadyQueueOK <=> TypeOK /\ WellQueued(queues, priority)
BY DEF TypeOK, ReadyQueueOK, WellQueued, queues

\* What holds of a thread that runs.
LEMMA RunningThread ==
  ASSUME IInv, Running
  PROVE  /\ current \in Thread /\ ready[current] /\ live[current]
         /\ \A m \in MsgBox : receiver[m] # current
         /\ InFront(queues, priority, current)
<1>1. current \in Thread
  BY DEF IInv, TypeOK, RunningIsFirst
<1>2. Top(current)
  BY DEF IInv, RunningIsFirst
<1>3. /\ priority[current] \in Priority
      /\ readyque[priority[current]] \in Seq(Thread)
      /\ readyque[priority[current]] # <<>>
  BY <1>1, <1>2 DEF IInv, TypeOK, Top
<1>4. 1 \in 1..Len(readyque[priority[current]]) /\ readyque[priority[current]][1] = current
  BY <1>2, <1>3, LenProperties, EmptySeq DEF Top
<1>5. ready[current]
  BY <1>3, <1>4 DEF IInv, ReadyQueueOK
<1>6. live[current]
  BY <1>1, <1>5 DEF IInv, ReadyIsLive
<1>7. \A m \in MsgBox : receiver[m] # current
  BY <1>1, <1>5, NullIsNoThread DEF IInv, ReceiverBlocked
<1> QED BY <1>1, <1>2, <1>5, <1>6, <1>7 DEF InFront, queues, Top

\* The queues without the caller, and with the caller put back.
LEMMA TakenOK ==
  ASSUME IInv, Running
  PROVE  /\ WellQueued(Taken, priority)
         /\ Taken.ready = [ready EXCEPT ![current] = FALSE]
<1>1. WellQueued(queues, priority) /\ priority \in [Thread -> Priority]
  BY QueuesWell DEF IInv, TypeOK
<1>2. queues.ready = ready
  BY DEF queues
<1> QED BY <1>1, <1>2, RunningThread, GetCurrent DEF Taken

LEMMA PutBackOK ==
  ASSUME IInv, Running
  PROVE  /\ WellQueued(putcurrent(Taken, priority, current), priority)
         /\ \A u \in Thread : putcurrent(Taken, priority, current).ready[u] <=> ready[u]
<1>1. WellQueued(Taken, priority) /\ priority \in [Thread -> Priority] /\ current \in Thread
  BY TakenOK, RunningThread DEF IInv, TypeOK
<1>2. /\ WellQueued(putcurrent(Taken, priority, current), priority)
      /\ \A u \in Thread : putcurrent(Taken, priority, current).ready[u]
                             <=> (Taken.ready[u] \/ u = current)
  BY <1>1, PutCurrent
<1>3. \A u \in Thread : (Taken.ready[u] \/ u = current) <=> ready[u]
  BY <1>1, TakenOK, RunningThread DEF IInv, TypeOK
<1> QED BY <1>2, <1>3

\* After dispatch(q) the ready queues are q, and the thread schedule()
\* chose is the first of the first occupied queue.
LEMMA Dispatch ==
  ASSUME NEW q, priority' \in [Thread -> Priority], WellQueued(q, priority'), dispatch(q),
         ~down, down \in BOOLEAN, intr' = NULL
  PROVE  /\ readyque' = q.que /\ ready' = q.ready
         /\ readyque' \in [Priority -> Seq(Thread)] /\ ready' \in [Thread -> BOOLEAN]
         /\ current' \in Thread \cup {NULL} /\ down' \in BOOLEAN
         /\ ReadyQueueOK'
         /\ RunningIsFirst'
<1>1. readyque' = q.que /\ ready' = q.ready
  BY DEF dispatch
<1>2. readyque' \in [Priority -> Seq(Thread)] /\ ready' \in [Thread -> BOOLEAN]
  BY <1>1 DEF WellQueued
<1>3. ReadyQueueOK'
  BY <1>1 DEF WellQueued, ReadyQueueOK
<1>4. CASE Occupied(q.que) = {}
  <2>1. down' = TRUE /\ current' = NULL
    BY <1>4 DEF dispatch, schedule
  <2> QED BY <1>1, <1>2, <1>3, <2>1 DEF RunningIsFirst, Running, InHandler
<1>5. CASE Occupied(q.que) # {}
  <2>1. PICK i \in Occupied(q.que) : /\ \A j \in Occupied(q.que) : i <= j
                                     /\ current' = Head(q.que[i])
    BY <1>5 DEF dispatch, schedule
  <2>2. i \in Priority /\ q.que[i] # <<>> /\ q.que[i] \in Seq(Thread)
    BY <2>1 DEF Occupied, WellQueued
  <2>3. 1 \in 1..Len(q.que[i]) /\ current' = q.que[i][1] /\ current' \in Thread
    BY <2>1, <2>2, HeadTailProperties, LenProperties, EmptySeq
  <2>4. priority'[current'] = i
    BY <2>2, <2>3 DEF WellQueued
  <2>5. ASSUME NEW t \in Thread, ready'[t]
        PROVE  priority'[current'] <= priority'[t]
    <3>1. q.ready[t] /\ priority'[t] \in Priority
      BY <1>1, <2>5
    <3>2. PICK k \in 1..Len(q.que[priority'[t]]) : q.que[priority'[t]][k] = t
      BY <3>1 DEF WellQueued
    <3>3. q.que[priority'[t]] # <<>>
      BY <3>2
    <3>4. priority'[t] \in Occupied(q.que)
      BY <3>1, <3>3 DEF Occupied
    <3> QED BY <3>4, <2>1, <2>4
  <2>6. down' = down
    BY <1>5 DEF dispatch, schedule
  <2>7. current' # NULL
    BY <2>3, NullIsNoThread
  <2>8. Top(current)'
    BY <1>1, <2>1, <2>2, <2>4 DEF Top
  <2>9. RunningIsFirst'
    BY <2>5, <2>7, <2>8 DEF RunningIsFirst, InHandler
  <2>10. down' \in BOOLEAN
    BY <2>6
  <2> QED BY <1>1, <1>2, <1>3, <2>3, <2>9, <2>10
<1> QED BY <1>4, <1>5

-----------------------------------------------------------------------------
(* Every step keeps the invariant.  Rest is its part that looks at threads *)
(* and boxes one by one.                                                   *)

Rest == ReadyIsLive /\ ReceiverBlocked /\ RecvAnswered /\ NobodyForgotten /\ DeadIsClear

\* A call that puts its caller back and touches no box.
LEMMA ContinuedRest ==
  ASSUME IInv, Running, \A u \in Thread : ready'[u] <=> ready[u],
         syscall' = [syscall EXCEPT ![current] = "OTHER"], NoAnswer,
         UNCHANGED <<live, receiver, box>>
  PROVE  Rest'
<1>1. current \in Thread /\ live[current] /\ \A m \in MsgBox : receiver[m] # current
  BY RunningThread
<1>2. \A m \in MsgBox : receiver[m] # NULL => receiver[m] \in Thread
  BY DEF IInv, TypeOK
<1>3. \A u \in Thread : syscall'[u] = IF u = current THEN "OTHER" ELSE syscall[u]
  BY DEF IInv, TypeOK
<1>4. \A u \in Thread : ret'[u] = IF u = current THEN NoMsg ELSE ret[u]
  BY DEF IInv, TypeOK, NoAnswer
<1>5. ReadyIsLive'
  BY DEF IInv, ReadyIsLive
<1>6. ReceiverBlocked'
  BY <1>1, <1>2, <1>3 DEF IInv, ReceiverBlocked
<1>7. RecvAnswered'
  BY <1>1, <1>3, <1>4 DEF IInv, RecvAnswered
<1>8. NobodyForgotten'
  BY <1>1, <1>3, RunningThread DEF IInv, NobodyForgotten, Accounted
<1>9. DeadIsClear'
  BY <1>1, <1>3 DEF IInv, DeadIsClear
<1> QED BY <1>5, <1>6, <1>7, <1>8, <1>9 DEF Rest

LEMMA SyscallTypes ==
  ASSUME IInv, Running, NEW type \in CallType
  PROVE  /\ [syscall EXCEPT ![current] = type] \in [Thread -> CallType]
         /\ [ret EXCEPT ![current] = NoMsg] \in [Thread -> Message \cup {NoMsg}]
         /\ ~down /\ intr = NULL /\ down \in BOOLEAN
BY RunningThread DEF IInv, TypeOK, Running

\* kz_wait(), kz_getid(), kz_kmalloc(), kz_kmfree(), kz_setintr().
LEMMA ContinueStep ==
  ASSUME IInv, Running, Continue, NoAnswer,
         syscall' = [syscall EXCEPT ![current] = "OTHER"],
         UNCHANGED <<priority, live, masked, receiver, box, intr>>,
         free' \in Nat, heap' \in Nat, handlers' \in SUBSET SoftVec
  PROVE  IInv'
<1> DEFINE q == putcurrent(Taken, priority, current)
<1>1. WellQueued(q, priority) /\ \A u \in Thread : q.ready[u] <=> ready[u]
  BY PutBackOK
<1>2. ~down /\ down \in BOOLEAN /\ intr' = NULL
  BY SyscallTypes DEF CallType
<1>3. dispatch(q)
  BY DEF Continue
<1>4. priority' \in [Thread -> Priority] /\ WellQueued(q, priority')
  BY <1>1 DEF IInv, TypeOK
<1> HIDE DEF q
<1>5. /\ ready' = q.ready
      /\ readyque' \in [Priority -> Seq(Thread)] /\ ready' \in [Thread -> BOOLEAN]
      /\ current' \in Thread \cup {NULL} /\ down' \in BOOLEAN
      /\ ReadyQueueOK' /\ RunningIsFirst'
  BY <1>2, <1>3, <1>4, Dispatch
<1>6. Rest'
  BY <1>1, <1>5, ContinuedRest
<1>7. TypeOK'
  BY <1>4, <1>5, SyscallTypes DEF IInv, TypeOK, NoAnswer, CallType
<1> QED BY <1>5, <1>6, <1>7 DEF IInv, Rest

LEMMA DownStep == ASSUME IInv, sysdown PROVE IInv'
<1>1. TypeOK'
  BY DEF IInv, TypeOK, sysdown, threadVars, boxVars, memVars
<1>2. RunningIsFirst'
  BY DEF sysdown, RunningIsFirst, Running, InHandler
<1>3. ReadyQueueOK' /\ ReadyIsLive'
  BY DEF IInv, ReadyQueueOK, ReadyIsLive, sysdown, threadVars
<1>4. ReceiverBlocked' /\ RecvAnswered' /\ NobodyForgotten' /\ DeadIsClear'
  BY DEF IInv, ReceiverBlocked, RecvAnswered, NobodyForgotten, Accounted, DeadIsClear,
         sysdown, threadVars, boxVars
<1> QED BY <1>1, <1>2, <1>3, <1>4 DEF IInv

LEMMA StepWait == ASSUME IInv, kz_wait PROVE IInv'
<1>1. Running /\ Continue /\ NoAnswer /\ syscall' = [syscall EXCEPT ![current] = "OTHER"]
  BY DEF kz_wait, Enter
<1>2. UNCHANGED <<priority, live, masked, receiver, box, intr, free, heap, handlers>>
  BY DEF kz_wait, Enter, boxVars, memVars
<1>3. free' \in Nat /\ heap' \in Nat /\ handlers' \in SUBSET SoftVec
  BY <1>2 DEF IInv, TypeOK
<1> QED BY <1>1, <1>2, <1>3, ContinueStep

LEMMA StepKmalloc == ASSUME IInv, kz_kmalloc PROVE IInv'
<1>1. CASE sysdown
  BY <1>1, DownStep
<1>2. CASE ~sysdown
  <2>1. Running /\ Continue /\ NoAnswer /\ syscall' = [syscall EXCEPT ![current] = "OTHER"]
    BY <1>2 DEF kz_kmalloc, Enter
  <2>2. UNCHANGED <<priority, live, masked, receiver, box, intr, handlers>>
    BY <1>2 DEF kz_kmalloc, Enter, boxVars
  <2>3. free > 0 /\ free' = free - 1 /\ heap' = heap + 1
    BY <1>2 DEF kz_kmalloc
  <2>4. free' \in Nat /\ heap' \in Nat /\ handlers' \in SUBSET SoftVec
    BY <2>2, <2>3 DEF IInv, TypeOK
  <2> QED BY <2>1, <2>2, <2>4, ContinueStep
<1> QED BY <1>1, <1>2

LEMMA StepKmfree == ASSUME IInv, kz_kmfree PROVE IInv'
<1>1. Running /\ Continue /\ NoAnswer /\ syscall' = [syscall EXCEPT ![current] = "OTHER"]
  BY DEF kz_kmfree, Enter
<1>2. UNCHANGED <<priority, live, masked, receiver, box, intr, handlers>>
  BY DEF kz_kmfree, Enter, boxVars
<1>3. heap > 0 /\ free' = free + 1 /\ heap' = heap - 1
  BY DEF kz_kmfree
<1>4. free' \in Nat /\ heap' \in Nat /\ handlers' \in SUBSET SoftVec
  BY <1>2, <1>3 DEF IInv, TypeOK
<1> QED BY <1>1, <1>2, <1>4, ContinueStep

LEMMA StepSetintr == ASSUME IInv, NEW v \in SoftVec, kz_setintr(v) PROVE IInv'
<1>1. Running /\ Continue /\ NoAnswer /\ syscall' = [syscall EXCEPT ![current] = "OTHER"]
  BY DEF kz_setintr
<1>2. UNCHANGED <<priority, live, masked, receiver, box, intr, free, heap>>
  BY DEF kz_setintr, boxVars, memVars
<1>3. free' \in Nat /\ heap' \in Nat /\ handlers' \in SUBSET SoftVec
  BY <1>2 DEF IInv, TypeOK, kz_setintr
<1> QED BY <1>1, <1>2, <1>3, ContinueStep

LEMMA StepChpri == ASSUME IInv, NEW p \in Priority \cup {-1}, kz_chpri(p) PROVE IInv'
<1> DEFINE q == putcurrent(Taken, priority', current)
<1>1. Running /\ NoAnswer /\ syscall' = [syscall EXCEPT ![current] = "OTHER"] /\ dispatch(q)
      /\ UNCHANGED <<live, masked, receiver, box, free, heap, handlers, intr>>
  BY DEF kz_chpri, Enter, boxVars, memVars
<1>2. priority' = IF p >= 0 THEN [priority EXCEPT ![current] = p] ELSE priority
  BY DEF kz_chpri
<1>3. WellQueued(Taken, priority) /\ Taken.ready = [ready EXCEPT ![current] = FALSE]
      /\ current \in Thread /\ ready[current]
  BY <1>1, TakenOK, RunningThread
<1>4. priority' \in [Thread -> Priority] /\ WellQueued(Taken, priority')
  <2>1. CASE p >= 0
    <3>1. p \in Priority /\ ~Taken.ready[current] /\ priority \in [Thread -> Priority]
      BY <2>1, <1>3 DEF IInv, TypeOK
    <3> QED BY <3>1, <1>2, <1>3, <2>1, Reprioritise
  <2>2. CASE ~(p >= 0)
    BY <2>2, <1>2, <1>3 DEF IInv, TypeOK
  <2> QED BY <2>1, <2>2
<1>5. WellQueued(q, priority') /\ \A u \in Thread : q.ready[u] <=> (Taken.ready[u] \/ u = current)
  BY <1>3, <1>4, PutCurrent
<1>6. \A u \in Thread : q.ready[u] <=> ready[u]
  BY <1>3, <1>5 DEF IInv, TypeOK
<1>7. ~down /\ down \in BOOLEAN /\ intr' = NULL
  BY <1>1, SyscallTypes DEF CallType
<1> HIDE DEF q
<1>8. /\ ready' = q.ready
      /\ readyque' \in [Priority -> Seq(Thread)] /\ ready' \in [Thread -> BOOLEAN]
      /\ current' \in Thread \cup {NULL} /\ down' \in BOOLEAN
      /\ ReadyQueueOK' /\ RunningIsFirst'
  BY <1>1, <1>4, <1>5, <1>7, Dispatch
<1>9. Rest'
  BY <1>1, <1>6, <1>8, ContinuedRest
<1>10. TypeOK'
  BY <1>1, <1>4, <1>8, SyscallTypes DEF IInv, TypeOK, NoAnswer, CallType
<1> QED BY <1>8, <1>9, <1>10 DEF IInv, Rest

\* A call after which the caller is off its queue.
LEMMA BlockStep ==
  ASSUME IInv, Running, dispatch(Taken), UNCHANGED <<priority, intr>>
  PROVE  /\ ready' = [ready EXCEPT ![current] = FALSE]
         /\ readyque' \in [Priority -> Seq(Thread)] /\ ready' \in [Thread -> BOOLEAN]
         /\ current' \in Thread \cup {NULL} /\ down' \in BOOLEAN
         /\ ReadyQueueOK' /\ RunningIsFirst'
<1>1. priority' \in [Thread -> Priority] /\ WellQueued(Taken, priority')
  BY TakenOK DEF IInv, TypeOK
<1>2. ~down /\ down \in BOOLEAN /\ intr' = NULL
  BY SyscallTypes DEF CallType
<1> QED BY <1>1, <1>2, TakenOK, Dispatch

LEMMA StepSleep == ASSUME IInv, kz_sleep PROVE IInv'
<1>1. Running /\ NoAnswer /\ syscall' = [syscall EXCEPT ![current] = "SLEEP"] /\ dispatch(Taken)
      /\ UNCHANGED <<priority, live, masked, receiver, box, free, heap, handlers, intr>>
  BY DEF kz_sleep, Enter, boxVars, memVars
<1>2. /\ ready' = [ready EXCEPT ![current] = FALSE]
      /\ readyque' \in [Priority -> Seq(Thread)] /\ ready' \in [Thread -> BOOLEAN]
      /\ current' \in Thread \cup {NULL} /\ down' \in BOOLEAN
      /\ ReadyQueueOK' /\ RunningIsFirst'
  BY <1>1, BlockStep
<1>3. current \in Thread /\ live[current] /\ \A m \in MsgBox : receiver[m] # current
  BY <1>1, RunningThread
<1>4. \A m \in MsgBox : receiver[m] # NULL => receiver[m] \in Thread
  BY DEF IInv, TypeOK
<1>5. \A u \in Thread : /\ syscall'[u] = IF u = current THEN "SLEEP" ELSE syscall[u]
                        /\ ret'[u] = IF u = current THEN NoMsg ELSE ret[u]
                        /\ ready'[u] <=> (ready[u] /\ u # current)
  BY <1>1, <1>2 DEF IInv, TypeOK, NoAnswer
<1>6. ReadyIsLive'
  BY <1>1, <1>5 DEF IInv, ReadyIsLive
<1>7. ReceiverBlocked'
  BY <1>1, <1>3, <1>4, <1>5 DEF IInv, ReceiverBlocked
<1>8. RecvAnswered'
  BY <1>5 DEF IInv, RecvAnswered
<1>9. NobodyForgotten'
  BY <1>1, <1>5 DEF IInv, NobodyForgotten, Accounted
<1>10. DeadIsClear'
  BY <1>1, <1>3, <1>5 DEF IInv, DeadIsClear
<1>11. TypeOK'
  BY <1>1, <1>2, SyscallTypes DEF IInv, TypeOK, NoAnswer, CallType
<1> QED BY <1>2, <1>6, <1>7, <1>8, <1>9, <1>10, <1>11 DEF IInv

LEMMA StepExit == ASSUME IInv, thread_exit PROVE IInv'
<1>1. Running /\ NoAnswer /\ syscall' = [syscall EXCEPT ![current] = "OTHER"] /\ dispatch(Taken)
      /\ live' = [live EXCEPT ![current] = FALSE]
      /\ priority' = [priority EXCEPT ![current] = 0]
      /\ masked' = masked \ {current}
      /\ UNCHANGED <<receiver, box, free, heap, handlers, intr>>
  BY DEF thread_exit, boxVars, memVars
<1>2. current \in Thread /\ live[current] /\ \A m \in MsgBox : receiver[m] # current
  BY <1>1, RunningThread
<1>3. WellQueued(Taken, priority) /\ Taken.ready = [ready EXCEPT ![current] = FALSE]
  BY <1>1, TakenOK
<1>4. priority' \in [Thread -> Priority] /\ WellQueued(Taken, priority')
  <2>1. 0 \in Priority /\ ~Taken.ready[current] /\ priority \in [Thread -> Priority]
    BY <1>2, <1>3, KozosAssumption DEF IInv, TypeOK, Priority
  <2> QED BY <2>1, <1>1, <1>2, <1>3, Reprioritise
<1>5. ~down /\ down \in BOOLEAN /\ intr' = NULL
  BY <1>1, SyscallTypes DEF CallType
<1>6. /\ ready' = [ready EXCEPT ![current] = FALSE]
      /\ readyque' \in [Priority -> Seq(Thread)] /\ ready' \in [Thread -> BOOLEAN]
      /\ current' \in Thread \cup {NULL} /\ down' \in BOOLEAN
      /\ ReadyQueueOK' /\ RunningIsFirst'
  BY <1>1, <1>3, <1>4, <1>5, Dispatch
<1>7. \A m \in MsgBox : receiver[m] # NULL => receiver[m] \in Thread
  BY DEF IInv, TypeOK
<1>8. \A u \in Thread : /\ syscall'[u] = IF u = current THEN "OTHER" ELSE syscall[u]
                        /\ ret'[u] = IF u = current THEN NoMsg ELSE ret[u]
                        /\ ready'[u] <=> (ready[u] /\ u # current)
                        /\ live'[u] <=> (live[u] /\ u # current)
  BY <1>1, <1>6 DEF IInv, TypeOK, NoAnswer
<1>9. ReadyIsLive'
  BY <1>1, <1>8 DEF IInv, ReadyIsLive
<1>10. ReceiverBlocked'
  BY <1>1, <1>2, <1>7, <1>8 DEF IInv, ReceiverBlocked
<1>11. RecvAnswered'
  BY <1>8 DEF IInv, RecvAnswered
<1>12. NobodyForgotten'
  BY <1>1, <1>8 DEF IInv, NobodyForgotten, Accounted
<1>13. DeadIsClear'
  BY <1>8 DEF IInv, DeadIsClear
<1>14. TypeOK'
  BY <1>1, <1>4, <1>6, SyscallTypes DEF IInv, TypeOK, NoAnswer, CallType
<1> QED BY <1>6, <1>9, <1>10, <1>11, <1>12, <1>13, <1>14 DEF IInv

LEMMA StepWakeup == ASSUME IInv, NEW id \in Thread, kz_wakeup(id) PROVE IInv'
<1> DEFINE q0 == putcurrent(Taken, priority, current)
           q == putcurrent(q0, priority, id)
<1>1. Running /\ NoAnswer /\ syscall' = [syscall EXCEPT ![current] = "OTHER"] /\ dispatch(q)
      /\ UNCHANGED <<priority, live, masked, receiver, box, free, heap, handlers, intr>>
  BY DEF kz_wakeup, Enter, boxVars, memVars
<1>2. WellQueued(q0, priority) /\ \A u \in Thread : q0.ready[u] <=> ready[u]
  BY <1>1, PutBackOK
<1>3. priority \in [Thread -> Priority] /\ priority' = priority
  BY <1>1 DEF IInv, TypeOK
<1> HIDE DEF q0
<1>4. WellQueued(q, priority) /\ \A u \in Thread : q.ready[u] <=> (q0.ready[u] \/ u = id)
  BY <1>2, <1>3, PutCurrent
<1>5. ~down /\ down \in BOOLEAN /\ intr' = NULL
  BY <1>1, SyscallTypes DEF CallType
<1> HIDE DEF q
<1>6. /\ ready' = q.ready
      /\ readyque' \in [Priority -> Seq(Thread)] /\ ready' \in [Thread -> BOOLEAN]
      /\ current' \in Thread \cup {NULL} /\ down' \in BOOLEAN
      /\ ReadyQueueOK' /\ RunningIsFirst'
  BY <1>1, <1>3, <1>4, <1>5, Dispatch
<1>7. current \in Thread /\ live[current] /\ ready[current] /\ \A m \in MsgBox : receiver[m] # current
  BY <1>1, RunningThread
<1>8. live[id] /\ \A m \in MsgBox : receiver[m] # id
  BY DEF kz_wakeup, Wakeable
<1>9. \A m \in MsgBox : receiver[m] # NULL => receiver[m] \in Thread
  BY DEF IInv, TypeOK
<1>10. \A u \in Thread : /\ syscall'[u] = IF u = current THEN "OTHER" ELSE syscall[u]
                         /\ ret'[u] = IF u = current THEN NoMsg ELSE ret[u]
                         /\ ready'[u] <=> (ready[u] \/ u = id)
  BY <1>1, <1>2, <1>4, <1>6 DEF IInv, TypeOK, NoAnswer
<1>11. ReadyIsLive'
  BY <1>1, <1>8, <1>10 DEF IInv, ReadyIsLive
<1>12. ReceiverBlocked'
  BY <1>1, <1>7, <1>8, <1>9, <1>10 DEF IInv, ReceiverBlocked
<1>13. RecvAnswered'
  <2>1. ~ready[id] => syscall[id] # "RECV"
    BY <1>8 DEF IInv, NobodyForgotten, Accounted
  <2> QED BY <2>1, <1>10 DEF IInv, RecvAnswered
<1>14. NobodyForgotten'
  BY <1>1, <1>7, <1>10 DEF IInv, NobodyForgotten, Accounted
<1>15. DeadIsClear'
  BY <1>1, <1>7, <1>10 DEF IInv, DeadIsClear
<1>16. TypeOK'
  BY <1>1, <1>3, <1>6, SyscallTypes DEF IInv, TypeOK, NoAnswer, CallType
<1> QED BY <1>6, <1>11, <1>12, <1>13, <1>14, <1>15, <1>16 DEF IInv

LEMMA StepRun == ASSUME IInv, NEW p \in Priority, kz_run(p) PROVE IInv'
<1>1. Running /\ NoAnswer /\ syscall' = [syscall EXCEPT ![current] = "RUN"]
      /\ UNCHANGED <<receiver, box, free, heap, handlers, intr>>
  BY DEF kz_run, Enter, boxVars, memVars
<1>2. current \in Thread /\ live[current] /\ ready[current] /\ \A m \in MsgBox : receiver[m] # current
  BY <1>1, RunningThread
<1>3. \A m \in MsgBox : receiver[m] # NULL => receiver[m] \in Thread
  BY DEF IInv, TypeOK
<1>4. \A u \in Thread : /\ syscall'[u] = IF u = current THEN "RUN" ELSE syscall[u]
                        /\ ret'[u] = IF u = current THEN NoMsg ELSE ret[u]
  BY <1>1 DEF IInv, TypeOK, NoAnswer
<1>5. CASE dispatch(Taken) /\ UNCHANGED <<priority, live, masked>>
  <2>1. /\ ready' = [ready EXCEPT ![current] = FALSE]
        /\ readyque' \in [Priority -> Seq(Thread)] /\ ready' \in [Thread -> BOOLEAN]
        /\ current' \in Thread \cup {NULL} /\ down' \in BOOLEAN
        /\ ReadyQueueOK' /\ RunningIsFirst'
    BY <1>1, <1>5, BlockStep
  <2>2. \A u \in Thread : ready'[u] <=> (ready[u] /\ u # current)
    BY <2>1 DEF IInv, TypeOK
  <2>3. ReadyIsLive'
    BY <1>5, <2>2 DEF IInv, ReadyIsLive
  <2>4. ReceiverBlocked'
    BY <1>1, <1>2, <1>3, <1>4, <1>5, <2>2 DEF IInv, ReceiverBlocked
  <2>5. RecvAnswered'
    BY <1>4, <2>2 DEF IInv, RecvAnswered
  <2>6. NobodyForgotten'
    BY <1>1, <1>4, <1>5, <2>2 DEF IInv, NobodyForgotten, Accounted
  <2>7. DeadIsClear'
    BY <1>2, <1>4, <1>5 DEF IInv, DeadIsClear
  <2>8. TypeOK'
    BY <1>1, <1>5, <2>1, SyscallTypes DEF IInv, TypeOK, NoAnswer, CallType
  <2> QED BY <2>1, <2>3, <2>4, <2>5, <2>6, <2>7, <2>8 DEF IInv
<1>6. ASSUME NEW t \in FreeTCB,
             live' = [live EXCEPT ![t] = TRUE],
             priority' = [priority EXCEPT ![t] = p],
             masked' = IF p = 0 THEN masked \cup {t} ELSE masked,
             dispatch(putcurrent(putcurrent(Taken, priority', current), priority', t))
      PROVE  IInv'
  <2> DEFINE q0 == putcurrent(Taken, priority', current)
             q == putcurrent(q0, priority', t)
  <2>1. t \in Thread /\ ~live[t] /\ ~ready[t]
    BY DEF FreeTCB, IInv, ReadyIsLive
  <2>2. WellQueued(Taken, priority) /\ Taken.ready = [ready EXCEPT ![current] = FALSE]
    BY <1>1, TakenOK
  <2>3. ~Taken.ready[t] /\ priority \in [Thread -> Priority]
    BY <1>2, <2>1, <2>2 DEF IInv, TypeOK
  <2>4. priority' \in [Thread -> Priority] /\ WellQueued(Taken, priority')
    BY <1>6, <2>1, <2>2, <2>3, Reprioritise
  <2>5. WellQueued(q0, priority') /\ \A u \in Thread : q0.ready[u] <=> (Taken.ready[u] \/ u = current)
    BY <1>2, <2>4, PutCurrent
  <2> HIDE DEF q0
  <2>6. WellQueued(q, priority') /\ \A u \in Thread : q.ready[u] <=> (q0.ready[u] \/ u = t)
    BY <2>1, <2>4, <2>5, PutCurrent
  <2>7. ~down /\ down \in BOOLEAN /\ intr' = NULL
    BY <1>1, SyscallTypes DEF CallType
  <2>8. dispatch(q)
    BY <1>6 DEF q0
  <2> HIDE DEF q
  <2>9. /\ ready' = q.ready
        /\ readyque' \in [Priority -> Seq(Thread)] /\ ready' \in [Thread -> BOOLEAN]
        /\ current' \in Thread \cup {NULL} /\ down' \in BOOLEAN
        /\ ReadyQueueOK' /\ RunningIsFirst'
    BY <2>4, <2>6, <2>7, <2>8, Dispatch
  <2>10. \A u \in Thread : /\ ready'[u] <=> (ready[u] \/ u = t)
                           /\ live'[u] <=> (live[u] \/ u = t)
    BY <1>2, <1>6, <2>1, <2>2, <2>5, <2>6, <2>9 DEF IInv, TypeOK
  <2>11. t # current /\ \A m \in MsgBox : receiver[m] # t
    BY <1>2, <2>1, NullIsNoThread DEF IInv, ReceiverBlocked
  <2>12. ReadyIsLive'
    BY <2>10 DEF IInv, ReadyIsLive
  <2>13. ReceiverBlocked'
    BY <1>1, <1>2, <1>3, <1>4, <2>10, <2>11 DEF IInv, ReceiverBlocked
  <2>14. RecvAnswered'
    BY <1>4, <2>1, <2>10, <2>11 DEF IInv, RecvAnswered, DeadIsClear
  <2>15. NobodyForgotten'
    BY <1>1, <1>4, <2>10, <2>11 DEF IInv, NobodyForgotten, Accounted
  <2>16. DeadIsClear'
    BY <1>2, <1>4, <2>10 DEF IInv, DeadIsClear
  <2>17. live' \in [Thread -> BOOLEAN] /\ masked' \in SUBSET Thread
    BY <1>6, <2>1 DEF IInv, TypeOK
  <2>18. TypeOK'
    BY <1>1, <2>4, <2>9, <2>17, SyscallTypes DEF IInv, TypeOK, NoAnswer, CallType
  <2> QED BY <2>9, <2>12, <2>13, <2>14, <2>15, <2>16, <2>18 DEF IInv
<1> QED BY <1>5, <1>6 DEF kz_run

LEMMA StepRecv == ASSUME IInv, NEW m \in MsgBox, kz_recv(m) PROVE IInv'
<1>1. CASE sysdown
  BY <1>1, DownStep
<1>2. CASE ~sysdown
  <2>1. /\ Running /\ receiver[m] = NULL
        /\ syscall' = [syscall EXCEPT ![current] = "RECV"]
        /\ UNCHANGED <<priority, live, masked, heap, handlers, intr>>
    BY <1>2 DEF kz_recv, Enter, memVars
  <2>2. current \in Thread /\ live[current] /\ ready[current]
        /\ \A n \in MsgBox : receiver[n] # current
    BY <2>1, RunningThread
  <2>3. \A n \in MsgBox : receiver[n] # NULL => receiver[n] \in Thread
    BY DEF IInv, TypeOK
  <2>4. \A u \in Thread : syscall'[u] = IF u = current THEN "RECV" ELSE syscall[u]
    BY <2>1 DEF IInv, TypeOK
  <2>5. CASE box[m] = <<>>
    <3>1. /\ NoAnswer /\ dispatch(Taken) /\ receiver' = [receiver EXCEPT ![m] = current]
          /\ UNCHANGED <<box, free>>
      BY <1>2, <2>1, <2>5 DEF kz_recv, memVars
    <3>2. /\ ready' = [ready EXCEPT ![current] = FALSE]
          /\ readyque' \in [Priority -> Seq(Thread)] /\ ready' \in [Thread -> BOOLEAN]
          /\ current' \in Thread \cup {NULL} /\ down' \in BOOLEAN
          /\ ReadyQueueOK' /\ RunningIsFirst'
      BY <2>1, <3>1, BlockStep
    <3>3. /\ \A u \in Thread : /\ ready'[u] <=> (ready[u] /\ u # current)
                               /\ ret'[u] = IF u = current THEN NoMsg ELSE ret[u]
          /\ \A n \in MsgBox : receiver'[n] = IF n = m THEN current ELSE receiver[n]
      BY <3>1, <3>2 DEF IInv, TypeOK, NoAnswer
    <3>4. ReadyIsLive'
      BY <2>1, <3>3 DEF IInv, ReadyIsLive
    <3>5. ReceiverBlocked'
      BY <2>1, <2>2, <2>3, <2>4, <2>5, <3>1, <3>3 DEF IInv, ReceiverBlocked
    <3>6. RecvAnswered'
      BY <2>4, <3>3 DEF IInv, RecvAnswered
    <3>7. NobodyForgotten'
      <4> SUFFICES ASSUME NEW u \in Thread, live[u], syscall'[u] # "RUN" PROVE Accounted(u)'
        BY <2>1 DEF NobodyForgotten
      <4>1. CASE u = current
        BY <4>1, <3>3 DEF Accounted
      <4>2. CASE u # current
        <5>1. Accounted(u) /\ syscall'[u] = syscall[u]
          BY <4>2, <2>4 DEF IInv, NobodyForgotten
        <5>2. ASSUME NEW n \in MsgBox, receiver[n] = u PROVE receiver'[n] = u
          BY <5>2, <2>1, <3>3, NullIsNoThread
        <5> QED BY <4>2, <5>1, <5>2, <3>3 DEF Accounted
      <4> QED BY <4>1, <4>2
    <3>8. DeadIsClear'
      BY <2>1, <2>2, <2>4 DEF IInv, DeadIsClear
    <3>9. receiver' \in [MsgBox -> Thread \cup {NULL}]
      BY <2>2, <3>1 DEF IInv, TypeOK
    <3>10. TypeOK'
      BY <2>1, <3>1, <3>2, <3>9, SyscallTypes DEF IInv, TypeOK, NoAnswer, CallType
    <3> QED BY <3>2, <3>4, <3>5, <3>6, <3>7, <3>8, <3>10 DEF IInv
  <2>6. CASE box[m] # <<>>
    <3> DEFINE q == putcurrent(Taken, priority, current)
    <3>1. /\ dispatch(q) /\ ret' = [ret EXCEPT ![current] = Head(box[m])]
          /\ box' = [box EXCEPT ![m] = Tail(@)] /\ free' = free + 1
          /\ UNCHANGED receiver
      BY <1>2, <2>1, <2>6 DEF kz_recv, Continue
    <3>2. WellQueued(q, priority) /\ \A u \in Thread : q.ready[u] <=> ready[u]
      BY <2>1, PutBackOK
    <3>3. priority' \in [Thread -> Priority] /\ WellQueued(q, priority')
          /\ ~down /\ down \in BOOLEAN /\ intr' = NULL
      BY <2>1, <3>2, SyscallTypes DEF IInv, TypeOK, CallType
    <3> HIDE DEF q
    <3>4. /\ ready' = q.ready
          /\ readyque' \in [Priority -> Seq(Thread)] /\ ready' \in [Thread -> BOOLEAN]
          /\ current' \in Thread \cup {NULL} /\ down' \in BOOLEAN
          /\ ReadyQueueOK' /\ RunningIsFirst'
      BY <3>1, <3>3, Dispatch
    <3>5. Head(box[m]) \in Message /\ Tail(box[m]) \in Seq(Message)
      BY <2>6, HeadTailProperties DEF IInv, TypeOK
    <3>6. /\ \A u \in Thread : ret'[u] = IF u = current THEN Head(box[m]) ELSE ret[u]
          /\ \A u \in Thread : ready'[u] <=> ready[u]
          /\ \A n \in MsgBox : n # m => box'[n] = box[n]
      BY <3>1, <3>2, <3>4 DEF IInv, TypeOK
    <3>7. ReadyIsLive'
      BY <2>1, <3>6 DEF IInv, ReadyIsLive
    <3>8. ReceiverBlocked'
      BY <2>1, <2>2, <2>3, <2>4, <3>1, <3>6 DEF IInv, ReceiverBlocked
    <3>9. RecvAnswered'
      BY <2>4, <3>5, <3>6, NoMsgAssumption DEF IInv, RecvAnswered
    <3>10. NobodyForgotten'
      BY <2>1, <2>2, <2>4, <3>1, <3>6 DEF IInv, NobodyForgotten, Accounted
    <3>11. DeadIsClear'
      BY <2>1, <2>2, <2>4 DEF IInv, DeadIsClear
    <3>12. /\ syscall' \in [Thread -> CallType] /\ ret' \in [Thread -> Message \cup {NoMsg}]
           /\ box' \in [MsgBox -> Seq(Message)] /\ free' \in Nat
      BY <2>1, <3>1, <3>5, SyscallTypes DEF IInv, TypeOK, CallType
    <3>13. TypeOK'
      BY <2>1, <3>1, <3>3, <3>4, <3>12 DEF IInv, TypeOK
    <3> QED BY <3>4, <3>7, <3>8, <3>9, <3>10, <3>11, <3>13 DEF IInv
  <2> QED BY <2>5, <2>6
<1> QED BY <1>1, <1>2

\* What thread_send() does when nobody waits on the box, and when somebody
\* does: then the box is empty, before and after, and the message is handed over.
LEMMA SendEffect ==
  ASSUME IInv, NEW m \in MsgBox, NEW msg \in Message, NEW R, NEW q,
         thread_send(m, msg, R, q)
  PROVE  \/ /\ receiver[m] = NULL
            /\ box' = [box EXCEPT ![m] = Append(box[m], msg)]
            /\ free' = free - 1 /\ ret' = R
            /\ readyque' = q.que /\ ready' = q.ready
            /\ UNCHANGED receiver
         \/ /\ receiver[m] # NULL
            /\ UNCHANGED <<box, free>>
            /\ ret' = [R EXCEPT ![receiver[m]] = msg]
            /\ receiver' = [receiver EXCEPT ![m] = NULL]
            /\ readyque' = putcurrent(q, priority, receiver[m]).que
            /\ ready' = putcurrent(q, priority, receiver[m]).ready
<1>1. CASE receiver[m] = NULL
  BY <1>1 DEF thread_send
<1>2. CASE receiver[m] # NULL
  <2>1. box[m] = <<>> /\ box[m] \in Seq(Message) /\ box \in [MsgBox -> Seq(Message)]
    BY <1>2 DEF IInv, ReceiverBlocked, TypeOK
  <2>2. Head(Append(box[m], msg)) = msg /\ Tail(Append(box[m], msg)) = <<>>
    BY <2>1, HeadTailAppend
  <2>3. box' = [box EXCEPT ![m] = Tail(Append(box[m], msg))]
        /\ ret' = [R EXCEPT ![receiver[m]] = Head(Append(box[m], msg))]
        /\ receiver' = [receiver EXCEPT ![m] = NULL]
        /\ readyque' = putcurrent(q, priority, receiver[m]).que
        /\ ready' = putcurrent(q, priority, receiver[m]).ready
        /\ UNCHANGED free
    BY <1>2 DEF thread_send
  <2>4. box' = box
    BY <2>1, <2>2, <2>3
  <2> QED BY <1>2, <2>2, <2>3, <2>4
<1> QED BY <1>1, <1>2

\* sendmsg() and recvmsg() keep queues, boxes and answers right, whoever sends.
LEMMA SendStep ==
  ASSUME IInv, NEW m \in MsgBox, NEW msg \in Message, NEW q,
         NEW R \in [Thread -> Message \cup {NoMsg}],
         \A u \in Thread : R[u] = ret[u] \/ (R[u] = NoMsg /\ syscall'[u] = "OTHER"),
         \A u \in Thread : syscall'[u] = syscall[u] \/ (ready[u] /\ syscall'[u] = "OTHER"),
         WellQueued(q, priority), \A u \in Thread : q.ready[u] <=> ready[u],
         free > 0, thread_send(m, msg, R, q), UNCHANGED <<priority, live>>
  PROVE  /\ WellQueued([que |-> readyque', ready |-> ready'], priority)
         /\ \A i \in Priority : q.que[i] # <<>> =>
              readyque'[i] # <<>> /\ Head(readyque'[i]) = Head(q.que[i])
         /\ ret' \in [Thread -> Message \cup {NoMsg}]
         /\ receiver' \in [MsgBox -> Thread \cup {NULL}]
         /\ box' \in [MsgBox -> Seq(Message)]
         /\ free' \in Nat
         /\ Rest'
<1>1. /\ priority \in [Thread -> Priority] /\ receiver \in [MsgBox -> Thread \cup {NULL}]
      /\ box \in [MsgBox -> Seq(Message)] /\ free \in Nat
      /\ ready \in [Thread -> BOOLEAN] /\ ret \in [Thread -> Message \cup {NoMsg}]
  BY DEF IInv, TypeOK
<1>2. CASE receiver[m] = NULL
  <2>1. /\ box' = [box EXCEPT ![m] = Append(box[m], msg)]
        /\ free' = free - 1 /\ ret' = R
        /\ readyque' = q.que /\ ready' = q.ready
        /\ UNCHANGED receiver
    BY <1>2, SendEffect
  <2>2. Append(box[m], msg) \in Seq(Message)
    BY <1>1, AppendProperties
  <2>3. box' \in [MsgBox -> Seq(Message)] /\ free' \in Nat
    BY <1>1, <2>1, <2>2
  <2>4. ReadyIsLive'
    BY <2>1 DEF IInv, ReadyIsLive
  <2>5. ReceiverBlocked'
    <3> SUFFICES ASSUME NEW n \in MsgBox, receiver[n] # NULL
                 PROVE  /\ box'[n] = <<>>
                        /\ live[receiver[n]] /\ ~ready'[receiver[n]]
                        /\ syscall'[receiver[n]] = "RECV"
                        /\ \A l \in MsgBox : receiver[l] = receiver[n] => l = n
      BY <2>1 DEF ReceiverBlocked
    <3>1. receiver[n] \in Thread /\ n # m
      BY <1>1, <1>2
    <3>2. box'[n] = box[n]
      BY <1>1, <2>1, <3>1
    <3> QED BY <2>1, <3>1, <3>2 DEF IInv, ReceiverBlocked
  <2>6. RecvAnswered'
    BY <2>1 DEF IInv, RecvAnswered
  <2>7. NobodyForgotten'
    BY <2>1 DEF IInv, NobodyForgotten, Accounted
  <2>8. DeadIsClear'
    BY DEF IInv, DeadIsClear, ReadyIsLive
  <2>9. WellQueued([que |-> readyque', ready |-> ready'], priority)
    BY <2>1 DEF WellQueued
  <2> QED BY <1>1, <2>1, <2>3, <2>4, <2>5, <2>6, <2>7, <2>8, <2>9 DEF Rest
<1>3. CASE receiver[m] # NULL
  <2> DEFINE t == receiver[m]
             r == putcurrent(q, priority, t)
  <2>1. /\ UNCHANGED <<box, free>>
        /\ ret' = [R EXCEPT ![t] = msg]
        /\ receiver' = [receiver EXCEPT ![m] = NULL]
        /\ readyque' = r.que /\ ready' = r.ready
    BY <1>3, SendEffect
  <2>2. t \in Thread /\ live[t] /\ ~ready[t] /\ syscall[t] = "RECV" /\ syscall'[t] = "RECV"
    BY <1>1, <1>3 DEF IInv, ReceiverBlocked
  <2>3. /\ WellQueued(r, priority)
        /\ \A u \in Thread : r.ready[u] <=> (q.ready[u] \/ u = t)
        /\ \A i \in Priority : q.que[i] # <<>> => r.que[i] # <<>> /\ Head(r.que[i]) = Head(q.que[i])
    BY <1>1, <2>2, PutCurrent
  <2>4. WellQueued([que |-> readyque', ready |-> ready'], priority)
    BY <2>1, <2>3 DEF WellQueued
  <2>5. /\ \A u \in Thread : ready'[u] <=> (ready[u] \/ u = t)
        /\ \A u \in Thread : ret'[u] = IF u = t THEN msg ELSE R[u]
        /\ \A n \in MsgBox : receiver'[n] = IF n = m THEN NULL ELSE receiver[n]
    BY <1>1, <2>1, <2>2, <2>3
  <2>6. receiver' \in [MsgBox -> Thread \cup {NULL}] /\ ret' \in [Thread -> Message \cup {NoMsg}]
    BY <1>1, <2>1, <2>2
  <2> HIDE DEF r, t
  <2>7. ReadyIsLive'
    BY <2>2, <2>5 DEF IInv, ReadyIsLive
  <2>8. ReceiverBlocked'
    <3> SUFFICES ASSUME NEW n \in MsgBox, receiver'[n] # NULL
                 PROVE  /\ box'[n] = <<>>
                        /\ live[receiver'[n]] /\ ~ready'[receiver'[n]]
                        /\ syscall'[receiver'[n]] = "RECV"
                        /\ \A l \in MsgBox : receiver'[l] = receiver'[n] => l = n
      BY DEF ReceiverBlocked
    <3>1. n # m /\ receiver'[n] = receiver[n] /\ receiver[n] # NULL /\ receiver[n] \in Thread
      BY <1>1, <2>5
    <3>2. receiver[n] # t
      BY <3>1, <1>3 DEF IInv, ReceiverBlocked, t
    <3> QED BY <2>1, <2>5, <3>1, <3>2 DEF IInv, ReceiverBlocked
  <2>9. RecvAnswered'
    BY <2>2, <2>5, NoMsgAssumption DEF IInv, RecvAnswered
  <2>10. NobodyForgotten'
    <3> SUFFICES ASSUME NEW u \in Thread, live[u], syscall'[u] # "RUN" PROVE Accounted(u)'
      BY DEF NobodyForgotten
    <3>1. CASE u = t \/ ready[u]
      BY <3>1, <2>5 DEF Accounted
    <3>2. CASE u # t /\ ~ready[u]
      <4>1. Accounted(u) /\ syscall'[u] = syscall[u]
        BY <3>2 DEF IInv, NobodyForgotten
      <4>2. ASSUME NEW n \in MsgBox, receiver[n] = u PROVE receiver'[n] = u
        BY <4>2, <3>2, <2>5 DEF t
      <4> QED BY <3>2, <4>1, <4>2 DEF Accounted
    <3> QED BY <3>1, <3>2
  <2>11. DeadIsClear'
    BY DEF IInv, DeadIsClear, ReadyIsLive
  <2> QED BY <1>1, <2>1, <2>3, <2>4, <2>6, <2>7, <2>8, <2>9, <2>10, <2>11 DEF Rest
<1> QED BY <1>2, <1>3

LEMMA StepSend == ASSUME IInv, NEW m \in MsgBox, NEW d \in Data, kz_send(m, d) PROVE IInv'
<1>1. CASE sysdown
  BY <1>1, DownStep
<1>2. CASE ~sysdown
  <2> DEFINE q == putcurrent(Taken, priority, current)
             R == [ret EXCEPT ![current] = NoMsg]
             msg == [sender |-> current, p |-> d]
             q2 == [que |-> readyque', ready |-> ready']
  <2>1. /\ Running /\ free > 0 /\ syscall' = [syscall EXCEPT ![current] = "OTHER"]
        /\ thread_send(m, msg, R, q) /\ schedule(readyque')
        /\ UNCHANGED <<priority, live, masked, heap, handlers, intr>>
    BY <1>2 DEF kz_send, Enter
  <2>2. current \in Thread /\ ready[current]
    BY <2>1, RunningThread
  <2>3. msg \in Message
    BY <2>2 DEF Message
  <2>4. WellQueued(q, priority) /\ \A u \in Thread : q.ready[u] <=> ready[u]
    BY <2>1, PutBackOK
  <2>5. R \in [Thread -> Message \cup {NoMsg}] /\ syscall' \in [Thread -> CallType]
        /\ ~down /\ down \in BOOLEAN /\ intr' = NULL
    BY <2>1, SyscallTypes DEF CallType
  <2>6. /\ \A u \in Thread : R[u] = ret[u] \/ (R[u] = NoMsg /\ syscall'[u] = "OTHER")
        /\ \A u \in Thread : syscall'[u] = syscall[u] \/ (ready[u] /\ syscall'[u] = "OTHER")
    BY <2>1, <2>2 DEF IInv, TypeOK
  <2> HIDE DEF q, R, msg
  <2>7. /\ WellQueued(q2, priority)
        /\ ret' \in [Thread -> Message \cup {NoMsg}]
        /\ receiver' \in [MsgBox -> Thread \cup {NULL}]
        /\ box' \in [MsgBox -> Seq(Message)]
        /\ free' \in Nat
        /\ Rest'
    BY <2>1, <2>3, <2>4, <2>5, <2>6, SendStep
  <2>8. dispatch(q2) /\ priority' \in [Thread -> Priority] /\ WellQueued(q2, priority')
    BY <2>1, <2>7 DEF dispatch, IInv, TypeOK
  <2> HIDE DEF q2
  <2>9. /\ readyque' \in [Priority -> Seq(Thread)] /\ ready' \in [Thread -> BOOLEAN]
        /\ current' \in Thread \cup {NULL} /\ down' \in BOOLEAN
        /\ ReadyQueueOK' /\ RunningIsFirst'
    BY <2>5, <2>8, Dispatch
  <2>10. TypeOK'
    BY <2>1, <2>5, <2>7, <2>8, <2>9 DEF IInv, TypeOK
  <2> QED BY <2>7, <2>9, <2>10 DEF IInv, Rest
<1> QED BY <1>1, <1>2

LEMMA StepEnable == ASSUME IInv, INTR_ENABLE PROVE IInv'
<1>1. /\ masked' = masked \ {current}
      /\ UNCHANGED <<current, readyque, ready, priority, live, syscall, ret, receiver, box,
                     free, heap, handlers, intr, down>>
  BY DEF INTR_ENABLE, boxVars, memVars
<1>2. TypeOK'
  BY <1>1 DEF IInv, TypeOK
<1>3. ReadyQueueOK' /\ ReadyIsLive' /\ RunningIsFirst'
  BY <1>1 DEF IInv, ReadyQueueOK, ReadyIsLive, RunningIsFirst, Running, InHandler, Top
<1>4. Rest'
  BY <1>1 DEF IInv, Rest, ReadyIsLive, ReceiverBlocked, RecvAnswered, NobodyForgotten,
              Accounted, DeadIsClear
<1> QED BY <1>2, <1>3, <1>4 DEF IInv, Rest

LEMMA StepIntr == ASSUME IInv, NEW v \in SoftVec, thread_intr(v) PROVE IInv'
<1>1. /\ Running /\ intr' = current
      /\ UNCHANGED <<current, readyque, ready, priority, live, masked, syscall, ret, receiver,
                     box, free, heap, handlers, down>>
  BY DEF thread_intr, threadVars, boxVars, memVars
<1>2. TypeOK'
  BY <1>1 DEF IInv, TypeOK
<1>3. current # NULL /\ Top(current)
  BY <1>1 DEF IInv, RunningIsFirst
<1>4. RunningIsFirst'
  BY <1>1, <1>3 DEF RunningIsFirst, Running, InHandler, Top
<1>5. ReadyQueueOK'
  BY <1>1 DEF IInv, ReadyQueueOK
<1>6. Rest'
  BY <1>1 DEF IInv, Rest, ReadyIsLive, ReceiverBlocked, RecvAnswered, NobodyForgotten,
              Accounted, DeadIsClear
<1> QED BY <1>2, <1>4, <1>5, <1>6 DEF IInv, Rest

\* A service call that touches neither queues nor boxes.
LEMMA PoolStep ==
  ASSUME IInv, InHandler, free' \in Nat, heap' \in Nat, current' = NULL,
         UNCHANGED <<readyque, ready, priority, live, masked, syscall, ret, receiver, box,
                     handlers, intr, down>>
  PROVE  IInv'
<1>1. TypeOK'
  BY DEF IInv, TypeOK
<1>2. RunningIsFirst'
  BY DEF IInv, RunningIsFirst, Running, InHandler, Top
<1>3. ReadyQueueOK'
  BY DEF IInv, ReadyQueueOK
<1>4. Rest'
  BY DEF IInv, Rest, ReadyIsLive, ReceiverBlocked, RecvAnswered, NobodyForgotten,
         Accounted, DeadIsClear
<1> QED BY <1>1, <1>2, <1>3, <1>4 DEF IInv, Rest

LEMMA StepKxKmalloc == ASSUME IInv, kx_kmalloc PROVE IInv'
<1>1. CASE sysdown
  BY <1>1, DownStep
<1>2. CASE ~sysdown
  <2>1. InHandler /\ free > 0 /\ free' = free - 1 /\ heap' = heap + 1 /\ current' = NULL
        /\ UNCHANGED <<readyque, ready, priority, live, masked, syscall, ret, receiver, box,
                       handlers, intr, down>>
    BY <1>2 DEF kx_kmalloc, threadVars, boxVars
  <2>2. free' \in Nat /\ heap' \in Nat
    BY <2>1 DEF IInv, TypeOK
  <2> QED BY <2>1, <2>2, PoolStep
<1> QED BY <1>1, <1>2

LEMMA StepKxKmfree == ASSUME IInv, kx_kmfree PROVE IInv'
<1>1. InHandler /\ heap > 0 /\ free' = free + 1 /\ heap' = heap - 1 /\ current' = NULL
      /\ UNCHANGED <<readyque, ready, priority, live, masked, syscall, ret, receiver, box,
                     handlers, intr, down>>
  BY DEF kx_kmfree, threadVars, boxVars
<1>2. free' \in Nat /\ heap' \in Nat
  BY <1>1 DEF IInv, TypeOK
<1> QED BY <1>1, <1>2, PoolStep

\* A handler that only adds threads to the queues leaves the interrupted
\* thread at the head of its queue.
LEMMA HandlerTop ==
  ASSUME IInv, InHandler, UNCHANGED <<priority, intr, down>>,
         \A i \in Priority : readyque[i] # <<>> =>
           readyque'[i] # <<>> /\ Head(readyque'[i]) = Head(readyque[i])
  PROVE  RunningIsFirst'
<1>1. intr \in Thread /\ priority[intr] \in Priority
  BY DEF IInv, TypeOK, InHandler
<1>2. Top(intr)
  BY DEF IInv, RunningIsFirst
<1>3. Top(intr)'
  BY <1>1, <1>2 DEF Top
<1> QED BY <1>3 DEF RunningIsFirst, Running, InHandler

LEMMA StepKxWakeup == ASSUME IInv, NEW id \in Thread, kx_wakeup(id) PROVE IInv'
<1> DEFINE q == putcurrent(queues, priority, id)
<1>1. /\ InHandler /\ live[id] /\ \A m \in MsgBox : receiver[m] # id
      /\ current' = id /\ readyque' = q.que /\ ready' = q.ready
      /\ UNCHANGED <<priority, live, masked, syscall, ret, receiver, box, free, heap,
                     handlers, intr, down>>
  BY DEF kx_wakeup, Wakeable, boxVars, memVars
<1>2. WellQueued(queues, priority) /\ priority \in [Thread -> Priority]
  BY QueuesWell DEF IInv, TypeOK
<1>3. /\ WellQueued(q, priority)
      /\ \A u \in Thread : q.ready[u] <=> (queues.ready[u] \/ u = id)
      /\ \A i \in Priority : queues.que[i] # <<>> =>
           q.que[i] # <<>> /\ Head(q.que[i]) = Head(queues.que[i])
  BY <1>2, PutCurrent
<1>4. queues.ready = ready /\ queues.que = readyque
  BY DEF queues
<1> HIDE DEF q
<1>5. \A u \in Thread : ready'[u] <=> (ready[u] \/ u = id)
  BY <1>1, <1>3, <1>4
<1>6. RunningIsFirst'
  BY <1>1, <1>3, <1>4, HandlerTop
<1>7. ReadyQueueOK'
  BY <1>1, <1>3 DEF WellQueued, ReadyQueueOK
<1>8. readyque' \in [Priority -> Seq(Thread)] /\ ready' \in [Thread -> BOOLEAN]
  BY <1>1, <1>3 DEF WellQueued
<1>9. TypeOK'
  BY <1>1, <1>8 DEF IInv, TypeOK
<1>10. ReadyIsLive'
  BY <1>1, <1>5 DEF IInv, ReadyIsLive
<1>11. ReceiverBlocked'
  BY <1>1, <1>5 DEF IInv, ReceiverBlocked, TypeOK
<1>12. RecvAnswered'
  <2>1. ~ready[id] => syscall[id] # "RECV"
    BY <1>1 DEF IInv, NobodyForgotten, Accounted
  <2> QED BY <2>1, <1>1, <1>5 DEF IInv, RecvAnswered
<1>13. NobodyForgotten'
  BY <1>1, <1>5 DEF IInv, NobodyForgotten, Accounted
<1>14. DeadIsClear'
  BY <1>1 DEF IInv, DeadIsClear
<1> QED BY <1>6, <1>7, <1>9, <1>10, <1>11, <1>12, <1>13, <1>14 DEF IInv

LEMMA StepKxSend == ASSUME IInv, NEW m \in MsgBox, NEW d \in Data, kx_send(m, d) PROVE IInv'
<1>1. CASE sysdown
  BY <1>1, DownStep
<1>2. CASE ~sysdown
  <2> DEFINE msg == [sender |-> NULL, p |-> d]
             q2 == [que |-> readyque', ready |-> ready']
  <2>1. /\ InHandler /\ free > 0 /\ current' = receiver[m]
        /\ thread_send(m, msg, ret, queues)
        /\ UNCHANGED <<priority, live, masked, syscall, heap, handlers, intr, down>>
    BY <1>2 DEF kx_send
  <2>2. msg \in Message
    BY DEF Message
  <2>3. /\ WellQueued(queues, priority) /\ \A u \in Thread : queues.ready[u] <=> ready[u]
        /\ ret \in [Thread -> Message \cup {NoMsg}] /\ queues.que = readyque
    BY QueuesWell DEF IInv, TypeOK, queues
  <2> HIDE DEF msg
  <2>4. /\ WellQueued(q2, priority)
        /\ \A i \in Priority : queues.que[i] # <<>> =>
             readyque'[i] # <<>> /\ Head(readyque'[i]) = Head(queues.que[i])
        /\ ret' \in [Thread -> Message \cup {NoMsg}]
        /\ receiver' \in [MsgBox -> Thread \cup {NULL}]
        /\ box' \in [MsgBox -> Seq(Message)]
        /\ free' \in Nat
        /\ Rest'
    <3>1. /\ \A u \in Thread : ret[u] = ret[u] \/ (ret[u] = NoMsg /\ syscall'[u] = "OTHER")
          /\ \A u \in Thread : syscall'[u] = syscall[u] \/ (ready[u] /\ syscall'[u] = "OTHER")
      BY <2>1
    <3> HIDE DEF queues
    <3> QED BY <3>1, <2>1, <2>2, <2>3, SendStep
  <2>5. RunningIsFirst'
    BY <2>1, <2>3, <2>4, HandlerTop
  <2>6. ReadyQueueOK' /\ readyque' \in [Priority -> Seq(Thread)] /\ ready' \in [Thread -> BOOLEAN]
    BY <2>1, <2>4 DEF WellQueued, ReadyQueueOK
  <2>7. TypeOK'
    BY <2>1, <2>4, <2>6 DEF IInv, TypeOK
  <2> QED BY <2>4, <2>5, <2>6, <2>7 DEF IInv, Rest
<1> QED BY <1>1, <1>2

LEMMA StepReturn == ASSUME IInv, Return PROVE IInv'
<1>1. /\ InHandler /\ intr' = NULL /\ dispatch(queues)
      /\ UNCHANGED <<priority, live, masked, syscall, ret, receiver, box, free, heap, handlers>>
  BY DEF Return, boxVars, memVars
<1>2. WellQueued(queues, priority') /\ priority' \in [Thread -> Priority]
  BY <1>1, QueuesWell DEF IInv, TypeOK
<1>3. ~down /\ down \in BOOLEAN
  BY <1>1 DEF InHandler, IInv, TypeOK
<1>4. /\ readyque' = readyque /\ ready' = ready
      /\ current' \in Thread \cup {NULL} /\ down' \in BOOLEAN
      /\ ReadyQueueOK' /\ RunningIsFirst'
  <2>1. queues.que = readyque /\ queues.ready = ready
    BY DEF queues
  <2> QED BY <2>1, <1>1, <1>2, <1>3, Dispatch
<1>5. TypeOK'
  BY <1>1, <1>4 DEF IInv, TypeOK
<1>6. Rest'
  BY <1>1, <1>4 DEF IInv, Rest, ReadyIsLive, ReceiverBlocked, RecvAnswered, NobodyForgotten,
                    Accounted, DeadIsClear
<1> QED BY <1>4, <1>5, <1>6 DEF IInv, Rest

-----------------------------------------------------------------------------
(* The invariant holds in every reachable state.                           *)

LEMMA InitInv == Init => IInv
<1> SUFFICES ASSUME Init PROVE IInv
  OBVIOUS
<1>1. 1 \in Thread /\ 0 \in Priority /\ NULL \notin Thread
  BY KozosAssumption DEF Thread, Priority, NULL
<1>2. /\ Len(<<1>>) = 1 /\ <<1>>[1] = 1 /\ <<1>> # <<>> /\ Head(<<1>>) = 1 /\ Len(<<>>) = 0
      /\ <<1>> \in Seq(Thread) /\ <<>> \in Seq(Thread) /\ <<>> \in Seq(Message)
  BY <1>1
<1>3. TypeOK
  BY <1>1, <1>2, KozosAssumption DEF Init, TypeOK, CallType
<1>4. \A i \in Priority : /\ readyque[i] = IF i = 0 THEN <<1>> ELSE <<>>
                          /\ Len(readyque[i]) = IF i = 0 THEN 1 ELSE 0
  BY <1>2 DEF Init
<1>5. ReadyQueueOK
  BY <1>1, <1>2, <1>4 DEF Init, ReadyQueueOK
<1>6. RunningIsFirst
  BY <1>1, <1>2, <1>4 DEF Init, RunningIsFirst, Running, InHandler, Top, NULL
<1>7. ReadyIsLive /\ ReceiverBlocked /\ RecvAnswered /\ DeadIsClear
  BY <1>1 DEF Init, ReadyIsLive, ReceiverBlocked, RecvAnswered, DeadIsClear
<1>8. NobodyForgotten
  BY DEF Init, NobodyForgotten, Accounted
<1> QED BY <1>3, <1>5, <1>6, <1>7, <1>8 DEF IInv

LEMMA StepCall == ASSUME IInv, SystemCall PROVE IInv'
BY StepRun, StepExit, StepWait, StepSleep, StepWakeup, StepChpri, StepKmalloc, StepKmfree,
   StepSend, StepRecv, StepSetintr DEF SystemCall, kz_exit, softerr_intr, kz_getid

LEMMA StepNext == IInv /\ [Next]_vars => IInv'
<1> SUFFICES ASSUME IInv, [Next]_vars PROVE IInv'
  OBVIOUS
<1>1. CASE SystemCall
  BY <1>1, StepCall
<1>2. CASE ServiceCall
  BY <1>2, StepKxWakeup, StepKxKmalloc, StepKxKmfree, StepKxSend DEF ServiceCall
<1>3. CASE INTR_ENABLE \/ (\E v \in SoftVec : thread_intr(v)) \/ Return
  BY <1>3, StepEnable, StepIntr, StepReturn
<1>4. CASE UNCHANGED vars
  <2>1. UNCHANGED <<current, readyque, ready, priority, live, masked, syscall, ret, receiver,
                    box, free, heap, handlers, intr, down>>
    BY <1>4 DEF vars, threadVars, boxVars, memVars
  <2>2. TypeOK' /\ ReadyQueueOK' /\ RunningIsFirst'
    BY <2>1 DEF IInv, TypeOK, ReadyQueueOK, RunningIsFirst, Running, InHandler, Top
  <2>3. Rest'
    BY <2>1 DEF IInv, Rest, ReadyIsLive, ReceiverBlocked, RecvAnswered, NobodyForgotten,
                Accounted, DeadIsClear
  <2> QED BY <2>2, <2>3 DEF IInv, Rest
<1> QED BY <1>1, <1>2, <1>3, <1>4 DEF Next

\* The inductive invariant of the kernel: thread control blocks, ready
\* queues, boxes and answers fit together after every system call, service
\* call and interrupt.
THEOREM Invariance == Spec => []IInv
<1>1. Init => IInv
  BY InitInv
<1>2. IInv /\ [Next]_vars => IInv'
  BY StepNext
<1> QED BY <1>1, <1>2, PTL DEF Spec

\* TypeOK holds in every reachable state.
THEOREM TypeCorrect == Spec => []TypeOK
<1>1. IInv => TypeOK
  BY DEF IInv
<1> QED BY <1>1, Invariance, PTL

\* getcurrent() and putcurrent() keep flags and queues in step, and no exited
\* thread is ever in a queue.
THEOREM QueuesCorrect == Spec => [](ReadyQueueOK /\ ReadyIsLive)
<1>1. IInv => ReadyQueueOK /\ ReadyIsLive
  BY DEF IInv
<1> QED BY <1>1, Invariance, PTL

\* The running thread is the head of its queue and no thread above it is
\* ready: getcurrent() takes off the thread it means to.
THEOREM RunsFirst == Spec => []RunningIsFirst
<1>1. IInv => RunningIsFirst
  BY DEF IInv
<1> QED BY <1>1, Invariance, PTL

\* A waiting thread waits blocked, on one empty box, and is answered before it
\* runs again.
THEOREM ReceiversCorrect == Spec => [](ReceiverBlocked /\ RecvAnswered)
<1>1. IInv => ReceiverBlocked /\ RecvAnswered
  BY DEF IInv
<1> QED BY <1>1, Invariance, PTL

\* Every thread out of the ready queues sleeps, waits on a box, or made a
\* kz_run() that failed.
THEOREM ForgetsNobody == Spec => []NobodyForgotten
<1>1. IInv => NobodyForgotten
  BY DEF IInv
<1> QED BY <1>1, Invariance, PTL

-----------------------------------------------------------------------------
(* Preemption.                                                             *)

\* No step but the return of a handler leaves the handler.
LEMMA OnlyReturnLeaves ==
  ASSUME IInv, [Next]_vars, intr # NULL, intr' = NULL
  PROVE  Return
<1>1. ~SystemCall /\ ~INTR_ENABLE /\ ~(\E v \in SoftVec : thread_intr(v))
  <2>1. SystemCall => intr = NULL \/ intr' = intr
    BY DEF SystemCall, kz_run, kz_exit, softerr_intr, thread_exit, kz_wait, kz_sleep,
           kz_wakeup, kz_getid, kz_chpri, kz_kmalloc, kz_kmfree, kz_send, kz_recv,
           kz_setintr, Enter, Running, sysdown
  <2> QED BY <2>1 DEF INTR_ENABLE, thread_intr, Running
<1>2. ~ServiceCall
  BY DEF ServiceCall, kx_wakeup, kx_kmalloc, kx_kmfree, kx_send, sysdown
<1>3. ~UNCHANGED vars
  BY DEF vars
<1> QED BY <1>1, <1>2, <1>3 DEF Next

\* After an interrupt schedule() resumes the interrupted thread or one of a
\* higher priority.
THEOREM Preemption == Spec => PreemptedByHigher
<1> DEFINE A == intr # NULL /\ intr' = NULL =>
                  current' = intr \/ priority[current'] < priority[intr]
<1>1. IInv /\ [Next]_vars => [A]_vars
  <2> SUFFICES ASSUME IInv, [Next]_vars, intr # NULL, intr' = NULL
               PROVE  current' = intr \/ priority[current'] < priority[intr]
    OBVIOUS
  <2>1. Return
    BY OnlyReturnLeaves
  <2>2. Top(intr) /\ intr \in Thread /\ priority[intr] \in Priority
    BY <2>1 DEF Return, InHandler, IInv, RunningIsFirst, TypeOK
  <2>3. schedule(readyque) /\ priority[intr] \in Occupied(readyque)
    BY <2>1, <2>2 DEF Return, dispatch, queues, Top, Occupied
  <2>4. PICK i \in Occupied(readyque) : /\ \A j \in Occupied(readyque) : i <= j
                                        /\ current' = Head(readyque[i])
    BY <2>3 DEF schedule
  <2>5. i \in Priority /\ readyque[i] # <<>> /\ readyque[i] \in Seq(Thread)
    BY <2>4 DEF Occupied, IInv, TypeOK
  <2>6. 1 \in 1..Len(readyque[i]) /\ current' = readyque[i][1]
    BY <2>4, <2>5, HeadTailProperties, LenProperties, EmptySeq
  <2>7. priority[current'] = i
    BY <2>5, <2>6 DEF IInv, ReadyQueueOK
  <2>8. CASE i = priority[intr]
    BY <2>2, <2>4, <2>8 DEF Top
  <2>9. CASE i # priority[intr]
    BY <2>2, <2>3, <2>4, <2>5, <2>7, <2>9 DEF Priority
  <2> QED BY <2>8, <2>9
<1> QED BY <1>1, Invariance, PTL DEF Spec, PreemptedByHigher

-----------------------------------------------------------------------------
(* The kernel implements the mailboxes of KzMailbox.tla.                   *)

\* thread_send() is a Deposit or a HandOver, if its caller's answer alone
\* was dropped.
LEMMA SendIsMail ==
  ASSUME IInv, NEW m \in MsgBox, NEW msg \in Message, NEW q,
         NEW R \in [Thread -> Message \cup {NoMsg}],
         R = ret \/ \E t \in Thread : R = [ret EXCEPT ![t] = NoMsg],
         thread_send(m, msg, R, q)
  PROVE  Mail!Next
<1>1. CASE receiver[m] = NULL
  <2>1. Mail!Deposit(m, msg)
    BY <1>1, SendEffect DEF Mail!Deposit, Mail!Dropped
  <2> QED BY <2>1 DEF Mail!Next
<1>2. CASE receiver[m] # NULL
  <2>1. Mail!HandOver(m, msg)
    BY <1>2, SendEffect DEF Mail!HandOver, Mail!Dropped
  <2> QED BY <2>1 DEF Mail!Next
<1> QED BY <1>1, <1>2

LEMMA RecvIsMail ==
  ASSUME IInv, NEW m \in MsgBox, kz_recv(m), ~sysdown
  PROVE  Mail!Next
<1>1. Running /\ receiver[m] = NULL
  BY DEF kz_recv, Enter
<1>2. current \in Thread /\ \A n \in MsgBox : receiver[n] # current
  BY <1>1, RunningThread
<1>3. CASE box[m] = <<>>
  <2>1. Mail!Block(m, current)
    BY <1>1, <1>2, <1>3 DEF kz_recv, NoAnswer, Mail!Block
  <2> QED BY <2>1, <1>2 DEF Mail!Next
<1>4. CASE box[m] # <<>>
  <2>1. Mail!Take(m, current)
    BY <1>1, <1>4 DEF kz_recv, Mail!Take
  <2> QED BY <2>1, <1>2 DEF Mail!Next
<1> QED BY <1>3, <1>4

\* Every other step drops at most the caller's old answer.
LEMMA OtherIsMail ==
  ASSUME IInv, Next,
         ~(\E m \in MsgBox, d \in Data : kz_send(m, d) \/ kx_send(m, d)),
         ~(\E m \in MsgBox : kz_recv(m))
  PROVE  [Mail!Next]_(Mail!mailboxVars)
<1>1. UNCHANGED <<box, receiver>>
  BY DEF Next, SystemCall, ServiceCall, kz_run, kz_exit, softerr_intr, thread_exit, kz_wait,
         kz_sleep, kz_wakeup, kz_getid, kz_chpri, kz_kmalloc, kz_kmfree, kz_setintr,
         INTR_ENABLE, thread_intr, kx_wakeup, kx_kmalloc, kx_kmfree, Return, sysdown, boxVars
<1>2. UNCHANGED ret \/ (Running /\ NoAnswer)
  BY DEF Next, SystemCall, ServiceCall, kz_run, kz_exit, softerr_intr, thread_exit, kz_wait,
         kz_sleep, kz_wakeup, kz_getid, kz_chpri, kz_kmalloc, kz_kmfree, kz_setintr,
         INTR_ENABLE, thread_intr, kx_wakeup, kx_kmalloc, kx_kmfree, Return, sysdown, Enter
<1>3. CASE UNCHANGED ret
  BY <1>1, <1>3 DEF Mail!mailboxVars
<1>4. CASE Running /\ NoAnswer
  <2>1. current \in Thread /\ ret' = [ret EXCEPT ![current] = NoMsg]
    BY <1>4, RunningThread DEF NoAnswer
  <2>2. Mail!Forget
    BY <1>1, <2>1 DEF Mail!Forget
  <2> QED BY <2>2 DEF Mail!Next
<1> QED BY <1>2, <1>3, <1>4

LEMMA DownIsMail == sysdown => UNCHANGED Mail!mailboxVars
BY DEF sysdown, boxVars, Mail!mailboxVars

\* Message boxes are first in first out, a message goes to one thread, and a
\* waiting thread is served at once, whatever else the kernel is doing.
THEOREM MailboxRefinement == Spec => MailboxOK
<1>1. Init => Mail!Init
  BY DEF Init, Mail!Init
<1>2. IInv /\ [Next]_vars => [Mail!Next]_(Mail!mailboxVars)
  <2> SUFFICES ASSUME IInv, [Next]_vars PROVE [Mail!Next]_(Mail!mailboxVars)
    OBVIOUS
  <2>1. CASE sysdown
    BY <2>1, DownIsMail
  <2>2. CASE UNCHANGED vars
    BY <2>2 DEF vars, boxVars, Mail!mailboxVars
  <2>3. ASSUME NEW m \in MsgBox, NEW d \in Data, kz_send(m, d), ~sysdown
        PROVE  Mail!Next
    <3>1. /\ Running
          /\ thread_send(m, [sender |-> current, p |-> d], [ret EXCEPT ![current] = NoMsg],
                         putcurrent(Taken, priority, current))
      BY <2>3 DEF kz_send, Enter
    <3>2. current \in Thread
      BY <3>1, RunningThread
    <3>3. [sender |-> current, p |-> d] \in Message
      BY <3>2 DEF Message
    <3>4. [ret EXCEPT ![current] = NoMsg] \in [Thread -> Message \cup {NoMsg}]
      BY <3>2 DEF IInv, TypeOK
    <3> QED BY <3>1, <3>2, <3>3, <3>4, SendIsMail
  <2>4. ASSUME NEW m \in MsgBox, NEW d \in Data, kx_send(m, d), ~sysdown
        PROVE  Mail!Next
    <3>1. thread_send(m, [sender |-> NULL, p |-> d], ret, queues)
      BY <2>4 DEF kx_send
    <3>2. [sender |-> NULL, p |-> d] \in Message /\ ret \in [Thread -> Message \cup {NoMsg}]
      BY DEF Message, IInv, TypeOK
    <3> QED BY <3>1, <3>2, SendIsMail
  <2>5. ASSUME NEW m \in MsgBox, kz_recv(m), ~sysdown PROVE Mail!Next
    BY <2>5, RecvIsMail
  <2> QED BY <2>1, <2>2, <2>3, <2>4, <2>5, OtherIsMail
<1> QED BY <1>1, <1>2, Invariance, PTL DEF Spec, MailboxOK, Mail!Spec

-----------------------------------------------------------------------------
(* The pool of message buffers.                                            *)

\* Induction over the natural numbers, for a set.
LEMMA SetInduction ==
  ASSUME NEW S \in SUBSET Nat, 0 \in S, \A n \in S : n + 1 \in S
  PROVE  S = Nat
<1> SUFFICES ASSUME Nat \ S # {} PROVE FALSE
  OBVIOUS
<1> DEFINE R == {ss \in Nat \X Nat : ss[1] < ss[2]}
<1>1. IsWellFoundedOn(R, Nat)
  BY NatLessThanWellFounded DEF OpToRel
<1>2. PICK x \in Nat \ S : \A y \in Nat \ S : <<y, x>> \notin R
  <2> HIDE DEF R
  <2> QED BY <1>1, WFMin
<1>3. x # 0 /\ x - 1 \in Nat
  OBVIOUS
<1>4. <<x - 1, x>> \in R
  BY <1>3
<1>5. x - 1 \in S
  BY <1>2, <1>3, <1>4
<1> QED BY <1>3, <1>5

\* The sum of BlocksConserved, as the fold behind MapThenSumSet computes it:
\* g[S] is the number of messages in the boxes of S.
Pick(S) == CHOOSE m \in S : TRUE
Queued(g, b, S) == IF S = {} THEN 0 ELSE Len(b[Pick(S)]) + g[S \ {Pick(S)}]
Counted(g, b) == g = [S \in SUBSET MsgBox |-> Queued(g, b, S)]
Total(b) == (CHOOSE g : Counted(g, b))[MsgBox]

LEMMA Conserved == BlocksConserved <=> free + heap + Total(box) = BLOCKS
BY DEF BlocksConserved, MapThenSumSet, MapThenFoldSet, Total, Counted, Queued, Pick

LEMMA ConservedNext == BlocksConserved' <=> free' + heap' + Total(box') = BLOCKS
BY DEF BlocksConserved, MapThenSumSet, MapThenFoldSet, Total, Counted, Queued, Pick

LEMMA Smaller ==
  ASSUME NEW S \in SUBSET MsgBox, S # {}
  PROVE  /\ Pick(S) \in S /\ S \ {Pick(S)} \in SUBSET MsgBox
         /\ Cardinality(S) \in Nat \ {0} /\ Cardinality(S \ {Pick(S)}) = Cardinality(S) - 1
         /\ Cardinality(S \ {Pick(S)}) \in Nat
<1>1. Pick(S) \in S
  BY DEF Pick
<1>2. IsFiniteSet(S)
  BY KozosAssumption, FS_Subset
<1>3. IsFiniteSet(S \ {Pick(S)}) /\ Cardinality(S \ {Pick(S)}) = Cardinality(S) - 1
  BY <1>1, <1>2, FS_RemoveElement
<1>4. Cardinality(S) \in Nat /\ Cardinality(S \ {Pick(S)}) \in Nat
  BY <1>2, <1>3, FS_CardinalityType
<1>5. Cardinality(S) # 0
  BY <1>3, <1>4
<1> QED BY <1>1, <1>3, <1>4, <1>5

\* What holds of no box, and of S when it holds of S without one of its
\* boxes, holds of all sets of boxes.
LEMMA SubsetInduction ==
  ASSUME NEW Q \in SUBSET (SUBSET MsgBox), {} \in Q,
         \A S \in SUBSET MsgBox : S # {} /\ S \ {Pick(S)} \in Q => S \in Q
  PROVE  Q = SUBSET MsgBox
<1> DEFINE N == {n \in Nat : \A S \in SUBSET MsgBox : Cardinality(S) = n => S \in Q}
<1>1. 0 \in N
  <2> SUFFICES ASSUME NEW S \in SUBSET MsgBox, Cardinality(S) = 0 PROVE S \in Q
    OBVIOUS
  <2>1. CASE S = {}
    BY <2>1
  <2>2. CASE S # {}
    <3>1. Cardinality(S) # 0
      BY <2>2, Smaller
    <3> QED BY <3>1
  <2> QED BY <2>1, <2>2
<1>2. ASSUME NEW n \in N PROVE n + 1 \in N
  <2> SUFFICES ASSUME NEW S \in SUBSET MsgBox, Cardinality(S) = n + 1 PROVE S \in Q
    OBVIOUS
  <2>1. CASE S = {}
    BY <2>1
  <2>2. CASE S # {}
    <3>1. S \ {Pick(S)} \in SUBSET MsgBox /\ Cardinality(S \ {Pick(S)}) = n
      BY <2>2, Smaller
    <3> QED BY <3>1, <2>2
  <2> QED BY <2>1, <2>2
<1>3. N = Nat
  <2>1. N \in SUBSET Nat
    OBVIOUS
  <2> HIDE DEF N
  <2> QED BY <1>1, <1>2, <2>1, SetInduction
<1>4. \A S \in SUBSET MsgBox : Cardinality(S) \in Nat
  BY KozosAssumption, FS_Subset, FS_CardinalityType
<1> QED BY <1>3, <1>4

LEMMA CountedExists == ASSUME NEW b PROVE \E g : Counted(g, b)
<1> DEFINE Small(n) == {S \in SUBSET MsgBox : Cardinality(S) <= n}
           Upto(g, n) == g = [S \in Small(n) |-> Queued(g, b, S)]
           N == {n \in Nat : \E g : Upto(g, n)}
<1>1. 0 \in N
  <2> DEFINE h == [S \in Small(0) |-> 0]
  <2>1. \A S \in Small(0) : S = {}
    <3> SUFFICES ASSUME NEW S \in SUBSET MsgBox, Cardinality(S) <= 0, S # {} PROVE FALSE
      OBVIOUS
    <3>1. Cardinality(S) \in Nat \ {0}
      BY Smaller
    <3> QED BY <3>1
  <2>2. \A S \in Small(0) : Queued(h, b, S) = 0
    BY <2>1 DEF Queued
  <2>3. Upto(h, 0)
    BY <2>2
  <2> QED BY <2>3
<1>2. ASSUME NEW n \in N PROVE n + 1 \in N
  <2>1. PICK g : Upto(g, n)
    OBVIOUS
  <2> DEFINE h == [S \in Small(n + 1) |-> Queued(g, b, S)]
  <2>2. \A S \in Small(n) : S \in Small(n + 1) /\ h[S] = g[S]
    <3> SUFFICES ASSUME NEW S \in Small(n) PROVE S \in Small(n + 1) /\ h[S] = g[S]
      OBVIOUS
    <3>1. Cardinality(S) \in Nat
      BY KozosAssumption, FS_Subset, FS_CardinalityType
    <3>2. g[S] = Queued(g, b, S)
      <4>1. [T \in Small(n) |-> Queued(g, b, T)][S] = Queued(g, b, S)
        OBVIOUS
      <4> QED BY <4>1, <2>1
    <3> QED BY <3>1, <3>2
  <2>3. \A S \in Small(n + 1) : Queued(h, b, S) = Queued(g, b, S)
    <3> SUFFICES ASSUME NEW S \in Small(n + 1) PROVE Queued(h, b, S) = Queued(g, b, S)
      OBVIOUS
    <3>1. CASE S = {}
      BY <3>1 DEF Queued
    <3>2. CASE S # {}
      <4>1. S \ {Pick(S)} \in Small(n)
        BY <3>2, Smaller
      <4>2. h[S \ {Pick(S)}] = g[S \ {Pick(S)}]
        BY <2>2, <4>1
      <4> HIDE DEF h
      <4> QED BY <4>2 DEF Queued
    <3> QED BY <3>1, <3>2
  <2>4. Upto(h, n + 1)
    BY <2>3
  <2>5. n + 1 \in Nat
    OBVIOUS
  <2> HIDE DEF h, Upto
  <2> QED BY <2>4, <2>5
<1>3. N = Nat
  <2>1. N \in SUBSET Nat
    OBVIOUS
  <2> HIDE DEF N
  <2> QED BY <1>1, <1>2, <2>1, SetInduction
<1>4. Cardinality(MsgBox) \in Nat /\ Small(Cardinality(MsgBox)) = SUBSET MsgBox
  BY KozosAssumption, FS_Subset, FS_CardinalityType
<1>5. PICK g : Upto(g, Cardinality(MsgBox))
  BY <1>3, <1>4
<1>6. Counted(g, b)
  BY <1>4, <1>5 DEF Counted
<1> QED BY <1>6

LEMMA CountedIs ==
  ASSUME NEW g, NEW b, Counted(g, b), NEW S \in SUBSET MsgBox
  PROVE  g[S] = Queued(g, b, S)
<1>1. [T \in SUBSET MsgBox |-> Queued(g, b, T)][S] = Queued(g, b, S)
  OBVIOUS
<1> QED BY <1>1 DEF Counted

Boxes == [MsgBox -> Seq(Message)]

LEMMA CountedNat ==
  ASSUME NEW g, NEW b \in Boxes, Counted(g, b)
  PROVE  \A S \in SUBSET MsgBox : g[S] \in Nat
<1> DEFINE Q == {S \in SUBSET MsgBox : g[S] \in Nat}
<1>1. {} \in Q
  <2>1. g[{}] = 0
    BY CountedIs DEF Queued
  <2> QED BY <2>1
<1>2. ASSUME NEW S \in SUBSET MsgBox, S # {}, S \ {Pick(S)} \in Q PROVE S \in Q
  <2>1. g[S] = Len(b[Pick(S)]) + g[S \ {Pick(S)}]
    BY <1>2, CountedIs DEF Queued
  <2>2. Len(b[Pick(S)]) \in Nat
    BY <1>2, Smaller, LenProperties DEF Boxes
  <2> QED BY <1>2, <2>1, <2>2
<1>3. Q = SUBSET MsgBox
  <2>1. Q \in SUBSET (SUBSET MsgBox)
    OBVIOUS
  <2> HIDE DEF Q
  <2> QED BY <1>1, <1>2, <2>1, SubsetInduction
<1> QED BY <1>3

\* One box longer by d: the sums of the sets it belongs to grow by d.
LEMMA CountedStep ==
  ASSUME NEW g, NEW h, NEW b \in Boxes, NEW c \in Boxes, Counted(g, b), Counted(h, c),
         NEW a \in MsgBox, NEW d \in Int, Len(c[a]) = Len(b[a]) + d,
         \A m \in MsgBox : m # a => c[m] = b[m]
  PROVE  \A S \in SUBSET MsgBox : h[S] = g[S] + (IF a \in S THEN d ELSE 0)
<1> DEFINE Q == {S \in SUBSET MsgBox : h[S] = g[S] + (IF a \in S THEN d ELSE 0)}
<1>1. {} \in Q
  <2>1. g[{}] = 0 /\ h[{}] = 0
    BY CountedIs DEF Queued
  <2> QED BY <2>1
<1>2. ASSUME NEW S \in SUBSET MsgBox, S # {}, S \ {Pick(S)} \in Q PROVE S \in Q
  <2> DEFINE m == Pick(S)
             T == S \ {Pick(S)}
  <2>1. m \in MsgBox /\ m \in S /\ T \in SUBSET MsgBox
    BY <1>2, Smaller
  <2>2. g[S] = Len(b[m]) + g[T] /\ h[S] = Len(c[m]) + h[T]
    BY <1>2, CountedIs DEF Queued
  <2>3. Len(b[m]) \in Nat /\ Len(c[m]) \in Nat /\ g[T] \in Nat /\ h[T] \in Nat
    BY <2>1, LenProperties, CountedNat DEF Boxes
  <2>4. h[T] = g[T] + (IF a \in T THEN d ELSE 0)
    BY <1>2
  <2>5. CASE a = m
    <3>1. Len(c[m]) = Len(b[m]) + d /\ a \notin T /\ a \in S
      BY <2>1, <2>5
    <3> HIDE DEF m, T
    <3> QED BY <3>1, <2>2, <2>3, <2>4
  <2>6. CASE a # m
    <3>1. Len(c[m]) = Len(b[m]) /\ (a \in T <=> a \in S)
      BY <2>1, <2>6
    <3> HIDE DEF m, T
    <3> QED BY <3>1, <2>2, <2>3, <2>4
  <2> QED BY <2>5, <2>6
<1>3. Q = SUBSET MsgBox
  <2>1. Q \in SUBSET (SUBSET MsgBox)
    OBVIOUS
  <2> HIDE DEF Q
  <2> QED BY <1>1, <1>2, <2>1, SubsetInduction
<1> QED BY <1>3

LEMMA TotalStep ==
  ASSUME NEW b \in Boxes, NEW c \in Boxes, NEW a \in MsgBox, NEW d \in Int,
         Len(c[a]) = Len(b[a]) + d, \A m \in MsgBox : m # a => c[m] = b[m]
  PROVE  Total(c) = Total(b) + d /\ Total(b) \in Nat /\ Total(c) \in Nat
<1> DEFINE g == CHOOSE g : Counted(g, b)
           h == CHOOSE h : Counted(h, c)
<1>1. Counted(g, b) /\ Counted(h, c)
  BY CountedExists
<1>2. Total(b) = g[MsgBox] /\ Total(c) = h[MsgBox]
  BY DEF Total
<1> HIDE DEF g, h
<1>3. g[MsgBox] \in Nat /\ h[MsgBox] \in Nat
  BY <1>1, CountedNat
<1>4. h[MsgBox] = g[MsgBox] + (IF a \in MsgBox THEN d ELSE 0)
  BY <1>1, CountedStep
<1> QED BY <1>2, <1>3, <1>4

LEMMA TotalEmpty == Total([m \in MsgBox |-> << >>]) = 0
<1> DEFINE b == [m \in MsgBox |-> << >>]
           g == CHOOSE g : Counted(g, b)
           Q == {S \in SUBSET MsgBox : g[S] = 0}
<1>1. Counted(g, b) /\ Total(b) = g[MsgBox]
  BY CountedExists DEF Total
<1> HIDE DEF g
<1>2. {} \in Q
  BY <1>1, CountedIs DEF Queued
<1>3. ASSUME NEW S \in SUBSET MsgBox, S # {}, S \ {Pick(S)} \in Q PROVE S \in Q
  <2>1. g[S] = Len(b[Pick(S)]) + g[S \ {Pick(S)}]
    BY <1>1, <1>3, CountedIs DEF Queued
  <2>2. Len(b[Pick(S)]) = 0
    BY <1>3, Smaller
  <2> QED BY <1>3, <2>1, <2>2
<1>4. Q = SUBSET MsgBox
  <2>1. Q \in SUBSET (SUBSET MsgBox)
    OBVIOUS
  <2> HIDE DEF Q
  <2> QED BY <1>2, <1>3, <2>1, SubsetInduction
<1> QED BY <1>1, <1>4

\* Every step but a send and a receive moves at most a block between the free
\* blocks and the memory given out.
LEMMA OtherBlocks ==
  ASSUME IInv, Next,
         ~(\E m \in MsgBox, d \in Data : kz_send(m, d) \/ kx_send(m, d)),
         ~(\E m \in MsgBox : kz_recv(m))
  PROVE  UNCHANGED box /\ free' + heap' = free + heap
<1>1. UNCHANGED box
  BY DEF Next, SystemCall, ServiceCall, kz_run, kz_exit, softerr_intr, thread_exit, kz_wait,
         kz_sleep, kz_wakeup, kz_getid, kz_chpri, kz_kmalloc, kz_kmfree, kz_setintr,
         INTR_ENABLE, thread_intr, kx_wakeup, kx_kmalloc, kx_kmfree, Return, sysdown, boxVars
<1>2. \/ UNCHANGED <<free, heap>>
      \/ free' = free - 1 /\ heap' = heap + 1
      \/ free' = free + 1 /\ heap' = heap - 1
  BY DEF Next, SystemCall, ServiceCall, kz_run, kz_exit, softerr_intr, thread_exit, kz_wait,
         kz_sleep, kz_wakeup, kz_getid, kz_chpri, kz_kmalloc, kz_kmfree, kz_setintr,
         INTR_ENABLE, thread_intr, kx_wakeup, kx_kmalloc, kx_kmfree, Return, sysdown, memVars
<1>3. free \in Nat /\ heap \in Nat
  BY DEF IInv, TypeOK
<1> QED BY <1>1, <1>2, <1>3

\* A message takes a block with it into a box, and none when it is handed over.
LEMMA SendBlocks ==
  ASSUME IInv, IInv', BlocksConserved, NEW m \in MsgBox, NEW msg \in Message, NEW R, NEW q,
         thread_send(m, msg, R, q), UNCHANGED heap
  PROVE  BlocksConserved'
<1>1. free \in Nat /\ heap \in Nat /\ box \in Boxes /\ box' \in Boxes /\ BLOCKS \in Nat
  BY KozosAssumption DEF IInv, TypeOK, Boxes
<1>2. free + heap + Total(box) = BLOCKS
  BY Conserved
<1>3. CASE UNCHANGED <<box, free>>
  BY <1>2, <1>3, ConservedNext
<1>4. CASE box' = [box EXCEPT ![m] = Append(box[m], msg)] /\ free' = free - 1
  <2>1. Len(box'[m]) = Len(box[m]) + 1 /\ \A n \in MsgBox : n # m => box'[n] = box[n]
    BY <1>1, <1>4, AppendProperties DEF Boxes
  <2>2. Total(box') = Total(box) + 1 /\ Total(box) \in Nat
    BY <1>1, <2>1, TotalStep
  <2>3. free' + heap' + Total(box') = BLOCKS
    BY <1>1, <1>2, <1>4, <2>2
  <2> QED BY <2>3, ConservedNext
<1> QED BY <1>3, <1>4, SendEffect

\* A message that is taken gives its block back.
LEMMA RecvBlocks ==
  ASSUME IInv, IInv', BlocksConserved, NEW m \in MsgBox, kz_recv(m)
  PROVE  BlocksConserved'
<1>1. free \in Nat /\ heap \in Nat /\ box \in Boxes /\ box' \in Boxes /\ BLOCKS \in Nat
  BY KozosAssumption DEF IInv, TypeOK, Boxes
<1>2. free + heap + Total(box) = BLOCKS
  BY Conserved
<1>3. CASE UNCHANGED <<box, free, heap>>
  BY <1>2, <1>3, ConservedNext
<1>4. CASE /\ box[m] # <<>> /\ box' = [box EXCEPT ![m] = Tail(box[m])]
           /\ free' = free + 1 /\ UNCHANGED heap
  <2>1. Len(box'[m]) = Len(box[m]) + (-1) /\ \A n \in MsgBox : n # m => box'[n] = box[n]
    <3>1. box[m] \in Seq(Message) /\ box'[m] = Tail(box[m])
      BY <1>1, <1>4 DEF Boxes
    <3>2. Len(box[m]) \in Nat /\ Len(Tail(box[m])) = Len(box[m]) - 1
      BY <1>4, <3>1, HeadTailProperties, LenProperties
    <3> QED BY <1>1, <1>4, <3>1, <3>2 DEF Boxes
  <2>2. Total(box') = Total(box) + (-1) /\ Total(box) \in Nat
    BY <1>1, <2>1, TotalStep
  <2>3. free' + heap' + Total(box') = BLOCKS
    BY <1>1, <1>2, <1>4, <2>2
  <2> QED BY <2>3, ConservedNext
<1> QED BY <1>3, <1>4 DEF kz_recv, sysdown, memVars, boxVars

LEMMA BlocksStep ==
  ASSUME IInv, [Next]_vars, BlocksConserved
  PROVE  BlocksConserved'
<1>1. IInv'
  BY StepNext
<1>2. free + heap + Total(box) = BLOCKS
  BY Conserved
<1>3. CASE UNCHANGED <<box, free, heap>>
  BY <1>2, <1>3, ConservedNext
<1>4. ASSUME NEW m \in MsgBox, NEW d \in Data, kz_send(m, d), ~sysdown
      PROVE  BlocksConserved'
  <2>1. /\ Running /\ UNCHANGED heap
        /\ thread_send(m, [sender |-> current, p |-> d], [ret EXCEPT ![current] = NoMsg],
                       putcurrent(Taken, priority, current))
    BY <1>4 DEF kz_send, Enter
  <2>2. [sender |-> current, p |-> d] \in Message
    BY <2>1, RunningThread DEF Message
  <2> QED BY <1>1, <2>1, <2>2, SendBlocks
<1>5. ASSUME NEW m \in MsgBox, NEW d \in Data, kx_send(m, d), ~sysdown
      PROVE  BlocksConserved'
  <2>1. thread_send(m, [sender |-> NULL, p |-> d], ret, queues) /\ UNCHANGED heap
    BY <1>5 DEF kx_send
  <2>2. [sender |-> NULL, p |-> d] \in Message
    BY DEF Message
  <2> QED BY <1>1, <2>1, <2>2, SendBlocks
<1>6. ASSUME NEW m \in MsgBox, kz_recv(m)
      PROVE  BlocksConserved'
  BY <1>1, <1>6, RecvBlocks
<1>7. CASE Next /\ ~(\E m \in MsgBox, d \in Data : kz_send(m, d) \/ kx_send(m, d))
                /\ ~(\E m \in MsgBox : kz_recv(m))
  <2>1. UNCHANGED box /\ free' + heap' = free + heap
    BY <1>7, OtherBlocks
  <2>2. Total(box') = Total(box)
    BY <2>1
  <2>3. free' + heap' + Total(box') = BLOCKS
    BY <1>2, <2>1, <2>2
  <2> QED BY <2>3, ConservedNext
<1>8. sysdown \/ UNCHANGED vars => UNCHANGED <<box, free, heap>>
  BY DEF sysdown, vars, memVars, boxVars
<1> QED BY <1>3, <1>4, <1>5, <1>6, <1>7, <1>8

\* No message buffer is lost or given back twice, on any path of the
\* calls of threads and handlers: the blocks of the pool are the free
\* ones, those given out by kmalloc() and one for each message in a box.
THEOREM BlocksCorrect == Spec => []BlocksConserved
<1>1. Init => BlocksConserved
  <2> SUFFICES ASSUME Init PROVE BlocksConserved
    OBVIOUS
  <2>1. box = [m \in MsgBox |-> << >>] /\ free = BLOCKS /\ heap = 0
    BY DEF Init
  <2>2. Total(box) = 0
    BY <2>1, TotalEmpty
  <2>3. free + heap + Total(box) = BLOCKS
    BY <2>1, <2>2, KozosAssumption
  <2> QED BY <2>3, Conserved
<1>2. IInv /\ BlocksConserved /\ [Next]_vars => BlocksConserved'
  BY BlocksStep
<1> QED BY <1>1, <1>2, Invariance, PTL DEF Spec

=============================================================================
