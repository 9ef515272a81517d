-------------------------------- MODULE Kozos --------------------------------
(***************************************************************************)
(* The kernel of mykozos/os/kozos.c: threads, ready queues, system calls,  *)
(* service calls of interrupt handlers, message boxes.                     *)
(*                                                                         *)
(* A system call is one step: thread_intr() runs with interrupts masked,   *)
(* takes the caller off its ready queue, runs the call and schedules.  An  *)
(* interrupt handler is several steps (entry, service calls, return),      *)
(* and no other step comes between them for the same reason.               *)
(*                                                                         *)
(* An operator whose name ends in _bug is a definition with a mistake such *)
(* code could have; no specification uses it.                              *)
(***************************************************************************)
EXTENDS Integers, Sequences, FiniteSetsExt

CONSTANTS
  THREAD_NUM,     \* task control blocks
  PRIORITY_NUM,   \* ready queues
  MsgBox,         \* kz_msgbox_id_t
  SoftVec,        \* device interrupts a handler can be registered for
  Data,           \* what a message carries (size and p)
  NoMsg,          \* no answer to a kz_recv()
  BLOCKS          \* blocks of the pool message buffers are cut from

ASSUME KozosAssumption ==
  /\ THREAD_NUM \in Nat \ {0}
  /\ PRIORITY_NUM \in Nat \ {0}
  /\ BLOCKS \in Nat
  /\ IsFiniteSet(MsgBox)

NULL == 0
Thread == 1..THREAD_NUM             \* &threads[t - 1]
Priority == 0..(PRIORITY_NUM - 1)
Message == [sender : Thread \cup {NULL}, p : Data]
CallType == {"RUN", "SLEEP", "RECV", "OTHER"}

ASSUME NoMsgAssumption == NoMsg \notin Message

VARIABLES
  current,      \* the running thread; inside a handler, what the last service call left
  readyque,     \* [Priority -> Seq(Thread)], head first
  ready,        \* KZ_THREAD_FLAG_READY of every thread
  priority,     \* TCB priority
  live,         \* TCB in use: init.func # NULL
  syscall,      \* TCB syscall.type, as far as it matters who waits for what
  ret,          \* what the thread's last kz_recv() wrote through its parameters
  masked,       \* threads whose saved CCR masks interrupts
  receiver,     \* msgboxes[m].receiver
  box,          \* msgboxes[m].head .. tail
  free,         \* free blocks of the message buffers' pool
  heap,         \* blocks of that pool held by kmalloc()ed memory
  handlers,     \* device interrupts with a registered handler
  intr,         \* the thread a running handler interrupted, NULL outside a handler
  down          \* kz_sysdown() was reached

threadVars == <<readyque, ready, priority, live, masked>>
boxVars    == <<receiver, box>>
memVars    == <<free, heap>>
vars == <<current, threadVars, syscall, ret, boxVars, memVars, handlers, intr, down>>

-----------------------------------------------------------------------------
(* Ready queues.  q is the pair of the queues and the READY flags.         *)

queues == [que |-> readyque, ready |-> ready]

\* Takes the head of t's queue off, trusting that it is t.
getcurrent(q, t) ==
  IF t = NULL \/ ~q.ready[t] THEN q
  ELSE [que   |-> [q.que EXCEPT ![priority[t]] = Tail(@)],
        ready |-> [q.ready EXCEPT ![t] = FALSE]]

putcurrent_unchecked_bug(q, pri, t) ==   \* does not look at READY
  IF t = NULL THEN q ELSE
  [que   |-> [q.que EXCEPT ![pri[t]] = Append(@, t)],
   ready |-> [q.ready EXCEPT ![t] = TRUE]]
putcurrent_front_bug(q, pri, t) ==       \* puts t in front
  IF t = NULL \/ q.ready[t] THEN q
  ELSE [que   |-> [q.que EXCEPT ![pri[t]] = <<t>> \o @],
        ready |-> [q.ready EXCEPT ![t] = TRUE]]

\* Appends t to the queue of its priority, which is pri[t].
putcurrent(q, pri, t) ==
  IF t = NULL \/ q.ready[t] THEN q
  ELSE [que   |-> [q.que EXCEPT ![pri[t]] = Append(@, t)],
        ready |-> [q.ready EXCEPT ![t] = TRUE]]

Occupied(que) == {i \in Priority : que[i] # <<>>}

schedule(que) ==
  IF Occupied(que) = {}
  THEN down' = TRUE /\ current' = NULL
  ELSE /\ \E i \in Occupied(que) :
            /\ \A j \in Occupied(que) : i <= j
            /\ current' = Head(que[i])
       /\ UNCHANGED down

\* The queues become q and the first thread of the highest priority runs.
dispatch(q) ==
  /\ readyque' = q.que
  /\ ready' = q.ready
  /\ schedule(q.que)

sysdown ==
  /\ down' = TRUE
  /\ UNCHANGED <<current, threadVars, syscall, ret, boxVars, memVars, handlers, intr>>

-----------------------------------------------------------------------------
(* System calls of the running thread.                                     *)

Running == ~down /\ intr = NULL
InHandler == ~down /\ intr # NULL

\* thread_intr(), syscall_intr(), syscall_proc(): the call is recorded in the
\* TCB with a fresh parameter block, and the caller leaves its ready queue.
Enter(type) ==
  /\ Running
  /\ syscall' = [syscall EXCEPT ![current] = type]
  /\ UNCHANGED <<handlers, intr>>
NoAnswer == ret' = [ret EXCEPT ![current] = NoMsg]
Taken == getcurrent(queues, current)

\* The caller goes on: it returns to the tail of its queue.
Continue == dispatch(putcurrent(Taken, priority, current))

FreeTCB == {t \in Thread : ~live[t]}

kz_run(prio) ==
  /\ Enter("RUN") /\ NoAnswer
  /\ \/ /\ FreeTCB = {}                    \* -1, and the caller is not put back
        /\ dispatch(Taken)
        /\ UNCHANGED <<priority, live, masked>>
     \/ \E t \in FreeTCB :
          /\ \A u \in FreeTCB : t <= u
          /\ live' = [live EXCEPT ![t] = TRUE]
          /\ priority' = [priority EXCEPT ![t] = prio]
          /\ masked' = IF prio = 0 THEN masked \cup {t} ELSE masked
          /\ dispatch(putcurrent(putcurrent(Taken, priority', current), priority', t))
  /\ UNCHANGED <<boxVars, memVars>>

\* thread_exit(): the TCB is cleared.
thread_exit ==
  /\ Running
  /\ live' = [live EXCEPT ![current] = FALSE]
  /\ priority' = [priority EXCEPT ![current] = 0]
  /\ masked' = masked \ {current}
  /\ syscall' = [syscall EXCEPT ![current] = "OTHER"]
  /\ NoAnswer
  /\ dispatch(Taken)
  /\ UNCHANGED <<boxVars, memVars, handlers, intr>>

kz_exit == thread_exit       \* called, or reached by returning from func
softerr_intr == thread_exit  \* an exception of the running thread

kz_wait ==
  /\ Enter("OTHER") /\ NoAnswer
  /\ Continue
  /\ UNCHANGED <<priority, live, masked, boxVars, memVars>>

kz_sleep ==
  /\ Enter("SLEEP") /\ NoAnswer
  /\ dispatch(Taken)
  /\ UNCHANGED <<priority, live, masked, boxVars, memVars>>

\* Callers wake threads that run or sleep: kz_wakeup() does not look at its
\* target, and one blocked in kz_recv() would return without an answer.
Wakeable(id) == live[id] /\ \A m \in MsgBox : receiver[m] # id

kz_wakeup(id) ==
  /\ Enter("OTHER") /\ NoAnswer
  /\ Wakeable(id)
  /\ dispatch(putcurrent(putcurrent(Taken, priority, current), priority, id))
  /\ UNCHANGED <<priority, live, masked, boxVars, memVars>>

kz_getid == kz_wait   \* current is its answer

kz_chpri_early_bug(prio) ==   \* only asking returns before putcurrent()
  /\ Enter("OTHER") /\ NoAnswer
  /\ IF prio >= 0
     THEN /\ priority' = [priority EXCEPT ![current] = prio]
          /\ dispatch(putcurrent(Taken, priority', current))
     ELSE dispatch(Taken) /\ UNCHANGED priority
  /\ UNCHANGED <<live, masked, boxVars, memVars>>
kz_chpri_unchecked_bug(prio) ==   \* does not look at the argument
  /\ Enter("OTHER") /\ NoAnswer
  /\ priority' = [priority EXCEPT ![current] = prio]
  /\ dispatch(putcurrent(Taken, priority', current))
  /\ UNCHANGED <<live, masked, boxVars, memVars>>

\* prio = -1 stands for the negative arguments, which only ask.
kz_chpri(prio) ==
  /\ Enter("OTHER") /\ NoAnswer
  /\ priority' = IF prio >= 0 THEN [priority EXCEPT ![current] = prio] ELSE priority
  /\ dispatch(putcurrent(Taken, priority', current))
  /\ UNCHANGED <<live, masked, boxVars, memVars>>

\* Memory of the size class message buffers belong to.
kz_kmalloc ==
  \/ /\ Running /\ free = 0
     /\ sysdown
  \/ /\ Enter("OTHER") /\ NoAnswer
     /\ free > 0
     /\ free' = free - 1
     /\ heap' = heap + 1
     /\ Continue
     /\ UNCHANGED <<priority, live, masked, boxVars>>

kz_kmfree ==
  /\ Enter("OTHER") /\ NoAnswer
  /\ heap > 0
  /\ free' = free + 1
  /\ heap' = heap - 1
  /\ Continue
  /\ UNCHANGED <<priority, live, masked, boxVars>>

thread_send_lifo_bug(m, msg, R, q) ==   \* links the message in front
  LET sent == <<msg>> \o box[m]
      t    == receiver[m]
  IN \/ /\ t = NULL
        /\ box' = [box EXCEPT ![m] = sent]
        /\ free' = free - 1
        /\ ret' = R
        /\ readyque' = q.que /\ ready' = q.ready
        /\ UNCHANGED receiver
     \/ /\ t # NULL
        /\ box' = [box EXCEPT ![m] = Tail(sent)]
        /\ ret' = [R EXCEPT ![t] = Head(sent)]
        /\ receiver' = [receiver EXCEPT ![m] = NULL]
        /\ readyque' = putcurrent(q, priority, t).que
        /\ ready' = putcurrent(q, priority, t).ready
        /\ UNCHANGED free
thread_send_receiver_bug(m, msg, R, q) ==   \* leaves the receiver in place
  LET t == receiver[m]
  IN \/ /\ t = NULL
        /\ box' = [box EXCEPT ![m] = Append(@, msg)]
        /\ free' = free - 1
        /\ ret' = R
        /\ readyque' = q.que /\ ready' = q.ready
        /\ UNCHANGED receiver
     \/ /\ t # NULL
        /\ ret' = [R EXCEPT ![t] = msg]
        /\ readyque' = putcurrent(q, priority, t).que
        /\ ready' = putcurrent(q, priority, t).ready
        /\ UNCHANGED <<box, free, receiver>>

\* sendmsg() and, when a thread waits on the box, recvmsg() on its behalf:
\* R is ret before the call, the queues are q when the sender is back.
thread_send(m, msg, R, q) ==
  LET sent == Append(box[m], msg)
      t    == receiver[m]
  IN \/ /\ t = NULL
        /\ box' = [box EXCEPT ![m] = sent]
        /\ free' = free - 1
        /\ ret' = R
        /\ readyque' = q.que /\ ready' = q.ready
        /\ UNCHANGED receiver
     \/ /\ t # NULL
        /\ box' = [box EXCEPT ![m] = Tail(sent)]
        /\ ret' = [R EXCEPT ![t] = Head(sent)]
        /\ receiver' = [receiver EXCEPT ![m] = NULL]
        /\ readyque' = putcurrent(q, priority, t).que
        /\ ready' = putcurrent(q, priority, t).ready
        /\ UNCHANGED free

kz_send(m, d) ==
  \/ /\ Running /\ free = 0
     /\ sysdown
  \/ /\ Enter("OTHER")
     /\ free > 0
     /\ thread_send(m, [sender |-> current, p |-> d], [ret EXCEPT ![current] = NoMsg],
                    putcurrent(Taken, priority, current))
     /\ schedule(readyque')
     /\ UNCHANGED <<priority, live, masked, heap>>

kz_recv_leak_bug(m) ==   \* does not free the message buffer
  /\ Enter("RECV")
  /\ receiver[m] = NULL
  /\ \/ /\ box[m] = <<>>
        /\ receiver' = [receiver EXCEPT ![m] = current]
        /\ dispatch(Taken)
        /\ NoAnswer
        /\ UNCHANGED box
     \/ /\ box[m] # <<>>
        /\ ret' = [ret EXCEPT ![current] = Head(box[m])]
        /\ box' = [box EXCEPT ![m] = Tail(@)]
        /\ Continue
        /\ UNCHANGED receiver
  /\ UNCHANGED <<priority, live, masked, memVars>>

kz_recv(m) ==
  \/ /\ Running /\ receiver[m] # NULL      \* somebody else waits on the box
     /\ sysdown
  \/ /\ Enter("RECV") /\ NoAnswer
     /\ receiver[m] = NULL
     /\ box[m] = <<>>
     /\ receiver' = [receiver EXCEPT ![m] = current]
     /\ dispatch(Taken)
     /\ UNCHANGED <<priority, live, masked, box, memVars>>
  \/ /\ Enter("RECV")
     /\ receiver[m] = NULL
     /\ box[m] # <<>>
     /\ ret' = [ret EXCEPT ![current] = Head(box[m])]
     /\ box' = [box EXCEPT ![m] = Tail(@)]
     /\ free' = free + 1
     /\ Continue
     /\ UNCHANGED <<priority, live, masked, receiver, heap>>

kz_setintr(v) ==
  /\ Running
  /\ syscall' = [syscall EXCEPT ![current] = "OTHER"]
  /\ NoAnswer
  /\ handlers' = handlers \cup {v}
  /\ Continue
  /\ UNCHANGED <<priority, live, masked, boxVars, memVars, intr>>

-----------------------------------------------------------------------------
(* Interrupts.                                                             *)

\* A thread started masked opens itself to interrupts.  (Drivers mask them
\* for stretches without a system call: here, no handler running meanwhile.)
INTR_ENABLE ==
  /\ Running /\ current \in masked
  /\ masked' = masked \ {current}
  /\ UNCHANGED <<current, readyque, ready, priority, live, syscall, ret, boxVars, memVars,
                 handlers, intr, down>>

\* interrupt(), thread_intr(): the context is saved and the handler runs.
thread_intr(v) ==
  /\ Running /\ v \in handlers /\ current \notin masked
  /\ intr' = current
  /\ UNCHANGED <<current, threadVars, syscall, ret, boxVars, memVars, handlers, down>>

\* kz_srvcall(): current is NULL while the call runs.
kx_wakeup(id) ==
  /\ InHandler /\ Wakeable(id)
  /\ current' = id
  /\ readyque' = putcurrent(queues, priority, id).que
  /\ ready' = putcurrent(queues, priority, id).ready
  /\ UNCHANGED <<priority, live, masked, syscall, ret, boxVars, memVars, handlers, intr, down>>

kx_kmalloc ==
  /\ InHandler
  /\ \/ free = 0 /\ sysdown
     \/ /\ free > 0
        /\ free' = free - 1
        /\ heap' = heap + 1
        /\ current' = NULL
        /\ UNCHANGED <<threadVars, syscall, ret, boxVars, handlers, intr, down>>

kx_kmfree ==
  /\ InHandler
  /\ heap > 0
  /\ free' = free + 1
  /\ heap' = heap - 1
  /\ current' = NULL
  /\ UNCHANGED <<threadVars, syscall, ret, boxVars, handlers, intr, down>>

kx_send(m, d) ==
  /\ InHandler
  /\ \/ free = 0 /\ sysdown
     \/ /\ free > 0
        /\ current' = receiver[m]
        /\ thread_send(m, [sender |-> NULL, p |-> d], ret, queues)
        /\ UNCHANGED <<priority, live, masked, syscall, heap, handlers, intr, down>>

Return_bug ==   \* resumes the interrupted thread
  /\ InHandler
  /\ intr' = NULL /\ current' = intr
  /\ UNCHANGED <<threadVars, syscall, ret, boxVars, memVars, handlers, down>>

\* The handler returns to thread_intr(), which schedules.
Return ==
  /\ InHandler
  /\ intr' = NULL
  /\ dispatch(queues)
  /\ UNCHANGED <<priority, live, masked, syscall, ret, boxVars, memVars, handlers>>

-----------------------------------------------------------------------------
\* kz_start(): the first thread has the first TCB and priority 0.
Init ==
  /\ current = 1
  /\ readyque = [i \in Priority |-> IF i = 0 THEN <<1>> ELSE <<>>]
  /\ ready = [t \in Thread |-> t = 1]
  /\ priority = [t \in Thread |-> 0]
  /\ live = [t \in Thread |-> t = 1]
  /\ syscall = [t \in Thread |-> "OTHER"]
  /\ ret = [t \in Thread |-> NoMsg]
  /\ masked = {1}
  /\ receiver = [m \in MsgBox |-> NULL]
  /\ box = [m \in MsgBox |-> <<>>]
  /\ free = BLOCKS
  /\ heap = 0
  /\ handlers = {}
  /\ intr = NULL
  /\ down = FALSE

SystemCall ==
  \/ \E prio \in Priority : kz_run(prio)
  \/ kz_exit
  \/ softerr_intr
  \/ kz_wait
  \/ kz_sleep
  \/ \E id \in Thread : kz_wakeup(id)
  \/ kz_getid
  \/ \E prio \in Priority \cup {-1} : kz_chpri(prio)
  \/ kz_kmalloc
  \/ kz_kmfree
  \/ \E m \in MsgBox, d \in Data : kz_send(m, d)
  \/ \E m \in MsgBox : kz_recv(m)
  \/ \E v \in SoftVec : kz_setintr(v)

ServiceCall ==
  \/ \E id \in Thread : kx_wakeup(id)
  \/ kx_kmalloc
  \/ kx_kmfree
  \/ \E m \in MsgBox, d \in Data : kx_send(m, d)

Next ==
  \/ SystemCall
  \/ INTR_ENABLE
  \/ \E v \in SoftVec : thread_intr(v)
  \/ ServiceCall
  \/ Return

Spec == Init /\ [][Next]_vars

\* The running thread goes on making system calls however often it is
\* interrupted, and a handler returns.
Fairness == SF_vars(SystemCall) /\ WF_vars(Return)
FairSpec == Spec /\ Fairness
-----------------------------------------------------------------------------
(* Properties.                                                             *)

TypeOK ==
  /\ current \in Thread \cup {NULL}
  /\ readyque \in [Priority -> Seq(Thread)]
  /\ ready \in [Thread -> BOOLEAN]
  /\ priority \in [Thread -> Priority]
  /\ live \in [Thread -> BOOLEAN]
  /\ syscall \in [Thread -> CallType]
  /\ ret \in [Thread -> Message \cup {NoMsg}]
  /\ masked \in SUBSET Thread
  /\ receiver \in [MsgBox -> Thread \cup {NULL}]
  /\ box \in [MsgBox -> Seq(Message)]
  /\ free \in Nat
  /\ heap \in Nat
  /\ handlers \in SUBSET SoftVec
  /\ intr \in Thread \cup {NULL}
  /\ down \in BOOLEAN

\* A thread is in the ready queue of its present priority exactly when its
\* READY flag is set, once, and never in another: getcurrent() and
\* putcurrent() keep the flag and three kinds of links in step through every
\* order of run, exit, wakeup, chpri, send and recv.
ReadyQueueOK ==
  /\ \A i \in Priority : \A k \in 1..Len(readyque[i]) :
       ready[readyque[i][k]] /\ priority[readyque[i][k]] = i
  /\ \A t \in Thread : ready[t] => \E k \in 1..Len(readyque[priority[t]]) :
                                      readyque[priority[t]][k] = t
  /\ \A i \in Priority : \A k, l \in 1..Len(readyque[i]) :
       readyque[i][k] = readyque[i][l] => k = l

\* Only threads that exist are scheduled: an exited thread leaves no entry
\* in a queue.
ReadyIsLive == \A t \in Thread : ready[t] => live[t]

\* The running thread is the head of its ready queue and no thread of a
\* higher priority is ready; so is the interrupted thread for as long as the
\* handler has made no service call.  getcurrent() takes the head of the queue off on the
\* strength of this (kozos.c:92).
Top(t) ==
  /\ readyque[priority[t]] # <<>>
  /\ Head(readyque[priority[t]]) = t
RunningIsFirst ==
  /\ Running => /\ current # NULL
                /\ Top(current)
                /\ \A t \in Thread : ready[t] => priority[current] <= priority[t]
  /\ InHandler => Top(intr)

\* A box has a waiting thread only while it is empty, the waiting thread is
\* blocked in kz_recv(), exists, and waits on no other box (kozos.c:53).
ReceiverBlocked ==
  \A m \in MsgBox : receiver[m] # NULL =>
    /\ box[m] = <<>>
    /\ live[receiver[m]] /\ ~ready[receiver[m]]
    /\ syscall[receiver[m]] = "RECV"
    /\ \A n \in MsgBox : receiver[n] = receiver[m] => n = m

\* A thread that comes back from kz_recv() comes back with a message.
RecvAnswered == \A t \in Thread : ready[t] /\ syscall[t] = "RECV" => ret[t] # NoMsg

\* A thread outside the ready queues is one that went to sleep or waits on
\* a box: there is a call that makes it run again.  (A failed kz_run()
\* is the exception, see CallerKept.)
Accounted(t) ==
  \/ ready[t]
  \/ syscall[t] = "SLEEP"
  \/ \E m \in MsgBox : receiver[m] = t
NobodyForgotten == \A t \in Thread : live[t] /\ syscall[t] # "RUN" => Accounted(t)

\* The comment of syscall_proc() (kozos.c:444): a call that does not block
\* has to put its caller back.  kz_run() never blocks, so a thread whose last call it
\* was is ready.
CallerKept == \A t \in Thread : live[t] /\ syscall[t] = "RUN" => ready[t]

\* No block is lost or freed twice: the pool is what is free, what
\* kmalloc() gave out, and one buffer per undelivered message.
BlocksConserved ==
  free + heap + MapThenSumSet(LAMBDA m : Len(box[m]), MsgBox) = BLOCKS

\* An interrupt takes the processor from a thread only for one of a higher
\* priority; threads of the same priority keep their turns.
PreemptedByHigher ==
  [][intr # NULL /\ intr' = NULL => current' = intr \/ priority[current'] < priority[intr]]_vars

\* kz_send() and kz_recv(), and kx_send() in handlers, are the mailboxes of
\* KzMailbox.tla: first in first out, each message to one thread, a waiting
\* thread served at once.
Mail == INSTANCE KzMailbox WITH waiting <- receiver
MailboxOK == Mail!Spec

\* Round robin: a thread that from some time on is always ready, with no
\* ready thread above it, gets the processor again and again.
Eligible(t) == ready[t] /\ \A u \in Thread : ready[u] => priority[t] <= priority[u]
RoundRobin == \A t \in Thread : <>[](Eligible(t) /\ ~down) => []<>(Running /\ current = t)
=============================================================================
