------------------------------ MODULE KzMailbox ------------------------------
(***************************************************************************)
(* What the message boxes of the kernel promise to threads, without        *)
(* system calls, ready queues or interrupts: a box is a first-in           *)
(* first-out queue, at most one thread waits on it, a message sent to a    *)
(* box with a waiting thread goes to that thread at once, and a message    *)
(* is handed to exactly one thread.  Kozos.tla implements this module.     *)
(***************************************************************************)
EXTENDS Sequences

CONSTANTS
  Thread,       \* thread identifiers
  NULL,         \* no thread: nobody waits, or an interrupt handler sent
  MsgBox,       \* message box identifiers
  Message,      \* messages
  NoMsg         \* a thread has been handed no message

VARIABLES
  box,          \* [MsgBox -> Seq(Message)]: sent and not yet received
  waiting,      \* [MsgBox -> Thread or NULL]: the thread blocked on the box
  ret           \* [Thread -> Message or NoMsg]: what the last receive returned

mailboxVars == <<box, waiting, ret>>

Init ==
  /\ box = [m \in MsgBox |-> <<>>]
  /\ waiting = [m \in MsgBox |-> NULL]
  /\ ret = [t \in Thread |-> NoMsg]

\* R is ret, after a caller that enters the kernel has dropped its old answer.
Dropped(R) == R = ret \/ \E t \in Thread : R = [ret EXCEPT ![t] = NoMsg]

\* A thread makes some other call.
Forget ==
  /\ \E t \in Thread : ret' = [ret EXCEPT ![t] = NoMsg]
  /\ UNCHANGED <<box, waiting>>

\* A message to a box nobody waits on is kept, behind the older ones.
Deposit(m, msg) ==
  /\ waiting[m] = NULL
  /\ box' = [box EXCEPT ![m] = Append(@, msg)]
  /\ Dropped(ret')
  /\ UNCHANGED waiting

\* A message to a box somebody waits on is that thread's.
HandOver(m, msg) ==
  /\ waiting[m] # NULL
  /\ \E R \in [Thread -> Message \cup {NoMsg}] :
       /\ Dropped(R)
       /\ ret' = [R EXCEPT ![waiting[m]] = msg]
  /\ waiting' = [waiting EXCEPT ![m] = NULL]
  /\ UNCHANGED box

\* A thread takes the oldest message of a box.
Take(m, t) ==
  /\ waiting[m] = NULL
  /\ box[m] # <<>>
  /\ ret' = [ret EXCEPT ![t] = Head(box[m])]
  /\ box' = [box EXCEPT ![m] = Tail(@)]
  /\ UNCHANGED waiting

\* A thread that is waiting nowhere waits on an empty box.
Block(m, t) ==
  /\ waiting[m] = NULL
  /\ box[m] = <<>>
  /\ \A n \in MsgBox : waiting[n] # t
  /\ waiting' = [waiting EXCEPT ![m] = t]
  /\ ret' = [ret EXCEPT ![t] = NoMsg]
  /\ UNCHANGED box

Next ==
  \/ Forget
  \/ \E m \in MsgBox, msg \in Message : Deposit(m, msg) \/ HandOver(m, msg)
  \/ \E m \in MsgBox, t \in Thread : Take(m, t) \/ Block(m, t)

Spec == Init /\ [][Next]_mailboxVars
=============================================================================
