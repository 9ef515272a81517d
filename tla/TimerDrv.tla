------------------------------- MODULE TimerDrv -------------------------------
(***************************************************************************)
(* The timer driver of mykozos/os/timerdrv.c over the one hardware timer   *)
(* of timer.c: a thread that keeps a list of timers, each with the time    *)
(* left after the one before it, and an interrupt handler that tells the   *)
(* thread when the hardware timer expires.                                 *)
(*                                                                         *)
(* The handler may run between any two steps of the thread.  What the      *)
(* thread does to its own list is not visible to the handler, so a step of *)
(* the thread ends where it next touches the hardware timer.               *)
(***************************************************************************)
EXTENDS Integers, Sequences

CONSTANTS
  Req,     \* requests, each made once
  EXPIRE,  \* TIMERDRV_CMD_EXPIRE
  MSEC     \* longest interval asked for, in ticks of the counter's upper half
           \* (105 ms): what timer_start() rounds off is left out

ASSUME TimerAssumption == EXPIRE \notin Req /\ MSEC \in Nat

VARIABLES
  timers,  \* timerreg.timers: [req, msec], msec counted from the one before
  box,     \* MSGBOX_ID_TIMDRIVE: expired, or a request
  pc,      \* where the driver's thread is: "recv", "insert", "rearm"
  new,     \* the timer being inserted
  t,       \* what timer_gettime() returned
  tmr,     \* the hardware: running (CMIEA), tcnt, tcora
  togo,    \* of every request: ticks until it is due; -1 before it is made
  answers, \* of every request: messages sent for it
  raced    \* an interrupt came while the driver was busy with a message

vars == <<timers, box, pc, new, t, tmr, togo, answers, raced>>

expired == [req |-> EXPIRE, msec |-> 0]
Timer == [req : Req, msec : 0..MSEC]

Init ==
  /\ timers = <<>>
  /\ box = <<>>
  /\ pc = "recv"
  /\ new = expired
  /\ t = 0
  /\ tmr = [running |-> FALSE, tcnt |-> 0, tcora |-> 0]
  /\ togo = [r \in Req |-> -1]
  /\ answers = [r \in Req |-> 0]
  /\ raced = FALSE

\* timer_start(): the counter starts over, and the old match flag is cleared.
timer_start(msec) == tmr' = [running |-> TRUE, tcnt |-> 0, tcora |-> msec]

timer_gettime_bug == IF tmr.running THEN tmr.tcnt + 1 ELSE -1   \* rounds up
timer_gettime == IF tmr.running THEN tmr.tcnt ELSE -1

timer_is_expired == tmr.running /\ tmr.tcnt >= tmr.tcora

-----------------------------------------------------------------------------
\* The handler, when the hardware asks for it.
timerdrv_intr ==
  /\ timer_is_expired
  /\ tmr' = [tmr EXCEPT !.running = FALSE]
  /\ box' = Append(box, expired)
  /\ raced' = (raced \/ pc # "recv" \/ box # <<>>)
  /\ UNCHANGED <<timers, pc, new, t, togo, answers>>

\* Time passes.  What the counter reads beyond a match makes no difference.
Tick ==
  /\ tmr' = IF tmr.running /\ tmr.tcnt < tmr.tcora
            THEN [tmr EXCEPT !.tcnt = @ + 1] ELSE tmr
  /\ togo' = [r \in Req |-> IF togo[r] > 0 THEN togo[r] - 1 ELSE togo[r]]
  /\ UNCHANGED <<timers, box, pc, new, t, answers, raced>>

\* A client's request.  Clients have lower priorities than the driver
\* (main.c:11-14), so they run while it waits for a message.
send_start(r, msec) ==
  /\ pc = "recv" /\ box = <<>>
  /\ togo[r] = -1
  /\ togo' = [togo EXCEPT ![r] = msec]
  /\ box' = Append(box, [req |-> r, msec |-> msec])
  /\ UNCHANGED <<timers, pc, new, t, tmr, answers, raced>>

-----------------------------------------------------------------------------
(* The thread: timerdrv_command() for one message after the other.         *)

kz_recv == pc = "recv" /\ box # <<>> /\ box' = Tail(box)

expire_bug ==   \* does not unlink the timer
  /\ kz_recv /\ Head(box) = expired
  /\ IF timers = <<>> THEN UNCHANGED <<answers, pc>>
     ELSE /\ answers' = [answers EXCEPT ![Head(timers).req] = @ + 1]
          /\ pc' = "rearm"
  /\ UNCHANGED <<timers, new, t, tmr, togo, raced>>

\* TIMERDRV_CMD_EXPIRE: the first timer's client is told, whichever it is.
expire ==
  /\ kz_recv /\ Head(box) = expired
  /\ IF timers = <<>> THEN UNCHANGED <<timers, answers, pc>>
     ELSE /\ answers' = [answers EXCEPT ![Head(timers).req] = @ + 1]
          /\ timers' = Tail(timers)
          /\ pc' = "rearm"
  /\ UNCHANGED <<new, t, tmr, togo, raced>>

rearm_bug ==   \* does not go on with the next timer
  /\ pc = "rearm"
  /\ pc' = "recv"
  /\ UNCHANGED <<timers, box, new, t, tmr, togo, answers, raced>>

rearm ==
  /\ pc = "rearm"
  /\ pc' = "recv"
  /\ IF timers = <<>> THEN UNCHANGED tmr ELSE timer_start(Head(timers).msec)
  /\ UNCHANGED <<timers, box, new, t, togo, answers, raced>>

\* TIMERDRV_CMD_START, up to the reading of the hardware timer.
start ==
  /\ kz_recv /\ Head(box) # expired
  /\ new' = Head(box)
  /\ t' = IF timers = <<>> THEN 0 ELSE timer_gettime
  /\ pc' = "insert"
  /\ UNCHANGED <<timers, tmr, togo, answers, raced>>

\* The walk along the list: what each timer still has to wait after the one
\* before it, and what is left of the new one's interval at each place.
Wait(k) == IF k > 1 THEN timers[k].msec
           ELSE IF timers[1].msec > t THEN timers[1].msec - t ELSE 0
Left == [k \in 1..(Len(timers) + 1) |->
           LET before[j \in 1..k] == IF j = 1 THEN new.msec ELSE before[j - 1] - Wait(j - 1)
           IN before[k]]

\* The rest of TIMERDRV_CMD_START: the new timer goes in front of the first
\* that has longer to wait, or to the end.
insert ==
  /\ pc = "insert"
  /\ LET n == Len(timers)
         longer == {k \in 1..n : Left[k] < Wait(k)}
         entry(k) == [new EXCEPT !.msec = Left[k]]
     IN \/ /\ longer = {}
           /\ timers' = Append(timers, entry(n + 1))
           /\ IF timers = <<>> THEN timer_start(new.msec) ELSE UNCHANGED tmr
        \/ \E k \in longer :
             /\ \A j \in longer : k <= j
             /\ timers' = SubSeq(timers, 1, k - 1)
                            \o <<entry(k), [timers[k] EXCEPT !.msec = Wait(k) - Left[k]]>>
                            \o SubSeq(timers, k + 1, n)
             /\ timer_start(timers'[1].msec)
  /\ pc' = "recv"
  /\ new' = expired
  /\ t' = 0
  /\ UNCHANGED <<box, togo, answers, raced>>

driver == expire \/ rearm \/ start \/ insert

Next ==
  \/ timerdrv_intr
  \/ Tick
  \/ \E r \in Req, msec \in 1..MSEC : send_start(r, msec)
  \/ driver

\* Time passes, interrupts are served, and the driver gets the processor:
\* only the console driver has a higher priority.
Spec == Init /\ [][Next]_vars
Fairness == WF_vars(Tick) /\ WF_vars(timerdrv_intr) /\ WF_vars(driver)
FairSpec == Spec /\ Fairness
-----------------------------------------------------------------------------
(* Properties.                                                             *)

\* No timer is forgotten: while timers are in the list and the driver waits
\* for a message, the hardware timer runs or its expiry is on its way.
Armed == timers # <<>> /\ pc = "recv" =>
           tmr.running \/ \E k \in 1..Len(box) : box[k] = expired

\* A request is answered at most once, and until then it is in one place: in the
\* message box, being inserted, or in the list.
InOnePlace == \A r \in Req :
  LET places == {k \in 1..Len(box) : box[k].req = r}
                  \cup {-k : k \in {j \in 1..Len(timers) : timers[j].req = r}}
                  \cup (IF pc = "insert" /\ new.req = r THEN {0} ELSE {})
  IN /\ answers[r] <= 1
     /\ IF togo[r] = -1 \/ answers[r] = 1 THEN places = {} ELSE \E p \in places : places = {p}

\* timerdrv.h:9 and timerdrv.c:11: a request names the box to send to when
\* the timer expires.  No client is told before its time has passed.
NotEarly == \A r \in Req : answers[r] > 0 => togo[r] = 0

\* The arithmetic of the list is right: a client is told too early only
\* after an interrupt came while the driver was busy (see NotEarly).
EarlyByRaceOnly == raced \/ NotEarly

\* Every request is answered in the end.
Answered == \A r \in Req : togo[r] # -1 ~> answers[r] > 0
=============================================================================
