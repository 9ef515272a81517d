------------------------------- MODULE KzPool -------------------------------
(***************************************************************************)
(* Pools of equal memory blocks, only counted: what the users of the       *)
(* kernel's memory rely on.  KzMem.tla implements it; Kozos.tla counts the *)
(* pool its message buffers come from in the same way.                     *)
(***************************************************************************)
EXTENDS Naturals

CONSTANTS
  Pool,   \* size classes
  N       \* [Pool -> Nat]: blocks of each

VARIABLES
  free,   \* [Pool -> Nat]: blocks nobody holds
  used    \* [Pool -> Nat]: blocks in use

Init ==
  /\ free = N
  /\ used = [i \in Pool |-> 0]

Get(i) ==
  /\ free[i] > 0
  /\ free' = [free EXCEPT ![i] = @ - 1]
  /\ used' = [used EXCEPT ![i] = @ + 1]

Put(i) ==
  /\ used[i] > 0
  /\ free' = [free EXCEPT ![i] = @ + 1]
  /\ used' = [used EXCEPT ![i] = @ - 1]

Next == \E i \in Pool : Get(i) \/ Put(i)

Spec == Init /\ [][Next]_<<free, used>>
=============================================================================
