-------------------------------- MODULE KzMem --------------------------------
(***************************************************************************)
(* The memory allocator of mykozos/os/memory.c: pools of equal blocks,     *)
(* each with a linked list of its free blocks.                             *)
(*                                                                         *)
(* It runs inside system calls and service calls only, with interrupts     *)
(* masked, so a call is one step.                                          *)
(***************************************************************************)
EXTENDS Integers, Sequences, FiniteSets

CONSTANTS
  POOL_NUM,   \* MEMORY_AREA_NUM
  SIZE,       \* pool[i].size, header included
  NUM,        \* pool[i].num
  HEADER,     \* sizeof(kzmem_block)
  Request     \* sizes callers ask for

Pool == 1..POOL_NUM

\* The pools are defined in order of size, no two alike (memory.c:24).
ASSUME KzMemAssumption ==
  /\ POOL_NUM \in Nat
  /\ SIZE \in [Pool -> Nat]
  /\ NUM \in [Pool -> Nat]
  /\ HEADER \in Nat
  /\ Request \subseteq Nat
  /\ \A i, j \in Pool : i < j => SIZE[i] < SIZE[j]

\* The k-th block kzmem_init_pool() cuts for pool i.  Its header holds SIZE[i].
Block == UNION {{i} \X (1..NUM[i]) : i \in Pool}
header(b) == SIZE[b[1]]

Unused == -1

VARIABLES
  free,    \* pool[i].free: the linked list, first block first
  asked,   \* what the holder of a block asked for; Unused when nobody holds it
  down     \* kz_sysdown() was reached

vars == <<free, asked, down>>

\* kzmem_init(), kzmem_init_pool(): every block is linked, in order of address.
Init ==
  /\ free = [i \in Pool |-> [k \in 1..NUM[i] |-> <<i, k>>]]
  /\ asked = [b \in Block |-> Unused]
  /\ down = FALSE

sysdown == down' = TRUE /\ UNCHANGED <<free, asked>>

Fitting_bug(size) == {i \in Pool : size <= SIZE[i]}   \* forgets the header
Fitting(size) == {i \in Pool : size <= SIZE[i] - HEADER}

kzmem_alloc_bug(size) ==   \* leaves the block in the free list
  /\ ~down
  /\ \E i \in Fitting(size) :
       /\ \A j \in Fitting(size) : i <= j
       /\ free[i] # <<>>
       /\ asked' = [asked EXCEPT ![Head(free[i])] = size]
       /\ UNCHANGED <<free, down>>

\* The first pool whose blocks are large enough, and no other, serves.
kzmem_alloc(size) ==
  /\ ~down
  /\ \/ Fitting(size) = {} /\ sysdown
     \/ \E i \in Fitting(size) :
          /\ \A j \in Fitting(size) : i <= j
          /\ \/ free[i] = <<>> /\ sysdown
             \/ /\ free[i] # <<>>
                /\ asked' = [asked EXCEPT ![Head(free[i])] = size]
                /\ free' = [free EXCEPT ![i] = Tail(@)]
                /\ UNCHANGED down

kzmem_free_bug(b) ==   \* takes the first pool that is large enough
  /\ ~down
  /\ asked[b] # Unused
  /\ \E i \in Pool :
       /\ asked[b] <= SIZE[i]
       /\ \A j \in Pool : asked[b] <= SIZE[j] => i <= j
       /\ free' = [free EXCEPT ![i] = <<b>> \o @]
       /\ asked' = [asked EXCEPT ![b] = Unused]
       /\ UNCHANGED down

\* Callers give back what they hold, once (kzmem_free() cannot tell).  Every
\* header names a pool, so the kz_sysdown() of memory.c:116 is not reached.
kzmem_free(b) ==
  /\ ~down
  /\ asked[b] # Unused
  /\ \E i \in Pool :
       /\ SIZE[i] = header(b)
       /\ free' = [free EXCEPT ![i] = <<b>> \o @]
       /\ asked' = [asked EXCEPT ![b] = Unused]
       /\ UNCHANGED down

Next ==
  \/ \E size \in Request : kzmem_alloc(size)
  \/ \E b \in Block : kzmem_free(b)

Spec == Init /\ [][Next]_vars
-----------------------------------------------------------------------------
(* Properties.                                                             *)

TypeOK ==
  /\ free \in [Pool -> Seq(Block)]
  /\ asked \in [Block -> Request \cup {Unused}]
  /\ down \in BOOLEAN

\* A block is free or somebody's, never both and never neither: each block
\* nobody holds is in its own pool's list once, and a held one in none.
Partition ==
  /\ \A i \in Pool : \A k \in 1..Len(free[i]) :
       free[i][k][1] = i /\ asked[free[i][k]] = Unused
  /\ \A i \in Pool : \A k, l \in 1..Len(free[i]) : free[i][k] = free[i][l] => k = l
  /\ \A b \in Block : asked[b] = Unused => \E k \in 1..Len(free[b[1]]) : free[b[1]][k] = b

\* Behind its header a held block has room for what was asked for.
LargeEnough == \A b \in Block : asked[b] # Unused => asked[b] + HEADER <= header(b)

\* Every size class is a counted pool of KzPool.tla, whatever the others do:
\* its blocks run out when all of them are held and never before.
Held(i) == {b \in Block : b[1] = i /\ asked[b] # Unused}
Counted == INSTANCE KzPool WITH N <- NUM,
                                free <- [i \in Pool |-> Len(free[i])],
                                used <- [i \in Pool |-> Cardinality(Held(i))]
PoolsCounted == Counted!Spec
=============================================================================
