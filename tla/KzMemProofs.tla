----------------------------- MODULE KzMemProofs -----------------------------
(***************************************************************************)
(* Proofs about KzMem.tla, for every table of pools.                       *)
(***************************************************************************)
EXTENDS KzMem, FiniteSetTheorems, SequenceTheorems, TLAPS

IInv == TypeOK /\ Partition /\ LargeEnough

\* The size in a header names one pool.
LEMMA SizeNamesPool ==
  ASSUME NEW i \in Pool, NEW j \in Pool, SIZE[i] = SIZE[j]
  PROVE  i = j
<1>1. i \in Int /\ j \in Int /\ SIZE[i] \in Nat /\ SIZE[j] \in Nat
  BY KzMemAssumption DEF Pool
<1>2. ~(i < j) /\ ~(j < i)
  BY <1>1, KzMemAssumption
<1> QED BY <1>1, <1>2

LEMMA BlockPool == \A b \in Block : b[1] \in Pool /\ b[2] \in 1..NUM[b[1]] /\ b = <<b[1], b[2]>>
BY DEF Block

LEMMA UnusedIsNoRequest == Unused \notin Request /\ \A size \in Request : size \in Nat
BY KzMemAssumption DEF Unused

-----------------------------------------------------------------------------
(* kzmem_alloc() and kzmem_free() without the steps to kz_sysdown().       *)

Alloc(i, size) ==
  /\ i \in Fitting(size) /\ free[i] # <<>>
  /\ asked' = [asked EXCEPT ![Head(free[i])] = size]
  /\ free' = [free EXCEPT ![i] = Tail(@)]
  /\ UNCHANGED down

Free(b) ==
  /\ asked[b] # Unused
  /\ free' = [free EXCEPT ![b[1]] = <<b>> \o @]
  /\ asked' = [asked EXCEPT ![b] = Unused]
  /\ UNCHANGED down

LEMMA NextCases ==
  ASSUME [Next]_vars
  PROVE  \/ UNCHANGED <<free, asked>> /\ (down' = TRUE \/ UNCHANGED down)
         \/ \E size \in Request, i \in Pool : Alloc(i, size)
         \/ \E b \in Block : Free(b)
<1>1. CASE \E size \in Request : kzmem_alloc(size)
  BY <1>1 DEF kzmem_alloc, sysdown, Alloc, Fitting
<1>2. CASE \E b \in Block : kzmem_free(b)
  <2>1. PICK b \in Block : kzmem_free(b)
    BY <1>2
  <2>2. PICK i \in Pool : /\ SIZE[i] = header(b)
                          /\ free' = [free EXCEPT ![i] = <<b>> \o @]
    BY <2>1 DEF kzmem_free
  <2>3. i = b[1]
    BY <2>2, SizeNamesPool, BlockPool DEF header
  <2> QED BY <2>1, <2>2, <2>3 DEF kzmem_free, Free
<1>3. CASE UNCHANGED vars
  BY <1>3 DEF vars
<1> QED BY <1>1, <1>2, <1>3 DEF Next

\* The head of a free list is a block of that pool nobody holds, and the
\* list without it is as long as it should be.
LEMMA HeadIsUnused ==
  ASSUME IInv, NEW i \in Pool, free[i] # <<>>
  PROVE  /\ free[i] \in Seq(Block) /\ Tail(free[i]) \in Seq(Block)
         /\ Head(free[i]) \in Block /\ Head(free[i]) = free[i][1]
         /\ Head(free[i])[1] = i /\ asked[Head(free[i])] = Unused
         /\ Len(free[i]) \in Nat \ {0}
         /\ Len(Tail(free[i])) = Len(free[i]) - 1
         /\ \A k \in 1..Len(Tail(free[i])) : Tail(free[i])[k] = free[i][k + 1]
<1>1. free[i] \in Seq(Block)
  BY DEF IInv, TypeOK
<1>2. /\ Tail(free[i]) \in Seq(Block) /\ Len(Tail(free[i])) = Len(free[i]) - 1
      /\ Head(free[i]) \in Block /\ Head(free[i]) = free[i][1]
      /\ \A k \in 1..Len(Tail(free[i])) : Tail(free[i])[k] = free[i][k + 1]
      /\ Len(free[i]) \in Nat \ {0}
  BY <1>1, HeadTailProperties, LenProperties, EmptySeq
<1>3. 1 \in 1..Len(free[i])
  BY <1>2
<1>4. Head(free[i])[1] = i /\ asked[Head(free[i])] = Unused
  BY <1>2, <1>3 DEF IInv, Partition
<1> QED BY <1>1, <1>2, <1>4

LEMMA StepAlloc ==
  ASSUME IInv, NEW i \in Pool, NEW size \in Request, Alloc(i, size)
  PROVE  IInv'
<1> DEFINE h == Head(free[i])
           s == Tail(free[i])
<1>1. /\ free[i] # <<>> /\ i \in Fitting(size)
      /\ asked' = [asked EXCEPT ![h] = size]
      /\ free' = [free EXCEPT ![i] = s]
      /\ UNCHANGED down
  BY DEF Alloc
<1>2. /\ free[i] \in Seq(Block) /\ s \in Seq(Block)
      /\ h \in Block /\ h = free[i][1] /\ h[1] = i /\ asked[h] = Unused
      /\ Len(free[i]) \in Nat \ {0} /\ Len(s) = Len(free[i]) - 1
      /\ \A k \in 1..Len(s) : s[k] = free[i][k + 1]
  BY <1>1, HeadIsUnused
<1> HIDE DEF h, s
<1>3. /\ free \in [Pool -> Seq(Block)] /\ asked \in [Block -> Request \cup {Unused}]
      /\ down \in BOOLEAN
  BY DEF IInv, TypeOK
<1>4. TypeOK'
  BY <1>1, <1>2, <1>3 DEF TypeOK
<1>5. /\ \A b \in Block : asked'[b] = IF b = h THEN size ELSE asked[b]
      /\ \A j \in Pool : free'[j] = IF j = i THEN s ELSE free[j]
  BY <1>1, <1>2, <1>3
<1>6. \A k, l \in 1..Len(free[i]) : free[i][k] = free[i][l] => k = l
  BY DEF IInv, Partition
<1>7. ASSUME NEW j \in Pool, NEW k \in 1..Len(free'[j])
      PROVE  free'[j][k][1] = j /\ asked'[free'[j][k]] = Unused
  <2>1. CASE j = i
    <3>1. k + 1 \in 1..Len(free[i]) /\ free'[j][k] = free[i][k + 1] /\ 1 \in 1..Len(free[i]) /\ k \in Nat \ {0}
      BY <1>2, <1>5, <1>7, <2>1
    <3>2. free[i][k + 1] # h
      <4>1. k + 1 # 1
        BY <3>1
      <4> QED BY <1>2, <1>6, <3>1, <4>1
    <3>3. free[i][k + 1] \in Block
      BY <1>2, <3>1, ElementOfSeq
    <3>4. free[i][k + 1][1] = i /\ asked[free[i][k + 1]] = Unused
      BY <3>1 DEF IInv, Partition
    <3> QED BY <2>1, <3>1, <3>2, <3>3, <3>4, <1>5
  <2>2. CASE j # i
    <3>1. free'[j] = free[j] /\ k \in 1..Len(free[j])
      BY <1>5, <1>7, <2>2
    <3>2. free[j][k] \in Block
      BY <1>3, <3>1, ElementOfSeq
    <3>3. free[j][k][1] = j /\ asked[free[j][k]] = Unused
      BY <3>1 DEF IInv, Partition
    <3> QED BY <1>2, <1>5, <2>2, <3>1, <3>2, <3>3
  <2> QED BY <2>1, <2>2
<1>8. ASSUME NEW j \in Pool, NEW k \in 1..Len(free'[j]), NEW l \in 1..Len(free'[j]),
             free'[j][k] = free'[j][l]
      PROVE  k = l
  <2>1. CASE j = i
    <3>1. /\ k + 1 \in 1..Len(free[i]) /\ l + 1 \in 1..Len(free[i])
          /\ free[i][k + 1] = free[i][l + 1]
      BY <1>2, <1>5, <1>8, <2>1
    <3>2. k + 1 = l + 1
      BY <1>6, <3>1
    <3> QED BY <3>2
  <2>2. CASE j # i
    BY <1>5, <1>8, <2>2 DEF IInv, Partition
  <2> QED BY <2>1, <2>2
<1>9. ASSUME NEW b \in Block, asked'[b] = Unused
      PROVE  \E k \in 1..Len(free'[b[1]]) : free'[b[1]][k] = b
  <2>1. b # h /\ asked[b] = Unused /\ b[1] \in Pool
    BY <1>5, <1>9, UnusedIsNoRequest, BlockPool
  <2>2. PICK k \in 1..Len(free[b[1]]) : free[b[1]][k] = b
    BY <2>1 DEF IInv, Partition
  <2>3. CASE b[1] = i
    <3>1. k # 1
      BY <1>2, <2>1, <2>2, <2>3
    <3>2. k - 1 \in 1..Len(s) /\ s[k - 1] = b
      BY <1>2, <2>2, <2>3, <3>1
    <3> QED BY <1>5, <2>1, <2>3, <3>2
  <2>4. CASE b[1] # i
    BY <1>5, <2>1, <2>2, <2>4
  <2> QED BY <2>3, <2>4
<1>10. Partition'
  BY <1>7, <1>8, <1>9 DEF Partition
<1>11. LargeEnough'
  <2> SUFFICES ASSUME NEW b \in Block, asked'[b] # Unused PROVE asked'[b] + HEADER <= header(b)
    BY DEF LargeEnough
  <2>1. CASE b = h
    <3>1. size <= SIZE[i] - HEADER
      BY <1>1 DEF Fitting
    <3>2. size \in Nat /\ SIZE[i] \in Nat /\ HEADER \in Nat
      BY KzMemAssumption
    <3> QED BY <1>2, <1>5, <2>1, <3>1, <3>2 DEF header
  <2>2. CASE b # h
    BY <1>5, <2>2 DEF IInv, LargeEnough
  <2> QED BY <2>1, <2>2
<1> QED BY <1>4, <1>10, <1>11 DEF IInv

LEMMA StepFree ==
  ASSUME IInv, NEW b \in Block, Free(b)
  PROVE  IInv'
<1> DEFINE i == b[1]
           s == <<b>> \o free[i]
<1>1. /\ asked[b] # Unused
      /\ free' = [free EXCEPT ![i] = s]
      /\ asked' = [asked EXCEPT ![b] = Unused]
      /\ UNCHANGED down
  BY DEF Free
<1>2. /\ free \in [Pool -> Seq(Block)] /\ asked \in [Block -> Request \cup {Unused}]
      /\ down \in BOOLEAN /\ i \in Pool
  BY BlockPool DEF IInv, TypeOK
<1>3. /\ s \in Seq(Block) /\ Len(s) = Len(free[i]) + 1 /\ s[1] = b
      /\ \A k \in 1..Len(free[i]) : s[k + 1] = free[i][k]
      /\ Len(free[i]) \in Nat
  <2>1. <<b>> \in Seq(Block) /\ free[i] \in Seq(Block) /\ Len(<<b>>) = 1 /\ <<b>>[1] = b
    BY <1>2
  <2>2. /\ s \in Seq(Block) /\ Len(s) = Len(<<b>>) + Len(free[i])
        /\ \A k \in 1..(Len(<<b>>) + Len(free[i])) :
             s[k] = IF k <= Len(<<b>>) THEN <<b>>[k] ELSE free[i][k - Len(<<b>>)]
    BY <2>1, ConcatProperties
  <2>3. Len(free[i]) \in Nat
    BY <2>1, LenProperties
  <2> QED BY <2>1, <2>2, <2>3
<1> HIDE DEF s
<1>4. TypeOK'
  BY <1>1, <1>2, <1>3 DEF TypeOK
<1>5. /\ \A c \in Block : asked'[c] = IF c = b THEN Unused ELSE asked[c]
      /\ \A j \in Pool : free'[j] = IF j = i THEN s ELSE free[j]
  BY <1>1, <1>2
<1>6. \A j \in Pool : \A k \in 1..Len(free[j]) : free[j][k] \in Block /\ free[j][k] # b
  <2> SUFFICES ASSUME NEW j \in Pool, NEW k \in 1..Len(free[j])
               PROVE  free[j][k] \in Block /\ free[j][k] # b
    OBVIOUS
  <2>1. free[j][k] \in Block
    BY <1>2, ElementOfSeq
  <2>2. asked[free[j][k]] = Unused
    BY DEF IInv, Partition
  <2> QED BY <1>1, <2>1, <2>2
<1>7. ASSUME NEW j \in Pool, NEW k \in 1..Len(free'[j])
      PROVE  free'[j][k][1] = j /\ asked'[free'[j][k]] = Unused
  <2>1. CASE j = i /\ k = 1
    BY <1>3, <1>5, <2>1
  <2>2. CASE j = i /\ k # 1
    <3>1. k - 1 \in 1..Len(free[i]) /\ free'[j][k] = free[i][k - 1]
      <4>1. k - 1 \in 1..Len(free[i]) /\ (k - 1) + 1 = k
        BY <1>3, <1>5, <1>7, <2>2
      <4> QED BY <4>1, <1>3, <1>5, <2>2
    <3>2. free[i][k - 1][1] = i /\ asked[free[i][k - 1]] = Unused
      BY <1>2, <3>1 DEF IInv, Partition
    <3> QED BY <1>2, <1>5, <1>6, <2>2, <3>1, <3>2
  <2>3. CASE j # i
    <3>1. free'[j] = free[j] /\ k \in 1..Len(free[j])
      BY <1>5, <1>7, <2>3
    <3>2. free[j][k][1] = j /\ asked[free[j][k]] = Unused
      BY <3>1 DEF IInv, Partition
    <3> QED BY <1>5, <1>6, <3>1, <3>2
  <2> QED BY <2>1, <2>2, <2>3
<1>8. ASSUME NEW j \in Pool, NEW k \in 1..Len(free'[j]), NEW l \in 1..Len(free'[j]),
             free'[j][k] = free'[j][l]
      PROVE  k = l
  <2>1. CASE j = i
    <3>1. \A n \in 1..Len(s) : n # 1 => n - 1 \in 1..Len(free[i]) /\ s[n] = free[i][n - 1]
      <4> SUFFICES ASSUME NEW n \in 1..Len(s), n # 1
                   PROVE  n - 1 \in 1..Len(free[i]) /\ s[n] = free[i][n - 1]
        OBVIOUS
      <4>1. n - 1 \in 1..Len(free[i]) /\ (n - 1) + 1 = n
        BY <1>3
      <4> QED BY <1>3, <4>1
    <3>2. k \in 1..Len(s) /\ l \in 1..Len(s) /\ s[k] = s[l]
      BY <1>5, <1>8, <2>1
    <3>3. CASE k = 1 \/ l = 1
      <4>1. \A n \in 1..Len(s) : s[n] = b => n = 1
        BY <1>2, <1>6, <3>1
      <4>2. s[k] = b /\ s[l] = b
        BY <1>3, <3>2, <3>3
      <4> QED BY <3>2, <4>1, <4>2
    <3>4. CASE k # 1 /\ l # 1
      <4>1. free[i][k - 1] = free[i][l - 1] /\ k - 1 \in 1..Len(free[i]) /\ l - 1 \in 1..Len(free[i])
        BY <3>1, <3>2, <3>4
      <4>2. k - 1 = l - 1
        BY <1>2, <4>1 DEF IInv, Partition
      <4> QED BY <3>2, <4>2
    <3> QED BY <3>3, <3>4
  <2>2. CASE j # i
    BY <1>5, <1>8, <2>2 DEF IInv, Partition
  <2> QED BY <2>1, <2>2
<1>9. ASSUME NEW c \in Block, asked'[c] = Unused
      PROVE  \E k \in 1..Len(free'[c[1]]) : free'[c[1]][k] = c
  <2>1. CASE c = b
    <3>1. 1 \in 1..Len(s)
      BY <1>3
    <3> QED BY <1>2, <1>3, <1>5, <2>1, <3>1
  <2>2. CASE c # b
    <3>1. asked[c] = Unused /\ c[1] \in Pool
      BY <1>5, <1>9, <2>2, BlockPool
    <3>2. PICK k \in 1..Len(free[c[1]]) : free[c[1]][k] = c
      BY <3>1 DEF IInv, Partition
    <3>3. CASE c[1] = i
      <4>1. k + 1 \in 1..Len(s) /\ s[k + 1] = c
        BY <1>3, <3>2, <3>3
      <4> QED BY <1>5, <3>1, <3>3, <4>1
    <3>4. CASE c[1] # i
      BY <1>5, <3>1, <3>2, <3>4
    <3> QED BY <3>3, <3>4
  <2> QED BY <2>1, <2>2
<1>10. Partition'
  BY <1>7, <1>8, <1>9 DEF Partition
<1>11. LargeEnough'
  BY <1>5 DEF IInv, LargeEnough
<1> QED BY <1>4, <1>10, <1>11 DEF IInv

LEMMA StepNext == IInv /\ [Next]_vars => IInv'
<1> SUFFICES ASSUME IInv, [Next]_vars PROVE IInv'
  OBVIOUS
<1>1. CASE UNCHANGED <<free, asked>> /\ (down' = TRUE \/ UNCHANGED down)
  <2>1. free' = free /\ asked' = asked /\ (down' \in BOOLEAN)
    BY <1>1 DEF IInv, TypeOK
  <2>2. TypeOK'
    BY <2>1 DEF IInv, TypeOK
  <2>3. Partition'
    BY <2>1 DEF IInv, Partition
  <2>4. LargeEnough'
    BY <2>1 DEF IInv, LargeEnough
  <2> QED BY <2>2, <2>3, <2>4 DEF IInv
<1>2. CASE \E size \in Request, i \in Pool : Alloc(i, size)
  BY <1>2, StepAlloc
<1>3. CASE \E b \in Block : Free(b)
  BY <1>3, StepFree
<1> QED BY <1>1, <1>2, <1>3, NextCases

\* kzmem_init() links every block of every pool once.
LEMMA InitList ==
  ASSUME Init, NEW i \in Pool
  PROVE  /\ free[i] \in Seq(Block) /\ Len(free[i]) = NUM[i]
         /\ \A k \in 1..NUM[i] : free[i][k] = <<i, k>> /\ <<i, k>> \in Block
<1>1. free[i] = [k \in 1..NUM[i] |-> <<i, k>>] /\ NUM[i] \in Nat
  BY KzMemAssumption DEF Init
<1>2. \A k \in 1..NUM[i] : <<i, k>> \in Block
  BY DEF Block
<1> QED BY <1>1, <1>2

LEMMA InitInv == Init => IInv
<1> SUFFICES ASSUME Init PROVE IInv
  OBVIOUS
<1>1. free \in [Pool -> Seq(Block)]
  <2>1. \A i \in Pool : free[i] \in Seq(Block)
    BY InitList
  <2>2. free = [i \in Pool |-> free[i]]
    BY DEF Init
  <2> QED BY <2>1, <2>2
<1>2. TypeOK
  BY <1>1 DEF Init, TypeOK
<1>3. \A b \in Block : asked[b] = Unused
  BY DEF Init
<1>4. ASSUME NEW i \in Pool, NEW k \in 1..Len(free[i])
      PROVE  free[i][k][1] = i /\ asked[free[i][k]] = Unused
  <2>1. free[i][k] = <<i, k>> /\ <<i, k>> \in Block
    BY InitList
  <2> QED BY <1>3, <2>1
<1>5. ASSUME NEW i \in Pool, NEW k \in 1..Len(free[i]), NEW l \in 1..Len(free[i]),
             free[i][k] = free[i][l]
      PROVE  k = l
  <2>1. free[i][k] = <<i, k>> /\ free[i][l] = <<i, l>>
    BY InitList
  <2>2. <<i, k>> = <<i, l>>
    BY <1>5, <2>1
  <2> QED BY <2>2
<1>6. ASSUME NEW b \in Block
      PROVE  \E k \in 1..Len(free[b[1]]) : free[b[1]][k] = b
  <2>1. b[1] \in Pool /\ b[2] \in 1..NUM[b[1]] /\ b = <<b[1], b[2]>>
    BY BlockPool
  <2>2. Len(free[b[1]]) = NUM[b[1]] /\ free[b[1]][b[2]] = <<b[1], b[2]>>
    BY <2>1, InitList
  <2> QED BY <2>1, <2>2
<1>7. Partition /\ LargeEnough
  BY <1>3, <1>4, <1>5, <1>6 DEF Partition, LargeEnough
<1> QED BY <1>2, <1>7 DEF IInv

\* The free lists and the blocks in use divide the memory in every reachable
\* state, and the lists keep the order of their pools.
THEOREM Invariance == Spec => []IInv
BY InitInv, StepNext, PTL DEF Spec

\* No block is handed out twice, and none is lost.
THEOREM PartitionCorrect == Spec => []Partition
<1>1. IInv => Partition
  BY DEF IInv
<1> QED BY <1>1, Invariance, PTL

\* kzmem_alloc() never returns a block too small for what was asked for.
THEOREM LargeEnoughCorrect == Spec => []LargeEnough
<1>1. IInv => LargeEnough
  BY DEF IInv
<1> QED BY <1>1, Invariance, PTL

-----------------------------------------------------------------------------
(* The allocator implements the counted pools.                             *)

LEMMA HeldFinite ==
  ASSUME NEW i \in Pool
  PROVE  IsFiniteSet(Held(i)) /\ IsFiniteSet(Held(i)')
<1>1. IsFiniteSet({i} \X (1..NUM[i]))
  <2>1. NUM[i] \in Int /\ 1 \in Int
    BY KzMemAssumption
  <2>2. IsFiniteSet(1..NUM[i])
    BY <2>1, FS_Interval
  <2>3. IsFiniteSet({i})
    BY FS_Singleton
  <2> QED BY <2>2, <2>3, FS_Product
<1>2. Held(i) \subseteq {i} \X (1..NUM[i]) /\ Held(i)' \subseteq {i} \X (1..NUM[i])
  BY BlockPool DEF Held
<1> QED BY <1>1, <1>2, FS_Subset

LEMMA AllocIsGet ==
  ASSUME IInv, NEW i \in Pool, NEW size \in Request, Alloc(i, size)
  PROVE  Counted!Get(i)
<1> DEFINE h == Head(free[i])
           f == [j \in Pool |-> Len(free[j])]
           u == [j \in Pool |-> Cardinality(Held(j))]
<1>1. /\ free[i] # <<>>
      /\ asked' = [asked EXCEPT ![h] = size] /\ free' = [free EXCEPT ![i] = Tail(@)]
  BY DEF Alloc
<1>2. /\ h \in Block /\ h[1] = i /\ asked[h] = Unused
      /\ Len(free[i]) \in Nat \ {0} /\ Len(Tail(free[i])) = Len(free[i]) - 1
  BY <1>1, HeadIsUnused
<1> HIDE DEF h
<1>3. /\ \A b \in Block : asked'[b] = IF b = h THEN size ELSE asked[b]
      /\ \A j \in Pool : free'[j] = IF j = i THEN Tail(free[i]) ELSE free[j]
  BY <1>1, <1>2 DEF IInv, TypeOK
<1>4. Held(i)' = Held(i) \cup {h} /\ h \notin Held(i)
  BY <1>2, <1>3, UnusedIsNoRequest DEF Held
<1>5. Cardinality(Held(i)') = Cardinality(Held(i)) + 1
  BY <1>4, HeldFinite, FS_AddElement
<1>6. \A j \in Pool : j # i => Held(j)' = Held(j)
  BY <1>2, <1>3 DEF Held
<1>7. f' = [f EXCEPT ![i] = @ - 1]
  BY <1>2, <1>3
<1>8. u' = [u EXCEPT ![i] = @ + 1]
  BY <1>5, <1>6
<1> QED BY <1>2, <1>7, <1>8 DEF Counted!Get

LEMMA FreeIsPut ==
  ASSUME IInv, NEW b \in Block, Free(b)
  PROVE  Counted!Put(b[1])
<1> DEFINE i == b[1]
           f == [j \in Pool |-> Len(free[j])]
           u == [j \in Pool |-> Cardinality(Held(j))]
<1>1. /\ asked[b] # Unused /\ i \in Pool
      /\ free' = [free EXCEPT ![i] = <<b>> \o @]
      /\ asked' = [asked EXCEPT ![b] = Unused]
  BY BlockPool DEF Free
<1>2. /\ \A c \in Block : asked'[c] = IF c = b THEN Unused ELSE asked[c]
      /\ \A j \in Pool : free'[j] = IF j = i THEN <<b>> \o free[i] ELSE free[j]
      /\ free[i] \in Seq(Block)
  BY <1>1 DEF IInv, TypeOK
<1>3. Len(<<b>> \o free[i]) = Len(free[i]) + 1
  <2>1. <<b>> \in Seq(Block) /\ Len(<<b>>) = 1
    OBVIOUS
  <2>2. Len(<<b>> \o free[i]) = Len(<<b>>) + Len(free[i]) /\ Len(free[i]) \in Nat
    BY <1>2, <2>1, ConcatProperties, LenProperties
  <2> QED BY <2>1, <2>2
<1>4. Held(i)' = Held(i) \ {b} /\ b \in Held(i)
  BY <1>1, <1>2 DEF Held
<1>5. Cardinality(Held(i)') = Cardinality(Held(i)) - 1
  BY <1>1, <1>4, HeldFinite, FS_RemoveElement
<1>6. Cardinality(Held(i)) \in Nat /\ Cardinality(Held(i)) # 0
  BY <1>1, <1>4, HeldFinite, FS_CardinalityType, FS_EmptySet
<1>7. \A j \in Pool : j # i => Held(j)' = Held(j)
  BY <1>1, <1>2 DEF Held
<1>8. f' = [f EXCEPT ![i] = @ + 1]
  <2> DEFINE s == <<b>> \o free[i]
  <2>1. Len(s) = Len(free[i]) + 1 /\ \A j \in Pool : free'[j] = IF j = i THEN s ELSE free[j]
    BY <1>2, <1>3
  <2> HIDE DEF s
  <2> QED BY <1>1, <2>1
<1>9. u' = [u EXCEPT ![i] = @ - 1]
  BY <1>1, <1>5, <1>7
<1> QED BY <1>1, <1>6, <1>8, <1>9 DEF Counted!Put

\* Each size class is a counted pool, whatever the others do.
THEOREM PoolRefinement == Spec => PoolsCounted
<1>1. Init => Counted!Init
  <2> SUFFICES ASSUME Init PROVE Counted!Init
    OBVIOUS
  <2>1. [i \in Pool |-> Len(free[i])] = NUM
    BY InitList, KzMemAssumption
  <2>2. \A i \in Pool : Held(i) = {}
    BY DEF Held, Init
  <2>3. [i \in Pool |-> Cardinality(Held(i))] = [i \in Pool |-> 0]
    BY <2>2, FS_EmptySet
  <2> QED BY <2>1, <2>3 DEF Counted!Init
<1>2. IInv /\ [Next]_vars =>
        [Counted!Next]_<<[i \in Pool |-> Len(free[i])], [i \in Pool |-> Cardinality(Held(i))]>>
  <2> SUFFICES ASSUME IInv, [Next]_vars,
                      ~UNCHANGED <<[i \in Pool |-> Len(free[i])],
                                   [i \in Pool |-> Cardinality(Held(i))]>>
               PROVE  Counted!Next
    OBVIOUS
  <2>1. ~UNCHANGED <<free, asked>>
    BY DEF Held
  <2>2. CASE \E size \in Request, i \in Pool : Alloc(i, size)
    BY <2>2, AllocIsGet DEF Counted!Next
  <2>3. CASE \E b \in Block : Free(b)
    BY <2>3, FreeIsPut, BlockPool DEF Counted!Next
  <2> QED BY <2>1, <2>2, <2>3, NextCases
<1> QED BY <1>1, <1>2, Invariance, PTL DEF Spec, PoolsCounted, Counted!Spec

=============================================================================
