----------------------------- MODULE NetStackProofs -----------------------------
(***************************************************************************)
(* Proofs about NetStack.tla, for any number of buffers, any hosts, and    *)
(* any frames, pings and requests.                                         *)
(***************************************************************************)
EXTENDS NetStack, SequenceTheorems, FiniteSetTheorems, WellFoundedInduction, TLAPS

\* What the tasks put into packets, and what frames bring.
Cmd == {"", "MACADDR", "IPADDR", "REGPROTO", "PING", "RECV", "SEND"}
Mac == Host \cup {ZERO, ALL} \cup {f.mac : f \in Frame}
Type == {"", "arp", "ip"} \cup {f.type : f \in Frame}
Body == {"", "request", "reply", "echo", "echo_reply"} \cup {f.body : f \in Frame}
Packet == [cmd : Cmd, mac : Mac, type : Type, from : Host, to : Host, body : Body]

-----------------------------------------------------------------------------
(* The lists of the ARP task.                                              *)

\* The only NULL is the last entry.
Ended(list) == list # <<>> /\ \A k \in 1..Len(list) : list[k] = NULL <=> k = Len(list)
OneNull(list) == \E e \in 1..Len(list) : \A k \in 1..Len(list) : list[k] = NULL <=> k = e
Distinct(list) == \A k, l \in 1..Len(list) : list[k] = list[l] => k = l

LEMMA EndOf ==
  ASSUME NEW list, NEW e \in 1..Len(list), Len(list) \in Nat, list[e] = NULL,
         \A k \in 1..(e - 1) : list[k] # NULL
  PROVE  End(list) = e
<1> DEFINE P(k) == list[k] = NULL /\ \A j \in 1..(k - 1) : list[j] # NULL
<1>1. \A k \in 1..Len(list) : P(k) => k = e
  <2> SUFFICES ASSUME NEW k \in 1..Len(list), P(k) PROVE k = e
    OBVIOUS
  <2>1. ~(k < e)
    OBVIOUS
  <2>2. ~(e < k)
    OBVIOUS
  <2> QED BY <2>1, <2>2
<1>2. P(e)
  OBVIOUS
<1>3. End(list) = CHOOSE k \in 1..Len(list) : P(k)
  BY DEF End
<1> HIDE DEF P
<1> QED BY <1>1, <1>2, <1>3

LEMMA EndOfEnded ==
  ASSUME NEW S, NEW list \in Seq(S), Ended(list)
  PROVE  End(list) = Len(list) /\ Len(list) \in Nat \ {0}
<1>1. Len(list) \in Nat \ {0}
  BY EmptySeq, LenProperties DEF Ended
<1>2. list[Len(list)] = NULL /\ \A k \in 1..(Len(list) - 1) : list[k] # NULL
  BY <1>1 DEF Ended
<1> QED BY <1>1, <1>2, EndOf

LEMMA KnownInTable ==
  ASSUME NEW S, NEW list \in Seq(S), Ended(list), NEW h, h # NULL
  PROVE  Known(list, h) <=> \E k \in 1..Len(list) : list[k] = h
BY EndOfEnded DEF Known, Ended

\* A walk over a list that ends with its NULL changes nothing.
LEMMA WalkedEnded ==
  ASSUME NEW S, NEW list \in Seq(S), Ended(list), NULL \in S
  PROVE  Walked(list) = list
<1> DEFINE n == Len(list)
<1>1. End(list) = n /\ n \in Nat \ {0}
  BY EndOfEnded
<1>2. SubSeq(list, n + 1, n) = <<>>
  BY <1>1, SubSeqEmpty
<1>3. /\ SubSeq(list, 1, n - 1) \in Seq(S)
      /\ Len(SubSeq(list, 1, n - 1)) = n - 1
      /\ \A k \in 1..(n - 1) : SubSeq(list, 1, n - 1)[k] = list[k]
  <2>1. \A k \in 1..(n - 1) : list[k] \in S
    BY <1>1, ElementOfSeq
  <2> QED BY <1>1, <2>1, SubSeqProperties
<1>4. Walked(list) = SubSeq(list, 1, n - 1) \o <<NULL>>
  BY <1>1, <1>2, <1>3, ConcatEmptySeq DEF Walked
<1>5. Walked(list) = Append(SubSeq(list, 1, n - 1), NULL)
  BY <1>3, <1>4, AppendIsConcat
<1>6. SubSeq(list, 1, n) = SubSeq(list, 1, n - 1) \o <<list[n]>>
  BY <1>1, SubSeqRecursiveSecond
<1>7. SubSeq(list, 1, n) = list
  BY SubSeqFull
<1>8. list[n] = NULL
  BY <1>1 DEF Ended
<1> QED BY <1>4, <1>6, <1>7, <1>8

\* What was put behind the NULL comes to the front.
LEMMA WalkedAppend ==
  ASSUME NEW S, NEW list \in Seq(S), Ended(list), NULL \in S, NEW e \in S, e # NULL
  PROVE  Walked(Append(list, e)) = <<e>> \o list
<1> DEFINE n == Len(list)
           long == Append(list, e)
<1>1. n \in Nat \ {0} /\ End(list) = n
  BY EndOfEnded
<1>2. /\ long \in Seq(S) /\ Len(long) = n + 1 /\ long[n + 1] = e
      /\ \A k \in 1..n : long[k] = list[k]
  BY AppendProperties
<1>3. End(long) = n
  <2>1. n \in 1..Len(long) /\ Len(long) \in Nat /\ long[n] = NULL /\ \A k \in 1..(n - 1) : long[k] # NULL
    BY <1>1, <1>2 DEF Ended
  <2> HIDE DEF long, n
  <2> QED BY <2>1, EndOf
<1>4. SubSeq(long, n + 1, n + 1) = <<e>>
  <2>1. SubSeq(long, n + 1, n + 1) = <<long[n + 1]>> \o SubSeq(long, n + 2, n + 1)
    BY <1>1, <1>2, SubSeqRecursiveFirst
  <2>2. SubSeq(long, n + 2, n + 1) = <<>>
    BY <1>1, SubSeqEmpty
  <2>3. <<long[n + 1]>> \in Seq(S)
    BY <1>2
  <2> QED BY <1>2, <2>1, <2>2, <2>3, ConcatEmptySeq
<1>5. SubSeq(long, 1, n - 1) = SubSeq(list, 1, n - 1) /\ SubSeq(list, 1, n - 1) \in Seq(S)
  <2>1. \A k \in 1..(n - 1) : list[k] \in S /\ long[k] = list[k]
    BY <1>1, <1>2, ElementOfSeq
  <2>2. /\ SubSeq(list, 1, n - 1) \in Seq(S) /\ Len(SubSeq(list, 1, n - 1)) = n - 1
        /\ \A k \in 1..(n - 1) : SubSeq(list, 1, n - 1)[k] = list[k]
    BY <1>1, <2>1, SubSeqProperties
  <2>3. /\ SubSeq(long, 1, n - 1) \in Seq(S) /\ Len(SubSeq(long, 1, n - 1)) = n - 1
        /\ \A k \in 1..(n - 1) : SubSeq(long, 1, n - 1)[k] = list[k]
    <3> HIDE DEF long
    <3> QED BY <1>1, <2>1, SubSeqProperties
  <2> QED BY <2>2, <2>3, SeqEqual
<1>6. SubSeq(list, 1, n - 1) \o <<NULL>> = list
  BY <1>1, SubSeqRecursiveSecond, SubSeqFull DEF Ended
<1>7. <<e>> \in Seq(S) /\ <<NULL>> \in Seq(S)
  OBVIOUS
<1>8. Walked(long) = (<<e>> \o SubSeq(list, 1, n - 1)) \o <<NULL>>
  BY <1>2, <1>3, <1>4, <1>5 DEF Walked
<1>9. (<<e>> \o SubSeq(list, 1, n - 1)) \o <<NULL>> = <<e>> \o (SubSeq(list, 1, n - 1) \o <<NULL>>)
  <2> DEFINE front == SubSeq(list, 1, n - 1)
  <2>1. front \in Seq(S) /\ <<e>> \in Seq(S) /\ <<NULL>> \in Seq(S)
    BY <1>5, <1>7
  <2> HIDE DEF front
  <2>2. (<<e>> \o front) \o <<NULL>> = <<e>> \o (front \o <<NULL>>)
    BY <2>1, ConcatAssociative
  <2> QED BY <2>2 DEF front
<1> QED BY <1>6, <1>8, <1>9

LEMMA Prepended ==
  ASSUME NEW S, NEW list \in Seq(S), NEW e \in S
  PROVE  /\ <<e>> \o list \in Seq(S)
         /\ Len(<<e>> \o list) = Len(list) + 1 /\ Len(list) \in Nat
         /\ (<<e>> \o list)[1] = e
         /\ \A k \in 1..Len(list) : (<<e>> \o list)[k + 1] = list[k]
<1>1. <<e>> \in Seq(S) /\ Len(<<e>>) = 1 /\ <<e>>[1] = e
  OBVIOUS
<1>2. Len(list) \in Nat
  BY LenProperties
<1> QED BY <1>1, <1>2, ConcatProperties

LEMMA PrependEnded ==
  ASSUME NEW S, NEW list \in Seq(S), Ended(list), NEW e \in S, e # NULL
  PROVE  Ended(<<e>> \o list)
<1>1. Len(list) \in Nat \ {0}
  BY EndOfEnded
<1> DEFINE l == <<e>> \o list
<1>2. /\ l \in Seq(S) /\ Len(l) = Len(list) + 1 /\ l[1] = e
      /\ \A k \in 1..Len(list) : l[k + 1] = list[k]
  BY Prepended
<1>3. ASSUME NEW k \in 1..Len(l) PROVE l[k] = NULL <=> k = Len(l)
  <2>1. CASE k = 1
    BY <1>1, <1>2, <2>1
  <2>2. CASE k # 1
    <3>1. k - 1 \in 1..Len(list) /\ l[(k - 1) + 1] = list[k - 1] /\ (k - 1) + 1 = k
      BY <1>1, <1>2, <2>2
    <3> QED BY <1>1, <1>2, <3>1 DEF Ended
  <2> QED BY <2>1, <2>2
<1>4. l # <<>>
  BY <1>1, <1>2
<1> QED BY <1>3, <1>4 DEF Ended

LEMMA PrependDistinct ==
  ASSUME NEW S, NEW list \in Seq(S), Distinct(list), NEW e \in S,
         \A k \in 1..Len(list) : list[k] # e
  PROVE  Distinct(<<e>> \o list)
<1> DEFINE l == <<e>> \o list
<1>1. /\ Len(l) = Len(list) + 1 /\ Len(list) \in Nat /\ l[1] = e
      /\ \A k \in 1..Len(list) : l[k + 1] = list[k]
  BY Prepended
<1>2. \A k \in 1..Len(l) : k # 1 => k - 1 \in 1..Len(list) /\ l[k] = list[k - 1]
  <2> SUFFICES ASSUME NEW k \in 1..Len(l), k # 1 PROVE k - 1 \in 1..Len(list) /\ l[k] = list[k - 1]
    OBVIOUS
  <2>1. k - 1 \in 1..Len(list) /\ (k - 1) + 1 = k
    BY <1>1
  <2> QED BY <1>1, <2>1
<1> SUFFICES ASSUME NEW i \in 1..Len(l), NEW j \in 1..Len(l), l[i] = l[j] PROVE i = j
  BY DEF Distinct
<1> HIDE DEF l
<1>3. CASE i = 1 \/ j = 1
  BY <1>1, <1>2, <1>3
<1>4. CASE i # 1 /\ j # 1
  <2>1. list[i - 1] = list[j - 1] /\ i - 1 \in 1..Len(list) /\ j - 1 \in 1..Len(list)
    BY <1>2, <1>4
  <2>2. i - 1 = j - 1
    BY <2>1 DEF Distinct
  <2> QED BY <2>2, <1>1
<1> QED BY <1>3, <1>4

-----------------------------------------------------------------------------
(* Who has which buffer: H is what each holder has, U the buffers in use,  *)
(* B what is in them.                                                      *)

Never(s, b) == \A k \in 1..Len(s) : s[k] # b
Once(s, b) == \E k \in 1..Len(s) : s[k] = b /\ \A j \in 1..Len(s) : s[j] = b => j = k

Right(p) == p.mac = p.to \/ (p.mac = ALL /\ p.type = "arp" /\ p.body = "request")

\* What a packet is like at each holder.
Fits(h, p) ==
  /\ h = "NET" => p.cmd = "SEND" /\ Right(p)
  /\ h = "ETH" /\ p.cmd = "SEND" => p.mac = ZERO \/ Right(p)
  /\ h = "IP" /\ p.cmd = "SEND" => p.type = "ip"
  /\ h = "waiting" => p.cmd = "SEND"
  /\ h = "arp" => p.cmd = "RECV"
  /\ h = "icmp" => p.cmd = "PING"

At(H, B, b, h) ==
  /\ Once(H[h], b)
  /\ Fits(h, B[b])
  /\ \A g \in Holder : g # h => Never(H[g], b)

Owned(H, U, B) ==
  \A b \in Buffer : IF b \in U THEN \E h \in Holder : At(H, B, b, h)
                    ELSE \A h \in Holder : Never(H[h], b)

\* A holder's sequence is s, the others have what they had.
Becomes(H, G, h, s) == G[h] = s /\ \A g \in Holder : g # h => G[g] = H[g]

LEMMA TailPlaces ==
  ASSUME NEW S, NEW s \in Seq(S), s # <<>>, NEW b
  PROVE  /\ Never(s, b) => Never(Tail(s), b)
         /\ b # Head(s) /\ Once(s, b) => Once(Tail(s), b)
         /\ b = Head(s) /\ Once(s, b) => Never(Tail(s), b)
         /\ b = Head(s) => ~Never(s, b)
<1>1. /\ Len(s) \in Nat \ {0} /\ Head(s) = s[1] /\ Len(Tail(s)) = Len(s) - 1
      /\ \A i \in 1..(Len(s) - 1) : Tail(s)[i] = s[i + 1]
  BY EmptySeq, LenProperties, HeadTailProperties
<1>2. ASSUME b # Head(s), Once(s, b) PROVE Once(Tail(s), b)
  <2>1. PICK k \in 1..Len(s) : s[k] = b /\ \A j \in 1..Len(s) : s[j] = b => j = k
    BY <1>2 DEF Once
  <2>2. k - 1 \in 1..Len(Tail(s)) /\ Tail(s)[k - 1] = b
    BY <1>1, <1>2, <2>1
  <2>3. \A j \in 1..Len(Tail(s)) : Tail(s)[j] = b => j = k - 1
    BY <1>1, <2>1
  <2> QED BY <2>2, <2>3 DEF Once
<1>3. Never(s, b) => Never(Tail(s), b)
  BY <1>1 DEF Never
<1>4. b = Head(s) /\ Once(s, b) => Never(Tail(s), b)
  BY <1>1 DEF Never, Once
<1>5. b = Head(s) => ~Never(s, b)
  BY <1>1 DEF Never
<1> QED BY <1>2, <1>3, <1>4, <1>5

LEMMA AppendPlaces ==
  ASSUME NEW S, NEW s \in Seq(S), NEW e \in S, NEW b
  PROVE  /\ b # e /\ Never(s, b) => Never(Append(s, e), b)
         /\ b # e /\ Once(s, b) => Once(Append(s, e), b)
         /\ b = e /\ Never(s, b) => Once(Append(s, e), b)
<1> DEFINE l == Append(s, e)
<1>1. /\ Len(s) \in Nat /\ Len(l) = Len(s) + 1 /\ l[Len(s) + 1] = e
      /\ \A i \in 1..Len(s) : l[i] = s[i]
  BY LenProperties, AppendProperties
<1> HIDE DEF l
<1>2. b # e /\ Never(s, b) => Never(l, b)
  BY <1>1 DEF Never
<1>3. ASSUME b # e, Once(s, b) PROVE Once(l, b)
  <2>1. PICK k \in 1..Len(s) : s[k] = b /\ \A j \in 1..Len(s) : s[j] = b => j = k
    BY <1>3 DEF Once
  <2>2. k \in 1..Len(l) /\ l[k] = b /\ \A j \in 1..Len(l) : l[j] = b => j = k
    BY <1>1, <1>3, <2>1
  <2> QED BY <2>2 DEF Once
<1>4. ASSUME b = e, Never(s, b) PROVE Once(l, b)
  <2>1. /\ Len(s) + 1 \in 1..Len(l) /\ l[Len(s) + 1] = b
        /\ \A j \in 1..Len(l) : l[j] = b => j = Len(s) + 1
    BY <1>1, <1>4 DEF Never
  <2> QED BY <2>1 DEF Once
<1> QED BY <1>2, <1>3, <1>4 DEF l

LEMMA PrependPlaces ==
  ASSUME NEW S, NEW s \in Seq(S), NEW e \in S, NEW b
  PROVE  /\ b # e /\ Never(s, b) => Never(<<e>> \o s, b)
         /\ b # e /\ Once(s, b) => Once(<<e>> \o s, b)
         /\ b = e /\ Never(s, b) => Once(<<e>> \o s, b)
<1> DEFINE l == <<e>> \o s
<1>1. /\ Len(s) \in Nat /\ Len(l) = Len(s) + 1 /\ l[1] = e
      /\ \A i \in 1..Len(s) : l[i + 1] = s[i]
  BY Prepended
<1>2. \A j \in 1..Len(l) : j # 1 => j - 1 \in 1..Len(s) /\ l[j] = s[j - 1]
  <2> SUFFICES ASSUME NEW j \in 1..Len(l), j # 1 PROVE j - 1 \in 1..Len(s) /\ l[j] = s[j - 1]
    OBVIOUS
  <2>1. j - 1 \in 1..Len(s) /\ (j - 1) + 1 = j
    BY <1>1
  <2> QED BY <1>1, <2>1
<1> HIDE DEF l
<1>3. b # e /\ Never(s, b) => Never(l, b)
  BY <1>1, <1>2 DEF Never
<1>4. ASSUME b # e, Once(s, b) PROVE Once(l, b)
  <2>1. PICK k \in 1..Len(s) : s[k] = b /\ \A j \in 1..Len(s) : s[j] = b => j = k
    BY <1>4 DEF Once
  <2>2. k + 1 \in 1..Len(l) /\ l[k + 1] = b
    BY <1>1, <2>1
  <2>3. \A j \in 1..Len(l) : l[j] = b => j = k + 1
    BY <1>1, <1>2, <1>4, <2>1
  <2> QED BY <2>2, <2>3 DEF Once
<1>5. ASSUME b = e, Never(s, b) PROVE Once(l, b)
  <2>1. 1 \in 1..Len(l) /\ l[1] = b /\ \A j \in 1..Len(l) : l[j] = b => j = 1
    BY <1>1, <1>2, <1>5 DEF Never
  <2> QED BY <2>1 DEF Once
<1> QED BY <1>3, <1>4, <1>5 DEF l

\* A holder gives away its first entry.
LEMMA Takes ==
  ASSUME NEW H, NEW G, NEW U, NEW B, NEW C, NEW h \in Holder, NEW S, NEW e,
         H[h] \in Seq(S), H[h] # <<>>, e = Head(H[h]), Becomes(H, G, h, Tail(H[h])),
         \A b \in U : b # e => C[b] = B[b], Owned(H, U, B)
  PROVE  Owned(G, U \ {e}, C)
<1> SUFFICES ASSUME NEW b \in Buffer
             PROVE  IF b \in U \ {e} THEN \E g \in Holder : At(G, C, b, g)
                    ELSE \A g \in Holder : Never(G[g], b)
  BY DEF Owned
<1>1. /\ Never(H[h], b) => Never(G[h], b)
      /\ b # e /\ Once(H[h], b) => Once(G[h], b)
      /\ b = e /\ Once(H[h], b) => Never(G[h], b)
      /\ b = e => ~Never(H[h], b)
  BY TailPlaces DEF Becomes
<1>2. \A g \in Holder : g # h => G[g] = H[g]
  BY DEF Becomes
<1>3. CASE b \notin U
  BY <1>1, <1>2, <1>3 DEF Owned
<1>4. CASE b \in U /\ b # e
  <2>1. PICK g \in Holder : At(H, B, b, g)
    BY <1>4 DEF Owned
  <2>2. At(G, C, b, g)
    BY <1>1, <1>2, <1>4, <2>1 DEF At
  <2> QED BY <1>4, <2>2
<1>5. CASE b \in U /\ b = e
  <2>1. PICK g \in Holder : At(H, B, b, g)
    BY <1>5 DEF Owned
  <2>2. g = h
    BY <1>1, <1>5, <2>1 DEF At
  <2>3. \A f \in Holder : Never(G[f], b)
    BY <1>1, <1>2, <1>5, <2>1, <2>2 DEF At
  <2> QED BY <1>5, <2>3
<1> QED BY <1>3, <1>4, <1>5

\* A holder gets a buffer nobody has, in front or behind; other entries do not matter.
LEMMA Gets ==
  ASSUME NEW H, NEW G, NEW U, NEW B, NEW C, NEW h \in Holder, NEW S, NEW e \in S, NEW s,
         H[h] \in Seq(S), s \in {Append(H[h], e), <<e>> \o H[h]}, Becomes(H, G, h, s),
         \A b \in U : C[b] = B[b], e \notin U, e \in Buffer => Fits(h, C[e]), Owned(H, U, B)
  PROVE  Owned(G, U \cup ({e} \cap Buffer), C)
<1> SUFFICES ASSUME NEW b \in Buffer
             PROVE  IF b \in U \cup ({e} \cap Buffer) THEN \E g \in Holder : At(G, C, b, g)
                    ELSE \A g \in Holder : Never(G[g], b)
  BY DEF Owned
<1>1. /\ b # e /\ Never(H[h], b) => Never(G[h], b)
      /\ b # e /\ Once(H[h], b) => Once(G[h], b)
      /\ b = e /\ Never(H[h], b) => Once(G[h], b)
  <2>1. CASE G[h] = Append(H[h], e)
    BY <2>1, AppendPlaces
  <2>2. CASE G[h] = <<e>> \o H[h]
    BY <2>2, PrependPlaces
  <2> QED BY <2>1, <2>2 DEF Becomes
<1>2. \A g \in Holder : g # h => G[g] = H[g]
  BY DEF Becomes
<1>3. CASE b \notin U /\ b # e
  BY <1>1, <1>2, <1>3 DEF Owned
<1>4. CASE b \in U /\ b # e
  <2>1. PICK g \in Holder : At(H, B, b, g)
    BY <1>4 DEF Owned
  <2>2. At(G, C, b, g)
    BY <1>1, <1>2, <1>4, <2>1 DEF At
  <2> QED BY <1>4, <2>2
<1>5. CASE b = e
  <2>1. \A g \in Holder : Never(H[g], b)
    BY <1>5 DEF Owned
  <2>2. At(G, C, b, h)
    BY <1>1, <1>2, <1>5, <2>1 DEF At
  <2> QED BY <1>5, <2>2
<1> QED BY <1>3, <1>4, <1>5

LEMMA Swaps ==
  ASSUME NEW H, NEW G, NEW U, NEW B, NEW C, NEW h \in Holder, NEW x, NEW y,
         H[h] = <<x>>, Becomes(H, G, h, <<y>>), DOMAIN H = Holder, y \notin U \ {x},
         \A b \in U : b # x => C[b] = B[b], y \in Buffer => Fits(h, C[y]), Owned(H, U, B)
  PROVE  Owned(G, (U \ {x}) \cup ({y} \cap Buffer), C)
<1> DEFINE M == [H EXCEPT ![h] = <<>>]
<1>1. H[h] \in Seq({x}) /\ H[h] # <<>> /\ Head(H[h]) = x /\ Tail(H[h]) = <<>>
  OBVIOUS
<1>2. Becomes(H, M, h, <<>>) /\ Becomes(M, G, h, <<y>>) /\ M[h] = <<>>
  BY DEF Becomes
<1> HIDE DEF M
<1>3. Owned(M, U \ {x}, B)
  BY <1>1, <1>2, Takes
<1>4. Append(M[h], y) = <<y>> /\ M[h] \in Seq({y})
  BY <1>2
<1>5. \A b \in U \ {x} : C[b] = B[b]
  OBVIOUS
<1> QED BY <1>2, <1>3, <1>4, <1>5, Gets

\* What a holder has is in use and nobody else's, and it has it once.
LEMMA Holds ==
  ASSUME NEW H, NEW U, NEW B, NEW h \in Holder, NEW k \in 1..Len(H[h]), H[h][k] \in Buffer,
         Owned(H, U, B)
  PROVE  H[h][k] \in U /\ At(H, B, H[h][k], h)
<1>1. ~Never(H[h], H[h][k])
  BY DEF Never
<1>2. H[h][k] \in U
  BY <1>1 DEF Owned
<1>3. PICK g \in Holder : At(H, B, H[h][k], g)
  BY <1>2 DEF Owned
<1>4. g = h
  BY <1>1, <1>3 DEF At
<1> QED BY <1>2, <1>3, <1>4

LEMMA OwnedSame ==
  ASSUME NEW H, NEW G, NEW U, NEW B, NEW C, \A h \in Holder : G[h] = H[h],
         \A b \in U : C[b] = B[b], Owned(H, U, B)
  PROVE  Owned(G, U, C)
<1> SUFFICES ASSUME NEW b \in Buffer
             PROVE  IF b \in U THEN \E g \in Holder : At(G, C, b, g)
                    ELSE \A g \in Holder : Never(G[g], b)
  BY DEF Owned
<1>1. CASE b \notin U
  BY <1>1 DEF Owned
<1>2. CASE b \in U
  <2>1. PICK g \in Holder : At(H, B, b, g)
    BY <1>2 DEF Owned
  <2>2. At(G, C, b, g)
    BY <1>2, <2>1 DEF At
  <2> QED BY <1>2, <2>2
<1> QED BY <1>1, <1>2

-----------------------------------------------------------------------------
(* The steps a task takes with a buffer.                                   *)

BufOK ==
  /\ buf \in [Buffer -> Packet]
  /\ used \in SUBSET Buffer
  /\ box \in [Box -> Seq(Buffer)]
  /\ down \in BOOLEAN

\* Every buffer in use has one holder.  What a task has taken when the system
\* goes down has none.
Ownership == \E V \in SUBSET used : Owned(Held, V, buf) /\ (~down => V = used)

LEMMA HeldIs ==
  /\ DOMAIN Held = Holder
  /\ \A m \in Box : Held[m] = box[m]
  /\ Held["waiting"] = ARPPKTLIST /\ Held["arp"] = <<arp.pkt>> /\ Held["icmp"] = <<icmp.pkt>>
BY DEF Held, Holder, Box

\* M is what the holders have in the end, but for what goes into a box yet.
Remains(M, boxes) ==
  /\ \A m \in Box : M[m] = boxes[m]
  /\ M["waiting"] = ARPPKTLIST' /\ M["arp"] = <<arp'.pkt>> /\ M["icmp"] = <<icmp'.pkt>>

LEMMA HeldNext ==
  /\ \A m \in Box : Held'[m] = box'[m]
  /\ Held'["waiting"] = ARPPKTLIST' /\ Held'["arp"] = <<arp'.pkt>> /\ Held'["icmp"] = <<icmp'.pkt>>
BY DEF Held, Holder, Box

LEMMA HeldAs ==
  ASSUME NEW M, NEW boxes, Remains(M, boxes)
  PROVE  /\ box' = boxes => \A h \in Holder : Held'[h] = M[h]
         /\ \A m \in Box : \A s : box'[m] = s /\ (\A n \in Box : n # m => box'[n] = boxes[n]) => Becomes(M, Held', m, s)
BY HeldNext DEF Remains, Holder, Becomes

LEMMA BlankIsPacket == Blank \in Packet
BY DEF Blank, Packet, Cmd, Mac, Type, Body, Host

\* The least number of a set: kz_kmalloc() finds a free buffer while there is one.
LEMMA Least ==
  ASSUME NEW T \in SUBSET Nat, T # {}
  PROVE  \E x \in T : \A y \in T : x <= y
<1> DEFINE R == {ss \in Nat \X Nat : ss[1] < ss[2]}
<1>1. IsWellFoundedOn(R, Nat)
  BY NatLessThanWellFounded DEF OpToRel
<1>2. PICK x \in T : \A y \in T : <<y, x>> \notin R
  <2> HIDE DEF R
  <2> QED BY <1>1, WFMin
<1>3. \A y \in T : ~(y < x)
  BY <1>2
<1> QED BY <1>3

LEMMA NewIsFree ==
  ASSUME BufOK, used # Buffer
  PROVE  New \in Buffer /\ New \notin used
<1>1. Buffer \ used # {}
  BY DEF BufOK
<1>a. Buffer \ used \in SUBSET Nat
  BY NetBufAssumption DEF Buffer
<1>2. \E b \in Buffer \ used : \A a \in Buffer \ used : b <= a
  BY <1>1, <1>a, Least
<1> QED BY <1>2 DEF New

LEMMA Frees ==
  ASSUME BufOK, NEW boxes \in [Box -> Seq(Buffer)], NEW b \in Buffer, NEW M, Remains(M, boxes),
         Owned(M, used \ {b}, buf), kz_kmfree(boxes, b), ~down
  PROVE  BufOK' /\ Ownership'
<1>1. BufOK'
  BY BlankIsPacket DEF BufOK, kz_kmfree
<1>2. \A h \in Holder : Held'[h] = M[h]
  BY HeldAs DEF kz_kmfree
<1>3. \A a \in used \ {b} : buf'[a] = buf[a]
  BY DEF BufOK, kz_kmfree
<1>4. Owned(Held', used \ {b}, buf')
  BY <1>2, <1>3, OwnedSame
<1> QED BY <1>1, <1>4 DEF Ownership, BufOK, kz_kmfree

LEMMA Passes ==
  ASSUME BufOK, NEW boxes \in [Box -> Seq(Buffer)], NEW b \in used, NEW M, Remains(M, boxes),
         Owned(M, used \ {b}, buf), NEW c \in Packet, NEW n \in Box, Fits(n, c), Pass(boxes, b, c, n), ~down
  PROVE  BufOK' /\ Ownership'
<1>1. b \in Buffer /\ boxes[n] \in Seq(Buffer)
  BY DEF BufOK
<1>2. BufOK'
  BY <1>1, AppendProperties DEF BufOK, Pass
<1>3. n \in Holder /\ M[n] = boxes[n]
  BY DEF Holder, Remains
<1>4. Becomes(M, Held', n, Append(M[n], b))
  <2>1. box'[n] = Append(M[n], b) /\ \A m \in Box : m # n => box'[m] = boxes[m]
    BY <1>3 DEF Pass
  <2> QED BY <2>1, HeldAs
<1>5. (\A a \in used \ {b} : buf'[a] = buf[a]) /\ buf'[b] = c
  BY <1>1 DEF BufOK, Pass
<1>6. Owned(Held', (used \ {b}) \cup ({b} \cap Buffer), buf')
  BY <1>1, <1>3, <1>4, <1>5, Gets
<1>7. (used \ {b}) \cup ({b} \cap Buffer) = used'
  BY <1>1 DEF Pass
<1> QED BY <1>2, <1>6, <1>7 DEF Ownership, BufOK, Pass

LEMMA PassesNew ==
  ASSUME BufOK, NEW boxes \in [Box -> Seq(Buffer)], NEW done \in SUBSET used, NEW M, Remains(M, boxes),
         Owned(M, used \ done, buf), NEW c \in Packet, NEW n \in Box, Fits(n, c),
         PassNew(boxes, c, n, done), ~down
  PROVE  BufOK' /\ Ownership'
<1>1. CASE used = Buffer /\ down' = TRUE /\ box' = boxes /\ UNCHANGED <<buf, used>>
  <2>1. BufOK'
    BY <1>1 DEF BufOK
  <2>2. \A h \in Holder : Held'[h] = M[h]
    BY <1>1, HeldAs
  <2>3. Owned(Held', used \ done, buf')
    BY <1>1, <2>2, OwnedSame
  <2>4. used \ done \in SUBSET used'
    BY <1>1
  <2> QED BY <1>1, <2>1, <2>3, <2>4 DEF Ownership
<1>2. CASE /\ used # Buffer
           /\ used' = (used \cup {New}) \ done
           /\ buf' = [b \in Buffer |-> IF b = New THEN c ELSE IF b \in done THEN Blank ELSE buf[b]]
           /\ box' = [boxes EXCEPT ![n] = Append(@, New)]
           /\ UNCHANGED down
  <2>1. New \in Buffer /\ New \notin used /\ New \notin done /\ boxes[n] \in Seq(Buffer)
    BY <1>2, NewIsFree
  <2> DEFINE b == New
  <2>a. b \in Buffer /\ b \notin used /\ b \notin done
    BY <2>1
  <2>b. /\ used' = (used \cup {b}) \ done
        /\ buf' = [a \in Buffer |-> IF a = b THEN c ELSE IF a \in done THEN Blank ELSE buf[a]]
        /\ box' = [boxes EXCEPT ![n] = Append(@, b)]
    BY <1>2
  <2> HIDE DEF b
  <2>2. BufOK'
    <3>1. used' \in SUBSET Buffer
      BY <2>a, <2>b DEF BufOK
    <3>2. buf' \in [Buffer -> Packet]
      BY <2>b, BlankIsPacket DEF BufOK
    <3>3. box' \in [Box -> Seq(Buffer)]
      BY <2>1, <2>a, <2>b, AppendProperties
    <3> QED BY <1>2, <3>1, <3>2, <3>3 DEF BufOK
  <2>3. n \in Holder /\ M[n] = boxes[n]
    BY DEF Holder, Remains
  <2>4. Becomes(M, Held', n, Append(M[n], b))
    <3>1. box'[n] = Append(M[n], b) /\ \A m \in Box : m # n => box'[m] = boxes[m]
      BY <2>b, <2>3
    <3> QED BY <3>1, HeldAs
  <2>5. (\A a \in used \ done : buf'[a] = buf[a]) /\ buf'[b] = c
    BY <2>a, <2>b DEF BufOK
  <2>6. Owned(Held', (used \ done) \cup ({b} \cap Buffer), buf')
    BY <2>1, <2>a, <2>3, <2>4, <2>5, Gets
  <2>7. (used \ done) \cup ({b} \cap Buffer) = used'
    BY <2>a, <2>b
  <2> QED BY <1>2, <2>2, <2>6, <2>7 DEF Ownership
<1> QED BY <1>1, <1>2 DEF PassNew

\* A task has taken the first message of its box.
Popped(m) == [Held EXCEPT ![m] = Tail(@)]

LEMMA TakesFirst ==
  ASSUME BufOK, Owned(Held, used, buf), NEW m \in Box, box[m] # <<>>
  PROVE  /\ Owned(Popped(m), used \ {First(m)}, buf)
         /\ First(m) \in used /\ First(m) \in Buffer /\ At(Held, buf, First(m), m)
         /\ Taken(m) \in [Box -> Seq(Buffer)]
         /\ UNCHANGED <<ARPPKTLIST, arp.pkt, icmp.pkt>> => Remains(Popped(m), Taken(m))
<1>1. m \in Holder /\ Held[m] = box[m] /\ box[m] \in Seq(Buffer)
  BY HeldIs DEF Holder, BufOK
<1>2. Becomes(Held, Popped(m), m, Tail(Held[m]))
  BY <1>1, HeldIs DEF Becomes, Popped
<1>3. 1 \in 1..Len(Held[m]) /\ First(m) = Held[m][1] /\ First(m) \in Buffer /\ Tail(box[m]) \in Seq(Buffer)
  BY <1>1, EmptySeq, HeadTailProperties DEF First
<1>4. First(m) \in used /\ At(Held, buf, First(m), m)
  BY <1>1, <1>3, Holds
<1>5. Owned(Popped(m), used \ {First(m)}, buf)
  BY <1>1, <1>2, Takes DEF First
<1>6. Taken(m) \in [Box -> Seq(Buffer)]
  BY <1>3 DEF Taken, BufOK
<1>7. UNCHANGED <<ARPPKTLIST, arp.pkt, icmp.pkt>> => Remains(Popped(m), Taken(m))
  BY <1>1, HeldIs DEF Remains, Popped, Taken, Box, Holder, BufOK
<1> QED BY <1>3, <1>4, <1>5, <1>6, <1>7

-----------------------------------------------------------------------------
(* The inductive invariant.                                                *)

ArpState == [pc : {"recv", "flush", "reply"}, pkt : 0..BUFS, my_ipaddr : BOOLEAN]
IcmpState == [pkt : 0..BUFS, left : Nat]

RestOK ==
  /\ ARPADRLIST \in Seq(Host \cup {NULL})
  /\ ARPPKTLIST \in Seq(Buffer \cup {NULL})
  /\ arp \in ArpState /\ icmp \in IcmpState
  /\ made \in Nat /\ sent \in Nat

TypeOK == BufOK /\ RestOK

\* Between two messages both lists end with their NULL; a walk over the packets moves theirs.
Lists ==
  /\ Ended(ARPADRLIST) /\ Distinct(ARPADRLIST)
  /\ OneNull(ARPPKTLIST)
  /\ arp.pc # "flush" => Ended(ARPPKTLIST)

\* A task has a packet in its hands where it needs one.
Hands ==
  /\ arp.pc = "recv" => arp.pkt = 0
  /\ arp.pc = "reply" => arp.pkt # 0
  /\ icmp.left > 0 => icmp.pkt # 0

InTable(list, h) == \E i \in 1..Len(list) : list[i] = h

\* The packets behind the NULL, and outside a walk those before it, wait for an unknown address.
Unknown ==
  \A e, k \in 1..Len(ARPPKTLIST) :
    ARPPKTLIST[e] = NULL /\ ARPPKTLIST[k] # NULL /\ (arp.pc = "flush" => k > e)
      => ~InTable(ARPADRLIST, buf[ARPPKTLIST[k]].to)

Carries(p) == p.cmd = "SEND" /\ p.type = "ip"
Transit == {b \in used : Carries(buf[b])}
Balance == made = sent + Cardinality(Transit)

IInv == BufOK /\ RestOK /\ Lists /\ Hands /\ Unknown /\ Ownership /\ Balance

LEMMA Running ==
  ASSUME IInv, ~down
  PROVE  Owned(Held, used, buf)
BY DEF IInv, Ownership

-----------------------------------------------------------------------------
(* IP packets in the buffers.                                              *)

LEMMA TransitFinite ==
  ASSUME BufOK
  PROVE  IsFiniteSet(Transit) /\ Cardinality(Transit) \in Nat
<1>1. IsFiniteSet(Buffer)
  BY NetBufAssumption, FS_Interval DEF Buffer
<1>2. Transit \in SUBSET Buffer
  BY DEF Transit, BufOK
<1> QED BY <1>1, <1>2, FS_Subset, FS_CardinalityType

LEMMA PassCount ==
  ASSUME BufOK, NEW boxes, NEW b \in used, NEW c, NEW n, Pass(boxes, b, c, n),
         Carries(c) <=> Carries(buf[b])
  PROVE  Transit' = Transit
<1>1. used' = used /\ \A a \in used : buf'[a] = IF a = b THEN c ELSE buf[a]
  BY DEF Pass, BufOK
<1>2. \A a \in used : Carries(buf'[a]) <=> Carries(buf[a])
  BY <1>1
<1> QED BY <1>1, <1>2 DEF Transit

LEMMA FreeCount ==
  ASSUME BufOK, NEW boxes, NEW b \in used, kz_kmfree(boxes, b)
  PROVE  Cardinality(Transit') = Cardinality(Transit) - (IF Carries(buf[b]) THEN 1 ELSE 0)
<1>1. used' = used \ {b} /\ \A a \in used : a # b => buf'[a] = buf[a]
  BY DEF kz_kmfree, BufOK
<1>2. Transit' = Transit \ {b}
  BY <1>1 DEF Transit
<1>3. b \in Transit <=> Carries(buf[b])
  BY DEF Transit
<1>4. IsFiniteSet(Transit) /\ Cardinality(Transit) \in Nat
  BY TransitFinite
<1>5. Cardinality(Transit \ {b}) = IF b \in Transit THEN Cardinality(Transit) - 1 ELSE Cardinality(Transit)
  BY <1>4, FS_RemoveElement
<1> QED BY <1>2, <1>3, <1>4, <1>5

LEMMA NewCount ==
  ASSUME BufOK, NEW boxes, NEW done \in SUBSET used, NEW c, NEW n, PassNew(boxes, c, n, done),
         \A b \in done : ~Carries(buf[b]), ~down
  PROVE  Cardinality(Transit') = Cardinality(Transit) + (IF Carries(c) /\ ~down' THEN 1 ELSE 0)
<1>1. CASE down' = TRUE /\ UNCHANGED <<buf, used>>
  BY <1>1, TransitFinite DEF Transit
<1>2. CASE /\ used # Buffer
           /\ used' = (used \cup {New}) \ done
           /\ buf' = [b \in Buffer |-> IF b = New THEN c ELSE IF b \in done THEN Blank ELSE buf[b]]
           /\ UNCHANGED down
  <2> DEFINE x == New
  <2>1. x \in Buffer /\ x \notin used /\ x \notin done
    BY <1>2, NewIsFree
  <2>2. /\ used' = (used \cup {x}) \ done
        /\ buf'[x] = c
        /\ \A a \in used : a \notin done => buf'[a] = buf[a]
    <3>1. \A b \in Buffer : buf'[b] = IF b = x THEN c ELSE IF b \in done THEN Blank ELSE buf[b]
      BY <1>2
    <3> HIDE DEF x
    <3>2. buf'[x] = c
      BY <2>1, <3>1
    <3>3. \A a \in used : a \in Buffer /\ a # x
      BY <2>1 DEF BufOK
    <3>4. \A a \in used : a \notin done => buf'[a] = buf[a]
      BY <3>1, <3>3
    <3> QED BY <1>2, <3>2, <3>4 DEF x
  <2> HIDE DEF x
  <2>3. \A a \in Transit : a \notin done
    BY DEF Transit
  <2>4. CASE Carries(c)
    <3>1. Transit' = Transit \cup {x}
      BY <2>1, <2>2, <2>3, <2>4 DEF Transit
    <3>2. x \notin Transit
      BY <2>1 DEF Transit
    <3> QED BY <1>2, <2>4, <3>1, <3>2, TransitFinite, FS_AddElement
  <2>5. CASE ~Carries(c)
    <3>1. Transit' = Transit
      BY <2>1, <2>2, <2>3, <2>5 DEF Transit
    <3> QED BY <2>5, <3>1, TransitFinite
  <2> QED BY <2>4, <2>5
<1> QED BY <1>1, <1>2 DEF PassNew

-----------------------------------------------------------------------------
(* Steps that leave ARP's lists alone.                                     *)

\* A waiting packet has no other holder.
LEMMA Waits ==
  ASSUME IInv, ~down, NEW k \in 1..Len(ARPPKTLIST), ARPPKTLIST[k] # NULL
  PROVE  ARPPKTLIST[k] \in used /\ ARPPKTLIST[k] \in Buffer /\ At(Held, buf, ARPPKTLIST[k], "waiting")
<1>1. "waiting" \in Holder /\ Held["waiting"] = ARPPKTLIST
  BY HeldIs DEF Holder
<1>2. ARPPKTLIST[k] \in Buffer
  BY ElementOfSeq DEF IInv, RestOK
<1> QED BY <1>1, <1>2, Running, Holds

LEMMA TwoHolders ==
  ASSUME NEW H, NEW B, NEW b, NEW g \in Holder, NEW h \in Holder, At(H, B, b, g), At(H, B, b, h)
  PROVE  g = h
BY DEF At, Once, Never

ListsSame ==
  /\ UNCHANGED <<ARPADRLIST, ARPPKTLIST>>
  /\ arp' \in ArpState /\ arp'.pc = arp.pc /\ arp'.pkt = arp.pkt

\* x is the one buffer in use that may change.
LEMMA UnknownStays ==
  ASSUME IInv, ~down, UNCHANGED <<ARPADRLIST, ARPPKTLIST>>,
         arp'.pc = "flush" <=> arp.pc = "flush",
         NEW x, x \notin used \/ \E h \in Holder : h # "waiting" /\ At(Held, buf, x, h),
         \A b \in used : b # x => buf'[b] = buf[b]
  PROVE  Unknown'
<1> SUFFICES ASSUME NEW e \in 1..Len(ARPPKTLIST), NEW k \in 1..Len(ARPPKTLIST),
                    ARPPKTLIST[e] = NULL, ARPPKTLIST[k] # NULL, arp.pc = "flush" => k > e
             PROVE  ~InTable(ARPADRLIST, buf'[ARPPKTLIST[k]].to)
  BY DEF Unknown
<1>1. ARPPKTLIST[k] \in used /\ At(Held, buf, ARPPKTLIST[k], "waiting") /\ "waiting" \in Holder
  BY Waits DEF Holder
<1>2. ARPPKTLIST[k] # x
  BY <1>1, TwoHolders
<1>3. buf'[ARPPKTLIST[k]] = buf[ARPPKTLIST[k]]
  BY <1>1, <1>2
<1>4. ~InTable(ARPADRLIST, buf[ARPPKTLIST[k]].to)
  BY DEF IInv, Unknown
<1> QED BY <1>3, <1>4

LEMMA ListsStay ==
  ASSUME IInv, ListsSame, icmp' \in IcmpState, icmp'.left > 0 => icmp'.pkt # 0, made' \in Nat, sent' \in Nat
  PROVE  RestOK' /\ Lists' /\ Hands'
BY DEF IInv, ListsSame, RestOK, Lists, Hands

\* A task passes the packet it has received on.
LEMMA PassStep ==
  ASSUME IInv, ~down, ListsSame, UNCHANGED <<icmp, made, sent>>,
         NEW m \in Box, box[m] # <<>>, NEW c \in Packet, NEW n \in Box, Fits(n, c),
         Carries(c) <=> Carries(buf[First(m)]), Pass(Taken(m), First(m), c, n)
  PROVE  IInv'
<1>1. BufOK /\ Owned(Held, used, buf)
  BY Running DEF IInv
<1>2. /\ Owned(Popped(m), used \ {First(m)}, buf)
      /\ First(m) \in used /\ At(Held, buf, First(m), m)
      /\ Taken(m) \in [Box -> Seq(Buffer)]
      /\ Remains(Popped(m), Taken(m))
  BY <1>1, TakesFirst DEF ListsSame
<1>3. BufOK' /\ Ownership'
  BY <1>1, <1>2, Passes
<1>4. Unknown'
  <2>1. \A b \in used : b # First(m) => buf'[b] = buf[b]
    BY <1>1 DEF Pass, BufOK
  <2>2. m \in Holder /\ m # "waiting"
    BY DEF Holder, Box
  <2> QED BY <1>2, <2>1, <2>2, UnknownStays DEF ListsSame
<1>5. Balance'
  BY <1>1, <1>2, PassCount DEF IInv, Balance
<1>6. RestOK' /\ Lists' /\ Hands'
  BY ListsStay DEF IInv, RestOK, Hands
<1> QED BY <1>3, <1>4, <1>5, <1>6 DEF IInv

\* A task frees the packet it has received.
LEMMA FreeStep ==
  ASSUME IInv, ~down, ListsSame, UNCHANGED <<icmp, made>>,
         NEW m \in Box, box[m] # <<>>, kz_kmfree(Taken(m), First(m)),
         sent' = sent + (IF Carries(buf[First(m)]) THEN 1 ELSE 0)
  PROVE  IInv'
<1>1. BufOK /\ Owned(Held, used, buf)
  BY Running DEF IInv
<1>2. /\ Owned(Popped(m), used \ {First(m)}, buf)
      /\ First(m) \in used /\ First(m) \in Buffer /\ At(Held, buf, First(m), m)
      /\ Taken(m) \in [Box -> Seq(Buffer)]
      /\ Remains(Popped(m), Taken(m))
  BY <1>1, TakesFirst DEF ListsSame
<1>3. BufOK' /\ Ownership'
  BY <1>1, <1>2, Frees
<1>4. Unknown'
  <2>1. \A b \in used : b # First(m) => buf'[b] = buf[b]
    BY <1>1 DEF kz_kmfree, BufOK
  <2>2. m \in Holder /\ m # "waiting"
    BY DEF Holder, Box
  <2> QED BY <1>2, <2>1, <2>2, UnknownStays DEF ListsSame
<1>5. Balance' /\ sent' \in Nat
  <2>1. Cardinality(Transit') = Cardinality(Transit) - (IF Carries(buf[First(m)]) THEN 1 ELSE 0)
    BY <1>1, <1>2, FreeCount
  <2>2. Cardinality(Transit) \in Nat /\ made \in Nat /\ sent \in Nat /\ made = sent + Cardinality(Transit)
    BY <1>1, TransitFinite DEF IInv, RestOK, Balance
  <2> QED BY <2>1, <2>2 DEF Balance
<1>6. RestOK' /\ Lists' /\ Hands'
  BY <1>5, ListsStay DEF IInv, RestOK, Hands
<1> QED BY <1>3, <1>4, <1>5, <1>6 DEF IInv

\* A task makes a packet.
LEMMA NewStep ==
  ASSUME IInv, ~down, ListsSame, UNCHANGED sent, icmp' \in IcmpState, icmp'.pkt = icmp.pkt,
         icmp'.left > 0 => icmp.pkt # 0,
         NEW c \in Packet, NEW n \in Box, Fits(n, c), PassNew(box, c, n, {}),
         made' = made + (IF Carries(c) /\ ~down' THEN 1 ELSE 0)
  PROVE  IInv'
<1>1. BufOK /\ Owned(Held, used, buf)
  BY Running DEF IInv
<1>2. Remains(Held, box) /\ box \in [Box -> Seq(Buffer)] /\ {} \in SUBSET used /\ used \ {} = used
  BY <1>1, HeldIs DEF Remains, ListsSame, BufOK
<1>3. BufOK' /\ Ownership'
  BY <1>1, <1>2, PassesNew
<1>4. Unknown'
  <2>1. 0 \notin used
    BY <1>1, NetBufAssumption DEF BufOK, Buffer
  <2>2. \A b \in used : buf'[b] = buf[b]
    <3>1. CASE UNCHANGED buf
      BY <3>1
    <3>2. CASE /\ used # Buffer
               /\ buf' = [b \in Buffer |-> IF b = New THEN c ELSE IF b \in {} THEN Blank ELSE buf[b]]
      <4>1. New \notin used
        BY <1>1, <3>2, NewIsFree
      <4> QED BY <1>1, <3>2, <4>1 DEF BufOK
    <3> QED BY <3>1, <3>2 DEF PassNew
  <2> QED BY <2>1, <2>2, UnknownStays DEF ListsSame
<1>5. Balance' /\ made' \in Nat
  <2>1. Cardinality(Transit') = Cardinality(Transit) + (IF Carries(c) /\ ~down' THEN 1 ELSE 0)
    BY <1>1, <1>2, NewCount
  <2>2. Cardinality(Transit) \in Nat /\ made \in Nat /\ sent \in Nat /\ made = sent + Cardinality(Transit)
    BY <1>1, TransitFinite DEF IInv, RestOK, Balance
  <2> QED BY <2>1, <2>2 DEF Balance
<1>6. RestOK' /\ Lists' /\ Hands'
  BY <1>5, ListsStay DEF IInv, RestOK
<1> QED BY <1>3, <1>4, <1>5, <1>6 DEF IInv

\* A task answers the packet it has received with a new one.
LEMMA AnswerStep ==
  ASSUME IInv, ~down, ListsSame, UNCHANGED <<icmp, sent>>, NEW m \in Box, box[m] # <<>>,
         NEW c \in Packet, NEW n \in Box, Fits(n, c), PassNew(Taken(m), c, n, {First(m)}),
         ~Carries(buf[First(m)]), made' = made + (IF Carries(c) /\ ~down' THEN 1 ELSE 0)
  PROVE  IInv'
<1>1. BufOK /\ Owned(Held, used, buf)
  BY Running DEF IInv
<1>2. /\ Owned(Popped(m), used \ {First(m)}, buf)
      /\ First(m) \in used /\ At(Held, buf, First(m), m)
      /\ Taken(m) \in [Box -> Seq(Buffer)]
      /\ Remains(Popped(m), Taken(m)) /\ {First(m)} \in SUBSET used
  BY <1>1, TakesFirst DEF ListsSame
<1>3. BufOK' /\ Ownership'
  BY <1>1, <1>2, PassesNew
<1>4. Unknown'
  <2>1. \A b \in used : b # First(m) => buf'[b] = buf[b]
    <3>1. CASE UNCHANGED buf
      BY <3>1
    <3>2. CASE /\ used # Buffer
               /\ buf' = [b \in Buffer |-> IF b = New THEN c ELSE IF b \in {First(m)} THEN Blank ELSE buf[b]]
      <4>1. New \notin used
        BY <1>1, <3>2, NewIsFree
      <4> QED BY <1>1, <3>2, <4>1 DEF BufOK
    <3> QED BY <3>1, <3>2 DEF PassNew
  <2>2. m \in Holder /\ m # "waiting"
    BY DEF Holder, Box
  <2> QED BY <1>2, <2>1, <2>2, UnknownStays DEF ListsSame
<1>5. Balance' /\ made' \in Nat
  <2>1. Cardinality(Transit') = Cardinality(Transit) + (IF Carries(c) /\ ~down' THEN 1 ELSE 0)
    BY <1>1, <1>2, NewCount
  <2>2. Cardinality(Transit) \in Nat /\ made \in Nat /\ sent \in Nat /\ made = sent + Cardinality(Transit)
    BY <1>1, TransitFinite DEF IInv, RestOK, Balance
  <2> QED BY <2>1, <2>2 DEF Balance
<1>6. RestOK' /\ Lists' /\ Hands'
  BY <1>5, ListsStay DEF IInv, RestOK, Hands
<1> QED BY <1>3, <1>4, <1>5, <1>6 DEF IInv

-----------------------------------------------------------------------------
(* The tasks other than ARP.                                               *)

LEMMA Receives ==
  ASSUME IInv, NEW m \in Box, NEW cmd, Got(m, cmd)
  PROVE  /\ ~down /\ box[m] # <<>>
         /\ First(m) \in used /\ First(m) \in Buffer
         /\ buf[First(m)] \in Packet /\ buf[First(m)].cmd = cmd
         /\ At(Held, buf, First(m), m) /\ Fits(m, buf[First(m)])
<1>1. ~down /\ box[m] # <<>> /\ buf[First(m)].cmd = cmd
  BY DEF Got
<1>2. BufOK /\ Owned(Held, used, buf)
  BY <1>1, Running DEF IInv
<1>3. First(m) \in used /\ First(m) \in Buffer /\ At(Held, buf, First(m), m)
  BY <1>1, <1>2, TakesFirst
<1> QED BY <1>1, <1>2, <1>3 DEF At, BufOK

LEMMA ListsUnchanged ==
  ASSUME IInv, UNCHANGED arpVars
  PROVE  ListsSame
BY DEF IInv, RestOK, ListsSame, arpVars

LEMMA Boxes ==
  "NET" \in Box /\ "ETH" \in Box /\ "ARP" \in Box /\ "IP" \in Box /\ "ICMP" \in Box
BY DEF Box

LEMMA EthernetStep ==
  ASSUME IInv, ethernet_main
  PROVE  IInv'
<1> USE Boxes
<1> DEFINE p == buf[First("ETH")]
<1>1. ListsSame /\ UNCHANGED <<made, sent>>
  BY ListsUnchanged DEF ethernet_main, counts
<1>2. CASE ETHERNET_CMD_MACADDR
  <2>1. Got("ETH", "MACADDR") /\ Pass(Taken("ETH"), First("ETH"), p, "ARP") /\ UNCHANGED icmp
    BY <1>2 DEF ETHERNET_CMD_MACADDR
  <2>2. Fits("ARP", p)
    BY DEF Fits
  <2> QED BY <1>1, <2>1, <2>2, Receives, PassStep
<1>3. CASE ethernet_recv
  <2>1. Got("ETH", "RECV") /\ UNCHANGED icmp
    BY <1>3 DEF ethernet_recv, tasks
  <2>2. p.cmd = "RECV" /\ p \in Packet /\ ~down /\ box["ETH"] # <<>>
    BY <2>1, Receives
  <2>3. CASE Pass(Taken("ETH"), First("ETH"), p, IF p.type = "arp" THEN "ARP" ELSE "IP")
    <3> DEFINE n == IF p.type = "arp" THEN "ARP" ELSE "IP"
    <3>1. n \in Box /\ Fits(n, p)
      BY <2>2 DEF Fits
    <3>2. Pass(Taken("ETH"), First("ETH"), p, n)
      BY <2>3
    <3> HIDE DEF n
    <3> QED BY <1>1, <2>1, <2>2, <3>1, <3>2, PassStep
  <2>4. CASE kz_kmfree(Taken("ETH"), First("ETH"))
    <3>1. sent' = sent + (IF Carries(p) THEN 1 ELSE 0)
      BY <1>1, <2>2 DEF Carries, IInv, RestOK
    <3> QED BY <1>1, <2>1, <2>2, <2>4, <3>1, FreeStep
  <2> QED BY <1>3, <2>3, <2>4 DEF ethernet_recv
<1>4. CASE ethernet_send
  <2> DEFINE n == IF p.mac = ZERO THEN "ARP" ELSE "NET"
  <2>1. Got("ETH", "SEND") /\ UNCHANGED icmp /\ Pass(Taken("ETH"), First("ETH"), p, n)
    BY <1>4 DEF ethernet_send, tasks
  <2>2. p.cmd = "SEND" /\ p \in Packet /\ ~down /\ box["ETH"] # <<>> /\ Fits("ETH", p)
    BY <2>1, Receives
  <2>3. n \in Box /\ Fits(n, p)
    BY <2>2 DEF Fits
  <2> HIDE DEF n
  <2> QED BY <1>1, <2>1, <2>2, <2>3, PassStep
<1> QED BY <1>2, <1>3, <1>4 DEF ethernet_main

LEMMA IpStep ==
  ASSUME IInv, ip_main
  PROVE  IInv'
<1> USE Boxes
<1> DEFINE p == buf[First("IP")]
<1>1. ListsSame /\ UNCHANGED <<made, sent>>
  BY ListsUnchanged DEF ip_main, counts
<1>2. made \in Nat /\ sent \in Nat /\ icmp \in IcmpState /\ (icmp.left > 0 => icmp.pkt # 0)
  BY DEF IInv, RestOK, Hands
<1>3. CASE ip_start
  <2> DEFINE c == [Blank EXCEPT !.cmd = "IPADDR"]
  <2>1. ~down /\ PassNew(box, c, "ARP", {}) /\ UNCHANGED icmp
    BY <1>3 DEF ip_start
  <2>2. c \in Packet /\ c.cmd = "IPADDR"
    BY BlankIsPacket DEF Blank, Packet, Cmd
  <2>3. Fits("ARP", c) /\ ~Carries(c)
    BY <2>2 DEF Fits, Carries
  <2> HIDE DEF c
  <2>4. made' = made + (IF Carries(c) /\ ~down' THEN 1 ELSE 0)
    BY <1>1, <1>2, <2>3
  <2> QED BY <1>1, <1>2, <2>1, <2>2, <2>3, <2>4, NewStep
<1>4. CASE IP_CMD_REGPROTO
  <2>1. Got("IP", "REGPROTO") /\ kz_kmfree(Taken("IP"), First("IP")) /\ UNCHANGED icmp
    BY <1>4 DEF IP_CMD_REGPROTO
  <2>2. p.cmd = "REGPROTO" /\ ~down /\ box["IP"] # <<>>
    BY <2>1, Receives
  <2>3. sent' = sent + (IF Carries(p) THEN 1 ELSE 0)
    BY <1>1, <1>2, <2>2 DEF Carries
  <2> QED BY <1>1, <2>1, <2>2, <2>3, FreeStep
<1>5. CASE ip_recv
  <2>1. Got("IP", "RECV") /\ UNCHANGED icmp
    BY <1>5 DEF ip_recv, tasks
  <2>2. p.cmd = "RECV" /\ p \in Packet /\ ~down /\ box["IP"] # <<>>
    BY <2>1, Receives
  <2>3. CASE Pass(Taken("IP"), First("IP"), p, "ICMP")
    <3>1. Fits("ICMP", p)
      BY DEF Fits
    <3> QED BY <1>1, <2>1, <2>2, <2>3, <3>1, PassStep
  <2>4. CASE kz_kmfree(Taken("IP"), First("IP"))
    <3>1. sent' = sent + (IF Carries(p) THEN 1 ELSE 0)
      BY <1>1, <1>2, <2>2 DEF Carries
    <3> QED BY <1>1, <2>1, <2>2, <2>4, <3>1, FreeStep
  <2> QED BY <1>5, <2>3, <2>4 DEF ip_recv
<1>6. CASE ip_send
  <2> DEFINE c == [p EXCEPT !.mac = ZERO, !.type = "ip", !.from = ME]
  <2>1. Got("IP", "SEND") /\ UNCHANGED icmp /\ Pass(Taken("IP"), First("IP"), c, "ETH")
    BY <1>6 DEF ip_send, tasks
  <2>2. p.cmd = "SEND" /\ p \in Packet /\ ~down /\ box["IP"] # <<>> /\ Fits("IP", p)
    BY <2>1, Receives
  <2>3. c \in Packet /\ c.cmd = "SEND" /\ c.type = "ip" /\ c.mac = ZERO
    BY <2>2 DEF Packet, Mac, Type, Host
  <2>4. Fits("ETH", c) /\ (Carries(c) <=> Carries(p))
    BY <2>2, <2>3 DEF Fits, Carries
  <2> HIDE DEF c
  <2> QED BY <1>1, <2>1, <2>2, <2>3, <2>4, PassStep
<1> QED BY <1>3, <1>4, <1>5, <1>6 DEF ip_main

LEMMA DriverStep ==
  ASSUME IInv, send_packet
  PROVE  IInv'
<1> USE Boxes
<1> DEFINE p == buf[First("NET")]
<1>1. /\ ListsSame /\ UNCHANGED <<icmp, made>>
      /\ Got("NET", "SEND") /\ kz_kmfree(Taken("NET"), First("NET"))
      /\ sent' = IF p.type = "ip" THEN sent + 1 ELSE sent
  BY ListsUnchanged DEF send_packet, tasks
<1>2. p.cmd = "SEND" /\ ~down /\ box["NET"] # <<>>
  BY <1>1, Receives
<1>3. sent' = sent + (IF Carries(p) THEN 1 ELSE 0)
  BY <1>1, <1>2 DEF Carries, IInv, RestOK
<1> QED BY <1>1, <1>2, <1>3, FreeStep

LEMMA CommandStep ==
  ASSUME IInv, NEW h \in Target, send_icmp(h)
  PROVE  IInv'
<1> USE Boxes
<1> DEFINE c == packet("PING", ZERO, "", ME, h, "")
<1>1. ListsSame /\ UNCHANGED <<icmp, made, sent>> /\ ~down /\ PassNew(box, c, "ICMP", {})
  BY ListsUnchanged DEF send_icmp, tasks
<1>2. c \in Packet /\ c.cmd = "PING"
  BY NetStackAssumption DEF packet, Packet, Cmd, Mac, Type, Body, Host
<1>3. Fits("ICMP", c) /\ ~Carries(c)
  BY <1>2 DEF Fits, Carries
<1> HIDE DEF c
<1>4. /\ made' = made + (IF Carries(c) /\ ~down' THEN 1 ELSE 0)
      /\ icmp' \in IcmpState /\ (icmp'.left > 0 => icmp.pkt # 0)
  BY <1>1, <1>3 DEF IInv, RestOK, Hands
<1> QED BY <1>1, <1>2, <1>3, <1>4, NewStep

LEMMA FrameStep ==
  ASSUME IInv, NEW f \in Frame, recv_packet(f)
  PROVE  IInv'
<1> USE Boxes
<1> DEFINE c == packet("RECV", f.mac, f.type, f.from, f.to, f.body)
<1>1. ListsSame /\ UNCHANGED <<icmp, made, sent>> /\ ~down /\ PassNew(box, c, "ETH", {})
  BY ListsUnchanged DEF recv_packet, tasks
<1>2. c \in Packet /\ c.cmd = "RECV"
  BY NetStackAssumption DEF packet, Packet, Cmd, Mac, Type, Body
<1>3. Fits("ETH", c) /\ ~Carries(c)
  BY <1>2 DEF Fits, Carries
<1> HIDE DEF c
<1>4. /\ made' = made + (IF Carries(c) /\ ~down' THEN 1 ELSE 0)
      /\ icmp' \in IcmpState /\ (icmp'.left > 0 => icmp.pkt # 0)
  BY <1>1, <1>3 DEF IInv, RestOK, Hands
<1> QED BY <1>1, <1>2, <1>3, <1>4, NewStep

-----------------------------------------------------------------------------
(* Packets in a task's hands.                                              *)

LEMMA ToHand ==
  ASSUME IInv, ~down, NEW m \in Box, box[m] # <<>>, NEW h \in {"arp", "icmp"}, Held[h] = << 0 >>,
         Fits(h, buf[First(m)]), box' = Taken(m), UNCHANGED <<buf, used, down, ARPPKTLIST>>,
         Held'[h] = <<First(m)>>, \A g \in {"arp", "icmp"} : g # h => Held'[g] = Held[g]
  PROVE  BufOK' /\ Ownership'
<1>1. BufOK /\ Owned(Held, used, buf)
  BY Running DEF IInv
<1> DEFINE b == First(m)
           M == Popped(m)
<1>2. Owned(M, used \ {b}, buf) /\ b \in used /\ b \in Buffer /\ Taken(m) \in [Box -> Seq(Buffer)]
  BY <1>1, TakesFirst
<1>3. BufOK'
  BY <1>1, <1>2 DEF BufOK
<1>4. h \in Holder /\ m \in Holder /\ h # m
  BY DEF Holder, Box
<1>5. M[h] = <<0>> /\ DOMAIN M = Holder /\ \A g \in Holder : M[g] = IF g = m THEN Tail(Held[m]) ELSE Held[g]
  BY <1>4, HeldIs DEF Popped
<1>6. Becomes(M, Held', h, <<b>>)
  <2>1. \A n \in Box : Held'[n] = M[n]
    BY <1>1, <1>5, HeldIs, HeldNext DEF Taken, BufOK, Holder
  <2>2. Held'["waiting"] = M["waiting"]
    BY <1>5, HeldIs, HeldNext DEF Holder, Box
  <2>3. \A g \in {"arp", "icmp"} : g # h => Held'[g] = M[g]
    BY <1>5 DEF Holder, Box
  <2> QED BY <2>1, <2>2, <2>3 DEF Becomes, Holder
<1> HIDE DEF M, b
<1>7. 0 \notin Buffer
  BY NetBufAssumption DEF Buffer
<1>8. \A a \in used \ {b} : buf'[a] = buf[a]
  OBVIOUS
<1>9. Fits(h, buf'[b])
  BY DEF b
<1>10. Owned(Held', ((used \ {b}) \ {0}) \cup ({b} \cap Buffer), buf')
  BY <1>2, <1>4, <1>5, <1>6, <1>8, <1>9, Swaps
<1>11. ((used \ {b}) \ {0}) \cup ({b} \cap Buffer) = used'
  BY <1>1, <1>2, <1>7 DEF BufOK
<1> QED BY <1>3, <1>10, <1>11 DEF Ownership

\* All but what is in this task's hands.
Without(h) == [Held EXCEPT ![h] = <<0>>]

LEMMA FromHand ==
  ASSUME IInv, ~down, NEW h \in {"arp", "icmp"}, NEW x \in Buffer, Held[h] = <<x>>
  PROVE  /\ Owned(Without(h), used \ {x}, buf)
         /\ x \in used /\ At(Held, buf, x, h) /\ Fits(h, buf[x])
         /\ UNCHANGED ARPPKTLIST /\ arp'.pkt = (IF h = "arp" THEN 0 ELSE arp.pkt)
              /\ icmp'.pkt = (IF h = "icmp" THEN 0 ELSE icmp.pkt) => Remains(Without(h), box)
<1>1. BufOK /\ Owned(Held, used, buf)
  BY Running DEF IInv
<1>2. h \in Holder /\ 0 \notin Buffer /\ DOMAIN Held = Holder
  BY HeldIs, NetBufAssumption DEF Holder, Buffer
<1>3. 1 \in 1..Len(Held[h]) /\ Held[h][1] = x
  OBVIOUS
<1>4. x \in used /\ At(Held, buf, x, h)
  BY <1>1, <1>2, <1>3, Holds
<1>5. Becomes(Held, Without(h), h, <<0>>)
  BY <1>2 DEF Becomes, Without
<1>6. Owned(Without(h), (used \ {x}) \cup ({0} \cap Buffer), buf)
  BY <1>1, <1>2, <1>5, Swaps DEF BufOK
<1>7. (used \ {x}) \cup ({0} \cap Buffer) = used \ {x}
  BY <1>2
<1>8. UNCHANGED ARPPKTLIST /\ arp'.pkt = (IF h = "arp" THEN 0 ELSE arp.pkt)
        /\ icmp'.pkt = (IF h = "icmp" THEN 0 ELSE icmp.pkt) => Remains(Without(h), box)
  BY HeldIs DEF Remains, Without, Holder, Box
<1> QED BY <1>4, <1>6, <1>7, <1>8 DEF At

LEMMA IcmpStep ==
  ASSUME IInv, icmp_main
  PROVE  IInv'
<1> USE Boxes
<1> DEFINE p == buf[First("ICMP")]
<1>1. ListsSame /\ UNCHANGED arpVars
  BY ListsUnchanged DEF icmp_main
<1>2. /\ made \in Nat /\ sent \in Nat /\ icmp \in IcmpState /\ (icmp.left > 0 => icmp.pkt # 0)
      /\ buf \in [Buffer -> Packet]
  BY DEF IInv, BufOK, RestOK, Hands
<1>3. CASE icmp_start
  <2> DEFINE c == [Blank EXCEPT !.cmd = "REGPROTO"]
  <2>1. ~down /\ PassNew(box, c, "IP", {}) /\ UNCHANGED <<icmp, made, sent>>
    BY <1>3 DEF icmp_start, counts
  <2>2. c \in Packet /\ c.cmd = "REGPROTO"
    BY BlankIsPacket DEF Blank, Packet, Cmd
  <2>3. Fits("IP", c) /\ ~Carries(c)
    BY <2>2 DEF Fits, Carries
  <2> HIDE DEF c
  <2>4. made' = made + (IF Carries(c) /\ ~down' THEN 1 ELSE 0)
    BY <1>2, <2>1, <2>3
  <2> QED BY <1>1, <1>2, <2>1, <2>2, <2>3, <2>4, NewStep
<1>4. CASE icmp_recv
  <2>1. Got("ICMP", "RECV") /\ UNCHANGED icmp
    BY <1>4 DEF icmp_recv, tasks
  <2>2. p.cmd = "RECV" /\ p \in Packet /\ ~down /\ box["ICMP"] # <<>> /\ ~Carries(p)
    BY <2>1, Receives DEF Carries
  <2>3. CASE /\ PassNew(Taken("ICMP"), icmp_packet(p.from, "echo_reply"), "IP", {First("ICMP")})
             /\ IF down' THEN UNCHANGED counts ELSE Made
    <3> DEFINE c == icmp_packet(p.from, "echo_reply")
    <3>1. c \in Packet /\ Fits("IP", c) /\ Carries(c)
      BY <2>2 DEF icmp_packet, packet, Packet, Cmd, Mac, Type, Body, Host, Fits, Carries
    <3> HIDE DEF c
    <3>2. UNCHANGED sent /\ made' = made + (IF Carries(c) /\ ~down' THEN 1 ELSE 0)
      BY <1>2, <2>3, <3>1 DEF counts, Made
    <3>3. PassNew(Taken("ICMP"), c, "IP", {First("ICMP")})
      BY <2>3 DEF c
    <3> QED BY <1>1, <2>1, <2>2, <3>1, <3>2, <3>3, AnswerStep
  <2>4. CASE kz_kmfree(Taken("ICMP"), First("ICMP")) /\ UNCHANGED counts
    <3>1. UNCHANGED made /\ sent' = sent + (IF Carries(p) THEN 1 ELSE 0)
      BY <1>2, <2>2, <2>4 DEF counts
    <3> QED BY <1>1, <2>1, <2>2, <2>4, <3>1, FreeStep
  <2> QED BY <1>4, <2>3, <2>4 DEF icmp_recv
<1>5. CASE icmp_send
  <2>1. /\ icmp.pkt = 0 /\ Got("ICMP", "PING")
        /\ icmp' = [pkt |-> First("ICMP"), left |-> NUMBER]
        /\ box' = Taken("ICMP") /\ UNCHANGED <<buf, used, down, made, sent>>
    BY <1>5 DEF icmp_send, counts
  <2>2. p.cmd = "PING" /\ ~down /\ box["ICMP"] # <<>> /\ First("ICMP") \in Buffer
    BY <2>1, Receives
  <2>3. BufOK' /\ Ownership'
    <3>1. Held["icmp"] = <<0>> /\ Held'["icmp"] = <<First("ICMP")>> /\ Held'["arp"] = Held["arp"]
      BY <1>1, <2>1, HeldIs, HeldNext DEF arpVars
    <3>2. Fits("icmp", p)
      BY <2>2 DEF Fits
    <3> QED BY <1>1, <2>1, <2>2, <3>1, <3>2, ToHand DEF arpVars
  <2>4. RestOK' /\ Lists' /\ Hands'
    <3>1. icmp' \in IcmpState /\ (icmp'.left > 0 => icmp'.pkt # 0)
      BY <2>1, <2>2, NetStackAssumption, NetBufAssumption DEF IcmpState, Buffer
    <3> QED BY <1>1, <1>2, <2>1, <3>1, ListsStay
  <2>5. Unknown' /\ Balance'
    BY <1>1, <2>1 DEF IInv, Unknown, Balance, Transit, arpVars
  <2> QED BY <2>3, <2>4, <2>5 DEF IInv
<1>6. CASE icmp_sendpkt
  <2> DEFINE c == icmp_packet(buf[icmp.pkt].to, "echo")
  <2>1. /\ ~down /\ icmp.left > 0 /\ PassNew(box, c, "IP", {})
        /\ IF down' THEN UNCHANGED <<icmp, counts>> ELSE icmp' = [icmp EXCEPT !.left = @ - 1] /\ Made
    BY <1>6 DEF icmp_sendpkt
  <2>2. icmp.pkt \in Buffer
    BY <1>2, <2>1, NetBufAssumption DEF Buffer, IcmpState
  <2>3. c \in Packet /\ Fits("IP", c) /\ Carries(c)
    BY <1>2, <2>2 DEF icmp_packet, packet, Packet, Cmd, Mac, Type, Body, Host, Fits, Carries
  <2> HIDE DEF c
  <2>4. UNCHANGED sent /\ made' = made + (IF Carries(c) /\ ~down' THEN 1 ELSE 0)
    BY <1>2, <2>1, <2>3 DEF counts, Made
  <2>5. icmp' \in IcmpState /\ icmp'.pkt = icmp.pkt /\ (icmp'.left > 0 => icmp.pkt # 0)
    BY <1>2, <2>1 DEF IcmpState
  <2> QED BY <1>1, <2>1, <2>3, <2>4, <2>5, NewStep
<1>7. CASE icmp_sent
  <2>1. /\ ~down /\ icmp.pkt # 0 /\ kz_kmfree(box, icmp.pkt)
        /\ icmp' = [pkt |-> 0, left |-> 0] /\ UNCHANGED <<made, sent>>
    BY <1>7 DEF icmp_sent, counts
  <2> DEFINE x == icmp.pkt
  <2>2. x \in Buffer /\ Held["icmp"] = <<x>>
    BY <1>2, <2>1, HeldIs, NetBufAssumption DEF Buffer, IcmpState
  <2>3. /\ Owned(Without("icmp"), used \ {x}, buf)
        /\ x \in used /\ At(Held, buf, x, "icmp") /\ Fits("icmp", buf[x])
        /\ Remains(Without("icmp"), box)
    BY <1>1, <2>1, <2>2, FromHand DEF arpVars
  <2>4. BufOK /\ box \in [Box -> Seq(Buffer)] /\ kz_kmfree(box, x)
    BY <2>1 DEF IInv, BufOK
  <2> HIDE DEF x
  <2>5. BufOK' /\ Ownership'
    BY <2>1, <2>2, <2>3, <2>4, Frees
  <2>6. Unknown'
    <3>1. \A b \in used : b # x => buf'[b] = buf[b]
      BY <2>4 DEF kz_kmfree, BufOK
    <3>2. "icmp" \in Holder
      BY DEF Holder
    <3> QED BY <1>1, <2>1, <2>3, <3>1, <3>2, UnknownStays DEF arpVars
  <2>7. RestOK' /\ Lists' /\ Hands'
    <3>1. icmp' \in IcmpState /\ ~(icmp'.left > 0)
      BY <2>1, NetBufAssumption DEF IcmpState
    <3> QED BY <1>1, <1>2, <2>1, <3>1, ListsStay
  <2>8. Balance'
    <3>1. ~Carries(buf[x])
      BY <2>3 DEF Fits, Carries
    <3>2. Cardinality(Transit') = Cardinality(Transit) - 0
      BY <2>3, <2>4, <3>1, FreeCount
    <3> QED BY <2>1, <2>4, <3>2, TransitFinite DEF IInv, Balance
  <2> QED BY <2>5, <2>6, <2>7, <2>8 DEF IInv
<1> QED BY <1>3, <1>4, <1>5, <1>6, <1>7 DEF icmp_main

-----------------------------------------------------------------------------
(* The ARP task.                                                           *)

LEMMA TableHasNoNull ==
  ASSUME NEW h \in Host
  PROVE  h # NULL
BY ArpAssumption

LEMMA ArpChanges ==
  ASSUME NEW a \in ArpState, NEW pc \in {"recv", "flush", "reply"}, NEW pkt \in 0..BUFS
  PROVE  LET c == [a EXCEPT !.pc = pc, !.pkt = pkt]
         IN c \in ArpState /\ c.pc = pc /\ c.pkt = pkt
BY DEF ArpState

LEMMA KnownIs ==
  ASSUME IInv, NEW h \in Host
  PROVE  Known(ARPADRLIST, h) <=> InTable(ARPADRLIST, h)
BY KnownInTable, TableHasNoNull DEF IInv, RestOK, Lists, InTable

\* The table gets every host once.
LEMMA SetAddr ==
  ASSUME IInv, NEW h \in Host
  PROVE  /\ arp_setaddr(h) \in Seq(Host \cup {NULL})
         /\ Ended(arp_setaddr(h)) /\ Distinct(arp_setaddr(h))
<1> DEFINE S == Host \cup {NULL}
<1>1. ARPADRLIST \in Seq(S) /\ Ended(ARPADRLIST) /\ Distinct(ARPADRLIST) /\ NULL \in S /\ h \in S /\ h # NULL
  BY TableHasNoNull DEF IInv, RestOK, Lists
<1> HIDE DEF S
<1>2. Walked(ARPADRLIST) = ARPADRLIST
  BY <1>1, WalkedEnded
<1>3. CASE Known(ARPADRLIST, h)
  <2>1. arp_setaddr(h) = ARPADRLIST
    BY <1>2, <1>3 DEF arp_setaddr
  <2> QED BY <1>1, <2>1 DEF S
<1>4. CASE ~Known(ARPADRLIST, h)
  <2>1. arp_setaddr(h) = <<h>> \o ARPADRLIST
    <3>1. Walked(Append(ARPADRLIST, h)) = <<h>> \o ARPADRLIST
      BY <1>1, WalkedAppend
    <3> QED BY <1>2, <1>4, <3>1 DEF arp_setaddr
  <2>2. \A k \in 1..Len(ARPADRLIST) : ARPADRLIST[k] # h
    BY <1>1, <1>4, KnownInTable
  <2>3. <<h>> \o ARPADRLIST \in Seq(S)
    BY <1>1, Prepended
  <2>4. Ended(<<h>> \o ARPADRLIST)
    BY <1>1, PrependEnded
  <2>5. Distinct(<<h>> \o ARPADRLIST)
    BY <1>1, <2>2, PrependDistinct
  <2> QED BY <2>1, <2>3, <2>4, <2>5 DEF S
<1> QED BY <1>3, <1>4

LEMMA EndedHasOneNull ==
  ASSUME NEW S, NEW list \in Seq(S), Ended(list)
  PROVE  OneNull(list)
<1>1. Len(list) \in 1..Len(list)
  BY EndOfEnded
<1> QED BY <1>1 DEF Ended, OneNull

LEMMA ArpCommands ==
  ASSUME IInv, ARP_CMD_MACADDR \/ ARP_CMD_IPADDR, UNCHANGED <<icmp, made, sent>>
  PROVE  IInv'
<1> USE Boxes
<1>1. /\ Got("ARP", "MACADDR") \/ Got("ARP", "IPADDR")
      /\ kz_kmfree(Taken("ARP"), First("ARP"))
  BY DEF ARP_CMD_MACADDR, ARP_CMD_IPADDR
<1>2. ListsSame
  BY DEF ARP_CMD_MACADDR, ARP_CMD_IPADDR, arpVars, ListsSame, IInv, RestOK, ArpState
<1>3. ~down /\ box["ARP"] # <<>> /\ ~Carries(buf[First("ARP")])
  BY <1>1, Receives DEF Carries
<1>4. sent' = sent + (IF Carries(buf[First("ARP")]) THEN 1 ELSE 0)
  BY <1>3 DEF IInv, RestOK
<1> QED BY <1>1, <1>2, <1>3, <1>4, FreeStep

LEMMA ArpRecv ==
  ASSUME IInv, arp_recv, UNCHANGED <<icmp, made, sent>>
  PROVE  IInv'
<1> USE Boxes
<1> DEFINE b == First("ARP")
<1>1. arp.pc = "recv" /\ Got("ARP", "RECV") /\ UNCHANGED ARPPKTLIST
  BY DEF arp_recv, Idle
<1>2. ~down /\ box["ARP"] # <<>> /\ buf[b].cmd = "RECV" /\ buf[b] \in Packet /\ b \in Buffer
  BY <1>1, Receives
<1>3. CASE kz_kmfree(Taken("ARP"), b) /\ UNCHANGED <<ARPADRLIST, arp>>
  <2>1. ListsSame
    BY <1>1, <1>3 DEF ListsSame, IInv, RestOK
  <2>2. sent' = sent + (IF Carries(buf[b]) THEN 1 ELSE 0)
    BY <1>2 DEF Carries, IInv, RestOK
  <2> QED BY <1>2, <1>3, <2>1, <2>2, FreeStep
<1>4. CASE /\ ARPADRLIST' = arp_setaddr(buf[b].from)
           /\ arp' = [arp EXCEPT !.pc = "flush", !.pkt = b]
           /\ box' = Taken("ARP") /\ UNCHANGED <<buf, used, down>>
  <2>1. arp \in ArpState /\ arp.pkt = 0
    BY <1>1 DEF IInv, RestOK, Hands
  <2>2. arp' \in ArpState /\ arp'.pc = "flush" /\ arp'.pkt = b
    <3>1. b \in 0..BUFS
      BY <1>2, NetBufAssumption DEF Buffer
    <3> HIDE DEF b
    <3> QED BY <1>4, <2>1, <3>1, ArpChanges
  <2>3. BufOK' /\ Ownership'
    <3>1. Held["arp"] = <<0>> /\ Held'["arp"] = <<b>> /\ Held'["icmp"] = Held["icmp"]
      BY <2>1, <2>2, HeldIs, HeldNext
    <3>2. Fits("arp", buf[b])
      BY <1>2 DEF Fits
    <3> QED BY <1>1, <1>2, <1>4, <3>1, <3>2, ToHand
  <2>4. /\ ARPADRLIST' \in Seq(Host \cup {NULL})
        /\ Ended(ARPADRLIST') /\ Distinct(ARPADRLIST')
    BY <1>2, <1>4, SetAddr DEF Packet
  <2>5. RestOK' /\ Lists' /\ Hands'
    BY <1>1, <2>2, <2>4 DEF IInv, RestOK, Lists, Hands
  <2>6. Ended(ARPPKTLIST)
    BY <1>1 DEF IInv, Lists
  <2>7. Unknown'
    BY <1>1, <2>2, <2>6 DEF Unknown, Ended
  <2>8. Balance'
    BY <1>4 DEF IInv, Balance, Transit
  <2> QED BY <2>3, <2>5, <2>7, <2>8 DEF IInv
<1> QED BY <1>3, <1>4 DEF arp_recv

\* A packet is put in front of those that wait.
LEMMA PutIn ==
  ASSUME IInv, Got("ARP", "SEND"), Ended(ARPPKTLIST), ARPPKTLIST' = Walked(Append(ARPPKTLIST, First("ARP"))),
         UNCHANGED <<arp.pkt, icmp.pkt>>
  PROVE  /\ ARPPKTLIST' = <<First("ARP")>> \o ARPPKTLIST
         /\ ARPPKTLIST' \in Seq(Buffer \cup {NULL}) /\ Ended(ARPPKTLIST')
         /\ \E M : Remains(M, Taken("ARP")) /\ Owned(M, used, buf)
<1> USE Boxes
<1> DEFINE b == First("ARP")
           S == Buffer \cup {NULL}
           P == Popped("ARP")
           M == [P EXCEPT !["waiting"] = <<b>> \o @]
<1>1. /\ buf[b].cmd = "SEND" /\ b \in Buffer /\ ~down /\ box["ARP"] # <<>> /\ b # NULL
      /\ ARPPKTLIST \in Seq(S) /\ b \in S /\ NULL \in S
  BY Receives, ArpAssumption DEF IInv, RestOK
<1>2. ARPPKTLIST' = <<b>> \o ARPPKTLIST
  <2> HIDE DEF S, b
  <2>1. Walked(Append(ARPPKTLIST, b)) = <<b>> \o ARPPKTLIST
    BY <1>1, WalkedAppend
  <2> QED BY <2>1 DEF b
<1>3. ARPPKTLIST' \in Seq(S) /\ Ended(ARPPKTLIST')
  <2> HIDE DEF S, b
  <2>1. <<b>> \o ARPPKTLIST \in Seq(S)
    BY <1>1, Prepended
  <2>2. Ended(<<b>> \o ARPPKTLIST)
    BY <1>1, PrependEnded
  <2> QED BY <1>2, <2>1, <2>2
<1>4. Owned(P, used \ {b}, buf) /\ b \in used
  BY <1>1, Running, TakesFirst DEF IInv
<1>5. "waiting" \in Holder /\ "ARP" # "waiting" /\ P["waiting"] = ARPPKTLIST /\ DOMAIN P = Holder
  BY HeldIs DEF Popped, Holder
<1>6. Becomes(P, M, "waiting", <<b>> \o P["waiting"]) /\ M["waiting"] = ARPPKTLIST'
  BY <1>2, <1>5 DEF Becomes
<1>7. Remains(M, Taken("ARP"))
  <2>1. \A m \in Box : M[m] = Taken("ARP")[m]
    BY <1>5, HeldIs DEF IInv, BufOK, Popped, Taken, Box, Holder
  <2>2. M["arp"] = <<arp'.pkt>> /\ M["icmp"] = <<icmp'.pkt>>
    BY <1>5, HeldIs DEF Popped, Holder
  <2> QED BY <1>6, <2>1, <2>2 DEF Remains
<1>8. Fits("waiting", buf[b])
  BY <1>1 DEF Fits
<1> HIDE DEF P, M, b
<1>9. Owned(M, (used \ {b}) \cup ({b} \cap Buffer), buf)
  <2>1. P["waiting"] \in Seq(S) /\ b \in S /\ b \notin used \ {b}
    BY <1>1, <1>5
  <2> HIDE DEF S
  <2> QED BY <1>4, <1>5, <1>6, <1>8, <2>1, Gets
<1>10. (used \ {b}) \cup ({b} \cap Buffer) = used
  BY <1>1, <1>4
<1> QED BY <1>2, <1>3, <1>7, <1>9, <1>10 DEF b

LEMMA ArpSend ==
  ASSUME IInv, arp_send, UNCHANGED <<icmp, made, sent>>
  PROVE  IInv'
<1> USE Boxes
<1> DEFINE b == First("ARP")
           to == buf[b].to
<1>1. /\ arp.pc = "recv" /\ Got("ARP", "SEND")
      /\ ARPPKTLIST' = Walked(Append(ARPPKTLIST, b)) /\ ARPADRLIST' = Walked(ARPADRLIST)
  BY DEF arp_send, Idle
<1>2. /\ ~down /\ box["ARP"] # <<>> /\ buf[b].cmd = "SEND" /\ buf[b] \in Packet
      /\ b \in Buffer /\ b \in used /\ to \in Host /\ At(Held, buf, b, "ARP")
  BY <1>1, Receives DEF Packet
<1>3. /\ Ended(ARPPKTLIST) /\ BufOK /\ arp \in ArpState /\ ARPPKTLIST \in Seq(Buffer \cup {NULL})
      /\ Taken("ARP") \in [Box -> Seq(Buffer)]
  BY <1>1, <1>2, Running, TakesFirst DEF IInv, Lists, RestOK
<1>4. ARPADRLIST' = ARPADRLIST
  BY <1>1, WalkedEnded DEF IInv, RestOK, Lists
<1>5. arp'.pkt = arp.pkt /\ arp' \in ArpState /\ arp'.pc \in {"recv", "flush"}
  BY <1>1, <1>3 DEF arp_send, ArpState
<1>6. PICK M : Remains(M, Taken("ARP")) /\ Owned(M, used, buf)
  BY <1>1, <1>3, <1>5, PutIn
<1>7. /\ ARPPKTLIST' = <<b>> \o ARPPKTLIST
      /\ ARPPKTLIST' \in Seq(Buffer \cup {NULL}) /\ Ended(ARPPKTLIST')
  BY <1>1, <1>3, <1>5, PutIn
<1>8. OneNull(ARPPKTLIST')
  BY <1>7, EndedHasOneNull
<1>9. RestOK' /\ Lists' /\ Hands'
  <2>1. arp'.pkt = 0
    BY <1>1, <1>5 DEF IInv, Hands
  <2> QED BY <1>4, <1>5, <1>7, <1>8, <2>1 DEF IInv, RestOK, Lists, Hands
<1>10. CASE /\ Known(ARPADRLIST, to) /\ arp' = [arp EXCEPT !.pc = "flush"]
            /\ box' = Taken("ARP") /\ UNCHANGED <<buf, used, down>>
  <2>1. BufOK'
    BY <1>3, <1>10 DEF BufOK
  <2>2. Ownership'
    <3>1. \A h \in Holder : Held'[h] = M[h]
      BY <1>6, <1>10, HeldAs
    <3>2. Owned(Held', used, buf')
      BY <1>6, <1>10, <3>1, OwnedSame
    <3> QED BY <1>10, <3>2 DEF Ownership
  <2>3. Unknown'
    <3>1. arp'.pc = "flush"
      BY <1>3, <1>10 DEF ArpState
    <3> QED BY <1>7, <3>1 DEF Unknown, Ended
  <2>4. Balance'
    BY <1>10 DEF IInv, Balance, Transit
  <2> QED BY <1>9, <2>1, <2>2, <2>3, <2>4 DEF IInv
<1>11. CASE /\ ~Known(ARPADRLIST, to)
            /\ PassNew(Taken("ARP"), arp_packet("request", ALL, to), "ETH", {}) /\ UNCHANGED arp
  <2> DEFINE c == arp_packet("request", ALL, to)
  <2>1. c \in Packet /\ Fits("ETH", c) /\ ~Carries(c)
    BY <1>2 DEF arp_packet, packet, Packet, Cmd, Mac, Type, Body, Host, Fits, Right, Carries
  <2> HIDE DEF c
  <2>2. {} \in SUBSET used /\ used \ {} = used /\ PassNew(Taken("ARP"), c, "ETH", {})
    BY <1>11 DEF c
  <2>3. BufOK' /\ Ownership'
    BY <1>2, <1>3, <1>6, <2>1, <2>2, PassesNew
  <2>4. Balance'
    <3>1. Cardinality(Transit') = Cardinality(Transit) + 0
      BY <1>2, <1>3, <2>1, <2>2, NewCount
    <3> QED BY <1>3, <3>1, TransitFinite DEF IInv, Balance
  <2>5. Unknown'
    <3>1. \A a \in used : buf'[a] = buf[a]
      <4>1. CASE UNCHANGED buf
        BY <4>1
      <4>2. CASE /\ used # Buffer
                 /\ buf' = [a \in Buffer |-> IF a = New THEN c ELSE IF a \in {} THEN Blank ELSE buf[a]]
        <5>1. New \notin used
          BY <1>3, <4>2, NewIsFree
        <5> QED BY <1>3, <4>2, <5>1 DEF BufOK
      <4> QED BY <2>2, <4>1, <4>2 DEF PassNew
    <3> DEFINE l == <<b>> \o ARPPKTLIST
    <3>2. /\ Len(l) = Len(ARPPKTLIST) + 1 /\ Len(ARPPKTLIST) \in Nat /\ l[1] = b
          /\ \A k \in 1..Len(ARPPKTLIST) : l[k + 1] = ARPPKTLIST[k]
      <4> DEFINE S == Buffer \cup {NULL}
      <4>1. ARPPKTLIST \in Seq(S) /\ b \in S
        BY <1>2, <1>3
      <4> HIDE DEF S, b
      <4> QED BY <4>1, Prepended
    <3>3. ARPPKTLIST' = l
      BY <1>7
    <3> HIDE DEF l
    <3> SUFFICES ASSUME NEW k \in 1..Len(l), l[k] # NULL PROVE ~InTable(ARPADRLIST, buf'[l[k]].to)
      BY <1>4, <3>3 DEF Unknown
    <3>4. CASE k = 1
      <4>1. ~InTable(ARPADRLIST, to)
        BY <1>2, <1>11, KnownIs
      <4> QED BY <1>2, <3>1, <3>2, <3>4, <4>1
    <3>5. CASE k # 1
      <4>1. k - 1 \in 1..Len(ARPPKTLIST) /\ (k - 1) + 1 = k
        BY <3>2, <3>5
      <4>2. l[k] = ARPPKTLIST[k - 1]
        BY <3>2, <4>1
      <4>3. l[k] \in used
        BY <1>2, <4>1, <4>2, Waits
      <4>4. Len(ARPPKTLIST) \in 1..Len(ARPPKTLIST) /\ ARPPKTLIST[Len(ARPPKTLIST)] = NULL
        BY <1>3, EndOfEnded DEF Ended
      <4>5. ~InTable(ARPADRLIST, buf[ARPPKTLIST[k - 1]].to)
        BY <1>1, <4>1, <4>2, <4>4 DEF IInv, Unknown
      <4> QED BY <3>1, <4>2, <4>3, <4>5
    <3> QED BY <3>4, <3>5
  <2> QED BY <1>9, <2>3, <2>4, <2>5 DEF IInv
<1> QED BY <1>10, <1>11 DEF arp_send

\* The walk takes a packet out of the list.
LEMMA TakesWaiting ==
  ASSUME IInv, ~down
  PROVE  LET M == [Held EXCEPT !["waiting"] = Tail(@)]
             b == Head(ARPPKTLIST)
         IN /\ Owned(M, used \ {b}, buf)
            /\ b \in Buffer \cup {NULL} /\ b = ARPPKTLIST[1] /\ Len(ARPPKTLIST) \in Nat \ {0}
            /\ Tail(ARPPKTLIST) \in Seq(Buffer \cup {NULL}) /\ Len(Tail(ARPPKTLIST)) = Len(ARPPKTLIST) - 1
            /\ \A k \in 1..(Len(ARPPKTLIST) - 1) : Tail(ARPPKTLIST)[k] = ARPPKTLIST[k + 1]
<1> DEFINE M == [Held EXCEPT !["waiting"] = Tail(@)]
           S == Buffer \cup {NULL}
           b == Head(ARPPKTLIST)
<1>1. ARPPKTLIST \in Seq(S) /\ OneNull(ARPPKTLIST) /\ Owned(Held, used, buf)
  BY Running DEF IInv, RestOK, Lists
<1>2. ARPPKTLIST # <<>> /\ Len(ARPPKTLIST) \in Nat \ {0}
  <2>1. Len(ARPPKTLIST) \in Nat /\ 1..Len(ARPPKTLIST) # {}
    BY <1>1, LenProperties DEF OneNull
  <2> HIDE DEF S
  <2> QED BY <1>1, <2>1, EmptySeq
<1>3. "waiting" \in Holder /\ Held["waiting"] = ARPPKTLIST /\ DOMAIN Held = Holder
  BY HeldIs DEF Holder
<1>4. Becomes(Held, M, "waiting", Tail(Held["waiting"]))
  BY <1>3 DEF Becomes
<1> HIDE DEF M, S
<1>5. Owned(M, used \ {b}, buf)
  BY <1>1, <1>2, <1>3, <1>4, Takes
<1>6. /\ b \in S /\ b = ARPPKTLIST[1] /\ Tail(ARPPKTLIST) \in Seq(S)
      /\ Len(Tail(ARPPKTLIST)) = Len(ARPPKTLIST) - 1
      /\ \A k \in 1..(Len(ARPPKTLIST) - 1) : Tail(ARPPKTLIST)[k] = ARPPKTLIST[k + 1]
  <2>1. Len(Tail(ARPPKTLIST)) = Len(ARPPKTLIST) - 1 /\ \A k \in 1..Len(Tail(ARPPKTLIST)) : Tail(ARPPKTLIST)[k] = ARPPKTLIST[k + 1]
    BY <1>1, <1>2, HeadTailProperties
  <2> QED BY <1>1, <1>2, <2>1, HeadTailProperties
<1> QED BY <1>2, <1>5, <1>6 DEF M, S

\* ... and puts it behind the others.
LEMMA Rotates ==
  ASSUME IInv, ~down, ARPPKTLIST' = Append(Tail(ARPPKTLIST), Head(ARPPKTLIST)),
         UNCHANGED <<bufVars, arp.pkt, icmp.pkt>>
  PROVE  /\ BufOK' /\ Ownership'
         /\ ARPPKTLIST' \in Seq(Buffer \cup {NULL}) /\ Len(ARPPKTLIST') = Len(ARPPKTLIST)
         /\ \A k \in 1..(Len(ARPPKTLIST) - 1) : ARPPKTLIST'[k] = ARPPKTLIST[k + 1]
         /\ ARPPKTLIST'[Len(ARPPKTLIST)] = ARPPKTLIST[1]
<1> DEFINE M == [Held EXCEPT !["waiting"] = Tail(@)]
           S == Buffer \cup {NULL}
           b == Head(ARPPKTLIST)
           t == Tail(ARPPKTLIST)
<1>1. /\ Owned(M, used \ {b}, buf)
      /\ b \in S /\ b = ARPPKTLIST[1] /\ Len(ARPPKTLIST) \in Nat \ {0}
      /\ t \in Seq(S) /\ Len(t) = Len(ARPPKTLIST) - 1
      /\ \A k \in 1..(Len(ARPPKTLIST) - 1) : t[k] = ARPPKTLIST[k + 1]
  BY TakesWaiting
<1>2. "waiting" \in Holder /\ Held["waiting"] = ARPPKTLIST /\ DOMAIN Held = Holder /\ M["waiting"] = t
  BY HeldIs DEF Holder
<1>3. Becomes(M, Held', "waiting", Append(M["waiting"], b))
  <2>1. \A h \in Holder : h # "waiting" => Held'[h] = M[h]
    BY <1>2, HeldIs, HeldNext DEF bufVars, Holder, Box
  <2>2. Held'["waiting"] = Append(t, b)
    BY HeldNext
  <2> QED BY <1>2, <2>1, <2>2 DEF Becomes
<1>4. b \in Buffer => b \in used /\ Fits("waiting", buf[b])
  <2> SUFFICES ASSUME b \in Buffer PROVE b \in used /\ Fits("waiting", buf[b])
    OBVIOUS
  <2>1. 1 \in 1..Len(ARPPKTLIST) /\ ARPPKTLIST[1] # NULL
    BY <1>1, ArpAssumption
  <2> QED BY <1>1, <2>1, Waits DEF At
<1>5. BufOK /\ UNCHANGED <<buf, used, box, down>> /\ used \in SUBSET Buffer
  BY DEF IInv, BufOK, bufVars
<1>6. /\ Append(t, b) \in Seq(S) /\ Len(Append(t, b)) = Len(t) + 1
      /\ Append(t, b)[Len(t) + 1] = b /\ \A k \in 1..Len(t) : Append(t, b)[k] = t[k]
  <2> HIDE DEF S, t, b
  <2> QED BY <1>1, AppendProperties
<1>7. Owned(Held', (used \ {b}) \cup ({b} \cap Buffer), buf')
  <2> DEFINE V == used \ {b}
  <2>1. b \notin V /\ \A a \in V : buf'[a] = buf[a]
    BY <1>5
  <2>2. b \in Buffer => Fits("waiting", buf'[b])
    BY <1>4, <1>5
  <2>3. Owned(M, V, buf) /\ M["waiting"] \in Seq(S) /\ b \in S
    BY <1>1, <1>2
  <2> HIDE DEF M, S, b, V
  <2>4. Owned(Held', V \cup ({b} \cap Buffer), buf')
    BY <1>2, <1>3, <2>1, <2>2, <2>3, Gets
  <2> QED BY <2>4 DEF V
<1>8. (used \ {b}) \cup ({b} \cap Buffer) = used'
  BY <1>4, <1>5
<1>9. BufOK' /\ Ownership'
  BY <1>5, <1>7, <1>8 DEF BufOK, Ownership
<1>10. Len(ARPPKTLIST') = Len(ARPPKTLIST) /\ ARPPKTLIST'[Len(ARPPKTLIST)] = ARPPKTLIST[1]
  BY <1>1, <1>6
<1>11. \A k \in 1..(Len(ARPPKTLIST) - 1) : ARPPKTLIST'[k] = ARPPKTLIST[k + 1]
  BY <1>1, <1>6
<1> QED BY <1>6, <1>9, <1>10, <1>11

\* The NULL moves one place with the others, from the first place to the last.
LEMMA NullRotates ==
  ASSUME NEW n \in Nat \ {0}, NEW e \in 1..n, NEW list, NEW l,
         \A k \in 1..n : list[k] = NULL <=> k = e,
         \A k \in 1..(n - 1) : l[k] = list[k + 1], l[n] = list[1]
  PROVE  /\ e = 1 => \A k \in 1..n : l[k] = NULL <=> k = n
         /\ e # 1 => e - 1 \in 1..n /\ \A k \in 1..n : l[k] = NULL <=> k = e - 1
<1>1. l[n] = NULL <=> e = 1
  OBVIOUS
<1>2. \A k \in 1..(n - 1) : l[k] = NULL <=> k + 1 = e
  <2> SUFFICES ASSUME NEW k \in 1..(n - 1) PROVE l[k] = NULL <=> k + 1 = e
    OBVIOUS
  <2>1. k + 1 \in 1..n /\ l[k] = list[k + 1]
    OBVIOUS
  <2> QED BY <2>1
<1>3. \A k \in 1..n : k = n \/ k \in 1..(n - 1)
  OBVIOUS
<1> QED BY <1>1, <1>2, <1>3

LEMMA ArpFlush ==
  ASSUME IInv, arp_flush, UNCHANGED <<icmp, made, sent>>
  PROVE  IInv'
<1> USE Boxes
<1> DEFINE b == Head(ARPPKTLIST)
           t == Tail(ARPPKTLIST)
           n == Len(ARPPKTLIST)
<1>1. ~down /\ arp.pc = "flush" /\ ARPADRLIST' = ARPADRLIST
  BY DEF arp_flush
<1>2. /\ b \in Buffer \cup {NULL} /\ b = ARPPKTLIST[1] /\ n \in Nat \ {0}
      /\ t \in Seq(Buffer \cup {NULL}) /\ Len(t) = n - 1
      /\ \A k \in 1..(n - 1) : t[k] = ARPPKTLIST[k + 1]
  BY <1>1, TakesWaiting
<1>3. PICK e \in 1..n : \A k \in 1..n : ARPPKTLIST[k] = NULL <=> k = e
  BY DEF IInv, Lists, OneNull
<1>4. \A k \in 1..n : k > e => ~InTable(ARPADRLIST, buf[ARPPKTLIST[k]].to)
  BY <1>1, <1>3 DEF IInv, Unknown
<1>5. BufOK /\ RestOK /\ arp \in ArpState /\ Ended(ARPADRLIST) /\ Distinct(ARPADRLIST) /\ Hands
  BY DEF IInv, RestOK, Lists
<1>6. CASE /\ b = NULL
           /\ ARPPKTLIST' = Append(t, NULL)
           /\ arp' = [arp EXCEPT !.pc = IF arp.pkt = 0 THEN "recv" ELSE "reply"]
           /\ UNCHANGED bufVars
  <2>1. e = 1
    BY <1>2, <1>3, <1>6
  <2>2. arp' \in ArpState /\ arp'.pkt = arp.pkt /\ arp'.pc = IF arp.pkt = 0 THEN "recv" ELSE "reply"
    BY <1>5, <1>6 DEF ArpState
  <2>3. /\ BufOK' /\ Ownership'
        /\ ARPPKTLIST' \in Seq(Buffer \cup {NULL}) /\ Len(ARPPKTLIST') = n
        /\ \A k \in 1..(n - 1) : ARPPKTLIST'[k] = ARPPKTLIST[k + 1]
        /\ ARPPKTLIST'[n] = NULL
    BY <1>1, <1>2, <1>6, <2>2, Rotates
  <2>4. \A k \in 1..n : ARPPKTLIST'[k] = NULL <=> k = n
    <3>1. ARPPKTLIST'[n] = ARPPKTLIST[1]
      BY <1>2, <1>6, <2>3
    <3> HIDE DEF n, b, t
    <3> QED BY <1>2, <1>3, <2>1, <2>3, <3>1, NullRotates
  <2>5. Ended(ARPPKTLIST')
    <3>1. ARPPKTLIST' # <<>>
      BY <1>2, <2>3
    <3> HIDE DEF n, b, t
    <3> QED BY <2>3, <2>4, <3>1 DEF Ended
  <2>6. OneNull(ARPPKTLIST')
    BY <2>3, <2>5, EndedHasOneNull
  <2>7. RestOK' /\ Lists' /\ Hands'
    BY <1>1, <1>5, <2>2, <2>3, <2>5, <2>6 DEF RestOK, Lists, Hands
  <2>8. Unknown'
    <3> SUFFICES ASSUME NEW k \in 1..n, ARPPKTLIST'[k] # NULL
                 PROVE  ~InTable(ARPADRLIST, buf[ARPPKTLIST'[k]].to)
      BY <1>1, <1>6, <2>3 DEF Unknown, bufVars
    <3> HIDE DEF n, b, t
    <3>1. k # n /\ k \in 1..(n - 1) /\ k + 1 \in 1..n /\ k + 1 > e
      BY <1>2, <2>1, <2>3
    <3>2. ARPPKTLIST'[k] = ARPPKTLIST[k + 1]
      BY <2>3, <3>1
    <3> QED BY <1>4, <3>1, <3>2
  <2>9. Balance'
    BY <1>6 DEF IInv, Balance, Transit, bufVars
  <2> QED BY <2>3, <2>7, <2>8, <2>9 DEF IInv
<1>7. ASSUME b # NULL
      PROVE  /\ b \in Buffer /\ b \in used /\ buf[b] \in Packet /\ buf[b].cmd = "SEND" /\ buf[b].to \in Host
             /\ e # 1 /\ 1 \in 1..n
  <2>1. 1 \in 1..n
    BY <1>2
  <2>2. b \in used /\ b \in Buffer /\ Fits("waiting", buf[b])
    BY <1>1, <1>2, <1>7, <2>1, Waits DEF At
  <2> QED BY <1>2, <1>3, <1>5, <1>7, <2>1, <2>2 DEF BufOK, Fits, Packet
<1>8. CASE /\ b # NULL /\ Known(ARPADRLIST, buf[b].to)
           /\ ARPPKTLIST' = t
           /\ Pass(box, b, [buf[b] EXCEPT !.cmd = "SEND", !.mac = buf[b].to], "ETH")
           /\ UNCHANGED arp
  <2> DEFINE c == [buf[b] EXCEPT !.cmd = "SEND", !.mac = buf[b].to]
             M == [Held EXCEPT !["waiting"] = Tail(@)]
  <2>1. c \in Packet /\ c.cmd = "SEND" /\ c.mac = c.to /\ c.type = buf[b].type
    BY <1>7, <1>8 DEF Packet, Cmd, Mac, Type, Body
  <2>2. Fits("ETH", c) /\ (Carries(c) <=> Carries(buf[b]))
    BY <1>7, <1>8, <2>1 DEF Fits, Right, Carries
  <2>3. Owned(M, used \ {b}, buf)
    BY <1>1, TakesWaiting
  <2>4. Remains(M, box)
    BY <1>8, HeldIs DEF Remains, Holder, Box
  <2> HIDE DEF c, M
  <2>5. Pass(box, b, c, "ETH") /\ b \in used /\ box \in [Box -> Seq(Buffer)]
    BY <1>5, <1>7, <1>8 DEF c, BufOK
  <2> HIDE DEF b
  <2>6. BufOK' /\ Ownership'
    BY <1>1, <1>5, <2>1, <2>2, <2>3, <2>4, <2>5, Passes
  <2>7. Balance'
    <3>1. Transit' = Transit
      BY <1>5, <2>2, <2>5, PassCount
    <3> QED BY <3>1 DEF IInv, Balance
  <2>8. OneNull(ARPPKTLIST')
    <3>1. e - 1 \in 1..Len(t) /\ \A k \in 1..Len(t) : t[k] = NULL <=> k = e - 1
      BY <1>2, <1>3, <1>7, <1>8
    <3> QED BY <1>8, <3>1 DEF OneNull
  <2>9. RestOK' /\ Lists' /\ Hands'
    BY <1>1, <1>2, <1>5, <1>8, <2>8 DEF RestOK, Lists, Hands
  <2>10. Unknown'
    <3> SUFFICES ASSUME NEW f \in 1..Len(t), NEW k \in 1..Len(t), t[f] = NULL, t[k] # NULL, k > f
                 PROVE  ~InTable(ARPADRLIST, buf'[t[k]].to)
      BY <1>1, <1>8 DEF Unknown
    <3>1. f + 1 = e /\ k + 1 \in 1..n /\ k + 1 > e /\ t[k] = ARPPKTLIST[k + 1]
      BY <1>2, <1>3
    <3>2. t[k] # b /\ t[k] \in used
      <4>1. t[k] \in used /\ At(Held, buf, t[k], "waiting") /\ Held["waiting"] = ARPPKTLIST
        BY <1>1, <3>1, Waits, HeldIs
      <4>2. 1 \in 1..n /\ ARPPKTLIST[1] = b /\ k + 1 # 1
        BY <1>2
      <4> QED BY <3>1, <4>1, <4>2 DEF At, Once
    <3>3. buf'[t[k]] = buf[t[k]]
      BY <1>5, <2>5, <3>2 DEF Pass, BufOK
    <3> QED BY <1>4, <3>1, <3>3
  <2> QED BY <2>6, <2>7, <2>9, <2>10 DEF IInv
<1>9. CASE /\ b # NULL /\ ~Known(ARPADRLIST, buf[b].to)
           /\ ARPPKTLIST' = Append(t, b)
           /\ UNCHANGED <<bufVars, arp>>
  <2>1. /\ BufOK' /\ Ownership'
        /\ ARPPKTLIST' \in Seq(Buffer \cup {NULL}) /\ Len(ARPPKTLIST') = n
        /\ \A k \in 1..(n - 1) : ARPPKTLIST'[k] = ARPPKTLIST[k + 1]
        /\ ARPPKTLIST'[n] = b
    BY <1>1, <1>2, <1>9, Rotates
  <2>2. e - 1 \in 1..n /\ \A k \in 1..n : ARPPKTLIST'[k] = NULL <=> k = e - 1
    <3>1. ARPPKTLIST'[n] = ARPPKTLIST[1]
      BY <1>2, <2>1
    <3>2. e # 1
      BY <1>7, <1>9
    <3> HIDE DEF n, b, t
    <3> QED BY <1>2, <1>3, <2>1, <3>1, <3>2, NullRotates
  <2>3. OneNull(ARPPKTLIST')
    <3> HIDE DEF n, b, t
    <3> QED BY <2>1, <2>2 DEF OneNull
  <2>4. RestOK' /\ Lists' /\ Hands'
    BY <1>1, <1>5, <1>9, <2>1, <2>3 DEF RestOK, Lists, Hands
  <2>5. Unknown'
    <3>1. ASSUME NEW k \in 1..n, k > e - 1 PROVE ~InTable(ARPADRLIST, buf[ARPPKTLIST'[k]].to)
      <4>1. CASE k = n
        BY <1>7, <1>9, <1>5, <2>1, <4>1, KnownIs
      <4>2. CASE k # n
        <5> HIDE DEF n, b, t
        <5>1. k \in 1..(n - 1) /\ k + 1 \in 1..n /\ k + 1 > e
          BY <1>2, <3>1, <4>2
        <5>2. ARPPKTLIST'[k] = ARPPKTLIST[k + 1]
          BY <2>1, <5>1
        <5> QED BY <1>4, <5>1, <5>2
      <4> QED BY <4>1, <4>2
    <3>2. Len(ARPPKTLIST') = n /\ buf' = buf /\ ARPADRLIST' = ARPADRLIST /\ arp'.pc = "flush"
      BY <1>1, <1>9, <2>1 DEF bufVars
    <3> HIDE DEF n, b, t
    <3>3. ASSUME NEW f \in 1..n, NEW k \in 1..n, ARPPKTLIST'[f] = NULL, k > f
          PROVE  ~InTable(ARPADRLIST, buf[ARPPKTLIST'[k]].to)
      BY <2>2, <3>1, <3>3
    <3> QED BY <3>2, <3>3 DEF Unknown
  <2>6. Balance'
    BY <1>9 DEF IInv, Balance, Transit, bufVars
  <2> QED BY <2>1, <2>4, <2>5, <2>6 DEF IInv
<1> QED BY <1>6, <1>8, <1>9 DEF arp_flush

LEMMA ArpReply ==
  ASSUME IInv, arp_reply, UNCHANGED <<icmp, made, sent>>
  PROVE  IInv'
<1> USE Boxes
<1> DEFINE x == arp.pkt
           p == buf[x]
<1>1. /\ ~down /\ arp.pc = "reply" /\ UNCHANGED <<ARPADRLIST, ARPPKTLIST>>
      /\ arp' = [arp EXCEPT !.pc = "recv", !.pkt = 0]
  BY DEF arp_reply
<1>2. BufOK /\ RestOK /\ arp \in ArpState /\ x # 0
  BY <1>1 DEF IInv, RestOK, Hands
<1>3. x \in Buffer /\ 0 \in 0..BUFS
  BY <1>2, NetBufAssumption DEF ArpState, Buffer
<1>4. arp' \in ArpState /\ arp'.pc = "recv" /\ arp'.pkt = 0
  BY <1>1, <1>2, <1>3, ArpChanges
<1>5. Held["arp"] = <<x>> /\ "arp" \in Holder
  BY HeldIs DEF Holder
<1>6. /\ Owned(Without("arp"), used \ {x}, buf)
      /\ x \in used /\ At(Held, buf, x, "arp") /\ Fits("arp", p)
      /\ Remains(Without("arp"), box)
  BY <1>1, <1>3, <1>4, <1>5, FromHand
<1>7. p \in Packet /\ p.cmd = "RECV" /\ ~Carries(p) /\ p.from \in Host /\ box \in [Box -> Seq(Buffer)]
  BY <1>2, <1>3, <1>6 DEF BufOK, Fits, Carries, Packet
<1>8. RestOK' /\ Lists' /\ Hands'
  BY <1>1, <1>4 DEF IInv, RestOK, Lists, Hands
<1>9. ASSUME \A b \in used : b # x => buf'[b] = buf[b] PROVE Unknown'
  BY <1>1, <1>4, <1>5, <1>6, <1>9, UnknownStays
<1> HIDE DEF x
<1>10. CASE PassNew(box, arp_packet("reply", p.from, p.from), "ETH", {x})
  <2> DEFINE c == arp_packet("reply", p.from, p.from)
  <2>1. c \in Packet /\ Fits("ETH", c) /\ ~Carries(c)
    BY <1>7 DEF arp_packet, packet, Packet, Cmd, Mac, Type, Body, Host, Fits, Right, Carries
  <2> HIDE DEF c, p
  <2>2. PassNew(box, c, "ETH", {x}) /\ {x} \in SUBSET used
    BY <1>6, <1>10 DEF c
  <2>3. BufOK' /\ Ownership'
    BY <1>1, <1>2, <1>6, <1>7, <2>1, <2>2, PassesNew
  <2>4. Balance'
    <3>1. \A b \in {x} : ~Carries(buf[b])
      BY <1>7 DEF p
    <3>2. Cardinality(Transit') = Cardinality(Transit) + 0
      BY <1>1, <1>2, <2>1, <2>2, <3>1, NewCount
    <3> QED BY <1>2, <3>2, TransitFinite DEF IInv, Balance
  <2>5. \A b \in used : b # x => buf'[b] = buf[b]
    <3>1. CASE UNCHANGED buf
      BY <3>1
    <3>2. CASE /\ used # Buffer
               /\ buf' = [b \in Buffer |-> IF b = New THEN c ELSE IF b \in {x} THEN Blank ELSE buf[b]]
      <4>1. New \notin used
        BY <1>2, <3>2, NewIsFree
      <4> QED BY <1>2, <3>2, <4>1 DEF BufOK
    <3> QED BY <2>2, <3>1, <3>2 DEF PassNew
  <2> QED BY <1>8, <1>9, <2>3, <2>4, <2>5 DEF IInv
<1>11. CASE kz_kmfree(box, x)
  <2>1. BufOK' /\ Ownership'
    BY <1>1, <1>2, <1>3, <1>6, <1>7, <1>11, Frees
  <2>2. Balance'
    <3>1. Cardinality(Transit') = Cardinality(Transit) - 0
      BY <1>2, <1>6, <1>7, <1>11, FreeCount
    <3> QED BY <1>2, <3>1, TransitFinite DEF IInv, Balance
  <2>3. \A b \in used : b # x => buf'[b] = buf[b]
    BY <1>2, <1>11 DEF kz_kmfree, BufOK
  <2> QED BY <1>8, <1>9, <2>1, <2>2, <2>3 DEF IInv
<1> QED BY <1>10, <1>11 DEF arp_reply, x

-----------------------------------------------------------------------------
(* The theorems.                                                           *)

LEMMA Initially == Init => IInv
<1> SUFFICES ASSUME Init PROVE IInv
  OBVIOUS
<1> USE NetBufAssumption
<1>1. 1 \in Buffer
  BY DEF Buffer
<1>2. buf \in [Buffer -> Packet] /\ buf[1].cmd = "MACADDR"
  <2>1. [Blank EXCEPT !.cmd = "MACADDR"] \in Packet /\ [Blank EXCEPT !.cmd = "MACADDR"].cmd = "MACADDR"
    BY BlankIsPacket DEF Blank, Packet, Cmd
  <2> QED BY <1>1, <2>1, BlankIsPacket DEF Init
<1>3. box \in [Box -> Seq(Buffer)] /\ used = {1} /\ box["ETH"] = <<1>> /\ \A m \in Box : m # "ETH" => box[m] = <<>>
  BY <1>1 DEF Init, Box
<1>4. BufOK
  BY <1>1, <1>2, <1>3 DEF BufOK, Init
<1>5. /\ ARPADRLIST = <<NULL>> /\ ARPPKTLIST = <<NULL>>
      /\ arp = [pc |-> "recv", pkt |-> 0, my_ipaddr |-> FALSE] /\ icmp = [pkt |-> 0, left |-> 0]
      /\ made = 0 /\ sent = 0 /\ down = FALSE
  BY DEF Init, ArpInit
<1>6. RestOK
  BY <1>5 DEF RestOK, ArpState, IcmpState
<1>7. Ended(<<NULL>>) /\ Distinct(<<NULL>>)
  BY DEF Ended, Distinct
<1>8. OneNull(ARPPKTLIST)
  BY <1>5, <1>6, <1>7, EndedHasOneNull DEF RestOK
<1>9. Lists /\ Hands
  BY <1>5, <1>7, <1>8 DEF Lists, Hands
<1>10. Unknown
  BY <1>5 DEF Unknown
<1>11. Balance
  <2>1. Transit = {}
    BY <1>2, <1>3 DEF Transit, Carries
  <2> QED BY <1>5, <2>1, FS_EmptySet DEF Balance
<1>12. Ownership
  <2>1. At(Held, buf, 1, "ETH")
    <3>1. Once(Held["ETH"], 1) /\ "ETH" \in Holder
      BY <1>3, HeldIs DEF Once, Box, Holder
    <3>2. Fits("ETH", buf[1])
      BY <1>2 DEF Fits
    <3>3. \A g \in Holder : g # "ETH" => Never(Held[g], 1)
      <4>1. \A m \in Box : m # "ETH" => Never(Held[m], 1)
        BY <1>3, HeldIs DEF Never
      <4>2. Never(Held["waiting"], 1) /\ Never(Held["arp"], 1) /\ Never(Held["icmp"], 1)
        BY <1>1, <1>5, HeldIs, ArpAssumption DEF Never
      <4> QED BY <4>1, <4>2 DEF Holder
    <3> QED BY <3>1, <3>2, <3>3 DEF At
  <2>2. ASSUME NEW b \in Buffer, b # 1 PROVE \A h \in Holder : Never(Held[h], b)
    <3>1. \A m \in Box : Never(Held[m], b)
      BY <1>3, <2>2, HeldIs DEF Never
    <3>2. Never(Held["waiting"], b) /\ Never(Held["arp"], b) /\ Never(Held["icmp"], b)
      BY <1>5, HeldIs, ArpAssumption DEF Never, Buffer
    <3> QED BY <3>1, <3>2 DEF Holder
  <2>3. Owned(Held, {1}, buf)
    BY <2>1, <2>2 DEF Owned, Holder, Box
  <2> QED BY <1>3, <2>3 DEF Ownership
<1> QED BY <1>4, <1>6, <1>9, <1>10, <1>11, <1>12 DEF IInv

LEMMA ArpStep ==
  ASSUME IInv, arp_task
  PROVE  IInv'
<1>1. arp_main /\ UNCHANGED <<icmp, made, sent>>
  BY DEF arp_task, tasks, counts
<1> QED BY <1>1, ArpCommands, ArpRecv, ArpSend, ArpFlush, ArpReply DEF arp_main

LEMMA StepNext == IInv /\ [Next]_vars => IInv'
<1> SUFFICES ASSUME IInv, [Next]_vars PROVE IInv'
  OBVIOUS
<1>1. CASE UNCHANGED vars
  <2>1. UNCHANGED <<buf, used, box, down, ARPADRLIST, ARPPKTLIST, arp, icmp, made, sent>>
    BY <1>1 DEF vars, bufVars, arpVars, tasks, counts
  <2>2. Held' = Held
    BY <2>1 DEF Held
  <2>3. BufOK' /\ RestOK' /\ Lists' /\ Hands'
    BY <2>1 DEF IInv, BufOK, RestOK, Lists, Hands
  <2>4. Unknown' /\ Ownership' /\ Balance'
    BY <2>1, <2>2 DEF IInv, Unknown, Ownership, Balance, Transit
  <2> QED BY <2>3, <2>4 DEF IInv
<1>2. CASE Next
  BY <1>2, EthernetStep, ArpStep, IpStep, IcmpStep, CommandStep, FrameStep, DriverStep DEF Next
<1> QED BY <1>1, <1>2

\* The inductive invariant: types, the two lists, what tasks have in their hands, who
\* has which buffer and what is in it, and the count of IP packets.
THEOREM Invariance == Spec => []IInv
BY Initially, StepNext, PTL DEF Spec

\* A buffer that is once at one holder and never at the others is in one place.
LEMMA OwnersHold == IInv => OneOwner
<1> SUFFICES ASSUME IInv, ~down, NEW b \in Buffer
             PROVE  IF b \in used THEN \E p \in Places(b) : Places(b) = {p} ELSE Places(b) = {}
  BY DEF OneOwner
<1>1. Owned(Held, used, buf)
  BY Running DEF IInv
<1>2. \A p : p \in Places(b) <=> \E h \in Holder : \E k \in 1..Len(Held[h]) : Held[h][k] = b /\ p = <<h, k>>
  BY DEF Places
<1>3. CASE b \notin used
  <2>1. \A h \in Holder : \A k \in 1..Len(Held[h]) : Held[h][k] # b
    BY <1>1, <1>3 DEF Owned, Never
  <2> QED BY <1>2, <1>3, <2>1
<1>4. CASE b \in used
  <2>1. PICK h \in Holder : Once(Held[h], b) /\ \A g \in Holder : g # h => Never(Held[g], b)
    BY <1>1, <1>4 DEF Owned, At
  <2>2. PICK k \in 1..Len(Held[h]) : Held[h][k] = b /\ \A j \in 1..Len(Held[h]) : Held[h][j] = b => j = k
    BY <2>1 DEF Once
  <2>3. <<h, k>> \in Places(b)
    BY <1>2, <2>2
  <2>4. \A p \in Places(b) : p = <<h, k>>
    BY <1>2, <2>1, <2>2 DEF Never
  <2> QED BY <1>4, <2>3, <2>4
<1> QED BY <1>3, <1>4

LEMMA ListsHold == IInv => ListsWell
<1> SUFFICES ASSUME IInv PROVE ListsWell
  OBVIOUS
<1>1. Ended(ARPADRLIST) /\ Distinct(ARPADRLIST) /\ (Idle => Ended(ARPPKTLIST))
  BY DEF IInv, Lists, Idle
<1>2. ARPADRLIST \in Seq(Host \cup {NULL}) /\ ARPPKTLIST \in Seq(Buffer \cup {NULL})
  BY DEF IInv, RestOK
<1>3. End(ARPADRLIST) = Len(ARPADRLIST) /\ (Idle => End(ARPPKTLIST) = Len(ARPPKTLIST))
  BY <1>1, <1>2, EndOfEnded
<1> QED BY <1>1, <1>3 DEF ListsWell, Terminated, Distinct

LEMMA StuckHolds == IInv => NoneStuck
<1> SUFFICES ASSUME IInv, Idle, NEW k \in 1..(Len(ARPPKTLIST) - 1)
             PROVE  ~Known(ARPADRLIST, buf[ARPPKTLIST[k]].to)
  BY DEF NoneStuck
<1> DEFINE n == Len(ARPPKTLIST)
<1>1. Ended(ARPPKTLIST) /\ ARPPKTLIST \in Seq(Buffer \cup {NULL}) /\ arp.pc = "recv"
  BY DEF IInv, Lists, RestOK, Idle
<1>2. n \in Nat \ {0}
  BY <1>1, EndOfEnded
<1>3. k \in 1..n /\ n \in 1..n /\ ARPPKTLIST[k] # NULL /\ ARPPKTLIST[n] = NULL
  BY <1>1, <1>2 DEF Ended
<1>4. ~InTable(ARPADRLIST, buf[ARPPKTLIST[k]].to)
  BY <1>1, <1>3 DEF IInv, Unknown
<1>5. buf[ARPPKTLIST[k]].to \in Host
  <2>1. ARPPKTLIST[k] \in Buffer
    BY <1>1, <1>3, ElementOfSeq
  <2> QED BY <2>1 DEF IInv, BufOK, Packet
<1> QED BY <1>4, <1>5, KnownIs

LEMMA AddressHolds == IInv => RightAddress
<1> SUFFICES ASSUME IInv, NEW k \in 1..Len(box["NET"])
             PROVE  Right(buf[box["NET"][k]])
  BY DEF RightAddress, Right
<1> DEFINE b == box["NET"][k]
<1>1. box["NET"] \in Seq(Buffer) /\ Held["NET"] = box["NET"] /\ "NET" \in Holder
  BY HeldIs DEF IInv, BufOK, Box, Holder
<1>2. b \in Buffer
  BY <1>1, ElementOfSeq
<1>3. PICK V : Owned(Held, V, buf)
  BY DEF IInv, Ownership
<1>4. ~Never(Held["NET"], b)
  BY <1>1 DEF Never
<1>5. At(Held, buf, b, "NET")
  BY <1>1, <1>2, <1>3, <1>4 DEF Owned, At
<1> QED BY <1>5 DEF At, Fits

LEMMA DroppedHolds == IInv => NoneDropped
BY DEF IInv, Balance, NoneDropped, Transit, Carries

\* The types of the buffers, the boxes and what the tasks keep.
THEOREM TypeCorrect == Spec => []TypeOK
<1>1. IInv => TypeOK
  BY DEF IInv, TypeOK
<1> QED BY Invariance, <1>1, PTL

\* As long as the system runs, every buffer in use is in one place, a box, the list of
\* waiting packets or the hand of a task, and a freed one is nowhere: the tasks' main
\* loops free what their handlers do not keep or pass on, and nothing else.
THEOREM OwnersCorrect == Spec => []OneOwner
BY Invariance, OwnersHold, PTL

\* Both lists of the ARP task end with their only NULL when it waits for a message, and
\* arp_setaddr() puts no host into the table twice.
THEOREM ListsCorrect == Spec => []ListsWell
BY Invariance, ListsHold, PTL

\* When the ARP task waits for a message, no packet waits for an address that is in the
\* table: arp_recv() and arp_send() flush the list whenever one may.
THEOREM StuckCorrect == Spec => []NoneStuck
BY Invariance, StuckHolds, PTL

\* The driver gets packets with the address of the host they are for, or ARP requests
\* to all: what ethernet_send() gives to ARP comes back with its address.
THEOREM AddressCorrect == Spec => []RightAddress
BY Invariance, AddressHolds, PTL

\* Every IP packet that was made was sent, or is in a box or waits: arp_send() and the
\* walks over the list lose none, however many wait.
THEOREM DroppedCorrect == Spec => []NoneDropped
BY Invariance, DroppedHolds, PTL
=============================================================================
