---------------------------- MODULE ConsDrvProofs ----------------------------
(***************************************************************************)
(* Proofs about ConsDrv.tla, for any strings, keys and characters, any     *)
(* number of writes and any length of the buffer.                          *)
(***************************************************************************)
EXTENDS ConsDrv, SequenceTheorems, WellFoundedInduction, TLAPS

Console == [buf : Seq(Char), tie : BOOLEAN, tdr : Seq(Char), wire : Seq(Char)]

\* What c has taken, in the order in which it goes out.
Stream(c) == c.wire \o (c.tdr \o c.buf)

\* The register is empty when send interrupts are off.
Quiet(c) == ~c.tie => c.tdr = <<>>

\* And then nothing waits.
Going(c) == ~c.tie => c.tdr = <<>> /\ c.buf = <<>>

TypeOK ==
  /\ box \in Seq(Text) /\ str \in Seq(Char) /\ len \in Nat
  /\ pc \in {"recv", "load", "store"} /\ masked \in BOOLEAN
  /\ con \in Console
  /\ rdr \in Seq(Key)
  /\ accepted \in Seq(Char)

\* Interrupts are masked while the thread copies, so that send_len stays what it
\* has read, and what it has still to copy is all that is missing.
IInv ==
  /\ TypeOK
  /\ masked <=> pc # "recv"
  /\ pc = "recv" => str = <<>> /\ Going(con)
  /\ pc = "store" => str # <<>> /\ len = Len(con.buf)
  /\ Stream(con) \o str = accepted
  /\ Quiet(con)

-----------------------------------------------------------------------------
(* The serial port and the buffer: nothing is lost and nothing overtakes.  *)

LEMMA Associative ==
  ASSUME NEW s \in Seq(Char), NEW t \in Seq(Char), NEW u \in Seq(Char)
  PROVE  (s \o t) \o u = s \o (t \o u)
BY ConcatAssociative

LEMMA StreamType ==
  ASSUME NEW c \in Console
  PROVE  Stream(c) \in Seq(Char)
BY ConcatProperties DEF Console, Stream

LEMMA ShiftedKeeps ==
  ASSUME NEW c \in Console
  PROVE  /\ Shifted(c) \in Console
         /\ Stream(Shifted(c)) = Stream(c)
         /\ Shifted(c).tdr = <<>>
         /\ Shifted(c).tie = c.tie
         /\ Shifted(c).buf = c.buf
<1> DEFINE w == c.wire \o c.tdr
<1>1. c.wire \in Seq(Char) /\ c.tdr \in Seq(Char) /\ c.buf \in Seq(Char) /\ <<>> \in Seq(Char)
  BY EmptySeq DEF Console
<1>2. w \in Seq(Char)
  BY <1>1, ConcatProperties
<1>3. /\ Shifted(c) \in Console
      /\ Shifted(c).wire = w /\ Shifted(c).tdr = <<>> /\ Shifted(c).tie = c.tie /\ Shifted(c).buf = c.buf
  <2>1. Shifted(c) = [c EXCEPT !.wire = w, !.tdr = <<>>]
    BY DEF Shifted
  <2> HIDE DEF w
  <2> QED BY <1>1, <1>2, <2>1 DEF Console
<1>4. w \o (<<>> \o c.buf) = c.wire \o (c.tdr \o c.buf)
  <2>1. <<>> \o c.buf = c.buf
    BY <1>1, ConcatEmptySeq
  <2>2. w \o c.buf = c.wire \o (c.tdr \o c.buf)
    BY <1>1, Associative
  <2> QED BY <2>1, <2>2
<1> HIDE DEF w
<1> QED BY <1>3, <1>4 DEF Stream

LEMMA SendCharKeeps ==
  ASSUME NEW c \in Console, c.tdr = <<>>, c.buf # <<>>
  PROVE  /\ send_char(c) \in Console
         /\ Stream(send_char(c)) = Stream(c)
         /\ send_char(c).tie = c.tie
<1> DEFINE h == <<Head(c.buf)>>
           t == Tail(c.buf)
<1>1. c.buf \in Seq(Char) /\ h \in Seq(Char) /\ t \in Seq(Char)
  BY HeadTailProperties DEF Console
<1>2. h \o t = c.buf /\ <<>> \o c.buf = c.buf
  BY <1>1, ConcatEmptySeq
<1>3. send_char(c) = [c EXCEPT !.tdr = h, !.buf = t]
  BY DEF send_char
<1> HIDE DEF h, t
<1>4. /\ send_char(c) \in Console
      /\ send_char(c).wire = c.wire /\ send_char(c).tdr = h /\ send_char(c).tie = c.tie /\ send_char(c).buf = t
  BY <1>1, <1>3 DEF Console
<1> QED BY <1>2, <1>4 DEF Stream

LEMMA StartKeeps ==
  ASSUME NEW c \in Console, Quiet(c)
  PROVE  /\ start_sending(c) \in Console
         /\ Stream(start_sending(c)) = Stream(c)
         /\ Going(start_sending(c))
<1>1. CASE Starts(c)
  <2> DEFINE d == [c EXCEPT !.tie = TRUE]
  <2>1. d \in Console /\ d.tdr = <<>> /\ d.buf = c.buf /\ d.buf # <<>> /\ d.tie = TRUE
        /\ Stream(d) = Stream(c)
    BY <1>1 DEF Starts, Quiet, Console, Stream
  <2>2. start_sending(c) = send_char(d)
    BY <1>1 DEF start_sending
  <2> HIDE DEF d
  <2> QED BY <2>1, <2>2, SendCharKeeps DEF Going
<1>2. CASE ~Starts(c)
  BY <1>2 DEF start_sending, Starts, Quiet, Going
<1> QED BY <1>1, <1>2

\* A character that is put at the end of the buffer is at the end of the stream.
LEMMA BufferedLast ==
  ASSUME NEW c \in Console, NEW s \in Seq(Char)
  PROVE  /\ [c EXCEPT !.buf = c.buf \o s] \in Console
         /\ Stream([c EXCEPT !.buf = c.buf \o s]) = Stream(c) \o s
<1> DEFINE b == c.buf \o s
           d == [c EXCEPT !.buf = b]
<1>1. c.wire \in Seq(Char) /\ c.tdr \in Seq(Char) /\ c.buf \in Seq(Char)
  BY DEF Console
<1>2. b \in Seq(Char) /\ c.tdr \o c.buf \in Seq(Char)
  BY <1>1, ConcatProperties
<1>3. c.wire \o (c.tdr \o b) = (c.wire \o (c.tdr \o c.buf)) \o s
  <2>1. c.tdr \o b = (c.tdr \o c.buf) \o s
    BY <1>1, Associative
  <2>2. c.wire \o ((c.tdr \o c.buf) \o s) = (c.wire \o (c.tdr \o c.buf)) \o s
    BY <1>1, <1>2, Associative
  <2> QED BY <2>1, <2>2
<1>4. d \in Console /\ d.wire = c.wire /\ d.tdr = c.tdr /\ d.tie = c.tie /\ d.buf = b
  <2> HIDE DEF b
  <2> QED BY <1>2 DEF Console
<1>5. Stream(d) = Stream(c) \o s
  <2> HIDE DEF b, d
  <2> QED BY <1>3, <1>4 DEF Stream
<1> QED BY <1>4, <1>5

LEMMA EchoKeeps ==
  ASSUME NEW c \in Console, Going(c), NEW k, Crlf(<<k>>) \in Seq(Char)
  PROVE  /\ echo(c, k) \in Console
         /\ Stream(echo(c, k)) = Stream(c) \o Crlf(<<k>>)
         /\ Going(echo(c, k))
<1> DEFINE d == [c EXCEPT !.buf = c.buf \o Crlf(<<k>>)]
<1>1. d \in Console /\ Stream(d) = Stream(c) \o Crlf(<<k>>)
  BY BufferedLast
<1>2. Quiet(d)
  BY DEF Going, Quiet, Console
<1>3. echo(c, k) = start_sending(d)
  BY DEF echo
<1> HIDE DEF d
<1> QED BY <1>1, <1>2, <1>3, StartKeeps

LEMMA IntrSendKeeps ==
  ASSUME NEW c \in Console, Going(c)
  PROVE  /\ intr_send(c) \in Console
         /\ Stream(intr_send(c)) = Stream(c)
         /\ Going(intr_send(c))
<1>1. CASE ~serial_is_send_enable(c)
  BY <1>1 DEF intr_send
<1>2. CASE serial_is_send_enable(c) /\ c.buf = <<>>
  BY <1>2 DEF intr_send, sent, serial_is_send_enable, Console, Stream, Going
<1>3. CASE serial_is_send_enable(c) /\ c.buf # <<>>
  <2>1. intr_send(c) = send_char(c) /\ c.tdr = <<>> /\ c.tie
    BY <1>3 DEF intr_send, sent, serial_is_send_enable, Going, Console
  <2> QED BY <2>1, <1>3, SendCharKeeps DEF Going
<1> QED BY <1>1, <1>2, <1>3

-----------------------------------------------------------------------------
(* The actions.                                                            *)

LEMMA InitHolds == Init => IInv
<1> SUFFICES ASSUME Init PROVE IInv
  OBVIOUS
<1>1. <<>> \in Seq(Text) /\ <<>> \in Seq(Char) /\ <<>> \in Seq(Key)
  BY EmptySeq
<1>2. <<>> \o (<<>> \o <<>>) = <<>> /\ <<>> \o <<>> = <<>>
  BY <1>1, ConcatEmptySeq
<1>3. TypeOK
  BY <1>1 DEF Init, TypeOK, Console
<1>4. Stream(con) \o str = accepted
  BY <1>2 DEF Init, Stream
<1> QED BY <1>3, <1>4 DEF Init, IInv, Quiet, Going

\* What the thread leaves alone is as it was.
LEMMA OutsideHolds ==
  ASSUME IInv, UNCHANGED <<pc, str, len, masked, con, accepted>>,
         box' \in Seq(Text), rdr' \in Seq(Key)
  PROVE  IInv'
BY DEF IInv, TypeOK, Quiet, Going, Stream

LEMMA UseHolds == IInv /\ use => IInv'
BY OutsideHolds DEF use, thread, input, IInv, TypeOK

LEMMA SendWriteHolds ==
  ASSUME NEW s \in Text
  PROVE  IInv /\ send_write(s) => IInv'
<1> SUFFICES ASSUME IInv, send_write(s) PROVE IInv'
  OBVIOUS
<1>1. box' \in Seq(Text)
  BY AppendProperties DEF send_write, IInv, TypeOK
<1> QED BY <1>1, OutsideHolds DEF send_write, input, IInv, TypeOK

LEMMA TypeHolds ==
  ASSUME NEW k \in Key
  PROVE  IInv /\ type(k) => IInv'
<1> SUFFICES ASSUME IInv, type(k) PROVE IInv'
  OBVIOUS
<1>1. rdr' \in Seq(Key)
  BY DEF type
<1> QED BY <1>1, OutsideHolds DEF type, thread, IInv, TypeOK

LEMMA WriteHolds == IInv /\ write => IInv'
<1> SUFFICES ASSUME IInv, write PROVE IInv'
  OBVIOUS
<1> DEFINE s == Crlf(Head(box))
<1>1. Head(box) \in Text /\ Tail(box) \in Seq(Text)
  BY HeadTailProperties DEF write, IInv, TypeOK
<1>2. s \in Seq(Char)
  BY <1>1, CharAssumption
<1>3. Stream(con) \in Seq(Char)
  BY StreamType DEF IInv, TypeOK
<1>4. Stream(con) = accepted
  BY <1>3, ConcatEmptySeq DEF write, IInv
<1>5. str' = s /\ accepted' = accepted \o s /\ con' = con /\ pc' = "load" /\ masked'
  BY DEF write
<1> HIDE DEF s
<1>6. TypeOK'
  <2>1. accepted' \in Seq(Char)
    BY <1>2, <1>5, ConcatProperties DEF IInv, TypeOK
  <2> QED BY <1>1, <1>2, <1>5, <2>1 DEF write, input, IInv, TypeOK
<1> QED BY <1>4, <1>5, <1>6 DEF IInv, Quiet, Stream

LEMMA LoadHolds == IInv /\ load => IInv'
<1> SUFFICES ASSUME IInv, load PROVE IInv'
  OBVIOUS
<1>1. Len(con.buf) \in Nat
  BY LenProperties DEF IInv, TypeOK, Console
<1> QED BY <1>1 DEF load, input, IInv, TypeOK, Quiet, Stream

\* The store of a character, at a length nobody has changed since the load.
LEMMA StoreHolds == IInv /\ store => IInv'
<1> SUFFICES ASSUME IInv, store PROVE IInv'
  OBVIOUS
<1> DEFINE h == <<Head(str)>>
           t == Tail(str)
           cell(k) == IF k = len + 1 THEN Head(str)
                      ELSE IF k <= Len(con.buf) THEN con.buf[k] ELSE "junk"
           b == [k \in 1..(len + 1) |-> cell(k)]
<1>1. /\ str \in Seq(Char) /\ str # <<>> /\ Head(str) \in Char
      /\ h \in Seq(Char) /\ t \in Seq(Char) /\ h \o t = str
  BY HeadTailProperties DEF store, IInv, TypeOK
<1>2. con \in Console /\ con.buf \in Seq(Char) /\ len = Len(con.buf) /\ len \in Nat
  BY DEF store, IInv, TypeOK, Console
<1>3. b = con.buf \o h
  BY <1>1, <1>2
<1>4. con' = [con EXCEPT !.buf = b] /\ str' = t
  BY DEF store
<1> HIDE DEF h, t, b
<1>5. con' \in Console /\ Stream(con') = Stream(con) \o h
  BY <1>1, <1>2, <1>3, <1>4, BufferedLast
<1>6. Stream(con') \o t = accepted
  <2>1. Stream(con) \in Seq(Char)
    BY <1>2, StreamType
  <2>2. (Stream(con) \o h) \o t = Stream(con) \o (h \o t)
    BY <1>1, <2>1, Associative
  <2> QED BY <1>1, <1>5, <2>2 DEF IInv
<1>7. Quiet(con')
  BY <1>2, <1>4 DEF IInv, Quiet, Console
<1>8. Stream(con)' = Stream(con')
  BY DEF Stream
<1> QED BY <1>1, <1>4, <1>5, <1>6, <1>7, <1>8 DEF store, input, IInv, TypeOK, Quiet

LEMMA FinishHolds == IInv /\ finish => IInv'
<1> SUFFICES ASSUME IInv, finish PROVE IInv'
  OBVIOUS
<1>1. con \in Console /\ Quiet(con)
  BY DEF IInv, TypeOK
<1>2. con' = start_sending(con)
  BY DEF finish
<1>3. con' \in Console /\ Stream(con') = Stream(con) /\ Going(con')
  BY <1>1, <1>2, StartKeeps
<1> QED BY <1>3 DEF finish, input, IInv, TypeOK, Quiet, Going, Stream

LEMMA TransmitHolds == IInv /\ transmit => IInv'
<1> SUFFICES ASSUME IInv, transmit PROVE IInv'
  OBVIOUS
<1>1. con \in Console /\ con' = Shifted(con)
  BY DEF transmit, IInv, TypeOK
<1>2. /\ con' \in Console /\ Stream(con') = Stream(con)
      /\ con'.tdr = <<>> /\ con'.tie = con.tie /\ con'.buf = con.buf
  BY <1>1, ShiftedKeeps
<1> QED BY <1>2 DEF transmit, thread, input, IInv, TypeOK, Quiet, Going, Stream

\* The handler runs while the thread is not copying.
LEMMA IntrHolds == IInv /\ consdrv_intr => IInv'
<1> SUFFICES ASSUME IInv, consdrv_intr PROVE IInv'
  OBVIOUS
<1>1. /\ con \in Console /\ pc = "recv" /\ str = <<>> /\ Going(con)
      /\ Stream(con) = accepted /\ Stream(con) \in Seq(Char)
  <2>1. con \in Console /\ pc = "recv" /\ str = <<>> /\ Going(con)
    BY DEF consdrv_intr, IInv, TypeOK
  <2>2. Stream(con) \in Seq(Char)
    BY <2>1, StreamType
  <2> QED BY <2>1, <2>2, ConcatEmptySeq DEF IInv
<1>2. SUFFICES /\ con' \in Console /\ Going(con')
               /\ accepted' \in Seq(Char) /\ Stream(con') = accepted'
  <2> SUFFICES ASSUME con' \in Console, Going(con'),
                      accepted' \in Seq(Char), Stream(con') = accepted'
               PROVE  IInv'
    OBVIOUS
  <2>1. Stream(con') \o <<>> = accepted'
    BY ConcatEmptySeq
  <2>2. str' = <<>> /\ pc' = "recv" /\ rdr' \in Seq(Key)
    BY <1>1, EmptySeq DEF consdrv_intr, thread
  <2>3. TypeOK'
    BY <2>2 DEF consdrv_intr, thread, IInv, TypeOK
  <2> QED BY <2>1, <2>2, <2>3, <1>1 DEF consdrv_intr, thread, IInv, Quiet, Going, Stream
<1>3. CASE UNCHANGED <<con, accepted>>
  BY <1>1, <1>3 DEF Going
<1>4. CASE con' = intr_send(con) /\ UNCHANGED accepted
  BY <1>1, <1>4, IntrSendKeeps
<1>5. ASSUME NEW k \in Key \cup {"nl"}, accepted' = accepted \o Crlf(<<k>>),
             NEW c \in Transmitting(echo(con, k)), con' = intr_send(c)
      PROVE  /\ con' \in Console /\ Going(con')
             /\ accepted' \in Seq(Char) /\ Stream(con') = accepted'
  <2> DEFINE e == echo(con, k)
  <2>1. Crlf(<<k>>) \in Seq(Char)
    BY CharAssumption
  <2>2. e \in Console /\ Stream(e) = accepted' /\ Going(e)
    BY <1>1, <1>5, <2>1, EchoKeeps
  <2>3. c = e \/ c = Shifted(e)
    BY DEF Transmitting
  <2> HIDE DEF e
  <2>4. c \in Console /\ Stream(c) = accepted' /\ Going(c)
    BY <2>2, <2>3, ShiftedKeeps DEF Going
  <2>5. accepted' \in Seq(Char)
    BY <2>2, StreamType
  <2> QED BY <1>5, <2>4, <2>5, IntrSendKeeps
<1>6. /\ rdr # <<>> => Head(rdr) \in Key
  BY HeadTailProperties DEF IInv, TypeOK
<1> QED BY <1>3, <1>4, <1>5, <1>6 DEF consdrv_intr, RecvPending

-----------------------------------------------------------------------------
(* The theorems.                                                           *)

LEMMA StepHolds == IInv /\ [Next]_vars => IInv'
<1> SUFFICES ASSUME IInv, [Next]_vars PROVE IInv'
  OBVIOUS
<1>1. CASE use
  BY <1>1, UseHolds
<1>2. CASE \E s \in Text : send_write(s)
  BY <1>2, SendWriteHolds
<1>3. CASE consdrv
  BY <1>3, WriteHolds, LoadHolds, StoreHolds, FinishHolds DEF consdrv
<1>4. CASE consdrv_intr
  BY <1>4, IntrHolds
<1>5. CASE transmit
  BY <1>5, TransmitHolds
<1>6. CASE \E k \in Key : type(k)
  BY <1>6, TypeHolds
<1>7. CASE UNCHANGED vars
  BY <1>7, OutsideHolds DEF vars, thread, input, IInv, TypeOK
<1> QED BY <1>1, <1>2, <1>3, <1>4, <1>5, <1>6, <1>7 DEF Next

\* The thread holds interrupts masked from its first load to its last store,
\* and what it has taken is always in one of its places.
THEOREM Invariance == Spec => []IInv
<1> QED BY InitHolds, StepHolds, PTL DEF Spec

\* The output is what was written and echoed, in order, whatever the handler
\* does between two writes: consdrv.c:52-60 and 92-127.
THEOREM OutputCorrect == Spec => []OutputInOrder
<1>1. IInv => OutputInOrder
  <2> SUFFICES ASSUME IInv, pc = "recv"
               PROVE  (con.wire \o con.tdr) \o con.buf = accepted
    BY DEF OutputInOrder
  <2>1. con \in Console /\ str = <<>> /\ Stream(con) \o str = accepted
    BY DEF IInv, TypeOK
  <2>2. Stream(con) = accepted
    BY <2>1, StreamType, ConcatEmptySeq
  <2>3. (con.wire \o con.tdr) \o con.buf = con.wire \o (con.tdr \o con.buf)
    BY <2>1, Associative DEF Console
  <2> QED BY <2>2, <2>3 DEF Stream
<1> QED BY <1>1, Invariance, PTL

\* Starting to send, by the thread or by an echo, finds the register empty.
THEOREM NeverBlocks == Spec => []NeverWaits
<1>1. IInv => NeverWaits
  BY DEF IInv, TypeOK, Console, NeverWaits, Starts, serial_is_send_enable, Quiet
<1> QED BY <1>1, Invariance, PTL

\* Characters that wait have a send interrupt to take them.
THEOREM BufferIsServed == Spec => []SendsOn
<1>1. IInv => SendsOn
  BY DEF IInv, TypeOK, Console, SendsOn, Going
<1> QED BY <1>1, Invariance, PTL

-----------------------------------------------------------------------------
(* The lines typed, and what FlattenSeq, a recursive function, says of them. *)

LEMMA SetInduction ==
  ASSUME NEW S \in SUBSET Nat, 0 \in S, \A n \in S : n + 1 \in S
  PROVE  S = Nat
<1> SUFFICES ASSUME Nat \ S # {} PROVE FALSE
  OBVIOUS
<1> DEFINE R == {ss \in Nat \X Nat : ss[1] < ss[2]}
<1>1. IsWellFoundedOn(R, Nat)
  BY NatLessThanWellFounded DEF OpToRel
<1>2. PICK x \in Nat \ S : \A y \in Nat \ S : <<y, x>> \notin R
  <2> HIDE DEF R
  <2> QED BY <1>1, WFMin
<1>3. x # 0 /\ x - 1 \in Nat
  OBVIOUS
<1>4. <<x - 1, x>> \in R
  BY <1>3
<1>5. x - 1 \in S
  BY <1>2, <1>3, <1>4
<1> QED BY <1>3, <1>5

\* g[i] is the first i members of s, one after the other: the function that
\* FlattenSeq defines by recursion.
Part(g, s, i) == IF i = 1 THEN s[i] ELSE g[i - 1] \o s[i]
Parts(g, s, m) == g = [i \in 1..m |-> Part(g, s, i)]

LEMMA PartsExist ==
  ASSUME NEW s, NEW m \in Nat
  PROVE  \E g : Parts(g, s, m)
<1> DEFINE S == {j \in Nat : \E g : Parts(g, s, j)}
<1>1. 0 \in S
  <2> DEFINE z == [i \in 1..0 |-> <<>>]
  <2>1. z = [i \in 1..0 |-> Part(z, s, i)]
    OBVIOUS
  <2> HIDE DEF z
  <2> QED BY <2>1 DEF Parts
<1>2. ASSUME NEW j \in S PROVE j + 1 \in S
  <2>1. PICK g : Parts(g, s, j)
    OBVIOUS
  <2> DEFINE h == [i \in 1..(j + 1) |-> Part(g, s, i)]
  <2>2. \A i \in 1..j : h[i] = g[i]
    BY <2>1 DEF Parts
  <2>3. ASSUME NEW i \in 1..(j + 1) PROVE Part(h, s, i) = Part(g, s, i)
    <3>1. CASE i = 1
      BY <3>1 DEF Part
    <3>2. CASE i # 1
      <4>1. i - 1 \in 1..j
        BY <3>2
      <4> HIDE DEF h
      <4> QED BY <2>2, <3>2, <4>1 DEF Part
    <3> QED BY <3>1, <3>2
  <2>4. h = [i \in 1..(j + 1) |-> Part(h, s, i)]
    BY <2>3
  <2> HIDE DEF h
  <2> QED BY <2>4 DEF Parts
<1>3. S = Nat
  <2> HIDE DEF S
  <2>1. S \in SUBSET Nat
    BY DEF S
  <2> QED BY <1>1, <1>2, <2>1, SetInduction
<1> QED BY <1>3

LEMMA PartsAre ==
  ASSUME NEW g, NEW s, NEW m \in Nat, Parts(g, s, m), NEW i \in 1..m
  PROVE  g[i] = IF i = 1 THEN s[i] ELSE g[i - 1] \o s[i]
<1>1. g = [j \in 1..m |-> Part(g, s, j)]
  BY DEF Parts
<1>2. [j \in 1..m |-> Part(g, s, j)][i] = Part(g, s, i)
  OBVIOUS
<1> QED BY <1>1, <1>2 DEF Part

\* Sequences that begin alike have the same parts there.
LEMMA PartsAgree ==
  ASSUME NEW g, NEW h, NEW s, NEW t, NEW m \in Nat, NEW n \in Nat, m <= n,
         Parts(g, s, m), Parts(h, t, n), \A i \in 1..m : s[i] = t[i]
  PROVE  \A i \in 1..m : g[i] = h[i]
<1> DEFINE S == {j \in Nat : j \in 1..m => g[j] = h[j]}
<1>1. 0 \in S
  OBVIOUS
<1>2. ASSUME NEW j \in S PROVE j + 1 \in S
  <2> SUFFICES ASSUME j + 1 \in 1..m PROVE g[j + 1] = h[j + 1]
    OBVIOUS
  <2>1. /\ g[j + 1] = IF j + 1 = 1 THEN s[j + 1] ELSE g[j + 1 - 1] \o s[j + 1]
        /\ h[j + 1] = IF j + 1 = 1 THEN t[j + 1] ELSE h[j + 1 - 1] \o t[j + 1]
    BY PartsAre
  <2>2. s[j + 1] = t[j + 1] /\ j + 1 - 1 = j
    OBVIOUS
  <2>3. j = 0 \/ g[j] = h[j]
    OBVIOUS
  <2> QED BY <2>1, <2>2, <2>3
<1>3. S = Nat
  <2> HIDE DEF S
  <2>1. S \in SUBSET Nat
    BY DEF S
  <2> QED BY <1>1, <1>2, <2>1, SetInduction
<1> QED BY <1>3

LEMMA FlattenIsPart ==
  ASSUME NEW s, Len(s) \in Nat \ {0}
  PROVE  \E g : Parts(g, s, Len(s)) /\ FlattenSeq(s) = g[Len(s)]
<1> DEFINE P(h) == h = [i \in 1..Len(s) |-> IF i = 1 THEN s[i] ELSE h[i - 1] \o s[i]]
           f == CHOOSE h : P(h)
<1>1. \E h : P(h)
  BY PartsExist DEF Parts, Part
<1>2. FlattenSeq(s) = f[Len(s)]
  BY DEF FlattenSeq
<1>3. P(f)
  <2> HIDE DEF P
  <2> QED BY <1>1
<1>4. Parts(f, s, Len(s))
  <2> HIDE DEF f
  <2> QED BY <1>3 DEF Parts, Part
<1> HIDE DEF f
<1> QED BY <1>2, <1>4

LEMMA FlattenStep ==
  ASSUME NEW s, NEW t, NEW n \in Nat, Len(s) = n, Len(t) = n + 1, \A i \in 1..n : s[i] = t[i]
  PROVE  /\ n = 0 => FlattenSeq(t) = t[1]
         /\ n # 0 => FlattenSeq(t) = FlattenSeq(s) \o t[n + 1]
<1>1. PICK h : Parts(h, t, n + 1) /\ FlattenSeq(t) = h[n + 1]
  <2>1. Len(t) \in Nat \ {0}
    OBVIOUS
  <2> QED BY <2>1, FlattenIsPart
<1>2. h[n + 1] = IF n + 1 = 1 THEN t[n + 1] ELSE h[n + 1 - 1] \o t[n + 1]
  <2>1. n + 1 \in Nat /\ n + 1 \in 1..(n + 1)
    OBVIOUS
  <2>2. Parts(h, t, n + 1)
    BY <1>1
  <2> QED BY <2>1, <2>2, PartsAre
<1>3. CASE n = 0
  BY <1>1, <1>2, <1>3
<1>4. CASE n # 0
  <2>1. PICK g : Parts(g, s, n) /\ FlattenSeq(s) = g[n]
    <3>1. Len(s) \in Nat \ {0}
      BY <1>4
    <3> QED BY <3>1, FlattenIsPart
  <2>2. \A i \in 1..n : g[i] = h[i]
    <3>1. n + 1 \in Nat /\ n <= n + 1
      OBVIOUS
    <3>2. Parts(h, t, n + 1) /\ Parts(g, s, n)
      BY <1>1, <2>1
    <3> QED BY <3>1, <3>2, PartsAgree
  <2>3. g[n] = h[n]
    BY <2>2, <1>4
  <2>4. n + 1 # 1 /\ n + 1 - 1 = n
    BY <1>4
  <2>5. h[n + 1] = h[n] \o t[n + 1]
    BY <1>2, <2>4
  <2> QED BY <1>1, <1>4, <2>1, <2>3, <2>5
<1> QED BY <1>3, <1>4

LEMMA FlattenAppend ==
  ASSUME NEW S, NEW s \in Seq(Seq(S)), NEW e \in Seq(S)
  PROVE  FlattenSeq(Append(s, e)) = FlattenSeq(s) \o e
<1> DEFINE t == Append(s, e)
           n == Len(s)
<1>1. /\ n \in Nat /\ t \in Seq(Seq(S)) /\ Len(t) = n + 1 /\ t[n + 1] = e
      /\ \A i \in 1..n : s[i] = t[i]
  BY AppendProperties, LenProperties
<1> HIDE DEF t
<1>2. /\ n = 0 => FlattenSeq(t) = t[1]
      /\ n # 0 => FlattenSeq(t) = FlattenSeq(s) \o t[n + 1]
  BY <1>1, FlattenStep
<1>3. CASE n = 0
  <2>1. FlattenSeq(s) = <<>>
    BY <1>3, EmptySeq DEF FlattenSeq
  <2>2. <<>> \o e = e
    BY ConcatEmptySeq
  <2> QED BY <1>1, <1>2, <1>3, <2>1, <2>2 DEF t
<1>4. CASE n # 0
  BY <1>1, <1>2, <1>4 DEF t
<1> QED BY <1>3, <1>4

\* What is typed, and where it goes.
Character == Key \cup {"nl"}
Whole == [k \in 1..Len(lines) |-> Append(lines[k], "nl")]
Sent == FlattenSeq(Whole)

\* The lines sent, each with its end, and the one being typed are what was typed.
LInv ==
  /\ rdr \in Seq(Key)
  /\ line \in Seq(Character) /\ lines \in Seq(Seq(Character)) /\ Sent \in Seq(Character)
  /\ typed = Sent \o line

LEMMA InitLines == Init => LInv
<1> SUFFICES ASSUME Init PROVE LInv
  OBVIOUS
<1>1. <<>> \in Seq(Key) /\ <<>> \in Seq(Character) /\ <<>> \in Seq(Seq(Character))
  BY EmptySeq
<1>2. Whole = <<>>
  BY DEF Init, Whole
<1>3. Sent = <<>>
  BY <1>2 DEF Sent, FlattenSeq
<1>4. <<>> \o <<>> = <<>>
  BY <1>1, ConcatEmptySeq
<1> QED BY <1>1, <1>3, <1>4 DEF Init, LInv

\* A line that is sent, with its end, is what FlattenSeq puts after the others.
LEMMA LineSent ==
  ASSUME LInv, lines' = Append(lines, line)
  PROVE  Sent' = Sent \o Append(line, "nl") /\ Sent' \in Seq(Character)
<1> DEFINE e == Append(line, "nl")
<1>1. "nl" \in Character
  BY DEF Character
<1>2. lines \in Seq(Seq(Character)) /\ line \in Seq(Character) /\ e \in Seq(Character)
  BY <1>1, AppendProperties DEF LInv
<1>3. Whole \in Seq(Seq(Character)) /\ Len(Whole) = Len(lines)
  <2>1. \A k \in 1..Len(lines) : Append(lines[k], "nl") \in Seq(Character)
    BY <1>1, <1>2, AppendProperties, ElementOfSeq
  <2> QED BY <1>2, <2>1 DEF Whole
<1>4. Whole' = Append(Whole, e)
  <2>1. /\ lines' \in Seq(Seq(Character)) /\ Len(lines') = Len(lines) + 1
        /\ \A k \in 1..Len(lines) : lines'[k] = lines[k]
        /\ lines'[Len(lines) + 1] = line
    BY <1>2, AppendProperties
  <2> HIDE DEF e
  <2>2. /\ Append(Whole, e) \in Seq(Seq(Character)) /\ Len(Append(Whole, e)) = Len(lines) + 1
        /\ \A k \in 1..Len(lines) : Append(Whole, e)[k] = Whole[k]
        /\ Append(Whole, e)[Len(lines) + 1] = e
    BY <1>2, <1>3, AppendProperties
  <2>3. \A k \in 1..(Len(lines) + 1) : Append(Whole, e)[k] = Append(lines'[k], "nl")
    <3> SUFFICES ASSUME NEW k \in 1..(Len(lines) + 1)
                 PROVE  Append(Whole, e)[k] = Append(lines'[k], "nl")
      OBVIOUS
    <3>1. CASE k = Len(lines) + 1
      BY <2>1, <2>2, <3>1 DEF e
    <3>2. CASE k # Len(lines) + 1
      <4>1. k \in 1..Len(lines)
        BY <3>2, <1>2, LenProperties
      <4>2. Whole[k] = Append(lines[k], "nl")
        BY <4>1 DEF Whole
      <4> QED BY <2>1, <2>2, <4>1, <4>2
    <3> QED BY <3>1, <3>2
  <2>4. Whole' = [k \in 1..(Len(lines) + 1) |-> Append(lines'[k], "nl")]
    BY <2>1 DEF Whole
  <2>5. Append(Whole, e) = [k \in 1..(Len(lines) + 1) |-> Append(Whole, e)[k]]
    <3>1. ASSUME NEW w \in Seq(Seq(Character))
          PROVE  w = [k \in 1..Len(w) |-> w[k]]
      OBVIOUS
    <3> QED BY <2>2, <3>1
  <2> QED BY <2>3, <2>4, <2>5
<1>5. FlattenSeq(Append(Whole, e)) = FlattenSeq(Whole) \o e
  <2> HIDE DEF e
  <2> QED BY <1>2, <1>3, FlattenAppend
<1> HIDE DEF e
<1>6. Sent' = Sent \o e
  BY <1>4, <1>5 DEF Sent
<1>7. Sent \o e \in Seq(Character)
  BY <1>2, ConcatProperties DEF LInv
<1> QED BY <1>6, <1>7 DEF e

LEMMA AppendIsLast ==
  ASSUME NEW S, NEW s \in Seq(S), NEW t \in Seq(S), NEW k \in S
  PROVE  s \o Append(t, k) = Append(s \o t, k)
OBVIOUS

LEMMA LinesKept ==
  ASSUME LInv, UNCHANGED <<line, lines, typed>>, rdr' \in Seq(Key)
  PROVE  LInv'
BY DEF LInv, Sent, Whole

LEMMA ReceivedKeeps ==
  ASSUME LInv, NEW k \in Character, received(k), rdr' \in Seq(Key)
  PROVE  LInv'
<1>1. Sent \in Seq(Character) /\ line \in Seq(Character) /\ lines \in Seq(Seq(Character))
  BY DEF LInv
<1>2. typed' = Append(typed, k) /\ typed = Sent \o line
  BY DEF received, LInv
<1>3. typed' = Sent \o Append(line, k)
  <2>1. Sent \o Append(line, k) = Append(Sent \o line, k)
    <3>1. \A u \in Seq(Character), w \in Seq(Character), c \in Character :
             u \o Append(w, c) = Append(u \o w, c)
      BY AppendIsLast
    <3> QED BY <1>1, <3>1
  <2> QED BY <1>2, <2>1, Zenon
<1>4. CASE k = "nl"
  <2>1. lines' = Append(lines, line) /\ line' = <<>>
    BY <1>4 DEF received
  <2>2. Sent' = Sent \o Append(line, "nl") /\ Sent' \in Seq(Character)
    BY <2>1, LineSent
  <2>3. Sent' \o <<>> = Sent'
    BY <2>2, ConcatEmptySeq
  <2>4. lines' \in Seq(Seq(Character)) /\ line' \in Seq(Character)
    BY <1>1, <2>1, AppendProperties, EmptySeq
  <2> QED BY <1>3, <1>4, <2>1, <2>2, <2>3, <2>4 DEF LInv
<1>5. CASE k # "nl"
  <2>1. lines' = lines /\ line' = Append(line, k)
    BY <1>5 DEF received
  <2>2. Sent' = Sent
    BY <2>1 DEF Sent, Whole
  <2>3. line' \in Seq(Character)
    BY <1>1, <2>1, AppendProperties
  <2> QED BY <1>1, <1>3, <2>1, <2>2, <2>3 DEF LInv
<1> QED BY <1>4, <1>5

LEMMA StepLines == LInv /\ [Next]_vars => LInv'
<1> SUFFICES ASSUME LInv, [Next]_vars PROVE LInv'
  OBVIOUS
<1>1. CASE UNCHANGED input
  BY <1>1, LinesKept DEF input, LInv
<1>2. CASE \E k \in Key : type(k)
  <2>1. PICK k \in Key : type(k)
    BY <1>2
  <2>2. rdr' \in Seq(Key) /\ UNCHANGED <<line, lines, typed>>
    BY <2>1 DEF type
  <2> QED BY <2>2, LinesKept
<1>3. CASE consdrv_intr
  <2>1. rdr' \in Seq(Key)
    BY <1>3, EmptySeq DEF consdrv_intr
  <2>2. CASE UNCHANGED <<line, lines, typed>>
    BY <2>1, <2>2, LinesKept
  <2>3. CASE ~UNCHANGED <<line, lines, typed>>
    <3> DEFINE k == IF Head(rdr) = "cr" THEN "nl" ELSE Head(rdr)
    <3>1. RecvPending /\ received(k)
      BY <1>3, <2>3 DEF consdrv_intr
    <3>2. k \in Character
      BY <3>1, HeadTailProperties DEF RecvPending, LInv, Character
    <3> HIDE DEF k
    <3> QED BY <2>1, <3>1, <3>2, ReceivedKeeps
  <2> QED BY <2>2, <2>3
<1>4. CASE use \/ (\E s \in Text : send_write(s)) \/ consdrv \/ transmit
  BY <1>1, <1>4 DEF use, send_write, consdrv, write, load, store, finish, transmit
<1>5. CASE UNCHANGED vars
  BY <1>1, <1>5 DEF vars
<1> QED BY <1>2, <1>3, <1>4, <1>5 DEF Next

\* No character is lost, doubled or put into the wrong line, whatever the
\* handler is busy with: consdrv.c:92-127.
THEOREM LinesCorrect == Spec => []LinesWhole
<1>1. LInv => LinesWhole
  BY DEF LInv, LinesWhole, Sent, Whole
<1> QED BY <1>1, InitLines, StepLines, PTL DEF Spec
=============================================================================
