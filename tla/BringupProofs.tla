----------------------------- MODULE BringupProofs -----------------------------
(***************************************************************************)
(* Proofs about Bringup.tla: the files that tftp reads, for any length,    *)
(* any number of transfers, and any datagrams lost, repeated or late; and  *)
(* what the boot loader takes for loaded, for any image and size of block, *)
(* whatever bytes and answers arrive wrong that upset does not record; and *)
(* what the debugger knows, for any program, threads and breakpoints, any  *)
(* number of commands, and any items on the line that arrive wrong.        *)
(***************************************************************************)
EXTENDS Bringup, SequenceTheorems, FiniteSetTheorems, WellFoundedInduction, TLAPS

-----------------------------------------------------------------------------
(* Sequences and bags.                                                     *)

Sequence(q) == \E S : q \in Seq(S)

LEMMA Appended ==
  ASSUME NEW q, Sequence(q), NEW x
  PROVE  /\ Sequence(Append(q, x)) /\ Len(q) \in Nat /\ Len(Append(q, x)) = Len(q) + 1
         /\ \A k \in 1..Len(q) : Append(q, x)[k] = q[k]
         /\ Append(q, x)[Len(q) + 1] = x
<1>1. PICK S : q \in Seq(S)
  BY DEF Sequence
<1>2. q \in Seq(S \cup {x}) /\ x \in S \cup {x}
  BY <1>1
<1> HIDE <1>1
<1> QED BY <1>2, AppendProperties, LenProperties DEF Sequence

LEMMA Tailed ==
  ASSUME NEW q, Sequence(q), q # <<>>
  PROVE  /\ Sequence(Tail(q)) /\ Len(q) \in Nat \ {0} /\ Len(Tail(q)) = Len(q) - 1
         /\ \A k \in 1..Len(Tail(q)) : Tail(q)[k] = q[k + 1]
         /\ Head(q) = q[1]
<1>1. PICK S : q \in Seq(S)
  BY DEF Sequence
<1> QED BY <1>1, HeadTailProperties, LenProperties, EmptySeq DEF Sequence

LEMMA Emptied == Sequence(<<>>)
<1>1. <<>> \in Seq({})
  OBVIOUS
<1> QED BY <1>1 DEF Sequence

Bag(B) == \A e \in DOMAIN B : B[e] \in Nat \ {0}
With(B, d) == Os!(+)(B, Os!SetToBag({d}))
Without(B, d) == Os!(-)(B, Os!SetToBag({d}))

LEMMA BagWith ==
  ASSUME NEW B, Bag(B), NEW d
  PROVE  /\ Bag(With(B, d)) /\ DOMAIN With(B, d) = DOMAIN B \cup {d}
         /\ With(B, d)[d] = (IF d \in DOMAIN B THEN B[d] ELSE 0) + 1
         /\ \A e \in DOMAIN B : e # d => With(B, d)[e] = B[e]
BY DEF Bag, With, Os!(+), Os!SetToBag

LEMMA BagWithout ==
  ASSUME NEW B, Bag(B), NEW d \in DOMAIN B
  PROVE  /\ Bag(Without(B, d))
         /\ \A e \in DOMAIN Without(B, d) :
              e \in DOMAIN B /\ (e # d => Without(B, d)[e] = B[e]) /\ Without(B, d)[e] <= B[e]
         /\ B[d] = 1 => d \notin DOMAIN Without(B, d)
BY DEF Bag, Without, Os!(-), Os!SetToBag

-----------------------------------------------------------------------------
(* Reading files.                                                          *)

Read(b) == \E i \in 1..Len(buffer) : buffer[i] = b
Starting == \E i \in 1..Len(TFTP) : TFTP[i].cmd = "START"

\* Nothing for port q is on its way or will be sent.
Calm(q) ==
  /\ \A d \in DOMAIN net : d.kind \in {"RRQ", "DATA"} => d.port # q
  /\ \A k \in 1..Len(server) : server[k].port = q => server[k].st # "sending"

\* Ports that are open and not that of the transfer are calm, and all of them are
\* before a transfer begins.
PortsOK ==
  /\ port \in Nat
  /\ \A q \in UDPPORTLIST : q \in 1..port /\ (Starting \/ q # port => Calm(q))

\* Data is what the server has sent, and acknowledgements of the current port are of
\* blocks that were received.
IsRRQ(d) == d = Os!datagram("RRQ", d.port, 0, 0) /\ d.port \in 1..port
IsDATA(d) ==
  /\ d = Os!datagram("DATA", d.port, d.tid, d.block)
  /\ d.tid \in 1..Len(server) /\ d.port = server[d.tid].port /\ d.block \in 1..server[d.tid].block
IsACK(d) ==
  /\ d = Os!datagram("ACK", d.port, d.tid, d.block)
  /\ d.tid \in 1..Len(server) /\ d.port \in 1..port
  /\ d.port = port => Read(d.block)
NetOK == Bag(net) /\ \A d \in DOMAIN net : IsRRQ(d) \/ IsDATA(d) \/ IsACK(d)

\* The server goes on when a block has been received.
ServerOK ==
  /\ Sequence(server)
  /\ \A k \in 1..Len(server) :
       /\ DOMAIN server[k] = {"port", "block", "st"}
       /\ server[k].port \in 1..port /\ server[k].block \in 1..BLOCKS
       /\ server[k].port = port => \A b \in 1..(server[k].block - 1) : Read(b)

\* A new transfer comes last; before it, everything in the box is of the current one.
IsRECV(m) ==
  /\ m.cmd = "RECV" /\ m.tid \in 1..Len(server)
  /\ server[m.tid].port = port /\ m.block \in 1..server[m.tid].block
BoxOK ==
  /\ Sequence(TFTP)
  /\ \A i \in 1..Len(TFTP) : (TFTP[i].cmd = "START" /\ i = Len(TFTP)) \/ IsRECV(TFTP[i])

\* Before a block come those with smaller numbers.
BufferOK ==
  /\ Sequence(buffer)
  /\ \A i \in 1..Len(buffer) :
       buffer[i] \in 1..BLOCKS /\ \A b \in 1..(buffer[i] - 1) : \E j \in 1..(i - 1) : buffer[j] = b

\* If nothing was sent twice, there is one thing at a time: the request, or one
\* block from one of the server's ports, the next to be received.
Mine(k) == k \in 1..Len(server) /\ server[k].port = port
Due(k, b) == b = Len(buffer) + 1 /\ server[k].block = b
Once ==
  ~again =>
    /\ \A i \in 1..Len(buffer) : buffer[i] = i
    /\ \A k, l : Mine(k) /\ Mine(l) => k = l
    /\ (\A k : ~Mine(k)) => Len(buffer) = 0
    /\ \A k : Mine(k) => Len(buffer) <= server[k].block
    /\ \A i, j \in 1..Len(TFTP) : TFTP[i].cmd = "RECV" /\ TFTP[j].cmd = "RECV" => i = j
    /\ \A i \in 1..Len(TFTP) : TFTP[i].cmd = "RECV" => Due(TFTP[i].tid, TFTP[i].block)
    /\ \A d \in DOMAIN net : d.port = port /\ d.kind = "RRQ" => net[d] = 1 /\ \A k : ~Mine(k)
    /\ \A d \in DOMAIN net : d.port = port /\ d.kind = "DATA" =>
         net[d] = 1 /\ Due(d.tid, d.block) /\ \A i \in 1..Len(TFTP) : TFTP[i].cmd # "RECV"

FInv == PortsOK /\ NetOK /\ ServerOK /\ BoxOK /\ BufferOK /\ Once

LEMMA FInit == Os!Init => FInv
<1> SUFFICES ASSUME Os!Init PROVE FInv
  OBVIOUS
<1>1. /\ UDPPORTLIST = {} /\ TFTP = <<>> /\ port = 0 /\ buffer = <<>>
      /\ DOMAIN net = {} /\ server = <<>>
  BY DEF Os!Init, Os!EmptyBag, Os!SetToBag
<1>2. PortsOK
  BY <1>1 DEF PortsOK
<1>3. NetOK
  BY <1>1 DEF NetOK, Bag
<1>4. ServerOK /\ BoxOK /\ BufferOK
  BY <1>1, Emptied DEF ServerOK, BoxOK, BufferOK
<1>5. Once
  BY <1>1 DEF Once, Mine
<1> QED BY <1>2, <1>3, <1>4, <1>5 DEF FInv

\* A file that was read: what BufferOK and Once say of it.
LEMMA FirstIs ==
  ASSUME NEW b, Read(b), Len(buffer) \in Nat
  PROVE  /\ Os!First(b) \in 1..Len(buffer) /\ buffer[Os!First(b)] = b
         /\ \A l \in 1..(Os!First(b) - 1) : buffer[l] # b
<1> DEFINE S == {k \in 1..Len(buffer) : buffer[k] = b}
           R == {ss \in Nat \X Nat : ss[1] < ss[2]}
<1>1. IsWellFoundedOn(R, Nat)
  BY NatLessThanWellFounded DEF OpToRel
<1>2. S \subseteq Nat /\ S # {}
  BY DEF Read
<1>3. PICK k \in S : \A l \in S : <<l, k>> \notin R
  <2> HIDE DEF R, S
  <2>1. IsWellFoundedOn(R, S)
    BY <1>1, <1>2, IsWellFoundedOnSubset
  <2> QED BY <1>2, <2>1, WFMin
<1>4. k \in 1..Len(buffer) /\ buffer[k] = b /\ \A l \in 1..(k - 1) : buffer[l] # b
  <2> SUFFICES ASSUME NEW l \in 1..(k - 1), buffer[l] = b PROVE FALSE
    OBVIOUS
  <2>1. l \in S /\ l \in Nat /\ k \in Nat /\ l < k
    OBVIOUS
  <2>2. <<l, k>> \in R
    BY <2>1
  <2> QED BY <1>3, <2>1, <2>2
<1> HIDE DEF S, R
<1> QED BY <1>4 DEF Os!First

LEMMA FInvFile == FInv => Os!FileRead
<1> SUFFICES ASSUME FInv, BLOCKS \in Os!Range(buffer)
             PROVE  /\ Os!Range(buffer) = 1..BLOCKS
                    /\ \A b, c \in 1..BLOCKS : b < c => Os!First(b) < Os!First(c)
                    /\ ~again => buffer = [k \in 1..BLOCKS |-> k]
  BY DEF Os!FileRead, Os!Over
<1>0. BLOCKS \in Nat \ {0}
  BY BringupAssumption
<1>1. Len(buffer) \in Nat /\ DOMAIN buffer = 1..Len(buffer)
  <2>1. PICK S : buffer \in Seq(S)
    BY DEF FInv, BufferOK, Sequence
  <2> QED BY <2>1
<1>2. /\ \A i \in 1..Len(buffer) : buffer[i] \in 1..BLOCKS
      /\ \A i \in 1..Len(buffer) : \A b \in 1..(buffer[i] - 1) : \E j \in 1..(i - 1) : buffer[j] = b
  BY DEF FInv, BufferOK
<1>3. \A b : b \in Os!Range(buffer) <=> Read(b)
  BY <1>1 DEF Os!Range, Read
<1>4. \A b \in 1..BLOCKS : Read(b)
  <2> SUFFICES ASSUME NEW b \in 1..BLOCKS, b # BLOCKS PROVE Read(b)
    BY <1>3
  <2>1. PICK i \in 1..Len(buffer) : buffer[i] = BLOCKS
    BY <1>3 DEF Read
  <2>2. b \in 1..(buffer[i] - 1)
    BY <1>0, <2>1
  <2>3. PICK j \in 1..(i - 1) : buffer[j] = b
    BY <1>2, <2>2
  <2>4. j \in 1..Len(buffer)
    BY <1>1
  <2> QED BY <2>3, <2>4 DEF Read
<1>5. Os!Range(buffer) = 1..BLOCKS
  <2>1. \A b : Read(b) => b \in 1..BLOCKS
    BY <1>2 DEF Read
  <2> QED BY <1>3, <1>4, <2>1
<1>6. ASSUME NEW b \in 1..BLOCKS, NEW c \in 1..BLOCKS, b < c
      PROVE  Os!First(b) < Os!First(c)
  <2> DEFINE i == Os!First(b)
             k == Os!First(c)
  <2>1. /\ i \in 1..Len(buffer) /\ \A l \in 1..(i - 1) : buffer[l] # b
        /\ k \in 1..Len(buffer) /\ buffer[k] = c
    BY <1>1, <1>4, FirstIs
  <2> HIDE DEF i, k
  <2>2. b \in 1..(buffer[k] - 1)
    BY <1>6, <2>1
  <2>3. PICK j \in 1..(k - 1) : buffer[j] = b
    BY <1>2, <2>1, <2>2
  <2>4. j \notin 1..(i - 1)
    BY <2>1, <2>3
  <2>5. i < k
    BY <1>1, <2>1, <2>4
  <2> QED BY <2>5 DEF i, k
<1>7. ASSUME ~again PROVE buffer = [k \in 1..BLOCKS |-> k]
  <2>1. \A i \in 1..Len(buffer) : buffer[i] = i
    BY <1>7 DEF FInv, Once
  <2>2. Len(buffer) = BLOCKS
    <3>1. PICK i \in 1..Len(buffer) : buffer[i] = BLOCKS
      BY <1>3 DEF Read
    <3>2. BLOCKS <= Len(buffer)
      BY <2>1, <3>1
    <3>3. Len(buffer) <= BLOCKS
      <4>1. CASE Len(buffer) = 0
        BY <1>0, <4>1
      <4>2. CASE Len(buffer) # 0
        <5>1. Len(buffer) \in 1..Len(buffer)
          BY <1>1, <4>2
        <5>2. Len(buffer) \in 1..BLOCKS
          BY <1>2, <2>1, <5>1
        <5> QED BY <1>0, <5>2
      <4> QED BY <4>1, <4>2
    <3>4. Len(buffer) \in Nat
      BY <1>1
    <3> QED BY <1>0, <3>2, <3>3, <3>4
  <2>3. PICK S : buffer \in Seq(S)
    BY DEF FInv, BufferOK, Sequence
  <2>4. buffer = [k \in 1..Len(buffer) |-> buffer[k]]
    BY <2>3
  <2>5. buffer = [k \in 1..Len(buffer) |-> k]
    BY <2>1, <2>4
  <2> QED BY <2>2, <2>5
<1> QED BY <1>5, <1>6, <1>7

-----------------------------------------------------------------------------
(* The steps that read files.                                              *)

Lesser(B2, B1) == Bag(B2) /\ \A e \in DOMAIN B2 : e \in DOMAIN B1 /\ B2[e] <= B1[e]

\* Datagrams may go, the server may stop.
LEMMA FKeep ==
  ASSUME FInv, UNCHANGED <<UDPPORTLIST, TFTP, port, buffer>>, again => again', Lesser(net', net),
         Sequence(server'), Len(server') = Len(server),
         \A k \in 1..Len(server) :
           /\ DOMAIN server'[k] = {"port", "block", "st"}
           /\ server'[k].port = server[k].port /\ server'[k].block = server[k].block
           /\ server'[k].st = "sending" => server[k].st = "sending"
  PROVE  FInv'
<1>1. \A e \in DOMAIN net' : e \in DOMAIN net /\ net'[e] <= net[e]
  BY DEF Lesser
<1>2. PortsOK'
  <2>1. \A q : Calm(q) => Calm(q)'
    BY <1>1 DEF Calm
  <2> QED BY <2>1 DEF FInv, PortsOK, Starting
<1>3. NetOK'
  <2> SUFFICES ASSUME NEW d \in DOMAIN net' PROVE (IsRRQ(d) \/ IsDATA(d) \/ IsACK(d))'
    BY DEF NetOK, Lesser
  <2>1. IsRRQ(d) \/ IsDATA(d) \/ IsACK(d)
    BY <1>1 DEF FInv, NetOK
  <2> QED BY <2>1 DEF IsRRQ, IsDATA, IsACK, Read
<1>4. ServerOK'
  BY DEF FInv, ServerOK, Read
<1>5. BoxOK'
  BY DEF FInv, BoxOK, IsRECV
<1>6. BufferOK'
  BY DEF FInv, BufferOK
<1>7. Once'
  <2> SUFFICES ASSUME ~again' PROVE Once'
    BY DEF Once
  <2>1. \A k : Mine(k)' <=> Mine(k)
    BY DEF Mine
  <2>2. /\ \A i \in 1..Len(TFTP) : TFTP[i].cmd = "RECV" => TFTP[i].tid \in 1..Len(server)
        /\ \A d \in DOMAIN net : d.kind = "DATA" => d.tid \in 1..Len(server)
    BY DEF FInv, BoxOK, IsRECV, NetOK, IsRRQ, IsDATA, IsACK, Os!datagram
  <2>3. \A k \in 1..Len(server) : \A b : Due(k, b) => Due(k, b)'
    BY DEF Due
  <2>4. \A d \in DOMAIN net' : net[d] = 1 => net'[d] = 1
    <3> SUFFICES ASSUME NEW d \in DOMAIN net', net[d] = 1 PROVE net'[d] = 1
      OBVIOUS
    <3>1. net'[d] \in Nat \ {0} /\ net'[d] <= 1
      BY <1>1 DEF Lesser, Bag
    <3> QED BY <3>1
  <2>5. \A k : Mine(k)' => Len(buffer') <= server'[k].block
    BY <2>1 DEF FInv, Once, Mine
  <2> QED BY <1>1, <2>1, <2>2, <2>3, <2>4, <2>5 DEF FInv, Once
<1> QED BY <1>2, <1>3, <1>4, <1>5, <1>6, <1>7 DEF FInv

\* A datagram is sent again, by the network or by the server.
LEMMA FAgain ==
  ASSUME FInv, UNCHANGED <<UDPPORTLIST, TFTP, port, buffer, server>>,
         NEW x, net' = With(net, x),
         \/ x \in DOMAIN net
         \/ \E k \in 1..Len(server) : x = Os!sends(k, server[k].block) /\ server[k].st = "sending",
         again' = (again \/ x.kind \in {"RRQ", "DATA"})
  PROVE  FInv'
<1>1. /\ Bag(net') /\ DOMAIN net' = DOMAIN net \cup {x}
      /\ \A e \in DOMAIN net : e # x => net'[e] = net[e]
  BY BagWith DEF FInv, NetOK
<1>2. \/ x \in DOMAIN net
      \/ /\ x = Os!datagram("DATA", x.port, x.tid, x.block)
         /\ x.tid \in 1..Len(server) /\ x.port = server[x.tid].port /\ x.block = server[x.tid].block
         /\ server[x.tid].st = "sending"
  BY DEF Os!sends, Os!datagram
<1>3. PortsOK'
  <2>1. \A q : Calm(q) => Calm(q)'
    <3> SUFFICES ASSUME NEW q, Calm(q) PROVE Calm(q)'
      OBVIOUS
    <3>1. x.kind \in {"RRQ", "DATA"} => x.port # q
      BY <1>2 DEF Calm
    <3> QED BY <1>1, <3>1 DEF Calm
  <2> QED BY <2>1 DEF FInv, PortsOK, Starting
<1>4. NetOK'
  <2>1. IsRRQ(x) \/ IsDATA(x) \/ IsACK(x)
    <3>1. CASE x \in DOMAIN net
      BY <3>1 DEF FInv, NetOK
    <3>2. CASE x \notin DOMAIN net
      <4>1. server[x.tid].block \in 1..BLOCKS
        BY <1>2, <3>2 DEF FInv, ServerOK
      <4> QED BY <1>2, <3>2, <4>1, BringupAssumption DEF IsDATA
    <3> QED BY <3>1, <3>2
  <2> SUFFICES ASSUME NEW d \in DOMAIN net' PROVE (IsRRQ(d) \/ IsDATA(d) \/ IsACK(d))'
    BY <1>1 DEF NetOK
  <2>2. IsRRQ(d) \/ IsDATA(d) \/ IsACK(d)
    BY <1>1, <2>1 DEF FInv, NetOK
  <2> QED BY <2>2 DEF IsRRQ, IsDATA, IsACK, Read
<1>5. ServerOK'
  BY DEF FInv, ServerOK, Read
<1>6. BoxOK'
  BY DEF FInv, BoxOK, IsRECV
<1>7. BufferOK'
  BY DEF FInv, BufferOK
<1>8. Once'
  <2> SUFFICES ASSUME ~again' PROVE Once'
    BY DEF Once
  <2>1. ~again /\ x.kind \notin {"RRQ", "DATA"}
    OBVIOUS
  <2>2. \A k : Mine(k)' <=> Mine(k)
    BY DEF Mine
  <2>3. \A k, b : Due(k, b)' <=> Due(k, b)
    BY DEF Due
  <2>4. \A d \in DOMAIN net' : d.kind \in {"RRQ", "DATA"} => d \in DOMAIN net /\ net'[d] = net[d]
    BY <1>1, <2>1
  <2> QED BY <2>1, <2>2, <2>3, <2>4 DEF FInv, Once
<1> QED BY <1>3, <1>4, <1>5, <1>6, <1>7, <1>8 DEF FInv

\* The user asks for a file.
LEMMA FAsk == ASSUME FInv, Os!send_tftp PROVE FInv'
<1> DEFINE m == [cmd |-> "START", tid |-> 0, block |-> 0]
<1>1. /\ TFTP' = Append(TFTP, m) /\ ~Os!Busy
      /\ UNCHANGED <<UDPPORTLIST, port, buffer, net, server, again>>
  BY DEF Os!send_tftp
<1>2. /\ Sequence(TFTP') /\ Len(TFTP) \in Nat /\ Len(TFTP') = Len(TFTP) + 1
      /\ \A k \in 1..Len(TFTP) : TFTP'[k] = TFTP[k]
      /\ TFTP'[Len(TFTP) + 1] = m
  BY <1>1, Appended DEF FInv, BoxOK
<1>3. m.cmd = "START"
  OBVIOUS
<1> HIDE DEF m
<1>4. \A i \in 1..Len(TFTP) : TFTP[i].cmd # "START"
  BY <1>1 DEF Os!Busy
<1>5. PortsOK'
  <2>1. \A q \in UDPPORTLIST : Calm(q)
    <3> SUFFICES ASSUME NEW q \in UDPPORTLIST PROVE Calm(q)
      OBVIOUS
    <3>1. Os!Open(q)
      BY DEF Os!Open, Os!udp_search_portinfo
    <3>2. \A d \in DOMAIN net : d.kind \in {"RRQ", "DATA"} => ~Os!Open(d.port)
      BY <1>1 DEF Os!Busy, Os!BagToSet
    <3>3. \A k \in 1..Len(server) : server[k].st = "sending" => ~Os!Open(server[k].port)
      BY <1>1 DEF Os!Busy
    <3> QED BY <3>1, <3>2, <3>3 DEF Calm
  <2>2. \A q : Calm(q) => Calm(q)'
    BY <1>1 DEF Calm
  <2> QED BY <1>1, <2>1, <2>2 DEF FInv, PortsOK
<1>6. NetOK' /\ ServerOK' /\ BufferOK'
  BY <1>1 DEF FInv, NetOK, IsRRQ, IsDATA, IsACK, ServerOK, BufferOK, Read
<1>7. BoxOK'
  <2> SUFFICES ASSUME NEW i \in 1..Len(TFTP')
               PROVE  (TFTP'[i].cmd = "START" /\ i = Len(TFTP')) \/ IsRECV(TFTP[i])'
    BY <1>2 DEF BoxOK
  <2>1. CASE i \in 1..Len(TFTP)
    <3>1. IsRECV(TFTP[i])
      BY <1>4, <2>1 DEF FInv, BoxOK
    <3>2. TFTP'[i] = TFTP[i]
      BY <1>2, <2>1
    <3> QED BY <1>1, <3>1, <3>2 DEF IsRECV
  <2>2. CASE i = Len(TFTP) + 1
    BY <1>2, <1>3, <2>2
  <2> QED BY <1>2, <2>1, <2>2
<1>8. Once'
  <2>1. \A i \in 1..Len(TFTP') : TFTP'[i].cmd = "RECV" => i \in 1..Len(TFTP) /\ TFTP'[i] = TFTP[i]
    <3> SUFFICES ASSUME NEW i \in 1..Len(TFTP'), TFTP'[i].cmd = "RECV" PROVE i \in 1..Len(TFTP)
      BY <1>2
    <3>1. i # Len(TFTP) + 1
      BY <1>2, <1>3
    <3> QED BY <1>2, <3>1
  <2>2. (\A k : Mine(k)' <=> Mine(k)) /\ (\A k, b : Due(k, b)' <=> Due(k, b))
    BY <1>1 DEF Mine, Due
  <2> QED BY <1>1, <2>1, <2>2 DEF FInv, Once
<1> QED BY <1>5, <1>6, <1>7, <1>8 DEF FInv

LEMMA Goes ==
  ASSUME FInv, NEW d \in DOMAIN net, NEW B, B = Without(net, d)
  PROVE  /\ Lesser(B, net)
         /\ \A e \in DOMAIN B : e # d => B[e] = net[e]
         /\ net[d] = 1 => d \notin DOMAIN B
<1>1. Bag(net)
  BY DEF FInv, NetOK
<1>2. \A e \in DOMAIN net : net[e] \in Nat \ {0}
  BY <1>1 DEF Bag
<1> QED BY <1>1, BagWithout DEF Lesser

\* What is on its way for the current port, if nothing was sent twice.
LEMMA OnceOnly ==
  ASSUME FInv, ~again, NEW d \in DOMAIN net, d.port = port
  PROVE  /\ d.kind = "DATA" => \A e \in DOMAIN net : e.port = port /\ e.kind = "DATA" => e = d
         /\ d.kind = "RRQ" => \A e \in DOMAIN net : e.port = port /\ e.kind = "RRQ" => e = d
<1>1. \A e \in DOMAIN net :
        /\ e.kind = "DATA" => IsDATA(e)
        /\ e.kind = "RRQ" => IsRRQ(e)
  BY DEF FInv, NetOK, IsRRQ, IsDATA, IsACK, Os!datagram
<1>2. ASSUME d.kind = "DATA", NEW e \in DOMAIN net, e.port = port, e.kind = "DATA"
      PROVE  e = d
  <2>1. IsDATA(e) /\ IsDATA(d)
    BY <1>1, <1>2
  <2>2. Due(e.tid, e.block) /\ Due(d.tid, d.block)
    BY <1>2 DEF FInv, Once
  <2>3. e.block = d.block
    BY <2>2 DEF Due
  <2>4. Mine(e.tid) /\ Mine(d.tid)
    BY <1>2, <2>1 DEF IsDATA, Mine
  <2>5. e.tid = d.tid
    BY <2>4 DEF FInv, Once
  <2> QED BY <1>2, <2>1, <2>3, <2>5 DEF IsDATA
<1>3. ASSUME d.kind = "RRQ", NEW e \in DOMAIN net, e.port = port, e.kind = "RRQ"
      PROVE  e = d
  BY <1>1, <1>3 DEF IsRRQ
<1> QED BY <1>2, <1>3

\* A datagram comes in.
LEMMA FReceive == ASSUME FInv, NEW d, Os!udp_recv(d) PROVE FInv'
<1> DEFINE m == [cmd |-> "RECV", tid |-> d.tid, block |-> d.block]
<1>1. /\ d.kind = "DATA" /\ d \in DOMAIN net /\ net' = Without(net, d)
      /\ d.port \in UDPPORTLIST => TFTP' = Append(TFTP, m)
      /\ d.port \notin UDPPORTLIST => TFTP' = TFTP
      /\ UNCHANGED <<UDPPORTLIST, port, buffer, server, again>>
  BY DEF Os!udp_recv, Os!Arrived, Os!BagIn, Os!BagToSet, Os!udp_search_portinfo, Without
<1>2. m.cmd = "RECV" /\ m.tid = d.tid /\ m.block = d.block
  OBVIOUS
<1> HIDE DEF m
<1>3. /\ Lesser(net', net) /\ \A e \in DOMAIN net' : e # d => net'[e] = net[e]
      /\ net[d] = 1 => d \notin DOMAIN net'
  BY <1>1, Goes
<1>4. CASE d.port \notin UDPPORTLIST
  <2>1. UNCHANGED <<UDPPORTLIST, TFTP, port, buffer>> /\ (again => again') /\ server' = server
    BY <1>1, <1>4
  <2>2. Sequence(server)
    BY DEF FInv, ServerOK
  <2>3. \A k \in 1..Len(server) : DOMAIN server[k] = {"port", "block", "st"}
    BY DEF FInv, ServerOK
  <2> QED BY <1>3, <2>1, <2>2, <2>3, FKeep
<1>5. CASE d.port \in UDPPORTLIST
  <2>1. ~Calm(d.port)
    BY <1>1 DEF Calm
  <2>2. d.port = port /\ ~Starting
    BY <1>5, <2>1 DEF FInv, PortsOK
  <2>3. /\ Sequence(TFTP') /\ Len(TFTP) \in Nat /\ Len(TFTP') = Len(TFTP) + 1
        /\ \A k \in 1..Len(TFTP) : TFTP'[k] = TFTP[k]
        /\ TFTP'[Len(TFTP) + 1] = m
    <3>1. Sequence(TFTP) /\ TFTP' = Append(TFTP, m)
      BY <1>1, <1>5 DEF FInv, BoxOK
    <3> QED BY <3>1, Appended
  <2>4. \A e \in DOMAIN net' : e \in DOMAIN net
    BY <1>3 DEF Lesser
  <2>5. \A i \in 1..Len(TFTP') : TFTP'[i].cmd # "START"
    <3> SUFFICES ASSUME NEW i \in 1..Len(TFTP') PROVE TFTP'[i].cmd # "START"
      OBVIOUS
    <3>1. CASE i \in 1..Len(TFTP)
      BY <2>2, <2>3, <3>1 DEF Starting
    <3>2. CASE i = Len(TFTP) + 1
      BY <1>2, <2>3, <3>2
    <3> QED BY <2>3, <3>1, <3>2
  <2>6. PortsOK'
    <3>1. \A q : Calm(q) => Calm(q)'
      BY <1>1, <2>4 DEF Calm
    <3>2. ~Starting'
      BY <2>5 DEF Starting
    <3> QED BY <1>1, <3>1, <3>2 DEF FInv, PortsOK
  <2>7. NetOK'
    <3> SUFFICES ASSUME NEW e \in DOMAIN net' PROVE (IsRRQ(e) \/ IsDATA(e) \/ IsACK(e))'
      BY <1>3 DEF NetOK, Lesser
    <3>1. IsRRQ(e) \/ IsDATA(e) \/ IsACK(e)
      BY <2>4 DEF FInv, NetOK
    <3> QED BY <1>1, <3>1 DEF IsRRQ, IsDATA, IsACK, Read
  <2>8. ServerOK' /\ BufferOK'
    BY <1>1 DEF FInv, ServerOK, BufferOK, Read
  <2>9. IsDATA(d)
    BY <1>1 DEF FInv, NetOK, IsRRQ, IsACK, Os!datagram
  <2>10. BoxOK'
    <3> SUFFICES ASSUME NEW i \in 1..Len(TFTP') PROVE IsRECV(TFTP[i])'
      BY <2>3 DEF BoxOK
    <3>1. CASE i \in 1..Len(TFTP)
      <4>1. IsRECV(TFTP[i])
        BY <2>2, <3>1 DEF FInv, BoxOK, Starting
      <4>2. TFTP'[i] = TFTP[i]
        BY <2>3, <3>1
      <4> QED BY <1>1, <4>1, <4>2 DEF IsRECV
    <3>2. CASE i = Len(TFTP) + 1
      <4>1. TFTP'[i] = m
        BY <2>3, <3>2
      <4> QED BY <1>1, <1>2, <2>2, <2>9, <4>1 DEF IsDATA, IsRECV
    <3> QED BY <2>3, <3>1, <3>2
  <2>11. Once'
    <3> SUFFICES ASSUME ~again PROVE Once'
      BY <1>1 DEF Once
    <3>1. net[d] = 1 /\ Due(d.tid, d.block) /\ \A i \in 1..Len(TFTP) : TFTP[i].cmd # "RECV"
      BY <1>1, <2>2 DEF FInv, Once
    <3>2. (\A k : Mine(k)' <=> Mine(k)) /\ (\A k, b : Due(k, b)' <=> Due(k, b))
      BY <1>1 DEF Mine, Due
    <3>3. \A i \in 1..Len(TFTP') : TFTP'[i].cmd = "RECV" => i = Len(TFTP) + 1
      BY <2>3, <3>1
    <3>4. \A i \in 1..Len(TFTP') : TFTP'[i].cmd = "RECV" => Due(TFTP'[i].tid, TFTP'[i].block)
      BY <1>2, <2>3, <3>1, <3>3
    <3>5. \A e \in DOMAIN net' : e.port = port => e.kind # "DATA"
      BY <1>1, <1>3, <2>2, <2>4, <3>1, OnceOnly
    <3>6. \A e \in DOMAIN net' : e.kind = "RRQ" => net'[e] = net[e]
      BY <1>1, <1>3
    <3> QED BY <1>1, <2>4, <3>2, <3>3, <3>4, <3>5, <3>6 DEF FInv, Once
  <2> QED BY <2>6, <2>7, <2>8, <2>10, <2>11 DEF FInv
<1> QED BY <1>4, <1>5

\* The server answers a request.
LEMMA FServe == ASSUME FInv, NEW d, Os!serve(d) PROVE FInv'
<1> DEFINE v == [port |-> d.port, block |-> 1, st |-> "sending"]
           B == Without(net, d)
<1>1. PICK n : n = Len(server) + 1
  OBVIOUS
<1>2. PICK x : x = Os!datagram("DATA", d.port, n, 1)
  OBVIOUS
<1>3. /\ d.kind = "RRQ" /\ d \in DOMAIN net /\ net' = With(B, x)
      /\ server' = Append(server, v)
      /\ UNCHANGED <<UDPPORTLIST, TFTP, port, buffer, again>>
  BY <1>1, <1>2 DEF Os!serve, Os!BagIn, Os!BagToSet, Without, With, Os!tftpVars
<1>4. /\ v.port = d.port /\ v.block = 1 /\ DOMAIN v = {"port", "block", "st"}
      /\ x.kind = "DATA" /\ x.port = d.port /\ x.tid = n /\ x.block = 1
      /\ x = Os!datagram("DATA", x.port, x.tid, x.block)
  BY <1>2 DEF Os!datagram
<1>5. Sequence(server)
  BY DEF FInv, ServerOK
<1>6. /\ Sequence(server') /\ Len(server) \in Nat /\ Len(server') = n
      /\ \A k \in 1..Len(server) : server'[k] = server[k]
      /\ server'[n] = v
  BY <1>3, <1>5, <1>1, Appended
<1> HIDE DEF v
<1>7. /\ Lesser(B, net) /\ \A e \in DOMAIN B : e # d => B[e] = net[e]
      /\ net[d] = 1 => d \notin DOMAIN B
  BY <1>3, Goes
<1> HIDE DEF B
<1>8. /\ Bag(net') /\ DOMAIN net' = DOMAIN B \cup {x}
      /\ net'[x] = (IF x \in DOMAIN B THEN B[x] ELSE 0) + 1
      /\ \A e \in DOMAIN B : e # x => net'[e] = B[e]
  BY <1>3, <1>7, BagWith DEF Lesser
<1>9. \A e \in DOMAIN net' : e = x \/ (e \in DOMAIN B /\ e \in DOMAIN net)
  BY <1>7, <1>8 DEF Lesser
<1>10. IsRRQ(d)
  BY <1>3 DEF FInv, NetOK, IsDATA, IsACK, Os!datagram
<1>11. \A k \in 1..n : k \in 1..Len(server) \/ k = n
  BY <1>6, <1>1
<1>12. PortsOK'
  <2>1. \A q : Calm(q) => Calm(q)'
    <3> SUFFICES ASSUME NEW q, Calm(q) PROVE Calm(q)'
      OBVIOUS
    <3>1. d.port # q
      BY <1>3 DEF Calm
    <3>2. \A e \in DOMAIN net' : e.kind \in {"RRQ", "DATA"} => e.port # q
      BY <1>4, <1>9, <3>1 DEF Calm
    <3>3. \A k \in 1..Len(server') : server'[k].port = q => server'[k].st # "sending"
      BY <1>4, <1>6, <1>11, <3>1 DEF Calm
    <3> QED BY <3>2, <3>3 DEF Calm
  <2> QED BY <1>3, <2>1 DEF FInv, PortsOK, Starting
<1>13. NetOK'
  <2> SUFFICES ASSUME NEW e \in DOMAIN net' PROVE (IsRRQ(e) \/ IsDATA(e) \/ IsACK(e))'
    BY <1>8 DEF NetOK
  <2>1. CASE e = x
    <3>1. n \in 1..n
      BY <1>6, <1>1
    <3> QED BY <1>4, <1>6, <2>1, <3>1 DEF IsDATA
  <2>2. CASE e # x
    <3>1. IsRRQ(e) \/ IsDATA(e) \/ IsACK(e)
      BY <1>9, <2>2 DEF FInv, NetOK
    <3>2. \A k \in 1..Len(server) : k \in 1..Len(server')
      BY <1>6, <1>1
    <3> QED BY <1>3, <1>6, <3>1, <3>2 DEF IsRRQ, IsDATA, IsACK, Read
  <2> QED BY <2>1, <2>2
<1>14. ServerOK'
  <2> SUFFICES ASSUME NEW k \in 1..Len(server')
               PROVE  /\ DOMAIN server'[k] = {"port", "block", "st"}
                      /\ server'[k].port \in 1..port /\ server'[k].block \in 1..BLOCKS
                      /\ server'[k].port = port => \A b \in 1..(server'[k].block - 1) : Read(b)
    BY <1>3, <1>6 DEF ServerOK, Read
  <2>1. CASE k \in 1..Len(server)
    BY <1>6, <2>1 DEF FInv, ServerOK
  <2>2. CASE k = n
    <3>1. 1 \in 1..BLOCKS /\ \A b : b \notin 1..(1 - 1)
      BY BringupAssumption
    <3> QED BY <1>4, <1>6, <1>10, <2>2, <3>1 DEF IsRRQ
  <2> QED BY <1>6, <1>11, <2>1, <2>2
<1>15. BoxOK'
  <2>1. \A k \in 1..Len(server) : k \in 1..Len(server')
    BY <1>6, <1>1
  <2> QED BY <1>3, <1>6, <2>1 DEF FInv, BoxOK, IsRECV
<1>16. BufferOK'
  BY <1>3 DEF FInv, BufferOK
<1>17. Once'
  <2> SUFFICES ASSUME ~again PROVE Once'
    BY <1>3 DEF Once
  <2>1. \A e \in DOMAIN net : e.kind = "DATA" => IsDATA(e)
    BY DEF FInv, NetOK, IsRRQ, IsACK, Os!datagram
  <2>2. \A i \in 1..Len(TFTP) : TFTP[i].cmd = "RECV" => Mine(TFTP[i].tid)
    BY DEF FInv, BoxOK, IsRECV, Mine
  <2>3. \A k : Mine(k)' <=> Mine(k) \/ (k = n /\ d.port = port)
    <3>1. n \in 1..n /\ \A k \in 1..Len(server) : k \in 1..n
      BY <1>6, <1>1
    <3> QED BY <1>3, <1>4, <1>6, <1>11, <3>1 DEF Mine
  <2>4. \A k \in 1..Len(server) : \A b : Due(k, b)' <=> Due(k, b)
    BY <1>3, <1>6 DEF Due
  <2>5. \A k : Mine(k) => k \in 1..Len(server)
    BY DEF Mine
  <2>6. CASE d.port = port
    <3>1. net[d] = 1 /\ \A k : ~Mine(k)
      BY <1>3, <2>6 DEF FInv, Once
    <3>2. Len(buffer) = 0
      BY <3>1 DEF FInv, Once
    <3>3. \A i \in 1..Len(TFTP) : TFTP[i].cmd # "RECV"
      BY <2>2, <3>1
    <3>4. \A e \in DOMAIN net : e.port = port => e.kind # "DATA"
      BY <2>1, <3>1 DEF IsDATA, Mine
    <3>5. \A e \in DOMAIN net' : e.port = port => e.kind # "RRQ"
      BY <1>3, <1>4, <1>7, <1>9, <2>6, <3>1, OnceOnly
    <3>6. \A e \in DOMAIN net' : e.port = port /\ e.kind = "DATA" => e = x
      BY <1>9, <3>4
    <3>7. net'[x] = 1
      BY <1>4, <1>7, <1>8, <2>6, <3>4 DEF Lesser
    <3>8. Due(n, 1)'
      BY <1>3, <1>4, <1>6, <3>2 DEF Due
    <3>9. Len(buffer') <= server'[n].block
      BY <1>3, <1>4, <1>6, <3>2
    <3>10. \A k : Mine(k)' => k = n
      BY <2>3, <3>1
    <3> QED BY <1>3, <1>4, <2>6, <3>2, <3>3, <3>5, <3>6, <3>7, <3>8, <3>9, <3>10 DEF FInv, Once
  <2>7. CASE d.port # port
    <3>1. \A k : Mine(k)' <=> Mine(k)
      BY <2>3, <2>7
    <3>2. \A e \in DOMAIN net' : e.port = port => e \in DOMAIN net /\ net'[e] = net[e]
      BY <1>4, <1>7, <1>8, <1>9, <2>7
    <3>3. \A k : Mine(k)' => Len(buffer') <= server'[k].block
      BY <1>3, <1>6, <2>5, <3>1 DEF FInv, Once
    <3>4. \A i \in 1..Len(TFTP) : TFTP[i].cmd = "RECV" => Due(TFTP[i].tid, TFTP[i].block)'
      BY <1>3, <2>2, <2>4, <2>5 DEF FInv, Once
    <3>5. \A e \in DOMAIN net : e.port = port /\ e.kind = "DATA" => Due(e.tid, e.block)'
      BY <2>1, <2>4 DEF FInv, Once, IsDATA
    <3> QED BY <1>3, <3>1, <3>2, <3>3, <3>4, <3>5 DEF FInv, Once
  <2> QED BY <2>6, <2>7
<1> QED BY <1>12, <1>13, <1>14, <1>15, <1>16, <1>17 DEF FInv

\* The block last sent was acknowledged, and the next one follows.
LEMMA FAdvance ==
  ASSUME FInv, NEW d \in DOMAIN net, d.kind = "ACK", NEW t, t = d.tid,
         server[t].st = "sending", server[t].port = d.port, server[t].block = d.block,
         server[t].block < BLOCKS,
         net' = With(Without(net, d), Os!sends(t, server[t].block + 1)),
         server' = [server EXCEPT ![t].block = @ + 1],
         UNCHANGED <<UDPPORTLIST, TFTP, port, buffer, again>>
  PROVE  FInv'
<1>1. PICK B : B = Without(net, d)
  OBVIOUS
<1>2. PICK x : x = Os!sends(t, server[t].block + 1)
  OBVIOUS
<1>3. /\ x.kind = "DATA" /\ x.port = server[t].port /\ x.tid = t /\ x.block = server[t].block + 1
      /\ x = Os!datagram("DATA", x.port, x.tid, x.block)
  BY <1>2 DEF Os!sends, Os!datagram
<1>4. t \in 1..Len(server) /\ (d.port = port => Read(d.block))
  BY DEF FInv, NetOK, IsRRQ, IsDATA, IsACK, Os!datagram
<1>5. /\ Sequence(server) /\ server[t].block \in 1..BLOCKS /\ server[t].block + 1 \in 1..BLOCKS
  BY <1>4, BringupAssumption DEF FInv, ServerOK
<1>6. /\ Sequence(server') /\ Len(server') = Len(server) /\ Len(server) \in Nat
      /\ \A k \in 1..Len(server) :
           /\ DOMAIN server'[k] = DOMAIN server[k] /\ server'[k].port = server[k].port
           /\ server'[k].st = server[k].st
           /\ k # t => server'[k] = server[k]
      /\ server'[t].block = server[t].block + 1
  <2>1. PICK S : server \in Seq(S)
    BY <1>5 DEF Sequence
  <2>2. DOMAIN server[t] = {"port", "block", "st"}
    BY <1>4 DEF FInv, ServerOK
  <2>3. PICK v : v = [server[t] EXCEPT !.block = @ + 1]
    OBVIOUS
  <2>4. /\ DOMAIN v = DOMAIN server[t] /\ v.port = server[t].port /\ v.st = server[t].st
        /\ v.block = server[t].block + 1
    BY <2>2, <2>3
  <2>5. server' = [server EXCEPT ![t] = v]
    BY <2>3
  <2>6. server' \in Seq(S \cup {v}) /\ Len(server') = Len(server)
    <3>1. server \in Seq(S \cup {v}) /\ v \in S \cup {v}
      BY <2>1
    <3> QED BY <1>4, <2>5, <3>1
  <2>7. DOMAIN server = 1..Len(server) /\ Len(server) \in Nat
    BY <2>1
  <2>8. server'[t] = v /\ \A k \in 1..Len(server) : k # t => server'[k] = server[k]
    BY <1>4, <2>5, <2>7
  <2> QED BY <2>4, <2>6, <2>7, <2>8 DEF Sequence
<1>7. /\ Lesser(B, net) /\ \A e \in DOMAIN B : e # d => B[e] = net[e]
  BY <1>1, Goes
<1>8. net' = With(B, x)
  BY <1>2, <1>1
<1>9. /\ Bag(net') /\ DOMAIN net' = DOMAIN B \cup {x}
      /\ net'[x] = (IF x \in DOMAIN B THEN B[x] ELSE 0) + 1
      /\ \A e \in DOMAIN B : e # x => net'[e] = B[e]
  <2>1. Bag(B)
    BY <1>7 DEF Lesser
  <2>2. /\ Bag(With(B, x)) /\ DOMAIN With(B, x) = DOMAIN B \cup {x}
        /\ With(B, x)[x] = (IF x \in DOMAIN B THEN B[x] ELSE 0) + 1
        /\ \A e \in DOMAIN B : e # x => With(B, x)[e] = B[e]
    BY <2>1, BagWith, Zenon
  <2> QED BY <1>8, <2>2, Zenon
<1>10. \A e \in DOMAIN net' : e = x \/ (e \in DOMAIN B /\ e \in DOMAIN net)
  BY <1>7, <1>9 DEF Lesser
<1>11. \A k \in 1..Len(server) :
         server[k].block \in Nat /\ server'[k].block \in Nat /\ server[k].block <= server'[k].block
  <2>1. \A k \in 1..Len(server) : server[k].block \in Nat
    BY BringupAssumption DEF FInv, ServerOK
  <2> QED BY <1>6, <2>1
<1>12. PortsOK'
  <2>1. \A q : Calm(q) => Calm(q)'
    <3> SUFFICES ASSUME NEW q, Calm(q) PROVE Calm(q)'
      OBVIOUS
    <3>1. server[t].port # q
      BY <1>4 DEF Calm
    <3>2. \A e \in DOMAIN net' : e.kind \in {"RRQ", "DATA"} => e.port # q
      BY <1>3, <1>10, <3>1 DEF Calm
    <3>3. \A k \in 1..Len(server') : server'[k].port = q => server'[k].st # "sending"
      BY <1>6 DEF Calm
    <3> QED BY <3>2, <3>3 DEF Calm
  <2> QED BY <2>1 DEF FInv, PortsOK, Starting
<1>13. NetOK'
  <2> SUFFICES ASSUME NEW e \in DOMAIN net' PROVE (IsRRQ(e) \/ IsDATA(e) \/ IsACK(e))'
    BY <1>9 DEF NetOK
  <2>1. CASE e = x
    <3>1. x.block \in 1..server'[t].block
      BY <1>3, <1>5, <1>6, BringupAssumption
    <3> QED BY <1>3, <1>4, <1>6, <2>1, <3>1 DEF IsDATA
  <2>2. CASE e # x
    <3>1. IsRRQ(e) \/ IsDATA(e) \/ IsACK(e)
      BY <1>10, <2>2 DEF FInv, NetOK
    <3>2. CASE IsDATA(e)
      <4>1. e.block \in 1..server'[e.tid].block
        BY <1>11, <3>2 DEF IsDATA
      <4> QED BY <1>6, <3>2, <4>1 DEF IsDATA
    <3>3. CASE IsRRQ(e) \/ IsACK(e)
      BY <1>6, <3>3 DEF IsRRQ, IsACK, Read
    <3> QED BY <3>1, <3>2, <3>3
  <2> QED BY <2>1, <2>2
<1>14. ServerOK'
  <2> SUFFICES ASSUME NEW k \in 1..Len(server)
               PROVE  /\ DOMAIN server'[k] = {"port", "block", "st"}
                      /\ server'[k].port \in 1..port /\ server'[k].block \in 1..BLOCKS
                      /\ server'[k].port = port => \A b \in 1..(server'[k].block - 1) : Read(b)
    BY <1>6 DEF ServerOK, Read
  <2>1. /\ DOMAIN server'[k] = {"port", "block", "st"} /\ server'[k].port \in 1..port
    BY <1>6 DEF FInv, ServerOK
  <2>2. server'[k].block \in 1..BLOCKS
    BY <1>5, <1>6 DEF FInv, ServerOK
  <2>3. ASSUME server'[k].port = port, NEW b \in 1..(server'[k].block - 1) PROVE Read(b)
    <3>1. server[k].port = port
      BY <1>6, <2>3
    <3>2. CASE b \in 1..(server[k].block - 1)
      BY <3>1, <3>2 DEF FInv, ServerOK
    <3>3. CASE b \notin 1..(server[k].block - 1)
      <4>1. k = t
        BY <1>6, <2>3, <3>3
      <4>2. b = server[t].block
        BY <1>5, <1>6, <2>3, <3>3, <4>1, BringupAssumption
      <4> QED BY <1>4, <3>1, <4>1, <4>2
    <3> QED BY <3>2, <3>3
  <2> QED BY <2>1, <2>2, <2>3
<1>15. BoxOK'
  <2>1. \A i \in 1..Len(TFTP) : IsRECV(TFTP[i]) => IsRECV(TFTP[i])'
    <3> SUFFICES ASSUME NEW i \in 1..Len(TFTP), IsRECV(TFTP[i]) PROVE IsRECV(TFTP[i])'
      OBVIOUS
    <3>1. TFTP[i].block \in 1..server'[TFTP[i].tid].block
      BY <1>11 DEF IsRECV
    <3> QED BY <1>6, <3>1 DEF IsRECV
  <2> QED BY <2>1 DEF FInv, BoxOK
<1>16. BufferOK'
  BY DEF FInv, BufferOK
<1>17. Once'
  <2> SUFFICES ASSUME ~again PROVE Once'
    BY DEF Once
  <2>1. \A e \in DOMAIN net : e.kind = "DATA" => IsDATA(e)
    BY DEF FInv, NetOK, IsRRQ, IsACK, Os!datagram
  <2>2. \A i \in 1..Len(TFTP) : TFTP[i].cmd = "RECV" => Mine(TFTP[i].tid)
    BY DEF FInv, BoxOK, IsRECV, Mine
  <2>3. \A k : Mine(k)' <=> Mine(k)
    BY <1>6 DEF Mine
  <2>4. \A k : Mine(k) => k \in 1..Len(server)
    BY DEF Mine
  <2>5. \A k \in 1..Len(server) : k # t => \A b : Due(k, b)' <=> Due(k, b)
    BY <1>6 DEF Due
  <2>6. \A k : Mine(k)' => Len(buffer') <= server'[k].block
    <3> SUFFICES ASSUME NEW k, Mine(k) PROVE Len(buffer) <= server'[k].block
      BY <2>3
    <3>1. Len(buffer) <= server[k].block /\ k \in 1..Len(server)
      BY <2>4 DEF FInv, Once
    <3>2. Len(buffer) \in Nat
      <4>1. PICK S : buffer \in Seq(S)
        BY DEF FInv, BufferOK, Sequence
      <4> QED BY <4>1
    <3> QED BY <1>11, <3>1, <3>2
  <2>7. CASE server[t].port = port
    <3>1. Mine(t) /\ Len(buffer) <= server[t].block
      BY <1>4, <2>7 DEF FInv, Once, Mine
    <3>2. Len(buffer) \in Nat
      <4>1. PICK S : buffer \in Seq(S)
        BY DEF FInv, BufferOK, Sequence
      <4> QED BY <4>1
    <3>3. server[t].block = Len(buffer)
      <4>1. PICK i \in 1..Len(buffer) : buffer[i] = server[t].block
        BY <1>4, <2>7 DEF Read
      <4>2. buffer[i] = i
        BY DEF FInv, Once
      <4> QED BY <3>1, <3>2, <4>1, <4>2
    <3>4. \A k, b : Mine(k) => ~Due(k, b)
      <4> SUFFICES ASSUME NEW k, NEW b, Mine(k), Due(k, b) PROVE FALSE
        OBVIOUS
      <4>1. k = t
        BY <3>1 DEF FInv, Once
      <4> QED BY <3>2, <3>3, <4>1 DEF Due
    <3>5. \A i \in 1..Len(TFTP) : TFTP[i].cmd # "RECV"
      BY <2>2, <3>4 DEF FInv, Once
    <3>6. \A e \in DOMAIN net : e.port = port => e.kind # "DATA"
      <4> SUFFICES ASSUME NEW e \in DOMAIN net, e.port = port, e.kind = "DATA" PROVE FALSE
        OBVIOUS
      <4>1. Due(e.tid, e.block)
        BY DEF FInv, Once
      <4>2. Mine(e.tid)
        BY <2>1 DEF IsDATA, Mine
      <4> QED BY <3>4, <4>1, <4>2
    <3>7. \A e \in DOMAIN net : e.port = port => e.kind # "RRQ"
      BY <3>1 DEF FInv, Once
    <3>8. \A e \in DOMAIN net' : e.port = port => e.kind # "RRQ"
      BY <1>3, <1>10, <3>7
    <3>9. \A e \in DOMAIN net' : e.port = port /\ e.kind = "DATA" => e = x
      BY <1>10, <3>6
    <3>10. net'[x] = 1
      BY <1>3, <1>7, <1>9, <2>7, <3>6 DEF Lesser
    <3>11. Due(x.tid, x.block)'
      <4>1. x.block = Len(buffer) + 1 /\ server'[x.tid].block = x.block
        BY <1>3, <1>6, <3>3
      <4> QED BY <4>1 DEF Due
    <3> QED BY <2>3, <2>6, <3>1, <3>5, <3>8, <3>9, <3>10, <3>11 DEF FInv, Once
  <2>8. CASE server[t].port # port
    <3>1. ~Mine(t)
      BY <2>8 DEF Mine
    <3>2. \A e \in DOMAIN net' : e.port = port => e \in DOMAIN net
      BY <1>3, <1>10, <2>8
    <3>3. \A e \in DOMAIN net' : e.port = port /\ e.kind # "ACK" => net'[e] = net[e]
      BY <1>3, <1>7, <1>9, <1>10, <2>8
    <3>4. \A i \in 1..Len(TFTP) : TFTP[i].cmd = "RECV" => Due(TFTP[i].tid, TFTP[i].block)'
      BY <2>2, <2>4, <2>5, <3>1 DEF FInv, Once
    <3>5. \A e \in DOMAIN net : e.port = port /\ e.kind = "DATA" => Due(e.tid, e.block)'
      <4> SUFFICES ASSUME NEW e \in DOMAIN net, e.port = port, e.kind = "DATA"
                   PROVE  Due(e.tid, e.block)'
        OBVIOUS
      <4>1. Due(e.tid, e.block)
        BY DEF FInv, Once
      <4>2. Mine(e.tid)
        BY <2>1 DEF IsDATA, Mine
      <4> QED BY <2>4, <2>5, <3>1, <4>1, <4>2
    <3> QED BY <2>3, <2>6, <3>2, <3>3, <3>4, <3>5 DEF FInv, Once
  <2> QED BY <2>7, <2>8
<1> QED BY <1>12, <1>13, <1>14, <1>15, <1>16, <1>17 DEF FInv

\* The server stops sending from a port.
LEMMA Stops ==
  ASSUME Sequence(server), \A k \in 1..Len(server) : DOMAIN server[k] = {"port", "block", "st"},
         NEW t \in 1..Len(server), NEW s, s # "sending", server' = [server EXCEPT ![t].st = s]
  PROVE  /\ Sequence(server') /\ Len(server') = Len(server)
         /\ \A k \in 1..Len(server) :
              /\ DOMAIN server'[k] = {"port", "block", "st"}
              /\ server'[k].port = server[k].port /\ server'[k].block = server[k].block
              /\ server'[k].st = "sending" => server[k].st = "sending"
<1>1. PICK S : server \in Seq(S)
  BY DEF Sequence
<1>2. PICK v : v = [server[t] EXCEPT !.st = s]
  OBVIOUS
<1>3. /\ DOMAIN v = {"port", "block", "st"} /\ v.port = server[t].port /\ v.block = server[t].block
      /\ v.st = s
  BY <1>2
<1>4. server' = [server EXCEPT ![t] = v]
  BY <1>2
<1>5. server' \in Seq(S \cup {v}) /\ Len(server') = Len(server)
  <2>1. server \in Seq(S \cup {v}) /\ v \in S \cup {v}
    BY <1>1
  <2> QED BY <1>4, <2>1
<1>6. DOMAIN server = 1..Len(server)
  BY <1>1
<1>7. server'[t] = v /\ \A k \in 1..Len(server) : k # t => server'[k] = server[k]
  BY <1>4, <1>6
<1> QED BY <1>3, <1>5, <1>7 DEF Sequence

\* An acknowledgement comes in.
LEMMA FAcknowledge == ASSUME FInv, NEW d, Os!acknowledged(d) PROVE FInv'
<1> DEFINE t == d.tid
<1>1. /\ d.kind = "ACK" /\ d \in DOMAIN net
      /\ UNCHANGED <<UDPPORTLIST, TFTP, port, buffer, again>>
  BY DEF Os!acknowledged, Os!BagIn, Os!BagToSet, Os!tftpVars
<1>2. \/ net' = Without(net, d) /\ server' = server
      \/ net' = Without(net, d) /\ server' = [server EXCEPT ![d.tid].st = "done"]
      \/ /\ server[d.tid].st = "sending" /\ server[d.tid].port = d.port
         /\ server[d.tid].block = d.block /\ server[d.tid].block < BLOCKS
         /\ net' = With(Without(net, d), Os!sends(d.tid, server[d.tid].block + 1))
         /\ server' = [server EXCEPT ![d.tid].block = @ + 1]
  BY DEF Os!acknowledged, With, Without
<1>3. /\ Sequence(server) /\ \A k \in 1..Len(server) : DOMAIN server[k] = {"port", "block", "st"}
  BY DEF FInv, ServerOK
<1>4. CASE net' = Without(net, d) /\ server' = server
  <2>1. Lesser(net', net)
    BY <1>1, <1>4, Goes
  <2>2. UNCHANGED <<UDPPORTLIST, TFTP, port, buffer>> /\ (again => again')
    BY <1>1
  <2> QED BY <1>3, <1>4, <2>1, <2>2, FKeep
<1>5. CASE net' = Without(net, d) /\ server' = [server EXCEPT ![d.tid].st = "done"]
  <2>1. Lesser(net', net)
    BY <1>1, <1>5, Goes
  <2>2. UNCHANGED <<UDPPORTLIST, TFTP, port, buffer>> /\ (again => again')
    BY <1>1
  <2>3. d.tid \in 1..Len(server)
    BY <1>1 DEF FInv, NetOK, IsRRQ, IsDATA, IsACK, Os!datagram
  <2>4. /\ Sequence(server') /\ Len(server') = Len(server)
        /\ \A k \in 1..Len(server) :
             /\ DOMAIN server'[k] = {"port", "block", "st"}
             /\ server'[k].port = server[k].port /\ server'[k].block = server[k].block
             /\ server'[k].st = "sending" => server[k].st = "sending"
    BY <1>3, <1>5, <2>3, Stops
  <2> QED BY <2>1, <2>2, <2>4, FKeep
<1>6. CASE /\ server[d.tid].st = "sending" /\ server[d.tid].port = d.port
           /\ server[d.tid].block = d.block /\ server[d.tid].block < BLOCKS
           /\ net' = With(Without(net, d), Os!sends(d.tid, server[d.tid].block + 1))
           /\ server' = [server EXCEPT ![d.tid].block = @ + 1]
  <2>1. UNCHANGED <<UDPPORTLIST, TFTP, port, buffer, again>>
    BY <1>1
  <2> QED BY <1>1, <1>6, <2>1, FAdvance
<1> QED BY <1>2, <1>4, <1>5, <1>6

\* The server waited long enough for an acknowledgement.
LEMMA FTimeout == ASSUME FInv, NEW k \in 1..Len(server), Os!timeout(k) PROVE FInv'
<1>1. /\ server[k].st = "sending"
      /\ UNCHANGED <<UDPPORTLIST, TFTP, port, buffer>>
  BY DEF Os!timeout, Os!tftpVars
<1>2. \/ server' = [server EXCEPT ![k].st = "gave up"] /\ UNCHANGED <<net, again>>
      \/ /\ net' = With(net, Os!sends(k, server[k].block)) /\ again' = TRUE
         /\ server' = server
  BY DEF Os!timeout, With
<1>3. CASE server' = [server EXCEPT ![k].st = "gave up"] /\ UNCHANGED <<net, again>>
  <2>1. /\ Sequence(server) /\ \A j \in 1..Len(server) : DOMAIN server[j] = {"port", "block", "st"}
    BY DEF FInv, ServerOK
  <2>2. /\ Sequence(server') /\ Len(server') = Len(server)
        /\ \A j \in 1..Len(server) :
             /\ DOMAIN server'[j] = {"port", "block", "st"}
             /\ server'[j].port = server[j].port /\ server'[j].block = server[j].block
             /\ server'[j].st = "sending" => server[j].st = "sending"
    BY <1>3, <2>1, Stops
  <2>3. Lesser(net', net)
    <3>1. Bag(net) /\ net' = net
      BY <1>3 DEF FInv, NetOK
    <3>2. \A e \in DOMAIN net : net[e] <= net[e]
      BY <3>1 DEF Bag
    <3> QED BY <3>1, <3>2 DEF Lesser
  <2>4. again => again'
    BY <1>3
  <2> QED BY <1>1, <2>2, <2>3, <2>4, FKeep
<1>4. CASE /\ net' = With(net, Os!sends(k, server[k].block)) /\ again' = TRUE
           /\ server' = server
  <2>1. PICK x : x = Os!sends(k, server[k].block)
    OBVIOUS
  <2>2. x.kind \in {"RRQ", "DATA"}
    BY <2>1 DEF Os!sends, Os!datagram
  <2>3. again' = (again \/ x.kind \in {"RRQ", "DATA"})
    BY <1>4, <2>2
  <2>4. net' = With(net, x)
    BY <1>4, <2>1
  <2>5. UNCHANGED <<UDPPORTLIST, TFTP, port, buffer, server>>
    BY <1>1, <1>4
  <2> QED BY <1>1, <2>1, <2>3, <2>4, <2>5, FAgain
<1> QED BY <1>2, <1>3, <1>4

\* The network.
LEMMA FLose == ASSUME FInv, NEW d, Os!lose(d) PROVE FInv'
<1>1. /\ d \in DOMAIN net /\ net' = Without(net, d)
      /\ UNCHANGED <<UDPPORTLIST, TFTP, port, buffer, server, again>>
  BY DEF Os!lose, Os!Arrived, Os!BagIn, Os!BagToSet, Os!tftpVars, Without
<1>2. Lesser(net', net)
  BY <1>1, Goes
<1>3. /\ Sequence(server) /\ \A k \in 1..Len(server) : DOMAIN server[k] = {"port", "block", "st"}
  BY DEF FInv, ServerOK
<1>4. UNCHANGED <<UDPPORTLIST, TFTP, port, buffer>> /\ server' = server /\ (again => again')
  BY <1>1
<1> QED BY <1>2, <1>3, <1>4, FKeep

LEMMA FRepeat == ASSUME FInv, NEW d \in DOMAIN net, Os!repeat(d) PROVE FInv'
<1>1. /\ net' = With(net, d) /\ again' = (again \/ d.kind \in {"RRQ", "DATA"})
      /\ UNCHANGED <<UDPPORTLIST, TFTP, port, buffer, server>>
  BY DEF Os!repeat, Os!udp_send, Os!tftpVars, With
<1> QED BY <1>1, FAgain

\* A transfer begins.
LEMMA FStart == ASSUME FInv, Os!TFTP_CMD_START PROVE FInv'
<1>1. PICK x : x = Os!datagram("RRQ", port + 1, 0, 0)
  OBVIOUS
<1>2. /\ TFTP # <<>> /\ Head(TFTP).cmd = "START" /\ TFTP' = Tail(TFTP)
      /\ buffer' = <<>> /\ port' = port + 1
      /\ UDPPORTLIST' = UDPPORTLIST \cup {port + 1}
      /\ net' = With(net, x)
      /\ UNCHANGED <<server, again>>
  BY <1>1 DEF Os!TFTP_CMD_START, Os!kz_recv, Os!udp_send, Os!UDP_CMD_REGPORT, With
<1>3. x.kind = "RRQ" /\ x.port = port + 1 /\ x = Os!datagram("RRQ", x.port, 0, 0)
  BY <1>1 DEF Os!datagram
<1>4. port \in Nat
  BY DEF FInv, PortsOK
<1>5. /\ Sequence(TFTP') /\ Len(TFTP) \in Nat \ {0} /\ Len(TFTP') = Len(TFTP) - 1
      /\ TFTP[1].cmd = "START"
  <2>1. Sequence(TFTP)
    BY DEF FInv, BoxOK
  <2> QED BY <1>2, <2>1, Tailed
<1>6. Starting
  BY <1>5 DEF Starting
<1>7. Len(TFTP') = 0
  <2>1. 1 \in 1..Len(TFTP)
    BY <1>5
  <2>2. Len(TFTP) = 1
    BY <1>5, <2>1 DEF FInv, BoxOK, IsRECV
  <2> QED BY <1>5, <2>2
<1>8. /\ Bag(net') /\ DOMAIN net' = DOMAIN net \cup {x}
      /\ net'[x] = (IF x \in DOMAIN net THEN net[x] ELSE 0) + 1
  <2>1. Bag(net)
    BY DEF FInv, NetOK
  <2> QED BY <1>2, <2>1, BagWith
<1>9. \A d \in DOMAIN net : d.port \in 1..port
  BY DEF FInv, NetOK, IsRRQ, IsDATA, IsACK, ServerOK
<1>10. x \notin DOMAIN net /\ net'[x] = 1
  BY <1>3, <1>4, <1>8, <1>9
<1>11. PortsOK'
  <2>1. port' \in Nat
    BY <1>2, <1>4
  <2>2. ~Starting'
    BY <1>7 DEF Starting
  <2>3. ASSUME NEW q \in UDPPORTLIST' PROVE q \in 1..port' /\ (q # port' => Calm(q)')
    <3>1. CASE q = port + 1
      BY <1>2, <1>4, <3>1
    <3>2. CASE q \in UDPPORTLIST
      <4>1. q \in 1..port /\ Calm(q)
        BY <1>6, <3>2 DEF FInv, PortsOK
      <4>2. q # x.port
        BY <1>3, <1>4, <4>1
      <4>3. Calm(q)'
        BY <1>2, <1>8, <4>1, <4>2 DEF Calm
      <4> QED BY <1>2, <1>4, <4>1, <4>3
    <3> QED BY <1>2, <3>1, <3>2
  <2> QED BY <2>1, <2>2, <2>3 DEF PortsOK
<1>12. NetOK'
  <2> SUFFICES ASSUME NEW d \in DOMAIN net' PROVE (IsRRQ(d) \/ IsDATA(d) \/ IsACK(d))'
    BY <1>8 DEF NetOK
  <2>1. CASE d = x
    <3>1. port + 1 \in 1..(port + 1)
      BY <1>4
    <3> QED BY <1>2, <1>3, <2>1, <3>1 DEF IsRRQ
  <2>2. CASE d \in DOMAIN net
    <3>1. IsRRQ(d) \/ IsDATA(d) \/ IsACK(d)
      BY <2>2 DEF FInv, NetOK
    <3>2. d.port \in 1..(port + 1) /\ d.port # port + 1
      BY <1>4, <1>9, <2>2
    <3> QED BY <1>2, <3>1, <3>2 DEF IsRRQ, IsDATA, IsACK
  <2> QED BY <1>8, <2>1, <2>2
<1>13. \A k \in 1..Len(server) : server[k].port \in 1..(port + 1) /\ server[k].port # port + 1
  BY <1>4 DEF FInv, ServerOK
<1>14. ServerOK'
  <2>1. /\ Sequence(server)
        /\ \A k \in 1..Len(server) :
             DOMAIN server[k] = {"port", "block", "st"} /\ server[k].block \in 1..BLOCKS
    BY DEF FInv, ServerOK
  <2> QED BY <1>2, <1>13, <2>1 DEF ServerOK
<1>15. BoxOK'
  <2>1. \A i : i \notin 1..Len(TFTP')
    BY <1>7
  <2> QED BY <1>5, <2>1 DEF BoxOK
<1>16. BufferOK'
  BY <1>2, Emptied DEF BufferOK
<1>17. Once'
  <2>1. \A k : ~Mine(k)'
    BY <1>2, <1>13 DEF Mine
  <2>2. Len(buffer') = 0
    BY <1>2
  <2>3. \A d \in DOMAIN net' : d.port = port' => d = x
    BY <1>2, <1>4, <1>8, <1>9
  <2> QED BY <1>3, <1>7, <1>10, <2>1, <2>2, <2>3 DEF Once
<1> QED BY <1>11, <1>12, <1>14, <1>15, <1>16, <1>17 DEF FInv

\* A block is taken into the buffer.
LEMMA FTake == ASSUME FInv, Os!tftp_recv PROVE FInv'
<1>1. PICK m : m = Head(TFTP)
  OBVIOUS
<1>2. PICK x : x = Os!datagram("ACK", port, m.tid, m.block)
  OBVIOUS
<1>3. /\ TFTP # <<>> /\ m.cmd = "RECV" /\ TFTP' = Tail(TFTP)
      /\ buffer' = Append(buffer, m.block)
      /\ net' = With(net, x)
      /\ UNCHANGED <<port, server, again>>
  BY <1>1, <1>2 DEF Os!tftp_recv, Os!kz_recv, Os!udp_send, With
<1>4. UDPPORTLIST' \subseteq UDPPORTLIST
  BY DEF Os!tftp_recv, Os!UDP_CMD_RELPORT
<1>5. /\ x.kind = "ACK" /\ x.port = port /\ x.tid = m.tid /\ x.block = m.block
      /\ x = Os!datagram("ACK", x.port, x.tid, x.block)
  BY <1>2 DEF Os!datagram
<1>6. /\ Sequence(TFTP') /\ Len(TFTP) \in Nat \ {0} /\ Len(TFTP') = Len(TFTP) - 1
      /\ \A k \in 1..Len(TFTP') : TFTP'[k] = TFTP[k + 1]
      /\ TFTP[1] = m
  <2>1. Sequence(TFTP)
    BY DEF FInv, BoxOK
  <2> QED BY <1>1, <1>3, <2>1, Tailed
<1>7. IsRECV(m)
  <2>1. 1 \in 1..Len(TFTP)
    BY <1>6
  <2>2. TFTP[1].cmd # "START"
    BY <1>3, <1>6
  <2> QED BY <1>6, <2>1, <2>2 DEF FInv, BoxOK
<1>8. /\ Sequence(buffer') /\ Len(buffer) \in Nat /\ Len(buffer') = Len(buffer) + 1
      /\ \A k \in 1..Len(buffer) : buffer'[k] = buffer[k]
      /\ buffer'[Len(buffer) + 1] = m.block
  <2>1. Sequence(buffer)
    BY DEF FInv, BufferOK
  <2> QED BY <1>3, <2>1, Appended
<1>9. /\ Bag(net') /\ DOMAIN net' = DOMAIN net \cup {x}
      /\ \A e \in DOMAIN net : e # x => net'[e] = net[e]
  <2>1. Bag(net)
    BY DEF FInv, NetOK
  <2> QED BY <1>3, <2>1, BagWith
<1>10. \A b : Read(b) => Read(b)'
  <2>1. \A i \in 1..Len(buffer) : i \in 1..Len(buffer')
    BY <1>8
  <2> QED BY <1>8, <2>1 DEF Read
<1>11. Read(m.block)'
  <2>1. Len(buffer) + 1 \in 1..Len(buffer')
    BY <1>8
  <2> QED BY <1>8, <2>1 DEF Read
<1>12. \A i \in 1..Len(TFTP') : i \in Nat /\ i + 1 \in 1..Len(TFTP) /\ i + 1 # 1
  BY <1>6
<1>13. m.block \in 1..BLOCKS /\ \A b \in 1..(m.block - 1) : Read(b)
  <2>1. /\ server[m.tid].block \in 1..BLOCKS /\ m.block \in 1..server[m.tid].block
        /\ \A b \in 1..(server[m.tid].block - 1) : Read(b)
    BY <1>7 DEF IsRECV, FInv, ServerOK
  <2> QED BY <2>1, BringupAssumption
<1>14. PortsOK'
  <2>1. \A q : Calm(q) => Calm(q)'
    BY <1>3, <1>5, <1>9 DEF Calm
  <2>2. Starting' => Starting
    BY <1>6, <1>12 DEF Starting
  <2> QED BY <1>3, <1>4, <2>1, <2>2 DEF FInv, PortsOK
<1>15. NetOK'
  <2> SUFFICES ASSUME NEW d \in DOMAIN net' PROVE (IsRRQ(d) \/ IsDATA(d) \/ IsACK(d))'
    BY <1>9 DEF NetOK
  <2>1. CASE d = x
    <3>1. m.tid \in 1..Len(server) /\ port \in 1..port
      BY <1>7 DEF IsRECV, FInv, ServerOK
    <3> QED BY <1>3, <1>5, <1>11, <2>1, <3>1 DEF IsACK
  <2>2. CASE d \in DOMAIN net
    <3>1. IsRRQ(d) \/ IsDATA(d) \/ IsACK(d)
      BY <2>2 DEF FInv, NetOK
    <3> QED BY <1>3, <1>10, <3>1 DEF IsRRQ, IsDATA, IsACK
  <2> QED BY <1>9, <2>1, <2>2
<1>16. ServerOK'
  BY <1>3, <1>10 DEF FInv, ServerOK
<1>17. BoxOK'
  <2> SUFFICES ASSUME NEW i \in 1..Len(TFTP')
               PROVE  (TFTP'[i].cmd = "START" /\ i = Len(TFTP')) \/ IsRECV(TFTP[i])'
    BY <1>6 DEF BoxOK
  <2>1. (TFTP[i + 1].cmd = "START" /\ i + 1 = Len(TFTP)) \/ IsRECV(TFTP[i + 1])
    BY <1>12 DEF FInv, BoxOK
  <2>2. TFTP'[i] = TFTP[i + 1]
    BY <1>6
  <2>3. i + 1 = Len(TFTP) => i = Len(TFTP')
    BY <1>6, <1>12
  <2> QED BY <1>3, <2>1, <2>2, <2>3 DEF IsRECV
<1>18. BufferOK'
  <2> SUFFICES ASSUME NEW i \in 1..Len(buffer')
               PROVE  /\ buffer'[i] \in 1..BLOCKS
                      /\ \A b \in 1..(buffer'[i] - 1) : \E j \in 1..(i - 1) : buffer'[j] = b
    BY <1>8 DEF BufferOK
  <2>1. CASE i \in 1..Len(buffer)
    <3>1. \A j \in 1..(i - 1) : j \in 1..Len(buffer)
      BY <1>8, <2>1
    <3>2. /\ buffer[i] \in 1..BLOCKS
          /\ \A b \in 1..(buffer[i] - 1) : \E j \in 1..(i - 1) : buffer[j] = b
      BY <2>1 DEF FInv, BufferOK
    <3> QED BY <1>8, <2>1, <3>1, <3>2
  <2>2. CASE i = Len(buffer) + 1
    <3>1. i - 1 = Len(buffer)
      BY <1>8, <2>2
    <3> QED BY <1>8, <1>13, <2>2, <3>1 DEF Read
  <2> QED BY <1>8, <2>1, <2>2
<1>19. Once'
  <2> SUFFICES ASSUME ~again PROVE Once'
    BY <1>3 DEF Once
  <2>1. 1 \in 1..Len(TFTP)
    BY <1>6
  <2>2. Due(m.tid, m.block) /\ Mine(m.tid)
    BY <1>3, <1>6, <1>7, <2>1 DEF FInv, Once, IsRECV, Mine
  <2>3. \A k : Mine(k)' <=> Mine(k)
    BY <1>3 DEF Mine
  <2>4. \A i \in 1..Len(buffer') : buffer'[i] = i
    <3> SUFFICES ASSUME NEW i \in 1..Len(buffer') PROVE buffer'[i] = i
      OBVIOUS
    <3>1. CASE i \in 1..Len(buffer)
      BY <1>8, <3>1 DEF FInv, Once
    <3>2. CASE i = Len(buffer) + 1
      BY <1>8, <2>2, <3>2 DEF Due
    <3> QED BY <1>8, <3>1, <3>2
  <2>5. \A k : Mine(k)' => Len(buffer') <= server'[k].block
    <3> SUFFICES ASSUME NEW k, Mine(k) PROVE Len(buffer') <= server[k].block
      BY <1>3, <2>3
    <3>1. k = m.tid
      BY <2>2 DEF FInv, Once
    <3> QED BY <1>8, <2>2, <3>1 DEF Due
  <2>6. \A i \in 1..Len(TFTP') : TFTP'[i].cmd # "RECV"
    <3> SUFFICES ASSUME NEW i \in 1..Len(TFTP'), TFTP'[i].cmd = "RECV" PROVE FALSE
      OBVIOUS
    <3>1. i + 1 \in 1..Len(TFTP) /\ i + 1 # 1 /\ TFTP[i + 1].cmd = "RECV"
      BY <1>6, <1>12
    <3> QED BY <1>3, <1>6, <2>1, <3>1 DEF FInv, Once
  <2>7. \A d \in DOMAIN net : d.port = port => d.kind \notin {"RRQ", "DATA"}
    BY <1>3, <1>6, <2>1, <2>2 DEF FInv, Once
  <2>8. \A d \in DOMAIN net' : d.port = port' => d.kind # "RRQ" /\ d.kind # "DATA"
    BY <1>3, <1>5, <1>9, <2>7
  <2>9. \A k, l : Mine(k)' /\ Mine(l)' => k = l
    BY <2>3 DEF FInv, Once
  <2>10. Mine(m.tid)'
    BY <2>2, <2>3
  <2> QED BY <2>4, <2>5, <2>6, <2>8, <2>9, <2>10 DEF Once
<1> QED BY <1>14, <1>15, <1>16, <1>17, <1>18, <1>19 DEF FInv

-----------------------------------------------------------------------------
(* The theorem.                                                            *)

LEMMA FNext == FInv /\ [Next]_bringupVars => FInv'
<1> SUFFICES ASSUME FInv, [Next]_bringupVars PROVE FInv'
  OBVIOUS
<1>1. CASE UNCHANGED osVars
  BY <1>1 DEF osVars, FInv, PortsOK, Starting, Calm, NetOK, Bag, IsRRQ, IsDATA, IsACK, Read, ServerOK,
              BoxOK, IsRECV, BufferOK, Once, Mine, Due
<1>2. CASE Serves(Os!Next)
  <2>1. CASE Os!TFTP_CMD_START
    BY <2>1, FStart
  <2>2. CASE Os!tftp_recv
    BY <2>2, FTake
  <2>3. CASE Os!send_tftp
    BY <2>3, FAsk
  <2>4. CASE Os!receive
    BY <2>4, FReceive DEF Os!receive
  <2>5. CASE Os!request
    BY <2>5, FServe DEF Os!request
  <2>6. CASE Os!acknowledge
    BY <2>6, FAcknowledge DEF Os!acknowledge
  <2>7. CASE Os!resend
    BY <2>7, FTimeout DEF Os!resend
  <2>8. CASE \E d \in Os!BagToSet(net) : Os!lose(d) \/ Os!repeat(d)
    BY <2>8, FLose, FRepeat DEF Os!BagToSet
  <2> QED BY <1>2, <2>1, <2>2, <2>3, <2>4, <2>5, <2>6, <2>7, <2>8 DEF Serves, Os!Next
<1>3. CASE Loads(Load!Next) \/ start \/ debug \/ Debugs(Dbg!Next)
  <2>1. UNCHANGED osVars
    BY <1>3 DEF Loads, start, debug, Debugs
  <2> QED BY <1>1, <2>1
<1>4. CASE UNCHANGED bringupVars
  BY <1>1, <1>4 DEF bringupVars
<1> QED BY <1>2, <1>3, <1>4 DEF Next

\* A file that tftp has read holds every block, first come in order, and is the file
\* itself unless a request or a block was sent twice, however often the network
\* loses, repeats or delays what it carries (tftp.c:94-140 takes each block as it
\* comes and looks at no number).
THEOREM FilesCorrect == Spec => []FileRead
<1>1. Init => FInv
  BY FInit DEF Init
<1>2. FInv /\ [Next]_bringupVars => FInv'
  BY FNext
<1>3. FInv => FileRead
  BY FInvFile DEF FileRead
<1> QED BY <1>1, <1>2, <1>3, PTL DEF Spec

-----------------------------------------------------------------------------
(* Numbers and sums.                                                       *)

LEMMA Quotient ==
  ASSUME NEW b \in Nat \ {0}, NEW a \in Nat
  PROVE  a \div b \in Int /\ a % b \in 0..(b - 1) /\ a = b * (a \div b) + (a % b)
<1>1. a \div b \in Int
  OBVIOUS
<1>2. a % b \in 0..(b - 1)
  OBVIOUS
<1>3. a = b * (a \div b) + (a % b)
  OBVIOUS
<1> QED BY <1>1, <1>2, <1>3

LEMMA NotLess ==
  ASSUME NEW b \in Nat \ {0}, NEW q \in Int, NEW p \in Int, NEW r \in 0..(b - 1), NEW s \in 0..(b - 1),
         b * q + r = b * p + s
  PROVE  ~(q > p)
<1> SUFFICES ASSUME q > p PROVE FALSE
  OBVIOUS
<1>1. PICK d \in Nat \ {0} : q = p + d
  <2>1. q - p \in Nat \ {0} /\ q = p + (q - p)
    OBVIOUS
  <2> QED BY <2>1
<1>2. b * q = b * p + b * d
  BY <1>1
<1>3. b * d >= b
  BY <1>1
<1>4. b * q \in Int /\ b * p \in Int /\ b * d \in Int
  BY <1>1
<1> QED BY <1>2, <1>3, <1>4

LEMMA Successor ==
  ASSUME NEW b \in Nat \ {0}, NEW a \in Nat
  PROVE  (a + 1) % b = IF (a % b) + 1 = b THEN 0 ELSE (a % b) + 1
<1> DEFINE q == a \div b
           r == a % b
           p == (a + 1) \div b
           s == (a + 1) % b
<1>1. q \in Int /\ a = b * q + r /\ r \in 0..(b - 1)
  BY Quotient
<1>2. p \in Int /\ a + 1 = b * p + s /\ s \in 0..(b - 1)
  BY Quotient
<1> HIDE DEF q, r, p, s
<1>3. CASE r + 1 = b
  <2>1. b * (q + 1) = b * q + b
    BY <1>1
  <2>2. b * (q + 1) + 0 = b * p + s
    BY <1>1, <1>2, <1>3, <2>1
  <2>3. ~(q + 1 > p) /\ ~(p > q + 1)
    BY <1>1, <1>2, <2>2, NotLess
  <2>4. q + 1 = p
    BY <1>1, <1>2, <2>3
  <2>5. s = 0
    BY <1>2, <2>2, <2>4
  <2> QED BY <1>3, <2>5 DEF r, s
<1>4. CASE r + 1 # b
  <2>1. r + 1 \in 0..(b - 1) /\ b * q + (r + 1) = b * p + s
    BY <1>1, <1>2, <1>4
  <2>2. ~(q > p) /\ ~(p > q)
    BY <1>1, <1>2, <2>1, NotLess
  <2>3. q = p
    BY <1>1, <1>2, <2>2
  <2>4. s = r + 1
    BY <1>1, <1>2, <2>1, <2>3
  <2> QED BY <1>4, <2>4 DEF r, s
<1> QED BY <1>3, <1>4

Byte == 0..(BYTE - 1)

LEMMA SumModulo ==
  ASSUME NEW a \in Byte, NEW b \in Byte
  PROVE  (a + b) % BYTE = (IF a + b < BYTE THEN a + b ELSE a + b - BYTE) /\ (a + b) % BYTE \in Byte
<1>1. BYTE \in Nat \ {0}
  BY BringupAssumption
<1> QED BY <1>1 DEF Byte

\* The fold of a sum: g[S] is the sum of the elements with the numbers S.
Top(S) == CHOOSE x \in S : \A y \in S : x >= y
Added(g, q, S) == IF S = {} THEN 0 ELSE (g[S \ {Top(S)}] + q[Top(S)]) % BYTE
Adds(g, q, n) == g = [S \in SUBSET (1..n) |-> Added(g, q, S)]

LEMMA SumIs == ASSUME NEW q, NEW n, DOMAIN q = 1..n PROVE Load!Sum(q) = (CHOOSE g : Adds(g, q, n))[1..n]
BY DEF Load!Sum, Load!FoldLeft, Load!MapThenFoldSet, Load!Max, Adds, Added, Top

LEMMA Induction ==
  ASSUME NEW S \in SUBSET Nat, 0 \in S, \A n \in S : n + 1 \in S
  PROVE  S = Nat
<1> SUFFICES ASSUME Nat \ S # {} PROVE FALSE
  OBVIOUS
<1> DEFINE R == {ss \in Nat \X Nat : ss[1] < ss[2]}
<1>1. IsWellFoundedOn(R, Nat)
  BY NatLessThanWellFounded DEF OpToRel
<1>2. PICK x \in Nat \ S : \A y \in Nat \ S : <<y, x>> \notin R
  <2> HIDE DEF R
  <2> QED BY <1>1, WFMin
<1>3. x # 0 /\ x - 1 \in Nat
  OBVIOUS
<1>4. <<x - 1, x>> \in R
  BY <1>3
<1>5. x - 1 \in S
  BY <1>2, <1>3, <1>4
<1> QED BY <1>3, <1>5

LEMMA TopIs ==
  ASSUME NEW k \in Nat, NEW S \in SUBSET (1..(k + 1)), k + 1 \in S
  PROVE  Top(S) = k + 1 /\ S \ {Top(S)} \in SUBSET (1..k)
<1>1. \A x \in S : x \in Nat /\ x <= k + 1
  OBVIOUS
<1>2. \E x \in S : \A y \in S : x >= y
  BY <1>1
<1>3. Top(S) \in S /\ \A y \in S : Top(S) >= y
  BY <1>2 DEF Top
<1>4. Top(S) = k + 1
  <2>1. PICK t : t = Top(S)
    OBVIOUS
  <2>2. t \in S /\ \A y \in S : t >= y
    BY <1>3, <2>1
  <2>3. t \in Nat /\ t <= k + 1 /\ t >= k + 1
    BY <1>1, <2>2
  <2> QED BY <2>1, <2>3
<1> QED BY <1>4

LEMMA AddsAre ==
  ASSUME NEW n, NEW g, NEW q, Adds(g, q, n), NEW S \in SUBSET (1..n)
  PROVE  g[S] = Added(g, q, S)
<1>1. [T \in SUBSET (1..n) |-> Added(g, q, T)][S] = Added(g, q, S)
  OBVIOUS
<1> QED BY <1>1 DEF Adds

\* The greatest of some numbers is one of them.
LEMMA TopIn ==
  ASSUME NEW n \in Nat, NEW S \in SUBSET (1..n), S # {}
  PROVE  Top(S) \in S
<1> DEFINE M == {k \in Nat : S \cap (1..k) = {} \/ \E x \in S \cap (1..k) : \A y \in S \cap (1..k) : x >= y}
<1>1. 0 \in M
  OBVIOUS
<1>2. ASSUME NEW k \in M PROVE k + 1 \in M
  <2>1. CASE k + 1 \in S
    <3>1. k + 1 \in S \cap (1..(k + 1)) /\ \A y \in S \cap (1..(k + 1)) : k + 1 >= y
      BY <2>1
    <3> QED BY <3>1
  <2>2. CASE k + 1 \notin S
    <3>1. S \cap (1..(k + 1)) = S \cap (1..k)
      BY <2>2
    <3> QED BY <3>1
  <2> QED BY <2>1, <2>2
<1>3. M = Nat
  <2>1. M \in SUBSET Nat
    OBVIOUS
  <2> HIDE DEF M
  <2> QED BY <1>1, <1>2, <2>1, Induction
<1>4. S \cap (1..n) = S
  OBVIOUS
<1>5. \E x \in S : \A y \in S : x >= y
  BY <1>3, <1>4
<1> QED BY <1>5 DEF Top

LEMMA AddsExist ==
  ASSUME NEW q, NEW n \in Nat
  PROVE  \E g : Adds(g, q, n)
<1> DEFINE M == {k \in Nat : \E g : Adds(g, q, k)}
<1>1. 0 \in M
  <2> DEFINE g == [S \in SUBSET (1..0) |-> 0]
  <2>1. \A S \in SUBSET (1..0) : S = {}
    OBVIOUS
  <2>2. \A S \in SUBSET (1..0) : Added(g, q, S) = 0
    BY <2>1 DEF Added
  <2>3. Adds(g, q, 0)
    BY <2>2 DEF Adds
  <2> QED BY <2>3
<1>2. ASSUME NEW k \in M PROVE k + 1 \in M
  <2>1. PICK g : Adds(g, q, k)
    OBVIOUS
  <2> DEFINE h == [S \in SUBSET (1..(k + 1)) |-> Added(g, q, S)]
  <2>2. \A S \in SUBSET (1..k) : h[S] = g[S]
    <3> SUFFICES ASSUME NEW S \in SUBSET (1..k) PROVE h[S] = g[S]
      OBVIOUS
    <3>1. S \in SUBSET (1..(k + 1))
      OBVIOUS
    <3>2. h[S] = Added(g, q, S)
      BY <3>1
    <3> HIDE DEF h
    <3> QED BY <2>1, <3>2, AddsAre
  <2>3. \A S \in SUBSET (1..(k + 1)) : Added(h, q, S) = Added(g, q, S)
    <3> SUFFICES ASSUME NEW S \in SUBSET (1..(k + 1)), S # {} PROVE Added(h, q, S) = Added(g, q, S)
      BY DEF Added
    <3>1. S \ {Top(S)} \in SUBSET (1..k)
      <4>1. CASE k + 1 \in S
        BY <4>1, TopIs
      <4>2. CASE k + 1 \notin S
        <5>1. \A x \in S : x \in 1..k
          BY <4>2
        <5> QED BY <5>1
      <4> QED BY <4>1, <4>2
    <3>2. h[S \ {Top(S)}] = g[S \ {Top(S)}]
      BY <2>2, <3>1
    <3> HIDE DEF h
    <3> QED BY <3>2 DEF Added
  <2>4. Adds(h, q, k + 1)
    BY <2>3 DEF Adds
  <2> HIDE DEF h
  <2> QED BY <2>4
<1>3. M = Nat
  <2>1. M \in SUBSET Nat
    OBVIOUS
  <2> HIDE DEF M
  <2> QED BY <1>1, <1>2, <2>1, Induction
<1> QED BY <1>3

LEMMA AddsAgree ==
  ASSUME NEW n \in Nat, NEW m \in Nat, n <= m, NEW q, NEW r, \A i \in 1..n : q[i] = r[i],
         NEW g, NEW h, Adds(g, q, n), Adds(h, r, m)
  PROVE  \A S \in SUBSET (1..n) : g[S] = h[S]
<1> DEFINE M == {k \in Nat : k <= n => \A S \in SUBSET (1..k) : g[S] = h[S]}
<1>0. \A S \in SUBSET (1..n) : g[S] = Added(g, q, S) /\ h[S] = Added(h, r, S)
  <2>1. \A S \in SUBSET (1..n) : S \in SUBSET (1..m)
    OBVIOUS
  <2> QED BY <2>1, AddsAre
<1>1. 0 \in M
  <2>1. \A S \in SUBSET (1..0) : S = {} /\ S \in SUBSET (1..n)
    OBVIOUS
  <2>2. g[{}] = h[{}]
    BY <1>0 DEF Added
  <2> QED BY <2>1, <2>2
<1>2. ASSUME NEW k \in M PROVE k + 1 \in M
  <2> SUFFICES ASSUME k + 1 <= n, NEW S \in SUBSET (1..(k + 1)) PROVE g[S] = h[S]
    OBVIOUS
  <2>1. CASE k + 1 \in S
    <3>1. Top(S) = k + 1 /\ S \ {Top(S)} \in SUBSET (1..k)
      BY <2>1, TopIs
    <3>2. g[S \ {Top(S)}] = h[S \ {Top(S)}]
      BY <3>1
    <3>3. q[Top(S)] = r[Top(S)] /\ S \in SUBSET (1..n) /\ S # {}
      BY <2>1, <3>1
    <3> QED BY <1>0, <3>2, <3>3 DEF Added
  <2>2. CASE k + 1 \notin S
    <3>1. S \in SUBSET (1..k) /\ k <= n
      BY <2>2
    <3> QED BY <3>1
  <2> QED BY <2>1, <2>2
<1>3. M = Nat
  <2>1. M \in SUBSET Nat
    OBVIOUS
  <2> HIDE DEF M
  <2> QED BY <1>1, <1>2, <2>1, Induction
<1>4. n \in M
  BY <1>3
<1> QED BY <1>4

LEMMA SumEmpty == Load!Sum(<<>>) = 0
<1>1. PICK q : q = <<>>
  OBVIOUS
<1>2. DOMAIN q = 1..0
  BY <1>1
<1>3. PICK g : Adds(g, q, 0) /\ Load!Sum(q) = g[1..0]
  BY <1>2, SumIs, AddsExist
<1>4. g[1..0] = Added(g, q, 1..0)
  BY <1>3, AddsAre
<1> QED BY <1>1, <1>3, <1>4 DEF Added

\* One more element is added to the sum of those before.
LEMMA SumAppend ==
  ASSUME NEW n \in Nat, NEW q, NEW r, DOMAIN q = 1..n, DOMAIN r = 1..(n + 1), \A i \in 1..n : q[i] = r[i]
  PROVE  Load!Sum(r) = (Load!Sum(q) + r[n + 1]) % BYTE
<1>1. PICK g : Adds(g, q, n) /\ Load!Sum(q) = g[1..n]
  BY SumIs, AddsExist
<1>2. PICK h : Adds(h, r, n + 1) /\ Load!Sum(r) = h[1..(n + 1)]
  <2>1. n + 1 \in Nat
    OBVIOUS
  <2> QED BY <2>1, SumIs, AddsExist
<1>3. g[1..n] = h[1..n]
  <2>1. n + 1 \in Nat /\ n <= n + 1
    OBVIOUS
  <2>2. \A S \in SUBSET (1..n) : g[S] = h[S]
    <3>1. Adds(g, q, n) /\ Adds(h, r, n + 1)
      BY <1>1, <1>2
    <3>2. \A m \in Nat : (n <= m /\ Adds(h, r, m)) => \A S \in SUBSET (1..n) : g[S] = h[S]
      BY <3>1, AddsAgree
    <3> QED BY <2>1, <3>1, <3>2, Zenon
  <2>3. 1..n \in SUBSET (1..n)
    OBVIOUS
  <2> QED BY <2>2, <2>3, Zenon
<1>4. h[1..(n + 1)] = Added(h, r, 1..(n + 1))
  BY <1>2, AddsAre
<1>5. Top(1..(n + 1)) = n + 1 /\ (1..(n + 1)) \ {n + 1} = 1..n
  <2>1. n + 1 \in 1..(n + 1)
    OBVIOUS
  <2>2. Top(1..(n + 1)) = n + 1
    BY <2>1, TopIs
  <2>3. \A i : i \in (1..(n + 1)) \ {n + 1} <=> i \in 1..n
    OBVIOUS
  <2>4. (1..(n + 1)) \ {n + 1} = 1..n
    BY <2>3, Zenon
  <2> QED BY <2>2, <2>4, Zenon
<1>6. 1..(n + 1) # {}
  <2>1. n + 1 \in 1..(n + 1)
    OBVIOUS
  <2> QED BY <2>1
<1> QED BY <1>1, <1>2, <1>3, <1>4, <1>5, <1>6 DEF Added

LEMMA SumByte ==
  ASSUME NEW n \in Nat, NEW q, DOMAIN q = 1..n, \A i \in 1..n : q[i] \in Byte
  PROVE  Load!Sum(q) \in Byte
<1>0. BYTE \in Nat \ {0}
  BY BringupAssumption
<1>1. PICK g : Adds(g, q, n) /\ Load!Sum(q) = g[1..n]
  BY SumIs, AddsExist
<1> DEFINE M == {k \in Nat : k <= n => \A S \in SUBSET (1..k) : g[S] \in Byte}
<1>2. 0 \in M
  <2>1. \A S \in SUBSET (1..0) : S = {}
    OBVIOUS
  <2>2. g[{}] = 0
    <3>1. {} \in SUBSET (1..n)
      OBVIOUS
    <3>2. g[{}] = Added(g, q, {})
      BY <1>1, <3>1, AddsAre
    <3> QED BY <3>2 DEF Added
  <2>3. 0 \in Byte
    BY <1>0 DEF Byte
  <2>4. \A S \in SUBSET (1..0) : g[S] \in Byte
    BY <2>1, <2>2, <2>3
  <2> QED BY <2>4
<1>3. ASSUME NEW k \in M PROVE k + 1 \in M
  <2> SUFFICES ASSUME k + 1 <= n, NEW S \in SUBSET (1..(k + 1)) PROVE g[S] \in Byte
    OBVIOUS
  <2>1. CASE k + 1 \in S
    <3>1. Top(S) = k + 1 /\ S \ {Top(S)} \in SUBSET (1..k)
      BY <2>1, TopIs
    <3>2. g[S \ {Top(S)}] \in Byte /\ q[Top(S)] \in Byte
      BY <3>1
    <3>3. S \in SUBSET (1..n) /\ S # {}
      <4>1. \A x \in S : x \in 1..n
        OBVIOUS
      <4> QED BY <2>1, <4>1
    <3>5. g[S] = Added(g, q, S)
      BY <1>1, <3>3, AddsAre
    <3>4. g[S] = (g[S \ {Top(S)}] + q[Top(S)]) % BYTE
      BY <3>3, <3>5 DEF Added
    <3> QED BY <3>2, <3>4, SumModulo
  <2>2. CASE k + 1 \notin S
    <3>1. S \in SUBSET (1..k) /\ k <= n
      BY <2>2
    <3> QED BY <3>1
  <2> QED BY <2>1, <2>2
<1>4. M = Nat
  <2>1. M \in SUBSET Nat
    OBVIOUS
  <2> HIDE DEF M
  <2> QED BY <1>2, <1>3, <2>1, Induction
<1>5. n \in M /\ 1..n \in SUBSET (1..n)
  BY <1>4
<1> QED BY <1>1, <1>5

-----------------------------------------------------------------------------
(* What goes to the board: blocks, the end of the file, the sender's giving *)
(* up and the command run.                                                 *)

N == Len(Image)
Giving == <<[c |-> CAN, part |-> "header"], [c |-> CAN, part |-> "header"]>> \o Load!Typed(LOAD)
Ending == <<[c |-> EOT, part |-> "header"]>>
Wire(i) == IF i <= N THEN Load!Block(i)
           ELSE IF i = N + 1 THEN Ending
           ELSE IF i = N + 2 THEN Giving ELSE Load!Typed(RUN)

IsJoin(r, p, n, q, m) ==
  /\ n \in Nat /\ m \in Nat /\ Sequence(r) /\ Len(r) = n + m
  /\ \A j \in 1..n : r[j] = p[j]
  /\ \A j \in (n + 1)..(n + m) : r[j] = q[j - n]

LEMMA Joined ==
  ASSUME NEW p, Sequence(p), NEW q, Sequence(q)
  PROVE  IsJoin(p \o q, p, Len(p), q, Len(q))
<1>1. PICK S : p \in Seq(S)
  BY DEF Sequence
<1>2. PICK T : q \in Seq(T)
  BY DEF Sequence
<1>3. p \in Seq(S \cup T) /\ q \in Seq(S \cup T)
  BY <1>1, <1>2
<1> HIDE <1>1, <1>2
<1> QED BY <1>3, ConcatProperties, LenProperties DEF Sequence, IsJoin

LEMMA ImageIs ==
  /\ N \in Nat /\ DOMAIN Image = 1..N
  /\ \A i \in 1..N : DOMAIN Image[i] = 1..BLOCK_SIZE /\ \A o \in 1..BLOCK_SIZE : Image[i][o] \in Byte
<1>1. Image \in Seq([1..BLOCK_SIZE -> Byte])
  BY BringupAssumption DEF Byte
<1>2. N \in Nat /\ DOMAIN Image = 1..N /\ \A i \in 1..N : Image[i] \in [1..BLOCK_SIZE -> Byte]
  BY <1>1 DEF N
<1> QED BY <1>2

IsBlock(i, w) ==
  /\ Sequence(w) /\ Len(w) = BLOCK_SIZE + 4
  /\ w[1] = [c |-> SOH, part |-> "header"]
  /\ w[2] = [c |-> i % BYTE, part |-> "number"]
  /\ w[3] = [c |-> BYTE - 1 - (i % BYTE), part |-> "number"]
  /\ \A o \in 1..BLOCK_SIZE : w[o + 3] = [c |-> Image[i][o], part |-> "data"]
  /\ w[BLOCK_SIZE + 4] = [c |-> Load!Sum(Image[i]), part |-> "sum"]
LEMMA BlockIs == ASSUME NEW i \in 1..N PROVE IsBlock(i, Wire(i))
<1>1. PICK a : a = <<[c |-> SOH, part |-> "header"], [c |-> i % BYTE, part |-> "number"],
                     [c |-> BYTE - 1 - (i % BYTE), part |-> "number"]>>
  OBVIOUS
<1>2. PICK b : b = [o \in 1..BLOCK_SIZE |-> [c |-> Image[i][o], part |-> "data"]]
  OBVIOUS
<1>3. PICK e : e = <<[c |-> Load!Sum(Image[i]), part |-> "sum"]>>
  OBVIOUS
<1>4. Wire(i) = (a \o b) \o e
  <2>1. i <= N
    BY ImageIs
  <2> QED BY <1>1, <1>2, <1>3, <2>1 DEF Wire, Load!Block
<1>5. BLOCK_SIZE \in Nat \ {0}
  BY BringupAssumption
<1>6. Sequence(a) /\ Len(a) = 3
  <2>1. a \in Seq({a[1], a[2], a[3]}) /\ Len(a) = 3
    BY <1>1
  <2> QED BY <2>1 DEF Sequence
<1>7. Sequence(b) /\ Len(b) = BLOCK_SIZE /\ \A o \in 1..BLOCK_SIZE : b[o] = [c |-> Image[i][o], part |-> "data"]
  <2>1. b \in Seq({b[o] : o \in 1..BLOCK_SIZE}) /\ Len(b) = BLOCK_SIZE
    BY <1>2, <1>5
  <2> QED BY <1>2, <2>1 DEF Sequence
<1>8. Sequence(e) /\ Len(e) = 1 /\ e[1] = [c |-> Load!Sum(Image[i]), part |-> "sum"]
  <2>1. e \in Seq({e[1]}) /\ Len(e) = 1
    BY <1>3
  <2> QED BY <1>3, <2>1 DEF Sequence
<1>9. PICK f : f = a \o b
  OBVIOUS
<1>10. /\ Sequence(f) /\ Len(f) = 3 + BLOCK_SIZE
       /\ \A j \in 1..3 : f[j] = a[j]
       /\ \A j \in 4..(3 + BLOCK_SIZE) : f[j] = b[j - 3]
  <2>1. /\ Sequence(f) /\ Len(f) = 3 + BLOCK_SIZE
        /\ \A j \in 1..3 : f[j] = a[j]
        /\ \A j \in (3 + 1)..(3 + BLOCK_SIZE) : f[j] = b[j - 3]
    <3>1. IsJoin(f, a, 3, b, BLOCK_SIZE)
      BY <1>6, <1>7, <1>9, Joined, Zenon
    <3> QED BY <3>1 DEF IsJoin
  <2> QED BY <2>1
<1>13. PICK w : w = f \o e
  OBVIOUS
<1>11. /\ Sequence(w) /\ Len(w) = BLOCK_SIZE + 4
       /\ \A j \in 1..(3 + BLOCK_SIZE) : w[j] = f[j]
       /\ w[BLOCK_SIZE + 4] = e[1]
  <2>1. PICK n : n = 3 + BLOCK_SIZE
    OBVIOUS
  <2>2. /\ Sequence(w) /\ Len(w) = n + 1 /\ n \in Nat
        /\ \A j \in 1..n : w[j] = f[j]
        /\ \A j \in (n + 1)..(n + 1) : w[j] = e[j - n]
    <3>1. IsJoin(w, f, n, e, 1)
      BY <1>8, <1>10, <1>13, <2>1, Joined, Zenon
    <3> QED BY <3>1 DEF IsJoin
  <2>3. w[n + 1] = e[1]
    BY <2>2
  <2> QED BY <1>5, <2>1, <2>2, <2>3
<1>12. Wire(i) = w
  BY <1>4, <1>9, <1>13
<1>14. w[1] = a[1] /\ w[2] = a[2] /\ w[3] = a[3]
  BY <1>5, <1>10, <1>11
<1>15. \A o \in 1..BLOCK_SIZE : w[o + 3] = b[o]
  <2> SUFFICES ASSUME NEW o \in 1..BLOCK_SIZE PROVE w[o + 3] = b[o]
    OBVIOUS
  <2>1. o + 3 \in 4..(3 + BLOCK_SIZE) /\ o + 3 \in 1..(3 + BLOCK_SIZE) /\ o + 3 - 3 = o
    BY <1>5
  <2> QED BY <1>10, <1>11, <2>1
<1>16. a[1] = [c |-> SOH, part |-> "header"] /\ a[2] = [c |-> i % BYTE, part |-> "number"]
       /\ a[3] = [c |-> BYTE - 1 - (i % BYTE), part |-> "number"]
  BY <1>1
<1> QED BY <1>7, <1>8, <1>11, <1>12, <1>14, <1>15, <1>16 DEF IsBlock

LEMMA OthersAre ==
  /\ Sequence(Wire(N + 1)) /\ Len(Wire(N + 1)) = 1 /\ Wire(N + 1)[1] = [c |-> EOT, part |-> "header"]
  /\ Wire(N + 1) = Ending
  /\ Sequence(Wire(N + 2)) /\ Len(Wire(N + 2)) = 4 /\ Wire(N + 2) = Giving
  /\ Wire(N + 2)[1] = [c |-> CAN, part |-> "header"] /\ Wire(N + 2)[2] = [c |-> CAN, part |-> "header"]
  /\ Wire(N + 2)[3] = [c |-> LOAD, part |-> "command"] /\ Wire(N + 2)[4] = [c |-> NEWLINE, part |-> "command"]
  /\ Sequence(Wire(N + 3)) /\ Len(Wire(N + 3)) = 2 /\ Wire(N + 3) = Load!Typed(RUN)
  /\ Wire(N + 3)[1] = [c |-> RUN, part |-> "command"] /\ Wire(N + 3)[2] = [c |-> NEWLINE, part |-> "command"]
<1>1. /\ Wire(N + 1) = Ending /\ Wire(N + 2) = Giving /\ Wire(N + 3) = Load!Typed(RUN)
  BY ImageIs DEF Wire
<1>2. \A x : <<x>> \in Seq({x}) /\ Len(<<x>>) = 1
  OBVIOUS
<1>3. \A x, y : <<x, y>> \in Seq({x, y}) /\ Len(<<x, y>>) = 2 /\ <<x, y>>[1] = x /\ <<x, y>>[2] = y
  OBVIOUS
<1>4. PICK p : p = <<[c |-> CAN, part |-> "header"], [c |-> CAN, part |-> "header"]>>
  OBVIOUS
<1>5. PICK q : q = Load!Typed(LOAD)
  OBVIOUS
<1>6. Giving = p \o q
  BY <1>4, <1>5 DEF Giving
<1>7. Sequence(p) /\ Len(p) = 2 /\ p[1] = [c |-> CAN, part |-> "header"] /\ p[2] = [c |-> CAN, part |-> "header"]
  BY <1>3, <1>4 DEF Sequence
<1>8. /\ Sequence(q) /\ Len(q) = 2
      /\ q[1] = [c |-> LOAD, part |-> "command"] /\ q[2] = [c |-> NEWLINE, part |-> "command"]
  BY <1>3, <1>5 DEF Sequence, Load!Typed
<1>9. /\ Sequence(Giving) /\ Len(Giving) = 4
      /\ Giving[1] = p[1] /\ Giving[2] = p[2] /\ Giving[3] = q[1] /\ Giving[4] = q[2]
  <2>1. /\ Sequence(Giving) /\ Len(Giving) = 2 + 2
        /\ \A j \in 1..2 : Giving[j] = p[j]
        /\ \A j \in (2 + 1)..(2 + 2) : Giving[j] = q[j - 2]
    <3>1. IsJoin(Giving, p, 2, q, 2)
      BY <1>6, <1>7, <1>8, Joined, Zenon
    <3> QED BY <3>1 DEF IsJoin
  <2> QED BY <2>1
<1>10. Sequence(Ending) /\ Len(Ending) = 1 /\ Ending[1] = [c |-> EOT, part |-> "header"]
  BY <1>2 DEF Ending, Sequence
<1>11. /\ Sequence(Load!Typed(RUN)) /\ Len(Load!Typed(RUN)) = 2
       /\ Load!Typed(RUN)[1] = [c |-> RUN, part |-> "command"]
       /\ Load!Typed(RUN)[2] = [c |-> NEWLINE, part |-> "command"]
  BY <1>3 DEF Sequence, Load!Typed
<1> QED BY <1>1, <1>7, <1>8, <1>9, <1>10, <1>11

LEMMA WireIs == ASSUME NEW i \in 1..(N + 3) PROVE Sequence(Wire(i)) /\ Len(Wire(i)) \in Nat \ {0}
<1>1. i \in 1..N \/ i = N + 1 \/ i = N + 2 \/ i = N + 3
  BY ImageIs
<1>2. CASE i \in 1..N
  <2>1. BLOCK_SIZE + 4 \in Nat \ {0}
    BY BringupAssumption
  <2>2. Sequence(Wire(i)) /\ Len(Wire(i)) = BLOCK_SIZE + 4
    BY <1>2, BlockIs DEF IsBlock
  <2> QED BY <2>1, <2>2
<1> QED BY <1>1, <1>2, OthersAre

\* Character j of u is number O[j] of item I[j]; items come one after the other, in order.
Follows(u, I, O, j) ==
  IF O[j] = Len(Wire(I[j])) THEN j < Len(u) => O[j + 1] = 1
  ELSE j < Len(u) /\ I[j + 1] = I[j] /\ O[j + 1] = O[j] + 1
Lay(u, I, O) ==
  /\ Sequence(u)
  /\ \A j \in 1..Len(u) :
       /\ I[j] \in 1..(N + 3) /\ O[j] \in 1..Len(Wire(I[j])) /\ u[j] = Wire(I[j])[O[j]]
       /\ \A k \in 1..j : I[k] <= I[j]
       /\ Follows(u, I, O, j)

IsLayTail(u, I, O, v) ==
  /\ Len(u) \in Nat \ {0} /\ Len(v) = Len(u) - 1 /\ Head(u) = Wire(I[1])[O[1]]
  /\ \E J, P : Lay(v, J, P) /\ \A j \in 1..Len(v) : J[j] = I[j + 1] /\ P[j] = O[j + 1]
LEMMA LayTail ==
  ASSUME NEW u, NEW I, NEW O, Lay(u, I, O), u # <<>>
  PROVE  IsLayTail(u, I, O, Tail(u))
<1>0. PICK v : v = Tail(u)
  OBVIOUS
<1>1. /\ Sequence(v) /\ Len(u) \in Nat \ {0} /\ Len(v) = Len(u) - 1
      /\ \A k \in 1..Len(v) : v[k] = u[k + 1]
      /\ Head(u) = u[1]
  BY <1>0, Tailed DEF Lay
<1>2. PICK J : J = [j \in 1..Len(v) |-> I[j + 1]]
  OBVIOUS
<1>3. PICK P : P = [j \in 1..Len(v) |-> O[j + 1]]
  OBVIOUS
<1>4. \A j \in 1..Len(v) : J[j] = I[j + 1] /\ P[j] = O[j + 1]
  BY <1>2, <1>3
<1> HIDE <1>2, <1>3
<1>5. ASSUME NEW j \in 1..Len(v)
      PROVE  /\ J[j] \in 1..(N + 3) /\ P[j] \in 1..Len(Wire(J[j])) /\ v[j] = Wire(J[j])[P[j]]
             /\ \A k \in 1..j : J[k] <= J[j]
             /\ Follows(v, J, P, j)
  <2>1. j + 1 \in 1..Len(u) /\ j \in Nat
    BY <1>1
  <2>2. /\ I[j + 1] \in 1..(N + 3) /\ O[j + 1] \in 1..Len(Wire(I[j + 1]))
        /\ u[j + 1] = Wire(I[j + 1])[O[j + 1]]
        /\ \A k \in 1..(j + 1) : I[k] <= I[j + 1]
        /\ Follows(u, I, O, j + 1)
    BY <2>1 DEF Lay
  <2>3. \A k \in 1..j : k + 1 \in 1..(j + 1) /\ k \in 1..Len(v)
    BY <1>1, <2>1
  <2>4. Follows(v, J, P, j)
    <3>1. j < Len(v) <=> j + 1 < Len(u)
      BY <1>1, <2>1
    <3>2. j < Len(v) => j + 1 \in 1..Len(v)
      BY <1>1, <2>1
    <3> QED BY <1>4, <2>2, <3>1, <3>2 DEF Follows
  <2> QED BY <1>1, <1>4, <2>2, <2>3, <2>4
<1>6. Lay(v, J, P)
  BY <1>1, <1>5 DEF Lay
<1>7. u[1] = Wire(I[1])[O[1]]
  <2>1. 1 \in 1..Len(u)
    BY <1>1
  <2> QED BY <2>1 DEF Lay
<1>8. IsLayTail(u, I, O, v)
  BY <1>1, <1>4, <1>6, <1>7 DEF IsLayTail
<1> QED BY <1>0, <1>8

\* Item i behind what there is.
Put(u, I, O, v, J, P, i) ==
  /\ Len(u) \in Nat /\ Len(v) \in Nat /\ Len(v) > Len(u) /\ v # <<>>
  /\ \A j \in 1..Len(u) : J[j] = I[j] /\ P[j] = O[j]
  /\ \A j \in 1..Len(v) : j \notin 1..Len(u) => J[j] = i
  /\ P[Len(u) + 1] = 1
IsLayPut(u, I, O, v, i) == \E J, P : Lay(v, J, P) /\ Put(u, I, O, v, J, P, i)
LEMMA LayPut ==
  ASSUME NEW u, NEW I, NEW O, Lay(u, I, O), NEW i \in 1..(N + 3), \A j \in 1..Len(u) : I[j] <= i,
         NEW v, v = u \o Wire(i)
  PROVE  IsLayPut(u, I, O, v, i)
<1>1. Sequence(Wire(i)) /\ Len(Wire(i)) \in Nat \ {0}
  BY WireIs
<1>2. PICK w : w = Wire(i)
  OBVIOUS
<1>3. /\ Sequence(v) /\ Len(u) \in Nat /\ Len(v) = Len(u) + Len(w)
      /\ \A j \in 1..Len(u) : v[j] = u[j]
      /\ \A j \in (Len(u) + 1)..(Len(u) + Len(w)) : v[j] = w[j - Len(u)]
  <2>1. Sequence(u)
    BY DEF Lay
  <2>2. IsJoin(v, u, Len(u), w, Len(w))
    BY <1>1, <1>2, <2>1, Joined, Zenon
  <2> QED BY <2>2 DEF IsJoin
<1>4. Sequence(w) /\ Len(w) \in Nat \ {0}
  BY <1>1, <1>2
<1>5. PICK J : J = [j \in 1..Len(v) |-> IF j <= Len(u) THEN I[j] ELSE i]
  OBVIOUS
<1>6. PICK P : P = [j \in 1..Len(v) |-> IF j <= Len(u) THEN O[j] ELSE j - Len(u)]
  OBVIOUS
<1>7. /\ \A j \in 1..Len(u) : J[j] = I[j] /\ P[j] = O[j]
      /\ \A j \in 1..Len(v) : j \notin 1..Len(u) => J[j] = i /\ P[j] = j - Len(u)
  BY <1>3, <1>4, <1>5, <1>6
<1> HIDE <1>1, <1>5, <1>6
<1>8. ASSUME NEW j \in 1..Len(v)
      PROVE  /\ J[j] \in 1..(N + 3) /\ P[j] \in 1..Len(Wire(J[j])) /\ v[j] = Wire(J[j])[P[j]]
             /\ \A k \in 1..j : J[k] <= J[j]
             /\ Follows(v, J, P, j)
  <2>1. CASE j \in 1..Len(u)
    <3>1. /\ I[j] \in 1..(N + 3) /\ O[j] \in 1..Len(Wire(I[j])) /\ u[j] = Wire(I[j])[O[j]]
          /\ \A k \in 1..j : I[k] <= I[j]
          /\ Follows(u, I, O, j)
      BY <2>1 DEF Lay
    <3>2. \A k \in 1..j : k \in 1..Len(u)
      BY <1>3, <2>1
    <3>3. Follows(v, J, P, j)
      <4>1. CASE j < Len(u)
        <5>1. j + 1 \in 1..Len(u) /\ j < Len(v)
          BY <1>3, <1>4, <2>1, <4>1
        <5> QED BY <1>7, <2>1, <3>1, <4>1, <5>1 DEF Follows
      <4>2. CASE j = Len(u)
        <5>1. O[j] = Len(Wire(I[j]))
          BY <1>3, <3>1, <4>2 DEF Follows
        <5>2. j + 1 \in 1..Len(v) /\ j + 1 \notin 1..Len(u) /\ j + 1 - Len(u) = 1
          BY <1>3, <1>4, <4>2
        <5>3. P[j + 1] = 1
          BY <1>7, <5>2
        <5> QED BY <1>7, <2>1, <5>1, <5>3 DEF Follows
      <4> QED BY <1>3, <2>1, <4>1, <4>2
    <3> QED BY <1>3, <1>7, <2>1, <3>1, <3>2, <3>3
  <2>2. CASE j \notin 1..Len(u)
    <3>1. J[j] = i /\ P[j] = j - Len(u) /\ P[j] \in 1..Len(w)
      BY <1>3, <1>4, <1>7, <2>2
    <3>2. v[j] = w[P[j]]
      BY <1>3, <1>4, <2>2, <3>1
    <3>3. \A k \in 1..j : J[k] <= i
      <4> SUFFICES ASSUME NEW k \in 1..j PROVE J[k] <= i
        OBVIOUS
      <4>1. k \in 1..Len(v)
        BY <1>3, <1>4
      <4> QED BY <1>7, <4>1, ImageIs
    <3>4. Follows(v, J, P, j)
      <4>1. CASE P[j] = Len(w)
        <5>1. ~(j < Len(v))
          BY <1>3, <1>4, <3>1, <4>1
        <5> QED BY <1>2, <3>1, <4>1, <5>1 DEF Follows
      <4>2. CASE P[j] # Len(w)
        <5>1. j < Len(v) /\ j + 1 \in 1..Len(v) /\ j + 1 \notin 1..Len(u)
          BY <1>3, <1>4, <2>2, <3>1, <4>2
        <5>2. J[j + 1] = i /\ P[j + 1] = P[j] + 1
          BY <1>3, <1>7, <3>1, <5>1
        <5> QED BY <1>2, <3>1, <4>2, <5>1, <5>2 DEF Follows
      <4> QED BY <4>1, <4>2
    <3> QED BY <1>2, <3>1, <3>2, <3>3, <3>4
  <2> QED BY <2>1, <2>2
<1>9. Lay(v, J, P)
  BY <1>3, <1>8 DEF Lay
<1>10. P[Len(u) + 1] = 1
  <2>1. Len(u) + 1 \in 1..Len(v) /\ Len(u) + 1 \notin 1..Len(u)
    BY <1>3, <1>4
  <2> QED BY <1>3, <1>7, <2>1
<1>11. Len(v) \in Nat /\ Len(v) > Len(u) /\ v # <<>>
  BY <1>3, <1>4
<1>12. Put(u, I, O, v, J, P, i)
  BY <1>3, <1>7, <1>10, <1>11 DEF Put
<1> QED BY <1>9, <1>12, Zenon DEF IsLayPut

\* What is left when the first character has been read.
Rest(u, I, O, v, J, P) ==
  /\ \A j \in 1..Len(v) : j + 1 \in 1..Len(u) /\ J[j] = I[j + 1] /\ J[j] >= I[1]
  /\ O[1] # Len(Wire(I[1])) => v # <<>> /\ J[1] = I[1] /\ P[1] = O[1] + 1
  /\ O[1] = Len(Wire(I[1])) /\ v # <<>> => P[1] = 1
  /\ v # <<>> => J[Len(v)] = I[Len(u)]
  /\ v = <<>> => I[Len(u)] = I[1]

LEMMA LayRest ==
  ASSUME NEW u, NEW I, NEW O, Lay(u, I, O), u # <<>>, NEW v, v = Tail(u)
  PROVE  \E J, P : Lay(v, J, P) /\ Rest(u, I, O, v, J, P)
<1>1. /\ Len(u) \in Nat \ {0} /\ Len(v) = Len(u) - 1
      /\ \E J, P : Lay(v, J, P) /\ \A j \in 1..Len(v) : J[j] = I[j + 1] /\ P[j] = O[j + 1]
  <2>1. IsLayTail(u, I, O, v)
    BY LayTail, Zenon
  <2> QED BY <2>1 DEF IsLayTail
<1>2. PICK J, P : Lay(v, J, P) /\ \A j \in 1..Len(v) : J[j] = I[j + 1] /\ P[j] = O[j + 1]
  BY <1>1
<1>3. v = <<>> <=> Len(v) = 0
  <2>1. PICK S : v \in Seq(S)
    BY <1>2 DEF Lay, Sequence
  <2> QED BY <2>1, EmptySeq
<1>4. ASSUME NEW j \in 1..Len(v) PROVE j + 1 \in 1..Len(u) /\ J[j] = I[j + 1] /\ J[j] >= I[1]
  <2>1. j + 1 \in 1..Len(u) /\ 1 \in 1..(j + 1) /\ 1 \in 1..Len(u)
    BY <1>1
  <2>2. I[1] <= I[j + 1]
    BY <2>1 DEF Lay
  <2>3. I[1] \in Nat /\ I[j + 1] \in Nat
    BY <2>1, ImageIs DEF Lay
  <2> QED BY <1>2, <2>1, <2>2, <2>3
<1>5. Follows(u, I, O, 1)
  <2>1. 1 \in 1..Len(u)
    BY <1>1
  <2> QED BY <2>1 DEF Lay
<1>6. O[1] # Len(Wire(I[1])) => v # <<>> /\ J[1] = I[1] /\ P[1] = O[1] + 1
  <2> SUFFICES ASSUME O[1] # Len(Wire(I[1])) PROVE v # <<>> /\ J[1] = I[1] /\ P[1] = O[1] + 1
    OBVIOUS
  <2>1. 1 < Len(u) /\ I[2] = I[1] /\ O[2] = O[1] + 1
    BY <1>5 DEF Follows
  <2>2. 1 \in 1..Len(v) /\ v # <<>>
    BY <1>1, <1>3, <2>1
  <2> QED BY <1>2, <2>1, <2>2
<1>7. O[1] = Len(Wire(I[1])) /\ v # <<>> => P[1] = 1
  <2> SUFFICES ASSUME O[1] = Len(Wire(I[1])), v # <<>> PROVE P[1] = 1
    OBVIOUS
  <2>1. 1 \in 1..Len(v) /\ 1 < Len(u)
    BY <1>1, <1>3
  <2> QED BY <1>2, <1>5, <2>1 DEF Follows
<1>8. v # <<>> => J[Len(v)] = I[Len(u)]
  <2> SUFFICES ASSUME v # <<>> PROVE J[Len(v)] = I[Len(u)]
    OBVIOUS
  <2>1. Len(v) \in 1..Len(v) /\ Len(v) + 1 = Len(u)
    BY <1>1, <1>3
  <2> QED BY <1>2, <2>1
<1>9. v = <<>> => I[Len(u)] = I[1]
  BY <1>1, <1>3
<1> QED BY <1>2, <1>4, <1>6, <1>7, <1>8, <1>9 DEF Rest

\* What a character with the part "header" is.
LEMMA HeaderIs ==
  ASSUME NEW u, NEW I, NEW O, Lay(u, I, O), u # <<>>
  PROVE  /\ I[1] \in 1..(N + 3) /\ O[1] \in 1..Len(Wire(I[1])) /\ Head(u) = Wire(I[1])[O[1]]
         /\ Head(u).part = "header" =>
              \/ I[1] \in 1..N /\ O[1] = 1 /\ Head(u).c = SOH
              \/ I[1] = N + 1 /\ O[1] = 1 /\ Head(u).c = EOT
              \/ I[1] = N + 2 /\ Head(u).c = CAN
<1>1. Head(u) = Wire(I[1])[O[1]] /\ 1 \in 1..Len(u)
  <2>1. IsLayTail(u, I, O, Tail(u))
    BY LayTail, Zenon
  <2> QED BY <2>1 DEF IsLayTail
<1>2. I[1] \in 1..(N + 3) /\ O[1] \in 1..Len(Wire(I[1]))
  BY <1>1 DEF Lay
<1>0. PICK x : x = Head(u)
  OBVIOUS
<1>3. ASSUME I[1] \in 1..N, x.part = "header" PROVE O[1] = 1 /\ x.c = SOH
  <2>1. PICK i \in 1..N : i = I[1]
    BY <1>3
  <2>2. PICK m : m = O[1]
    OBVIOUS
  <2>3. IsBlock(i, Wire(i))
    BY BlockIs, Zenon
  <2>4. m \in 1..(BLOCK_SIZE + 4) /\ BLOCK_SIZE \in Nat /\ x = Wire(i)[m]
    BY <1>0, <1>1, <1>2, <2>1, <2>2, <2>3, BringupAssumption DEF IsBlock
  <2>5. m = 1 \/ m = 2 \/ m = 3 \/ m = BLOCK_SIZE + 4 \/ m - 3 \in 1..BLOCK_SIZE
    <3>1. m \in 1..(BLOCK_SIZE + 4) /\ BLOCK_SIZE \in Nat
      BY <2>4
    <3> QED BY <3>1
  <2>6. m - 3 \in 1..BLOCK_SIZE => Wire(i)[m].part = "data"
    <3> SUFFICES ASSUME m - 3 \in 1..BLOCK_SIZE PROVE Wire(i)[m].part = "data"
      OBVIOUS
    <3>1. PICK k \in 1..BLOCK_SIZE : k = m - 3
      OBVIOUS
    <3>2. Wire(i)[k + 3].part = "data"
      <4>1. \A n \in 1..BLOCK_SIZE : Wire(i)[n + 3] = [c |-> Image[i][n], part |-> "data"]
        BY <2>3, Zenon DEF IsBlock
      <4>2. Wire(i)[k + 3] = [c |-> Image[i][k], part |-> "data"]
        BY <4>1, Zenon
      <4> QED BY <4>2
    <3>3. k + 3 = m
      BY <2>4, <3>1
    <3> QED BY <3>2, <3>3
  <2>7. Wire(i)[1].c = SOH /\ Wire(i)[2].part = "number" /\ Wire(i)[3].part = "number"
        /\ Wire(i)[BLOCK_SIZE + 4].part = "sum"
    BY <2>3 DEF IsBlock
  <2>8. Wire(i)[m].part = "header"
    BY <1>3, <2>4
  <2>9. m = 1
    <3>1. m # 2 /\ m # 3
      BY <2>7, <2>8
    <3>2. m # BLOCK_SIZE + 4
      BY <2>7, <2>8
    <3>3. m - 3 \notin 1..BLOCK_SIZE
      BY <2>6, <2>8
    <3> QED BY <2>5, <3>1, <3>2, <3>3
  <2> QED BY <2>2, <2>4, <2>7, <2>9
<1>4. ASSUME I[1] = N + 1 PROVE O[1] = 1 /\ x.c = EOT
  <2>1. O[1] = 1
    <3>1. Len(Wire(N + 1)) = 1
      BY OthersAre
    <3>2. O[1] \in 1..1
      BY <1>2, <1>4, <3>1
    <3> QED BY <3>2
  <2> QED BY <1>0, <1>1, <1>4, <2>1, OthersAre
<1>5. ASSUME I[1] = N + 2, x.part = "header" PROVE x.c = CAN
  <2>1. O[1] \in 1..4
    BY <1>2, <1>5, OthersAre
  <2>2. O[1] = 1 \/ O[1] = 2 \/ O[1] = 3 \/ O[1] = 4
    BY <2>1
  <2>3. x = Wire(N + 2)[O[1]]
    BY <1>0, <1>1, <1>5
  <2>4. Wire(N + 2)[1].c = CAN /\ Wire(N + 2)[2].c = CAN /\ Wire(N + 2)[3].part = "command" /\ Wire(N + 2)[4].part = "command"
    BY OthersAre
  <2> QED BY <1>5, <2>2, <2>3, <2>4
<1>6. ASSUME I[1] = N + 3 PROVE x.part # "header"
  <2>1. O[1] \in 1..2
    BY <1>2, <1>6, OthersAre
  <2>2. O[1] = 1 \/ O[1] = 2
    BY <2>1
  <2>3. x = Wire(N + 3)[O[1]]
    BY <1>0, <1>1, <1>6
  <2>4. Wire(N + 3)[1].part = "command" /\ Wire(N + 3)[2].part = "command"
    BY OthersAre
  <2> QED BY <2>2, <2>3, <2>4
<1>7. I[1] \in 1..N \/ I[1] = N + 1 \/ I[1] = N + 2 \/ I[1] = N + 3
  BY <1>2, ImageIs
<1> QED BY <1>0, <1>1, <1>2, <1>3, <1>4, <1>5, <1>6, <1>7

-----------------------------------------------------------------------------
(* Loading.                                                                *)

L == Len(board.buffer)
Pre(i, k) == [j \in 1..k |-> Image[i][j]]

\* The first k data of block i: as they were sent, or with one byte wrong, which their sum shows.
IsChecked(i, k, b) ==
  /\ Sequence(b) /\ Len(b) = k /\ \A j \in 1..k : b[j] \in Byte
  /\ b = Pre(i, k) \/ Load!Sum(b) # Load!Sum(Pre(i, k))
Checked == IsChecked(L + 1, Len(board.block), board.block)

\* The board is where the host is.
Place(I, O) ==
  \/ board.pc = "header"
  \/ /\ up # <<>> /\ I[1] <= N
     /\ \/ board.pc = "number" /\ O[1] = 2 /\ board.block = <<>>
        \/ board.pc = "inverse" /\ O[1] = 3 /\ board.block = <<>>
        \/ /\ board.pc = "data" /\ I[1] = L + 1
           /\ Len(board.block) < BLOCK_SIZE /\ O[1] = Len(board.block) + 4 /\ Checked
        \/ /\ board.pc = "sum" /\ I[1] = L + 1
           /\ Len(board.block) = BLOCK_SIZE /\ O[1] = BLOCK_SIZE + 4 /\ Checked

\* The host has not begun, sends the block the board wants or the one before, or gave up.
Sender(I) ==
  \/ /\ host.st \in {"command", "request"} /\ host.block = 0
     /\ up = <<>> /\ L = 0 /\ board.pc = "header" /\ ~board.receiving
     /\ host.st = "request" => \A j \in 1..Len(down) : down[j] = "NAK"
  \/ /\ host.st = "sent" /\ host.block \in 1..(N + 1) /\ host.block \in {L, L + 1}
     /\ \A j \in 1..Len(up) : I[j] <= host.block
     /\ \A j, k \in 1..Len(down) : down[j] = "ACK" => host.block = L /\ (down[k] = "ACK" => j = k)
  \/ host.st = "command" /\ up # <<>> /\ I[Len(up)] = N + 2

\* Before the first transfer, during it, and after it: there is no second.
Before ==
  /\ board.pc = "gets" /\ board.buffer = <<>> /\ board.size = -1
  /\ host.st = "command" /\ host.block = 0
  /\ \/ up = Load!Typed(LOAD) /\ board.line = <<>>
     \/ up = Tail(Load!Typed(LOAD)) /\ board.line = <<LOAD>>
During(I, O) ==
  /\ board.size = -1 /\ board.line = <<>>
  /\ Sequence(board.buffer) /\ L <= N /\ \A j \in 1..L : board.buffer[j] = Image[j]
  /\ board.number = (L + 1) % BYTE
  /\ Place(I, O)
  /\ \A j \in 1..Len(up) : I[j] \in {L, L + 1, N + 2}
  /\ up # <<>> /\ I[1] = N + 2 => O[1] = 1
  /\ Sender(I)
After(I, O) ==
  /\ board.pc \in {"gets", "elf_load", "started"}
  /\ board.size >= 0 \/ board.pc # "gets" \/ host.st \in {"sent", "run"} => Load!Whole
  /\ host.st = "sent" => host.block = N + 1 /\ \A j \in 1..Len(up) : I[j] <= N + 1
  /\ host.st = "request" => \A j \in 1..Len(down) : down[j] # "NAK"
  /\ \A j \in 1..Len(up) : I[j] >= N + 1 /\ (I[j] = N + 3 => host.st = "run")
  /\ Sequence(board.line) /\ (board.line = <<RUN>> => host.st = "run")
  /\ up # <<>> /\ I[1] = N + 2 /\ O[1] = 3 => board.line # <<>>
  /\ up # <<>> /\ ((I[1] = N + 2 /\ O[1] = 4) \/ (I[1] = N + 3 /\ O[1] = 2)) => board.line # <<LOAD>>

Records ==
  /\ DOMAIN board = {"pc", "line", "receiving", "number", "block", "buffer", "size"}
  /\ DOMAIN host = {"st", "block", "errors", "loads"}
  /\ Sequence(down)
Loading(I, O) == Lay(up, I, O) /\ (During(I, O) \/ After(I, O))
KInv == upset = {} => Records /\ (Before \/ \E I, O : Loading(I, O))

LEMMA KInit == Load!Init => KInv
BY Emptied DEF Load!Init, Load!Prompt, KInv, Records, Before

LEMMA KInvRight == KInv => Load!LoadedRight
<1> SUFFICES ASSUME KInv, upset = {}
             PROVE  /\ board.size >= 0 /\ board.pc # "header" => Load!Whole
                    /\ host.st = "run" => Load!Whole
                    /\ board.pc = "started" => Load!Whole
  BY DEF Load!LoadedRight
<1>1. CASE Before
  BY <1>1 DEF Before
<1>2. ASSUME NEW I, NEW O, During(I, O)
      PROVE  /\ board.size >= 0 /\ board.pc # "header" => Load!Whole
             /\ host.st = "run" => Load!Whole
             /\ board.pc = "started" => Load!Whole
  BY <1>2 DEF During, Sender, Place
<1>3. ASSUME NEW I, NEW O, After(I, O)
      PROVE  /\ board.size >= 0 /\ board.pc # "header" => Load!Whole
             /\ host.st = "run" => Load!Whole
             /\ board.pc = "started" => Load!Whole
  BY <1>3 DEF After
<1> QED BY <1>1, <1>2, <1>3 DEF KInv, Loading

\* The board says one thing more.
IsSaid(d, x, e) ==
  /\ Sequence(e) /\ Len(d) \in Nat /\ Len(e) = Len(d) + 1
  /\ \A j \in 1..Len(d) : e[j] = d[j]
  /\ e[Len(d) + 1] = x
LEMMA Said == ASSUME NEW d, Sequence(d), NEW x, NEW e, e = d \o <<x>> PROVE IsSaid(d, x, e)
<1>1. PICK q : q = <<x>>
  OBVIOUS
<1>2. Sequence(q) /\ Len(q) = 1 /\ q[1] = x
  <2>1. q \in Seq({x}) /\ Len(q) = 1
    BY <1>1
  <2> QED BY <1>1, <2>1 DEF Sequence
<1>3. IsJoin(e, d, Len(d), q, 1)
  BY <1>1, <1>2, Joined, Zenon
<1> QED BY <1>2, <1>3 DEF IsJoin, IsSaid

LEMMA KWait == ASSUME KInv, Load!xmodem_wait PROVE KInv'
<1> SUFFICES ASSUME upset = {} PROVE KInv'
  BY DEF Load!xmodem_wait, KInv
<1>1. /\ board.pc = "header" /\ up = <<>> /\ down' = down \o <<"NAK">>
      /\ UNCHANGED <<up, board, host, upset>>
  BY DEF Load!xmodem_wait, Load!Says
<1>2. Records
  BY DEF KInv
<1>3. IsSaid(down, "NAK", down')
  <2>1. Sequence(down) /\ down' = down \o <<"NAK">>
    BY <1>1, <1>2 DEF Records
  <2> QED BY <2>1, Said, Zenon
<1>4. PICK I, O : Lay(up, I, O) /\ During(I, O)
  BY <1>1 DEF KInv, Before, Loading, After
<1>5. \A j \in 1..Len(down') : (j \in 1..Len(down) /\ down'[j] = down[j]) \/ down'[j] = "NAK"
  BY <1>3 DEF IsSaid
<1>6. Sender(I)'
  <2>1. Sender(I)
    BY <1>4 DEF During
  <2> QED BY <1>1, <1>5, <2>1 DEF Sender, L
<1>7. During(I, O)'
  BY <1>1, <1>4, <1>6 DEF During, Place, L, Checked
<1> QED BY <1>1, <1>2, <1>3, <1>4, <1>7 DEF KInv, Records, Loading, IsSaid

-----------------------------------------------------------------------------
(* What a step of the board leaves.                                        *)

\* Reading a byte leaves the rest laid out as it was.
LEMMA Reads ==
  ASSUME NEW I, NEW O, Lay(up, I, O), up # <<>>, up' = Tail(up)
  PROVE  \E J, P : Lay(up', J, P) /\ Rest(up, I, O, up', J, P)
<1>1. PICK v : v = Tail(up)
  OBVIOUS
<1>2. \E J, P : Lay(v, J, P) /\ Rest(up, I, O, v, J, P)
  BY <1>1, LayRest, Zenon
<1> QED BY <1>1, <1>2

LEMMA IndexIs ==
  ASSUME NEW u, NEW I, NEW O, Lay(u, I, O)
  PROVE  /\ Len(u) \in Nat /\ (u = <<>> <=> Len(u) = 0) /\ N \in Nat
         /\ \A j \in 1..Len(u) : I[j] \in 1..(N + 3)
<1>1. PICK S : u \in Seq(S)
  BY DEF Lay, Sequence
<1> QED BY <1>1, EmptySeq, ImageIs DEF Lay

\* The host does nothing, and the board goes on or asks for the block again.
Unheard == \A j \in 1..Len(down') : (j \in 1..Len(down) /\ down'[j] = down[j]) \/ down'[j] = "NAK"

LEMMA Within ==
  ASSUME NEW I, NEW O, Lay(up, I, O), During(I, O), up # <<>>, I[1] # N + 2,
         NEW J, NEW P, Lay(up', J, P), Rest(up, I, O, up', J, P), Place(J, P)',
         UNCHANGED host, board'.buffer = board.buffer, board'.number = board.number,
         board'.size = board.size, board'.line = board.line, Unheard
  PROVE  During(J, P)'
<1>1. /\ Len(up) \in Nat /\ Len(up') \in Nat /\ (up = <<>> <=> Len(up) = 0) /\ (up' = <<>> <=> Len(up') = 0)
  BY IndexIs
<1>2. \A j \in 1..Len(up') : j + 1 \in 1..Len(up) /\ J[j] = I[j + 1]
  BY DEF Rest
<1>3. \A j \in 1..Len(up') : J[j] \in {L, L + 1, N + 2}
  BY <1>2 DEF During
<1>4. up' # <<>> /\ J[1] = N + 2 => P[1] = 1
  BY DEF Rest
<1>5. CASE host.st = "sent" /\ Sender(I)
  <2>1. \A j \in 1..Len(up') : J[j] <= host.block
    BY <1>2, <1>5 DEF Sender
  <2>2. \A j, k \in 1..Len(down') : down'[j] = "ACK" => host.block = L /\ (down'[k] = "ACK" => j = k)
    BY <1>5 DEF Sender, Unheard
  <2>3. Sender(J)'
    BY <1>5, <2>1, <2>2 DEF Sender, L
  <2> QED BY <1>3, <1>4, <2>3 DEF During, L
<1>6. CASE host.st # "sent" /\ Sender(I)
  <2>1. host.st = "command" /\ I[Len(up)] = N + 2
    BY <1>6 DEF Sender
  <2>2. up' # <<>> /\ J[Len(up')] = N + 2
    BY <2>1 DEF Rest
  <2>3. Sender(J)'
    BY <2>1, <2>2 DEF Sender
  <2> QED BY <1>3, <1>4, <2>3 DEF During, L
<1> QED BY <1>5, <1>6 DEF During

-----------------------------------------------------------------------------
(* The header of a block, and the end.                                     *)

LEMMA Loaded ==
  ASSUME Sequence(board.buffer), L = N, \A j \in 1..L : board.buffer[j] = Image[j]
  PROVE  Load!Whole
<1>1. PICK S : board.buffer \in Seq(S)
  BY DEF Sequence
<1>2. board.buffer \in [1..L -> S]
  BY <1>1, LenProperties DEF L
<1>3. Image \in Seq([1..BLOCK_SIZE -> 0..(BYTE - 1)])
  BY BringupAssumption
<1>4. Image \in [1..N -> [1..BLOCK_SIZE -> 0..(BYTE - 1)]]
  BY <1>3, LenProperties DEF N
<1>5. PICK b : b = board.buffer
  OBVIOUS
<1>6. PICK n : n = N
  OBVIOUS
<1>7. b \in [1..n -> S] /\ Image \in [1..n -> [1..BLOCK_SIZE -> 0..(BYTE - 1)]] /\ \A j \in 1..n : b[j] = Image[j]
  <2>1. b \in [1..n -> S]
    BY <1>2, <1>5, <1>6
  <2>2. \A j \in 1..n : b[j] = Image[j]
    BY <1>5, <1>6
  <2>3. Image \in [1..n -> [1..BLOCK_SIZE -> 0..(BYTE - 1)]]
    BY <1>4, <1>6
  <2> QED BY <2>1, <2>2, <2>3
<1>8. b = Image
  <2>1. b = [j \in 1..n |-> b[j]] /\ Image = [j \in 1..n |-> Image[j]]
    BY <1>7
  <2>2. [j \in 1..n |-> b[j]] = [j \in 1..n |-> Image[j]]
    BY <1>7
  <2> QED BY <2>1, <2>2
<1> QED BY <1>5, <1>8 DEF Load!Whole

\* The end of the transfer, and the first byte of a block.
LEMMA KEnd ==
  ASSUME NEW I, NEW O, Lay(up, I, O), During(I, O), up # <<>>, Records,
         I[1] = N + 1, O[1] = 1,
         NEW J, NEW P, Lay(up', J, P), Rest(up, I, O, up', J, P),
         UNCHANGED host, Load!Over(L)
  PROVE  After(J, P)'
<1>1. /\ Len(up) \in Nat /\ Len(up') \in Nat /\ (up = <<>> <=> Len(up) = 0) /\ (up' = <<>> <=> Len(up') = 0)
      /\ N \in Nat
  BY IndexIs
<1>2. 1 \in 1..Len(up) /\ \A j \in 1..Len(up') : j + 1 \in 1..Len(up) /\ J[j] = I[j + 1] /\ J[j] >= N + 1
  BY <1>1 DEF Rest
<1>3. L \in Nat /\ L = N
  <2>1. PICK S : board.buffer \in Seq(S)
    BY DEF During, Sequence
  <2>2. L \in Nat
    BY <2>1 DEF L
  <2> QED BY <1>1, <1>2, <2>2 DEF During
<1>4. Load!Whole
  BY <1>3, Loaded DEF During
<1>5. /\ board'.pc = "gets" /\ board'.buffer = board.buffer /\ board'.line = board.line
  BY DEF Load!Over, Records
<1>6. Len(Wire(I[1])) = 1
  BY OthersAre
<1>7. up' # <<>> => P[1] = 1
  BY <1>6 DEF Rest
<1>8. /\ host.st = "sent" => host.block = N + 1 /\ \A j \in 1..Len(up') : J[j] <= N + 1
      /\ host.st # "request"
  <2>1. CASE host.st = "sent" /\ Sender(I)
    <3>1. host.block = N + 1
      BY <1>1, <1>2, <2>1 DEF Sender
    <3> QED BY <1>2, <2>1, <3>1 DEF Sender
  <2>2. CASE host.st # "sent" /\ Sender(I)
    BY <2>2 DEF Sender
  <2> QED BY <2>1, <2>2 DEF During
<1>9. \A j \in 1..Len(up') : J[j] # N + 3
  BY <1>1, <1>2, <1>3 DEF During
<1>10. board.line = <<>> /\ Sequence(board.line) /\ board.line # <<RUN>> /\ board.line # <<LOAD>>
  BY Emptied DEF During
<1> QED BY <1>2, <1>4, <1>5, <1>7, <1>8, <1>9, <1>10 DEF After, Load!Whole

LEMMA KGiven ==
  ASSUME NEW I, NEW O, Lay(up, I, O), During(I, O), up # <<>>, Records,
         I[1] = N + 2,
         NEW J, NEW P, Lay(up', J, P), Rest(up, I, O, up', J, P),
         UNCHANGED host, Load!Over(-1)
  PROVE  After(J, P)'
<1>1. /\ Len(up) \in Nat /\ Len(up') \in Nat /\ (up = <<>> <=> Len(up) = 0) /\ (up' = <<>> <=> Len(up') = 0)
      /\ N \in Nat
  BY IndexIs
<1>2. 1 \in 1..Len(up) /\ \A j \in 1..Len(up') : j + 1 \in 1..Len(up) /\ J[j] = I[j + 1] /\ J[j] >= N + 2
  BY <1>1 DEF Rest
<1>3. L \in Nat /\ L <= N
  <2>1. PICK S : board.buffer \in Seq(S)
    BY DEF During, Sequence
  <2> QED BY <2>1 DEF L, During
<1>5. board'.pc = "gets" /\ board'.line = board.line /\ board'.size = -1
  BY DEF Load!Over, Records
<1>6. Len(Wire(I[1])) = 4 /\ O[1] = 1
  BY OthersAre DEF During
<1>7. up' # <<>> => P[1] = 2
  <2>1. O[1] # Len(Wire(I[1])) /\ O[1] + 1 = 2
    <3>1. PICK o, w : o = O[1] /\ w = Len(Wire(I[1]))
      OBVIOUS
    <3>2. o = 1 /\ w = 4
      BY <1>6, <3>1
    <3>3. o # w /\ o + 1 = 2
      BY <3>2
    <3> QED BY <3>1, <3>3
  <2>2. O[1] # Len(Wire(I[1])) => P[1] = O[1] + 1
    BY DEF Rest
  <2> QED BY <2>1, <2>2
<1>8. host.st = "command"
  <2>1. host.st = "sent" /\ Sender(I) => I[1] <= host.block /\ host.block <= N + 1
    BY <1>1, <1>2 DEF Sender
  <2>2. ~(host.st = "sent" /\ Sender(I))
    BY <1>1, <2>1 DEF Sender
  <2> QED BY <2>2 DEF During, Sender
<1>9. \A j \in 1..Len(up') : J[j] = N + 2
  BY <1>1, <1>2, <1>3 DEF During
<1>10. board.line = <<>> /\ Sequence(board.line) /\ board.line # <<RUN>> /\ board.line # <<LOAD>>
  BY Emptied DEF During
<1>11. up' # <<>> => J[1] = N + 2
  BY <1>1, <1>9
<1> QED BY <1>1, <1>5, <1>7, <1>8, <1>9, <1>10, <1>11 DEF After

LEMMA KRecv == ASSUME KInv, NEW c, Load!xmodem_recv(c) PROVE KInv'
<1> SUFFICES ASSUME upset' = {} PROVE KInv'
  BY DEF KInv
<1>1. board.pc = "header" /\ up # <<>> /\ up' = Tail(up) /\ UNCHANGED host
  BY DEF Load!xmodem_recv, Load!serial_recv_byte
<1>2. PICK h : h = Head(up)
  OBVIOUS
<1>3. upset = {} /\ h.part = "header" /\ c = h.c
  <2>1. upset' = upset \cup (IF h.part = "header" THEN {} ELSE {"astray"})
                       \cup (IF h.part = "header" /\ c # h.c THEN {"header"} ELSE {})
    BY <1>2 DEF Load!xmodem_recv
  <2> QED BY <2>1
<1>4. Records
  BY <1>3 DEF KInv
<1>5. PICK I, O : Lay(up, I, O) /\ During(I, O)
  BY <1>1, <1>3 DEF KInv, Before, Loading, After
<1>6. \/ I[1] \in 1..N /\ O[1] = 1 /\ c = SOH
      \/ I[1] = N + 1 /\ O[1] = 1 /\ c = EOT
      \/ I[1] = N + 2 /\ c = CAN
  BY <1>1, <1>2, <1>3, <1>5, HeaderIs
<1>7. PICK J, P : Lay(up', J, P) /\ Rest(up, I, O, up', J, P)
  BY <1>1, <1>5, Reads, Zenon
<1>8. SOH # EOT /\ SOH # CAN /\ EOT # CAN /\ BLOCK_SIZE \in Nat
  BY BringupAssumption
<1>9. CASE I[1] \in 1..N /\ O[1] = 1 /\ c = SOH
  <2>1. board' = [board EXCEPT !.pc = "number", !.receiving = TRUE, !.block = <<>>] /\ down' = down
    BY <1>8, <1>9 DEF Load!xmodem_recv
  <2>2. DOMAIN board' = DOMAIN board
    BY <2>1
  <2>3. /\ board'.pc = "number" /\ board'.block = <<>> /\ board'.buffer = board.buffer
        /\ board'.number = board.number /\ board'.size = board.size /\ board'.line = board.line
    BY <1>4, <2>1 DEF Records
  <2>4. up' # <<>> /\ J[1] = I[1] /\ P[1] = 2
    <3>1. Len(Wire(I[1])) = BLOCK_SIZE + 4
      BY <1>9, BlockIs DEF IsBlock
    <3> QED BY <1>7, <1>8, <1>9, <3>1 DEF Rest
  <2>5. Place(J, P)'
    BY <1>9, <2>3, <2>4, ImageIs DEF Place
  <2>6. Unheard
    BY <2>1 DEF Unheard
  <2>7. During(J, P)'
    <3>1. I[1] # N + 2
      BY <1>9, ImageIs
    <3> QED BY <1>1, <1>5, <1>7, <2>3, <2>5, <2>6, <3>1, Within
  <2> QED BY <1>1, <1>4, <1>7, <2>1, <2>2, <2>7 DEF KInv, Records, Loading
<1>10. CASE I[1] = N + 1 /\ O[1] = 1 /\ c = EOT
  <2>1. Load!Over(L) /\ down' = down \o <<"ACK", "text">>
    BY <1>8, <1>10 DEF Load!xmodem_recv, Load!Says, L
  <2>2. After(J, P)'
    BY <1>1, <1>4, <1>5, <1>7, <1>10, <2>1, KEnd
  <2>3. Sequence(down')
    <3>1. <<"ACK", "text">> \in Seq({"ACK", "text"})
      OBVIOUS
    <3> QED BY <1>4, <2>1, <3>1, Joined DEF IsJoin, Sequence, Records
  <2>4. Records'
    BY <1>1, <1>4, <2>1, <2>3 DEF Records, Load!Over
  <2> QED BY <1>7, <2>2, <2>4 DEF KInv, Loading
<1>11. CASE I[1] = N + 2 /\ c = CAN
  <2>1. Load!Over(-1) /\ down' = down \o <<"text">>
    BY <1>8, <1>11 DEF Load!xmodem_recv, Load!Says
  <2>2. After(J, P)'
    BY <1>1, <1>4, <1>5, <1>7, <1>11, <2>1, KGiven
  <2>3. Sequence(down')
    BY <1>4, <2>1, Said DEF IsSaid, Records
  <2>4. Records'
    BY <1>1, <1>4, <2>1, <2>3 DEF Records, Load!Over
  <2> QED BY <1>7, <2>2, <2>4 DEF KInv, Loading
<1> QED BY <1>6, <1>9, <1>10, <1>11

LEMMA Domained == ASSUME NEW q, Sequence(q) PROVE DOMAIN q = 1..Len(q) /\ Len(q) \in Nat
BY LenProperties DEF Sequence

LEMMA Same ==
  ASSUME NEW b, Sequence(b), NEW i, NEW k, Len(b) = k, \A j \in 1..k : b[j] = Image[i][j]
  PROVE  b = Pre(i, k)
<1>1. PICK S : b \in Seq(S)
  BY DEF Sequence
<1>2. b \in [1..k -> S]
  BY <1>1, LenProperties
<1>3. b = [j \in 1..k |-> b[j]]
  BY <1>2
<1>4. [j \in 1..k |-> b[j]] = [j \in 1..k |-> Image[i][j]]
  OBVIOUS
<1> QED BY <1>3, <1>4 DEF Pre

LEMMA PrefixIs ==
  ASSUME NEW i \in 1..N, NEW b, Sequence(b), Load!IsPrefix(b, Image[i])
  PROVE  b = Pre(i, Len(b))
<1>1. PICK t : t = Image[i]
  OBVIOUS
<1>2. PICK S : b \in Seq(S)
  BY DEF Sequence
<1>3. BLOCK_SIZE \in Nat /\ t \in [1..BLOCK_SIZE -> Byte]
  <2>1. Image \in Seq([1..BLOCK_SIZE -> Byte]) /\ BLOCK_SIZE \in Nat
    BY BringupAssumption DEF Byte
  <2> QED BY <1>1, <2>1, ElementOfSeq DEF N
<1>4. t \in Seq(Byte)
  BY <1>3, SeqDef, Zenon
<1>5. Len(b) \in Nat /\ Len(b) <= Len(t) /\ SubSeq(b, 1, Len(b)) = SubSeq(t, 1, Len(b))
  BY <1>1, <1>2 DEF Load!IsPrefix
<1>6. \A j \in 1..Len(b) : SubSeq(b, 1, Len(b))[j] = b[j]
  <2>1. \A j \in 1..Len(b) : b[j] \in S
    BY <1>2, ElementOfSeq
  <2>2. 1 \in Int /\ Len(b) \in Int
    BY <1>5
  <2>3. \A j \in 1..(Len(b) - 1 + 1) : SubSeq(b, 1, Len(b))[j] = b[1 + j - 1]
    BY <2>1, <2>2, SubSeqProperties
  <2> QED BY <1>5, <2>3
<1>7. \A j \in 1..Len(b) : SubSeq(t, 1, Len(b))[j] = t[j]
  <2>1. \A j \in 1..Len(b) : t[j] \in Byte
    BY <1>4, <1>5, ElementOfSeq
  <2>2. 1 \in Int /\ Len(b) \in Int
    BY <1>5
  <2>3. \A j \in 1..(Len(b) - 1 + 1) : SubSeq(t, 1, Len(b))[j] = t[1 + j - 1]
    BY <2>1, <2>2, SubSeqProperties
  <2> QED BY <1>5, <2>3
<1>8. \A j \in 1..Len(b) : b[j] = Image[i][j]
  BY <1>1, <1>5, <1>6, <1>7
<1> QED BY <1>8, Same

LEMMA SumsDiffer ==
  ASSUME NEW s \in Byte, NEW r \in Byte, NEW a \in Byte, NEW b \in Byte,
         (s = r /\ a # b) \/ (s # r /\ a = b)
  PROVE  (s + a) % BYTE # (r + b) % BYTE
<1>1. BYTE \in Nat \ {0}
  BY BringupAssumption
<1>2. /\ (s + a) % BYTE = (IF s + a < BYTE THEN s + a ELSE s + a - BYTE)
      /\ (r + b) % BYTE = (IF r + b < BYTE THEN r + b ELSE r + b - BYTE)
  BY SumModulo
<1> QED BY <1>1, <1>2 DEF Byte

LEMMA Checks ==
  ASSUME NEW i \in 1..N, NEW k \in Nat, k < BLOCK_SIZE, NEW b, IsChecked(i, k, b), NEW c \in Byte,
         c = Image[i][k + 1] \/ b = Pre(i, k)
  PROVE  IsChecked(i, k + 1, Append(b, c))
<1>1. PICK d : d = Append(b, c)
  OBVIOUS
<1>2. /\ Sequence(d) /\ Len(d) = k + 1 /\ \A j \in 1..k : d[j] = b[j]
      /\ d[k + 1] = c
  BY <1>1, Appended DEF IsChecked
<1>3. \A j \in 1..(k + 1) : d[j] \in Byte
  <2>1. \A j \in 1..(k + 1) : j \in 1..k \/ j = k + 1
    OBVIOUS
  <2> QED BY <1>2, <2>1 DEF IsChecked
<1>4. BLOCK_SIZE \in Nat /\ \A j \in 1..BLOCK_SIZE : Image[i][j] \in Byte
  BY BringupAssumption, ImageIs
<1>5. k + 1 \in 1..BLOCK_SIZE /\ \A j \in 1..(k + 1) : j \in 1..BLOCK_SIZE
  BY <1>4
<1>6. PICK p : p = Pre(i, k)
  OBVIOUS
<1>7. PICK q : q = Pre(i, k + 1)
  OBVIOUS
<1>8. DOMAIN p = 1..k /\ \A j \in 1..k : p[j] = Image[i][j]
  BY <1>6 DEF Pre
<1>9. DOMAIN q = 1..(k + 1) /\ \A j \in 1..(k + 1) : q[j] = Image[i][j]
  BY <1>7 DEF Pre
<1>10. DOMAIN b = 1..k /\ DOMAIN d = 1..(k + 1)
  BY <1>2, Domained DEF IsChecked
<1>11. \A j \in 1..k : j \in 1..(k + 1)
  OBVIOUS
<1>12. Load!Sum(d) = (Load!Sum(b) + c) % BYTE
  BY <1>2, <1>10, SumAppend
<1>13. Load!Sum(q) = (Load!Sum(p) + Image[i][k + 1]) % BYTE
  <2>1. q[k + 1] = Image[i][k + 1] /\ \A j \in 1..k : p[j] = q[j]
    BY <1>8, <1>9, <1>11
  <2> QED BY <1>8, <1>9, <2>1, SumAppend
<1>14. Load!Sum(b) \in Byte /\ Load!Sum(p) \in Byte
  <2>1. Load!Sum(b) \in Byte
    BY <1>10, SumByte DEF IsChecked
  <2>2. \A j \in 1..k : p[j] \in Byte
    BY <1>4, <1>5, <1>8, <1>11
  <2> QED BY <1>8, <2>1, <2>2, SumByte
<1>15. d = q \/ Load!Sum(d) # Load!Sum(q)
  <2>1. CASE b = p /\ c = Image[i][k + 1]
    <3>1. \A j \in 1..(k + 1) : j \in 1..k \/ j = k + 1
      OBVIOUS
    <3>2. \A j \in 1..(k + 1) : d[j] = Image[i][j]
      BY <1>2, <1>8, <2>1, <3>1
    <3> QED BY <1>2, <1>7, <3>2, Same
  <2>2. CASE Load!Sum(b) # Load!Sum(p) /\ c = Image[i][k + 1]
    BY <1>4, <1>5, <1>12, <1>13, <1>14, <2>2, SumsDiffer
  <2>3. CASE b = p /\ c # Image[i][k + 1]
    BY <1>4, <1>5, <1>12, <1>13, <1>14, <2>3, SumsDiffer
  <2> QED BY <1>6, <2>1, <2>2, <2>3 DEF IsChecked
<1> QED BY <1>1, <1>2, <1>3, <1>7, <1>15 DEF IsChecked

-----------------------------------------------------------------------------
(* A block, byte by byte.                                                  *)

\* What every byte of a block has in common.
LEMMA KBytes ==
  ASSUME KInv, NEW c, Load!xmodem_read_block(c), upset' = {}
  PROVE  /\ Records /\ up # <<>> /\ up' = Tail(up) /\ UNCHANGED host /\ upset = {} /\ ~Load!Twice(c)
         /\ \E I, O : Lay(up, I, O) /\ During(I, O) /\ I[1] \in 1..N
                      /\ \E J, P : Lay(up', J, P) /\ Rest(up, I, O, up', J, P)
<1>1. up # <<>> /\ up' = Tail(up) /\ UNCHANGED host /\ board.pc \in {"number", "inverse", "data", "sum"}
  BY DEF Load!xmodem_read_block, Load!serial_recv_byte
<1>2. upset = {} /\ ~Load!Twice(c)
  <2>1. upset' = IF Load!Twice(c) THEN upset \cup {"twice"} ELSE upset
    BY DEF Load!xmodem_read_block
  <2> QED BY <2>1
<1>3. Records
  BY <1>2 DEF KInv
<1>4. PICK I, O : Lay(up, I, O) /\ During(I, O)
  BY <1>1, <1>2 DEF KInv, Before, Loading, After
<1>5. I[1] \in 1..N
  <2>1. I[1] <= N
    BY <1>1, <1>4 DEF During, Place
  <2>2. 1 \in 1..Len(up)
    BY <1>1, <1>4, IndexIs
  <2> QED BY <1>4, <2>1, <2>2, IndexIs
<1>6. \E J, P : Lay(up', J, P) /\ Rest(up, I, O, up', J, P)
  BY <1>1, <1>4, Reads, Zenon
<1> QED BY <1>1, <1>2, <1>3, <1>4, <1>5, <1>6

\* A block that is refused is sought again.
LEMMA KRefused ==
  ASSUME Records, up # <<>>, UNCHANGED host, upset' = {},
         NEW I, NEW O, Lay(up, I, O), During(I, O), I[1] \in 1..N,
         NEW J, NEW P, Lay(up', J, P), Rest(up, I, O, up', J, P), Load!Refused
  PROVE  KInv'
<1>1. board' = [board EXCEPT !.pc = "header"] /\ down' = down \o <<"NAK">>
  BY DEF Load!Refused, Load!Says
<1>2. IsSaid(down, "NAK", down')
  <2>1. Sequence(down)
    BY DEF Records
  <2> QED BY <1>1, <2>1, Said, Zenon
<1>3. Records'
  BY <1>1, <1>2 DEF Records, IsSaid
<1>4. /\ board'.pc = "header" /\ board'.buffer = board.buffer /\ board'.number = board.number
      /\ board'.size = board.size /\ board'.line = board.line
  BY <1>1 DEF Records
<1>5. Unheard
  BY <1>2 DEF Unheard, IsSaid
<1>6. During(J, P)'
  <2>1. I[1] # N + 2
    BY ImageIs
  <2>2. Place(J, P)'
    BY <1>4 DEF Place
  <2> QED BY <1>4, <1>5, <2>1, <2>2, Within
<1> QED BY <1>3, <1>6 DEF KInv, Loading

\* A byte that is taken.
LEMMA KTaken ==
  ASSUME Records, up # <<>>, UNCHANGED host, upset' = {},
         NEW I, NEW O, Lay(up, I, O), During(I, O), I[1] \in 1..N,
         NEW J, NEW P, Lay(up', J, P), Rest(up, I, O, up', J, P), Place(J, P)', UNCHANGED down,
         DOMAIN board' = DOMAIN board, board'.buffer = board.buffer, board'.number = board.number,
         board'.size = board.size, board'.line = board.line
  PROVE  KInv'
<1>1. Records'
  BY DEF Records
<1>2. Unheard
  BY DEF Unheard
<1>3. During(J, P)'
  <2>1. I[1] # N + 2
    BY ImageIs
  <2> QED BY <1>2, <2>1, Within
<1> QED BY <1>1, <1>3 DEF KInv, Loading

LEMMA KNumber ==
  ASSUME KInv, NEW c, Load!xmodem_read_block(c), upset' = {}, board.pc = "number"
  PROVE  KInv'
<1>1. PICK I, O : Lay(up, I, O) /\ During(I, O) /\ I[1] \in 1..N
                  /\ \E J, P : Lay(up', J, P) /\ Rest(up, I, O, up', J, P)
  BY KBytes, Zenon
<1>2. PICK J, P : Lay(up', J, P) /\ Rest(up, I, O, up', J, P)
  BY <1>1
<1>3. Records /\ up # <<>> /\ UNCHANGED host
  BY KBytes
<1>4. CASE c = board.number
  <2>1. board' = [board EXCEPT !.pc = "inverse"] /\ down' = down
    BY <1>4 DEF Load!xmodem_read_block, Load!serial_recv_byte, Load!Goes
  <2>2. /\ board'.pc = "inverse" /\ board'.buffer = board.buffer /\ board'.number = board.number
        /\ board'.size = board.size /\ board'.line = board.line /\ board'.block = board.block
        /\ DOMAIN board' = DOMAIN board
    BY <1>3, <2>1 DEF Records
  <2>3. O[1] = 2 /\ board.block = <<>>
    BY <1>1 DEF During, Place
  <2>4. up' # <<>> /\ J[1] = I[1] /\ P[1] = 3
    <3>1. Len(Wire(I[1])) = BLOCK_SIZE + 4 /\ BLOCK_SIZE \in Nat
      BY <1>1, BlockIs, BringupAssumption DEF IsBlock
    <3> QED BY <1>2, <2>3, <3>1 DEF Rest
  <2>5. Place(J, P)'
    BY <1>1, <2>2, <2>3, <2>4, ImageIs DEF Place
  <2> QED BY <1>1, <1>2, <1>3, <2>1, <2>2, <2>5, KTaken
<1>5. CASE c # board.number
  <2>1. Load!Refused
    BY <1>5 DEF Load!xmodem_read_block, Load!serial_recv_byte
  <2> QED BY <1>1, <1>2, <1>3, <2>1, KRefused
<1> QED BY <1>4, <1>5

LEMMA KInverse ==
  ASSUME KInv, NEW c, Load!xmodem_read_block(c), upset' = {}, board.pc = "inverse"
  PROVE  KInv'
<1>1. PICK I, O : Lay(up, I, O) /\ During(I, O) /\ I[1] \in 1..N
                  /\ \E J, P : Lay(up', J, P) /\ Rest(up, I, O, up', J, P)
  BY KBytes, Zenon
<1>2. PICK J, P : Lay(up', J, P) /\ Rest(up, I, O, up', J, P)
  BY <1>1
<1>3. Records /\ up # <<>> /\ UNCHANGED host /\ ~Load!Twice(c)
  BY KBytes
<1>4. CASE c = BYTE - 1 - board.number
  <2>1. board' = [board EXCEPT !.pc = "data"] /\ down' = down
    BY <1>4 DEF Load!xmodem_read_block, Load!serial_recv_byte, Load!Goes
  <2>2. /\ board'.pc = "data" /\ board'.buffer = board.buffer /\ board'.number = board.number
        /\ board'.size = board.size /\ board'.line = board.line /\ board'.block = board.block
        /\ DOMAIN board' = DOMAIN board
    BY <1>3, <2>1 DEF Records
  <2>3. O[1] = 3 /\ board.block = <<>>
    BY <1>1 DEF During, Place
  <2>4. BLOCK_SIZE \in Nat \ {0} /\ BYTE \in Nat \ {0, 1}
    BY BringupAssumption
  <2>5. up' # <<>> /\ J[1] = I[1] /\ P[1] = 4
    <3>1. Len(Wire(I[1])) = BLOCK_SIZE + 4
      BY <1>1, BlockIs DEF IsBlock
    <3> QED BY <1>2, <2>3, <2>4, <3>1 DEF Rest
  <2>6. L \in Nat
    BY <1>1, Domained DEF During, L
  <2>7. Head(up).c = BYTE - 1 - (I[1] % BYTE)
    <3>1. Head(up) = Wire(I[1])[O[1]]
      BY <1>1, <1>3, HeaderIs
    <3>2. Wire(I[1])[3].c = BYTE - 1 - (I[1] % BYTE)
      <4>1. IsBlock(I[1], Wire(I[1]))
        BY <1>1, BlockIs, Zenon
      <4>2. Wire(I[1])[3] = [c |-> BYTE - 1 - (I[1] % BYTE), part |-> "number"]
        BY <4>1, Zenon DEF IsBlock
      <4> QED BY <4>2
    <3> QED BY <2>3, <3>1, <3>2
  <2>8. c = Head(up).c
    BY <1>3, <1>4 DEF Load!Twice
  <2>9. I[1] % BYTE = (L + 1) % BYTE
    <3>1. I[1] % BYTE \in Int /\ (L + 1) % BYTE \in Int
      BY <1>1, <2>4, <2>6, ImageIs
    <3> QED BY <1>1, <1>4, <2>4, <2>7, <2>8, <3>1 DEF During
  <2>10. I[1] = L + 1
    <3>1. I[1] \in {L, L + 1}
      <4>1. 1 \in 1..Len(up)
        BY <1>1, <1>3, IndexIs
      <4> QED BY <1>1, <4>1, ImageIs DEF During
    <3>2. L % BYTE # (L + 1) % BYTE
      <4>1. (L + 1) % BYTE = IF (L % BYTE) + 1 = BYTE THEN 0 ELSE (L % BYTE) + 1
        BY <2>4, <2>6, Successor
      <4>2. L % BYTE \in 0..(BYTE - 1)
        BY <2>4, <2>6, Quotient
      <4> QED BY <2>4, <4>1, <4>2
    <3> QED BY <2>9, <3>1, <3>2
  <2>11. Checked'
    <3>1. Sequence(<<>>) /\ Len(<<>>) = 0
      BY Emptied
    <3>2. <<>> = Pre(L + 1, 0)
      BY <3>1, Same
    <3>3. IsChecked(L + 1, 0, <<>>)
      BY <3>1, <3>2 DEF IsChecked
    <3> QED BY <2>2, <2>3, <3>1, <3>3 DEF Checked, L
  <2>12. Place(J, P)'
    <3>1. L' = L /\ Len(board'.block) = 0
      BY <2>2, <2>3 DEF L
    <3> QED BY <1>1, <2>2, <2>4, <2>5, <2>6, <2>10, <2>11, <3>1, ImageIs DEF Place
  <2> QED BY <1>1, <1>2, <1>3, <2>1, <2>2, <2>12, KTaken
<1>5. CASE c # BYTE - 1 - board.number
  <2>1. Load!Refused
    BY <1>5 DEF Load!xmodem_read_block, Load!serial_recv_byte
  <2> QED BY <1>1, <1>2, <1>3, <2>1, KRefused
<1> QED BY <1>4, <1>5

LEMMA KData ==
  ASSUME KInv, NEW c \in Byte, Load!xmodem_read_block(c), upset' = {}, board.pc = "data"
  PROVE  KInv'
<1>1. PICK I, O : Lay(up, I, O) /\ During(I, O) /\ I[1] \in 1..N
                  /\ \E J, P : Lay(up', J, P) /\ Rest(up, I, O, up', J, P)
  BY KBytes, Zenon
<1>2. PICK J, P : Lay(up', J, P) /\ Rest(up, I, O, up', J, P)
  BY <1>1
<1>3. Records /\ up # <<>> /\ UNCHANGED host /\ ~Load!Twice(c)
  BY KBytes
<1>4. /\ board' = [board EXCEPT !.block = Append(@, c),
                                !.pc = IF Len(board.block) + 1 < BLOCK_SIZE THEN @ ELSE "sum"]
      /\ down' = down
  BY DEF Load!xmodem_read_block, Load!serial_recv_byte
<1>5. /\ board'.pc = (IF Len(board.block) + 1 < BLOCK_SIZE THEN "data" ELSE "sum")
      /\ board'.block = Append(board.block, c)
      /\ board'.buffer = board.buffer /\ board'.number = board.number
      /\ board'.size = board.size /\ board'.line = board.line
      /\ DOMAIN board' = DOMAIN board
  BY <1>3, <1>4 DEF Records
<1>6. PICK k : k = Len(board.block)
  OBVIOUS
<1>7. I[1] = L + 1 /\ k < BLOCK_SIZE /\ O[1] = k + 4 /\ IsChecked(L + 1, k, board.block)
  BY <1>1, <1>6 DEF During, Place, Checked
<1>8. BLOCK_SIZE \in Nat /\ k \in Nat /\ L \in Nat /\ L + 1 \in 1..N
  <2>1. k \in Nat
    BY <1>6, <1>7, Domained DEF IsChecked
  <2>2. L \in Nat
    BY <1>1, Domained DEF During, L
  <2> QED BY <1>1, <1>7, <2>1, <2>2, BringupAssumption
<1>9. up' # <<>> /\ J[1] = I[1] /\ P[1] = k + 5
  <2>1. Len(Wire(I[1])) = BLOCK_SIZE + 4
    BY <1>1, BlockIs DEF IsBlock
  <2> QED BY <1>2, <1>7, <1>8, <2>1 DEF Rest
<1>10. Head(up).c = Image[L + 1][k + 1]
  <2>1. Head(up) = Wire(L + 1)[k + 4]
    BY <1>1, <1>3, <1>7, HeaderIs
  <2>2. IsBlock(L + 1, Wire(L + 1))
    BY <1>8, BlockIs, Zenon
  <2>3. PICK m : m = k + 1
    OBVIOUS
  <2>4. m \in 1..BLOCK_SIZE /\ m + 3 = k + 4
    BY <1>7, <1>8, <2>3
  <2>5. \A n \in 1..BLOCK_SIZE : Wire(L + 1)[n + 3] = [c |-> Image[L + 1][n], part |-> "data"]
    BY <2>2, Zenon DEF IsBlock
  <2>6. Wire(L + 1)[m + 3] = [c |-> Image[L + 1][m], part |-> "data"]
    BY <2>4, <2>5, Zenon
  <2>7. Head(up) = [c |-> Image[L + 1][m], part |-> "data"]
    BY <2>1, <2>4, <2>6
  <2> QED BY <2>3, <2>7
<1>11. c = Image[L + 1][k + 1] \/ board.block = Pre(L + 1, k)
  <2>1. c = Head(up).c \/ Load!IsPrefix(board.block, Image[L + 1])
    BY <1>3, <1>8 DEF Load!Twice, L, N
  <2>2. Load!IsPrefix(board.block, Image[L + 1]) => board.block = Pre(L + 1, k)
    BY <1>6, <1>7, <1>8, PrefixIs DEF IsChecked
  <2> QED BY <1>10, <2>1, <2>2
<1>12. IsChecked(L + 1, k + 1, Append(board.block, c))
  BY <1>7, <1>8, <1>11, Checks
<1>13. L' = L /\ Len(board'.block) = k + 1 /\ Checked'
  <2>1. L' = L
    BY <1>5 DEF L
  <2>2. Len(board'.block) = k + 1
    BY <1>5, <1>12 DEF IsChecked
  <2>3. IsChecked(L' + 1, Len(board'.block), board'.block)
    BY <1>5, <1>12, <2>1, <2>2
  <2> QED BY <2>1, <2>2, <2>3 DEF Checked
<1>14. Place(J, P)'
  <2>1. L' = L /\ Len(board'.block) = k + 1 /\ Checked' /\ J[1] = L' + 1 /\ J[1] <= N /\ up' # <<>>
    BY <1>1, <1>7, <1>8, <1>9, <1>13
  <2>2. CASE k + 1 < BLOCK_SIZE
    <3>1. board'.pc = "data" /\ Len(board'.block) < BLOCK_SIZE /\ P[1] = Len(board'.block) + 4
      BY <1>5, <1>6, <1>8, <1>9, <1>13, <2>2
    <3> QED BY <2>1, <3>1 DEF Place
  <2>3. CASE ~(k + 1 < BLOCK_SIZE)
    <3>1. board'.pc = "sum" /\ Len(board'.block) = BLOCK_SIZE /\ P[1] = BLOCK_SIZE + 4
      BY <1>5, <1>6, <1>7, <1>8, <1>9, <1>13, <2>3
    <3> QED BY <2>1, <3>1 DEF Place
  <2> QED BY <2>2, <2>3
<1> QED BY <1>1, <1>2, <1>3, <1>4, <1>5, <1>14, KTaken

\* The sum is right, and the block is the one that was wanted.
LEMMA KAccepted ==
  ASSUME Records, up # <<>>, UNCHANGED host, upset' = {},
         NEW I, NEW O, Lay(up, I, O), During(I, O), I[1] = L + 1, L + 1 \in 1..N, O[1] = Len(Wire(I[1])),
         NEW J, NEW P, Lay(up', J, P), Rest(up, I, O, up', J, P),
         Load!Accepted, board.block = Image[L + 1]
  PROVE  KInv'
<1>1. /\ board' = [board EXCEPT !.pc = "header", !.number = (@ + 1) % BYTE,
                                !.buffer = Append(@, board.block)]
      /\ down' = down \o <<"ACK">>
  BY DEF Load!Accepted, Load!Says
<1>2. /\ board'.pc = "header" /\ board'.number = (board.number + 1) % BYTE
      /\ board'.buffer = Append(board.buffer, board.block)
      /\ board'.size = board.size /\ board'.line = board.line
      /\ DOMAIN board' = DOMAIN board
  BY <1>1 DEF Records
<1>3. IsSaid(down, "ACK", down')
  <2>1. Sequence(down)
    BY DEF Records
  <2> QED BY <1>1, <2>1, Said, Zenon
<1>4. Records'
  BY <1>2, <1>3 DEF Records, IsSaid
<1>5. L \in Nat /\ N \in Nat
  BY Domained, ImageIs DEF During, L
<1>6. /\ Sequence(board'.buffer) /\ Len(board'.buffer) = L + 1
      /\ \A j \in 1..L : board'.buffer[j] = board.buffer[j]
      /\ board'.buffer[L + 1] = Image[L + 1]
  BY <1>2, Appended DEF During, L
<1>7. L' = L + 1
  BY <1>6 DEF L
<1>8. \A j \in 1..(L + 1) : board'.buffer[j] = Image[j]
  <2>1. \A j \in 1..(L + 1) : j \in 1..L \/ j = L + 1
    BY <1>5
  <2> QED BY <1>6, <2>1 DEF During
<1>9. board'.number = (L' + 1) % BYTE
  <2>1. BYTE \in Nat \ {0} /\ L + 1 \in Nat
    BY <1>5, BringupAssumption
  <2>2. PICK r : r = (L + 1) % BYTE
    OBVIOUS
  <2>3. r \in 0..(BYTE - 1)
    BY <2>1, <2>2, Quotient
  <2>4. r % BYTE = r
    BY <2>1, <2>3
  <2>5. ((L + 1) + 1) % BYTE = IF r + 1 = BYTE THEN 0 ELSE r + 1
    BY <2>1, <2>2, Successor
  <2>6. (r + 1) % BYTE = IF (r % BYTE) + 1 = BYTE THEN 0 ELSE (r % BYTE) + 1
    <3>1. r \in Nat
      BY <2>1, <2>3
    <3> QED BY <2>1, <3>1, Successor
  <2> QED BY <1>2, <1>7, <2>2, <2>4, <2>5, <2>6 DEF During
<1>10. /\ Len(up) \in Nat /\ Len(up') \in Nat /\ (up = <<>> <=> Len(up) = 0) /\ (up' = <<>> <=> Len(up') = 0)
  BY IndexIs
<1>11. 1 \in 1..Len(up) /\ \A j \in 1..Len(up') : j + 1 \in 1..Len(up) /\ J[j] = I[j + 1] /\ J[j] >= L + 1
  BY <1>10 DEF Rest
<1>12. \A j \in 1..Len(up') : J[j] \in {L + 1, N + 2}
  <2> SUFFICES ASSUME NEW j \in 1..Len(up') PROVE J[j] \in {L + 1, N + 2}
    OBVIOUS
  <2>1. I[j + 1] \in {L, L + 1, N + 2} /\ J[j] = I[j + 1] /\ J[j] >= L + 1
    BY <1>11 DEF During
  <2> QED BY <1>5, <2>1
<1>13. up' # <<>> => P[1] = 1
  BY DEF Rest
<1>14. ASSUME host.st = "sent" /\ Sender(I) PROVE Sender(J)'
  <2>1. host.block = L + 1
    <3>1. I[1] <= host.block /\ host.block \in {L, L + 1}
      BY <1>11, <1>14 DEF Sender
    <3> QED BY <1>5, <3>1
  <2>2. \A j \in 1..Len(up') : J[j] <= host.block
    BY <1>11, <1>14 DEF Sender
  <2>3. \A j \in 1..Len(down) : down[j] # "ACK"
    <3>1. host.block # L
      BY <1>5, <2>1
    <3> QED BY <1>14, <3>1 DEF Sender
  <2>4. \A j \in 1..Len(down') : down'[j] = "ACK" => j = Len(down) + 1
    <3>1. \A j \in 1..Len(down') : j \in 1..Len(down) \/ j = Len(down) + 1
      BY <1>3 DEF IsSaid
    <3> QED BY <1>3, <2>3, <3>1 DEF IsSaid
  <2>5. Sender(J)'
    <3>1. host.block \in 1..(N + 1)
      BY <1>14 DEF Sender
    <3>2. \A j, k \in 1..Len(down') : down'[j] = "ACK" => host'.block = L' /\ (down'[k] = "ACK" => j = k)
      BY <1>7, <2>1, <2>4
    <3> QED BY <1>7, <1>14, <2>1, <2>2, <3>1, <3>2 DEF Sender
  <2> QED BY <2>5
<1>15. ASSUME host.st # "sent" /\ Sender(I) PROVE Sender(J)'
  <2>1. host.st = "command" /\ I[Len(up)] = N + 2
    BY <1>15 DEF Sender
  <2>2. up' # <<>>
    <3>1. I[1] # N + 2
      BY <1>5
    <3> QED BY <2>1, <3>1 DEF Rest
  <2>3. J[Len(up')] = N + 2
    BY <2>1, <2>2 DEF Rest
  <2> QED BY <2>1, <2>2, <2>3 DEF Sender
<1>16. During(J, P)'
  <2>1. Sender(J)'
    BY <1>14, <1>15 DEF During
  <2>2. board'.size = -1 /\ board'.line = <<>> /\ Sequence(board'.buffer) /\ L' <= N
    BY <1>2, <1>5, <1>6, <1>7 DEF During
  <2>3. Place(J, P)'
    BY <1>2 DEF Place
  <2> QED BY <1>7, <1>8, <1>9, <1>12, <1>13, <2>1, <2>2, <2>3 DEF During
<1> QED BY <1>4, <1>16 DEF KInv, Loading

LEMMA KSum ==
  ASSUME KInv, NEW c \in Byte, Load!xmodem_read_block(c), upset' = {}, board.pc = "sum"
  PROVE  KInv'
<1>1. PICK I, O : Lay(up, I, O) /\ During(I, O) /\ I[1] \in 1..N
                  /\ \E J, P : Lay(up', J, P) /\ Rest(up, I, O, up', J, P)
  BY KBytes, Zenon
<1>2. PICK J, P : Lay(up', J, P) /\ Rest(up, I, O, up', J, P)
  BY <1>1
<1>3. Records /\ up # <<>> /\ UNCHANGED host /\ ~Load!Twice(c)
  BY KBytes
<1>4. CASE c = Load!Sum(board.block)
  <2>1. Load!Accepted
    BY <1>4 DEF Load!xmodem_read_block, Load!serial_recv_byte
  <2>2. /\ I[1] = L + 1 /\ Len(board.block) = BLOCK_SIZE /\ O[1] = BLOCK_SIZE + 4
        /\ IsChecked(L + 1, BLOCK_SIZE, board.block)
    BY <1>1 DEF During, Place, Checked
  <2>3. L \in Nat /\ L + 1 \in 1..N
    BY <1>1, <2>2, Domained DEF During, L
  <2>4. IsBlock(L + 1, Wire(L + 1))
    BY <2>3, BlockIs, Zenon
  <2>5. Head(up).c = Load!Sum(Image[L + 1])
    <3>1. Head(up) = Wire(L + 1)[BLOCK_SIZE + 4]
      BY <1>1, <1>3, <2>2, HeaderIs
    <3>2. Wire(L + 1)[BLOCK_SIZE + 4] = [c |-> Load!Sum(Image[L + 1]), part |-> "sum"]
      BY <2>4, Zenon DEF IsBlock
    <3>3. Head(up) = [c |-> Load!Sum(Image[L + 1]), part |-> "sum"]
      BY <3>1, <3>2
    <3> QED BY <3>3
  <2>6. Image[L + 1] = Pre(L + 1, BLOCK_SIZE)
    <3>1. DOMAIN Image[L + 1] = 1..BLOCK_SIZE
      BY <2>3, ImageIs
    <3>2. Image[L + 1] \in [1..BLOCK_SIZE -> Byte]
      <4>1. Image \in Seq([1..BLOCK_SIZE -> Byte])
        BY BringupAssumption DEF Byte
      <4> QED BY <2>3, <4>1, ElementOfSeq DEF N
    <3>3. Image[L + 1] = [j \in 1..BLOCK_SIZE |-> Image[L + 1][j]]
      BY <3>2
    <3> QED BY <3>3 DEF Pre
  <2>7. board.block = Image[L + 1]
    <3>1. CASE c = Head(up).c
      BY <1>4, <2>2, <2>5, <2>6, <3>1 DEF IsChecked
    <3>2. CASE c # Head(up).c
      <4>1. Load!IsPrefix(board.block, Image[L + 1])
        BY <1>3, <2>3, <3>2 DEF Load!Twice, L, N, Load!serial_recv_byte, Load!xmodem_read_block
      <4> QED BY <2>2, <2>3, <2>6, <4>1, PrefixIs DEF IsChecked
    <3> QED BY <3>1, <3>2
  <2>8. O[1] = Len(Wire(I[1]))
    BY <2>2, <2>4 DEF IsBlock
  <2> QED BY <1>1, <1>2, <1>3, <2>1, <2>2, <2>3, <2>7, <2>8, KAccepted
<1>5. CASE c # Load!Sum(board.block)
  <2>1. Load!Refused
    BY <1>5 DEF Load!xmodem_read_block, Load!serial_recv_byte
  <2> QED BY <1>1, <1>2, <1>3, <2>1, KRefused
<1> QED BY <1>4, <1>5

LEMMA KBlock == ASSUME KInv, NEW c \in Byte, Load!xmodem_read_block(c) PROVE KInv'
<1> SUFFICES ASSUME upset' = {} PROVE KInv'
  BY DEF KInv
<1>1. board.pc \in {"number", "inverse", "data", "sum"}
  BY DEF Load!xmodem_read_block, Load!serial_recv_byte
<1> QED BY <1>1, KNumber, KInverse, KData, KSum

-----------------------------------------------------------------------------
(* The prompt.                                                             *)

\* After the transfer no block is read: the end of the file, and lines.
LineEnd(i, o) == (i = N + 2 /\ o = 4) \/ (i = N + 3 /\ o = 2)
LEMMA LineIs ==
  ASSUME NEW I, NEW O, Lay(up, I, O), up # <<>>, I[1] >= N + 1
  PROVE  /\ I[1] \in {N + 1, N + 2, N + 3}
         /\ LineEnd(I[1], O[1]) => O[1] = Len(Wire(I[1])) /\ Head(up).c = NEWLINE
         /\ ~LineEnd(I[1], O[1]) => Head(up).c \in {EOT, CAN, LOAD, RUN}
         /\ ~LineEnd(I[1], O[1]) /\ Head(up).c = RUN => I[1] = N + 3
         /\ I[1] = N + 2 /\ O[1] = 3 => Head(up).c = LOAD
         /\ I[1] = N + 3 /\ O[1] = 1 => Head(up).c = RUN
<1>1. /\ I[1] \in 1..(N + 3) /\ O[1] \in 1..Len(Wire(I[1])) /\ Head(up) = Wire(I[1])[O[1]]
  BY HeaderIs
<1>2. N \in Nat
  BY ImageIs
<1>3. RUN \notin {EOT, CAN, LOAD}
  BY BringupAssumption
<1>4. I[1] = N + 1 \/ I[1] = N + 2 \/ I[1] = N + 3
  BY <1>1, <1>2
<1>5. PICK x : x = Head(up)
  OBVIOUS
<1>6. PICK i : i = I[1]
  OBVIOUS
<1>7. PICK m : m = O[1]
  OBVIOUS
<1>8. i # N + 2 => ~(i = N + 2)
  OBVIOUS
<1>9. ASSUME i = N + 1 PROVE m = 1 /\ x.c = EOT
  <2>1. Len(Wire(N + 1)) = 1 /\ Wire(N + 1)[1].c = EOT
    BY OthersAre
  <2>2. m \in 1..1 /\ x = Wire(N + 1)[m]
    BY <1>1, <1>5, <1>6, <1>7, <1>9, <2>1
  <2>3. m = 1
    BY <2>2
  <2> QED BY <2>1, <2>2, <2>3
<1>10. ASSUME i = N + 2
       PROVE  Len(Wire(i)) = 4 /\ \/ m = 1 /\ x.c = CAN
                                  \/ m = 2 /\ x.c = CAN
                                  \/ m = 3 /\ x.c = LOAD
                                  \/ m = 4 /\ x.c = NEWLINE
  <2>1. /\ Len(Wire(N + 2)) = 4 /\ Wire(N + 2)[1].c = CAN /\ Wire(N + 2)[2].c = CAN
        /\ Wire(N + 2)[3].c = LOAD /\ Wire(N + 2)[4].c = NEWLINE
    BY OthersAre
  <2>2. m \in 1..4 /\ x = Wire(N + 2)[m]
    BY <1>1, <1>5, <1>6, <1>7, <1>10, <2>1
  <2>3. m = 1 \/ m = 2 \/ m = 3 \/ m = 4
    BY <2>2
  <2> QED BY <1>10, <2>1, <2>2, <2>3
<1>11. ASSUME i = N + 3
       PROVE  Len(Wire(i)) = 2 /\ \/ m = 1 /\ x.c = RUN
                                  \/ m = 2 /\ x.c = NEWLINE
  <2>1. /\ Len(Wire(N + 3)) = 2 /\ Wire(N + 3)[1].c = RUN /\ Wire(N + 3)[2].c = NEWLINE
    BY OthersAre
  <2>2. m \in 1..2 /\ x = Wire(N + 3)[m]
    BY <1>1, <1>5, <1>6, <1>7, <1>11, <2>1
  <2>3. m = 1 \/ m = 2
    BY <2>2
  <2> QED BY <1>11, <2>1, <2>2, <2>3
<1>12. N + 1 # N + 2 /\ N + 1 # N + 3 /\ N + 2 # N + 3
  BY <1>2
<1>13. /\ LineEnd(i, m) => m = Len(Wire(i)) /\ x.c = NEWLINE
       /\ ~LineEnd(i, m) => x.c \in {EOT, CAN, LOAD, RUN}
       /\ ~LineEnd(i, m) /\ x.c = RUN => i = N + 3
       /\ i = N + 2 /\ m = 3 => x.c = LOAD
       /\ i = N + 3 /\ m = 1 => x.c = RUN
  <2>1. CASE i = N + 1
    BY <1>3, <1>9, <1>12, <2>1 DEF LineEnd
  <2>2. CASE i = N + 2
    <3>1. CASE m = 4
      <4>1. x.c = NEWLINE /\ Len(Wire(i)) = 4 /\ LineEnd(i, m)
        BY <1>10, <2>2, <3>1 DEF LineEnd
      <4>2. m # 3 /\ ~(i = N + 3)
        BY <1>12, <2>2, <3>1
      <4> QED BY <3>1, <4>1, <4>2
    <3>2. CASE m # 4
      <4>1. ~LineEnd(i, m) /\ ~(i = N + 3)
        BY <1>12, <2>2, <3>2 DEF LineEnd
      <4>2. x.c \in {CAN, LOAD} /\ (m = 3 => x.c = LOAD)
        BY <1>10, <2>2, <3>2
      <4> QED BY <1>3, <4>1, <4>2
    <3> QED BY <3>1, <3>2
  <2>3. CASE i = N + 3
    BY <1>3, <1>11, <1>12, <2>3 DEF LineEnd
  <2> QED BY <1>4, <1>6, <2>1, <2>2, <2>3
<1> QED BY <1>4, <1>5, <1>6, <1>7, <1>13

LEMMA KElf == ASSUME KInv, Load!elf_load PROVE KInv'
<1> SUFFICES ASSUME upset' = {} PROVE KInv'
  BY DEF KInv
<1>1. /\ board.pc = "elf_load" /\ UNCHANGED <<up, host, upset>>
      /\ board' = [board EXCEPT !.pc = IF Load!elf_check THEN "started" ELSE "gets"]
      /\ down' = down \o <<"text">>
  BY DEF Load!elf_load, Load!Says
<1>2. Records
  BY <1>1 DEF KInv
<1>3. PICK I, O : Lay(up, I, O) /\ After(I, O)
  BY <1>1 DEF KInv, Before, Loading, During, Place
<1>4. IsSaid(down, "text", down')
  <2>1. Sequence(down)
    BY <1>2 DEF Records
  <2> QED BY <1>1, <2>1, Said, Zenon
<1>5. /\ board'.pc \in {"started", "gets"} /\ board'.buffer = board.buffer
      /\ board'.line = board.line
  BY <1>1, <1>2 DEF Records
<1>6. Load!Whole
  BY <1>1, <1>3 DEF After
<1>7. host.st = "request" => \A j \in 1..Len(down') : down'[j] # "NAK"
  <2>1. \A j \in 1..Len(down') : j \in 1..Len(down) \/ j = Len(down) + 1
    BY <1>4 DEF IsSaid
  <2> QED BY <1>3, <1>4, <2>1 DEF After, IsSaid
<1>8. After(I, O)'
  BY <1>1, <1>3, <1>5, <1>6, <1>7 DEF After, Load!Whole
<1>9. Records'
  BY <1>1, <1>2, <1>4 DEF Records, IsSaid
<1> QED BY <1>1, <1>3, <1>8, <1>9 DEF KInv, Loading

\* A character at the prompt.
LEMMA KTyped ==
  ASSUME Records, up # <<>>, up' = Tail(up), UNCHANGED host, upset' = {},
         NEW I, NEW O, Lay(up, I, O), After(I, O), board.pc = "gets",
         NEW c, c = Head(up).c, c # NEWLINE,
         board' = [board EXCEPT !.line = IF Len(@) < 2 THEN Append(@, c) ELSE @],
         down' = down \o <<"text">>
  PROVE  KInv'
<1>1. PICK J, P : Lay(up', J, P) /\ Rest(up, I, O, up', J, P)
  BY Reads, Zenon
<1>2. IsSaid(down, "text", down')
  <2>1. Sequence(down)
    BY DEF Records
  <2> QED BY <2>1, Said, Zenon
<1>3. host.st = "request" => \A j \in 1..Len(down') : down'[j] # "NAK"
  <2>1. \A j \in 1..Len(down') : j \in 1..Len(down) \/ j = Len(down) + 1
    BY <1>2 DEF IsSaid
  <2> QED BY <1>2, <2>1 DEF After, IsSaid
<1>4. /\ board'.pc = board.pc /\ board'.buffer = board.buffer /\ board'.size = board.size
      /\ board'.line = IF Len(board.line) < 2 THEN Append(board.line, c) ELSE board.line
      /\ DOMAIN board' = DOMAIN board
  BY DEF Records
<1>5. /\ Len(up) \in Nat /\ Len(up') \in Nat /\ (up = <<>> <=> Len(up) = 0) /\ (up' = <<>> <=> Len(up') = 0)
      /\ N \in Nat
  <2>1. Len(up) \in Nat /\ (up = <<>> <=> Len(up) = 0) /\ N \in Nat
    BY IndexIs, Zenon
  <2>2. Len(up') \in Nat /\ (up' = <<>> <=> Len(up') = 0)
    BY <1>1, IndexIs, Zenon
  <2> QED BY <2>1, <2>2
<1>6. 1 \in 1..Len(up) /\ \A j \in 1..Len(up') : j + 1 \in 1..Len(up) /\ J[j] = I[j + 1]
  BY <1>1, <1>5 DEF Rest
<1>7. I[1] >= N + 1
  BY <1>6 DEF After
<1>8. /\ ~LineEnd(I[1], O[1])
      /\ c = RUN => I[1] = N + 3
      /\ I[1] = N + 2 /\ O[1] = 3 => c = LOAD
      /\ I[1] = N + 3 /\ O[1] = 1 => c = RUN
  BY <1>7, LineIs
<1>9. PICK l : l = board.line
  OBVIOUS
<1>10. PICK n : n = board'.line
  OBVIOUS
<1>11. Sequence(l) /\ Len(l) \in Nat
  BY <1>9, Domained DEF After
<1>12. \/ Len(l) < 2 /\ n = Append(l, c) /\ Sequence(n) /\ Len(n) = Len(l) + 1 /\ n[Len(l) + 1] = c
          /\ (Len(l) = 1 => n[1] = l[1])
       \/ Len(l) >= 2 /\ n = l
  <2>1. CASE Len(l) < 2
    <3>1. n = Append(l, c)
      BY <1>4, <1>9, <1>10, <2>1
    <3> QED BY <1>11, <2>1, <3>1, Appended
  <2>2. CASE Len(l) >= 2
    BY <1>4, <1>9, <1>10, <1>11, <2>2
  <2> QED BY <1>11, <2>1, <2>2
<1>13. Sequence(n) /\ n # <<>>
  <2>1. Len(n) \in Nat /\ Len(n) # 0 /\ Sequence(n)
    BY <1>11, <1>12
  <2>2. Len(<<>>) = 0
    OBVIOUS
  <2> QED BY <2>1, <2>2
<1>14. ASSUME NEW x, n = <<x>> PROVE x = c /\ l = <<>>
  <2>1. Len(n) = 1 /\ n[1] = x
    BY <1>14
  <2>2. Len(l) = 0 /\ n[Len(l) + 1] = c
    <3>3. PICK a, b : a = Len(l) /\ b = Len(n)
      OBVIOUS
    <3>4. a \in Nat /\ b = 1
      BY <1>11, <2>1, <3>3
    <3>1. CASE Len(l) < 2 /\ Len(n) = Len(l) + 1 /\ n[Len(l) + 1] = c
      <4>1. b = a + 1
        BY <3>1, <3>3
      <4>2. a = 0
        BY <3>4, <4>1
      <4> QED BY <3>1, <3>3, <4>2
    <3>2. CASE Len(l) >= 2 /\ n = l
      <4>1. a >= 2 /\ a = b
        BY <3>2, <3>3
      <4> QED BY <3>4, <4>1
    <3> QED BY <1>12, <3>1, <3>2
  <2>3. l = <<>>
    BY <1>11, <2>2, EmptySeq DEF Sequence
  <2>4. n[1] = c
    BY <2>2
  <2> QED BY <2>1, <2>3, <2>4
<1>15. n = <<RUN>> => host.st = "run"
  <2>1. n = <<RUN>> => I[1] = N + 3
    BY <1>8, <1>14
  <2> QED BY <1>6, <2>1 DEF After
<1>16. up' # <<>> /\ LineEnd(J[1], P[1]) => n # <<LOAD>>
  <2> SUFFICES ASSUME up' # <<>>, LineEnd(J[1], P[1]), n = <<LOAD>> PROVE FALSE
    OBVIOUS
  <2>1. P[1] # 1
    BY DEF LineEnd
  <2>2. J[1] = I[1] /\ P[1] = O[1] + 1
    BY <1>1, <2>1 DEF Rest
  <2>3. O[1] \in Nat
    <3>1. O[1] \in 1..Len(Wire(I[1])) /\ I[1] \in 1..(N + 3)
      BY HeaderIs
    <3> QED BY <3>1
  <2>4. (I[1] = N + 2 /\ O[1] = 3) \/ (I[1] = N + 3 /\ O[1] = 1)
    BY <2>2, <2>3 DEF LineEnd
  <2>5. c = LOAD /\ l = <<>>
    BY <1>14
  <2>6. LOAD # RUN
    BY BringupAssumption
  <2>7. I[1] = N + 2 /\ O[1] = 3
    BY <1>8, <2>4, <2>5, <2>6
  <2> QED BY <1>9, <2>5, <2>7 DEF After
<1>17. \A j \in 1..Len(up') : J[j] >= N + 1 /\ (J[j] = N + 3 => host.st = "run")
  BY <1>6 DEF After
<1>18. host.st = "sent" => host.block = N + 1 /\ \A j \in 1..Len(up') : J[j] <= N + 1
  BY <1>6 DEF After
<1>19. board.size >= 0 \/ board.pc # "gets" \/ host.st \in {"sent", "run"} => Load!Whole
  BY DEF After
<1>20. After(J, P)'
  BY <1>3, <1>4, <1>10, <1>13, <1>15, <1>16, <1>17, <1>18, <1>19 DEF After, Load!Whole, LineEnd
<1>21. Records'
  BY <1>2, <1>4 DEF Records, IsSaid
<1> QED BY <1>1, <1>20, <1>21 DEF KInv, Loading

\* The command load, or the end of its line.
LEMMA LoadIs ==
  /\ Load!Typed(LOAD) # <<>> /\ Head(Load!Typed(LOAD)).c = LOAD
  /\ Tail(Load!Typed(LOAD)) # <<>> /\ Head(Tail(Load!Typed(LOAD))).c = NEWLINE
  /\ Tail(Tail(Load!Typed(LOAD))) = <<>>
BY DEF Load!Typed

LEMMA KGets == ASSUME KInv, NEW c, Load!gets(c) PROVE KInv'
<1> SUFFICES ASSUME upset' = {} PROVE KInv'
  BY DEF KInv
<1>1. /\ board.pc = "gets" /\ up # <<>> /\ up' = Tail(up) /\ UNCHANGED <<host, upset>>
      /\ c = Head(up).c /\ c # NEWLINE
      /\ board' = [board EXCEPT !.line = IF Len(@) < 2 THEN Append(@, c) ELSE @]
      /\ down' = down \o <<"text">>
  BY DEF Load!gets, Load!Says, Load!serial_recv_byte
<1>2. Records
  BY <1>1 DEF KInv
<1>3. CASE Before
  <2>1. up = Load!Typed(LOAD) /\ board.line = <<>> /\ c = LOAD
    <3>1. ~(up = Tail(Load!Typed(LOAD)))
      BY <1>1, LoadIs
    <3> QED BY <1>1, <1>3, <3>1, LoadIs DEF Before
  <2>2. board'.line = <<LOAD>>
    <3>1. Len(board.line) < 2 /\ Append(board.line, c) = <<LOAD>>
      BY <2>1
    <3> QED BY <1>1, <1>2, <3>1 DEF Records
  <2>3. Before'
    BY <1>1, <1>2, <1>3, <2>1, <2>2 DEF Before, Records
  <2>4. Records'
    <3>1. IsSaid(down, "text", down')
      <4>1. Sequence(down)
        BY <1>2 DEF Records
      <4> QED BY <1>1, <4>1, Said, Zenon
    <3> QED BY <1>1, <1>2, <3>1 DEF Records, IsSaid
  <2> QED BY <2>3, <2>4 DEF KInv
<1>4. CASE ~Before
  <2>1. PICK I, O : Lay(up, I, O) /\ After(I, O)
    BY <1>1, <1>4 DEF KInv, Loading, During, Place
  <2> QED BY <1>1, <1>2, <2>1, KTyped
<1> QED BY <1>3, <1>4

LEMMA Reduced ==
  ASSUME NEW b \in Nat \ {0}, NEW r \in 0..(b - 1)
  PROVE  r % b = r
<1>1. PICK q \in Int : \E s \in 0..(b - 1) : s = r % b /\ r = b * q + s
  <2>1. r \in Nat
    OBVIOUS
  <2> QED BY <2>1, Quotient
<1>2. PICK s \in 0..(b - 1) : s = r % b /\ r = b * q + s
  BY <1>1
<1>3. 0 \in Int /\ b * 0 = 0 /\ b * q + s = b * 0 + r
  BY <1>2
<1>4. ~(q > 0)
  BY <1>3, NotLess
<1>5. ~(0 > q)
  BY <1>3, NotLess
<1>6. q = 0
  BY <1>4, <1>5
<1> QED BY <1>2, <1>3, <1>6

\* load begins the only transfer.
LEMMA KLoad ==
  ASSUME Records, Before, up # <<>>, Head(up).c = NEWLINE, up' = Tail(up), UNCHANGED host, upset' = {},
         board.line = <<LOAD>> => board' = [Load!Prompt EXCEPT !.pc = "header", !.size = board.size],
         down' = down \o <<"text">>
  PROVE  KInv'
<1>1. up = Tail(Load!Typed(LOAD)) /\ board.line = <<LOAD>>
  <2>1. NEWLINE # LOAD
    BY BringupAssumption
  <2> QED BY <2>1, LoadIs DEF Before
<1>2. up' = <<>>
  BY <1>1, LoadIs
<1>3. /\ board'.pc = "header" /\ board'.size = -1 /\ board'.line = <<>> /\ board'.buffer = <<>>
      /\ board'.number = 1 /\ ~board'.receiving /\ DOMAIN board' = DOMAIN board
  BY <1>1 DEF Before, Load!Prompt, Records
<1>4. Records'
  <2>1. IsSaid(down, "text", down')
    <3>1. Sequence(down)
      BY DEF Records
    <3> QED BY <3>1, Said, Zenon
  <2> QED BY <1>3, <2>1 DEF Records, IsSaid
<1>5. PICK I, O : I = <<>> /\ O = <<>>
  OBVIOUS
<1>6. Lay(up', I, O)
  <2>1. Sequence(up') /\ Len(up') = 0
    <3>1. Len(<<>>) = 0
      OBVIOUS
    <3> QED BY <1>2, <3>1, Emptied, Zenon
  <2>2. \A j : j \notin 1..Len(up')
    <3>1. \A j : j \notin 1..0
      OBVIOUS
    <3> QED BY <2>1, <3>1, Zenon
  <2> QED BY <2>1, <2>2, Zenon DEF Lay
<1>7. L' = 0 /\ Sequence(board'.buffer) /\ N \in Nat /\ 1 % BYTE = 1
  <2>1. BYTE \in Nat \ {0, 1}
    BY BringupAssumption
  <2>2. 1 % BYTE = 1
    <3>1. PICK r : r = 1
      OBVIOUS
    <3>2. r \in 0..(BYTE - 1)
      BY <2>1, <3>1
    <3>4. BYTE \in Nat \ {0}
      BY <2>1
    <3>3. r % BYTE = r
      BY <3>2, <3>4, Reduced
    <3> QED BY <3>1, <3>3
  <2> QED BY <1>3, <2>2, Emptied, ImageIs DEF L
<1>8. During(I, O)'
  <2>1. Place(I, O)'
    BY <1>3 DEF Place
  <2>2. Sender(I)'
    BY <1>2, <1>3, <1>7 DEF Sender, Before
  <2>3. board'.number = (L' + 1) % BYTE
    BY <1>3, <1>7
  <2>4. Len(up') = 0
    <3>1. Len(<<>>) = 0
      OBVIOUS
    <3> QED BY <1>2, <3>1, Zenon
  <2> QED BY <1>2, <1>3, <1>7, <2>1, <2>2, <2>3, <2>4 DEF During
<1> QED BY <1>4, <1>6, <1>8 DEF KInv, Loading

\* Any other line.
LEMMA KLine ==
  ASSUME Records, up # <<>>, up' = Tail(up), UNCHANGED host, upset' = {},
         NEW I, NEW O, Lay(up, I, O), After(I, O), board.pc = "gets", Head(up).c = NEWLINE,
         board.line = <<RUN>> /\ board.line # <<LOAD>> => board' = [board EXCEPT !.pc = "elf_load", !.line = <<>>],
         board.line # <<RUN>> /\ board.line # <<LOAD>> => board' = [board EXCEPT !.line = <<>>],
         down' = down \o <<"text">>
  PROVE  KInv'
<1>1. PICK J, P : Lay(up', J, P) /\ Rest(up, I, O, up', J, P)
  BY Reads, Zenon
<1>2. IsSaid(down, "text", down')
  <2>1. Sequence(down)
    BY DEF Records
  <2> QED BY <2>1, Said, Zenon
<1>3. host.st = "request" => \A j \in 1..Len(down') : down'[j] # "NAK"
  <2>1. \A j \in 1..Len(down') : j \in 1..Len(down) \/ j = Len(down) + 1
    BY <1>2 DEF IsSaid
  <2> QED BY <1>2, <2>1 DEF After, IsSaid
<1>4. /\ Len(up) \in Nat /\ Len(up') \in Nat /\ (up = <<>> <=> Len(up) = 0) /\ (up' = <<>> <=> Len(up') = 0)
      /\ N \in Nat
  <2>1. Len(up) \in Nat /\ (up = <<>> <=> Len(up) = 0) /\ N \in Nat
    BY IndexIs, Zenon
  <2>2. Len(up') \in Nat /\ (up' = <<>> <=> Len(up') = 0)
    BY <1>1, IndexIs, Zenon
  <2> QED BY <2>1, <2>2
<1>5. 1 \in 1..Len(up) /\ \A j \in 1..Len(up') : j + 1 \in 1..Len(up) /\ J[j] = I[j + 1]
  BY <1>1, <1>4 DEF Rest
<1>6. I[1] >= N + 1
  BY <1>5 DEF After
<1>7. LineEnd(I[1], O[1]) /\ O[1] = Len(Wire(I[1]))
  <2>1. NEWLINE \notin {EOT, CAN, LOAD, RUN}
    BY BringupAssumption
  <2> QED BY <1>6, <2>1, LineIs
<1>8. board.line # <<LOAD>>
  BY <1>7 DEF After, LineEnd
<1>9. /\ board'.pc = (IF board.line = <<RUN>> THEN "elf_load" ELSE "gets") /\ board'.line = <<>>
      /\ board'.buffer = board.buffer /\ board'.size = board.size /\ DOMAIN board' = DOMAIN board
  <2>1. CASE board.line = <<RUN>>
    <3>1. board' = [board EXCEPT !.pc = "elf_load", !.line = <<>>]
      BY <1>8, <2>1
    <3> QED BY <2>1, <3>1 DEF Records
  <2>2. CASE board.line # <<RUN>>
    <3>1. board' = [board EXCEPT !.line = <<>>]
      BY <1>8, <2>2
    <3> QED BY <2>2, <3>1 DEF Records
  <2> QED BY <2>1, <2>2
<1>10. board'.size >= 0 \/ board'.pc # "gets" \/ host.st \in {"sent", "run"} => Load!Whole
  BY <1>9 DEF After
<1>11. up' # <<>> => P[1] = 1
  BY <1>1, <1>7 DEF Rest
<1>12. \A j \in 1..Len(up') : J[j] >= N + 1 /\ (J[j] = N + 3 => host.st = "run")
  BY <1>5 DEF After
<1>13. host.st = "sent" => host.block = N + 1 /\ \A j \in 1..Len(up') : J[j] <= N + 1
  BY <1>5 DEF After
<1>14. Sequence(board'.line) /\ board'.line # <<RUN>> /\ board'.line # <<LOAD>>
  BY <1>9, Emptied
<1>15. After(J, P)'
  BY <1>3, <1>9, <1>10, <1>11, <1>12, <1>13, <1>14 DEF After, Load!Whole
<1>16. Records'
  BY <1>2, <1>9 DEF Records, IsSaid
<1> QED BY <1>1, <1>15, <1>16 DEF KInv, Loading

LEMMA KMain == ASSUME KInv, Load!main PROVE KInv'
<1> SUFFICES ASSUME upset' = {} PROVE KInv'
  BY DEF KInv
<1>1. /\ board.pc = "gets" /\ up # <<>> /\ up' = Tail(up) /\ UNCHANGED <<host, upset>>
      /\ Head(up).c = NEWLINE /\ down' = down \o <<"text">>
  BY DEF Load!main, Load!Says, Load!serial_recv_byte
<1>2. <<LOAD>> # <<RUN>>
  <2>1. LOAD # RUN
    BY BringupAssumption
  <2>2. <<LOAD>>[1] = LOAD /\ <<RUN>>[1] = RUN
    OBVIOUS
  <2> QED BY <2>1, <2>2
<1>3. /\ board.line = <<LOAD>> => board' = [Load!Prompt EXCEPT !.pc = "header", !.size = board.size]
      /\ board.line = <<RUN>> /\ board.line # <<LOAD>> => board' = [board EXCEPT !.pc = "elf_load", !.line = <<>>]
      /\ board.line # <<RUN>> /\ board.line # <<LOAD>> => board' = [board EXCEPT !.line = <<>>]
  BY <1>2 DEF Load!main
<1>4. Records
  BY <1>1 DEF KInv
<1>5. CASE Before
  BY <1>1, <1>3, <1>4, <1>5, KLoad
<1>6. CASE ~Before
  <2>1. PICK I, O : Lay(up, I, O) /\ After(I, O)
    BY <1>1, <1>6 DEF KInv, Loading, During, Place
  <2> QED BY <1>1, <1>3, <1>4, <2>1, KLine
<1> QED BY <1>5, <1>6

-----------------------------------------------------------------------------
(* The host.                                                               *)

LEMMA Puts ==
  ASSUME NEW I, NEW O, Lay(up, I, O), NEW i \in 1..(N + 3), \A j \in 1..Len(up) : I[j] <= i,
         up' = up \o Wire(i)
  PROVE  \E J, P : Lay(up', J, P) /\ Put(up, I, O, up', J, P, i)
<1>1. PICK v : v = up \o Wire(i)
  OBVIOUS
<1>2. IsLayPut(up, I, O, v, i)
  BY <1>1, LayPut, Zenon
<1>3. PICK J, P : Lay(v, J, P) /\ Put(up, I, O, v, J, P, i)
  BY <1>2, Zenon DEF IsLayPut
<1> QED BY <1>1, <1>3

\* The first of what the board says is taken, or nothing.
Fewer(d, e, s) ==
  /\ Sequence(e) /\ Len(d) \in Nat /\ s \in {0, 1}
  /\ \A j \in 1..Len(e) : j + s \in 1..Len(d) /\ e[j] = d[j + s]

LEMMA Takes ==
  ASSUME NEW d, Sequence(d), d # <<>>
  PROVE  Fewer(d, Tail(d), 1) /\ 1 \in 1..Len(d) /\ Head(d) = d[1]
<1>1. PICK e : e = Tail(d)
  OBVIOUS
<1>2. /\ Sequence(e) /\ Len(d) \in Nat \ {0} /\ Len(e) = Len(d) - 1
      /\ \A k \in 1..Len(e) : e[k] = d[k + 1]
      /\ Head(d) = d[1]
  BY <1>1, Tailed
<1>3. \A j \in 1..Len(e) : j + 1 \in 1..Len(d)
  BY <1>2
<1> QED BY <1>1, <1>2, <1>3 DEF Fewer

LEMMA Leaves == ASSUME NEW d, Sequence(d) PROVE Fewer(d, d, 0)
BY Domained DEF Fewer

LEMMA Hears ==
  ASSUME Records, NEW a, Load!Answer(a), upset' = {}
  PROVE  /\ upset = {}
         /\ \E s \in {0, 1} : /\ Fewer(down, down', s)
                              /\ a # "none" => s = 1 /\ 1 \in 1..Len(down) /\ a = down[1]
<1>1. Sequence(down)
  BY DEF Records
<1>2. CASE a = "none"
  <2>1. down' = down /\ upset' = upset
    BY <1>2 DEF Load!Answer
  <2>2. Fewer(down, down', 0)
    BY <1>1, <2>1, Leaves
  <2> QED BY <1>2, <2>1, <2>2
<1>3. CASE a # "none"
  <2>1. down # <<>> /\ down' = Tail(down) /\ a = Head(down) /\ upset' = upset
    <3>1. "answer" \in upset \cup {"answer"}
      OBVIOUS
    <3> QED BY <1>3, <3>1 DEF Load!Answer
  <2>2. Fewer(down, down', 1) /\ 1 \in 1..Len(down) /\ Head(down) = down[1]
    BY <1>1, <2>1, Takes
  <2> QED BY <2>1, <2>2
<1> QED BY <1>2, <1>3

LEMMA KTransfer == ASSUME KInv, Load!transfer PROVE KInv'
<1> SUFFICES ASSUME upset' = {} PROVE KInv'
  BY DEF KInv
<1>1. /\ host.st = "command" /\ up = <<>> /\ down' = <<>> /\ UNCHANGED <<up, board, upset>>
      /\ host' = [host EXCEPT !.st = "request"]
  BY DEF Load!transfer
<1>2. Records
  BY <1>1 DEF KInv
<1>3. host'.st = "request" /\ host'.block = host.block /\ DOMAIN host' = DOMAIN host
  BY <1>1, <1>2 DEF Records
<1>4. \A j : j \notin 1..Len(down')
  <2>1. Len(<<>>) = 0 /\ \A j : j \notin 1..0
    OBVIOUS
  <2> QED BY <1>1, <2>1, Zenon
<1>5. Records'
  BY <1>1, <1>2, <1>3, Emptied DEF Records
<1>6. PICK I, O : Lay(up, I, O) /\ (During(I, O) \/ After(I, O))
  BY <1>1, LoadIs DEF KInv, Before, Loading
<1>7. ASSUME During(I, O) PROVE During(I, O)'
  <2>1. Sender(I)'
    <3>1. Sender(I)
      BY <1>7 DEF During
    <3> QED BY <1>1, <1>3, <1>4, <3>1 DEF Sender, L
  <2> QED BY <1>1, <1>7, <2>1 DEF During, Place, Checked, L
<1>8. ASSUME After(I, O) PROVE After(I, O)'
  BY <1>1, <1>3, <1>4, <1>8 DEF After, Load!Whole
<1> QED BY <1>1, <1>5, <1>6, <1>7, <1>8 DEF KInv, Loading

LEMMA SendsIs ==
  ASSUME NEW k \in 1..(N + 1), Load!Sends(k)
  PROVE  up' = up \o Wire(k)
<1>1. N \in Nat /\ N = Len(Image)
  BY ImageIs DEF N
<1>2. CASE k <= N
  BY <1>1, <1>2 DEF Load!Sends, Wire
<1>3. CASE k = N + 1
  BY <1>1, <1>3 DEF Load!Sends, Wire, Ending
<1> QED BY <1>1, <1>2, <1>3

\* A block is sent during a transfer: the one the board wants, or the one before again.
LEMMA KSends ==
  ASSUME Records', upset' = {}, UNCHANGED board,
         NEW I, NEW O, Lay(up, I, O), During(I, O),
         host'.st = "sent", host'.block \in 1..(N + 1), host'.block \in {L, L + 1},
         \A j \in 1..Len(up) : I[j] <= host'.block, up' = up \o Wire(host'.block),
         \A j, k \in 1..Len(down') : down'[j] = "ACK" => host'.block = L /\ (down'[k] = "ACK" => j = k)
  PROVE  KInv'
<1>0. N \in Nat
  BY ImageIs
<1>1. PICK i : i = host'.block
  OBVIOUS
<1>2. i \in 1..(N + 3) /\ i <= N + 1
  BY <1>0, <1>1
<1>3. PICK J, P : Lay(up', J, P) /\ Put(up, I, O, up', J, P, i)
  <2>1. up' = up \o Wire(i) /\ \A j \in 1..Len(up) : I[j] <= i
    BY <1>1
  <2> QED BY <1>2, <2>1, Puts
<1>4. \A j \in 1..Len(up') : (j \in 1..Len(up) /\ J[j] = I[j] /\ P[j] = O[j]) \/ J[j] = i
  BY <1>3 DEF Put
<1>5. 1 \in 1..Len(up') /\ (up # <<>> => 1 \in 1..Len(up))
  <2>1. Len(up) \in Nat /\ (up = <<>> <=> Len(up) = 0)
    BY IndexIs, Zenon
  <2> QED BY <1>3, <2>1 DEF Put
<1>6. \A j \in 1..Len(up') : J[j] <= i
  BY <1>1, <1>2, <1>4
<1>7. \A j \in 1..Len(up') : J[j] \in {L, L + 1, N + 2}
  BY <1>1, <1>4 DEF During
<1>8. J[1] # N + 2
  <2>1. J[1] <= i
    BY <1>5, <1>6
  <2> QED BY <1>0, <1>2, <2>1
<1>9. up # <<>> => J[1] = I[1] /\ P[1] = O[1] /\ up' # <<>>
  BY <1>3, <1>5 DEF Put
<1>10. Place(J, P)'
  BY <1>9 DEF During, Place, Checked, L
<1>11. Sender(J)'
  BY <1>1, <1>6 DEF Sender, L
<1>12. During(J, P)'
  BY <1>7, <1>8, <1>10, <1>11 DEF During, L
<1> QED BY <1>3, <1>12 DEF KInv, Loading

\* After it the end of the file is sent again, the sender gives up, or the command run goes out.
LEMMA KLater ==
  ASSUME Records', upset' = {}, UNCHANGED board,
         NEW I, NEW O, Lay(up, I, O), After(I, O),
         NEW i \in {N + 1, N + 2, N + 3}, \A j \in 1..Len(up) : I[j] <= i, up' = up \o Wire(i),
         host'.st \in {"sent", "command", "run"},
         host'.st = "sent" => i = N + 1 /\ host'.block = N + 1,
         host'.st \in {"sent", "run"} => host.st = "sent",
         i = N + 3 <=> host'.st = "run", host.st # "run"
  PROVE  KInv'
<1>0. N \in Nat
  BY ImageIs
<1>1. PICK J, P : Lay(up', J, P) /\ Put(up, I, O, up', J, P, i)
  <2>1. i \in 1..(N + 3)
    BY <1>0
  <2> QED BY <2>1, Puts
<1>2. \A j \in 1..Len(up') : (j \in 1..Len(up) /\ J[j] = I[j] /\ P[j] = O[j]) \/ J[j] = i
  BY <1>1 DEF Put
<1>3. \A j \in 1..Len(up) : I[j] >= N + 1 /\ I[j] # N + 3
  BY DEF After
<1>4. \A j \in 1..Len(up') : J[j] >= N + 1 /\ (J[j] = N + 3 => host'.st = "run")
  BY <1>0, <1>2, <1>3
<1>5. host'.st = "sent" => \A j \in 1..Len(up') : J[j] <= N + 1
  BY <1>0, <1>2
<1>6. (up # <<>> => up # <<>> /\ J[1] = I[1] /\ P[1] = O[1]) /\ (up = <<>> => P[1] = 1)
  <2>1. Len(up) \in Nat /\ (up = <<>> <=> Len(up) = 0)
    BY IndexIs, Zenon
  <2>2. CASE up = <<>>
    <3>1. Len(up) + 1 = 1
      BY <2>1, <2>2
    <3> QED BY <1>1, <2>2, <3>1 DEF Put
  <2>3. CASE up # <<>>
    <3>1. 1 \in 1..Len(up)
      BY <2>1, <2>3
    <3> QED BY <1>1, <2>3, <3>1 DEF Put
  <2> QED BY <2>2, <2>3
<1>7. up' # <<>> /\ J[1] = N + 2 /\ P[1] = 3 => board.line # <<>>
  BY <1>6 DEF After
<1>8. up' # <<>> /\ ((J[1] = N + 2 /\ P[1] = 4) \/ (J[1] = N + 3 /\ P[1] = 2)) => board.line # <<LOAD>>
  BY <1>6 DEF After
<1>9. After(J, P)'
  BY <1>4, <1>5, <1>7, <1>8 DEF After, Load!Whole
<1> QED BY <1>1, <1>9 DEF KInv, Loading

LEMMA KAnswered == ASSUME KInv, NEW a, Load!answered(a) PROVE KInv'
<1> SUFFICES ASSUME upset' = {} PROVE KInv'
  BY DEF KInv
<1>1. /\ host.st \in {"request", "sent"} /\ a = Load!Awaited /\ Load!Answer(a) /\ UNCHANGED board
      /\ host.block = N + 1 => host' = [host EXCEPT !.st = "run"] /\ up' = up \o Load!Typed(RUN)
      /\ host.block # N + 1 => /\ host' = [host EXCEPT !.st = "sent", !.block = @ + 1,
                                             !.errors = IF host.st = "request" THEN 0 ELSE @]
                               /\ Load!Sends(host.block + 1)
  BY DEF Load!answered, N
<1>2. upset = {} /\ Records
  BY <1>1 DEF KInv, Load!Answer
<1>3. /\ Fewer(down, down', 1) /\ 1 \in 1..Len(down) /\ a = down[1]
      /\ a = IF host.st = "request" THEN "NAK" ELSE "ACK"
  <2>1. a = IF host.st = "request" THEN "NAK" ELSE "ACK"
    BY <1>1 DEF Load!Awaited
  <2> QED BY <1>1, <1>2, <2>1, Hears
<1>4. Records'
  BY <1>1, <1>2, <1>3 DEF Records, Fewer
<1>5. PICK I, O : Lay(up, I, O) /\ (During(I, O) \/ After(I, O))
  BY <1>1, <1>2 DEF KInv, Before, Loading
<1>6. N \in Nat
  BY ImageIs
<1>7. CASE During(I, O)
  <2>1. Sender(I) /\ L \in Nat /\ L <= N
    BY <1>7, Domained DEF During, L
  <2>2. host.block = L /\ \A j \in 1..Len(up) : I[j] <= L
    <3>1. CASE host.st = "request"
      <4>1. host.block = 0 /\ up = <<>> /\ L = 0
        BY <2>1, <3>1 DEF Sender
      <4>2. Len(up) = 0
        BY <1>5, <4>1, IndexIs, Zenon
      <4> QED BY <4>1, <4>2
    <3>2. CASE host.st = "sent"
      <4>1. host.block = L
        BY <1>3, <2>1, <3>2 DEF Sender
      <4> QED BY <2>1, <3>2, <4>1 DEF Sender
    <3> QED BY <1>1, <3>1, <3>2
  <2>3. host.block # N + 1
    BY <1>6, <2>1, <2>2
  <2>4. host'.st = "sent" /\ host'.block = L + 1 /\ Load!Sends(L + 1)
    BY <1>1, <1>2, <2>2, <2>3 DEF Records
  <2>5. L + 1 \in 1..(N + 1)
    BY <1>6, <2>1
  <2>6. up' = up \o Wire(host'.block)
    BY <2>4, <2>5, SendsIs
  <2>7. \A j \in 1..Len(down') : down'[j] # "ACK"
    <3> SUFFICES ASSUME NEW j \in 1..Len(down'), down'[j] = "ACK" PROVE FALSE
      OBVIOUS
    <3>1. j + 1 \in 1..Len(down) /\ down[j + 1] = "ACK" /\ j + 1 # 1
      BY <1>3 DEF Fewer
    <3>2. CASE host.st = "request"
      BY <2>1, <3>1, <3>2 DEF Sender
    <3>3. CASE host.st = "sent"
      <4>1. down[1] = "ACK"
        BY <1>3, <3>3
      <4>2. 1 = j + 1
        BY <1>3, <2>1, <3>1, <3>3, <4>1 DEF Sender
      <4> QED BY <3>1, <4>2
    <3> QED BY <1>1, <3>2, <3>3
  <2>8. \A j \in 1..Len(up) : I[j] <= host'.block
    <3>1. \A j \in 1..Len(up) : I[j] \in Nat
      BY <1>5, <1>6, IndexIs
    <3> QED BY <2>1, <2>2, <2>4, <3>1
  <2> QED BY <1>1, <1>4, <1>5, <1>7, <2>4, <2>5, <2>6, <2>7, <2>8, KSends
<1>8. CASE After(I, O)
  <2>1. host.st = "sent"
    BY <1>1, <1>3, <1>8 DEF After
  <2>2. host.block = N + 1 /\ \A j \in 1..Len(up) : I[j] <= N + 1
    BY <1>8, <2>1 DEF After
  <2>3. host'.st = "run" /\ up' = up \o Wire(N + 3)
    BY <1>1, <1>2, <2>2, OthersAre DEF Records
  <2>4. \A j \in 1..Len(up) : I[j] <= N + 3
    BY <1>5, <1>6, IndexIs
  <2>5. PICK i : i = N + 3
    OBVIOUS
  <2> QED BY <1>1, <1>4, <1>5, <1>8, <2>1, <2>3, <2>4, <2>5, KLater
<1> QED BY <1>5, <1>7, <1>8

LEMMA KAgain == ASSUME KInv, NEW a, Load!refused(a) PROVE KInv'
<1> SUFFICES ASSUME upset' = {} PROVE KInv'
  BY DEF KInv
<1>1. /\ host.st \in {"request", "sent"} /\ Load!Answer(a) /\ UNCHANGED board
      /\ host' = [host EXCEPT !.errors = @ + 1]
      /\ host.st = "sent" => Load!Sends(host.block)
      /\ host.st # "sent" => up' = up
  BY DEF Load!refused
<1>2. upset = {} /\ Records
  BY <1>1 DEF KInv, Load!Answer
<1>3. host'.st = host.st /\ host'.block = host.block /\ DOMAIN host' = DOMAIN host
  BY <1>1, <1>2 DEF Records
<1>4. PICK s \in {0, 1} : Fewer(down, down', s)
  BY <1>1, <1>2, Hears
<1>5. Records'
  BY <1>1, <1>2, <1>3, <1>4 DEF Records, Fewer
<1>6. PICK I, O : Lay(up, I, O) /\ (During(I, O) \/ After(I, O))
  BY <1>1, <1>2 DEF KInv, Before, Loading
<1>7. N \in Nat
  BY ImageIs
<1>8. CASE During(I, O) /\ host.st = "sent"
  <2>1. /\ host.block \in 1..(N + 1) /\ host.block \in {L, L + 1}
        /\ \A j \in 1..Len(up) : I[j] <= host.block
        /\ \A j, k \in 1..Len(down) : down[j] = "ACK" => host.block = L /\ (down[k] = "ACK" => j = k)
    BY <1>8 DEF During, Sender
  <2>2. \A j, k \in 1..Len(down') : down'[j] = "ACK" => host.block = L /\ (down'[k] = "ACK" => j = k)
    <3> SUFFICES ASSUME NEW j \in 1..Len(down'), NEW k \in 1..Len(down'), down'[j] = "ACK"
                 PROVE  host.block = L /\ (down'[k] = "ACK" => j = k)
      OBVIOUS
    <3>1. j + s \in 1..Len(down) /\ k + s \in 1..Len(down) /\ down'[j] = down[j + s] /\ down'[k] = down[k + s]
      BY <1>4 DEF Fewer
    <3>2. host.block = L /\ (down[k + s] = "ACK" => j + s = k + s)
      BY <2>1, <3>1
    <3>3. j + s = k + s => j = k
      <4>1. j \in Int /\ k \in Int /\ s \in Int
        BY <1>4
      <4> QED BY <4>1
    <3> QED BY <3>1, <3>2, <3>3
  <2>3. up' = up \o Wire(host'.block)
    BY <1>1, <1>3, <1>8, <2>1, SendsIs
  <2> QED BY <1>1, <1>3, <1>5, <1>6, <1>8, <2>1, <2>2, <2>3, KSends
<1>9. CASE During(I, O) /\ host.st # "sent"
  <2>1. up' = up /\ host.st = "request"
    BY <1>1, <1>9
  <2>2. Sender(I)'
    <3>1. Sender(I)
      BY <1>9 DEF During
    <3>2. \A j \in 1..Len(down') : down'[j] = "NAK"
      BY <1>4, <2>1, <3>1 DEF Sender, Fewer
    <3> QED BY <1>1, <1>3, <2>1, <3>1, <3>2 DEF Sender, L
  <2>3. During(I, O)'
    BY <1>1, <1>9, <2>1, <2>2 DEF During, Place, Checked, L
  <2>4. Lay(up', I, O)
    BY <1>6, <2>1
  <2> QED BY <1>5, <2>3, <2>4 DEF KInv, Loading
<1>10. CASE After(I, O) /\ host.st = "sent"
  <2>1. host.block = N + 1 /\ \A j \in 1..Len(up) : I[j] <= N + 1
    BY <1>10 DEF After
  <2>2. N + 1 \in 1..(N + 1)
    BY <1>7
  <2>3. up' = up \o Wire(N + 1)
    BY <1>1, <1>10, <2>1, <2>2, SendsIs
  <2>4. PICK i : i = N + 1
    OBVIOUS
  <2>5. N + 1 # N + 3
    BY <1>7
  <2> QED BY <1>1, <1>3, <1>5, <1>6, <1>10, <2>1, <2>3, <2>4, <2>5, KLater
<1>11. CASE After(I, O) /\ host.st # "sent"
  <2>1. up' = up /\ host.st = "request"
    BY <1>1, <1>11
  <2>2. \A j \in 1..Len(down') : down'[j] # "NAK"
    BY <1>4, <1>11, <2>1 DEF After, Fewer
  <2>3. After(I, O)'
    BY <1>1, <1>3, <1>11, <2>1, <2>2 DEF After, Load!Whole
  <2>4. Lay(up', I, O)
    BY <1>6, <2>1
  <2> QED BY <1>5, <2>3, <2>4 DEF KInv, Loading
<1> QED BY <1>6, <1>8, <1>9, <1>10, <1>11

LEMMA GivingIs ==
  ASSUME Sequence(up), up' = up \o <<[c |-> CAN, part |-> "header"], [c |-> CAN, part |-> "header"]>> \o Load!Typed(LOAD)
  PROVE  up' = up \o Wire(N + 2)
<1>1. PICK S : up \in Seq(S)
  BY DEF Sequence
<1>2. PICK p : p = <<[c |-> CAN, part |-> "header"], [c |-> CAN, part |-> "header"]>>
  OBVIOUS
<1>3. PICK q : q = Load!Typed(LOAD)
  OBVIOUS
<1>4. p \in Seq({p[1], p[2]})
  BY <1>2
<1>5. q \in Seq({q[1], q[2]})
  BY <1>3 DEF Load!Typed
<1>6. PICK T : T = S \cup {p[1], p[2]} \cup {q[1], q[2]}
  OBVIOUS
<1>7. up \in Seq(T) /\ p \in Seq(T) /\ q \in Seq(T)
  BY <1>1, <1>4, <1>5, <1>6
<1>8. (up \o p) \o q = up \o (p \o q)
  <2>1. \A x, y, z \in Seq(T) : (x \o y) \o z = x \o (y \o z)
    BY ConcatAssociative
  <2> QED BY <1>7, <2>1, Zenon
<1>9. Wire(N + 2) = p \o q
  BY <1>2, <1>3, OthersAre DEF Giving
<1> QED BY <1>2, <1>3, <1>8, <1>9

\* The sender gives up.
LEMMA KGives ==
  ASSUME Records', upset' = {}, UNCHANGED board,
         NEW I, NEW O, Lay(up, I, O), During(I, O), host.st \in {"request", "sent"},
         host'.st = "command", up' = up \o Wire(N + 2)
  PROVE  KInv'
<1>0. N \in Nat
  BY ImageIs
<1>1. Sender(I)
  BY DEF During
<1>2. /\ Len(up) \in Nat /\ (up = <<>> <=> Len(up) = 0)
      /\ \A j \in 1..Len(up) : I[j] \in 1..(N + 3)
  BY IndexIs, Zenon
<1>3. \A j \in 1..Len(up) : I[j] <= N + 1
  <2>1. CASE host.st = "request"
    BY <1>1, <1>2, <2>1 DEF Sender
  <2>2. CASE host.st = "sent"
    <3>1. /\ host.block \in 1..(N + 1) /\ \A j \in 1..Len(up) : I[j] <= host.block
      BY <1>1, <2>2 DEF Sender
    <3> QED BY <1>0, <1>2, <3>1
  <2> QED BY <2>1, <2>2
<1>4. PICK i : i = N + 2
  OBVIOUS
<1>5. PICK J, P : Lay(up', J, P) /\ Put(up, I, O, up', J, P, i)
  <2>1. i \in 1..(N + 3) /\ \A j \in 1..Len(up) : I[j] <= i
    BY <1>0, <1>2, <1>3, <1>4
  <2>2. up' = up \o Wire(i)
    BY <1>4
  <2> QED BY <2>1, <2>2, Puts
<1>6. \A j \in 1..Len(up') : (j \in 1..Len(up) /\ J[j] = I[j] /\ P[j] = O[j]) \/ J[j] = i
  BY <1>5 DEF Put
<1>7. \A j \in 1..Len(up') : J[j] \in {L, L + 1, N + 2}
  BY <1>4, <1>6 DEF During
<1>8. up # <<>> => J[1] = I[1] /\ P[1] = O[1] /\ up' # <<>> /\ I[1] # N + 2
  <2>1. up # <<>> => 1 \in 1..Len(up)
    BY <1>2
  <2>2. \A j \in 1..Len(up) : I[j] # N + 2
    BY <1>0, <1>2, <1>3
  <2> QED BY <1>5, <2>1, <2>2 DEF Put
<1>9. up = <<>> => P[1] = 1
  <2> SUFFICES ASSUME up = <<>> PROVE P[1] = 1
    OBVIOUS
  <2>1. Len(up) + 1 = 1
    BY <1>2
  <2> QED BY <1>5, <2>1 DEF Put
<1>10. Place(J, P)'
  BY <1>8 DEF During, Place, Checked, L
<1>11. Sender(J)'
  <2>1. Len(up') \in 1..Len(up') /\ Len(up') \notin 1..Len(up) /\ up' # <<>>
    BY <1>5 DEF Put
  <2>2. J[Len(up')] = N + 2
    BY <1>4, <1>5, <2>1 DEF Put
  <2> QED BY <2>1, <2>2 DEF Sender
<1>12. During(J, P)'
  BY <1>7, <1>8, <1>9, <1>10, <1>11 DEF During, L
<1> QED BY <1>5, <1>12 DEF KInv, Loading

LEMMA KAbort == ASSUME KInv, NEW a, Load!abort(a) PROVE KInv'
<1> SUFFICES ASSUME upset' = {} PROVE KInv'
  BY DEF KInv
<1>1. /\ host.st \in {"request", "sent"} /\ UNCHANGED <<board, upset>>
      /\ down' = (IF down = <<>> THEN <<>> ELSE Tail(down))
      /\ host' = [st |-> "command", block |-> 0, errors |-> 0, loads |-> host.loads + 1]
      /\ up' = up \o <<[c |-> CAN, part |-> "header"], [c |-> CAN, part |-> "header"]>> \o Load!Typed(LOAD)
  BY DEF Load!abort
<1>2. Records
  BY <1>1 DEF KInv
<1>3. Sequence(down')
  <2>1. CASE down = <<>>
    BY <1>1, <2>1, Emptied
  <2>2. CASE down # <<>>
    BY <1>1, <1>2, <2>2, Tailed DEF Records
  <2> QED BY <2>1, <2>2
<1>4. Records'
  BY <1>1, <1>2, <1>3 DEF Records
<1>5. PICK I, O : Lay(up, I, O) /\ (During(I, O) \/ After(I, O))
  BY <1>1 DEF KInv, Before, Loading
<1>6. up' = up \o Wire(N + 2)
  <2>1. Sequence(up)
    BY <1>5 DEF Lay
  <2> QED BY <1>1, <2>1, GivingIs
<1>7. CASE During(I, O)
  BY <1>1, <1>4, <1>5, <1>6, <1>7, KGives
<1>8. CASE After(I, O)
  <2>1. N \in Nat /\ N + 2 # N + 3
    BY ImageIs
  <2>2. \A j \in 1..Len(up) : I[j] <= N + 2
    <3>1. \A j \in 1..Len(up) : I[j] \in 1..(N + 3) /\ I[j] # N + 3
      BY <1>1, <1>5, <1>8, IndexIs DEF After
    <3> QED BY <2>1, <3>1
  <2>3. PICK i : i = N + 2
    OBVIOUS
  <2>4. host'.st = "command"
    BY <1>1
  <2> QED BY <1>1, <1>4, <1>5, <1>6, <1>8, <2>1, <2>2, <2>3, <2>4, KLater
<1> QED BY <1>5, <1>7, <1>8

LInv == stage = "load" => KInv

LEMMA LNext == LInv /\ [Next]_bringupVars => LInv'
<1> SUFFICES ASSUME LInv, [Next]_bringupVars PROVE LInv'
  OBVIOUS
<1>1. ASSUME UNCHANGED <<stage, loadVars>> PROVE LInv'
  BY <1>1 DEF LInv, loadVars, KInv, Records, Before, Loading, During, After, Place, Checked, Sender, L, Load!Whole
<1>2. CASE Loads(Load!Next)
  <2>1. KInv /\ stage' = stage
    BY <1>2 DEF Loads, LInv
  <2>2. \/ Load!xmodem_wait \/ Load!elf_load \/ Load!main
        \/ \E c \in Byte : Load!gets(c) \/ Load!xmodem_recv(c) \/ Load!xmodem_read_block(c)
        \/ Load!transfer
        \/ \E a \in {"ACK", "NAK", "text", "none"} : Load!answered(a) \/ Load!refused(a) \/ Load!abort(a)
    BY <1>2 DEF Loads, Load!Next, Load!kzload, Load!kozos_py, Byte
  <2>3. KInv'
    BY <2>1, <2>2, KWait, KElf, KMain, KGets, KRecv, KBlock, KTransfer, KAnswered, KAgain, KAbort
  <2> QED BY <2>3 DEF LInv
<1>3. CASE start
  BY <1>3 DEF start, LInv
<1>4. CASE Serves(Os!Next)
  BY <1>1, <1>4 DEF Serves
<1>5. CASE debug
  BY <1>5 DEF debug, LInv
<1>6. CASE Debugs(Dbg!Next)
  BY <1>1, <1>6 DEF Debugs
<1>7. CASE UNCHANGED bringupVars
  BY <1>1, <1>7 DEF bringupVars
<1> QED BY <1>2, <1>3, <1>4, <1>5, <1>6, <1>7 DEF Next

\* What xmodem_recv() returns the size of, what elf_load() starts, and what the host
\* runs is the whole image, unless one of the errors arrived that upset records.
THEOREM LoadingCorrect == Spec => []LoadedRight
<1>1. Init => LInv
  BY KInit DEF Init, LInv
<1>2. LInv => LoadedRight
  BY KInvRight DEF LInv, LoadedRight
<1> QED BY <1>1, <1>2, LNext, PTL DEF Spec

-----------------------------------------------------------------------------
(* The line to and from gdb.                                               *)

Chars == Dbg!chars
Quiet(x) == x \in Chars
Bare(x) == x \in {Dbg!char("+"), Dbg!char("-")}
Asks == [cmd : {"g", "M", "s", "c"}, addr : Breakpoint \cup {0}, byte : {"code", "BREAK"}, ok : BOOLEAN]
Replies == [cmd : {"T", "g", "OK"}, addr : {0}, byte : {"code"}, ok : BOOLEAN]

\* Noise has made y of x.
Spoiled(x, y) == y = Dbg!char("?") \/ (y = [x EXCEPT !.ok = FALSE] /\ y # x)

\* r is q without its first e elements, some spoiled, and with those of n behind them.
Moves(q, r, e, n) ==
  /\ Len(q) \in Nat /\ Len(r) \in Nat /\ Len(n) \in Nat /\ e \in {0, 1} /\ e <= Len(q)
  /\ Len(r) = (Len(q) - e) + Len(n)
  /\ \A j \in 1..(Len(q) - e) : r[j] = q[j + e] \/ Spoiled(q[j + e], r[j])
  /\ \A i \in 1..Len(n) : r[(Len(q) - e) + i] = n[i]

LEMMA MovesNone ==
  ASSUME NEW S, NEW q \in Seq(S)
  PROVE  Moves(q, q, 0, <<>>)
<1>1. Len(q) \in Nat /\ Len(<<>>) = 0
  BY LenProperties
<1> QED BY <1>1 DEF Moves

LEMMA MovesOut ==
  ASSUME NEW S, NEW q \in Seq(S), q # <<>>
  PROVE  Moves(q, Tail(q), 1, <<>>) /\ Tail(q) \in Seq(S) /\ Head(q) = q[1] /\ Len(q) >= 1
<1>1. /\ Sequence(q) /\ Len(<<>>) = 0
  BY DEF Sequence
<1>2. /\ Len(q) \in Nat \ {0} /\ Len(Tail(q)) = Len(q) - 1
      /\ \A k \in 1..Len(Tail(q)) : Tail(q)[k] = q[k + 1]
      /\ Head(q) = q[1]
  BY <1>1, Tailed
<1>3. Tail(q) \in Seq(S)
  BY HeadTailProperties
<1> QED BY <1>1, <1>2, <1>3 DEF Moves

LEMMA MovesIn ==
  ASSUME NEW S, NEW q \in Seq(S), NEW x \in S
  PROVE  Moves(q, Append(q, x), 0, <<x>>) /\ Append(q, x) \in Seq(S)
<1>1. Sequence(q) /\ Len(<<x>>) = 1 /\ <<x>>[1] = x
  BY DEF Sequence
<1>2. /\ Len(q) \in Nat /\ Len(Append(q, x)) = Len(q) + 1
      /\ \A k \in 1..Len(q) : Append(q, x)[k] = q[k]
      /\ Append(q, x)[Len(q) + 1] = x
  BY <1>1, Appended
<1>3. Append(q, x) \in Seq(S)
  OBVIOUS
<1> QED BY <1>1, <1>2, <1>3 DEF Moves

\* Two behind the line.
LEMMA MovesTwo ==
  ASSUME NEW S, NEW q \in Seq(S), NEW x \in S, NEW y \in S
  PROVE  Moves(q, q \o <<x>> \o <<y>>, 0, <<x, y>>) /\ q \o <<x>> \o <<y>> \in Seq(S)
<1> DEFINE r == q \o <<x>> \o <<y>>
<1>1. <<x>> \in Seq(S) /\ <<y>> \in Seq(S) /\ Len(<<x>>) = 1 /\ Len(<<y>>) = 1 /\ <<x>>[1] = x /\ <<y>>[1] = y
  OBVIOUS
<1>2. Len(<<x, y>>) = 2 /\ <<x, y>>[1] = x /\ <<x, y>>[2] = y
  OBVIOUS
<1>3. /\ q \o <<x>> \in Seq(S) /\ Len(q) \in Nat /\ Len(q \o <<x>>) = Len(q) + 1
      /\ \A i \in 1..(Len(q) + 1) : (q \o <<x>>)[i] = IF i <= Len(q) THEN q[i] ELSE <<x>>[i - Len(q)]
  BY <1>1, ConcatProperties, LenProperties
<1>4. /\ r \in Seq(S) /\ Len(r) = Len(q) + 2
      /\ \A i \in 1..(Len(q) + 2) : r[i] = IF i <= Len(q) + 1 THEN (q \o <<x>>)[i] ELSE <<y>>[i - (Len(q) + 1)]
  BY <1>1, <1>3, ConcatProperties
<1>5. \A i \in 1..Len(q) : r[i] = q[i]
  BY <1>3, <1>4
<1>6. r[Len(q) + 1] = x
  <2>1. Len(q) + 1 \in 1..(Len(q) + 1) /\ Len(q) + 1 \in 1..(Len(q) + 2) /\ (Len(q) + 1) - Len(q) = 1 /\ ~(Len(q) + 1 <= Len(q))
    BY <1>3
  <2> QED BY <1>1, <1>3, <1>4, <2>1
<1>7. r[Len(q) + 2] = y
  <2>1. Len(q) + 2 \in 1..(Len(q) + 2) /\ (Len(q) + 2) - (Len(q) + 1) = 1 /\ ~(Len(q) + 2 <= Len(q) + 1)
    BY <1>3
  <2> QED BY <1>1, <1>4, <2>1
<1> HIDE DEF r
<1>8. Moves(q, r, 0, <<x, y>>)
  BY <1>2, <1>3, <1>4, <1>5, <1>6, <1>7 DEF Moves
<1> QED BY <1>4, <1>8 DEF r

LEMMA MovesOne ==
  ASSUME NEW S, NEW q \in Seq(S), NEW y \in S
  PROVE  Moves(q, q \o <<>> \o <<y>>, 0, <<y>>) /\ q \o <<>> \o <<y>> \in Seq(S)
<1>1. q \o <<>> \o <<y>> = Append(q, y)
  OBVIOUS
<1> QED BY <1>1, MovesIn

\* The first is read as something else.
LEMMA MovesFirst ==
  ASSUME NEW S, NEW q \in Seq(S), q # <<>>, Dbg!char("?") \in S
  PROVE  /\ Moves(q, <<Dbg!char("?")>> \o Tail(q), 0, <<>>)
         /\ <<Dbg!char("?")>> \o Tail(q) \in Seq(S)
<1> DEFINE x == Dbg!char("?")
           r == <<x>> \o Tail(q)
<1>1. <<x>> \in Seq(S) /\ Len(<<x>>) = 1 /\ <<x>>[1] = x /\ Len(<<>>) = 0
  OBVIOUS
<1>2. /\ Tail(q) \in Seq(S) /\ Len(q) \in Nat \ {0} /\ Len(Tail(q)) = Len(q) - 1
      /\ \A k \in 1..(Len(q) - 1) : Tail(q)[k] = q[k + 1]
  <2>1. Moves(q, Tail(q), 1, <<>>) /\ Tail(q) \in Seq(S)
    BY MovesOut
  <2>2. Sequence(q)
    BY DEF Sequence
  <2> QED BY <2>1, <2>2, Tailed
<1> HIDE DEF x
<1>3. /\ r \in Seq(S) /\ Len(r) = Len(q)
      /\ \A i \in 1..Len(q) : r[i] = IF i <= 1 THEN <<x>>[i] ELSE Tail(q)[i - 1]
  BY <1>1, <1>2, ConcatProperties
<1>4. r[1] = x
  BY <1>1, <1>2, <1>3
<1>5. \A i \in 2..Len(q) : r[i] = q[i]
  <2> TAKE i \in 2..Len(q)
  <2>1. i \in 1..Len(q) /\ i - 1 \in 1..(Len(q) - 1) /\ (i - 1) + 1 = i /\ ~(i <= 1)
    BY <1>2
  <2> QED BY <1>2, <1>3, <2>1
<1>6. \A i \in 1..Len(q) : r[i] = q[i] \/ Spoiled(q[i], r[i])
  <2> TAKE i \in 1..Len(q)
  <2>1. i = 1 \/ i \in 2..Len(q)
    BY <1>2
  <2> QED BY <1>4, <1>5, <2>1 DEF Spoiled, x
<1> HIDE DEF r
<1>7. Moves(q, r, 0, <<>>)
  BY <1>1, <1>2, <1>3, <1>6 DEF Moves
<1> QED BY <1>3, <1>7 DEF r, x

\* The last is spoiled.
LEMMA MovesLast ==
  ASSUME NEW S, NEW q \in Seq(S), q # <<>>, NEW y \in S, Spoiled(Dbg!Last(q), y)
  PROVE  /\ Moves(q, Dbg!Front(q) \o <<y>>, 0, <<>>)
         /\ Dbg!Front(q) \o <<y>> \in Seq(S)
<1> DEFINE f == Dbg!Front(q)
           r == f \o <<y>>
<1>1. <<y>> \in Seq(S) /\ Len(<<y>>) = 1 /\ <<y>>[1] = y /\ Len(<<>>) = 0
  OBVIOUS
<1>2. Len(q) \in Nat \ {0} /\ Dbg!Last(q) = q[Len(q)]
  BY LenProperties, EmptySeq DEF Dbg!Last
<1>3. f \in Seq(S) /\ Len(f) = Len(q) - 1 /\ \A k \in 1..(Len(q) - 1) : f[k] = q[k]
  <2>1. f = SubSeq(q, 1, Len(q) - 1)
    BY DEF Dbg!Front
  <2>2. PICK m : m = Len(q) - 1
    OBVIOUS
  <2>3. 1 \in 1..(Len(q) + 1) /\ m \in (1 - 1)..Len(q) /\ m - 1 + 1 = m /\ m \in Nat
    BY <1>2, <2>2
  <2>4. f = SubSeq(q, 1, m)
    BY <2>1, <2>2
  <2> HIDE DEF f
  <2>5. f \in Seq(S) /\ Len(f) = m /\ \A k \in 1..m : f[k] = q[k]
    BY <1>2, <2>3, <2>4
  <2> QED BY <2>2, <2>5
<1> HIDE DEF f
<1>4. /\ r \in Seq(S) /\ Len(r) = Len(q)
      /\ \A i \in 1..Len(q) : r[i] = IF i <= Len(q) - 1 THEN f[i] ELSE <<y>>[i - (Len(q) - 1)]
  BY <1>1, <1>2, <1>3, ConcatProperties
<1>5. r[Len(q)] = y
  <2>1. Len(q) \in 1..Len(q) /\ Len(q) - (Len(q) - 1) = 1 /\ ~(Len(q) <= Len(q) - 1)
    BY <1>2
  <2> QED BY <1>1, <1>4, <2>1
<1>6. \A i \in 1..(Len(q) - 1) : r[i] = q[i]
  BY <1>2, <1>3, <1>4
<1>7. \A i \in 1..Len(q) : r[i] = q[i] \/ Spoiled(q[i], r[i])
  <2> TAKE i \in 1..Len(q)
  <2>1. i = Len(q) \/ i \in 1..(Len(q) - 1)
    BY <1>2
  <2> QED BY <1>2, <1>5, <1>6, <2>1
<1> HIDE DEF r
<1>8. Moves(q, r, 0, <<>>)
  BY <1>1, <1>2, <1>4, <1>7 DEF Moves
<1> QED BY <1>4, <1>8 DEF r, f

Bytes == {"code", "BREAK"}

DebugTypes ==
  /\ rx \in Seq(Chars \cup Asks) /\ tx \in Seq(Chars \cup Replies)
  /\ DOMAIN stub = {"pc", "sendbuf"} /\ stub.pc \in {"off", "puts", "gets"} /\ stub.sendbuf \in Replies
  /\ DOMAIN gdb = {"st", "packet", "bps", "commands"} /\ gdb.st \in {"idle", "ack", "reply", "wait"}
  /\ gdb.packet \in Asks /\ gdb.packet.ok = TRUE /\ (gdb.packet.cmd = "M" => gdb.packet.addr \in Breakpoint)
  /\ mem \in [DOMAIN Code -> Bytes]
  /\ \A k \in 1..2 : instructions[k].addr \in DOMAIN Code => instructions[k].byte \in Bytes
  /\ DOMAIN thread = Thread /\ \A t \in Thread : DOMAIN thread[t] = {"pc", "stack"}
  /\ stub.pc # "off" => registers.th \in Thread
  /\ done \in Nat /\ stepped \in Int

\* At most one thing on the line is the command or a character that answers it, and
\* only while gdb waits for that.
Whole(x) == [x EXCEPT !.ok = TRUE]
OneCommand ==
  /\ \A j \in 1..Len(rx) : ~Quiet(rx[j]) => gdb.st = "ack" /\ Whole(rx[j]) = gdb.packet
  /\ \A k \in 1..Len(tx) : Bare(tx[k]) => gdb.st = "ack"
  /\ \A j, k \in 1..Len(rx) : ~Quiet(rx[j]) /\ ~Quiet(rx[k]) => j = k
  /\ \A j, k \in 1..Len(tx) : Bare(tx[j]) /\ Bare(tx[k]) => j = k
  /\ \A j \in 1..Len(rx), k \in 1..Len(tx) : ~(~Quiet(rx[j]) /\ Bare(tx[k]))

\* Where the program runs, it was told to, and no reply follows the acknowledgement.
Plus(x) == x = Dbg!char("+")
Halted ==
  /\ gdb.st # "ack" => done >= 1
  /\ \A k \in 1..Len(tx) : Plus(tx[k]) => done >= 1
  /\ gdb.st = "wait" => gdb.packet.cmd \in {"s", "c"}
  /\ gdb.st = "reply" => gdb.packet.cmd \notin {"s", "c"}
  /\ stub.pc = "off" =>
       /\ gdb.packet.cmd \in {"s", "c"} /\ gdb.st \in {"ack", "wait"} /\ done >= 1
       /\ gdb.st = "wait" => \A k \in 1..Len(tx) : Quiet(tx[k])
       /\ \A j, k \in 1..Len(tx) : j < k /\ Plus(tx[j]) => Quiet(tx[k])

\* Without the stub's own break instructions memory is what gdb takes it for, or
\* will when it has the answer.
Base == Dbg!restore_instruction(Dbg!restore_instruction(mem, instructions[2]), instructions[1])
Set(p, bps) == IF p.byte = "BREAK" THEN bps \cup {p.addr} ELSE bps \ {p.addr}
Expected == IF gdb.packet.cmd = "M" /\ gdb.st # "idle" /\ done > 0 THEN Set(gdb.packet, gdb.bps) ELSE gdb.bps
Breaks(m) == {a \in DOMAIN Code : m[a] = "BREAK"}
MemoryIs ==
  /\ stub.pc # "off" => instructions = <<Dbg!NULL, Dbg!NULL>>
  /\ Breaks(Base) = Expected
  /\ \A k \in 1..2 : instructions[k].addr \in DOMAIN Code => mem[instructions[k].addr] = "BREAK"

\* The thread that is stepped is before the instruction, and break instructions are
\* wherever that leads, or it is at one of them.
Soft(a) == \E k \in 1..2 : instructions[k].addr = a
Unmoved(a) ==
  /\ stepped = done - 1 /\ a = registers.pc
  /\ a \in DOMAIN Code => ~Soft(a)
  /\ a \in DOMAIN Code /\ mem[a] = "code" =>
       instructions[1].addr = a + Code[a].size /\ instructions[2].addr = Dbg!get_jmp_addr(a)
Moved(a) == stepped = done /\ Soft(a)
StepIs ==
  gdb.packet.cmd = "s" /\ stepped >= 0 =>
    IF stub.pc # "off" THEN stepped = done
    ELSE /\ registers.th \in Thread
         /\ Unmoved(thread[registers.th].pc) \/ Moved(thread[registers.th].pc)

DInv == DebugTypes /\ OneCommand /\ Halted /\ MemoryIs /\ StepIs

-----------------------------------------------------------------------------

LEMMA ItemIs ==
  /\ \A x \in Asks \cup Replies : ~Quiet(x) /\ ~Bare(x) /\ ~Plus(x)
  /\ \A x \in Asks : Whole(x) \in Asks /\ Whole(x).ok = TRUE /\ (x.ok => Whole(x) = x)
  /\ \A x : Bare(x) => Quiet(x)
  /\ \A x : Plus(x) => Bare(x)
  /\ \A c \in {"+", "-", "?"} : Quiet(Dbg!char(c))
  /\ Plus(Dbg!char("+")) /\ Bare(Dbg!char("-")) /\ ~Bare(Dbg!char("?")) /\ ~Plus(Dbg!char("-"))
  /\ \A x \in Chars : x.ok = FALSE /\ [x EXCEPT !.ok = FALSE] = x
<1>1. \A x \in Asks \cup Replies : ~Quiet(x)
  BY DEF Quiet, Chars, Dbg!chars, Dbg!char, Asks, Replies
<1>2. \A x : Bare(x) => Quiet(x)
  BY DEF Quiet, Chars, Dbg!chars, Bare
<1>3. \A x : Plus(x) => Bare(x)
  BY DEF Plus, Bare
<1>4. \A x \in Asks : Whole(x) \in Asks /\ Whole(x).ok = TRUE
  BY DEF Asks, Whole
<1>5. \A x \in Asks : x.ok => Whole(x) = x
  <2> SUFFICES ASSUME NEW x \in Asks, x.ok PROVE Whole(x) = x
    OBVIOUS
  <2>1. x.ok = TRUE
    BY DEF Asks
  <2> QED BY <2>1 DEF Asks, Whole
<1>6. \A c \in {"+", "-", "?"} : Quiet(Dbg!char(c))
  BY DEF Quiet, Chars, Dbg!chars
<1>7. Plus(Dbg!char("+")) /\ Bare(Dbg!char("-"))
  BY DEF Plus, Bare
<1>8. ~Bare(Dbg!char("?")) /\ ~Plus(Dbg!char("-"))
  BY DEF Plus, Bare, Dbg!char
<1>9. \A x \in Chars : x.ok = FALSE /\ [x EXCEPT !.ok = FALSE] = x
  BY DEF Chars, Dbg!chars, Dbg!char
<1> QED BY <1>1, <1>2, <1>3, <1>4, <1>5, <1>6, <1>7, <1>8, <1>9

LEMMA SpoiledIs ==
  /\ \A y : \A x \in Chars \cup Asks : Spoiled(x, y) =>
       y \in Chars \cup Asks /\ ~Bare(y) /\ (~Quiet(y) => ~Quiet(x) /\ Whole(y) = Whole(x))
  /\ \A y : \A x \in Chars \cup Replies : Spoiled(x, y) =>
       y \in Chars \cup Replies /\ ~Bare(y) /\ (~Quiet(y) => ~Quiet(x))
<1>1. ASSUME NEW x \in Chars, NEW y, Spoiled(x, y)
      PROVE  y = Dbg!char("?")
  BY <1>1, ItemIs DEF Spoiled
<1>2. Dbg!char("?") \in Chars /\ Quiet(Dbg!char("?")) /\ ~Bare(Dbg!char("?"))
  BY ItemIs DEF Quiet
<1>3. ASSUME NEW x \in Asks, NEW y, Spoiled(x, y), y # Dbg!char("?")
      PROVE  y \in Asks /\ Whole(y) = Whole(x)
  BY <1>3 DEF Spoiled, Asks, Whole
<1>4. ASSUME NEW x \in Replies, NEW y, Spoiled(x, y), y # Dbg!char("?")
      PROVE  y \in Replies
  BY <1>4 DEF Spoiled, Replies
<1> QED BY <1>1, <1>2, <1>3, <1>4, ItemIs

\* What of a line was there before.
LEMMA Survives ==
  ASSUME NEW S, NEW q \in Seq(S), NEW r, NEW e, NEW n, Moves(q, r, e, n), NEW j \in 1..Len(r)
  PROVE  \/ /\ j \in 1..(Len(q) - e) /\ j + e \in 1..Len(q) /\ q[j + e] \in S
            /\ r[j] = q[j + e] \/ Spoiled(q[j + e], r[j])
         \/ \E i \in 1..Len(n) : j = (Len(q) - e) + i /\ r[j] = n[i]
<1>1. /\ Len(q) \in Nat /\ Len(r) \in Nat /\ Len(n) \in Nat /\ e \in {0, 1} /\ e <= Len(q)
      /\ Len(r) = (Len(q) - e) + Len(n)
  BY DEF Moves
<1>2. CASE j <= Len(q) - e
  <2>1. j \in 1..(Len(q) - e) /\ j + e \in 1..Len(q)
    BY <1>1, <1>2
  <2>2. q[j + e] \in S
    BY <2>1, ElementOfSeq
  <2> QED BY <2>1, <2>2 DEF Moves
<1>3. CASE ~(j <= Len(q) - e)
  <2>1. PICK i : i = j - (Len(q) - e)
    OBVIOUS
  <2>2. i \in 1..Len(n) /\ j = (Len(q) - e) + i
    BY <1>1, <1>3, <2>1
  <2> QED BY <2>2 DEF Moves
<1> QED BY <1>2, <1>3

\* The line to the stub: a command on it was there before, or is new.
AskOld(j, e) == j + e \in 1..Len(rx) /\ ~Quiet(rx[j + e]) /\ Whole(rx'[j]) = Whole(rx[j + e])
LEMMA AskIs ==
  ASSUME rx \in Seq(Chars \cup Asks), NEW e, NEW n, Moves(rx, rx', e, n), NEW j \in 1..Len(rx'), ~Quiet(rx'[j])
  PROVE  AskOld(j, e) \/ \E i \in 1..Len(n) : j = (Len(rx) - e) + i /\ rx'[j] = n[i]
<1>1. \/ /\ j + e \in 1..Len(rx) /\ rx[j + e] \in Chars \cup Asks
         /\ rx'[j] = rx[j + e] \/ Spoiled(rx[j + e], rx'[j])
      \/ \E i \in 1..Len(n) : j = (Len(rx) - e) + i /\ rx'[j] = n[i]
  BY Survives
<1> QED BY <1>1, SpoiledIs, Zenon DEF AskOld

LEMMA AnswerIs ==
  ASSUME tx \in Seq(Chars \cup Replies), NEW e, NEW n, Moves(tx, tx', e, n), NEW j \in 1..Len(tx')
  PROVE  \/ /\ j \in 1..(Len(tx) - e) /\ j + e \in 1..Len(tx)
            /\ Bare(tx'[j]) => tx'[j] = tx[j + e]
            /\ ~Quiet(tx'[j]) => ~Quiet(tx[j + e])
         \/ \E i \in 1..Len(n) : j = (Len(tx) - e) + i /\ tx'[j] = n[i]
<1>1. \/ /\ j \in 1..(Len(tx) - e) /\ j + e \in 1..Len(tx) /\ tx[j + e] \in Chars \cup Replies
         /\ tx'[j] = tx[j + e] \/ Spoiled(tx[j + e], tx'[j])
      \/ \E i \in 1..Len(n) : j = (Len(tx) - e) + i /\ tx'[j] = n[i]
  BY Survives
<1> QED BY <1>1, SpoiledIs, Zenon

\* The new things are of no account.
LEMMA OneKept ==
  ASSUME DebugTypes, OneCommand, NEW e, NEW n, Moves(rx, rx', e, n), \A i \in 1..Len(n) : Quiet(n[i]),
         NEW f, NEW m, Moves(tx, tx', f, m), \A i \in 1..Len(m) : ~Bare(m[i]),
         gdb'.packet = gdb.packet, gdb.st = "ack" => gdb'.st = "ack"
  PROVE  OneCommand'
<1>0. e \in {0, 1} /\ f \in {0, 1}
  BY DEF Moves
<1>1. \A j \in 1..Len(rx') : ~Quiet(rx'[j]) => AskOld(j, e)
  BY AskIs DEF DebugTypes
<1>2. \A k \in 1..Len(tx') : Bare(tx'[k]) => k + f \in 1..Len(tx) /\ Bare(tx[k + f])
  BY AnswerIs DEF DebugTypes
<1>3. \A j \in 1..Len(rx') : ~Quiet(rx'[j]) => gdb'.st = "ack" /\ Whole(rx'[j]) = gdb'.packet
  BY <1>1 DEF OneCommand, AskOld
<1>4. \A k \in 1..Len(tx') : Bare(tx'[k]) => gdb'.st = "ack"
  BY <1>2 DEF OneCommand
<1>5. \A j, k \in 1..Len(rx') : ~Quiet(rx'[j]) /\ ~Quiet(rx'[k]) => j = k
  <2> SUFFICES ASSUME NEW j \in 1..Len(rx'), NEW k \in 1..Len(rx'), ~Quiet(rx'[j]), ~Quiet(rx'[k]) PROVE j = k
    OBVIOUS
  <2>1. j + e = k + e
    BY <1>1 DEF OneCommand, AskOld
  <2> QED BY <1>0, <2>1
<1>6. \A j, k \in 1..Len(tx') : Bare(tx'[j]) /\ Bare(tx'[k]) => j = k
  <2> SUFFICES ASSUME NEW j \in 1..Len(tx'), NEW k \in 1..Len(tx'), Bare(tx'[j]), Bare(tx'[k]) PROVE j = k
    OBVIOUS
  <2>1. j + f = k + f
    BY <1>2 DEF OneCommand
  <2> QED BY <1>0, <2>1
<1>7. \A j \in 1..Len(rx'), k \in 1..Len(tx') : ~(~Quiet(rx'[j]) /\ Bare(tx'[k]))
  BY <1>1, <1>2 DEF OneCommand, AskOld
<1> QED BY <1>3, <1>4, <1>5, <1>6, <1>7 DEF OneCommand, Whole, Quiet, Bare, Chars

\* Nothing on the lines is the command or its answer but what comes behind.
Clear(e, f) == (\A j \in 1..Len(rx) : j > e => Quiet(rx[j])) /\ (\A k \in 1..Len(tx) : k > f => ~Bare(tx[k]))

LEMMA OneAnswer ==
  ASSUME DebugTypes, NEW e, Moves(rx, rx', e, <<>>),
         NEW f, NEW m, Moves(tx, tx', f, m), \A i \in 1..Len(m) : Bare(m[i]) => i = 1,
         Clear(e, f), gdb'.st = "ack" \/ Len(m) = 0
  PROVE  OneCommand'
<1>0. e \in {0, 1} /\ f \in {0, 1} /\ Len(tx) \in Nat /\ Len(<<>>) = 0
  BY DEF Moves
<1>1. ASSUME NEW j \in 1..Len(rx'), ~Quiet(rx'[j]) PROVE FALSE
  <2>1. AskOld(j, e)
    <3>1. \A i \in 1..0 : FALSE
      OBVIOUS
    <3> QED BY <1>0, <1>1, <3>1, AskIs DEF DebugTypes
  <2>2. j + e > e
    BY <1>0
  <2> QED BY <2>1, <2>2 DEF AskOld, Clear
<1>2. ASSUME NEW k \in 1..Len(tx'), Bare(tx'[k]) PROVE k = (Len(tx) - f) + 1 /\ gdb'.st = "ack"
  <2>1. k + f > f
    BY <1>0
  <2>2. ~(k + f \in 1..Len(tx) /\ tx'[k] = tx[k + f])
    BY <1>2, <2>1 DEF Clear
  <2>3. \E i \in 1..Len(m) : k = (Len(tx) - f) + i /\ tx'[k] = m[i]
    BY <2>2, AnswerIs, <1>2 DEF DebugTypes
  <2>4. Len(m) # 0
    <3>1. \A i \in 1..0 : FALSE
      OBVIOUS
    <3> QED BY <2>3, <3>1
  <2> QED BY <1>2, <2>3, <2>4
<1> QED BY <1>1, <1>2 DEF OneCommand, Whole, Quiet, Bare, Chars

LEMMA OneAsk ==
  ASSUME DebugTypes, NEW e, Moves(rx, rx', e, <<gdb'.packet>>), NEW f, Moves(tx, tx', f, <<>>),
         Clear(e, f), gdb'.st = "ack", gdb'.packet \in Asks, gdb'.packet.ok
  PROVE  OneCommand'
<1>0. /\ e \in {0, 1} /\ f \in {0, 1} /\ Len(rx) \in Nat
      /\ Len(<<>>) = 0 /\ Len(<<gdb'.packet>>) = 1 /\ <<gdb'.packet>>[1] = gdb'.packet
  BY DEF Moves
<1>1. ASSUME NEW j \in 1..Len(rx'), ~Quiet(rx'[j])
      PROVE  j = (Len(rx) - e) + 1 /\ rx'[j] = gdb'.packet
  <2>1. j + e > e
    BY <1>0
  <2>2. ~AskOld(j, e)
    BY <2>1 DEF AskOld, Clear
  <2>3. PICK n : n = <<gdb'.packet>>
    OBVIOUS
  <2>4. Len(n) = 1 /\ n[1] = gdb'.packet /\ Moves(rx, rx', e, n)
    BY <1>0, <2>3
  <2>5. rx \in Seq(Chars \cup Asks)
    BY DEF DebugTypes
  <2>6. AskOld(j, e) \/ \E i \in 1..Len(n) : j = (Len(rx) - e) + i /\ rx'[j] = n[i]
    BY <1>1, <2>4, <2>5, AskIs
  <2> QED BY <2>2, <2>4, <2>6
<1>2. ASSUME NEW k \in 1..Len(tx'), Bare(tx'[k]) PROVE FALSE
  <2>1. k + f > f
    BY <1>0
  <2>2. ~(k + f \in 1..Len(tx) /\ tx'[k] = tx[k + f])
    BY <1>2, <2>1 DEF Clear
  <2>3. \A i \in 1..0 : FALSE
    OBVIOUS
  <2> QED BY <1>0, <1>2, <2>2, <2>3, AnswerIs DEF DebugTypes
<1>3. Whole(gdb'.packet) = gdb'.packet
  BY ItemIs
<1>4. \A j \in 1..Len(rx') : ~Quiet(rx'[j]) => gdb'.st = "ack" /\ Whole(rx'[j]) = gdb'.packet
  BY <1>1, <1>3
<1>5. \A j, k \in 1..Len(rx') : ~Quiet(rx'[j]) /\ ~Quiet(rx'[k]) => j = k
  <2> SUFFICES ASSUME NEW j \in 1..Len(rx'), NEW k \in 1..Len(rx'), ~Quiet(rx'[j]), ~Quiet(rx'[k]) PROVE j = k
    OBVIOUS
  <2>1. j = (Len(rx) - e) + 1
    BY <1>1
  <2>2. k = (Len(rx) - e) + 1
    BY <1>1
  <2> QED BY <2>1, <2>2
<1> QED BY <1>2, <1>4, <1>5 DEF OneCommand, Whole, Quiet, Bare, Chars

\* The program goes on running, and nothing but what is of no account is said.
LEMMA HaltedKept ==
  ASSUME DebugTypes, Halted, NEW f, NEW m, Moves(tx, tx', f, m), \A i \in 1..Len(m) : ~Plus(m[i]),
         stub'.pc # "off" \/ (stub.pc = "off" /\ Len(m) = 0), done' \in Nat, done' >= done,
         gdb'.packet = gdb.packet, gdb'.st = gdb.st
  PROVE  Halted'
<1>0. f \in {0, 1} /\ Len(tx) \in Nat /\ Len(m) \in Nat
  BY DEF Moves
<1>1. ASSUME NEW k \in 1..Len(tx'), Plus(tx'[k]) PROVE k + f \in 1..Len(tx) /\ Plus(tx[k + f])
  BY <1>1, AnswerIs, ItemIs DEF DebugTypes
<1>2. done \in Nat
  BY DEF DebugTypes
<1>3. gdb'.st # "ack" => done' >= 1
  BY <1>2 DEF Halted
<1>4. \A k \in 1..Len(tx') : Plus(tx'[k]) => done' >= 1
  BY <1>1, <1>2 DEF Halted
<1>5. ASSUME stub'.pc = "off"
      PROVE  /\ gdb'.packet.cmd \in {"s", "c"} /\ gdb'.st \in {"ack", "wait"} /\ done' >= 1
             /\ gdb'.st = "wait" => \A k \in 1..Len(tx') : Quiet(tx'[k])
             /\ \A j, k \in 1..Len(tx') : j < k /\ Plus(tx'[j]) => Quiet(tx'[k])
  <2>1. \A k \in 1..Len(tx') : ~Quiet(tx'[k]) => k + f \in 1..Len(tx) /\ ~Quiet(tx[k + f])
    <3>1. \A i \in 1..0 : FALSE
      OBVIOUS
    <3> QED BY <1>5, <3>1, AnswerIs DEF DebugTypes
  <2>2. gdb.packet.cmd \in {"s", "c"} /\ gdb.st \in {"ack", "wait"} /\ done >= 1
    BY <1>5 DEF Halted
  <2>3. gdb'.st = "wait" => \A k \in 1..Len(tx') : Quiet(tx'[k])
    BY <1>5, <2>1 DEF Halted
  <2>4. ASSUME NEW j \in 1..Len(tx'), NEW k \in 1..Len(tx'), j < k, Plus(tx'[j]), ~Quiet(tx'[k]) PROVE FALSE
    <3>1. j + f \in 1..Len(tx) /\ Plus(tx[j + f]) /\ k + f \in 1..Len(tx) /\ ~Quiet(tx[k + f]) /\ j + f < k + f
      BY <1>0, <1>1, <2>1, <2>4
    <3> QED BY <1>5, <3>1 DEF Halted
  <2> QED BY <1>2, <2>2, <2>3, <2>4
<1>6. /\ gdb'.st = "wait" => gdb'.packet.cmd \in {"s", "c"}
      /\ gdb'.st = "reply" => gdb'.packet.cmd \notin {"s", "c"}
  BY DEF Halted
<1> QED BY <1>3, <1>4, <1>5, <1>6 DEF Halted, Plus, Quiet, Chars

LEMMA RestoreIs ==
  ASSUME NEW m \in [DOMAIN Code -> Bytes], NEW i, i.addr \in DOMAIN Code => i.byte \in Bytes
  PROVE  /\ Dbg!restore_instruction(m, i) \in [DOMAIN Code -> Bytes]
         /\ i.addr \notin DOMAIN Code => Dbg!restore_instruction(m, i) = m
         /\ i.addr \in DOMAIN Code => Dbg!restore_instruction(m, i) = [m EXCEPT ![i.addr] = i.byte]
<1>1. 0 \notin DOMAIN Code
  BY DebugAssumption
<1> QED BY <1>1 DEF Dbg!restore_instruction

LEMMA NullIs == Dbg!NULL.addr = 0 /\ Dbg!NULL.addr \notin DOMAIN Code
BY DebugAssumption DEF Dbg!NULL

\* i keeps what was at a before the break instruction, and so j at b, if that is anywhere.
Planted(m, a, i, m1) == i.addr = a /\ i.byte = m[a] /\ m1 = [m EXCEPT ![a] = "BREAK"]
PlantedToo(m1, b, j, m2) ==
  (j.addr = b /\ j.byte = m1[b] /\ m2 = [m1 EXCEPT ![b] = "BREAK"]) \/ (j = Dbg!NULL /\ m2 = m1)
Restorable(m, i, j, m2) ==
  /\ m2 \in [DOMAIN Code -> Bytes]
  /\ i.addr \in DOMAIN Code => i.byte \in Bytes /\ m2[i.addr] = "BREAK"
  /\ j.addr \in DOMAIN Code => j.byte \in Bytes /\ m2[j.addr] = "BREAK"
  /\ Dbg!restore_instruction(Dbg!restore_instruction(m2, j), i) = m
  /\ \A x \in DOMAIN Code : m2[x] = "code" => m[x] = "code"

\* What a step puts into memory comes out again.
LEMMA RestoresBoth ==
  ASSUME NEW m \in [DOMAIN Code -> Bytes], NEW a, NEW b, NEW i, NEW j, NEW m1, NEW m2,
         Planted(m, a, i, m1), PlantedToo(m1, b, j, m2)
  PROVE  Restorable(m, i, j, m2)
<1>0. /\ i.addr = a /\ i.byte = m[a] /\ m1 = [m EXCEPT ![a] = "BREAK"]
      /\ (j.addr = b /\ j.byte = m1[b] /\ m2 = [m1 EXCEPT ![b] = "BREAK"]) \/ (j = Dbg!NULL /\ m2 = m1)
  BY DEF Planted, PlantedToo
<1>1. m1 \in [DOMAIN Code -> Bytes] /\ m2 \in [DOMAIN Code -> Bytes]
  BY <1>0 DEF Bytes
<1>2. i.addr \in DOMAIN Code => i.byte \in Bytes /\ m2[i.addr] = "BREAK"
  BY <1>0, <1>1
<1>3. j.addr \in DOMAIN Code => j.byte \in Bytes /\ m2[j.addr] = "BREAK"
  BY <1>0, <1>1, NullIs
<1>4. Dbg!restore_instruction(m2, j) = m1
  <2>1. CASE j = Dbg!NULL /\ m2 = m1
    BY <1>1, <2>1, NullIs, RestoreIs
  <2>2. CASE j.addr = b /\ j.byte = m1[b] /\ m2 = [m1 EXCEPT ![b] = "BREAK"]
    <3>1. CASE b \in DOMAIN Code
      <4>0. j.addr \in DOMAIN Code => j.byte \in Bytes
        BY <1>3
      <4>1. j.addr \in DOMAIN Code => Dbg!restore_instruction(m2, j) = [m2 EXCEPT ![j.addr] = j.byte]
        BY <1>1, <4>0, RestoreIs, Zenon
      <4>2. Dbg!restore_instruction(m2, j) = [m2 EXCEPT ![b] = m1[b]]
        BY <2>2, <3>1, <4>1
      <4> QED BY <1>1, <2>2, <3>1, <4>2
    <3>2. CASE b \notin DOMAIN Code
      <4>1. Dbg!restore_instruction(m2, j) = m2
        BY <1>1, <1>3, <2>2, <3>2, RestoreIs
      <4>2. m2 = m1
        BY <1>1, <2>2, <3>2
      <4> QED BY <4>1, <4>2
    <3> QED BY <3>1, <3>2
  <2> QED BY <1>0, <2>1, <2>2
<1>5. Dbg!restore_instruction(m1, i) = m
  <2>1. CASE a \in DOMAIN Code
    <3>0. i.addr \in DOMAIN Code => i.byte \in Bytes
      BY <1>2
    <3>1. i.addr \in DOMAIN Code => Dbg!restore_instruction(m1, i) = [m1 EXCEPT ![i.addr] = i.byte]
      BY <1>1, <3>0, RestoreIs, Zenon
    <3>2. Dbg!restore_instruction(m1, i) = [m1 EXCEPT ![a] = m[a]]
      BY <1>0, <2>1, <3>1
    <3> QED BY <1>0, <2>1, <3>2
  <2>2. CASE a \notin DOMAIN Code
    <3>1. Dbg!restore_instruction(m1, i) = m1
      BY <1>0, <1>1, <1>2, <2>2, RestoreIs
    <3>2. m1 = m
      BY <1>0, <2>2
    <3> QED BY <3>1, <3>2
  <2> QED BY <2>1, <2>2
<1>6. \A x \in DOMAIN Code : m2[x] = "code" => m[x] = "code"
  BY <1>0, <1>1 DEF Bytes
<1> QED BY <1>1, <1>2, <1>3, <1>4, <1>5, <1>6 DEF Restorable

LEMMA BaseIs ==
  ASSUME DebugTypes
  PROVE  Base \in [DOMAIN Code -> Bytes]
<1>1. 1 \in 1..2 /\ 2 \in 1..2
  OBVIOUS
<1>2. Dbg!restore_instruction(mem, instructions[2]) \in [DOMAIN Code -> Bytes]
  BY <1>1, RestoreIs DEF DebugTypes
<1> QED BY <1>1, <1>2, RestoreIs DEF DebugTypes, Base

\* Nothing to restore.
LEMMA BaseClear ==
  /\ DebugTypes /\ instructions = <<Dbg!NULL, Dbg!NULL>> => Base = mem
  /\ (DebugTypes /\ instructions = <<Dbg!NULL, Dbg!NULL>> => Base = mem)'
<1>1. \A m \in [DOMAIN Code -> Bytes] : Dbg!restore_instruction(m, Dbg!NULL) = m
  BY NullIs, RestoreIs
<1>2. DebugTypes /\ instructions = <<Dbg!NULL, Dbg!NULL>> => Base = mem
  BY <1>1 DEF DebugTypes, Base
<1>3. (DebugTypes /\ instructions = <<Dbg!NULL, Dbg!NULL>> => Base = mem)'
  BY <1>1 DEF DebugTypes, Base, Dbg!restore_instruction, Dbg!NULL
<1> QED BY <1>2, <1>3

LEMMA MemoryKept ==
  ASSUME MemoryIs, mem' = mem, instructions' = instructions, gdb'.packet = gdb.packet, gdb'.bps = gdb.bps,
         gdb'.st = "idle" <=> gdb.st = "idle",
         done' = done \/ gdb.packet.cmd # "M", stub'.pc # "off" => stub.pc # "off"
  PROVE  MemoryIs'
<1>1. Base' = Base
  BY DEF Base, Dbg!restore_instruction
<1>2. Expected' = Expected
  BY DEF Expected, Set
<1>3. Breaks(Base)' = Breaks(Base)
  BY <1>1 DEF Breaks
<1>4. Dbg!NULL' = Dbg!NULL
  BY DEF Dbg!NULL
<1> QED BY <1>2, <1>3, <1>4 DEF MemoryIs

LEMMA StepKept ==
  ASSUME StepIs, mem' = mem, instructions' = instructions, registers' = registers, thread' = thread,
         stepped' = stepped, done' = done, gdb'.packet = gdb.packet,
         stub'.pc = "off" <=> stub.pc = "off"
  PROVE  StepIs'
BY DEF StepIs, Unmoved, Moved, Soft, Dbg!get_jmp_addr

\* The instructions that lead elsewhere.
JumpOf(a, stack) ==
  IF Code[a].op \in {"bcc", "jmp", "jsr"} THEN Code[a].to ELSE IF Code[a].op = "rts" THEN Head(stack) ELSE 0
LEMMA JumpIs ==
  /\ \A a : mem[a] = "code" => Dbg!get_jmp_addr(a) = JumpOf(a, thread[registers.th].stack)
  /\ \A a : mem'[a] = "code" => Dbg!get_jmp_addr(a)' = JumpOf(a, thread'[registers'.th].stack)
<1>1. ASSUME NEW a, mem[a] = "code" PROVE Dbg!get_jmp_addr(a) = JumpOf(a, thread[registers.th].stack)
  <2>1. CASE Code[a].op \in {"bcc", "jmp", "jsr"}
    BY <1>1, <2>1 DEF Dbg!get_jmp_addr, JumpOf
  <2>2. CASE Code[a].op = "rts"
    BY <1>1, <2>2 DEF Dbg!get_jmp_addr, JumpOf
  <2>3. CASE Code[a].op \notin {"bcc", "jmp", "jsr", "rts"}
    BY <1>1, <2>3 DEF Dbg!get_jmp_addr, JumpOf
  <2> QED BY <2>1, <2>2, <2>3
<1>2. ASSUME NEW a, mem'[a] = "code" PROVE Dbg!get_jmp_addr(a)' = JumpOf(a, thread'[registers'.th].stack)
  <2>1. CASE Code[a].op \in {"bcc", "jmp", "jsr"}
    BY <1>2, <2>1 DEF Dbg!get_jmp_addr, JumpOf
  <2>2. CASE Code[a].op = "rts"
    BY <1>2, <2>2 DEF Dbg!get_jmp_addr, JumpOf
  <2>3. CASE Code[a].op \notin {"bcc", "jmp", "jsr", "rts"}
    BY <1>2, <2>3 DEF Dbg!get_jmp_addr, JumpOf
  <2> QED BY <2>1, <2>2, <2>3
<1> QED BY <1>1, <1>2

LEMMA LinesOf ==
  /\ DebugTypes => Moves(rx, rx, 0, <<>>) /\ Moves(tx, tx, 0, <<>>)
  /\ \A i \in 1..Len(<<>>) : FALSE
<1>1. \A i \in 1..Len(<<>>) : FALSE
  <2>1. Len(<<>>) = 0 /\ \A i \in 1..0 : FALSE
    OBVIOUS
  <2> QED BY <2>1
<1> QED BY <1>1, MovesNone DEF DebugTypes

LEMMA SpoiledLast ==
  ASSUME NEW S, NEW q \in Seq(S), q # <<>>, NEW bad \in {Dbg!char("?"), [Dbg!Last(q) EXCEPT !.ok = FALSE]},
         bad # Dbg!Last(q), \A y : \A x \in S : Spoiled(x, y) => y \in S
  PROVE  /\ Moves(q, Dbg!Front(q) \o <<bad>>, 0, <<>>)
         /\ Dbg!Front(q) \o <<bad>> \in Seq(S)
<1>1. Spoiled(Dbg!Last(q), bad)
  BY DEF Spoiled
<1>2. Dbg!Last(q) \in S
  <2>1. Len(q) \in Nat \ {0}
    BY EmptySeq, LenProperties
  <2>2. Len(q) \in 1..Len(q)
    BY <2>1
  <2> QED BY <2>2, ElementOfSeq DEF Dbg!Last
<1>3. bad \in S
  BY <1>1, <1>2
<1> QED BY <1>1, <1>3, MovesLast

LEMMA DisturbKeeps ==
  ASSUME DInv, Dbg!disturb
  PROVE  DInv'
<1>0. DebugTypes /\ OneCommand /\ Halted /\ MemoryIs /\ StepIs
  BY DEF DInv
<1>1. UNCHANGED <<mem, instructions, registers, thread, stub, stepped, gdb, done>>
  BY DEF Dbg!disturb, Dbg!boardVars, Dbg!codeVars
<1>2. /\ Moves(rx, rx', 0, <<>>) /\ rx' \in Seq(Chars \cup Asks)
      /\ Moves(tx, tx', 0, <<>>) /\ tx' \in Seq(Chars \cup Replies)
  <2>1. rx \in Seq(Chars \cup Asks) /\ tx \in Seq(Chars \cup Replies)
    BY <1>0 DEF DebugTypes
  <2>2. CASE UNCHANGED tx /\ rx # <<>> /\
             \E bad \in {Dbg!char("?"), [Dbg!Last(rx) EXCEPT !.ok = FALSE]} :
               bad # Dbg!Last(rx) /\ rx' = Dbg!Front(rx) \o <<bad>>
    <3>1. PICK bad \in {Dbg!char("?"), [Dbg!Last(rx) EXCEPT !.ok = FALSE]} :
               bad # Dbg!Last(rx) /\ rx' = Dbg!Front(rx) \o <<bad>>
      BY <2>2
    <3>2. \A y : \A x \in Chars \cup Asks : Spoiled(x, y) => y \in Chars \cup Asks
      BY SpoiledIs
    <3>3. Moves(rx, rx', 0, <<>>) /\ rx' \in Seq(Chars \cup Asks)
      BY <2>1, <2>2, <3>1, <3>2, SpoiledLast, Zenon
    <3> QED BY <2>1, <2>2, <3>3, <1>0, LinesOf
  <2>3. CASE UNCHANGED rx /\ tx # <<>> /\
             \E bad \in {Dbg!char("?"), [Dbg!Last(tx) EXCEPT !.ok = FALSE]} :
               bad # Dbg!Last(tx) /\ tx' = Dbg!Front(tx) \o <<bad>>
    <3>1. PICK bad \in {Dbg!char("?"), [Dbg!Last(tx) EXCEPT !.ok = FALSE]} :
               bad # Dbg!Last(tx) /\ tx' = Dbg!Front(tx) \o <<bad>>
      BY <2>3
    <3>2. \A y : \A x \in Chars \cup Replies : Spoiled(x, y) => y \in Chars \cup Replies
      BY SpoiledIs
    <3>3. Moves(tx, tx', 0, <<>>) /\ tx' \in Seq(Chars \cup Replies)
      BY <2>1, <2>3, <3>1, <3>2, SpoiledLast, Zenon
    <3> QED BY <2>1, <2>3, <3>3, <1>0, LinesOf
  <2> QED BY <2>2, <2>3 DEF Dbg!disturb
<1>3. DebugTypes'
  BY <1>0, <1>1, <1>2 DEF DebugTypes, Chars, Dbg!chars, Dbg!char, Asks, Replies, Bytes
<1>4. OneCommand'
  BY <1>0, <1>1, <1>2, LinesOf, OneKept
<1>5. Halted'
  <2>1. done' \in Nat /\ done' >= done /\ Len(<<>>) = 0 /\ (stub'.pc # "off" \/ stub.pc = "off")
    BY <1>0, <1>1 DEF DebugTypes
  <2> QED BY <1>0, <1>1, <1>2, <2>1, LinesOf, HaltedKept
<1>6. MemoryIs'
  BY <1>0, <1>1, MemoryKept
<1>7. StepIs'
  BY <1>0, <1>1, StepKept
<1> QED BY <1>3, <1>4, <1>5, <1>6, <1>7 DEF DInv

\* While gdb does not wait for the answer to a command, neither is on the line; when
\* the answer comes, nothing else of the kind is.
LEMMA ClearIs ==
  ASSUME DebugTypes, OneCommand
  PROVE  /\ gdb.st # "ack" => Clear(0, 0)
         /\ tx # <<>> /\ Bare(Head(tx)) => Clear(0, 1)
         /\ rx # <<>> /\ ~Quiet(Head(rx)) => Clear(1, 0)
<1>1. gdb.st # "ack" => Clear(0, 0)
  BY DEF OneCommand, Clear
<1>2. ASSUME tx # <<>>, Bare(Head(tx)) PROVE Clear(0, 1)
  <2>1. Len(tx) \in Nat /\ Len(tx) >= 1 /\ Head(tx) = tx[1]
    BY <1>2, MovesOut, LenProperties DEF DebugTypes
  <2>2. 1 \in 1..Len(tx) /\ Bare(tx[1])
    BY <1>2, <2>1
  <2>3. \A j \in 1..Len(rx) : Quiet(rx[j])
    BY <2>2 DEF OneCommand
  <2>4. \A k \in 1..Len(tx) : Bare(tx[k]) => k = 1
    BY <2>2 DEF OneCommand
  <2> QED BY <2>3, <2>4 DEF Clear
<1>3. ASSUME rx # <<>>, ~Quiet(Head(rx)) PROVE Clear(1, 0)
  <2>1. Len(rx) \in Nat /\ Len(rx) >= 1 /\ Head(rx) = rx[1]
    BY <1>3, MovesOut, LenProperties DEF DebugTypes
  <2>2. 1 \in 1..Len(rx) /\ ~Quiet(rx[1])
    BY <1>3, <2>1
  <2>3. \A j \in 1..Len(rx) : ~Quiet(rx[j]) => j = 1
    BY <2>2 DEF OneCommand
  <2>4. \A k \in 1..Len(tx) : ~Bare(tx[k])
    BY <2>2 DEF OneCommand
  <2> QED BY <2>3, <2>4 DEF Clear
<1> QED BY <1>1, <1>2, <1>3

LEMMA PlusIs == \A x : Plus(x) => Bare(x)
BY ItemIs

\* Silence: what comes is the only thing on the line.
LEMMA MovesOnly ==
  ASSUME NEW S, NEW x \in S
  PROVE  Moves(<<>>, <<x>>, 0, <<x>>) /\ <<x>> \in Seq(S)
<1>1. Len(<<>>) = 0 /\ Len(<<x>>) = 1 /\ \A j \in 1..0 : FALSE
  OBVIOUS
<1> QED BY <1>1 DEF Moves

LEMMA IssuesKeeps ==
  ASSUME DInv, NEW p \in Dbg!Commands, Dbg!issues(p)
  PROVE  DInv'
<1>0. DebugTypes /\ OneCommand /\ Halted /\ MemoryIs /\ StepIs
  BY DEF DInv
<1>1. /\ UNCHANGED <<mem, instructions, registers, thread, stub, tx>> /\ gdb.st = "idle"
      /\ rx' = Append(rx, p) /\ done' = 0 /\ stepped' = 0
  BY DEF Dbg!issues, Dbg!codeVars
<1>2. p \in Asks /\ p.ok = TRUE /\ (p.cmd = "M" => p.addr \in Breakpoint)
  <2> DEFINE A == {Dbg!packet(cmd, 0, "code") : cmd \in {"g", "s", "c"}}
             B == {Dbg!packet("M", a, byte) : a \in Breakpoint, byte \in {"code", "BREAK"}}
  <2>1. p \in A \/ p \in B
    <3>1. Dbg!Commands = A \cup B
      BY DEF Dbg!Commands
    <3> HIDE DEF A, B
    <3> QED BY <3>1
  <2>2. CASE p \in A
    <3>1. PICK cmd \in {"g", "s", "c"} : p = Dbg!packet(cmd, 0, "code")
      BY <2>2
    <3> QED BY <3>1 DEF Dbg!packet, Asks
  <2>3. CASE p \in B
    <3>1. PICK a \in Breakpoint, byte \in {"code", "BREAK"} : p = Dbg!packet("M", a, byte)
      BY <2>3
    <3>2. p = [cmd |-> "M", addr |-> a, byte |-> byte, ok |-> TRUE]
      BY <3>1 DEF Dbg!packet
    <3>3. PICK x \in Breakpoint \cup {0} : x = a
      OBVIOUS
    <3>4. p = [cmd |-> "M", addr |-> x, byte |-> byte, ok |-> TRUE] /\ x \in Breakpoint
      BY <3>2, <3>3
    <3>5. p \in Asks
      BY <3>4 DEF Asks
    <3> QED BY <3>4, <3>5
  <2> HIDE DEF A, B
  <2> QED BY <2>1, <2>2, <2>3
<1>3. /\ DOMAIN gdb' = {"st", "packet", "bps", "commands"}
      /\ gdb'.st = "ack" /\ gdb'.packet = p /\ gdb'.bps = gdb.bps
  <2>1. gdb' = [gdb EXCEPT !.st = "ack", !.packet = p, !.commands = @ + 1]
    BY DEF Dbg!issues
  <2>2. DOMAIN gdb = {"st", "packet", "bps", "commands"}
    BY <1>0 DEF DebugTypes
  <2> QED BY <2>1, <2>2
<1>4. /\ Moves(rx, rx', 0, <<p>>) /\ rx' \in Seq(Chars \cup Asks)
      /\ Moves(tx, tx', 0, <<>>)
  <2>1. rx \in Seq(Chars \cup Asks) /\ tx \in Seq(Chars \cup Replies) /\ p \in Chars \cup Asks
    BY <1>0, <1>2 DEF DebugTypes
  <2>2. Moves(rx, Append(rx, p), 0, <<p>>) /\ Append(rx, p) \in Seq(Chars \cup Asks)
    BY <2>1, MovesIn
  <2> QED BY <1>0, <1>1, <2>2, LinesOf
<1>5. DebugTypes'
  BY <1>0, <1>1, <1>2, <1>3, <1>4 DEF DebugTypes, Chars, Dbg!chars, Dbg!char, Asks, Replies, Bytes
<1>6. OneCommand'
  <2>1. Clear(0, 0)
    BY <1>0, <1>1, ClearIs
  <2> QED BY <1>0, <1>2, <1>3, <1>4, <2>1, OneAsk
<1>7. Halted'
  <2>1. stub.pc # "off"
    BY <1>0, <1>1 DEF Halted
  <2>2. \A k \in 1..Len(tx) : ~Plus(tx[k])
    BY <1>0, <1>1, PlusIs DEF OneCommand
  <2> QED BY <1>1, <1>3, <2>1, <2>2 DEF Halted, Plus
<1>8. MemoryIs'
  <2>1. Base' = Base /\ Dbg!NULL' = Dbg!NULL
    BY <1>1 DEF Base, Dbg!restore_instruction, Dbg!NULL
  <2>2. Expected' = Expected
    BY <1>1, <1>3 DEF Expected
  <2>3. Breaks(Base)' = Breaks(Base)
    BY <2>1 DEF Breaks
  <2> QED BY <1>0, <1>1, <2>1, <2>2, <2>3 DEF MemoryIs
<1>9. StepIs'
  <2>1. stub.pc # "off"
    BY <1>0, <1>1 DEF Halted
  <2> QED BY <1>1, <2>1 DEF StepIs
<1> QED BY <1>5, <1>6, <1>7, <1>8, <1>9 DEF DInv

LEMMA AwaitsAckKeeps ==
  ASSUME DInv, Dbg!awaits_ack
  PROVE  DInv'
<1>0. DebugTypes /\ OneCommand /\ Halted /\ MemoryIs /\ StepIs
  BY DEF DInv
<1>1. UNCHANGED <<mem, instructions, registers, thread, stub, stepped, done>> /\ gdb.st = "ack"
  BY DEF Dbg!awaits_ack, Dbg!boardVars, Dbg!codeVars
<1>2. /\ rx \in Seq(Chars \cup Asks) /\ tx \in Seq(Chars \cup Replies)
      /\ gdb.packet \in Chars \cup Asks /\ gdb.packet \in Asks /\ gdb.packet.ok
      /\ Dbg!char("+") \in Chars \cup Asks /\ Quiet(Dbg!char("+"))
      /\ done' \in Nat /\ done' >= done /\ Len(<<>>) = 0 /\ (stub'.pc # "off" \/ stub.pc = "off")
  BY <1>0, <1>1, ItemIs DEF DebugTypes, Quiet
<1>3. /\ Moves(tx, tx, 0, <<>>) /\ Moves(rx, rx, 0, <<>>) /\ \A i \in 1..Len(<<>>) : FALSE
  BY <1>0, LinesOf
<1>10. ASSUME gdb' = gdb, OneCommand', NEW f, Moves(tx, tx', f, <<>>),
              rx' \in Seq(Chars \cup Asks), tx' \in Seq(Chars \cup Replies)
       PROVE  DInv'
  <2>1. DebugTypes'
    BY <1>0, <1>1, <1>10 DEF DebugTypes, Chars, Dbg!chars, Dbg!char, Asks, Replies, Bytes
  <2>2. Halted'
    BY <1>0, <1>1, <1>2, <1>3, <1>10, HaltedKept
  <2>3. MemoryIs'
    BY <1>0, <1>1, <1>10, MemoryKept
  <2>4. StepIs'
    BY <1>0, <1>1, <1>10, StepKept
  <2> QED BY <1>10, <2>1, <2>2, <2>3, <2>4 DEF DInv
<1>4. CASE Dbg!Silent /\ rx' = <<gdb.packet>> /\ UNCHANGED <<gdb, tx>>
  <2>1. rx = <<>> /\ tx = <<>>
    BY <1>4 DEF Dbg!Silent
  <2>2. Clear(0, 0)
    BY <1>3, <2>1 DEF Clear
  <2>3. Moves(rx, rx', 0, <<gdb'.packet>>) /\ rx' \in Seq(Chars \cup Asks) /\ Moves(tx, tx', 0, <<>>)
    BY <1>2, <1>3, <1>4, <2>1, MovesOnly
  <2>4. OneCommand'
    BY <1>0, <1>1, <1>2, <1>4, <2>2, <2>3, OneAsk
  <2> QED BY <1>2, <1>4, <1>10, <2>3, <2>4
<1>5. ASSUME tx # <<>>, tx' = Tail(tx)
      PROVE  Moves(tx, tx', 1, <<>>) /\ tx' \in Seq(Chars \cup Replies) /\ Head(tx) = tx[1] /\ Len(tx) >= 1 /\ Len(tx) \in Nat
  BY <1>2, <1>5, MovesOut, LenProperties
<1>6. CASE /\ tx # <<>> /\ tx' = Tail(tx) /\ Head(tx) = Dbg!char("+") /\ UNCHANGED rx
           /\ gdb' = [gdb EXCEPT !.st = IF gdb.packet.cmd \in {"s", "c"} THEN "wait" ELSE "reply"]
  <2>1. /\ DOMAIN gdb' = {"st", "packet", "bps", "commands"} /\ gdb'.packet = gdb.packet /\ gdb'.bps = gdb.bps
        /\ gdb'.st = IF gdb.packet.cmd \in {"s", "c"} THEN "wait" ELSE "reply"
    BY <1>0, <1>6 DEF DebugTypes
  <2>2. Clear(0, 1)
    BY <1>0, <1>6, ItemIs, ClearIs DEF Bare
  <2>3. Moves(tx, tx', 1, <<>>) /\ tx' \in Seq(Chars \cup Replies) /\ Plus(tx[1]) /\ Len(tx) >= 1 /\ Len(tx) \in Nat
    BY <1>5, <1>6 DEF Plus
  <2>4. OneCommand'
    BY <1>0, <1>2, <1>3, <1>6, <2>2, <2>3, OneAnswer
  <2>5. DebugTypes'
    BY <1>0, <1>1, <1>6, <2>1, <2>3 DEF DebugTypes, Chars, Dbg!chars, Dbg!char, Asks, Replies, Bytes
  <2>6. done >= 1
    BY <1>0, <2>3 DEF Halted
  <2>7. ASSUME stub.pc = "off", NEW k \in 1..Len(tx'), ~Quiet(tx'[k]) PROVE FALSE
    <3>1. k + 1 \in 1..Len(tx) /\ ~Quiet(tx[k + 1])
      BY <1>0, <1>3, <2>3, <2>7, AnswerIs DEF DebugTypes
    <3>2. 1 \in 1..Len(tx) /\ 1 < k + 1
      BY <2>3
    <3> QED BY <1>0, <2>3, <2>7, <3>1, <3>2 DEF Halted
  <2>8. Halted'
    <3>1. stub.pc = "off" => gdb.packet.cmd \in {"s", "c"}
      BY <1>0 DEF Halted
    <3>2. stub.pc = "off" => \A k \in 1..Len(tx') : Quiet(tx'[k])
      BY <2>7
    <3> QED BY <1>1, <2>1, <2>6, <3>1, <3>2 DEF Halted, Quiet, Chars
  <2>9. MemoryIs'
    <3>1. gdb'.st = "idle" <=> gdb.st = "idle"
      BY <1>1, <2>1
    <3> QED BY <1>0, <1>1, <2>1, <3>1, MemoryKept
  <2>10. StepIs'
    BY <1>0, <1>1, <2>1, StepKept
  <2> QED BY <2>4, <2>5, <2>8, <2>9, <2>10 DEF DInv
<1>7. CASE tx # <<>> /\ tx' = Tail(tx) /\ Head(tx) = Dbg!char("-") /\ rx' = Append(rx, gdb.packet) /\ UNCHANGED gdb
  <2>1. Clear(0, 1)
    BY <1>0, <1>7, ItemIs, ClearIs
  <2>2. Moves(rx, rx', 0, <<gdb'.packet>>) /\ rx' \in Seq(Chars \cup Asks)
    BY <1>2, <1>7, MovesIn
  <2>3. Moves(tx, tx', 1, <<>>) /\ tx' \in Seq(Chars \cup Replies)
    BY <1>5, <1>7
  <2>4. OneCommand'
    BY <1>0, <1>1, <1>2, <1>7, <2>1, <2>2, <2>3, OneAsk
  <2> QED BY <1>7, <1>10, <2>2, <2>3, <2>4
<1>8. CASE tx # <<>> /\ tx' = Tail(tx) /\ UNCHANGED rx /\ UNCHANGED gdb
  <2>3. Moves(tx, tx', 1, <<>>) /\ tx' \in Seq(Chars \cup Replies)
    BY <1>5, <1>8
  <2>4. OneCommand'
    BY <1>0, <1>3, <1>8, <2>3, OneKept
  <2> QED BY <1>2, <1>8, <1>10, <2>3, <2>4
<1>9. CASE tx # <<>> /\ tx' = Tail(tx) /\ rx' = Append(rx, Dbg!char("+")) /\ UNCHANGED gdb
  <2>2. Moves(rx, rx', 0, <<Dbg!char("+")>>) /\ rx' \in Seq(Chars \cup Asks)
    BY <1>2, <1>9, MovesIn
  <2>3. Moves(tx, tx', 1, <<>>) /\ tx' \in Seq(Chars \cup Replies)
    BY <1>5, <1>9
  <2>4. OneCommand'
    <3>1. \A i \in 1..Len(<<Dbg!char("+")>>) : Quiet(<<Dbg!char("+")>>[i])
      <4>1. PICK x : x = Dbg!char("+")
        OBVIOUS
      <4>2. \A i \in 1..Len(<<x>>) : <<x>>[i] = x
        OBVIOUS
      <4> QED BY <1>2, <4>1, <4>2
    <3> QED BY <1>0, <1>3, <1>9, <2>2, <2>3, <3>1, OneKept
  <2> QED BY <1>9, <1>10, <2>2, <2>3, <2>4
<1> QED
  <2>1. \/ Dbg!Silent /\ rx' = <<gdb.packet>> /\ UNCHANGED <<gdb, tx>>
        \/ /\ tx # <<>> /\ tx' = Tail(tx)
           /\ \/ /\ Head(tx) = Dbg!char("+") /\ UNCHANGED rx
                 /\ gdb' = [gdb EXCEPT !.st = IF gdb.packet.cmd \in {"s", "c"} THEN "wait" ELSE "reply"]
              \/ /\ rx' = CASE Head(tx) = Dbg!char("-") -> Append(rx, gdb.packet)
                            [] Head(tx) = Dbg!char("?") -> rx
                            [] OTHER                    -> Append(rx, Dbg!char("+"))
                 /\ UNCHANGED gdb
    BY DEF Dbg!awaits_ack
  <2>2. CASE /\ tx # <<>> /\ tx' = Tail(tx)
             /\ rx' = CASE Head(tx) = Dbg!char("-") -> Append(rx, gdb.packet)
                        [] Head(tx) = Dbg!char("?") -> rx
                        [] OTHER                    -> Append(rx, Dbg!char("+"))
             /\ UNCHANGED gdb
    <3>0. Dbg!char("-") # Dbg!char("?")
      BY DEF Dbg!char
    <3>1. CASE Head(tx) = Dbg!char("-")
      <4>1. rx' = Append(rx, gdb.packet)
        BY <2>2, <3>0, <3>1
      <4> QED BY <1>7, <2>2, <3>1, <4>1
    <3>2. CASE Head(tx) = Dbg!char("?")
      <4>1. rx' = rx
        BY <2>2, <3>0, <3>2
      <4> QED BY <1>8, <2>2, <4>1
    <3>3. CASE Head(tx) # Dbg!char("-") /\ Head(tx) # Dbg!char("?")
      <4>1. rx' = Append(rx, Dbg!char("+"))
        BY <2>2, <3>3
      <4> QED BY <1>9, <2>2, <4>1
    <3> QED BY <3>1, <3>2, <3>3
  <2> QED BY <1>4, <1>6, <2>1, <2>2

LEMMA AwaitsReplyKeeps ==
  ASSUME DInv, Dbg!awaits_reply
  PROVE  DInv'
<1>0. DebugTypes /\ OneCommand /\ Halted /\ MemoryIs /\ StepIs
  BY DEF DInv
<1>1. UNCHANGED <<mem, instructions, registers, thread, stub, stepped, done>> /\ gdb.st \in {"reply", "wait"}
  BY DEF Dbg!awaits_reply, Dbg!boardVars, Dbg!codeVars
<1>2. /\ rx \in Seq(Chars \cup Asks) /\ tx \in Seq(Chars \cup Replies)
      /\ \A x \in {"+", "-", "?"} : Dbg!char(x) \in Chars \cup Asks /\ Quiet(Dbg!char(x))
      /\ done' \in Nat /\ done' >= done /\ Len(<<>>) = 0 /\ (stub'.pc # "off" \/ stub.pc = "off")
  BY <1>0, <1>1, ItemIs DEF DebugTypes, Quiet
<1>3. /\ Moves(tx, tx, 0, <<>>) /\ Moves(rx, rx, 0, <<>>) /\ \A i \in 1..Len(<<>>) : FALSE
  BY <1>0, LinesOf
<1>4. ASSUME NEW c \in {"+", "-", "?"} PROVE \A i \in 1..Len(<<Dbg!char(c)>>) : Quiet(<<Dbg!char(c)>>[i])
  <2>1. PICK x : x = Dbg!char(c)
    OBVIOUS
  <2>2. \A i \in 1..Len(<<x>>) : <<x>>[i] = x
    OBVIOUS
  <2> QED BY <1>2, <2>1, <2>2
<1>5. ASSUME tx # <<>>, tx' = Tail(tx)
      PROVE  Moves(tx, tx', 1, <<>>) /\ tx' \in Seq(Chars \cup Replies) /\ Head(tx) = tx[1] /\ Len(tx) >= 1 /\ Len(tx) \in Nat
  BY <1>2, <1>5, MovesOut, LenProperties
\* Nothing but the lines changes.
<1>6. ASSUME gdb' = gdb, NEW e, NEW n, Moves(rx, rx', e, n), \A i \in 1..Len(n) : Quiet(n[i]), NEW f, Moves(tx, tx', f, <<>>),
              rx' \in Seq(Chars \cup Asks), tx' \in Seq(Chars \cup Replies)
       PROVE  DInv'
  <2>1. DebugTypes'
    BY <1>0, <1>1, <1>6 DEF DebugTypes, Chars, Dbg!chars, Dbg!char, Asks, Replies, Bytes
  <2>2. Halted'
    BY <1>0, <1>1, <1>2, <1>3, <1>6, HaltedKept
  <2>3. MemoryIs'
    BY <1>0, <1>1, <1>6, MemoryKept
  <2>4. StepIs'
    BY <1>0, <1>1, <1>6, StepKept
  <2>5. OneCommand'
    BY <1>0, <1>3, <1>6, OneKept
  <2> QED BY <2>1, <2>2, <2>3, <2>4, <2>5 DEF DInv
<1>7. CASE Dbg!Silent /\ rx' = <<Dbg!char(IF gdb.st = "reply" THEN "-" ELSE "?")>> /\ UNCHANGED <<gdb, tx>>
  <2>1. rx = <<>>
    BY <1>7 DEF Dbg!Silent
  <2>2. PICK c \in {"+", "-", "?"} : rx' = <<Dbg!char(c)>>
    BY <1>7
  <2>3. Moves(rx, rx', 0, <<Dbg!char(c)>>) /\ rx' \in Seq(Chars \cup Asks)
    BY <1>2, <2>1, <2>2, MovesOnly
  <2> QED BY <1>2, <1>3, <1>4, <1>6, <1>7, <2>3
<1>8. CASE tx # <<>> /\ tx' = Tail(tx) /\ UNCHANGED <<gdb, rx>>
  <2>1. Moves(tx, tx', 1, <<>>) /\ tx' \in Seq(Chars \cup Replies)
    BY <1>5, <1>8
  <2> QED BY <1>2, <1>3, <1>6, <1>8, <2>1
<1>9. CASE tx # <<>> /\ tx' = Tail(tx) /\ rx' = Append(rx, Dbg!char("-")) /\ UNCHANGED gdb
  <2>1. Moves(tx, tx', 1, <<>>) /\ tx' \in Seq(Chars \cup Replies)
    BY <1>5, <1>9
  <2>2. Moves(rx, rx', 0, <<Dbg!char("-")>>) /\ rx' \in Seq(Chars \cup Asks)
    BY <1>2, <1>9, MovesIn
  <2> QED BY <1>4, <1>6, <1>9, <2>1, <2>2
<1>10. CASE /\ tx # <<>> /\ tx' = Tail(tx) /\ Head(tx).ok /\ rx' = Append(rx, Dbg!char("+"))
            /\ gdb' = [gdb EXCEPT
                   !.st = "idle",
                   !.bps = IF gdb.packet.cmd # "M" THEN @
                           ELSE IF gdb.packet.byte = "BREAK" THEN @ \cup {gdb.packet.addr}
                           ELSE @ \ {gdb.packet.addr}]
  <2>1. Moves(tx, tx', 1, <<>>) /\ tx' \in Seq(Chars \cup Replies) /\ Head(tx) = tx[1] /\ 1 \in 1..Len(tx)
    BY <1>5, <1>10
  <2>2. Moves(rx, rx', 0, <<Dbg!char("+")>>) /\ rx' \in Seq(Chars \cup Asks)
    BY <1>2, <1>10, MovesIn
  <2>3. DOMAIN gdb' = {"st", "packet", "bps", "commands"} /\ gdb'.st = "idle" /\ gdb'.packet = gdb.packet
    BY <1>0, <1>10 DEF DebugTypes
  <2>4. gdb'.bps = IF gdb.packet.cmd = "M" THEN Set(gdb.packet, gdb.bps) ELSE gdb.bps
    BY <1>0, <1>10 DEF DebugTypes, Set
  <2>5. stub.pc # "off" /\ done >= 1
    <3>1. ~Quiet(tx[1])
      BY <1>10, <2>1, ItemIs DEF Quiet
    <3> QED BY <1>0, <1>1, <2>1, <3>1 DEF Halted
  <2>6. DebugTypes'
    BY <1>0, <1>1, <2>1, <2>2, <2>3 DEF DebugTypes, Chars, Dbg!chars, Dbg!char, Asks, Replies, Bytes
  <2>7. OneCommand'
    <3>1. gdb.st = "ack" => gdb'.st = "ack"
      BY <1>1
    <3> QED BY <1>0, <1>3, <1>4, <2>1, <2>2, <2>3, <3>1, OneKept
  <2>8. Halted'
    BY <1>1, <2>3, <2>5 DEF Halted
  <2>9. MemoryIs'
    <3>1. Base' = Base /\ Dbg!NULL' = Dbg!NULL
      BY <1>1 DEF Base, Dbg!restore_instruction, Dbg!NULL
    <3>2. Expected = IF gdb.packet.cmd = "M" THEN Set(gdb.packet, gdb.bps) ELSE gdb.bps
      <4>1. done > 0 /\ gdb.st # "idle"
        BY <1>0, <1>1, <2>5 DEF DebugTypes
      <4> QED BY <4>1 DEF Expected
    <3>3. Expected' = gdb'.bps
      BY <2>3 DEF Expected
    <3>4. Breaks(Base)' = Breaks(Base)
      BY <3>1 DEF Breaks
    <3> QED BY <1>0, <1>1, <2>4, <3>1, <3>2, <3>3, <3>4 DEF MemoryIs
  <2>10. StepIs'
    BY <1>0, <1>1, <2>3, StepKept
  <2> QED BY <2>6, <2>7, <2>8, <2>9, <2>10 DEF DInv
<1> QED BY <1>7, <1>8, <1>9, <1>10 DEF Dbg!awaits_reply

LEMMA PutsKeeps ==
  ASSUME DInv, Dbg!stub_puts
  PROVE  DInv'
<1>0. DebugTypes /\ OneCommand /\ Halted /\ MemoryIs /\ StepIs
  BY DEF DInv
<1>1. /\ UNCHANGED <<mem, instructions, registers, thread, gdb, done, stepped>> /\ stub.pc = "puts" /\ rx # <<>>
  BY DEF Dbg!stub_puts, Dbg!codeVars, Dbg!ghosts, Dbg!Reads
<1>2. /\ rx \in Seq(Chars \cup Asks) /\ tx \in Seq(Chars \cup Replies)
      /\ stub.sendbuf \in Chars \cup Replies /\ Dbg!char("?") \in Chars \cup Asks
      /\ ~Bare(stub.sendbuf) /\ ~Plus(stub.sendbuf)
  BY <1>0, ItemIs DEF DebugTypes, Quiet
<1>3. PICK e \in {0, 1} : Moves(rx, rx', e, <<>>) /\ rx' \in Seq(Chars \cup Asks)
  <2>1. Moves(rx, Tail(rx), 1, <<>>) /\ Tail(rx) \in Seq(Chars \cup Asks)
    BY <1>1, <1>2, MovesOut
  <2>2. Moves(rx, <<Dbg!char("?")>> \o Tail(rx), 0, <<>>) /\ <<Dbg!char("?")>> \o Tail(rx) \in Seq(Chars \cup Asks)
    BY <1>1, <1>2, MovesFirst
  <2>3. rx' = IF Head(rx) \in Dbg!chars THEN Tail(rx) ELSE <<Dbg!char("?")>> \o Tail(rx)
    BY DEF Dbg!stub_puts
  <2>4. CASE rx' = Tail(rx)
    BY <2>1, <2>4
  <2>5. CASE rx' = <<Dbg!char("?")>> \o Tail(rx)
    BY <2>2, <2>5
  <2> QED BY <2>3, <2>4, <2>5
<1>4. ASSUME NEW m, Moves(tx, tx', 0, m), tx' \in Seq(Chars \cup Replies), \A i \in 1..Len(m) : ~Bare(m[i]) /\ ~Plus(m[i]),
             DOMAIN stub' = {"pc", "sendbuf"}, stub'.pc \in {"puts", "gets"}, stub'.sendbuf = stub.sendbuf
      PROVE  DInv'
  <2>1. DebugTypes'
    BY <1>0, <1>1, <1>3, <1>4 DEF DebugTypes, Chars, Dbg!chars, Dbg!char, Asks, Replies, Bytes
  <2>2. OneCommand'
    <3>1. \A i \in 1..Len(<<>>) : FALSE
      BY LinesOf
    <3> QED BY <1>0, <1>1, <1>3, <1>4, <3>1, OneKept
  <2>3. Halted'
    <3>1. done' \in Nat /\ done' >= done
      BY <1>0, <1>1 DEF DebugTypes
    <3> QED BY <1>0, <1>1, <1>4, <3>1, HaltedKept
  <2>4. MemoryIs'
    BY <1>0, <1>1, <1>4, MemoryKept
  <2>5. StepIs'
    BY <1>0, <1>1, <1>4, StepKept
  <2> QED BY <2>1, <2>2, <2>3, <2>4, <2>5 DEF DInv
<1>5. CASE stub' = [stub EXCEPT !.pc = "gets"] /\ tx' = tx
  <2>1. Moves(tx, tx', 0, <<>>) /\ \A i \in 1..Len(<<>>) : FALSE
    BY <1>0, <1>5, LinesOf
  <2>2. DOMAIN stub' = {"pc", "sendbuf"} /\ stub'.pc \in {"puts", "gets"} /\ stub'.sendbuf = stub.sendbuf
    BY <1>0, <1>5 DEF DebugTypes
  <2> QED BY <1>2, <1>4, <1>5, <2>1, <2>2
<1>6. CASE Dbg!Puts(<<>>, stub.sendbuf, rx')
  <2>1. tx' = tx \o <<>> \o <<stub.sendbuf>> /\ stub' = [pc |-> "puts", sendbuf |-> stub.sendbuf]
    BY <1>6 DEF Dbg!Puts
  <2>2. Moves(tx, tx', 0, <<stub.sendbuf>>) /\ tx' \in Seq(Chars \cup Replies)
    BY <1>2, <2>1, MovesOne
  <2>3. \A i \in 1..Len(<<stub.sendbuf>>) : ~Bare(<<stub.sendbuf>>[i]) /\ ~Plus(<<stub.sendbuf>>[i])
    <3>1. PICK x : x = stub.sendbuf
      OBVIOUS
    <3>2. \A i \in 1..Len(<<x>>) : <<x>>[i] = x
      OBVIOUS
    <3> QED BY <1>2, <3>1, <3>2
  <2> QED BY <1>4, <2>1, <2>2, <2>3
<1> QED BY <1>5, <1>6 DEF Dbg!stub_puts

LEMMA GetsKeeps ==
  ASSUME DInv, Dbg!stub_gets
  PROVE  DInv'
<1>0. DebugTypes /\ OneCommand /\ Halted /\ MemoryIs /\ StepIs
  BY DEF DInv
<1>1. /\ UNCHANGED <<mem, instructions, registers, thread, stub, gdb, done, stepped>> /\ stub.pc = "gets" /\ rx # <<>>
      /\ rx' = Tail(rx) /\ tx' = IF Head(rx) \in Dbg!chars THEN tx ELSE Append(tx, Dbg!char("-"))
  BY DEF Dbg!stub_gets, Dbg!codeVars, Dbg!ghosts, Dbg!Reads
<1>2. /\ rx \in Seq(Chars \cup Asks) /\ tx \in Seq(Chars \cup Replies)
      /\ Dbg!char("-") \in Chars \cup Replies /\ ~Plus(Dbg!char("-"))
      /\ done' \in Nat /\ done' >= done
  BY <1>0, <1>1, ItemIs DEF DebugTypes, Quiet
<1>3. /\ Moves(rx, rx', 1, <<>>) /\ rx' \in Seq(Chars \cup Asks) /\ \A i \in 1..Len(<<>>) : FALSE
      /\ Head(rx) = rx[1] /\ Len(rx) >= 1 /\ Len(rx) \in Nat
  BY <1>1, <1>2, MovesOut, LinesOf, LenProperties
<1>4. ASSUME OneCommand', NEW m, Moves(tx, tx', 0, m), tx' \in Seq(Chars \cup Replies), \A i \in 1..Len(m) : ~Plus(m[i])
      PROVE  DInv'
  <2>1. DebugTypes'
    BY <1>0, <1>1, <1>3, <1>4 DEF DebugTypes, Chars, Dbg!chars, Dbg!char, Asks, Replies, Bytes
  <2>3. Halted'
    BY <1>0, <1>1, <1>2, <1>4, HaltedKept
  <2>4. MemoryIs'
    BY <1>0, <1>1, <1>4, MemoryKept
  <2>5. StepIs'
    BY <1>0, <1>1, <1>4, StepKept
  <2> QED BY <1>4, <2>1, <2>3, <2>4, <2>5 DEF DInv
<1>5. CASE tx' = tx
  <2>1. Moves(tx, tx', 0, <<>>)
    BY <1>0, <1>5, LinesOf
  <2>2. OneCommand'
    BY <1>0, <1>1, <1>3, <2>1, OneKept
  <2> QED BY <1>2, <1>3, <1>4, <1>5, <2>1, <2>2
<1>6. CASE tx' = Append(tx, Dbg!char("-")) /\ ~Quiet(Head(rx))
  <2>1. Moves(tx, tx', 0, <<Dbg!char("-")>>) /\ tx' \in Seq(Chars \cup Replies)
    BY <1>2, <1>6, MovesIn
  <2>2. \A i \in 1..Len(<<Dbg!char("-")>>) : i = 1 /\ ~Plus(<<Dbg!char("-")>>[i])
    <3>1. PICK x : x = Dbg!char("-")
      OBVIOUS
    <3>2. \A i \in 1..Len(<<x>>) : i = 1 /\ <<x>>[i] = x
      OBVIOUS
    <3> QED BY <1>2, <3>1, <3>2
  <2>3. Clear(1, 0)
    BY <1>0, <1>1, <1>6, ClearIs
  <2>4. gdb'.st = "ack"
    <3>1. 1 \in 1..Len(rx) /\ ~Quiet(rx[1])
      BY <1>3, <1>6
    <3> QED BY <1>0, <1>1, <3>1 DEF OneCommand
  <2>5. OneCommand'
    BY <1>0, <1>3, <2>1, <2>2, <2>3, <2>4, OneAnswer
  <2> QED BY <1>4, <2>1, <2>2, <2>5
<1>7. tx' = tx \/ (tx' = Append(tx, Dbg!char("-")) /\ ~Quiet(Head(rx)))
  BY <1>1 DEF Quiet, Chars
<1> QED BY <1>5, <1>6, <1>7

\* The stub takes a command: it is gdb's, and nothing else is on the line.
LEMMA CommandIs ==
  ASSUME DInv, NEW cmd, Dbg!command(cmd)
  PROVE  /\ stub.pc = "gets" /\ gdb.st = "ack" /\ gdb.packet.cmd = cmd /\ Head(rx) = gdb.packet
         /\ Clear(1, 0) /\ Moves(rx, rx', 1, <<>>) /\ rx' \in Seq(Chars \cup Asks)
         /\ done' = done + 1 /\ done' \in Nat /\ done' >= 1
         /\ UNCHANGED <<registers, gdb>> /\ instructions = <<Dbg!NULL, Dbg!NULL>>
<1>0. DebugTypes /\ OneCommand /\ Halted /\ MemoryIs /\ StepIs
  BY DEF DInv
<1>1. /\ stub.pc = "gets" /\ rx # <<>> /\ Head(rx).ok /\ Head(rx).cmd = cmd /\ rx' = Tail(rx)
      /\ done' = done + 1 /\ UNCHANGED <<registers, gdb>>
  BY DEF Dbg!command, Dbg!Reads
<1>2. rx \in Seq(Chars \cup Asks) /\ done \in Nat
  BY <1>0 DEF DebugTypes
<1>3. /\ Moves(rx, rx', 1, <<>>) /\ rx' \in Seq(Chars \cup Asks) /\ 1 \in 1..Len(rx) /\ Head(rx) = rx[1]
  BY <1>1, <1>2, MovesOut, LenProperties
<1>4. rx[1] \in Asks /\ ~Quiet(rx[1])
  <2>1. rx[1] \in Chars \cup Asks
    BY <1>2, <1>3, ElementOfSeq
  <2>2. rx[1] \notin Chars
    BY <1>1, <1>3, ItemIs
  <2> QED BY <2>1, <2>2 DEF Quiet
<1>5. gdb.st = "ack" /\ Whole(rx[1]) = gdb.packet
  BY <1>0, <1>3, <1>4 DEF OneCommand
<1>6. rx[1] = gdb.packet
  BY <1>1, <1>3, <1>4, <1>5, ItemIs
<1>7. Clear(1, 0)
  BY <1>0, <1>1, <1>3, <1>4, ClearIs
<1>8. instructions = <<Dbg!NULL, Dbg!NULL>>
  BY <1>0, <1>1 DEF MemoryIs
<1>9. done' \in Nat /\ done' >= 1
  BY <1>1, <1>2
<1> QED BY <1>1, <1>3, <1>5, <1>6, <1>7, <1>8, <1>9

\* It answers.
LEMMA PutsIs ==
  ASSUME DInv, NEW cmd, Dbg!command(cmd), NEW reply \in Replies, Dbg!Puts(<<Dbg!char("+")>>, reply, rx')
  PROVE  /\ OneCommand' /\ Halted' /\ tx' \in Seq(Chars \cup Replies)
         /\ DOMAIN stub' = {"pc", "sendbuf"} /\ stub'.pc = "puts" /\ stub'.sendbuf = reply
<1>0. DebugTypes /\ OneCommand /\ Halted
  BY DEF DInv
<1>1. tx' = tx \o <<Dbg!char("+")>> \o <<reply>> /\ stub' = [pc |-> "puts", sendbuf |-> reply]
  BY DEF Dbg!Puts
<1>2. /\ tx \in Seq(Chars \cup Replies) /\ Dbg!char("+") \in Chars \cup Replies /\ reply \in Chars \cup Replies /\ ~Bare(reply)
  BY <1>0, ItemIs DEF DebugTypes, Quiet
<1>3. Moves(tx, tx', 0, <<Dbg!char("+"), reply>>) /\ tx' \in Seq(Chars \cup Replies)
  BY <1>1, <1>2, MovesTwo
<1>4. \A i \in 1..Len(<<Dbg!char("+"), reply>>) : Bare(<<Dbg!char("+"), reply>>[i]) => i = 1
  <2>1. PICK x : x = Dbg!char("+")
    OBVIOUS
  <2>2. \A i \in 1..Len(<<x, reply>>) : i = 1 \/ <<x, reply>>[i] = reply
    OBVIOUS
  <2> QED BY <1>2, <2>1, <2>2
<1>5. OneCommand'
  BY <1>0, <1>3, <1>4, CommandIs, OneAnswer
<1>6. Halted'
  <2>1. gdb.st = "ack" /\ UNCHANGED gdb /\ done' >= 1 /\ stub'.pc = "puts"
    BY <1>1, CommandIs
  <2> QED BY <2>1 DEF Halted
<1> QED BY <1>1, <1>3, <1>5, <1>6

LEMMA gKeeps ==
  ASSUME DInv, Dbg!g
  PROVE  DInv'
<1>0. DebugTypes /\ OneCommand /\ Halted /\ MemoryIs /\ StepIs
  BY DEF DInv
<1>1. Dbg!command("g") /\ Dbg!Puts(<<Dbg!char("+")>>, Dbg!packet("g", 0, "code"), rx') /\ UNCHANGED <<mem, instructions, thread, stepped>>
  BY DEF Dbg!g, Dbg!codeVars
<1>2. Dbg!packet("g", 0, "code") \in Replies
  BY DEF Dbg!packet, Replies
<1>3. /\ OneCommand' /\ Halted' /\ tx' \in Seq(Chars \cup Replies)
      /\ DOMAIN stub' = {"pc", "sendbuf"} /\ stub'.pc = "puts" /\ stub'.sendbuf \in Replies
  BY <1>1, <1>2, PutsIs
<1>4. /\ stub.pc = "gets" /\ gdb.packet.cmd = "g" /\ rx' \in Seq(Chars \cup Asks) /\ done' \in Nat /\ UNCHANGED <<registers, gdb>>
  BY <1>1, CommandIs
<1>5. DebugTypes'
  BY <1>0, <1>1, <1>3, <1>4 DEF DebugTypes, Chars, Dbg!chars, Dbg!char, Asks, Replies, Bytes
<1>6. MemoryIs'
  BY <1>0, <1>1, <1>3, <1>4, MemoryKept
<1>7. StepIs'
  BY <1>4 DEF StepIs
<1> QED BY <1>3, <1>5, <1>6, <1>7 DEF DInv

LEMMA MKeeps ==
  ASSUME DInv, Dbg!M
  PROVE  DInv'
<1>0. DebugTypes /\ OneCommand /\ Halted /\ MemoryIs /\ StepIs
  BY DEF DInv
<1>1. /\ Dbg!command("M") /\ Dbg!Puts(<<Dbg!char("+")>>, Dbg!packet("OK", 0, "code"), rx') /\ UNCHANGED <<instructions, thread, stepped>>
      /\ mem' = [mem EXCEPT ![Head(rx).addr] = Head(rx).byte]
  BY DEF Dbg!M
<1>2. Dbg!packet("OK", 0, "code") \in Replies
  BY DEF Dbg!packet, Replies
<1>3. /\ OneCommand' /\ Halted' /\ tx' \in Seq(Chars \cup Replies)
      /\ DOMAIN stub' = {"pc", "sendbuf"} /\ stub'.pc = "puts" /\ stub'.sendbuf \in Replies
  BY <1>1, <1>2, PutsIs
<1>4. /\ stub.pc = "gets" /\ gdb.st = "ack" /\ gdb.packet.cmd = "M" /\ rx' \in Seq(Chars \cup Asks) /\ done' \in Nat /\ done' >= 1
      /\ UNCHANGED <<registers, gdb>> /\ Head(rx) = gdb.packet /\ instructions = <<Dbg!NULL, Dbg!NULL>>
  BY <1>1, CommandIs
<1>5. /\ mem' = [mem EXCEPT ![gdb.packet.addr] = gdb.packet.byte] /\ mem' \in [DOMAIN Code -> Bytes]
      /\ gdb.packet.addr \in DOMAIN Code /\ mem \in [DOMAIN Code -> Bytes]
  <2>1. gdb.packet.addr \in DOMAIN Code
    BY <1>0, <1>4, DebugAssumption DEF DebugTypes
  <2>2. gdb.packet.byte \in Bytes
    BY <1>0 DEF DebugTypes, Asks, Bytes
  <2>3. mem \in [DOMAIN Code -> Bytes]
    BY <1>0 DEF DebugTypes
  <2> QED BY <1>1, <1>4, <2>1, <2>2, <2>3
<1>6. DebugTypes'
  BY <1>0, <1>1, <1>3, <1>4, <1>5 DEF DebugTypes, Chars, Dbg!chars, Dbg!char, Asks, Replies, Bytes
<1>7. MemoryIs'
  <2>1. Base = mem /\ Base' = mem'
    <3>1. instructions' = <<Dbg!NULL, Dbg!NULL>>' /\ instructions = <<Dbg!NULL, Dbg!NULL>>
      BY <1>1, <1>4 DEF Dbg!NULL
    <3> QED BY <1>0, <1>6, <3>1, BaseClear
  <2>2. Breaks(mem) = Expected
    BY <1>0, <2>1 DEF MemoryIs
  <2>3. Breaks(mem') = Set(gdb.packet, Breaks(mem))
    BY <1>5 DEF Breaks, Set
  <2>4. Expected' = Set(gdb.packet, gdb.bps)
    <3>1. done' > 0 /\ gdb'.st # "idle" /\ gdb'.packet.cmd = "M" /\ gdb'.packet = gdb.packet /\ gdb'.bps = gdb.bps
      BY <1>4
    <3> QED BY <3>1 DEF Expected, Set
  <2>5. Set(gdb.packet, Expected) = Set(gdb.packet, gdb.bps)
    BY DEF Expected, Set
  <2>6. Breaks(Base)' = Expected'
    <3>1. Breaks(Base)' = Breaks(mem')
      BY <2>1 DEF Breaks
    <3> QED BY <2>2, <2>3, <2>4, <2>5, <3>1
  <2>7. \A k \in 1..2 : instructions'[k].addr \notin DOMAIN Code
    <3>1. \A k \in 1..2 : instructions[k] = Dbg!NULL
      BY <1>4
    <3> QED BY <1>1, <3>1, NullIs
  <2> QED BY <1>1, <1>4, <2>6, <2>7 DEF MemoryIs, Dbg!NULL
<1>8. StepIs'
  BY <1>4 DEF StepIs
<1> QED BY <1>3, <1>6, <1>7, <1>8 DEF DInv

\* It lets the program go on.
LEMMA RestoreRegistersIs ==
  ASSUME DInv, NEW cmd \in {"s", "c"}, Dbg!command(cmd), Dbg!restore_registers
  PROVE  /\ OneCommand' /\ Halted' /\ tx' \in Seq(Chars \cup Replies)
         /\ DOMAIN stub' = {"pc", "sendbuf"} /\ stub'.pc = "off" /\ stub'.sendbuf \in Replies
         /\ DOMAIN thread' = Thread /\ \A t \in Thread : DOMAIN thread'[t] = {"pc", "stack"}
         /\ registers.th \in Thread
         /\ thread'[registers.th].pc = registers.pc /\ thread'[registers.th].stack = thread[registers.th].stack
<1>0. DebugTypes /\ OneCommand /\ Halted
  BY DEF DInv
<1>1. /\ tx' = Append(tx, Dbg!char("+")) /\ stub' = [stub EXCEPT !.pc = "off"]
      /\ thread' = [thread EXCEPT ![registers.th].pc = registers.pc]
  BY DEF Dbg!restore_registers
<1>2. /\ tx \in Seq(Chars \cup Replies) /\ Dbg!char("+") \in Chars \cup Replies /\ Plus(Dbg!char("+"))
  BY <1>0, ItemIs DEF DebugTypes, Quiet
<1>3. Moves(tx, tx', 0, <<Dbg!char("+")>>) /\ tx' \in Seq(Chars \cup Replies)
  BY <1>1, <1>2, MovesIn
<1>4. \A i \in 1..Len(<<Dbg!char("+")>>) : i = 1
  BY DEF Dbg!char
<1>5. /\ Clear(1, 0) /\ gdb.st = "ack" /\ UNCHANGED gdb /\ done' >= 1 /\ stub.pc = "gets"
      /\ Moves(rx, rx', 1, <<>>) /\ gdb.packet.cmd = cmd
  BY CommandIs
<1>6. OneCommand'
  BY <1>0, <1>3, <1>4, <1>5, OneAnswer
<1>7. DOMAIN stub' = {"pc", "sendbuf"} /\ stub'.pc = "off" /\ stub'.sendbuf \in Replies
  BY <1>0, <1>1 DEF DebugTypes
<1>8. Halted'
  <2>1. ASSUME NEW j \in 1..Len(tx'), NEW k \in 1..Len(tx'), j < k, Plus(tx'[j]) PROVE Quiet(tx'[k])
    <3>1. Len(tx) \in Nat /\ Len(tx') = Len(tx) + 1
      <4>1. Len(<<Dbg!char("+")>>) = 1
        BY DEF Dbg!char
      <4> QED BY <1>3, <4>1 DEF Moves
    <3>2. j \in 1..Len(tx)
      BY <2>1, <3>1
    <3>3. tx'[j] = tx[j] \/ Spoiled(tx[j], tx'[j])
      <4>1. j \in 1..(Len(tx) - 0) /\ j + 0 = j
        BY <3>1, <3>2
      <4> QED BY <1>3, <4>1 DEF Moves
    <3>4. tx[j] \in Chars \cup Replies
      BY <1>2, <3>2, ElementOfSeq
    <3>5. Bare(tx'[j])
      BY <2>1, PlusIs
    <3>6. Bare(tx[j])
      BY <3>3, <3>4, <3>5, SpoiledIs
    <3>7. j > 0
      BY <3>1, <3>2
    <3> QED BY <1>5, <3>2, <3>6, <3>7 DEF Clear
  <2>2. \A j, k \in 1..Len(tx') : j < k /\ Plus(tx'[j]) => Quiet(tx'[k])
    BY <2>1
  <2> QED BY <1>5, <1>7, <2>2 DEF Halted, Plus, Quiet, Chars
<1>9. registers.th \in Thread
  BY <1>0, <1>5 DEF DebugTypes
<1>10. DOMAIN thread' = Thread /\ \A t \in Thread : DOMAIN thread'[t] = {"pc", "stack"}
  BY <1>0, <1>1, <1>9 DEF DebugTypes
<1>11. thread'[registers.th].pc = registers.pc /\ thread'[registers.th].stack = thread[registers.th].stack
  BY <1>0, <1>1, <1>9 DEF DebugTypes
<1> QED BY <1>3, <1>6, <1>7, <1>8, <1>9, <1>10, <1>11

LEMMA cKeeps ==
  ASSUME DInv, Dbg!c
  PROVE  DInv'
<1>0. DebugTypes /\ OneCommand /\ Halted /\ MemoryIs /\ StepIs
  BY DEF DInv
<1>1. Dbg!command("c") /\ Dbg!restore_registers /\ UNCHANGED <<mem, instructions, stepped>>
  BY DEF Dbg!c, Dbg!codeVars
<1>2. /\ OneCommand' /\ Halted' /\ tx' \in Seq(Chars \cup Replies)
      /\ DOMAIN stub' = {"pc", "sendbuf"} /\ stub'.pc = "off" /\ stub'.sendbuf \in Replies
      /\ DOMAIN thread' = Thread /\ \A t \in Thread : DOMAIN thread'[t] = {"pc", "stack"}
  BY <1>1, RestoreRegistersIs
<1>3. /\ gdb.packet.cmd = "c" /\ rx' \in Seq(Chars \cup Asks) /\ done' \in Nat /\ UNCHANGED <<registers, gdb>>
  BY <1>1, CommandIs
<1>4. DebugTypes'
  BY <1>0, <1>1, <1>2, <1>3 DEF DebugTypes, Chars, Dbg!chars, Dbg!char, Asks, Replies, Bytes
<1>5. MemoryIs'
  BY <1>0, <1>1, <1>2, <1>3, MemoryKept
<1>6. StepIs'
  BY <1>3 DEF StepIs
<1> QED BY <1>2, <1>4, <1>5, <1>6 DEF DInv

\* Where the break instructions of a step are.
LEMMA SetSoftstepIs ==
  ASSUME DInv, Dbg!command("s"), Dbg!set_softstep
  PROVE  /\ mem' \in [DOMAIN Code -> Bytes]
         /\ \A k \in 1..2 : instructions'[k].addr \in DOMAIN Code =>
              instructions'[k].byte \in Bytes /\ mem'[instructions'[k].addr] = "BREAK"
         /\ Base' = mem
         /\ instructions'[1].addr = registers.pc + Dbg!get_instruction_size(registers.pc)
         /\ instructions'[2].addr = Dbg!get_jmp_addr(registers.pc)
         /\ \A x \in DOMAIN Code : mem'[x] = "code" => mem[x] = "code"
<1>0. mem \in [DOMAIN Code -> Bytes]
  BY DEF DInv, DebugTypes
<1>1. PICK a : a = registers.pc + Dbg!get_instruction_size(registers.pc)
  OBVIOUS
<1>2. PICK b : b = Dbg!get_jmp_addr(registers.pc)
  OBVIOUS
<1>3. PICK m1 : m1 = [mem EXCEPT ![a] = "BREAK"]
  OBVIOUS
<1>4. PICK i : i = Dbg!store_instruction(mem, a)
  OBVIOUS
<1>5. PICK j : j = IF b = 0 THEN Dbg!NULL ELSE Dbg!store_instruction(m1, b)
  OBVIOUS
<1>6. PICK m2 : m2 = IF b = 0 THEN m1 ELSE [m1 EXCEPT ![b] = "BREAK"]
  OBVIOUS
<1>7. instructions' = <<i, j>> /\ mem' = m2
  BY <1>1, <1>2, <1>3, <1>4, <1>5, <1>6 DEF Dbg!set_softstep
<1>8. i.addr = a /\ i.byte = mem[a]
  BY <1>4 DEF Dbg!store_instruction
<1>9. Planted(mem, a, i, m1) /\ PlantedToo(m1, b, j, m2)
  BY <1>3, <1>5, <1>6, <1>8 DEF Dbg!store_instruction, Planted, PlantedToo
<1>10. j.addr = b
  BY <1>5, NullIs DEF Dbg!store_instruction
<1>11. Restorable(mem, i, j, m2)
  BY <1>0, <1>9, RestoresBoth, Zenon
<1>12. instructions'[1] = i /\ instructions'[2] = j
  BY <1>7
<1>13. Base' = mem
  <2>1. Base' = Dbg!restore_instruction(Dbg!restore_instruction(mem', instructions'[2]), instructions'[1])
    BY DEF Base, Dbg!restore_instruction
  <2> QED BY <1>7, <1>11, <1>12, <2>1 DEF Restorable
<1>14. \A k \in 1..2 : k = 1 \/ k = 2
  OBVIOUS
<1> QED BY <1>1, <1>2, <1>7, <1>8, <1>10, <1>11, <1>12, <1>13, <1>14 DEF Restorable

LEMMA sKeeps ==
  ASSUME DInv, Dbg!s
  PROVE  DInv'
<1>0. DebugTypes /\ OneCommand /\ Halted /\ MemoryIs /\ StepIs
  BY DEF DInv
<1>1. /\ Dbg!command("s") /\ Dbg!restore_registers /\ Dbg!set_softstep
      /\ stepped' = IF Dbg!get_jmp_addr(registers.pc) = registers.pc THEN -1 ELSE stepped
  BY DEF Dbg!s
<1>2. /\ OneCommand' /\ Halted' /\ tx' \in Seq(Chars \cup Replies)
      /\ DOMAIN stub' = {"pc", "sendbuf"} /\ stub'.pc = "off" /\ stub'.sendbuf \in Replies
      /\ DOMAIN thread' = Thread /\ \A t \in Thread : DOMAIN thread'[t] = {"pc", "stack"}
      /\ registers.th \in Thread
      /\ thread'[registers.th].pc = registers.pc /\ thread'[registers.th].stack = thread[registers.th].stack
  BY <1>1, RestoreRegistersIs
<1>3. /\ gdb.packet.cmd = "s" /\ rx' \in Seq(Chars \cup Asks) /\ done' \in Nat /\ done' = done + 1 /\ UNCHANGED <<registers, gdb>>
      /\ stub.pc = "gets" /\ instructions = <<Dbg!NULL, Dbg!NULL>>
  BY <1>1, CommandIs
<1>4. /\ mem' \in [DOMAIN Code -> Bytes]
      /\ \A k \in 1..2 : instructions'[k].addr \in DOMAIN Code =>
           instructions'[k].byte \in Bytes /\ mem'[instructions'[k].addr] = "BREAK"
      /\ Base' = mem
      /\ instructions'[1].addr = registers.pc + Dbg!get_instruction_size(registers.pc)
      /\ instructions'[2].addr = Dbg!get_jmp_addr(registers.pc)
      /\ \A x \in DOMAIN Code : mem'[x] = "code" => mem[x] = "code"
  BY <1>1, SetSoftstepIs
<1>5. DebugTypes'
  <2>1. stepped' \in Int
    BY <1>0, <1>1 DEF DebugTypes
  <2> QED BY <1>0, <1>2, <1>3, <1>4, <2>1 DEF DebugTypes, Chars, Dbg!chars, Dbg!char, Asks, Replies, Bytes
<1>6. MemoryIs'
  <2>1. Base = mem
    BY <1>0, <1>3, BaseClear
  <2>2. Breaks(Base)' = Breaks(Base)
    BY <1>4, <2>1 DEF Breaks
  <2>3. Expected' = Expected
    BY <1>3 DEF Expected
  <2> QED BY <1>0, <1>2, <1>4, <2>2, <2>3 DEF MemoryIs
<1>7. ASSUME stepped' >= 0 PROVE Unmoved(thread[registers.th].pc)'
  <2> DEFINE a == registers.pc
  <2>1. Dbg!get_jmp_addr(a) # a /\ stepped' = stepped
    BY <1>1, <1>7
  <2>2. stepped' = done' - 1
    <3>1. stepped = done
      BY <1>0, <1>3, <1>7, <2>1 DEF StepIs
    <3>2. done \in Nat
      BY <1>0 DEF DebugTypes
    <3> QED BY <1>3, <2>1, <3>1, <3>2
  <2>3. ASSUME a \in DOMAIN Code PROVE ~Soft(a)'
    <3>1. a \in Nat /\ Dbg!get_instruction_size(a) \in Nat \ {0}
      BY <2>3, DebugAssumption DEF Dbg!get_instruction_size
    <3>2. instructions'[1].addr # a /\ instructions'[2].addr # a
      BY <1>4, <2>1, <3>1
    <3>3. ASSUME NEW k \in 1..2 PROVE instructions'[k].addr # a
      BY <3>2
    <3> QED BY <1>3, <3>3 DEF Soft
  <2>4. ASSUME a \in DOMAIN Code, mem'[a] = "code"
        PROVE  instructions'[1].addr = a + Code[a].size /\ instructions'[2].addr = Dbg!get_jmp_addr(a)'
    <3>1. mem[a] = "code"
      BY <1>4, <2>4
    <3>2. Dbg!get_jmp_addr(a) = JumpOf(a, thread[registers.th].stack)
      BY <3>1, JumpIs
    <3>3. Dbg!get_jmp_addr(a)' = JumpOf(a, thread'[registers'.th].stack)
      <4>1. PICK x : x = a
        OBVIOUS
      <4>2. Dbg!get_jmp_addr(x)' = JumpOf(x, thread'[registers'.th].stack)
        BY <2>4, <4>1, JumpIs
      <4>3. registers' = registers
        BY <1>3
      <4> QED BY <4>1, <4>2, <4>3
    <3>4. Dbg!get_jmp_addr(a)' = Dbg!get_jmp_addr(a)
      BY <1>2, <1>3, <3>2, <3>3
    <3>5. instructions'[1].addr = a + Code[a].size
      BY <1>4, <3>1 DEF Dbg!get_instruction_size
    <3> QED BY <1>4, <3>4, <3>5
  <2>5. thread'[registers'.th].pc = a /\ a' = a
    BY <1>2, <1>3
  <2> QED BY <1>3, <2>2, <2>3, <2>4, <2>5 DEF Unmoved, Soft
<1>8. StepIs'
  BY <1>2, <1>3, <1>7 DEF StepIs
<1> QED BY <1>2, <1>5, <1>6, <1>8 DEF DInv

LEMMA ExecuteKeeps ==
  ASSUME DInv, NEW t \in Thread, Dbg!execute(t)
  PROVE  DInv'
<1>0. DebugTypes /\ OneCommand /\ Halted /\ MemoryIs /\ StepIs
  BY DEF DInv
<1>1. /\ UNCHANGED <<mem, instructions, registers, stub, rx, tx, gdb, done>> /\ stub.pc = "off" /\ thread[t].pc \in DOMAIN Code
      /\ Dbg!Counts(t) /\ mem[thread[t].pc] = "code"
  BY DEF Dbg!execute, Dbg!codeVars
<1>2. PICK pc, stack :
         /\ thread' = [thread EXCEPT ![t] = [pc |-> pc, stack |-> stack]]
         /\ pc = thread[t].pc + Code[thread[t].pc].size \/ pc = JumpOf(thread[t].pc, thread[t].stack)
  <2>1. PICK a : a = thread[t].pc
    OBVIOUS
  <2>2. CASE Code[a].op \in {"plain", "bcc"} /\ thread' = [thread EXCEPT ![t] = [pc |-> a + Code[a].size, stack |-> thread[t].stack]]
    BY <2>1, <2>2
  <2>3. CASE Code[a].op \in {"bcc", "jmp"} /\ thread' = [thread EXCEPT ![t] = [pc |-> Code[a].to, stack |-> thread[t].stack]]
    BY <2>1, <2>3 DEF JumpOf
  <2>4. CASE Code[a].op = "jsr" /\ thread' = [thread EXCEPT ![t] = [pc |-> Code[a].to, stack |-> <<a + Code[a].size>> \o thread[t].stack]]
    BY <2>1, <2>4 DEF JumpOf
  <2>5. CASE Code[a].op = "rts" /\ thread' = [thread EXCEPT ![t] = [pc |-> Head(thread[t].stack), stack |-> Tail(thread[t].stack)]]
    BY <2>1, <2>5 DEF JumpOf
  <2> QED BY <2>1, <2>2, <2>3, <2>4, <2>5 DEF Dbg!execute
<1>3. /\ DOMAIN thread' = Thread /\ \A u \in Thread : DOMAIN thread'[u] = {"pc", "stack"}
      /\ thread'[t].pc = pc /\ \A u \in Thread \ {t} : thread'[u] = thread[u]
  <2>1. DOMAIN thread = Thread /\ \A u \in Thread : DOMAIN thread[u] = {"pc", "stack"}
    BY <1>0 DEF DebugTypes
  <2>2. PICK x : x = [pc |-> pc, stack |-> stack]
    OBVIOUS
  <2>3. x.pc = pc /\ DOMAIN x = {"pc", "stack"}
    BY <2>2
  <2>4. thread' = [thread EXCEPT ![t] = x]
    BY <1>2, <2>2
  <2> QED BY <2>1, <2>3, <2>4
<1>4. stepped' \in Int /\ stepped \in Int /\ done \in Nat
  BY <1>0, <1>1 DEF DebugTypes, Dbg!Counts
<1>5. DebugTypes'
  BY <1>0, <1>1, <1>3, <1>4 DEF DebugTypes, Chars, Dbg!chars, Dbg!char, Asks, Replies, Bytes
<1>6. Moves(rx, rx', 0, <<>>) /\ Moves(tx, tx', 0, <<>>) /\ \A i \in 1..Len(<<>>) : FALSE
  BY <1>0, <1>1, LinesOf
<1>7. OneCommand'
  BY <1>0, <1>1, <1>6, OneKept
<1>8. Halted'
  <2>1. Len(<<>>) = 0 /\ done' \in Nat /\ done' >= done
    BY <1>1, <1>4
  <2> QED BY <1>0, <1>1, <1>6, <2>1, HaltedKept
<1>9. MemoryIs'
  BY <1>0, <1>1, MemoryKept
<1>10. ASSUME gdb.packet.cmd = "s", stepped' >= 0
       PROVE  registers.th \in Thread /\ (Unmoved(thread[registers.th].pc)' \/ Moved(thread[registers.th].pc)')
  <2>0. stepped >= 0 /\ registers.th \in Thread /\ (Unmoved(thread[registers.th].pc) \/ Moved(thread[registers.th].pc))
    <3>1. stepped >= 0
      BY <1>1, <1>4, <1>10 DEF Dbg!Counts
    <3> QED BY <1>0, <1>1, <1>10, <3>1 DEF StepIs
  <2>1. CASE t = registers.th
    <3>1. PICK a : a = thread[t].pc
      OBVIOUS
    <3>2. ~Moved(a)
      BY <1>0, <1>1, <3>1 DEF Moved, Soft, MemoryIs
    <3>3. Unmoved(a)
      BY <2>0, <2>1, <3>1, <3>2
    <3>4. stepped' = done' /\ a \in DOMAIN Code /\ mem[a] = "code"
      BY <1>1, <1>4, <1>10, <2>0, <2>1, <3>1, <3>3 DEF Unmoved, Dbg!Counts
    <3>5. instructions[1].addr = a + Code[a].size /\ instructions[2].addr = JumpOf(a, thread[registers.th].stack)
      <4>1. Dbg!get_jmp_addr(a) = JumpOf(a, thread[registers.th].stack)
        BY <3>4, JumpIs
      <4> QED BY <3>3, <3>4, <4>1 DEF Unmoved
    <3>6. instructions[1].addr = pc \/ instructions[2].addr = pc
      BY <1>2, <2>1, <3>1, <3>5
    <3>7. instructions'[1].addr = pc \/ instructions'[2].addr = pc
      BY <1>1, <3>6
    <3>8. thread'[registers'.th].pc = pc
      BY <1>1, <1>3, <2>1
    <3> QED BY <2>0, <3>4, <3>7, <3>8 DEF Moved, Soft
  <2>2. CASE t # registers.th
    <3>1. stepped' = stepped /\ thread'[registers.th] = thread[registers.th]
      BY <1>1, <1>3, <2>0, <2>2 DEF Dbg!Counts
    <3>2. registers' = registers
      BY <1>1
    <3>3. CASE Moved(thread[registers.th].pc)
      BY <1>1, <2>0, <3>1, <3>3 DEF Moved, Soft
    <3>4. CASE Unmoved(thread[registers.th].pc)
      <4>1. PICK a : a = thread[registers.th].pc
        OBVIOUS
      <4>2. ASSUME mem[a] = "code" PROVE Dbg!get_jmp_addr(a)' = Dbg!get_jmp_addr(a)
        <5>1. Dbg!get_jmp_addr(a) = JumpOf(a, thread[registers.th].stack)
          BY <4>2, JumpIs
        <5>2. mem'[a] = "code"
          BY <1>1, <4>2
        <5>3. Dbg!get_jmp_addr(a)' = JumpOf(a, thread'[registers'.th].stack)
          BY <5>2, JumpIs
        <5> QED BY <3>1, <3>2, <5>1, <5>3
      <4>3. thread'[registers'.th].pc = a
        BY <3>1, <3>2, <4>1
      <4>4. Unmoved(a)
        BY <3>4, <4>1
      <4>5. /\ stepped' = done' - 1 /\ a = registers'.pc
            /\ a \in DOMAIN Code => ~Soft(a)'
            /\ a \in DOMAIN Code /\ mem'[a] = "code" =>
                 instructions'[1].addr = a + Code[a].size /\ instructions'[2].addr = Dbg!get_jmp_addr(a)'
        BY <1>1, <3>1, <3>2, <4>2, <4>4 DEF Unmoved, Soft
      <4> QED BY <2>0, <4>3, <4>5 DEF Unmoved, Soft
    <3> QED BY <2>0, <3>3, <3>4
  <2> QED BY <2>1, <2>2
<1>11. StepIs'
  BY <1>1, <1>10 DEF StepIs
<1> QED BY <1>5, <1>7, <1>8, <1>9, <1>11 DEF DInv

LEMMA BreakKeeps ==
  ASSUME DInv, NEW t \in Thread, Dbg!break_intr(t)
  PROVE  DInv'
<1>0. DebugTypes /\ OneCommand /\ Halted /\ MemoryIs /\ StepIs
  BY DEF DInv
<1>1. /\ UNCHANGED <<thread, rx, gdb, done>> /\ stub.pc = "off" /\ thread[t].pc \in DOMAIN Code
      /\ registers' = [th |-> t, pc |-> Dbg!check_softstep(thread[t].pc)]
      /\ stepped' = IF t # registers.th THEN -1
                    ELSE IF Dbg!check_softstep(thread[t].pc) = thread[t].pc THEN stepped
                    ELSE IF gdb.packet.cmd = "s" /\ t = registers.th /\ stepped >= 0 THEN stepped + 1 ELSE stepped
      /\ mem' = Base /\ instructions' = <<Dbg!NULL, Dbg!NULL>>
      /\ stub' = [pc |-> "puts", sendbuf |-> Dbg!packet("T", 0, "code")]
      /\ tx' = Append(tx, Dbg!packet("T", 0, "code"))
  BY DEF Dbg!break_intr, Dbg!reset_softstep, Dbg!Counts, Base
<1>2. /\ rx \in Seq(Chars \cup Asks) /\ tx \in Seq(Chars \cup Replies) /\ mem' \in [DOMAIN Code -> Bytes]
      /\ stepped \in Int /\ done \in Nat
  BY <1>0, <1>1, BaseIs DEF DebugTypes
<1>3. PICK T : T = Dbg!packet("T", 0, "code")
  OBVIOUS
<1>4. T \in Replies /\ T \in Chars \cup Replies /\ ~Bare(T) /\ ~Plus(T)
  <2>1. T \in Replies
    BY <1>3 DEF Dbg!packet, Replies
  <2> QED BY <2>1, ItemIs
<1>5. Moves(rx, rx', 0, <<>>) /\ Moves(tx, tx', 0, <<T>>) /\ tx' \in Seq(Chars \cup Replies)
  BY <1>0, <1>1, <1>2, <1>3, <1>4, LinesOf, MovesIn
<1>6. \A i \in 1..Len(<<T>>) : ~Bare(<<T>>[i]) /\ ~Plus(<<T>>[i])
  <2>1. \A i \in 1..Len(<<T>>) : <<T>>[i] = T
    OBVIOUS
  <2> QED BY <1>4, <2>1
<1>7. DOMAIN stub' = {"pc", "sendbuf"} /\ stub'.pc = "puts" /\ stub'.sendbuf \in Replies
  BY <1>1, <1>3, <1>4
<1>8. DebugTypes'
  <2>1. stepped' \in Int
    BY <1>1, <1>2
  <2>2. \A k \in 1..2 : instructions'[k].addr \in DOMAIN Code => instructions'[k].byte \in Bytes
    <3>1. \A k \in 1..2 : instructions'[k] = Dbg!NULL
      BY <1>1
    <3> QED BY <3>1, NullIs
  <2>3. registers'.th \in Thread
    BY <1>1
  <2> QED BY <1>0, <1>1, <1>2, <1>5, <1>7, <2>1, <2>2, <2>3 DEF DebugTypes, Chars, Dbg!chars, Dbg!char, Asks, Replies, Bytes
<1>9. OneCommand'
  <2>1. \A i \in 1..Len(<<>>) : FALSE
    BY LinesOf
  <2> QED BY <1>0, <1>1, <1>5, <1>6, <2>1, OneKept
<1>10. Halted'
  <2>1. done' \in Nat /\ done' >= done
    BY <1>1, <1>2
  <2> QED BY <1>0, <1>1, <1>5, <1>6, <1>7, <2>1, HaltedKept
<1>11. MemoryIs'
  <2>1. instructions' = <<Dbg!NULL, Dbg!NULL>>'
    BY <1>1 DEF Dbg!NULL
  <2>2. Base' = Base
    BY <1>1, <1>8, <2>1, BaseClear
  <2>3. Breaks(Base)' = Breaks(Base)
    BY <2>2 DEF Breaks
  <2>4. Expected' = Expected
    BY <1>1 DEF Expected
  <2>5. \A k \in 1..2 : instructions'[k].addr \notin DOMAIN Code
    <3>1. \A k \in 1..2 : instructions'[k] = Dbg!NULL
      BY <1>1
    <3> QED BY <3>1, NullIs
  <2> QED BY <1>0, <2>1, <2>3, <2>4, <2>5 DEF MemoryIs
<1>12. ASSUME gdb.packet.cmd = "s", stepped' >= 0 PROVE stepped' = done
  <2>1. t = registers.th /\ stepped >= 0
    BY <1>1, <1>2, <1>12
  <2>2. PICK a : a = thread[t].pc
    OBVIOUS
  <2>3. Unmoved(a) \/ Moved(a)
    BY <1>0, <1>1, <1>12, <2>1, <2>2 DEF StepIs
  <2>4. CASE Moved(a)
    <3>1. Dbg!check_softstep(a) = a
      BY <2>4 DEF Moved, Soft, Dbg!check_softstep
    <3> QED BY <1>1, <2>1, <2>2, <2>4, <3>1 DEF Moved
  <2>5. CASE Unmoved(a)
    <3>1. a \in Nat
      BY <1>1, <2>2, DebugAssumption
    <3>2. Dbg!check_softstep(a) = a + 1
      BY <1>1, <2>2, <2>5 DEF Unmoved, Soft, Dbg!check_softstep
    <3>3. a + 1 # a
      BY <3>1
    <3> QED BY <1>1, <1>2, <1>12, <2>1, <2>2, <2>5, <3>2, <3>3 DEF Unmoved
  <2> QED BY <2>3, <2>4, <2>5
<1>13. StepIs'
  BY <1>1, <1>7, <1>12 DEF StepIs
<1> QED BY <1>8, <1>9, <1>10, <1>11, <1>13 DEF DInv

-----------------------------------------------------------------------------
LEMMA DebugInit == Dbg!Init => DInv
<1> SUFFICES ASSUME Dbg!Init PROVE DInv
  OBVIOUS
<1>1. /\ mem = [a \in DOMAIN Code |-> "code"] /\ instructions = <<Dbg!NULL, Dbg!NULL>>
      /\ thread = [t \in Thread |-> [pc |-> Entry[t], stack |-> <<>>]]
      /\ stub = [pc |-> "off", sendbuf |-> Dbg!packet("T", 0, "code")]
      /\ rx = <<>> /\ tx = <<>>
      /\ gdb = [st |-> "wait", packet |-> Dbg!packet("c", 0, "code"), bps |-> {}, commands |-> 0]
      /\ done = 1 /\ stepped = 0
  BY DEF Dbg!Init
<1>2. Dbg!packet("T", 0, "code") \in Replies
  BY DEF Dbg!packet, Replies
<1>3. Dbg!packet("c", 0, "code") \in Asks /\ Dbg!packet("c", 0, "code").ok = TRUE /\ Dbg!packet("c", 0, "code").cmd = "c"
  BY DEF Dbg!packet, Asks
<1>4. /\ stub.pc = "off" /\ stub.sendbuf \in Replies /\ DOMAIN stub = {"pc", "sendbuf"}
      /\ gdb.st = "wait" /\ gdb.packet \in Asks /\ gdb.packet.ok = TRUE /\ gdb.packet.cmd = "c" /\ gdb.bps = {}
      /\ DOMAIN gdb = {"st", "packet", "bps", "commands"}
  BY <1>1, <1>2, <1>3
<1>5. \A k \in 1..2 : instructions[k].addr \notin DOMAIN Code
  <2>1. \A k \in 1..2 : instructions[k] = Dbg!NULL
    BY <1>1
  <2> QED BY <2>1, NullIs
<1>6. DebugTypes
  <2>1. mem \in [DOMAIN Code -> Bytes]
    BY <1>1 DEF Bytes
  <2>2. DOMAIN thread = Thread /\ \A t \in Thread : DOMAIN thread[t] = {"pc", "stack"}
    BY <1>1
  <2>3. rx \in Seq(Chars \cup Asks) /\ tx \in Seq(Chars \cup Replies)
    BY <1>1
  <2> QED BY <1>1, <1>4, <1>5, <2>1, <2>2, <2>3 DEF DebugTypes
<1>7. \A k \in 1..Len(rx) : FALSE
  BY <1>1, LinesOf
<1>8. \A k \in 1..Len(tx) : FALSE
  BY <1>1, LinesOf
<1>9. OneCommand
  BY <1>7, <1>8 DEF OneCommand
<1>10. Halted
  BY <1>1, <1>4, <1>8 DEF Halted
<1>11. MemoryIs
  <2>1. Base = mem
    BY <1>1, <1>6, BaseClear
  <2>2. Breaks(mem) = {}
    BY <1>1 DEF Breaks
  <2>3. Expected = {}
    BY <1>4 DEF Expected
  <2> QED BY <1>1, <1>5, <2>1, <2>2, <2>3 DEF MemoryIs
<1>12. StepIs
  BY <1>4 DEF StepIs
<1> QED BY <1>6, <1>9, <1>10, <1>11, <1>12 DEF DInv

LEMMA DebugStays == DInv /\ UNCHANGED dbgVars => DInv'
<1> SUFFICES ASSUME DInv, UNCHANGED dbgVars PROVE DInv'
  OBVIOUS
<1>0. DebugTypes /\ OneCommand /\ Halted /\ MemoryIs /\ StepIs
  BY DEF DInv
<1>1. UNCHANGED <<mem, instructions, registers, thread, stub, rx, tx, gdb, done, stepped>>
  BY DEF dbgVars
<1>2. Moves(rx, rx', 0, <<>>) /\ Moves(tx, tx', 0, <<>>) /\ (\A i \in 1..Len(<<>>) : FALSE) /\ Len(<<>>) = 0
  BY <1>0, <1>1, LinesOf
<1>3. DebugTypes'
  BY <1>0, <1>1 DEF DebugTypes, Chars, Dbg!chars, Dbg!char, Asks, Replies, Bytes
<1>4. OneCommand'
  BY <1>0, <1>1, <1>2, OneKept
<1>5. Halted'
  <2>1. done' \in Nat /\ done' >= done /\ (stub'.pc # "off" \/ stub.pc = "off")
    BY <1>0, <1>1 DEF DebugTypes
  <2> QED BY <1>0, <1>1, <1>2, <2>1, HaltedKept
<1>6. MemoryIs'
  BY <1>0, <1>1, MemoryKept
<1>7. StepIs'
  BY <1>0, <1>1, StepKept
<1> QED BY <1>3, <1>4, <1>5, <1>6, <1>7 DEF DInv

LEMMA DebugNext == DInv /\ Dbg!Next => DInv'
<1> SUFFICES ASSUME DInv, Dbg!Next PROVE DInv'
  OBVIOUS
<1>1. CASE \E t \in Thread : Dbg!execute(t) \/ Dbg!break_intr(t)
  BY <1>1, ExecuteKeeps, BreakKeeps
<1>2. CASE Dbg!handle_exception
  BY <1>2, PutsKeeps, GetsKeeps, gKeeps, MKeeps, sKeeps, cKeeps DEF Dbg!handle_exception
<1>3. CASE \E p \in Dbg!Commands : Dbg!issues(p)
  BY <1>3, IssuesKeeps
<1>4. CASE Dbg!awaits_ack \/ Dbg!awaits_reply \/ Dbg!disturb
  BY <1>4, AwaitsAckKeeps, AwaitsReplyKeeps, DisturbKeeps
<1> QED BY <1>1, <1>2, <1>3, <1>4 DEF Dbg!Next

LEMMA DebugAlways == Spec => []DInv
<1>1. Init => DInv
  BY DebugInit DEF Init
<1>2. DInv /\ [Next]_bringupVars => DInv'
  BY DebugNext, DebugStays DEF Next, bringupVars, Loads, Serves, Debugs, start, debug
<1> QED BY <1>1, <1>2, PTL DEF Spec

\* While gdb waits for its user the program stands still and holds the break
\* instructions gdb knows of and no others, whatever the line did to the packets.
THEOREM MemoryCorrect == Spec => []MemoryKnown
<1>1. DInv => MemoryKnown
  <2> SUFFICES ASSUME DInv, gdb.st = "idle" PROVE stub.pc # "off" /\ Breaks(mem) = gdb.bps
    BY DEF MemoryKnown, Dbg!MemoryKnown, Breaks
  <2>1. stub.pc # "off"
    BY DEF DInv, Halted
  <2>2. Base = mem
    BY <2>1, BaseClear DEF DInv, MemoryIs
  <2>3. Expected = gdb.bps
    BY DEF Expected
  <2> QED BY <2>1, <2>2, <2>3 DEF DInv, MemoryIs
<1> QED BY <1>1, DebugAlways, PTL

\* A step that ends in the thread it was for has executed one instruction for each
\* time the stub was told to step.
THEOREM StepsCorrect == Spec => []StepsOnce
<1>1. DInv => StepsOnce
  BY DEF StepsOnce, Dbg!StepsOnce, DInv, Halted, StepIs
<1> QED BY <1>1, DebugAlways, PTL
=============================================================================
