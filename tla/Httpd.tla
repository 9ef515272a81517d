--------------------------------- MODULE Httpd ---------------------------------
(***************************************************************************)
(* The HTTP server of mykozos/os/httpd.c on the TCP task (Tcp.tla), and    *)
(* its clients.                                                            *)
(*                                                                         *)
(* httpd has a lower priority than every network task (main.c:16-24), so   *)
(* the TCP task serves a request of httpd as soon as it is sent, and       *)
(* segments may arrive between any two requests: "calls" is what httpd is  *)
(* about to send, one request a step.  A client is a TCP that follows the  *)
(* protocol, over a network that keeps the order of each direction.        *)
(***************************************************************************)
EXTENDS Tcp

CONSTANTS
  Request,  \* what each client may send: segments of "G" (GET), "x" (other text), "N" (newline)
  Leaver,   \* clients that may end their connection first
  PIECES,   \* segments of a reply: the header and those of the document
  RETRIES   \* bound on segments sent again

ASSUME HttpdAssumption == PIECES \in Nat /\ None \notin Client

VARIABLES
  HTTPD,   \* MSGBOX_ID_HTTPD: [cmd, number, data]
  calls,   \* requests httpd is about to send to the TCP task: [cmd, number, data]
  httpd,   \* number; p: whether p points into the buffer, NULL before; buffer: the
           \* text received; answered: whether it has answered a GET since it was
           \* told of a connection
  wild,    \* a NULL pointer was used: anything may happen
  net,     \* segments on their way from each client
  wire,    \* segments on their way to each client
  client,  \* st: its state; snd, rcv: what it sends and expects next; req: what
           \* it has yet to send; unacked; got: the reply so far
  retries, \* segments sent again so far
  seen     \* what has happened: "rewound" (tcp_sendpkt), "early": data came with the
           \* end of the handshake, "left": a client ended its connection first,
           \* "second": a second GET was answered on a connection, "stray": a segment
           \* got to the connection of another client

board == <<conVars, HTTPD, calls, httpd, wild>>
vars == <<board, net, wire, client, retries, seen>>

call(cmd, n, data) == [cmd |-> cmd, number |-> n, data |-> data]
send_accept == call("ACCEPT", 0, <<>>)

Init ==
  /\ TCPCONLIST = <<>> /\ number = 0
  /\ HTTPD = <<>>
  /\ calls = <<send_accept>>
  /\ httpd = [number |-> 0, p |-> FALSE, buffer |-> <<>>, answered |-> FALSE]
  /\ wild = FALSE
  /\ net = [c \in Client |-> <<>>]
  /\ wire = [c \in Client |-> <<>>]
  /\ \E req \in [Client -> UNION Range(Request)] :
       /\ \A c \in Client : req[c] \in Request[c]
       /\ client = [c \in Client |-> [st |-> "closed", snd |-> 0, rcv |-> 0, req |-> req[c],
                                      unacked |-> <<>>, got |-> <<>>]]
  /\ retries = 0
  /\ seen = {}

-----------------------------------------------------------------------------
(* The TCP task.                                                           *)

\* A segment that is not for the connection it comes to.
Stray(con, c, seg) == "SYN" \notin seg.flags /\ con.peer \notin {c, None}

\* A segment of c, which the last connection gets when c has none.
TCP_CMD_IPRECV(c) ==
  /\ ~wild /\ net[c] # <<>>
  /\ net' = [net EXCEPT ![c] = Tail(@)]
  /\ \/ /\ TCPCONLIST = <<>>
        /\ UNCHANGED <<conVars, HTTPD, wire, seen>>
     \/ /\ TCPCONLIST # <<>>
        /\ LET con == TCPCONLIST[Found(c)]
           IN \E s \in tcp_recv(con, c, Head(net[c]), seen) :
                /\ Done(Found(c), s)
                /\ HTTPD' = HTTPD \o Told(s)
                /\ wire' = IF s.sent = <<>> THEN wire ELSE [wire EXCEPT ![s.con.peer] = @ \o s.sent]
                /\ seen' = s.seen \cup (IF s.opened /\ s.told # <<>> THEN {"early"} ELSE {})
                                  \cup (IF Stray(con, c, Head(net[c])) THEN {"stray"} ELSE {})
  /\ UNCHANGED <<calls, httpd, wild, client, retries>>

\* A request of httpd.  tcp_send() does not look whether there is a connection.
TCP_CMD(cmd, flags) ==
  /\ ~wild /\ calls # <<>> /\ Head(calls).cmd = cmd
  /\ calls' = Tail(calls)
  /\ \E ks \in {Numbered(Head(calls).number)} :
       \/ /\ ks = {}
          /\ wild' = (cmd = "SEND")
          /\ UNCHANGED <<conVars, wire, seen>>
       \/ \E k \in ks :
            \E s \in {tcp_send_enqueue(Begin(TCPCONLIST[k], seen), flags, Head(calls).data)} :
              /\ Done(k, s)
              /\ wire' = [wire EXCEPT ![s.con.peer] = @ \o s.sent]
              /\ seen' = s.seen
              /\ UNCHANGED wild
  /\ UNCHANGED <<HTTPD, httpd, net, client, retries>>

tcp_send == TCP_CMD("SEND", {"PSH", "ACK"})
TCP_CMD_CLOSE == TCP_CMD("CLOSE", {"FIN", "ACK"})

accept ==
  /\ ~wild /\ calls # <<>> /\ Head(calls).cmd = "ACCEPT"
  /\ calls' = Tail(calls)
  /\ TCP_CMD_ACCEPT
  /\ UNCHANGED <<HTTPD, httpd, wild, net, wire, client, retries, seen>>

tcp_proc == tcp_send \/ TCP_CMD_CLOSE \/ accept

-----------------------------------------------------------------------------
(* httpd.                                                                  *)

kz_recv(cmd) ==
  /\ ~wild /\ calls = <<>> /\ HTTPD # <<>> /\ Head(HTTPD).cmd = cmd
  /\ HTTPD' = Tail(HTTPD)
  /\ UNCHANGED <<conVars, net, wire, client, retries>>

TCP_CMD_ESTAB_bug ==   \* does not note the number
  /\ kz_recv("ESTAB")
  /\ httpd' = [httpd EXCEPT !.p = TRUE, !.buffer = <<>>, !.answered = FALSE]
  /\ UNCHANGED <<calls, wild, seen>>
TCP_CMD_ESTAB ==
  /\ kz_recv("ESTAB")
  /\ httpd' = [number |-> Head(HTTPD).number, p |-> TRUE, buffer |-> <<>>, answered |-> FALSE]
  /\ UNCHANGED <<calls, wild, seen>>

closed_bug ==   \* does not ask for the next connection
  /\ kz_recv("CLOSE")
  /\ httpd' = [httpd EXCEPT !.number = 0]
  /\ UNCHANGED <<calls, wild, seen>>
closed ==
  /\ kz_recv("CLOSE")
  /\ httpd' = [httpd EXCEPT !.number = 0]
  /\ calls' = <<send_accept>>
  /\ UNCHANGED <<wild, seen>>

\* parse(): a line that is a GET is answered and the connection closed.
parse(line) ==
  IF line # <<>> /\ Head(line) = "G"
  THEN [k \in 1..PIECES |-> call("SEND", httpd.number, <<k>>)] \o <<call("CLOSE", httpd.number, <<>>)>>
  ELSE <<>>

\* Data: the first line in the buffer is taken out when it is complete.
TCP_CMD_RECV ==
  /\ kz_recv("RECV")
  /\ \/ /\ ~httpd.p
        /\ wild' = TRUE
        /\ UNCHANGED <<httpd, calls, seen>>
     \/ /\ httpd.p
        /\ LET text == httpd.buffer \o Head(HTTPD).data
               eol  == SelectInSeq(text, LAMBDA ch : ch = "N")
           IN \/ /\ eol = 0
                 /\ httpd' = [httpd EXCEPT !.buffer = text]
                 /\ UNCHANGED <<calls, seen>>
              \/ /\ eol # 0
                 /\ calls' = parse(SubSeq(text, 1, eol - 1))
                 /\ httpd' = [httpd EXCEPT !.buffer = SubSeq(text, eol + 1, Len(text)),
                                           !.answered = @ \/ calls' # <<>>]
                 /\ seen' = seen \cup (IF httpd.answered /\ calls' # <<>> THEN {"second"} ELSE {})
        /\ UNCHANGED wild

httpd_main == TCP_CMD_ESTAB \/ closed \/ TCP_CMD_RECV

-----------------------------------------------------------------------------
(* The clients.                                                            *)

sends(c, seg) == net' = [net EXCEPT ![c] = Append(@, seg)]

\* SYN, and again as long as there is no answer.
connect(c) ==
  /\ client[c].st \in {"closed", "synsent"} /\ net[c] = <<>>
  /\ client' = [client EXCEPT ![c].st = "synsent"]
  /\ sends(c, segment({"SYN"}, 0, 0, <<>>))
  /\ UNCHANGED <<board, wire, retries, seen>>

\* The next segment of the request of client k.
Pushing(k) == segment({"PSH", "ACK"}, k.snd, k.rcv, Head(k.req))
Pushed_(k) == [k EXCEPT !.snd = @ + Len(Head(k.req)), !.req = Tail(@), !.unacked = Append(@, Pushing(k))]

request(c) ==
  /\ client[c].st = "estab" /\ client[c].req # <<>>
  /\ client' = [client EXCEPT ![c] = Pushed_(@)]
  /\ sends(c, Pushing(client[c]))
  /\ UNCHANGED <<board, wire, retries, seen>>

\* SYN+ACK: answered at once, or with the first segment of the request.
establish(c) ==
  /\ client[c].st = "synsent" /\ wire[c] # <<>>
  /\ LET k == [client[c] EXCEPT !.st = "estab", !.snd = 1, !.rcv = Head(wire[c]).seq + 1]
     IN \/ client' = [client EXCEPT ![c] = k] /\ sends(c, segment({"ACK"}, k.snd, k.rcv, <<>>))
        \/ client' = [client EXCEPT ![c] = Pushed_(k)] /\ sends(c, Pushing(k))
  /\ wire' = [wire EXCEPT ![c] = Tail(@)]
  /\ UNCHANGED <<board, retries, seen>>

\* What ack leaves unacknowledged of the segments q.
Unacked(q, ack) ==
  SubSeq(q, Cardinality({i \in DOMAIN q : q[i].seq + Len(q[i].data) <= ack}) + 1, Len(q))

\* Other segments: what is next is taken, and everything but a bare
\* acknowledgement is acknowledged.
receive(c) ==
  /\ client[c].st \in {"estab", "finwait", "closewait", "lastack"} /\ wire[c] # <<>>
  /\ LET k    == client[c]
         seg  == Head(wire[c])
         size == Size(seg.flags, seg.data)
         fin  == "FIN" \in seg.flags /\ seg.seq = k.rcv
         next == [k EXCEPT
                    !.rcv = IF seg.seq = @ THEN @ + size ELSE @,
                    !.got = IF seg.seq = k.rcv THEN @ \o seg.data ELSE @,
                    !.unacked = Unacked(@, seg.ack),
                    !.st = CASE @ = "estab" /\ fin                     -> "closewait"
                             [] @ = "finwait" /\ fin                   -> "done"
                             [] @ = "lastack" /\ seg.ack = k.snd       -> "done"
                             [] OTHER                                  -> @]
     IN /\ client' = [client EXCEPT ![c] = next]
        /\ IF size = 0 THEN UNCHANGED net ELSE sends(c, segment({"ACK"}, k.snd, next.rcv, <<>>))
  /\ wire' = [wire EXCEPT ![c] = Tail(@)]
  /\ UNCHANGED <<board, retries, seen>>

\* After a reset, whatever still comes is answered with another.
refuse(c) ==
  /\ client[c].st \in {"reset", "done"} /\ wire[c] # <<>>
  /\ IF client[c].st = "reset" THEN sends(c, segment({"RST"}, Head(wire[c]).ack, 0, <<>>)) ELSE UNCHANGED net
  /\ wire' = [wire EXCEPT ![c] = Tail(@)]
  /\ UNCHANGED <<board, client, retries, seen>>

retransmit(c) ==
  /\ retries < RETRIES /\ net[c] = <<>>
  /\ client[c].st \in {"estab", "finwait", "closewait"} /\ client[c].unacked # <<>>
  /\ sends(c, [Head(client[c].unacked) EXCEPT !.ack = client[c].rcv])
  /\ retries' = retries + 1
  /\ UNCHANGED <<board, wire, client, seen>>

\* The reply is complete.
close(c) ==
  /\ client[c].st = "closewait"
  /\ client' = [client EXCEPT ![c].st = "lastack", ![c].snd = @ + 1]
  /\ sends(c, segment({"FIN", "ACK"}, client[c].snd, client[c].rcv, <<>>))
  /\ UNCHANGED <<board, wire, retries, seen>>

\* The client ends the connection first, one way or the other.
leave(c) ==
  /\ c \in Leaver /\ client[c].st = "estab"
  /\ \/ /\ client[c].req = <<>>
        /\ client' = [client EXCEPT ![c].st = "finwait", ![c].snd = @ + 1]
        /\ sends(c, segment({"FIN", "ACK"}, client[c].snd, client[c].rcv, <<>>))
     \/ /\ client' = [client EXCEPT ![c].st = "reset"]
        /\ sends(c, segment({"RST"}, client[c].snd, 0, <<>>))
  /\ seen' = seen \cup {"left"}
  /\ UNCHANGED <<board, wire, retries>>

-----------------------------------------------------------------------------
Next ==
  \/ tcp_proc
  \/ httpd_main
  \/ \E c \in Client :
       \/ TCP_CMD_IPRECV(c)
       \/ connect(c)
       \/ establish(c)
       \/ receive(c)
       \/ refuse(c)
       \/ request(c)
       \/ retransmit(c)
       \/ close(c)
       \/ leave(c)

Spec == Init /\ [][Next]_vars

\* The board's tasks run, and clients answer, ask and close.
FairSpec ==
  /\ Spec
  /\ WF_vars(tcp_proc)
  /\ WF_vars(httpd_main)
  /\ \A c \in Client :
       /\ WF_vars(TCP_CMD_IPRECV(c))
       /\ WF_vars(connect(c))
       /\ WF_vars(establish(c))
       /\ WF_vars(receive(c))
       /\ WF_vars(request(c))
       /\ WF_vars(close(c))

-----------------------------------------------------------------------------
(* Properties.                                                             *)

\* httpd always has one connection, or is about to ask for the next: no way a
\* connection ends leaves the server without one, or with two.
Count(box, cmd) == Cardinality({k \in 1..Len(box) : box[k].cmd = cmd})
Serving == ~wild => Count(calls, "ACCEPT") + Len(TCPCONLIST) + Count(HTTPD, "CLOSE") = 1

\* Data carries no number, httpd answers to the connection it was last told of:
\* that is the one the data came from, unless data came with the end of the
\* handshake.
Current(k) ==
  LET before == {l \in 1..(k - 1) : HTTPD[l].cmd \in {"ESTAB", "CLOSE"}}
      last   == CHOOSE l \in before : \A j \in before : j <= l
  IN IF before = {} THEN httpd.number ELSE IF HTTPD[last].cmd = "ESTAB" THEN HTTPD[last].number ELSE 0
AnswersRight ==
  "early" \notin seen =>
    \A k \in 1..Len(HTTPD) : HTTPD[k].cmd = "RECV" => Current(k) = HTTPD[k].number

\* A client receives the pieces of the reply in order, and all of them before
\* the end, unless a number was rewound, it asked for two replies, or a segment
\* of another client came in between.
ReplyIntact ==
  seen \cap {"rewound", "second", "stray"} = {} =>
    \A c \in Client :
      /\ IsPrefix(client[c].got, [k \in 1..PIECES |-> k])
      /\ client[c].st \in {"closewait", "lastack"} => Len(client[c].got) = PIECES

\* A request always finds its connection, unless a client left, data came early
\* or a client asked for two replies on one connection.
NeverWild == wild => seen \cap {"left", "early", "second"} # {}

\* Every client is served in the end, when none of this happens.
Served == [](seen = {}) => \A c \in Client : client[c].st = "synsent" ~> client[c].st = "done"
=============================================================================
