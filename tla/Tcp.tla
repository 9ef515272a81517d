---------------------------------- MODULE Tcp ----------------------------------
(***************************************************************************)
(* The TCP task of mykozos/os/tcp.c: its connections, what it does with a  *)
(* segment and with the requests of the task above it.                     *)
(*                                                                         *)
(* Each handler works on one connection, sends segments and tells the task *)
(* above; it is written here as a chain of operators on a record "s" of    *)
(* the connection, the segments sent so far and what is told.  Sequence    *)
(* numbers count units of data, of which SYN and FIN are one each.  The    *)
(* copy kept in con->sending is never sent again and left out.             *)
(***************************************************************************)
EXTENDS Integers, Sequences, SequencesExt

CONSTANTS
  Client,   \* address and port at the other end
  None      \* no client yet: a listening connection

VARIABLES
  TCPCONLIST,  \* connections, the newest first
  number       \* connections made so far

conVars == <<TCPCONLIST, number>>

segment(flags, seq, ack, data) == [flags |-> flags, seq |-> seq, ack |-> ack, data |-> data]

Size(flags, data) ==
  IF "PSH" \in flags THEN Len(data) ELSE IF flags \cap {"SYN", "FIN"} # {} THEN 1 ELSE 0

-----------------------------------------------------------------------------
(* Sending.                                                                *)

\* snd_number follows from what is sent, also when that is an acknowledgement
\* and something sent before it is still on its way: "rewound" records that.
tcp_sendpkt(s, flags, data) ==
  [s EXCEPT !.sent = Append(@, segment(flags, s.con.seq, s.con.ack, data)),
            !.con.snd = s.con.seq + Size(flags, data),
            !.con.status = IF {"FIN", "ACK"} \subseteq flags THEN "FINWAIT1" ELSE @,
            !.seen = IF s.con.snd = s.con.seq THEN @ ELSE @ \cup {"rewound"}]

tcp_send_flush(s) ==
  IF s.con.snd = s.con.seq /\ s.con.send_queue # <<>>
  THEN LET pkt == Head(s.con.send_queue)
       IN tcp_sendpkt([s EXCEPT !.con.send_queue = Tail(@)], pkt.flags, pkt.data)
  ELSE s

tcp_send_enqueue_bug(s, flags, data) ==   \* puts the packet in front of those that wait
  tcp_send_flush([s EXCEPT !.con.send_queue = <<[flags |-> flags, data |-> data]>> \o @])
tcp_send_enqueue(s, flags, data) ==
  tcp_send_flush([s EXCEPT !.con.send_queue = Append(@, [flags |-> flags, data |-> data])])

-----------------------------------------------------------------------------
(* Receiving.                                                              *)

\* One pass over the queue: a packet that is next is acknowledged and passed on.
tcp_recv_flush(s) ==
  LET step(t, pkt) ==
        IF pkt.seq # t.con.ack
        THEN [t EXCEPT !.con.recv_queue = Append(@, pkt)]
        ELSE LET u == tcp_sendpkt([t EXCEPT !.con.ack = pkt.seq + Len(pkt.data)], {"ACK"}, <<>>)
             IN [u EXCEPT !.told = Append(@, [cmd |-> "RECV", number |-> t.con.number, data |-> pkt.data])]
  IN FoldLeft(step, [s EXCEPT !.con.recv_queue = <<>>], s.con.recv_queue)

\* The last connection of the list that was opened by c, or else the last one.
Opened(c) == {k \in 1..Len(TCPCONLIST) : TCPCONLIST[k].peer = c}
Found(c) ==
  LET ks == IF Opened(c) = {} THEN 1..Len(TCPCONLIST) ELSE Opened(c)
  IN CHOOSE k \in ks : \A l \in ks : l <= k

Acknowledged_untold_bug(s, seg) ==   \* does not tell that the connection is open
  IF "ACK" \notin seg.flags THEN s
  ELSE LET t == [s EXCEPT !.con.seq = seg.ack]
           u == IF t.con.status = "ESTAB" THEN tcp_send_flush(t) ELSE t
       IN CASE u.con.status = "SYNRECV"  -> [u EXCEPT !.con.status = "ESTAB"]
            [] u.con.status = "FINWAIT1" -> [u EXCEPT !.con.status = "FINWAIT2"]
            [] u.con.status = "LASTACK"  -> [u EXCEPT !.con.status = "CLOSED", !.closed = TRUE]
            [] OTHER                     -> u
Acknowledged_unsent_bug(s, seg) ==   \* does not send what waits
  IF "ACK" \notin seg.flags THEN s
  ELSE LET u == [s EXCEPT !.con.seq = seg.ack]
       IN CASE u.con.status = "SYNRECV"  -> [u EXCEPT !.con.status = "ESTAB", !.opened = TRUE]
            [] u.con.status = "FINWAIT1" -> [u EXCEPT !.con.status = "FINWAIT2"]
            [] u.con.status = "LASTACK"  -> [u EXCEPT !.con.status = "CLOSED", !.closed = TRUE]
            [] OTHER                     -> u
Acknowledged(s, seg) ==
  IF "ACK" \notin seg.flags THEN s
  ELSE LET t == [s EXCEPT !.con.seq = seg.ack]
           u == IF t.con.status = "ESTAB" THEN tcp_send_flush(t) ELSE t
       IN CASE u.con.status = "SYNRECV"  -> [u EXCEPT !.con.status = "ESTAB", !.opened = TRUE]
            [] u.con.status = "FINWAIT1" -> [u EXCEPT !.con.status = "FINWAIT2"]
            [] u.con.status = "LASTACK"  -> [u EXCEPT !.con.status = "CLOSED", !.closed = TRUE]
            [] OTHER                     -> u

Synchronized(s, c, seg) ==
  IF "SYN" \notin seg.flags \/ s.con.status # "LISTEN" THEN s
  ELSE LET t == [s EXCEPT !.con.snd = 1, !.con.seq = 1, !.con.peer = c, !.con.ack = seg.seq + 1]
       IN [tcp_send_enqueue(t, {"SYN", "ACK"}, <<>>) EXCEPT !.con.status = "SYNRECV"]

Finished(s, seg) ==
  IF "FIN" \notin seg.flags \/ s.con.status \notin {"FINWAIT2", "ESTAB"} THEN s
  ELSE LET t == tcp_sendpkt([s EXCEPT !.con.ack = seg.seq + 1], {"ACK"}, <<>>)
       IN IF s.con.status = "FINWAIT2"
          THEN [t EXCEPT !.con.status = "CLOSED", !.closed = TRUE]
          ELSE [tcp_send_enqueue(t, {"FIN", "ACK"}, <<>>) EXCEPT !.con.status = "LASTACK"]

Pushed(s, seg) ==
  IF "PSH" \notin seg.flags \/ s.con.status # "ESTAB" THEN s
  ELSE tcp_recv_flush([s EXCEPT !.con.recv_queue = Append(@, seg)])

Told(s) ==
  LET message(cmd) == [cmd |-> cmd, number |-> s.con.number, data |-> <<>>]
  IN s.told \o (IF s.opened THEN <<message("ESTAB")>> ELSE <<>>)
            \o (IF s.closed THEN <<message("CLOSE")>> ELSE <<>>)

Begin(con, seen) ==
  [con |-> con, sent |-> <<>>, told |-> <<>>, opened |-> FALSE, closed |-> FALSE, seen |-> seen]

\* tcp_recv() of a segment from c, by the connection con: what it comes to.
tcp_recv(con, c, seg, seen0) ==
  LET s == [Begin(con, seen0) EXCEPT !.closed = "RST" \in seg.flags]
  IN {Pushed(f, seg) : f \in {Finished(y, seg) : y \in {Synchronized(a, c, seg) : a \in {Acknowledged(s, seg)}}}}

-----------------------------------------------------------------------------
(* The list of connections.                                                *)

Listening ==
  [number |-> number + 1, peer |-> None, status |-> "LISTEN",
   snd |-> 1, seq |-> 1, ack |-> 0, send_queue |-> <<>>, recv_queue |-> <<>>]

\* The walk for number 0 brings the NULL of the list to its end, and so the
\* new connection to its front.
TCP_CMD_ACCEPT ==
  /\ TCPCONLIST' = <<Listening>> \o TCPCONLIST
  /\ number' = number + 1

\* tcp_search_connection_from_number()
Numbered(n) == {k \in 1..Len(TCPCONLIST) : TCPCONLIST[k].number = n}

Done(k, s) ==
  /\ TCPCONLIST' = IF s.closed THEN RemoveAt(TCPCONLIST, k) ELSE [TCPCONLIST EXCEPT ![k] = s.con]
  /\ UNCHANGED number
=============================================================================
