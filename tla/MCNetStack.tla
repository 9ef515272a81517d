------------------------------ MODULE MCNetStack ------------------------------
(***************************************************************************)
(* NetStack.tla with two peers.                                            *)
(***************************************************************************)
EXTENDS NetStack

frame(m, t, f, d, b) == [mac |-> m, type |-> t, from |-> f, to |-> d, body |-> b]

\* What one peer and another may send: ARP, pings and their answers, and what is
\* dropped: a frame for another station, one for another host, other ARP.
CONSTANTS p1, p2
MCPeer == {p1, p2}
MCFrame == {
  frame(ALL, "arp", p1, ME, "request"),
  frame(ME, "arp", p1, ME, "reply"),
  frame(ALL, "arp", p2, p1, "request"),
  frame(ALL, "arp", p2, ME, "other"),
  frame(ME, "ip", p2, ME, "echo"),
  frame(ME, "ip", p2, ME, "echo_reply"),
  frame(p2, "ip", p1, p2, "echo"),
  frame(ME, "ip", p1, p2, "echo")}
=============================================================================
