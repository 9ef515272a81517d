---------------------------------- MODULE Arp ----------------------------------
(***************************************************************************)
(* The ARP task of mykozos/os/arp.c.  It keeps its address table and the   *)
(* packets that wait for an address in two message boxes of its own, as    *)
(* lists that end with a NULL message: it walks one by receiving messages  *)
(* and sending them back until the NULL comes round.                       *)
(*                                                                         *)
(* A step ends where the task sends to another one; nobody else sees its   *)
(* two lists.                                                              *)
(***************************************************************************)
EXTENDS NetBuf, SequencesExt

CONSTANT NULL

ASSUME ArpAssumption == NULL \notin Buffer \cup Host

VARIABLES
  ARPADRLIST,   \* hosts with a known address, and NULL
  ARPPKTLIST,   \* waiting packets, and NULL
  arp           \* pc: "recv", "flush" or "reply"; pkt: the packet received, or
                \* 0; my_ipaddr: known

arpVars == <<ARPADRLIST, ARPPKTLIST, arp>>

\* arp_main() has put a NULL into each list.
ArpInit ==
  /\ ARPADRLIST = <<NULL>>
  /\ ARPPKTLIST = <<NULL>>
  /\ arp = [pc |-> "recv", pkt |-> 0, my_ipaddr |-> FALSE]

\* A list after a walk that changes nothing: what was behind the NULL
\* comes first.
End(list) == CHOOSE k \in 1..Len(list) : list[k] = NULL /\ \A j \in 1..(k - 1) : list[j] # NULL
Walked(list) == SubSeq(list, End(list) + 1, Len(list)) \o SubSeq(list, 1, End(list) - 1) \o <<NULL>>

\* arp_getaddr() finds an entry.
Known(list, h) == \E k \in 1..(End(list) - 1) : list[k] = h

arp_setaddr_bug(h) ==   \* does not walk once more
  IF Known(ARPADRLIST, h) THEN Walked(ARPADRLIST) ELSE Append(Walked(ARPADRLIST), h)
arp_setaddr(h) ==
  IF Known(ARPADRLIST, h) THEN Walked(ARPADRLIST)
  ELSE Walked(Append(Walked(ARPADRLIST), h))

\* A request is broadcast, a reply goes to who asked.
arp_packet(op, mac, h) == packet("SEND", mac, "arp", ME, h, op)

Idle == arp.pc = "recv"

ARP_CMD_MACADDR ==
  /\ Idle /\ Got("ARP", "MACADDR")
  /\ kz_kmfree(Taken("ARP"), First("ARP"))
  /\ UNCHANGED arpVars

ARP_CMD_IPADDR ==
  /\ Idle /\ Got("ARP", "IPADDR")
  /\ arp' = [arp EXCEPT !.my_ipaddr = TRUE]
  /\ kz_kmfree(Taken("ARP"), First("ARP"))
  /\ UNCHANGED <<ARPADRLIST, ARPPKTLIST>>

arp_recv_bug ==   \* learns the address and leaves the packets waiting
  /\ Idle /\ Got("ARP", "RECV")
  /\ ARPADRLIST' = arp_setaddr(buf[First("ARP")].from)
  /\ arp' = [arp EXCEPT !.pc = "reply", !.pkt = First("ARP")]
  /\ box' = Taken("ARP")
  /\ UNCHANGED <<ARPPKTLIST, buf, used, down>>

\* Requests and replies alike tell the sender's address.  Others are dropped.
arp_recv ==
  /\ Idle /\ Got("ARP", "RECV")
  /\ LET pkt == First("ARP")
     IN \/ /\ buf[pkt].body \in {"request", "reply"}
           /\ ARPADRLIST' = arp_setaddr(buf[pkt].from)
           /\ arp' = [arp EXCEPT !.pc = "flush", !.pkt = pkt]
           /\ box' = Taken("ARP")
           /\ UNCHANGED <<buf, used, down>>
        \/ /\ buf[pkt].body \notin {"request", "reply"}
           /\ kz_kmfree(Taken("ARP"), pkt)
           /\ UNCHANGED <<ARPADRLIST, arp>>
  /\ UNCHANGED ARPPKTLIST

arp_send_bug ==   \* returns 0 for a packet it has put in
  /\ Idle /\ Got("ARP", "SEND")
  /\ LET pkt == First("ARP")
     IN /\ ARPPKTLIST' = Walked(Append(ARPPKTLIST, pkt))
        /\ PassNew(Taken("ARP"), arp_packet("request", ALL, buf[pkt].to), "ETH", {pkt})
        /\ UNCHANGED <<ARPADRLIST, arp>>

\* A packet whose destination is not known yet is put in, and walked to the
\* front of the list.
arp_send ==
  /\ Idle /\ Got("ARP", "SEND")
  /\ LET pkt == First("ARP")
         to  == buf[pkt].to
     IN /\ ARPPKTLIST' = Walked(Append(ARPPKTLIST, pkt))
        /\ \/ /\ Known(ARPADRLIST, to)
              /\ arp' = [arp EXCEPT !.pc = "flush"]
              /\ box' = Taken("ARP")
              /\ UNCHANGED <<buf, used, down>>
           \/ /\ ~Known(ARPADRLIST, to)
              /\ PassNew(Taken("ARP"), arp_packet("request", ALL, to), "ETH", {})
              /\ UNCHANGED arp
        /\ ARPADRLIST' = Walked(ARPADRLIST)

arp_flush_bug ==   \* does not write the address into the packet
  /\ ~down /\ arp.pc = "flush"
  /\ LET pkt == Head(ARPPKTLIST)
     IN \/ /\ pkt = NULL
           /\ ARPPKTLIST' = Append(Tail(ARPPKTLIST), NULL)
           /\ arp' = [arp EXCEPT !.pc = IF arp.pkt = 0 THEN "recv" ELSE "reply"]
           /\ UNCHANGED bufVars
        \/ /\ pkt # NULL
           /\ ARPPKTLIST' = Tail(ARPPKTLIST)
           /\ Pass(box, pkt, [buf[pkt] EXCEPT !.cmd = "SEND"], "ETH")
           /\ UNCHANGED arp
  /\ UNCHANGED ARPADRLIST

\* arp_flush(-1), one packet: it goes if its address is known, and back into
\* the list if not.  The NULL ends the walk.
arp_flush ==
  /\ ~down /\ arp.pc = "flush"
  /\ LET pkt == Head(ARPPKTLIST)
     IN \/ /\ pkt = NULL
           /\ ARPPKTLIST' = Append(Tail(ARPPKTLIST), NULL)
           /\ arp' = [arp EXCEPT !.pc = IF arp.pkt = 0 THEN "recv" ELSE "reply"]
           /\ UNCHANGED bufVars
        \/ /\ pkt # NULL /\ Known(ARPADRLIST, buf[pkt].to)
           /\ ARPPKTLIST' = Tail(ARPPKTLIST)
           /\ Pass(box, pkt, [buf[pkt] EXCEPT !.cmd = "SEND", !.mac = buf[pkt].to], "ETH")
           /\ UNCHANGED arp
        \/ /\ pkt # NULL /\ ~Known(ARPADRLIST, buf[pkt].to)
           /\ ARPPKTLIST' = Append(Tail(ARPPKTLIST), pkt)
           /\ UNCHANGED <<bufVars, arp>>
  /\ UNCHANGED ARPADRLIST

\* The end of arp_recv(): a request for this board is answered, and the
\* packet is freed.
arp_reply ==
  /\ ~down /\ arp.pc = "reply"
  /\ LET p == buf[arp.pkt]
     IN \/ /\ p.body = "request" /\ p.to = ME /\ arp.my_ipaddr
           /\ PassNew(box, arp_packet("reply", p.from, p.from), "ETH", {arp.pkt})
        \/ /\ p.body = "reply" \/ p.to # ME \/ ~arp.my_ipaddr
           /\ kz_kmfree(box, arp.pkt)
  /\ arp' = [arp EXCEPT !.pc = "recv", !.pkt = 0]
  /\ UNCHANGED <<ARPADRLIST, ARPPKTLIST>>

arp_main ==
  \/ ARP_CMD_MACADDR
  \/ ARP_CMD_IPADDR
  \/ arp_recv
  \/ arp_send
  \/ arp_flush
  \/ arp_reply
=============================================================================
