------------------------------- MODULE NetStack -------------------------------
(***************************************************************************)
(* The network tasks up to ping: Ethernet (ethernet.c), ARP (arp.c), IP    *)
(* (ip.c) and ICMP (icmp.c) of mykozos/os, with the network driver and     *)
(* the command task as their environment.  Every task takes one message    *)
(* after the other; a step ends where it sends to another task, so steps   *)
(* of different tasks interleave wherever that can be seen, as far as      *)
(* their priorities (main.c:10-24) allow.                                  *)
(***************************************************************************)
EXTENDS Arp

CONSTANTS
  Target,  \* hosts that are pinged
  Frame,   \* frames that may arrive, as [mac, type, from, to, body]
  NUMBER,  \* echo requests of one ping
  PINGS,   \* bound on pings
  RECVS    \* bound on frames that arrive

ASSUME NetStackAssumption ==
  /\ Target \subseteq Host
  /\ \A f \in Frame : f.from \in Host /\ f.to \in Host
  /\ NUMBER \in Nat /\ PINGS \in Nat /\ RECVS \in Nat

VARIABLES
  started,      \* tasks that have sent what their main functions send first
  initialized,  \* of ethernet.c
  registered,   \* protoinfo[IP_PROTOCOL_ICMP].id is set
  icmp,         \* pkt: the ping being served, or 0; left: requests to send
  pings,        \* pings so far
  recvs,        \* frames arrived so far
  made,         \* IP packets made so far
  sent          \* IP packets the driver has transmitted

tasks == <<started, initialized, registered, icmp>>
counts == <<pings, recvs, made, sent>>
vars == <<bufVars, arpVars, tasks, counts>>

\* The Ethernet and ARP tasks have started, and the driver has answered
\* NETDRV_CMD_USE.
Init ==
  /\ buf = [b \in Buffer |-> IF b = 1 THEN [Blank EXCEPT !.cmd = "MACADDR"] ELSE Blank]
  /\ used = {1}
  /\ box = [m \in Box |-> IF m = "ETH" THEN <<1>> ELSE <<>>]
  /\ down = FALSE
  /\ ArpInit
  /\ started = {}
  /\ initialized = FALSE
  /\ registered = FALSE
  /\ icmp = [pkt |-> 0, left |-> 0]
  /\ pings = 0 /\ recvs = 0 /\ made = 0 /\ sent = 0

\* A task runs while those of a higher priority wait for messages: the driver
\* above Ethernet and ARP, these above IP and ICMP.
Above11 == box["NET"] = <<>>
Above12 == Above11 /\ box["ETH"] = <<>> /\ box["ARP"] = <<>> /\ Idle

-----------------------------------------------------------------------------
(* The Ethernet task.                                                      *)

ETHERNET_CMD_MACADDR ==
  /\ Got("ETH", "MACADDR")
  /\ Pass(Taken("ETH"), First("ETH"), buf[First("ETH")], "ARP")
  /\ initialized' = TRUE
  /\ UNCHANGED <<started, registered, icmp>>

\* The card receives everything there is on the wire (RCR_PRO).
ForUs(p) == initialized /\ p.mac \in {ME, ALL} /\ p.type \in {"arp", "ip"}

ethernet_recv_bug ==   \* returns 0 for a packet it has passed on
  /\ Got("ETH", "RECV")
  /\ LET b == First("ETH")
     IN /\ used' = used \ {b}
        /\ box' = IF ForUs(buf[b])
                  THEN [Taken("ETH") EXCEPT ![IF buf[b].type = "arp" THEN "ARP" ELSE "IP"] = Append(@, b)]
                  ELSE Taken("ETH")
        /\ UNCHANGED <<buf, down>>
  /\ UNCHANGED tasks
ethernet_recv ==
  /\ Got("ETH", "RECV")
  /\ LET b == First("ETH")
     IN \/ /\ ForUs(buf[b])
           /\ Pass(Taken("ETH"), b, buf[b], IF buf[b].type = "arp" THEN "ARP" ELSE "IP")
        \/ ~ForUs(buf[b]) /\ kz_kmfree(Taken("ETH"), b)
  /\ UNCHANGED tasks

ethernet_send_bug ==   \* does not ask for an address
  /\ Got("ETH", "SEND")
  /\ Pass(Taken("ETH"), First("ETH"), buf[First("ETH")], "NET")
  /\ UNCHANGED tasks

\* A packet without a MAC address is ARP's, others are the driver's.
ethernet_send ==
  /\ Got("ETH", "SEND")
  /\ LET b == First("ETH")
     IN Pass(Taken("ETH"), b, buf[b], IF buf[b].mac = ZERO THEN "ARP" ELSE "NET")
  /\ UNCHANGED tasks

-----------------------------------------------------------------------------
(* The IP task.                                                            *)

ip_start ==
  /\ ~down /\ "ip" \notin started
  /\ PassNew(box, [Blank EXCEPT !.cmd = "IPADDR"], "ARP", {})
  /\ started' = started \cup {"ip"}
  /\ UNCHANGED <<initialized, registered, icmp>>

IP_CMD_REGPROTO ==
  /\ Got("IP", "REGPROTO")
  /\ kz_kmfree(Taken("IP"), First("IP"))
  /\ registered' = TRUE
  /\ UNCHANGED <<started, initialized, icmp>>

ip_recv ==
  /\ Got("IP", "RECV")
  /\ LET b == First("IP")
         p == buf[b]
     IN \/ p.to = ME /\ p.body # "other" /\ registered /\ Pass(Taken("IP"), b, p, "ICMP")
        \/ (p.to # ME \/ p.body = "other" \/ ~registered) /\ kz_kmfree(Taken("IP"), b)
  /\ UNCHANGED tasks

ip_send ==
  /\ Got("IP", "SEND")
  /\ LET b == First("IP")
     IN Pass(Taken("IP"), b, [buf[b] EXCEPT !.mac = ZERO, !.type = "ip", !.from = ME], "ETH")
  /\ UNCHANGED tasks

-----------------------------------------------------------------------------
(* The ICMP task.                                                          *)

icmp_packet(to, body) == packet("SEND", ZERO, "ip", ME, to, body)
Made == made' = made + 1 /\ UNCHANGED <<pings, recvs, sent>>

icmp_start ==
  /\ ~down /\ "icmp" \notin started
  /\ PassNew(box, [Blank EXCEPT !.cmd = "REGPROTO"], "IP", {})
  /\ started' = started \cup {"icmp"}
  /\ UNCHANGED <<initialized, registered, icmp, counts>>

icmp_recv ==
  /\ icmp.pkt = 0 /\ Got("ICMP", "RECV")
  /\ LET b == First("ICMP")
     IN \/ /\ buf[b].body = "echo"
           /\ PassNew(Taken("ICMP"), icmp_packet(buf[b].from, "echo_reply"), "IP", {b})
           /\ IF down' THEN UNCHANGED counts ELSE Made
        \/ /\ buf[b].body # "echo"
           /\ kz_kmfree(Taken("ICMP"), b)
           /\ UNCHANGED counts
  /\ UNCHANGED tasks

\* icmp_send() makes one request after the other, then frees the command.
icmp_send ==
  /\ icmp.pkt = 0 /\ Got("ICMP", "PING")
  /\ icmp' = [pkt |-> First("ICMP"), left |-> NUMBER]
  /\ box' = Taken("ICMP")
  /\ UNCHANGED <<buf, used, down, started, initialized, registered, counts>>

icmp_sendpkt ==
  /\ ~down /\ icmp.left > 0
  /\ PassNew(box, icmp_packet(buf[icmp.pkt].to, "echo"), "IP", {})
  /\ IF down' THEN UNCHANGED <<icmp, counts>>
     ELSE icmp' = [icmp EXCEPT !.left = @ - 1] /\ Made
  /\ UNCHANGED <<started, initialized, registered>>

icmp_sent ==
  /\ ~down /\ icmp.pkt # 0 /\ icmp.left = 0
  /\ kz_kmfree(box, icmp.pkt)
  /\ icmp' = [pkt |-> 0, left |-> 0]
  /\ UNCHANGED <<started, initialized, registered, counts>>

-----------------------------------------------------------------------------
(* The tasks around them.                                                  *)

\* The command task: ping.
send_icmp(h) ==
  /\ ~down /\ pings < PINGS
  /\ PassNew(box, packet("PING", ZERO, "", ME, h, ""), "ICMP", {})
  /\ pings' = pings + 1
  /\ UNCHANGED <<arpVars, tasks, recvs, made, sent>>

\* The driver: a frame arrives.
recv_packet(f) ==
  /\ ~down /\ recvs < RECVS
  /\ PassNew(box, packet("RECV", f.mac, f.type, f.from, f.to, f.body), "ETH", {})
  /\ recvs' = recvs + 1
  /\ UNCHANGED <<arpVars, tasks, pings, made, sent>>

\* The driver: a frame is sent.
send_packet ==
  /\ Got("NET", "SEND")
  /\ kz_kmfree(Taken("NET"), First("NET"))
  /\ sent' = IF buf[First("NET")].type = "ip" THEN sent + 1 ELSE sent
  /\ UNCHANGED <<arpVars, tasks, pings, recvs, made>>

ethernet_main ==
  /\ Above11
  /\ ETHERNET_CMD_MACADDR \/ ethernet_recv \/ ethernet_send
  /\ UNCHANGED <<arpVars, counts>>
arp_task == Above11 /\ arp_main /\ UNCHANGED <<tasks, counts>>
ip_main ==
  /\ Above12
  /\ ip_start \/ ("ip" \in started /\ (IP_CMD_REGPROTO \/ ip_recv \/ ip_send))
  /\ UNCHANGED <<arpVars, counts>>
icmp_main ==
  /\ Above12
  /\ icmp_start \/ ("icmp" \in started /\ (icmp_recv \/ icmp_send \/ icmp_sendpkt \/ icmp_sent))
  /\ UNCHANGED arpVars

Next ==
  \/ ethernet_main
  \/ arp_task
  \/ ip_main
  \/ icmp_main
  \/ \E h \in Target : send_icmp(h)
  \/ \E f \in Frame : recv_packet(f)
  \/ send_packet

Spec == Init /\ [][Next]_vars

\* A task that can run does: those above it wait, and those beside it take
\* turns with it.
FairSpec ==
  /\ Spec
  /\ WF_vars(ethernet_main)
  /\ WF_vars(arp_task)
  /\ WF_vars(ip_main)
  /\ WF_vars(icmp_main)
  /\ WF_vars(send_packet)
-----------------------------------------------------------------------------
(* Properties.                                                             *)

\* Every buffer in use is in one place, a box, the waiting list or the hand of
\* a task, and a freed one is nowhere: none is leaked, none freed twice, none
\* used after it was freed, as long as the system runs.
Holder == Box \cup {"waiting", "arp", "icmp"}
Held == [h \in Holder |->
  CASE h = "waiting" -> ARPPKTLIST
    [] h = "arp"     -> <<arp.pkt>>
    [] h = "icmp"    -> <<icmp.pkt>>
    [] OTHER         -> box[h]]
Places(b) == UNION {{<<h, k>> : k \in {j \in 1..Len(Held[h]) : Held[h][j] = b}} : h \in Holder}
OneOwner ==
  ~down => \A b \in Buffer :
             IF b \in used THEN \E p \in Places(b) : Places(b) = {p} ELSE Places(b) = {}

\* Between two messages both of ARP's lists end with their only NULL, and no
\* host is in the table twice.
Terminated(list) == End(list) = Len(list)
ListsWell ==
  /\ Idle => Terminated(ARPADRLIST) /\ Terminated(ARPPKTLIST)
  /\ \A k, l \in 1..Len(ARPADRLIST) : ARPADRLIST[k] = ARPADRLIST[l] => k = l

\* No packet waits for an address that is known.
NoneStuck ==
  Idle => \A k \in 1..(Len(ARPPKTLIST) - 1) :
            ~Known(ARPADRLIST, buf[ARPPKTLIST[k]].to)

\* The driver is given packets with the address of the host they are for, and
\* only broadcasts to all.
RightAddress ==
  \A k \in 1..Len(box["NET"]) :
    LET p == buf[box["NET"][k]]
    IN p.mac = p.to \/ (p.mac = ALL /\ p.type = "arp" /\ p.body = "request")

\* Every IP packet made is sent, or on its way, or waits: none is dropped.
NoneDropped == made = sent + Cardinality({b \in used : buf[b].cmd = "SEND" /\ buf[b].type = "ip"})

\* Packets do not go round between the tasks for ever.
Quiet == <>[](down \/ \A m \in Box : box[m] = <<>>)
=============================================================================
