---------------------------------- MODULE Udp ----------------------------------
(***************************************************************************)
(* The UDP task of mykozos/os/udp.c: the ports that tasks have registered, *)
(* and which of them a datagram is for.                                    *)
(*                                                                         *)
(* tftp is the only task that registers ports, and it registers them for   *)
(* any host and port at the other end: the first search of udp_recv(), for *)
(* an exact match, never finds anything, the second looks at the board's   *)
(* port alone.  An entry is thus its port, and as a walk of the list finds *)
(* or deletes every entry of a port, only the set of them matters.         *)
(***************************************************************************)

VARIABLE UDPPORTLIST  \* ports registered

\* udp_search_portinfo_from_addr(0, 0, port, 0)
udp_search_portinfo(p) == p \in UDPPORTLIST

UDP_CMD_REGPORT(p) == UDPPORTLIST' = UDPPORTLIST \cup {p}

UDP_CMD_RELPORT_bug(p) == UDPPORTLIST' = UDPPORTLIST \cap {p}   \* keeps what it should delete
UDP_CMD_RELPORT(p) == UDPPORTLIST' = UDPPORTLIST \ {p}
=============================================================================
