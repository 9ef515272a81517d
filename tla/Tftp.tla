---------------------------------- MODULE Tftp ---------------------------------
(***************************************************************************)
(* The TFTP client of mykozos/os/tftp.c on the UDP task (Udp.tla): it      *)
(* reads a file from a server, over a network that loses, repeats and      *)
(* reorders datagrams.                                                     *)
(*                                                                         *)
(* tftp has a lower priority than the UDP task (main.c:22-24), so a        *)
(* request to that task is served when it is sent.  A datagram that        *)
(* arrives between two requests of tftp is put into tftp's box, as it is   *)
(* when it arrives before the first: tftp handles a message in one step.   *)
(* Transfers are numbered, and so are the board's ports.  The server waits *)
(* for the acknowledgement of each block before the next, sends a block    *)
(* again after a timeout, and answers every request with a port of its     *)
(* own.  It does not know options: TFTP_OPCODE_OPTACK does not occur.      *)
(***************************************************************************)
EXTENDS Udp, Naturals, Sequences, SequencesExt, Bags

CONSTANTS
  BLOCKS,     \* blocks of the file, of which the last is shorter than 512 bytes
  TRANSFERS,  \* bound on the number of transfers
  FAULTS      \* bound on datagrams lost, repeated or late

VARIABLES
  TFTP,     \* MSGBOX_ID_TFTP: [cmd, tid, block]
  port,     \* the port of the transfer, counted from the first
  buffer,   \* tftp_buffer: blocks since the transfer began
  net,      \* datagrams on their way, a bag of [kind, port, tid, block]
  server,   \* what the server does at each of its ports: [port, block, st]
  faults,   \* datagrams lost, repeated or late so far
  again     \* a request or a block was sent twice

tftpVars == <<TFTP, port, buffer>>
vars == <<UDPPORTLIST, tftpVars, net, server, faults, again>>

datagram(kind, p, tid, block) == [kind |-> kind, port |-> p, tid |-> tid, block |-> block]

Init ==
  /\ UDPPORTLIST = {}
  /\ TFTP = <<>> /\ port = 0 /\ buffer = <<>>
  /\ net = EmptyBag
  /\ server = <<>>
  /\ faults = 0 /\ again = FALSE

-----------------------------------------------------------------------------
(* The UDP task.                                                           *)

Arrived(d) == /\ BagIn(d, net)
              /\ net' = net (-) SetToBag({d})

\* A datagram for a registered port goes into tftp's box.
udp_recv(d) ==
  /\ d.kind = "DATA" /\ Arrived(d)
  /\ TFTP' = IF udp_search_portinfo(d.port)
             THEN Append(TFTP, [cmd |-> "RECV", tid |-> d.tid, block |-> d.block])
             ELSE TFTP
  /\ UNCHANGED <<UDPPORTLIST, port, buffer, server, faults, again>>

udp_send(d) == net' = net (+) SetToBag({d})

-----------------------------------------------------------------------------
(* tftp.                                                                   *)

kz_recv(cmd) ==
  /\ TFTP # <<>> /\ Head(TFTP).cmd = cmd
  /\ TFTP' = Tail(TFTP)
  /\ UNCHANGED <<server, faults, again>>

TFTP_CMD_START_bug ==   \* does not go back to the beginning of the buffer
  /\ kz_recv("START")
  /\ port' = port + 1
  /\ UDP_CMD_REGPORT(port + 1)
  /\ udp_send(datagram("RRQ", port + 1, 0, 0))
  /\ UNCHANGED buffer
TFTP_CMD_START ==
  /\ kz_recv("START")
  /\ buffer' = <<>>
  /\ port' = port + 1
  /\ UDP_CMD_REGPORT(port + 1)
  /\ udp_send(datagram("RRQ", port + 1, 0, 0))

\* The block is appended, whatever its number, and acknowledged from the port of
\* the current transfer; the last one ends it.
tftp_recv ==
  /\ kz_recv("RECV")
  /\ LET m == Head(TFTP)
     IN /\ buffer' = Append(buffer, m.block)
        /\ udp_send(datagram("ACK", port, m.tid, m.block))
        /\ IF m.block = BLOCKS THEN UDP_CMD_RELPORT(port) ELSE UNCHANGED UDPPORTLIST
  /\ UNCHANGED port

-----------------------------------------------------------------------------
(* The command thread, the server and the network.                         *)

\* A transfer may still receive data: the user waits for that to end before
\* the next.
Open(p) == udp_search_portinfo(p)
Busy ==
  \/ \E k \in 1..Len(TFTP) : TFTP[k].cmd = "START"
  \/ \E d \in BagToSet(net) : d.kind \in {"RRQ", "DATA"} /\ Open(d.port)
  \/ \E k \in 1..Len(server) : server[k].st = "sending" /\ Open(server[k].port)

send_tftp ==
  /\ port < TRANSFERS
  /\ ~Busy
  /\ TFTP' = Append(TFTP, [cmd |-> "START", tid |-> 0, block |-> 0])
  /\ UNCHANGED <<UDPPORTLIST, port, buffer, net, server, faults, again>>

sends(k, block) == datagram("DATA", server[k].port, k, block)

\* A read request: a new port, and the first block from it.
serve(d) ==
  /\ d.kind = "RRQ" /\ BagIn(d, net)
  /\ server' = Append(server, [port |-> d.port, block |-> 1, st |-> "sending"])
  /\ net' = (net (-) SetToBag({d})) (+) SetToBag({datagram("DATA", d.port, Len(server) + 1, 1)})
  /\ UNCHANGED <<UDPPORTLIST, tftpVars, faults, again>>

\* The acknowledgement of the block last sent, from the right port, brings the next.
acknowledged(d) ==
  /\ d.kind = "ACK" /\ BagIn(d, net)
  /\ LET s    == server[d.tid]
         mine == s.st = "sending" /\ s.port = d.port /\ s.block = d.block
         rest == net (-) SetToBag({d})
     IN \/ /\ ~mine
           /\ net' = rest
           /\ UNCHANGED server
        \/ /\ mine /\ s.block = BLOCKS
           /\ net' = rest
           /\ server' = [server EXCEPT ![d.tid].st = "done"]
        \/ /\ mine /\ s.block < BLOCKS
           /\ net' = rest (+) SetToBag({sends(d.tid, s.block + 1)})
           /\ server' = [server EXCEPT ![d.tid].block = @ + 1]
  /\ UNCHANGED <<UDPPORTLIST, tftpVars, faults, again>>

\* The timeout is longer than a block and its acknowledgement take, or comes too
\* early, which is a fault.  The block is sent again as often as it takes, or
\* until the server gives up a port that does not answer any more.
Waiting(k) == \/ \E d \in BagToSet(net) : d.tid = k
              \/ \E j \in 1..Len(TFTP) : TFTP[j].tid = k
timeout(k) ==
  /\ server[k].st = "sending"
  /\ \/ /\ ~Waiting(k) /\ ~Open(server[k].port)
        /\ server' = [server EXCEPT ![k].st = "gave up"]
        /\ UNCHANGED <<net, faults, again>>
     \/ /\ \/ ~Waiting(k) /\ Open(server[k].port) /\ UNCHANGED faults
           \/ Waiting(k) /\ faults < FAULTS /\ faults' = faults + 1
        /\ net' = net (+) SetToBag({sends(k, server[k].block)})
        /\ again' = TRUE
        /\ UNCHANGED server
  /\ UNCHANGED <<UDPPORTLIST, tftpVars>>

lose(d) ==
  /\ faults < FAULTS /\ Arrived(d)
  /\ faults' = faults + 1
  /\ UNCHANGED <<UDPPORTLIST, tftpVars, server, again>>

repeat(d) ==
  /\ faults < FAULTS
  /\ udp_send(d)
  /\ faults' = faults + 1
  /\ again' = (again \/ d.kind \in {"RRQ", "DATA"})
  /\ UNCHANGED <<UDPPORTLIST, tftpVars, server>>

-----------------------------------------------------------------------------
receive == \E d \in BagToSet(net) : udp_recv(d)
request == \E d \in BagToSet(net) : serve(d)
acknowledge == \E d \in BagToSet(net) : acknowledged(d)
resend == \E k \in 1..Len(server) : timeout(k)

Next ==
  \/ TFTP_CMD_START \/ tftp_recv
  \/ send_tftp
  \/ receive \/ request \/ acknowledge \/ resend
  \/ \E d \in BagToSet(net) : lose(d) \/ repeat(d)

Spec == Init /\ [][Next]_vars

\* The board's tasks run, the network delivers in the end what it does not lose,
\* and the server answers and waits no longer than its timeout.
FairSpec ==
  /\ Spec
  /\ WF_vars(TFTP_CMD_START \/ tftp_recv)
  /\ WF_vars(receive) /\ WF_vars(request) /\ WF_vars(acknowledge) /\ WF_vars(resend)

-----------------------------------------------------------------------------
(* Properties.                                                             *)

Over == BLOCKS \in Range(buffer)

\* A file that has been read holds every block, first come in order, and is the
\* file itself unless a request or a block was sent twice.
First(b) == CHOOSE k \in 1..Len(buffer) : buffer[k] = b /\ \A l \in 1..(k - 1) : buffer[l] # b
FileRead ==
  Over => /\ Range(buffer) = 1..BLOCKS
          /\ \A b, c \in 1..BLOCKS : b < c => First(b) < First(c)
          /\ ~again => buffer = [k \in 1..BLOCKS |-> k]

\* A transfer that the server has begun comes to its end.
Finishes ==
  \A p \in 1..TRANSFERS : p \in {server[k].port : k \in 1..Len(server)} ~> ~Open(p)
=============================================================================
