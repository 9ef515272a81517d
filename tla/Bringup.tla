--------------------------------- MODULE Bringup --------------------------------
(***************************************************************************)
(* The board from power-on: the boot loader (Kzload.tla) loads the         *)
(* operating system and starts it, and the user then reads files with the  *)
(* tftp command (Tftp.tla) or stops it with the debugger (Stub.tla).       *)
(*                                                                         *)
(* One follows the other.  The operating system overwrites the memory of   *)
(* the loader, and nothing of the loader's comes back.  While the debugger *)
(* has stopped the board nothing else runs; the sessions here either read  *)
(* files or debug.                                                         *)
(***************************************************************************)
EXTENDS Integers, Sequences

CONSTANTS
  BYTE, SOH, EOT, CAN, NEWLINE, LOAD, RUN, BLOCK_SIZE, Image, RETRY, LOADS, HITS, NAKS,
  BLOCKS, TRANSFERS, FAULTS,
  Code, Thread, Entry, Breakpoint, COMMANDS, NOISE

\* The bytes that mean something in a header are different, and none of them and
\* no command is the end of a line or the command run.
ASSUME BringupAssumption ==
  /\ BYTE \in Nat \ {0, 1} /\ BLOCK_SIZE \in Nat \ {0}
  /\ Image \in Seq([1..BLOCK_SIZE -> 0..(BYTE - 1)])
  /\ SOH # EOT /\ SOH # CAN /\ EOT # CAN
  /\ NEWLINE \notin {EOT, CAN, LOAD, RUN} /\ RUN \notin {EOT, CAN, LOAD}
  /\ BLOCKS \in Nat \ {0}

\* An instruction has a word, and breakpoints are in the program.
ASSUME DebugAssumption ==
  /\ DOMAIN Code \subseteq Nat \ {0} /\ \A a \in DOMAIN Code : Code[a].size \in Nat \ {0}
  /\ Breakpoint \subseteq DOMAIN Code

VARIABLES
  stage,                                       \* "load", then "os", then "debug"
  up, down, board, host, hits, upset,          \* of Kzload
  UDPPORTLIST, TFTP, port, buffer, net, server, faults, again,   \* of Tftp
  mem, instructions, registers, thread, stub, rx, tx, overrun, gdb, noise, done, stepped   \* of Stub

Load == INSTANCE Kzload
Os == INSTANCE Tftp
Dbg == INSTANCE Stub

loadVars == <<up, down, board, host, hits, upset>>
osVars == <<UDPPORTLIST, TFTP, port, buffer, net, server, faults, again>>
dbgVars == <<mem, instructions, registers, thread, stub, rx, tx, overrun, gdb, noise, done, stepped>>
bringupVars == <<stage, loadVars, osVars, dbgVars>>

Init == stage = "load" /\ Load!Init /\ Os!Init /\ Dbg!Init

\* A step of one of them.
Loads(step) == stage = "load" /\ step /\ UNCHANGED <<stage, osVars, dbgVars>>
Serves(step) == stage = "os" /\ step /\ UNCHANGED <<stage, loadVars, dbgVars>>
Debugs(step) == stage = "debug" /\ step /\ UNCHANGED <<stage, loadVars, osVars>>

\* The loader jumps to the operating system.  What a part of it would do is not modelled.
start ==
  /\ stage = "load" /\ board.pc = "started" /\ board.buffer = Image
  /\ stage' = "os"
  /\ up' = <<>> /\ down' = <<>>
  /\ board' = [Load!Prompt EXCEPT !.pc = "started"]
  /\ host' = [st |-> "run", block |-> 0, errors |-> 0, loads |-> 1]
  /\ hits' = 0 /\ upset' = {}
  /\ UNCHANGED <<osVars, dbgVars>>

\* The "debug" command, or 0x03 typed (consdrv.c:80).
debug ==
  /\ stage = "os" /\ port = 0 /\ ~Os!Busy
  /\ stage' = "debug"
  /\ UNCHANGED <<loadVars, osVars, dbgVars>>

Next == Loads(Load!Next) \/ start \/ Serves(Os!Next) \/ debug \/ Debugs(Dbg!Next)

Spec == Init /\ [][Next]_bringupVars

\* The fairness of the loader and its host, and of the tasks, the network and the server.
FairSpec ==
  /\ Spec
  /\ WF_bringupVars(Loads(Load!kzload)) /\ WF_bringupVars(Loads(Load!kozos_py))
  /\ WF_bringupVars(Serves(Os!TFTP_CMD_START \/ Os!tftp_recv))
  /\ WF_bringupVars(Serves(Os!receive)) /\ WF_bringupVars(Serves(Os!request))
  /\ WF_bringupVars(Serves(Os!acknowledge)) /\ WF_bringupVars(Serves(Os!resend))

-----------------------------------------------------------------------------
(* Properties.                                                             *)

\* A transfer that the board or the host takes for a success has brought the whole
\* image, whatever single bytes were wrong on the line (Kzload.tla lists what may
\* not happen).
LoadedRight == stage = "load" => Load!LoadedRight

\* An image whose bytes arrive wrong is loaded and started all the same.
Recovers == Load!Recovers

\* A file that was read holds every block, in order, and each once if nothing was
\* sent twice (tftp.c:120 does not look at the number of a block).
FileRead == Os!FileRead

\* A transfer that the server began ends and gives its port back.
Finishes == Os!Finishes

\* While gdb waits for its user, the program stands still and holds the break
\* instructions gdb knows of and no others.
MemoryKnown == Dbg!MemoryKnown

\* A step is one instruction for each time the stub was told to step.
StepsOnce == Dbg!StepsOnce
=============================================================================
