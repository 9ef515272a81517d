---------------------------------- MODULE Stub ---------------------------------
(***************************************************************************)
(* The GDB stub of mykozos/os/stub.c: breakpoints and single steps in a    *)
(* program that several threads run, and the exchange of packets with gdb. *)
(*                                                                         *)
(* Addresses count words of two bytes, the size of the break instruction   *)
(* (trapa #3).  The program stops when a thread comes to one: in           *)
(* force_break(), at a breakpoint of gdb, or where the stub has put one to *)
(* stop after a single instruction.  A packet is one item on the line, and *)
(* so is any other character; noise makes a packet's sum wrong, or makes   *)
(* an item a character that means nothing.  The serial port holds one      *)
(* character: a second one that comes before the stub reads ends all       *)
(* reception, because nobody clears the overrun flag (serial.c:100-113).   *)
(***************************************************************************)
EXTENDS Integers, Sequences, SequencesExt

CONSTANTS
  Code,        \* the program: [op, size, to] of the instruction at each address
  Thread,
  Entry,       \* where each thread begins
  Breakpoint,  \* where the user sets breakpoints: instructions of one word
  COMMANDS,    \* bound on the commands of the user
  NOISE        \* bound on items that arrive wrong

VARIABLES
  mem,           \* at each address "code" or "BREAK", the first word of trapa #3
  instructions,  \* what the stub replaced: [addr, byte], addr 0 for none
  registers,     \* of the thread that stopped: th, pc
  thread,        \* of each thread: pc, stack of return addresses
  stub,          \* pc: "off", "puts", "gets"; sendbuf: what it sends
  rx, tx,        \* on the line to the stub and to gdb
  overrun,       \* the serial port receives no more
  gdb,           \* st: "wait" for a stop, "idle", wait for an "ack" or a "reply"; packet: its
                 \* command; bps: the breakpoints it has set; commands: so far
  noise,         \* items that arrived wrong so far
  done,          \* how often the stub has carried out the command
  stepped        \* instructions the thread has executed since, or -1: another one stopped,
                 \* or it was at an instruction that leads to itself

codeVars == <<mem, instructions>>
ghosts == <<done, stepped>>
stubVars == <<codeVars, registers, thread, stub, rx, tx, overrun, gdb, noise, ghosts>>

NULL == [addr |-> 0, byte |-> "code"]
packet(cmd, addr, byte) == [cmd |-> cmd, addr |-> addr, byte |-> byte, ok |-> TRUE]
char(c) == [cmd |-> c, addr |-> 0, byte |-> "code", ok |-> FALSE]
chars == {char("+"), char("-"), char("?")}

Init ==
  /\ mem = [a \in DOMAIN Code |-> "code"]
  /\ instructions = <<NULL, NULL>>
  /\ registers = [th |-> CHOOSE t \in Thread : TRUE, pc |-> 0]
  /\ thread = [t \in Thread |-> [pc |-> Entry[t], stack |-> <<>>]]
  /\ stub = [pc |-> "off", sendbuf |-> packet("T", 0, "code")]
  /\ rx = <<>> /\ tx = <<>> /\ overrun = FALSE
  /\ gdb = [st |-> "wait", packet |-> packet("c", 0, "code"), bps |-> {}, commands |-> 0]
  /\ noise = 0
  /\ done = 1 /\ stepped = 0

-----------------------------------------------------------------------------
(* The program.                                                            *)

\* The thread being stepped has executed an instruction.
Counts(t) ==
  stepped' = IF gdb.packet.cmd = "s" /\ t = registers.th /\ stepped >= 0 THEN stepped + 1 ELSE stepped

\* An instruction of thread t: a jump, a branch taken or not, a call, a return.  A
\* thread that has left the program is not followed.
execute(t) ==
  /\ stub.pc = "off" /\ thread[t].pc \in DOMAIN Code
  /\ LET a    == thread[t].pc
         next == a + Code[a].size
         goes(pc, stack) == thread' = [thread EXCEPT ![t] = [pc |-> pc, stack |-> stack]]
     IN /\ mem[a] = "code"
        /\ \/ Code[a].op \in {"plain", "bcc"} /\ goes(next, thread[t].stack)
           \/ Code[a].op \in {"bcc", "jmp"} /\ goes(Code[a].to, thread[t].stack)
           \/ Code[a].op = "jsr" /\ goes(Code[a].to, <<next>> \o thread[t].stack)
           \/ Code[a].op = "rts" /\ goes(Head(thread[t].stack), Tail(thread[t].stack))
  /\ Counts(t)
  /\ UNCHANGED <<codeVars, registers, stub, rx, tx, overrun, gdb, noise, done>>

-----------------------------------------------------------------------------
(* Single steps.                                                           *)

\* What follows the instruction at a, as it is in memory, and where else it may go.
get_instruction_size(a) == IF mem[a] = "BREAK" THEN 1 ELSE Code[a].size
get_jmp_addr(a) ==
  IF mem[a] = "BREAK" THEN 0
  ELSE CASE Code[a].op \in {"bcc", "jmp", "jsr"} -> Code[a].to
         [] Code[a].op = "rts"                   -> Head(thread[registers.th].stack)
         [] OTHER                                -> 0

store_instruction(m, a) == [addr |-> a, byte |-> m[a]]
restore_instruction(m, inst) == IF inst.addr = 0 THEN m ELSE [m EXCEPT ![inst.addr] = inst.byte]

set_softstep_bug ==   \* looks only behind the instruction
  LET next == registers.pc + get_instruction_size(registers.pc)
  IN /\ instructions' = <<store_instruction(mem, next), NULL>>
     /\ mem' = [mem EXCEPT ![next] = "BREAK"]
set_softstep ==
  LET next == registers.pc + get_instruction_size(registers.pc)
      jmp  == get_jmp_addr(registers.pc)
      m    == [mem EXCEPT ![next] = "BREAK"]
  IN /\ instructions' = <<store_instruction(mem, next), IF jmp = 0 THEN NULL ELSE store_instruction(m, jmp)>>
     /\ mem' = IF jmp = 0 THEN m ELSE [m EXCEPT ![jmp] = "BREAK"]

reset_softstep_bug ==   \* restores in the order in which they were replaced
  /\ mem' = restore_instruction(restore_instruction(mem, instructions[1]), instructions[2])
  /\ instructions' = <<NULL, NULL>>
reset_softstep ==
  /\ mem' = restore_instruction(restore_instruction(mem, instructions[2]), instructions[1])
  /\ instructions' = <<NULL, NULL>>

\* The pc that was saved is behind the break instruction: back, if that is the stub's own.
check_softstep(a) == IF \E k \in 1..2 : instructions[k].addr = a THEN a ELSE a + 1

-----------------------------------------------------------------------------
(* The stub.                                                               *)

\* More has come than the port holds.
TooMany(line) == Len(line) > 1 \/ \E k \in 1..Len(line) : line[k] \notin chars

\* The stub sends something, the reply last, and waits for its '+': what is on the
\* line may come in the meantime.
Puts(items, reply, line) ==
  /\ stub' = [pc |-> "puts", sendbuf |-> reply]
  /\ tx' = tx \o items \o <<reply>>
  /\ \/ UNCHANGED overrun
     \/ TooMany(line) /\ overrun' = TRUE

break_intr(t) ==
  /\ stub.pc = "off" /\ thread[t].pc \in DOMAIN Code
  /\ LET a == thread[t].pc
     IN /\ mem[a] = "BREAK" \/ Code[a].op = "trapa #3"
        /\ registers' = [th |-> t, pc |-> check_softstep(a)]
        /\ IF t # registers.th THEN stepped' = -1
           ELSE IF check_softstep(a) = a THEN UNCHANGED stepped ELSE Counts(t)
  /\ reset_softstep
  /\ stub' = [pc |-> "puts", sendbuf |-> packet("T", 0, "code")]
  /\ tx' = Append(tx, packet("T", 0, "code"))
  /\ overrun' = (overrun \/ TooMany(rx))
  /\ UNCHANGED <<thread, rx, gdb, noise, done>>

\* getDebugChar() returns something.
Reads(pc) == stub.pc = pc /\ ~overrun /\ rx # <<>>

\* stub_puts() reads one character, the first of a packet, and sends the reply again
\* until that is a '+'.
stub_puts ==
  /\ Reads("puts")
  /\ rx' = IF Head(rx) \in chars THEN Tail(rx) ELSE <<char("?")>> \o Tail(rx)
  /\ \/ /\ Head(rx) = char("+")
        /\ stub' = [stub EXCEPT !.pc = "gets"]
        /\ UNCHANGED <<tx, overrun>>
     \/ /\ Head(rx) # char("+")
        /\ Puts(<<>>, stub.sendbuf, rx')
  /\ UNCHANGED <<codeVars, registers, thread, gdb, noise, ghosts>>

\* stub_gets() passes over what is no packet, and refuses one with a wrong sum.
stub_gets ==
  /\ Reads("gets") /\ ~Head(rx).ok
  /\ rx' = Tail(rx)
  /\ tx' = IF Head(rx) \in chars THEN tx ELSE Append(tx, char("-"))
  /\ UNCHANGED <<codeVars, registers, thread, stub, overrun, gdb, noise, ghosts>>

\* handle_exception(): a command, which stub_gets() acknowledges.
command(cmd) ==
  /\ Reads("gets") /\ Head(rx).ok /\ Head(rx).cmd = cmd
  /\ rx' = Tail(rx)
  /\ done' = done + 1
  /\ UNCHANGED <<registers, gdb, noise>>

\* Reads registers or memory, of which gdb makes nothing here but to wait for it.
g ==
  /\ command("g")
  /\ Puts(<<char("+")>>, packet("g", 0, "code"), rx')
  /\ UNCHANGED <<codeVars, thread, stepped>>

\* Writes memory.
M ==
  /\ command("M")
  /\ mem' = [mem EXCEPT ![Head(rx).addr] = Head(rx).byte]
  /\ Puts(<<char("+")>>, packet("OK", 0, "code"), rx')
  /\ UNCHANGED <<instructions, thread, stepped>>

\* Back into the program.
restore_registers ==
  /\ thread' = [thread EXCEPT ![registers.th].pc = registers.pc]
  /\ stub' = [stub EXCEPT !.pc = "off"]
  /\ tx' = Append(tx, char("+"))
  /\ UNCHANGED overrun

\* A break instruction on the instruction to be stepped itself stops the program
\* before it.
s ==
  /\ command("s") /\ set_softstep /\ restore_registers
  /\ stepped' = IF get_jmp_addr(registers.pc) = registers.pc THEN -1 ELSE stepped

c == command("c") /\ restore_registers /\ UNCHANGED <<codeVars, stepped>>

handle_exception == stub_puts \/ stub_gets \/ g \/ M \/ s \/ c

-----------------------------------------------------------------------------
(* gdb and the line.                                                       *)

boardVars == <<codeVars, registers, thread, stub, overrun, stepped>>
Silent == rx = <<>> /\ tx = <<>> /\ ~overrun

\* A command of the user.  A breakpoint where the program has stopped is deleted
\* before it goes on.
issues(p) ==
  /\ gdb.st = "idle" /\ gdb.commands < COMMANDS
  /\ CASE p.cmd = "M" -> (p.byte = "code") <=> (p.addr \in gdb.bps)
       [] p.cmd = "g" -> TRUE
       [] OTHER       -> registers.pc \notin gdb.bps
  /\ gdb' = [gdb EXCEPT !.st = "ack", !.packet = p, !.commands = @ + 1]
  /\ rx' = Append(rx, p)
  /\ done' = 0 /\ stepped' = 0
  /\ UNCHANGED <<codeVars, registers, thread, stub, tx, overrun, noise>>

\* The command is sent again after a '-' or a while; a packet that comes instead of
\* a '+' is an old one, which is acknowledged.
awaits_ack ==
  /\ gdb.st = "ack"
  /\ \/ /\ Silent
        /\ rx' = <<gdb.packet>>
        /\ UNCHANGED <<gdb, tx>>
     \/ /\ tx # <<>>
        /\ tx' = Tail(tx)
        /\ \/ /\ Head(tx) = char("+")
              /\ gdb' = [gdb EXCEPT !.st = IF gdb.packet.cmd \in {"s", "c"} THEN "wait" ELSE "reply"]
              /\ UNCHANGED rx
           \/ /\ Head(tx) # char("+")
              /\ rx' = CASE Head(tx) = char("-") -> Append(rx, gdb.packet)
                         [] Head(tx) = char("?") -> rx
                         [] OTHER                -> Append(rx, char("+"))
              /\ UNCHANGED gdb
  /\ UNCHANGED <<boardVars, noise, done>>

\* The reply is acknowledged; one with a wrong sum, or that does not come, is asked
\* for again; for a program that does not stop the user presses a key.
awaits_reply ==
  /\ gdb.st \in {"reply", "wait"}
  /\ \/ /\ Silent
        /\ rx' = <<char(IF gdb.st = "reply" THEN "-" ELSE "?")>>
        /\ UNCHANGED <<gdb, tx>>
     \/ /\ tx # <<>>
        /\ tx' = Tail(tx)
        /\ \/ /\ Head(tx) \in chars
              /\ UNCHANGED <<gdb, rx>>
           \/ /\ Head(tx).ok
              /\ rx' = Append(rx, char("+"))
              /\ gdb' = [gdb EXCEPT
                   !.st = "idle",
                   !.bps = IF gdb.packet.cmd # "M" THEN @
                           ELSE IF gdb.packet.byte = "BREAK" THEN @ \cup {gdb.packet.addr}
                           ELSE @ \ {gdb.packet.addr}]
           \/ /\ Head(tx) \notin chars /\ ~Head(tx).ok
              /\ rx' = Append(rx, char("-"))
              /\ UNCHANGED gdb
  /\ UNCHANGED <<boardVars, noise, done>>

\* An item on the line changes: a packet's sum is wrong, or it is none any more.
disturb ==
  /\ noise < NOISE /\ noise' = noise + 1
  /\ \/ /\ rx # <<>> /\ Last(rx) # char("?")
        /\ \E bad \in {char("?"), [Last(rx) EXCEPT !.ok = FALSE]} :
             bad # Last(rx) /\ rx' = Front(rx) \o <<bad>>
        /\ UNCHANGED tx
     \/ /\ tx # <<>> /\ Last(tx) # char("?")
        /\ \E bad \in {char("?"), [Last(tx) EXCEPT !.ok = FALSE]} :
             bad # Last(tx) /\ tx' = Front(tx) \o <<bad>>
        /\ UNCHANGED rx
  /\ UNCHANGED <<boardVars, gdb, done>>

Commands ==
  {packet(cmd, 0, "code") : cmd \in {"g", "s", "c"}}
    \cup {packet("M", a, byte) : a \in Breakpoint, byte \in {"code", "BREAK"}}

-----------------------------------------------------------------------------
Next ==
  \/ \E t \in Thread : execute(t) \/ break_intr(t)
  \/ handle_exception
  \/ \E p \in Commands : issues(p)
  \/ awaits_ack \/ awaits_reply
  \/ disturb

Spec == Init /\ [][Next]_stubVars

-----------------------------------------------------------------------------
(* Properties.                                                             *)

\* While gdb waits for its user the program stands still, and the break instructions
\* in it are those of the breakpoints gdb believes it has set.
MemoryKnown ==
  gdb.st = "idle" =>
    /\ stub.pc # "off"
    /\ {a \in DOMAIN Code : mem[a] = "BREAK"} = gdb.bps

\* A step ends after one instruction for each time the stub was told to step, unless
\* another thread came to the break instruction first or the instruction leads to
\* itself: a loop of one instruction, or the rts that a recursive call returns to.
StepsOnce == gdb.st = "idle" /\ gdb.packet.cmd = "s" /\ stepped >= 0 => stepped = done
=============================================================================
