--------------------------------- MODULE Kzload --------------------------------
(***************************************************************************)
(* The boot loader: its prompt (bootload/main.c), the XMODEM receiver      *)
(* (xmodem.c) and the start of what was loaded (elf.c), with the host      *)
(* script os/kozos.py and the XMODEM sender it uses at the other end of    *)
(* the serial line.                                                        *)
(*                                                                         *)
(* The board reads byte by byte, and what a byte means depends on what it  *)
(* makes of those before; the host sends a block or a command at a time.   *)
(* The line may deliver another byte than the one sent; it loses none.     *)
(* Bytes are the numbers below BYTE, with which the block numbers wrap;    *)
(* LOAD and RUN stand for the text of these commands.  What the board      *)
(* sends is an ACK, a NAK or a "text".                                     *)
(***************************************************************************)
EXTENDS Integers, Sequences, SequencesExt

CONSTANTS
  BYTE,                     \* how many values a byte has
  SOH, EOT, CAN, NEWLINE,   \* bytes with a meaning
  LOAD, RUN,
  BLOCK_SIZE,               \* XMODEM_BLOCK_SIZE
  Image,                    \* the file: its blocks
  RETRY,                    \* errors after which the sender gives up
  LOADS,                    \* bound on transfers begun
  HITS,                     \* bound on bytes and answers that arrive wrong
  NAKS                      \* bound on requests for data that wait at the host

VARIABLES
  up,       \* to the board: [c, part], where part is what c was sent as
  down,     \* to the host
  board,    \* pc: what is read next; line: of the prompt; receiving, number, block: of
            \* the transfer; buffer: blocks received; size: of the last transfer, or -1
  host,     \* st: what it does; block: the one being sent; errors; loads
  hits,     \* bytes and answers that arrived wrong so far
  upset     \* "astray": a header was sought among other bytes; "header", "answer":
            \* one of these arrived wrong; "twice": so did two bytes of a block

loadVars == <<up, down, board, host, hits, upset>>

Typed(c) == <<[c |-> c, part |-> "command"], [c |-> NEWLINE, part |-> "command"]>>

Prompt == [pc |-> "gets", line |-> <<>>, receiving |-> FALSE, number |-> 1, block |-> <<>>,
           buffer |-> <<>>, size |-> -1]

Init ==
  /\ up = Typed(LOAD)
  /\ down = <<>>
  /\ board = Prompt
  /\ host = [st |-> "command", block |-> 0, errors |-> 0, loads |-> 1]
  /\ hits = 0
  /\ upset = {}

-----------------------------------------------------------------------------
(* The board.                                                              *)

\* c arrives, which is the byte sent unless a fault occurs in a transfer.
serial_recv_byte(pc, c) ==
  /\ board.pc = pc /\ up # <<>>
  /\ c = Head(up).c \/ (hits < HITS /\ Head(up).part # "command" /\ pc # "gets")
  /\ hits' = IF c = Head(up).c THEN hits ELSE hits + 1
  /\ up' = Tail(up)
  /\ UNCHANGED host

Says(text) == down' = down \o text

\* A character of a line, which is echoed.
gets(c) ==
  /\ c # NEWLINE
  /\ serial_recv_byte("gets", c)
  /\ board' = [board EXCEPT !.line = IF Len(@) < 2 THEN Append(@, c) ELSE @]
  /\ Says(<<"text">>)
  /\ UNCHANGED upset

\* The end of a line: load and run are done, anything else is unknown.
main ==
  /\ serial_recv_byte("gets", NEWLINE)
  /\ board' = CASE board.line = <<LOAD>> -> [Prompt EXCEPT !.pc = "header", !.size = board.size]
                [] board.line = <<RUN>>  -> [board EXCEPT !.pc = "elf_load", !.line = <<>>]
                [] OTHER                 -> [board EXCEPT !.line = <<>>]
  /\ Says(<<"text">>)
  /\ UNCHANGED upset

\* A NAK asks for the first block.
xmodem_wait ==
  /\ board.pc = "header" /\ ~board.receiving /\ up = <<>>
  /\ Len(down) < NAKS
  /\ Says(<<"NAK">>)
  /\ UNCHANGED <<up, board, host, hits, upset>>

\* The transfer is over, and the prompt is printed.
Over(size) == board' = [board EXCEPT !.pc = "gets", !.block = <<>>, !.size = size]

\* The first byte of a block, or the end.
xmodem_recv(c) ==
  /\ serial_recv_byte("header", c)
  /\ upset' = upset \cup (IF Head(up).part = "header" THEN {} ELSE {"astray"})
                    \cup (IF Head(up).part = "header" /\ c # Head(up).c THEN {"header"} ELSE {})
  /\ \/ c = EOT /\ Over(Len(board.buffer)) /\ Says(<<"ACK", "text">>)
     \/ c = CAN /\ Over(-1) /\ Says(<<"text">>)
     \/ /\ c = SOH
        /\ board' = [board EXCEPT !.pc = "number", !.receiving = TRUE, !.block = <<>>]
        /\ UNCHANGED down
     \/ /\ c \notin {EOT, CAN, SOH}
        /\ IF board.receiving THEN Over(-1) /\ Says(<<"text">>) ELSE UNCHANGED <<board, down>>

Goes(pc) == board' = [board EXCEPT !.pc = pc] /\ UNCHANGED down
Refused_bug ==   \* gives up the transfer at once
  Over(-1) /\ Says(<<"text">>)
Refused == board' = [board EXCEPT !.pc = "header"] /\ Says(<<"NAK">>)

Accepted ==
  /\ board' = [board EXCEPT !.pc = "header", !.number = (@ + 1) % BYTE,
                            !.buffer = Append(@, board.block)]
  /\ Says(<<"ACK">>)

\* The number of the block, its complement, the data and their sum.
Sum(data) == FoldLeft(LAMBDA a, b : (a + b) % BYTE, 0, data)
\* A second wrong byte of one block: the complement after the number, or any after part
\* of the data arrived as something else.
Twice(c) == /\ c # Head(up).c
            /\ IF board.pc = "inverse" THEN c = BYTE - 1 - board.number
               ELSE /\ Len(board.buffer) < Len(Image)
                    /\ ~IsPrefix(board.block, Image[Len(board.buffer) + 1])
xmodem_read_block_bug(c) ==   \* takes any sum
  /\ \/ /\ serial_recv_byte("number", c)
        /\ IF c = board.number THEN Goes("inverse") ELSE Refused
     \/ /\ serial_recv_byte("inverse", c)
        /\ IF c = BYTE - 1 - board.number THEN Goes("data") ELSE Refused
     \/ /\ serial_recv_byte("data", c)
        /\ board' = [board EXCEPT !.block = Append(@, c),
                                  !.pc = IF Len(board.block) + 1 < BLOCK_SIZE THEN @ ELSE "sum"]
        /\ UNCHANGED down
     \/ /\ serial_recv_byte("sum", c)
        /\ Accepted
  /\ upset' = IF Twice(c) THEN upset \cup {"twice"} ELSE upset
xmodem_read_block(c) ==
  /\ \/ /\ serial_recv_byte("number", c)
        /\ IF c = board.number THEN Goes("inverse") ELSE Refused
     \/ /\ serial_recv_byte("inverse", c)
        /\ IF c = BYTE - 1 - board.number THEN Goes("data") ELSE Refused
     \/ /\ serial_recv_byte("data", c)
        /\ board' = [board EXCEPT !.block = Append(@, c),
                                  !.pc = IF Len(board.block) + 1 < BLOCK_SIZE THEN @ ELSE "sum"]
        /\ UNCHANGED down
     \/ /\ serial_recv_byte("sum", c)
        /\ IF c = Sum(board.block) THEN Accepted ELSE Refused
  /\ upset' = IF Twice(c) THEN upset \cup {"twice"} ELSE upset

\* Only the file's header is looked at, neither its size nor how the transfer ended.
elf_check == board.buffer # <<>> /\ board.buffer[1] = Image[1]
elf_load ==
  /\ board.pc = "elf_load"
  /\ board' = [board EXCEPT !.pc = IF elf_check THEN "started" ELSE "gets"]
  /\ Says(<<"text">>)
  /\ UNCHANGED <<up, host, hits, upset>>

kzload ==
  \/ xmodem_wait
  \/ elf_load
  \/ main
  \/ \E c \in 0..(BYTE - 1) : gets(c) \/ xmodem_recv(c) \/ xmodem_read_block(c)

-----------------------------------------------------------------------------
(* The host.                                                               *)

Block(k) ==
  LET n == k % BYTE
  IN <<[c |-> SOH, part |-> "header"], [c |-> n, part |-> "number"], [c |-> BYTE - 1 - n, part |-> "number"]>>
     \o [i \in 1..BLOCK_SIZE |-> [c |-> Image[k][i], part |-> "data"]]
     \o <<[c |-> Sum(Image[k]), part |-> "sum"]>>

\* Block k, or the end of the file.
Sends(k) ==
  up' = up \o (IF k <= Len(Image) THEN Block(k) ELSE <<[c |-> EOT, part |-> "header"]>>)

\* An answer, right or wrong, or none for a second: the board has nothing to say.
Silent == up = <<>> /\ down = <<>> /\ (board.pc = "header" => board.receiving) /\ board.pc # "elf_load"
Answer(a) ==
  \/ /\ a = "none" /\ Silent
     /\ UNCHANGED <<down, hits, upset>>
  \/ /\ a # "none" /\ down # <<>>
     /\ down' = Tail(down)
     /\ \/ a = Head(down) /\ UNCHANGED <<hits, upset>>
        \/ /\ a # Head(down) /\ hits < HITS /\ Head(down) # "text"
           /\ hits' = hits + 1
           /\ upset' = upset \cup {"answer"}

\* What was printed so far is shown to the user, the sender reads what follows.
transfer ==
  /\ host.st = "command" /\ up = <<>>
  /\ host' = [host EXCEPT !.st = "request"]
  /\ down' = <<>>
  /\ UNCHANGED <<up, board, hits, upset>>

Awaited == IF host.st = "request" THEN "NAK" ELSE "ACK"

\* What the sender waits for: the first request, or the acknowledgement of a block.
answered(a) ==
  /\ host.st \in {"request", "sent"}
  /\ a = Awaited
  /\ Answer(a)
  /\ IF host.block = Len(Image) + 1
     THEN /\ host' = [host EXCEPT !.st = "run"]
          /\ up' = up \o Typed(RUN)
     ELSE /\ host' = [host EXCEPT !.st = "sent", !.block = @ + 1,
                                  !.errors = IF host.st = "request" THEN 0 ELSE @]
          /\ Sends(host.block + 1)
  /\ UNCHANGED board

\* Anything else: it waits on or sends the block again, until it gives up.
refused(a) ==
  /\ host.st \in {"request", "sent"}
  /\ a # Awaited
  /\ host.errors + 1 < RETRY
  /\ Answer(a)
  /\ host' = [host EXCEPT !.errors = @ + 1]
  /\ IF host.st = "sent" THEN Sends(host.block) ELSE UNCHANGED up
  /\ UNCHANGED board

\* The sender gives up, and kozos.py begins again.
abort(a) ==
  /\ host.st \in {"request", "sent"}
  /\ a # Awaited
  /\ host.errors + 1 = RETRY /\ host.loads < LOADS
  /\ \/ a = "none" /\ Silent
     \/ down # <<>> /\ a = Head(down)
  /\ down' = IF down = <<>> THEN <<>> ELSE Tail(down)
  /\ host' = [st |-> "command", block |-> 0, errors |-> 0, loads |-> host.loads + 1]
  /\ up' = up \o <<[c |-> CAN, part |-> "header"], [c |-> CAN, part |-> "header"]>> \o Typed(LOAD)
  /\ UNCHANGED <<board, hits, upset>>

kozos_py ==
  \/ transfer
  \/ \E a \in {"ACK", "NAK", "text", "none"} : answered(a) \/ refused(a) \/ abort(a)

-----------------------------------------------------------------------------
Next == kzload \/ kozos_py

Spec == Init /\ [][Next]_loadVars

FairSpec == Spec /\ WF_loadVars(kzload) /\ WF_loadVars(kozos_py)

-----------------------------------------------------------------------------
(* Properties.                                                             *)

\* A transfer that the board or the sender takes for a success has brought the
\* whole file, and nothing else is started, unless one of these happened.
Whole == board.buffer = Image
LoadedRight ==
  upset = {} => /\ (board.size >= 0 /\ board.pc # "header" => Whole)
                /\ (host.st = "run" => Whole)
                /\ (board.pc = "started" => Whole)

\* Data that arrives wrong is sent again: the file is started in the end.
Recovers == [](upset = {}) => <>(board.pc = "started")
=============================================================================
