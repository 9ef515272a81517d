------------------------------- MODULE ConsDrv -------------------------------
(***************************************************************************)
(* The console driver of mykozos/os/consdrv.c over the serial port of      *)
(* serial.c.  Its thread and its interrupt handler share the send buffer:  *)
(* the thread masks interrupts while it copies a string into it.           *)
(*                                                                         *)
(* The thread's steps are as fine as the buffer's loads and stores, the    *)
(* handler is one step, and it does not run while interrupts are masked.   *)
(***************************************************************************)
EXTENDS Integers, Sequences, SequencesExt

CONSTANTS
  Text,     \* strings clients write, over Char
  Key,      \* what is typed: "cr" for Enter, "brk" for 0x03, other characters
  Char,     \* what goes out
  WRITES,   \* bound on strings written
  KEYS      \* bound on keys typed

VARIABLES
  box,      \* MSGBOX_ID_CONSOUTPUT: strings to write
  id,       \* consreg.id is set
  pc,       \* the thread: "recv", "load", "store"
  str,      \* what it has still to copy, \r of \r\n included
  len,      \* send_len as it read it
  masked,   \* INTR_DISABLE
  con,      \* buf: send_buf, send_len long; tie: send interrupts on;
            \* tdr: the transmit register; wire: what went out
  rdr,      \* the receive register, <<>> when RDRF is clear
  line,     \* recv_buf
  lines,    \* sent to MSGBOX_ID_CONSINPUT
  accepted, \* all that was to be written or echoed, in order
  typed,    \* all that was received, in order
  keys,     \* keys typed so far
  writes    \* strings written so far

thread == <<box, pc, str, len, masked, writes>>
input == <<rdr, line, lines, typed, keys>>
vars == <<thread, id, con, input, accepted>>

\* \n goes out as \r\n.
Crlf(s) == FlattenSeq([k \in 1..Len(s) |-> IF s[k] = "nl" THEN <<"cr", "nl">> ELSE <<s[k]>>])

ASSUME CharAssumption ==
  /\ \A s \in Text : Crlf(s) \in Seq(Char)
  /\ \A k \in Key \cup {"nl"} : Crlf(<<k>>) \in Seq(Char)

Init ==
  /\ box = <<>> /\ pc = "recv" /\ str = <<>> /\ len = 0 /\ masked = FALSE /\ writes = 0
  /\ id = FALSE
  /\ con = [buf |-> <<>>, tie |-> FALSE, tdr |-> <<>>, wire |-> <<>>]
  /\ rdr = <<>> /\ line = <<>> /\ lines = <<>> /\ typed = <<>> /\ keys = 0
  /\ accepted = <<>>

-----------------------------------------------------------------------------
(* The serial port.                                                        *)

serial_is_send_enable(c) == c.tdr = <<>>

Shifted(c) == [c EXCEPT !.wire = @ \o c.tdr, !.tdr = <<>>]

\* The transmitter takes the character from the register.
transmit ==
  /\ con.tdr # <<>>
  /\ con' = Shifted(con)
  /\ UNCHANGED <<thread, id, input, accepted>>

\* A key arrives.  The line is slow enough for the handler to be in time.
type(k) ==
  /\ id /\ rdr = <<>> /\ keys < KEYS
  /\ rdr' = <<k>>
  /\ keys' = keys + 1
  /\ UNCHANGED <<thread, id, con, line, lines, accepted, typed>>

-----------------------------------------------------------------------------
(* The send buffer.                                                        *)

send_char(c) == [c EXCEPT !.tdr = <<Head(c.buf)>>, !.buf = Tail(@)]

\* The end of send_string(): start sending, unless send interrupts do it already.
Starts(c) == c.buf # <<>> /\ ~c.tie
start_sending_bug(c) == c   \* leaves it to an interrupt that is not enabled
start_sending(c) == IF Starts(c) THEN send_char([c EXCEPT !.tie = TRUE]) ELSE c

-----------------------------------------------------------------------------
(* The thread.                                                             *)

\* CONSDRV_CMD_USE, the first message the command task sends.
use ==
  /\ ~id
  /\ id' = TRUE
  /\ UNCHANGED <<thread, con, input, accepted>>

\* Some task sends CONSDRV_CMD_WRITE.
send_write(s) ==
  /\ id /\ writes < WRITES
  /\ box' = Append(box, s)
  /\ writes' = writes + 1
  /\ UNCHANGED <<pc, str, len, masked, id, con, input, accepted>>

write_bug ==   \* does not mask interrupts
  /\ pc = "recv" /\ box # <<>>
  /\ box' = Tail(box)
  /\ str' = Crlf(Head(box))
  /\ accepted' = accepted \o Crlf(Head(box))
  /\ pc' = "load"
  /\ UNCHANGED <<len, masked, writes, id, con, input>>

\* kz_recv() and INTR_DISABLE.
write ==
  /\ pc = "recv" /\ box # <<>>
  /\ box' = Tail(box)
  /\ masked' = TRUE
  /\ str' = Crlf(Head(box))
  /\ accepted' = accepted \o Crlf(Head(box))
  /\ pc' = "load"
  /\ UNCHANGED <<len, writes, id, con, input>>

\* send_string(): send_buf[send_len++] = c, in a load and a store.
load ==
  /\ pc = "load" /\ str # <<>>
  /\ len' = Len(con.buf)
  /\ pc' = "store"
  /\ UNCHANGED <<box, str, masked, writes, id, con, input, accepted>>

\* The store: the cells below it are what they are, also past the end that
\* a handler may have drawn in.
store ==
  /\ pc = "store"
  /\ LET cell(k) == IF k = len + 1 THEN Head(str)
                    ELSE IF k <= Len(con.buf) THEN con.buf[k] ELSE "junk"
     IN con' = [con EXCEPT !.buf = [k \in 1..(len + 1) |-> cell(k)]]
  /\ str' = Tail(str)
  /\ len' = 0
  /\ pc' = "load"
  /\ UNCHANGED <<box, masked, writes, id, input, accepted>>

\* The end of send_string() and INTR_ENABLE.  serial_send_byte() waits for
\* the transmitter.
finish ==
  /\ pc = "load" /\ str = <<>>
  /\ Starts(con) => serial_is_send_enable(con)
  /\ con' = start_sending(con)
  /\ masked' = FALSE
  /\ pc' = "recv"
  /\ UNCHANGED <<box, str, len, writes, id, input, accepted>>

-----------------------------------------------------------------------------
(* The interrupt handler.                                                  *)

\* Echo of one received character, by way of send_string().
echo(c, k) == start_sending([c EXCEPT !.buf = @ \o Crlf(<<k>>)])

sent_bug(c) ==   \* switches interrupts off with the last character, not after it
  IF c.buf = <<>> THEN [c EXCEPT !.tie = FALSE]
  ELSE [send_char(c) EXCEPT !.tie = (Len(c.buf) > 1)]

\* The handler's send part.
sent(c) == IF c.buf = <<>> THEN [c EXCEPT !.tie = FALSE] ELSE send_char(c)
intr_send(c) == IF serial_is_send_enable(c) THEN sent(c) ELSE c

\* The transmitter may take a character that was just written, or not yet.
Transmitting(c) == {c, Shifted(c)}

received_bug(k) ==   \* keeps the line it has sent
  /\ typed' = Append(typed, k)
  /\ IF k = "nl" THEN lines' = Append(lines, line) ELSE UNCHANGED lines
  /\ line' = IF k = "nl" THEN line ELSE Append(line, k)

\* The handler's line buffer: Enter sends the line.
received(k) ==
  /\ typed' = Append(typed, k)
  /\ IF k = "nl" THEN lines' = Append(lines, line) ELSE UNCHANGED lines
  /\ line' = IF k = "nl" THEN <<>> ELSE Append(line, k)

RecvPending == rdr # <<>>
SendPending == con.tie /\ serial_is_send_enable(con)

\* consdrv_intr(), consdrv_intrproc().  0x03 goes to the debugger.
consdrv_intr ==
  /\ id /\ ~masked
  /\ RecvPending \/ SendPending
  /\ \/ /\ RecvPending /\ Head(rdr) = "brk"
        /\ UNCHANGED <<con, line, lines, typed, accepted>>
     \/ /\ RecvPending /\ Head(rdr) # "brk"
        /\ LET k == IF Head(rdr) = "cr" THEN "nl" ELSE Head(rdr)
           IN /\ accepted' = accepted \o Crlf(<<k>>)
              /\ received(k)
              /\ \E c \in Transmitting(echo(con, k)) : con' = intr_send(c)
     \/ /\ ~RecvPending
        /\ con' = intr_send(con)
        /\ UNCHANGED <<line, lines, typed, accepted>>
  /\ rdr' = <<>>
  /\ UNCHANGED <<thread, id, keys>>

-----------------------------------------------------------------------------
consdrv == write \/ load \/ store \/ finish

Next ==
  \/ use
  \/ \E s \in Text : send_write(s)
  \/ consdrv
  \/ consdrv_intr
  \/ transmit
  \/ \E k \in Key : type(k)

Spec == Init /\ [][Next]_vars

\* The port sends, interrupts are served, and the driver, the thread of the
\* highest priority, gets the processor.
FairSpec == Spec /\ WF_vars(transmit) /\ WF_vars(consdrv_intr) /\ WF_vars(consdrv)
-----------------------------------------------------------------------------
(* Properties.                                                             *)

\* What went out, what is in the register and what is in the buffer are
\* together all that was written and echoed: strings whole, each where it was
\* accepted (the comment at consdrv.c:25 says why interrupts are masked).
OutputInOrder == pc = "recv" => con.wire \o con.tdr \o con.buf = accepted

\* serial_send_byte() never waits: with interrupts masked, and in the
\* handler, that would stop the system for the time of a character.
NeverWaits ==
  /\ pc = "load" /\ str = <<>> /\ Starts(con) => serial_is_send_enable(con)
  /\ id /\ ~masked /\ RecvPending /\ ~con.tie => serial_is_send_enable(con)

\* Whenever the thread is done and characters are left, a send interrupt is
\* on its way: no order of writing and sending leaves the buffer behind.
SendsOn == pc = "recv" /\ con.buf # <<>> => con.tie

\* Every character typed is in a line that was sent or in the one being typed.
LinesWhole == FlattenSeq([k \in 1..Len(lines) |-> Append(lines[k], "nl")]) \o line = typed

\* Everything accepted goes out.
Drained == []<>(con.wire = accepted)
=============================================================================
