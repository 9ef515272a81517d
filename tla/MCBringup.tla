-------------------------------- MODULE MCBringup -------------------------------
(***************************************************************************)
(* Bringup.tla for TLC.                                                    *)
(***************************************************************************)
EXTENDS Bringup, TLC

\* Nine blocks, so that their numbers wrap; among the data are bytes that mean
\* something in a header.
MCImage == [k \in 1..9 |-> <<(3 * k) % 8, (5 * k + 2) % 8>>]

\* Two threads that share a subroutine, one of which calls force_break(), which is
\* followed by a branch to the next instruction and a loop of one instruction.
inst(op, size, to) == [op |-> op, size |-> size, to |-> to]
pad == inst("pad", 1, 0)
MCCode ==
  <<inst("plain", 1, 0), inst("jsr", 2, 11), pad, inst("jmp", 2, 1), pad,
    inst("jsr", 2, 11), pad, inst("jsr", 1, 14), inst("jmp", 2, 6), pad,
    inst("bcc", 1, 13), inst("plain", 1, 0), inst("rts", 1, 0),
    inst("trapa #3", 1, 0), inst("bcc", 1, 16), inst("bcc", 1, 16), inst("rts", 1, 0), pad>>
MCEntry == [t1 |-> 1, t2 |-> 6]
=============================================================================
