------------------------------- MODULE MCKzMem -------------------------------
(***************************************************************************)
(* KzMem.tla with three size classes, the middle one of three blocks.      *)
(***************************************************************************)
EXTENDS KzMem

MCSize == <<3, 5, 9>>
MCNum == <<1, 3, 2>>
MCRequest == {1, 2, 3, 5, 7, 8}   \* on both sides of every class's limit
=============================================================================
