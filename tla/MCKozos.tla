------------------------------- MODULE MCKozos -------------------------------
(***************************************************************************)
(* Kozos.tla on a small instance.                                          *)
(***************************************************************************)
EXTENDS Kozos, TLC

MCSymmetry == Permutations(MsgBox)
=============================================================================
