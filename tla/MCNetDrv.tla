------------------------------ MODULE MCNetDrv ------------------------------
(***************************************************************************)
(* NetDrv.tla on a small instance.                                         *)
(***************************************************************************)
EXTENDS NetDrv
=============================================================================
