----------------------------- MODULE MCTimerDrv -----------------------------
(***************************************************************************)
(* TimerDrv.tla on a small instance.                                       *)
(***************************************************************************)
EXTENDS TimerDrv
=============================================================================
