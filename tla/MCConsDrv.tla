------------------------------ MODULE MCConsDrv ------------------------------
(***************************************************************************)
(* ConsDrv.tla on a small instance.                                        *)
(***************************************************************************)
EXTENDS ConsDrv

MCText == {<<"x">>, <<"y", "nl">>}
MCChar == {"x", "y", "a", "cr", "nl", "brk"}
MCKey == {"a", "cr", "brk"}
=============================================================================
