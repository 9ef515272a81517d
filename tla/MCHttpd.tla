------------------------------- MODULE MCHttpd -------------------------------
(***************************************************************************)
(* Httpd.tla with two clients, one of which may end its connection first,  *)
(* and requests of one or two segments.                                    *)
(***************************************************************************)
EXTENDS Httpd, TLC

CONSTANTS c1, c2
MCClient == {c1, c2}
MCRequest ==
  c1 :> {<< <<"G">>, <<"N", "x", "N">> >>, << <<"G", "N">>, <<"G", "N">> >>} @@
  c2 :> {<< <<"G", "N">> >>}
MCLeaver == {c1}
=============================================================================
