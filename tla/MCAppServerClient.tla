------------------------- MODULE MCAppServerClient -------------------------
(* A request and a loop over the events. *)
EXTENDS AppServerClient

CONSTANTS a, w

MCRequesters == {a}
MCWatchers == {w}
=============================================================================
