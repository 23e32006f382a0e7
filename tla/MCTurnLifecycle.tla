-------------------------- MODULE MCTurnLifecycle --------------------------
(* TurnLifecycle on one thread with a handful of turns; the bounds are the *)
(* constants, given in the .cfg files.                                     *)
EXTENDS TurnLifecycle
=============================================================================
