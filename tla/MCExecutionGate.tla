-------------------------- MODULE MCExecutionGate --------------------------
(* Four calls, two of tools that must run alone. *)
EXTENDS ExecutionGate

CONSTANTS r1, r2, w1, w2

MCCalls == {r1, r2, w1, w2}
MCExclusive == {w1, w2}
=============================================================================
