-------------------------- MODULE MCRequestQueues --------------------------
(* Two connections, one of them restored from a snapshot: an `initialize`  *)
(* and three requests of one thread.                                       *)
EXTENDS RequestQueues

CONSTANTS c1, c2, init, t1, t2, t3, thread

MCRequests == {init, t1, t2, t3}
MCOf == [r \in MCRequests |-> IF r = t2 THEN c2 ELSE c1]
MCScope == [r \in MCRequests |-> IF r = init THEN NoScope ELSE thread]
=============================================================================
