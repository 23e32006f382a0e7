------------------------- MODULE MCLocalThreadStore -------------------------
(* Two threads: the first is started by two chats and appended to twice,   *)
(* the second is started meanwhile.                                        *)
EXTENDS LocalThreadStore, TLC

CONSTANTS t1, t2, start1, start2, start3, append1, append2

CallsOp ==
  [c \in Calls |-> IF c \in {append1, append2} THEN "append" ELSE "start"]
CallsThread == [c \in Calls |-> IF c = start3 THEN t2 ELSE t1]

(* The starts of the first thread are interchangeable, and the appends. *)
Swaps ==
  {p @@ q : p \in Permutations({start1, start2}),
            q \in Permutations({append1, append2})}
=============================================================================
