------------------------------ MODULE TurnSlot ------------------------------
(***************************************************************************)
(* What a thread promises its clients about turns, without saying how: one *)
(* slot, taken by a turn nobody has used before only while it is free, and *)
(* given back before another turn may take it.  A turn that gave the slot  *)
(* back never holds it again, and only the turn in the slot is stopped by  *)
(* an interrupt.  TurnLifecycle implements this specification.             *)
(***************************************************************************)
EXTENDS Naturals

CONSTANT MaxTurns      \* bound on the turns started on one thread

None == 0              \* the value of Session.activeTurn when it is null

Turns == 1 .. MaxTurns

VARIABLES
  slot,                \* the turn that holds the thread's slot, or None
  last                 \* the turn that was started last (0 before the first)

slotVars == <<slot, last>>

Init ==
  /\ slot = None
  /\ last = 0

Take ==
  /\ slot = None
  /\ last < MaxTurns
  /\ last' = last + 1
  /\ slot' = last'

GiveBack ==
  /\ slot # None
  /\ slot' = None
  /\ UNCHANGED last

Next == Take \/ GiveBack

Spec == Init /\ [][Next]_slotVars
=============================================================================
