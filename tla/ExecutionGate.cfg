\* Two parallel and two exclusive tool calls.  Every call arrives at most once,
\* so a run in which all have returned stops.
SPECIFICATION FairSpec
CONSTANTS
  r1 = r1
  r2 = r2
  w1 = w1
  w2 = w2
  Calls <- MCCalls
  Exclusive <- MCExclusive
INVARIANTS
  ExclusiveInside
  ExclusiveBodies
  ConflictsInOrder
  HeadWaitsForConflict
PROPERTIES
  QueuedCallReturns
  AbortReturnsCalls
CHECK_DEADLOCK FALSE
