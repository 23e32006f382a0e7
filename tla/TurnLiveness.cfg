\* Two turns, fair scheduling, one injected failure.
SPECIFICATION FairSpec
CONSTANTS
  MaxTurns = 2
  MaxSteps = 1
  MaxFaults = 1
PROPERTIES
  AbortedRunSettles
  TurnEndsOrAsks
\* The turns are bounded: when all have been used and settled, the thread stops.
CHECK_DEADLOCK FALSE
