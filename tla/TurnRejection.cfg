\* Two turns and one injected failure.
SPECIFICATION Spec
CONSTANTS
  MaxTurns = 2
  MaxSteps = 1
  MaxFaults = 1
INVARIANT
  RejectionMeansRunning
\* The turns are bounded: when all have been used and settled, the thread stops.
CHECK_DEADLOCK FALSE
