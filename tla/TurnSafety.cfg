\* Two turns, two sampling steps and two injected failures.
SPECIFICATION Spec
CONSTANTS
  MaxTurns = 2
  MaxSteps = 2
  MaxFaults = 2
INVARIANTS
  TypeOK
  SpawnFindsTask
  SingleLiveRun
  LiveCallAnswerable
  EndedMeansStopped
PROPERTIES
  SteerReachesRun
  ImplementsSlot
\* The turns are bounded: when all have been used and settled, the thread stops.
CHECK_DEADLOCK FALSE
