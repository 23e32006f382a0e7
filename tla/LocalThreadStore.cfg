\* Five calls about two threads, at any time after the thread was started, and
\* one crash.  The system stops when all calls are made, so deadlock is not
\* checked.
SPECIFICATION Spec
CONSTANTS
  t1 = t1
  t2 = t2
  start1 = start1
  start2 = start2
  start3 = start3
  append1 = append1
  append2 = append2
  NoThread = NoThread
  Threads = {t1, t2}
  Calls = {start1, start2, start3, append1, append2}
  Op <- CallsOp
  ThreadOf <- CallsThread
  MaxCrashes = 1
SYMMETRY Swaps
INVARIANTS
  TypeOK
  AloneIsDurable
  InOrderOnce
  FailuresExplained
CHECK_DEADLOCK FALSE
