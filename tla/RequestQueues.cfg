\* Every request arrives once at most, so a run in which all are done with stops.
SPECIFICATION FairSpec
CONSTANTS
  c1 = c1
  c2 = c2
  init = init
  t1 = t1
  t2 = t2
  t3 = t3
  thread = thread
  NoRequest = NoRequest
  NoScope = NoScope
  Connections = {c1, c2}
  Requests <- MCRequests
  Scopes = {thread}
  Threads = {thread}
  Of <- MCOf
  Scope <- MCScope
  Optional = {t2}
  Initializes = {init}
  Experimental = {t3}
  Deferrable = {t2}
  Restored = {c2}
  MayClose = {c1}
  MayThrow = {init}
INVARIANTS
  TypeOK
  CloseWaits
  ClosedForgets
  InitializedIsLive
PROPERTIES
  Serialized
  EveryRequestSettles
CHECK_DEADLOCK FALSE
