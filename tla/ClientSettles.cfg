\* One request and one loop over the events; connections may be lost.
SPECIFICATION FairSpec
CONSTANTS
  a = a
  w = w
  Requesters <- MCRequesters
  Watchers <- MCWatchers
  MaxEvents = 0
  MaxCloses = 0
PROPERTIES
  RequestSettles
CHECK_DEADLOCK FALSE
