\* One request and one loop over the events, one close(), one message of the
\* server's own.
SPECIFICATION FairSpec
CONSTANTS
  a = a
  w = w
  Requesters <- MCRequesters
  Watchers <- MCWatchers
  MaxEvents = 1
  MaxCloses = 1
INVARIANTS
  TypeOK
  SentCanSettle
  WaitingMeansQuiet
PROPERTIES
  RejectedByTeardown
  SettlesUnlessOvertaken
\* Every caller calls once: when all have settled, the client may stop.
CHECK_DEADLOCK FALSE
