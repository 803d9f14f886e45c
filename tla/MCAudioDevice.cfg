CONSTANTS
  Clients = {c1, c2}
  Sources = {s1, s2}
  RecordSinks = {k1}
  Subscribers = {l1}
  None = None
  ReadersFirst = FALSE
  MaxCalls = 3
  TaskBound = 2
SPECIFICATION FairSpec
CHECK_DEADLOCK FALSE
INVARIANTS SourcesArePlayed SinksAreServed
PROPERTIES SilentDeviceStops EndedSourcesLeave NobodyWaitsForEver
