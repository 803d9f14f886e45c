CONSTANTS
  Streams = {"audio"}
  MaxCalls = 2
  QueueBound = 2
  Configs = {TRUE, FALSE}
SPECIFICATION FairSpec
INVARIANTS ChecksHold NoDanglingAccess NullOnlyAfterInvalidConfig IInv AcceptedPacketsAreCurrent RenderingFollowsState ReleasedIsQuiet
PROPERTIES ReaderFollowsTheNewestSeek UnInitReturns SeekReachesReader
