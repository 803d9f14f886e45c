CONSTANTS
  Packets = 3
  PerPacket = 1
  Holds = {0, 1}
  FrameSize = 2
  Watermark = 3
  Delay = 2
  Slots = 2
  QueueBound = 2
  Targets = {1, 3}
  MaxSeeks = 2
SPECIFICATION FairSpec
INVARIANTS CompletesWhenAllIsSent ClockFollowsSeek
PROPERTIES NothingIsOverwritten FramesComeInOrder StartsToPlay
