CONSTANTS
  Planes = 1
  Capacity = 3
  ReadSizes = {1, 2}
  WriteSizes = {1, 2}
  DiscardSizes = {1}
  ZeroSizes = {1, 2}
  Capacities = {1, 2, 3}
  MaxWritten = 6
  MaxSeek = 2
SPECIFICATION FairSpec
INVARIANTS EverySampleIsAccountedFor NoLostWakeup
PROPERTIES BlockingWriteKeeps TransferCompletes
