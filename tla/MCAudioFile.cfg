CONSTANTS
  FrameSize = 2
  HeaderSize = 3
  WriteSizes = {2, 4}
  ReadSizes = {2, 6}
  DiscardSizes = {2, 4}
  ZeroSizes = {2}
  MaxWritten = 8
  MaxCalls = 6
SPECIFICATION Spec
CHECK_DEADLOCK FALSE
INVARIANTS OpensAPrefix KeepsItsPlace FramesStayWhole
PROPERTY CyclicFillsTheBuffer
