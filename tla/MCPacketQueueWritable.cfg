CONSTANTS
  InitialSize = 2
  MaxPush = 12
  NoPacket = NoPacket
SPECIFICATION Spec
INVARIANT WriteIndexIsWritable
