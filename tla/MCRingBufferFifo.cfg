CONSTANTS
  Capacity = 3
  AutoAdjusts = {TRUE, FALSE}
  MaxCapacity = 7
  GrowthThreshold = 3
  Capacities = {3, 5}
  MaxWrite = 3
  MaxWritten = 8
SPECIFICATION AlignedSpec
PROPERTY ImplementsFifo
