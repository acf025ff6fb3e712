CONSTANTS
  RingDwords = 8
  Configure = "VdInitializeRingBuffer"
  Shape <- MCShape
  MaxPackets = 5
  MaxFence = 2
  Extent = {8}
  Slices = {1}
  ConstIndex = {0}
  Dimension <- MCDimension
  ExportIndex = {0}
  MaxInstructions = 1
SPECIFICATION SuiteSpec
INVARIANTS
  ExecutedInOrder
