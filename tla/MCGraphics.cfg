CONSTANTS
  RingDwords = 8
  Configure = "registers"
  Shape <- MCShape
  MaxPackets = 5
  MaxFence = 2
  Extent = {1, 8, 33, 40}
  Slices = {1, 6}
  ConstIndex = {0, 1, 17}
  Dimension <- MCDimension
  ExportIndex = {0, 1, 4}
  MaxInstructions = 3
SPECIFICATION SuiteSpec
INVARIANTS PartsTypeOK ExecutedInOrder GraphicsKept
PROPERTIES RingLives
