SPECIFICATION SuiteSpec
CONSTANTS
  Game = {g1}
  BatchLimit = 2
  MaxModules = 2
  MaxMains = 2
INVARIANTS
  PartsTypeOK
  NoUseAfterFree
  PauseStops
  StopEndsFrame
  StateKept
PROPERTIES
  RunningRuns
