CONSTANTS
  Game = {g1}
  BatchLimit = 2
  MaxModules = 2
  MaxMains = 2
SPECIFICATION Spec
PROPERTIES
  ShutdownReturns
