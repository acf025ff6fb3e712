SPECIFICATION Spec
CONSTANTS
  d1 = d1
  e1 = e1
  Timer = {t1}
  Dpc = {d1}
  NoDpc = NoDpc
  Guest = {g1}
  Emu = Emu
  Event = {e1, e2}
  Routine <- RoutineOf
  DpcEvent <- EventOf
  Period = {0}
  MaxTime = 1
  MaxSet = 1
  MaxDpc = 2
  MaxAsked = 3
CHECK_DEADLOCK FALSE
PROPERTY DpcSignals
