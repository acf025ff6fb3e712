SPECIFICATION FairSpec
CONSTANTS
  N = 1
  Object = {evt}
  NoObject = NoObject
  evt = evt
  sync = sync
  sem = sem
  Type <- MCType
  Caller = {c1}
  Calls = {"shutdown"}
  MaxSuspend = 1
  MaxCount = 2
  StartSuspended = FALSE
  TimedWaits = FALSE
  BlockingWaits = FALSE
CHECK_DEADLOCK FALSE
PROPERTY ShutdownReturns
