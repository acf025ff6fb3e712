SPECIFICATION Spec
CONSTANTS
  N = 1
  Object = {evt}
  NoObject = NoObject
  evt = evt
  sync = sync
  sem = sem
  Type <- MCType
  Caller = {c1}
  Calls = {"set", "reset"}
  MaxSuspend = 1
  MaxCount = 2
  StartSuspended = FALSE
  TimedWaits = FALSE
  BlockingWaits = FALSE
CHECK_DEADLOCK FALSE
PROPERTY GuestWaitBlocks
