SPECIFICATION SuiteSpec
CONSTANTS
  N = 1
  Object = {sync}
  NoObject = NoObject
  evt = evt
  sync = sync
  sem = sem
  Type <- MCType
  Caller = {c1, c2}
  Calls = {"pulse", "reset", "suspend", "resume", "terminate", "shutdown"}
  MaxSuspend = 1
  MaxCount = 2
  StartSuspended = TRUE
  TimedWaits = TRUE
  BlockingWaits = TRUE
CHECK_DEADLOCK FALSE
INVARIANTS LoopNeverWaits PartsTypeOK WaitersAgree
PROPERTIES StartedThreadStops WaitsEnd
