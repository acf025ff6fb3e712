SPECIFICATION SuiteSpec
CONSTANTS
  N = 1
  Object = {evt, sync, sem}
  NoObject = NoObject
  evt = evt
  sync = sync
  sem = sem
  Type <- MCType
  Caller = {c1, c2}
  Calls = {"set", "reset", "pulse", "release", "terminate", "shutdown"}
  MaxSuspend = 1
  MaxCount = 2
  StartSuspended = TRUE
  TimedWaits = FALSE
  BlockingWaits = TRUE
  capacity_ = 4
  Request = {1, 2}
  MaxFrames = 5
  Pipeline = {"p", "q"}
  kMaxBatchedDraws = 2
  frames_until_reuse_ = 3
  MaxDraws = 3
  GuestThread = {1, 2, 3}
  Host = {9}
  MAX_THREADS = 3
  Access <- MCAccess
  HostThread = {1, 2}
  MAX_BLOCK_INSTRUCTIONS = 3
  Cells = 9
  Dispatcher = 1
  Hot = 1
  Program <- MCProgram
  Patches <- MCPatches
CHECK_DEADLOCK FALSE
INVARIANTS NoSleepOverWake
           PartsTypeOK DrawsUnderTheirPipeline FencesWillSignal NoStoreLost EnginesAgree
INVARIANT RunsTheProgram
PROPERTIES SuccessMeansSignalled InfiniteWaitEndsForCause
           RingIsFifo InFlightUntouched
SYMMETRY Symmetry
