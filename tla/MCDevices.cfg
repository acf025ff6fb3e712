SPECIFICATION SuiteSpec
CONSTANTS
  d1 = d1
  e1 = e1
  Timer = {t1}
  Dpc = {d1, d2}
  NoDpc = NoDpc
  Guest = {g1}
  Emu = Emu
  Event = {e1}
  Routine <- RoutineOf
  DpcEvent <- EventOf
  Period = {0, 1}
  MaxTime = 2
  MaxSet = 2
  MaxDpc = 1
  MaxAsked = 2
  Pass = {k1, k2}
  LastContext = 0
  Stream <- MCStream
  OffsetMod = 8
  XmaContexts = 2
  Voices = 2
  VoiceFrames = 3
  PacketFrames = 1
  MixFrames = 2
  PacketsPerPass = 2
  InputSize = {1, 2}
  OutputSize = {3}
  Channels = {1, 2}
  XmaThread = {w1}
  MaxCalls = 5
CHECK_DEADLOCK FALSE
INVARIANT PartsTypeOK
INVARIANT OneShotOnce
INVARIANT FiringNotErased
INVARIANT DpcOnce
 
PROPERTY FiringsApart
 
SYMMETRY Symmetry
