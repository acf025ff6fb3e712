SPECIFICATION SuiteSpec
CONSTANTS
  Obj = {o1, o2}
  Ref = {r1, r2}
  NoObj = NoObj
  MaxHandle = 3
  MaxCount = 5
  AddrSlots = 4
  ScanEarly = 3
  ScanMax = 4
  Thread = {th1, th2}
  Point = {"game", "GAME"}
  DeviceOf <- MCDeviceOf
  File = {1}
  NoFile = 9
  MaxSize = 1
  MaxOpen = 2
  MaxMount = 2
  Medium <- MCMedium
  Default <- MCDefault
  Disk <- MCDisk
CHECK_DEADLOCK FALSE
INVARIANT PartsTypeOK
INVARIANT ReadsItsFile
INVARIANT ShadersKept
INVARIANT RefCountCovers
INVARIANT SingleHandleExact
PROPERTY DerefFindsItsOwn
PROPERTY ClosedHandleStaysClosed
SYMMETRY Symmetry
