SPECIFICATION Spec
CONSTANTS
  a = a
  b = b
  m = m
  i = i
  lk = lk
  dd = dd
  None = None
  Thread <- MCThread
  First <- MCFirst
  Client <- MCClient
  Kernel <- MCKernel
  Priority <- MCPriority
  Idle = i
  Main = m
  Sema <- MCSema
  Lock <- MCLock
  ChannelLock = lk
  DiskDone = dd
  MaxSectors = 2
  Sizes = {2, 3}
  NapTicks = 1
  MaxPolls = 2
  MaxRequests = 1
INVARIANTS
  MovesWholeRequest
  PanicOnlyInBusyWait
  DataIsOwn
PROPERTIES
  RequestReturns
