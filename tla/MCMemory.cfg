SPECIFICATION Spec
CONSTANTS
  p = p
  q = q
  k = k
  child = child
  kspace = kspace
  None = None
  Thread = {p, q}
  Process = {p, q}
  Forker = p
  Child = child
  Kernel = kspace
  Preemptible = {q}
  AllMem = 528
  Taken <- MCTaken
  KernelFree = 2
  UserFree = 2
  UserLen = 2
  TablePages = 2
  MaxReq = 2
  MaxCuts = 1
INVARIANTS
  FramesExact
  GrantsMapped
  ScanIsFirstFit

