SPECIFICATION Spec
CONSTANTS
  p = p
  q = q
  k = k
  child = child
  kspace = kspace
  None = None
  Thread = {p, k}
  Process = {p}
  Forker = p
  Child = child
  Kernel = kspace
  Preemptible = {k}
  AllMem = 528
  Taken <- MCTaken
  KernelFree = 6
  UserFree = 3
  UserLen = 3
  TablePages = 2
  MaxReq = 1
  MaxCuts = 1
INVARIANTS
  NoAssert
