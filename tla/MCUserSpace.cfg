SPECIFICATION UserSpec
CONSTANTS
  init = init
  p1 = p1
  p2 = p2
  Proc = {init, p1, p2}
  First = init
  ProcPages = 4
  PerTable = 2
  PerArena = 2
  MaxPages = 2
  Programs <- MCPrograms
  UserPages = 6
  KernelPages = 82
  Losses <- MCLosses
INVARIANTS
  HeapExact
  BitsAreTables
  KernelPagesExact
SYMMETRY Symmetry
CONSTRAINT Bounded
