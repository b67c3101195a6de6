CONSTANTS
  IdCount = 3
  IdBase = 0
  NoId = NoId
  Cores = {c1, c2, c3}
  Workers = {w1}
  Nobody = Nobody
SYMMETRY CoreSymmetry
SPECIFICATION LocksSpec
INVARIANTS NoAssertFails NoCircularWait
PROPERTY ImplementsIdAllocator
