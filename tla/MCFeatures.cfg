CONSTANTS
  p1 = p1
  p2 = p2
  d1 = d1
  d2 = d2
  None = None
  Procs = {p1, p2}
  Sources = {1, 2, 3}
  Locals = {1}
  Tarballs = {3}
  Digests = {d1, d2}
  Wants <- MCWants
  Graphs <- MCGraphs
  Lockfiles <- MCLockfiles
  Upstream <- MCUpstream
  Caches <- MCCaches
  MaxFaults = 1
SPECIFICATION Spec
INVARIANT TypeOK
INVARIANT OnePopulates
INVARIANT TakenStays
INVARIANT InstallOrder
INVARIANT CycleOnlyIfThereIsOne
PROPERTY StoreSpec
PROPERTY EveryResolutionEnds
CHECK_DEADLOCK FALSE
