CONSTANTS
  m1 = m1
  m2 = m2
  m3 = m3
  e1 = e1
  h1 = h1
  h2 = h2
  NoOwner = NoOwner
  Mutators = {m1, m2, m3}
  Executors = {e1}
  HostOf <- OneHost
  LeaseDuration = 2
  RenewInterval = 1
  MaxTime = 2
  MaxDamage = 0
  FaultyDisk = FALSE
  PidReuse = FALSE
  MayCrash = {m1, m2, m3}
SPECIFICATION Spec
SYMMETRY MutatorSymmetry
INVARIANTS TypeOK HolderRecorded RenewalLossExplained QuietExec
PROPERTY BodiesExclude
