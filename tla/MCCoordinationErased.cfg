CONSTANTS
  m1 = m1
  m2 = m2
  m3 = m3
  e1 = e1
  h1 = h1
  h2 = h2
  NoOwner = NoOwner
  Mutators = {m1, m2, m3}
  Executors = {}
  HostOf <- OneHost
  LeaseDuration = 2
  RenewInterval = 1
  MaxTime = 0
  MaxDamage = 0
  FaultyDisk = FALSE
  PidReuse = FALSE
  MayCrash = {}
SPECIFICATION Spec
INVARIANT LiveOwnerStaysVisible
