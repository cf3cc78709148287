CONSTANTS
  m1 = m1
  m2 = m2
  m3 = m3
  e1 = e1
  h1 = h1
  h2 = h2
  NoOwner = NoOwner
  Mutators = {m1, m2}
  Executors = {e1}
  HostOf <- TwoHosts
  LeaseDuration = 1
  RenewInterval = 1
  MaxTime = 2
  MaxDamage = 1
  FaultyDisk = TRUE
  PidReuse = TRUE
  MayCrash = {m1}
SPECIFICATION FairSpec
INVARIANT ReleasedStaysGone
INVARIANT BusyNamesUnfinished
PROPERTY GenerationMonotone
PROPERTY Terminates
