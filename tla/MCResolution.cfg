SPECIFICATION Spec
CONSTANTS
  Procs = {up, exec}
  Writers = {up}
  up = up
  exec = exec
  registry = registry
  tarball = tarball
  bare = bare
  both = both
  Inputs = {bare, both}
  Sources = {registry, tarball}
  Tarballs = {tarball}
  Digests = {d1, d2}
  d1 = d1
  d2 = d2
  Wants <- MCWants
  Clashing <- MCClashing
  NoDigest = NoDigest
  NoPlan = NoPlan
  MaxChanges = 1
SYMMETRY Symmetric
INVARIANT TypeOK
INVARIANT PlanHonest
INVARIANT FollowsLock
INVARIANT UpSettles
INVARIANT OfflineSucceeds
