SPECIFICATION Spec
CONSTANTS
  Pids = {p1, p2, p3, p4}
  p1 = p1
  p2 = p2
  p3 = p3
  p4 = p4
  Containers = {c1, c2}
  c1 = c1
  c2 = c2
  NoPid = NoPid
  NoContainer = NoContainer
SYMMETRY Symmetric
INVARIANT TypeOK
INVARIANT StartedServes
INVARIANT PidFileNamesServer
INVARIANT Stoppable
