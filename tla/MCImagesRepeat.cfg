SPECIFICATION Spec
CONSTANTS
  Kinds = {"image"}
  own = own
  feature = feature
  vscode = vscode
  dev = dev
  volume = volume
  bind = bind
  cap = cap
  Hooks = {own}
  Features = {feature}
  Versions = {1, 2}
  Labelled <- MCLabelled
  Users = {vscode, dev}
  Mounts = {volume, bind}
  Privileges = {cap}
  UserOf <- MCUserOf
  MountOf <- MCMountOf
  PrivilegesOf <- MCPrivilegesOf
  None = None
  Files = {d1, d2}
  d1 = d1
  d2 = d2
  MaxRuns = 2
  MaxChanges = 0
INVARIANT RunRepeatsUp
CHECK_DEADLOCK FALSE
