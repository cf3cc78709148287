SPECIFICATION Spec
CONSTANTS
  Kinds = {"image", "dockerfile", "context", "composeImage", "composeBuild"}
  own = own
  feature = feature
  vscode = vscode
  dev = dev
  volume = volume
  bind = bind
  cap = cap
  Hooks = {own}
  Features = {feature}
  Versions = {1, 2}
  Labelled <- MCLabelled
  Users = {vscode, dev}
  Mounts = {volume, bind}
  Privileges = {cap}
  UserOf <- MCUserOf
  MountOf <- MCMountOf
  PrivilegesOf <- MCPrivilegesOf
  None = None
  Files = {d1, d2}
  d1 = d1
  d2 = d2
  MaxRuns = 3
  MaxChanges = 2
SYMMETRY Symmetry
INVARIANT TypeOK
INVARIANT TrustWasGiven
INVARIANT SettingsFollow
INVARIANT EditsReachTheImage
INVARIANT HooksOnce
INVARIANT SecondUpQuiet
INVARIANT ContainerHasContent
INVARIANT ExecSeesUp
CHECK_DEADLOCK FALSE
