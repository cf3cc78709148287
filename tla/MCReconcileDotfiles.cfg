SPECIFICATION Spec
CONSTANTS
  Ids = {c1, c2}
  c1 = c1
  c2 = c2
  NoContainer = NoContainer
  Specs = {"image1", "image2"}
  HookSets = {"make", "make and features"}
  HostHookSets = {"make", "make and features"}
  Repositories = {"one", "two"}
  Targets = {"home"}
  NoDotfiles = NoDotfiles
  NoKey = NoKey
  Configs <- MCDotfilesConfigs
  RunHooks <- MCRunHooks
SYMMETRY Symmetric
INVARIANT DotfilesCheckedOut
