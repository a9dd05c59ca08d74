SPECIFICATION Spec
CONSTANTS
  Modes = {"standalone", "scaleset"}
  Configs = {old, new}
  NoConfig = NoConfig
  NoRow = NoRow
  Requests = {r1, r2, r3}
  Launches = {l1, l2}
  NoLaunch = NoLaunch
  MaxCreated = 2
SYMMETRY Symmetry
INVARIANTS
  RemovedIsStopped
PROPERTY
  EditsAreOwn
