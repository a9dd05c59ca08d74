SPECIFICATION Spec
CONSTANTS
  Containers = {c1, c2}
  NoContainer = NoContainer
  Runners = {scaler}
  NoRunner = NoRunner
  Standalone = {}
  Requests = {q1, q2}
  Settings <- Resizing
  MaxCap = 2
  Faults = {"crash", "push", "boot", "create", "remove"}
  MaxBackoff = 1
SYMMETRY Symmetry
INVARIANTS
  CountersMatch
  HandedOutOnce
  NoLeak
  DeadAreReaped
  ActiveAreOwned
