SPECIFICATION Spec
CONSTANTS
  Launches = {l1, l2}
  NoLaunch = NoLaunch
  Workers = {w1, w2}
  Counts = {2}
  MaxRunners = 1
  MaxRetries = 2
  Faults = {"github", "lost", "worker", "push"}
INVARIANTS
  WithinMax
  SessionIsSole
SYMMETRY Symmetry
PROPERTY
  DrainingIsFinal
