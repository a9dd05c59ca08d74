SPECIFICATION FairSpec
CONSTANTS
  Launches = {l1, l2}
  NoLaunch = NoLaunch
  Workers = {w1}
  Counts = {1}
  MaxRunners = 1
  MaxRetries = 2
  Faults = {"github"}
PROPERTY
  StopEnds
