SPECIFICATION FairSpec
CONSTANTS
  Runners = {r1}
  MaxWorkers = 1
  MaxListenerRetries = 1
  JobBound = 1
  OtherBound = 1
  Faults = {"env", "spawn", "exit"}
INVARIANTS
  TypeOK
  OfflineMeansGone
  LiveIsReachable
PROPERTIES
  DrainingIsFinal
  StopReachesOffline
