SPECIFICATION FairSpec
CONSTANTS
  Containers = {c1, c2}
  NoContainer = NoContainer
  Runners = {shim}
  NoRunner = NoRunner
  Standalone = {shim}
  Requests = {q1, q2}
  Settings <- OneSlot
  MaxCap = 1
  Faults = {}
  MaxBackoff = 1
INVARIANT
  PauseAgreement
PROPERTY
  NoStall
