SPECIFICATION FairSpec
CONSTANTS
  Containers = {c1, c2}
  NoContainer = NoContainer
  Runners = {scaler}
  NoRunner = NoRunner
  Standalone = {}
  Requests = {q1}
  Settings <- OneWarm
  MaxCap = 1
  Faults = {"crash", "push", "boot", "remove"}
  MaxBackoff = 1
PROPERTY
  LeaseLifetime
