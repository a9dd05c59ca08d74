SPECIFICATION Spec
CONSTANTS
  Containers = {c1, c2, c3}
  NoContainer = NoContainer
  Runners = {shim}
  NoRunner = NoRunner
  Standalone = {shim}
  Requests = {q1, q2}
  Settings <- OneWarm
  MaxCap = 1
  Faults = {"restart", "cancel", "stream", "list", "remove"}
  MaxBackoff = 1
SYMMETRY Symmetry
INVARIANTS
  PendingMeansFull
  JobsHoldSlots
  NeverReoffered
  LiveContainersBounded
