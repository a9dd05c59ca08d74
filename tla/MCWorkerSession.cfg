SPECIFICATION FairSpec
CONSTANTS
  Codes = {0, 7}
  Failed = 1
  NoCode = NoCode
  MaxAttempts = 5
  Faults = {"dial", "spawn", "listener", "unread", "slow", "kill"}
INVARIANTS
  ExitCodeDelivered
PROPERTIES
  SessionEnds
CHECK_DEADLOCK FALSE
