SPECIFICATION Spec
CONSTANTS
  MaxAttempts = 3
  Faults = {}
INVARIANT CompletedWasRead
CHECK_DEADLOCK FALSE
