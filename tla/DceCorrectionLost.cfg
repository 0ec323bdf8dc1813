SPECIFICATION Spec
CONSTANTS
  MaxAttempts = 3
  Faults = {}
INVARIANT ReviewedOutputIsDelivered
CHECK_DEADLOCK FALSE
