SPECIFICATION FairSpec
CONSTANTS
  MaxAttempts = 3
  Faults = {"raise", "timeout", "crash", "citation"}
INVARIANTS
  TypeOK
  EveryCorrectionIsReviewed
  WithinBudget
  HaltQuarantines
  DeliveredLeavesNothingRunning
  NoOverlap
  ProseResultAgrees
PROPERTIES
  ImplementsOperativo
  Terminates
CHECK_DEADLOCK FALSE
