SPECIFICATION FairSpec
CONSTANTS
  MaxAttempts = 3
  Inputs <- InputKinds
  MaxFaults = 4
INVARIANTS
  TypeOK
  EveryCorrectionIsReviewed
  HaltQuarantines
PROPERTIES
  ImplementsOperativo
  Terminates
CHECK_DEADLOCK FALSE
