SPECIFICATION FairSpec
CONSTANTS
  MaxAttempts = 3
  Inputs <- InputKinds
  MaxFaults = 0
PROPERTY OperativoEnds
CHECK_DEADLOCK FALSE
