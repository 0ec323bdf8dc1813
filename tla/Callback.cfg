SPECIFICATION Spec
CONSTANTS
  Timeout = 10
  MaxRetries = 3
  BackoffBase = 1
  StartToClose = 30
  SocketOps = 3
INVARIANTS
  TypeOK
  NoNeedlessRepeat
  VerdictIsHonest
  Schedule
CHECK_DEADLOCK FALSE
