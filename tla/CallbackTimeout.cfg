SPECIFICATION Spec
CONSTANTS
  Timeout = 10
  MaxRetries = 3
  BackoffBase = 1
  StartToClose = 30
  SocketOps = 2
INVARIANT NeverFailsTheWorkflow
CHECK_DEADLOCK FALSE
