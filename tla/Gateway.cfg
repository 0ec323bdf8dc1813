SPECIFICATION Spec
CONSTANTS
  Callers = {"acme", "globex"}
  MaxRequests = 2
  Window = 2
  MaxNow = 2
  MaxSubmissions = 3
  MaxEntries = 2
INVARIANTS
  TypeOK
  LimitHolds
  RetryAfterIsExact
  OneConnection
  AuditAgrees
  DispatchIsLogged
PROPERTY EveryRequestIsAnswered
CHECK_DEADLOCK FALSE
