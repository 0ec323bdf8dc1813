SPECIFICATION FairSpec
CONSTANTS
  Budget = 3
  FastUntil = 1
  Fast = 1
  Slow = 2
  Latency = 1
  Limits = {6}
  MaxCalls = 2
INVARIANTS
  AnswersAreHonest
  DiagnosticsCorrelate
  ExpiryNeedsATightLimit
PROPERTY CallsAreAnswered
CHECK_DEADLOCK FALSE
