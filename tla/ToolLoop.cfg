SPECIFICATION Spec
CONSTANTS
  MaxTurns = 4
  Threshold = 2
  Keep = 4
  Resources = {"op"}
  MaxCalls = 2
INVARIANTS
  PairsSurvive
  GuidanceIsDue
  ReportIsTrue
PROPERTY Ends
CHECK_DEADLOCK FALSE
