SPECIFICATION Spec
CONSTANTS
  Documents <- MCDocuments
  MaxQueries = 4
INVARIANTS
  ReportIsExact
  ProfilesAgree
  EvidenceIsComplete
CHECK_DEADLOCK FALSE
