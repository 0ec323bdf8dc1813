SPECIFICATION Spec
CONSTANTS
  Tasks = {t1, t2}
  Nodes = {n1, n2}
  MaxVersion = 2
  MaxClock = 3
  MaxMessages = 3
CONSTRAINT Apart
INVARIANTS
  PromptsAreCurrent
  BulletinIsNewest
  PromptsOnlyGrow
CHECK_DEADLOCK FALSE
