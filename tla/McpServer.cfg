SPECIFICATION FairSpec
CONSTANTS
  p1 = p1
  p2 = p2
  n1 = n1
  n2 = n2
  None = None
  Torn = Torn
  Pid <- MCPid
  Port <- MCPort
  MaxPolls = 1
INVARIANTS
  TypeOK
  ServingIsListed
  OrphanHasRival
PROPERTIES
  StrangersAreSafe
  StartAnswers
CHECK_DEADLOCK FALSE
