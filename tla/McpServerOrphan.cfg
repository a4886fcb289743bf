SPECIFICATION Spec
CONSTANTS
  p1 = p1
  p2 = p2
  n1 = n1
  n2 = n2
  None = None
  Torn = Torn
  Pid <- MCPid
  Port <- MCOnePort
  MaxPolls = 1
INVARIANT NoOrphans
CHECK_DEADLOCK FALSE
