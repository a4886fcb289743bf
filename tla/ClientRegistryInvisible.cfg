SPECIFICATION Spec
CONSTANTS
  c1 = c1
  c2 = c2
  None = None
  Client <- MCClient
  TTL = 2
  MaxTime = 3
  MaxIds = 2
  MaxRuns = 1
INVARIANT LiveMeansConnected
CHECK_DEADLOCK FALSE
