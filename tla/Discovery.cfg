SPECIFICATION Spec
CONSTANTS
  None = None
  p = p
  q = q
  a = a
  b = b
  c = c
  Place = {p, q}
  Searching = {p}
  Server = {a, b, c}
  Port = {1, 2}
  PlaceId <- MCPlaceId
  GameId <- MCGameId
  PortOf <- MCPortOf
  Info <- MCInfo
  Registered = {b, c}
  Scanned = {1}
  Watched = 1
  Slot = {s1, s2}
  MaxClicks = 1
  MaxStops = 1
  MaxPeerPorts = 2
  MaxProbes = 1
  TTL = 1
  Stale = 0
INVARIANTS
  TypeOK
  DiagnosisIsSound
PROPERTIES
  AloneWhenChosen
  SoleClaimantIsFound
CHECK_DEADLOCK FALSE
