SPECIFICATION FairSpec
CONSTANTS
  s1 = s1
  s2 = s2
  m1 = m1
  m2 = m2
  None = None
  Subscriber <- MCSubscriber
  Message <- MCMessage
  Batch <- MCBatch
  MaxMessages = 2
  MaxSubscribes = 2
  MaxCursor = 2
INVARIANTS
  TypeOK
  ExactlyOnceInOrder
  WaiterIsRegistered
  StampCatchesUp
  LagOnlyByRace
PROPERTIES
  ImplementsEventLog
  DeliveredUnlessMissed
CHECK_DEADLOCK FALSE
