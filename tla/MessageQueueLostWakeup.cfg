SPECIFICATION FairSpec
CONSTANTS
  s1 = s1
  s2 = s2
  m1 = m1
  m2 = m2
  None = None
  Subscriber <- MCSubscriber
  Message <- MCMessage
  Batch <- MCShortBatch
  MaxMessages = 1
  MaxSubscribes = 2
  MaxCursor = 1
PROPERTY Delivered
CHECK_DEADLOCK FALSE
