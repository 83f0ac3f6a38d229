SPECIFICATION ReadingSpec
CONSTANTS
  p1 = p1
  p2 = p2
  r1 = r1
  r2 = r2
  Producers <- OneProducer
  Readers <- TwoReaders
  Buffer = 2
  Sizes = {1, 2}
  Limits = {NoLimit, 2}
  MaxCalls = 3
  NoItem = NoItem
  NoLimit = NoLimit
INVARIANT InOrderNoneLost
INVARIANT EndIsTrue
INVARIANT HandedOnce
INVARIANT HandedInOrder
INVARIANT WithinLimit
PROPERTY GoneForGood
PROPERTY NextIsCancelSafe
PROPERTY DeliverySpec
PROPERTY EveryReadEnds
CHECK_DEADLOCK FALSE
