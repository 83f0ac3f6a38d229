SPECIFICATION FairSpec
CONSTANTS
  Readers = {r1, r2}
  Stories <- SomeStories
  MaxReads = 2
  None = None
INVARIANT PickedUp
INVARIANT OneEnd
PROPERTY EveryReadEnds
PROPERTY NotAskedAfterEnd
CHECK_DEADLOCK FALSE
