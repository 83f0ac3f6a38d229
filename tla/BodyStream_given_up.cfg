SPECIFICATION Spec
CONSTANTS
  p1 = p1
  p2 = p2
  r1 = r1
  r2 = r2
  Producers <- OneProducer
  Readers <- OneReader
  Buffer = 2
  Sizes = {1}
  Limits = {NoLimit}
  MaxCalls = 2
  NoItem = NoItem
  NoLimit = NoLimit
SYMMETRY Symmetry
PROPERTY GivenUpReadLosesNothing
CHECK_DEADLOCK FALSE
