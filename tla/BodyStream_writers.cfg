SPECIFICATION Spec
CONSTANTS
  p1 = p1
  p2 = p2
  r1 = r1
  r2 = r2
  Producers <- TwoProducers
  Readers <- OneReader
  Buffer = 0
  Sizes = {0, 1}
  Limits = {}
  MaxCalls = 2
  NoItem = NoItem
  NoLimit = NoLimit
SYMMETRY Symmetry
INVARIANT TypeOK
INVARIANT BackPressure
INVARIANT NoLostPermit
INVARIANT GoneIsTrue
CHECK_DEADLOCK FALSE
