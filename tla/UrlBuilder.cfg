SPECIFICATION Spec
CONSTANTS
  Starts <- SomeStarts
  Sockets <- SomeSockets
  Rests <- SomeRests
  Segments <- SomeSegments
  Names <- SomeNames
  Values <- SomeValues
  Endings <- SomeEndings
  NoValue = NoValue
  NoQuery = NoQuery
  MaxLen = 13
INVARIANT ReadsBackTheSame
INVARIANT TargetReadsBack
INVARIANT KeyIsCanonical
INVARIANT SameTarget
PROPERTY ConnectionStays
PROPERTY PartsSpec
CHECK_DEADLOCK FALSE
