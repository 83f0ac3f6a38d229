SPECIFICATION Spec
CONSTANTS
  Null = Null
  Absent = Absent
  NoHeader = NoHeader
  Cases <- SomeCases
INVARIANT FailsWithoutBody
CHECK_DEADLOCK FALSE
