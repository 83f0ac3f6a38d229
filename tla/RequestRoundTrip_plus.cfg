SPECIFICATION Spec
CONSTANTS
  Cases <- SomeCases
  Malformed <- SomeMalformed
  EnumCases <- SomeEnum
INVARIANTS
  PathIsPercentDecoded
CHECK_DEADLOCK FALSE
