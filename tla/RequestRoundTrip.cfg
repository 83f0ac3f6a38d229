SPECIFICATION Spec
CONSTANTS
  Cases <- SomeCases
  Malformed <- SomeMalformed
  EnumCases <- SomeEnum
INVARIANTS
  BuiltIsAccepted
  ValuesArrive
  PathArrivesButPlus
  BrokenIsTold
  AnySpellingIsRead
CHECK_DEADLOCK FALSE
