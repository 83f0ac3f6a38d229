SPECIFICATION Spec
CONSTANTS
  Null = Null
  Absent = Absent
  NoHeader = NoHeader
  Cases <- SomeCases
INVARIANT SameAsWhole
INVARIANT BrokenOffIsTold
INVARIANT OnlyNamedKept
PROPERTY NotReadFurther
CHECK_DEADLOCK FALSE
