SPECIFICATION Spec
CONSTANTS
  EnumCases <- SomeEnum
  Structs <- SomeStructs
  Models <- SomeModels
  ValuesOf <- SomeValues
INVARIANT
  RawIsVerbatim
CHECK_DEADLOCK FALSE
