SPECIFICATION Spec
CONSTANTS
  EnumCases <- SomeEnum
  Structs <- SomeStructs
  Models <- SomeModels
  ValuesOf <- SomeValues
INVARIANTS
  ObjectsArrive
  FollowerIsRead
  SchemaTellsTheTruth
  RawArrives
CHECK_DEADLOCK FALSE
