SPECIFICATION PumpSpec
CONSTANTS
  Pump = pump
  Handler = handler
  Producers <- ThePump
  Readers <- TheHandler
  Buffer = 1
  Sizes = {1}
  Limits = {NoLimit, 2}
  MaxCalls = 5
  MaxBody = 4
  NoItem = NoItem
  NoLimit = NoLimit
INVARIANT WholeMeansWhole
PROPERTY PumpStops
PROPERTY BothDone
PROPERTY HandlerServed
CHECK_DEADLOCK FALSE
