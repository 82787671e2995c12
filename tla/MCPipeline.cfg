SPECIFICATION FairSpec
CONSTANTS
  MaxEvents = 2
  MaxDecisions = 1
  TapCap = 1
  WriterCap = 1
  MayCancel = TRUE
  MayFail = TRUE
  Bus = TRUE
INVARIANT DeliveredOnceInOrder
PROPERTY PipelineStops
CHECK_DEADLOCK FALSE
