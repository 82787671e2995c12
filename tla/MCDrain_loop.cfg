SPECIFICATION FairDrainSpec
CONSTANTS
  Cap = 4
  Counted = FALSE
PROPERTY DrainStops
CHECK_DEADLOCK FALSE
