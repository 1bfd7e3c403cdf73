SPECIFICATION FairSpec
CONSTANTS
  MaxRuns = 1
  MaxStatus = 1
PROPERTY CancelStops
CHECK_DEADLOCK FALSE
