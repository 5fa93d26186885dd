SPECIFICATION FairSpec
CONSTANTS
  Viewers = {v1}
  StepCount = 2
  Capacity = 2
  MaxFaults = 1
INVARIANTS
  ViewIsTrue
PROPERTIES
  ViewerIsReleased
