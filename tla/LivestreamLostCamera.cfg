SPECIFICATION FairSpec
CONSTANTS
  Mode = "OnButton"
  Poses = {0}
  Tolerance = 0
  CameraMayFail = TRUE
  HasInitialParams = FALSE
  MaxImages = 2
  MaxEvents = 2
PROPERTIES
  WakeClosesExtraction
CHECK_DEADLOCK FALSE
