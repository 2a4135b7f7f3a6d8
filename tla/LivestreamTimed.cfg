SPECIFICATION HeldSpec
CONSTANTS
  Mode = "OnTimedDetection"
  Poses = {0, 1, 2}
  Tolerance = 1
  CameraMayFail = TRUE
  HasInitialParams = FALSE
  MaxImages = 2
  MaxEvents = 2
INVARIANTS
  NoNullLiveImage
PROPERTIES
  HeldPoseSavedOnce
CHECK_DEADLOCK FALSE
