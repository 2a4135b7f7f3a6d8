SPECIFICATION Spec
CONSTANTS
  Mode = "OnSuggestedPose"
  Poses = {0, 1}
  Tolerance = 0
  CameraMayFail = FALSE
  HasInitialParams = TRUE
  MaxImages = 4
  MaxEvents = 1
INVARIANTS
  NoNullPixmap
  SavesPoseOnDisplay
