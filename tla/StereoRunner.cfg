SPECIFICATION Spec
CONSTANTS
  Sizes = {s1, s2}
  MaxFiles = 2
  Messages = {"Could not find any image files!", "No images to calibrate from.", "Intrinsics guess specified, but camera not initialized.", "Invalid camera parameters given!", "Stereo calibration images are not balanced.", "extraction failed", "calibration failed"}
INVARIANTS PairsByRank ShowsEveryPair ShownCamerasFit
CHECK_DEADLOCK FALSE
