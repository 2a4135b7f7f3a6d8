SPECIFICATION Spec
CONSTANTS
  MaxCalibrations = 3
  MaxImages = 2
INVARIANTS WorkerOwnsCalibration IdleShowsResult SavesWhatIsShown
PROPERTY CalibrationEnds
CHECK_DEADLOCK FALSE
