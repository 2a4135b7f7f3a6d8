SPECIFICATION Spec
CONSTANTS
  Names = {"calibration"}
  Extensions = {"txt", "dat", "yaml"}
  MaxCalibrations = 2
INVARIANT PairsAgree
PROPERTY NoSilentOverwrite
