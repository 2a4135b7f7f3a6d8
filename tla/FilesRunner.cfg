SPECIFICATION Spec
CONSTANTS
  Sizes = {s1, s2}
  MaxFiles = 4
  One = 20
  Model = "SIMPLE_PINHOLE"
  Messages = {"No readable images in provided directory!", "No images to calibrate from.", "extraction failed", "calibration failed", "images not registered", "Number of camera parameters does not match camera model.", "Number of initial housing parameters does not match housing type.", "Pattern size needs to be set when estimating initial dome offset.", "Interface normal must be normalized to unit length!", "Housing calibration requires an intrinsic guess!", "Housing calibration requested but refractive parameters not initialized!", "Intrinsics guess specified, but camera not initialized."}
INVARIANTS ShowsEveryImage ResultIsComplete OptionsFitCalibrator
PROPERTIES ViewAsPromised EndsWithResult
CHECK_DEADLOCK FALSE
