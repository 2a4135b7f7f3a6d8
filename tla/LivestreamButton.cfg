SPECIFICATION FairSpec
CONSTANTS
  Mode = "OnButton"
  Poses = {0}
  Tolerance = 0
  CameraMayFail = FALSE
  HasInitialParams = FALSE
  MaxImages = 2
  MaxEvents = 2
INVARIANTS
  HandoffExclusive
  EverySaveDisplayed
  WidgetOutlivesUsers
PROPERTIES
  CalibratesSettledImages
  ShutsDown
  StreamKeepsExtracting
  ImplementsHandoff
