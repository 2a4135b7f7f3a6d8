SPECIFICATION Spec
CONSTANTS
  Devices = {0, 1}
  MaxStarts = 3
INVARIANTS SpeaksOfSelected OneReader
PROPERTY GuiReturns
