SPECIFICATION Spec
CONSTANTS
  InDevices = {"mic"}
  Zero = "zero"
  Rates = {"r44", "r8"}
  Native = "r44"
  NoOne = "no_one"
  Period = 2
  Sizes = {1, 3}
  MaxSession = 2
INVARIANTS
  TypeOK
  RecordingIsReady
  EachFrameOnce
  FreshFrames
PROPERTY ReadReturns
