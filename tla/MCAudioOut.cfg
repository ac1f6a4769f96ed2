SPECIFICATION Spec
CONSTANTS
  OutDevices = {"spk"}
  Zero = "zero"
  Rates = {"r44", "r48"}
  Native = "r44"
  NoResampler = "null"
  NoOne = "no_one"
  MaxPcm = 2
INVARIANTS
  TypeOK
  LockHeldInSection
  PlayingIsReady
  PcmsAreClosed
  MixerFollowsStream
  RouteIsTold
PROPERTY CallsReturn
