SPECIFICATION Spec
CONSTANTS
  Ctl <- MCCtl
  PowerOn <- MCPowerOn
  Enable <- MCEnable
  Disable <- MCDisable
  OutDevices = {"dflt", "spk", "ear"}
  InDevices = {"idflt", "mic"}
  OutDefault = "dflt"
  InDefault = "idflt"
  NoDevice = "null"
  VolumeSteps = 1
INVARIANTS
  TypeOK
  RouteInForce
  OffIsSilent
  SuccessMovesAll
