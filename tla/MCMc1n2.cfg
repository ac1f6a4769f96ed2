SPECIFICATION Spec
CONSTANTS
  OutDevices = {"spk", "ear"}
  InDevices = {"mic"}
  NoDevice = "zero"
  NoRoute = "none"
  OutRoutes = {"spk", "ear"}
  InRoutes = {"mic"}
  ModemRoutes = {"ear"}
  MaxCalls = 3
CHECK_DEADLOCK FALSE
INVARIANTS
  TypeOK
  CodecFollowsRecord
  OneDescriptor
  OwnRouteIsFresh
