SPECIFICATION Spec
CONSTANTS
  OutDevices = {"ear", "spk"}
  Earpiece = "ear"
  Speaker = "spk"
  WiredHeadset = "headset"
  WiredHeadphone = "headphone"
  Bluetooth = {"sco", "a2dp"}
  Zero = "zero"
  Modes = {"normal", "in_call"}
  Normal = "normal"
  InCall = "in_call"
  Volumes = {0, 1}
  Asked = {"spk"}
  NoStream = "null"
  Freed = "freed"
  NoOne = "no_one"
  MaxClients = 2
  MaxLost = 0
  MaxMissed = 1
CHECK_DEADLOCK FALSE
INVARIANTS
  TypeOK
  ModemFollowsMode
  OneClient
  VolumeInForce
  RoutesAgree
PROPERTY
  DeviceLockReleased
