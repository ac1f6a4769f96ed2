\* A name that both sides know, and documents long enough for two devices with
\* a path and a control each, or one in a section with both of its paths.
CONSTANTS
  OutNames = {"headset"}
  InNames = {"headset"}
  Cards = {0, 1}
  Ctrls = {"route", "volume"}
  Null = Null
  MaxElements = 6
SPECIFICATION ConfigSpec
INVARIANTS
  ConfigTypeOK
  ParsedIsDocument
  AllFreed
