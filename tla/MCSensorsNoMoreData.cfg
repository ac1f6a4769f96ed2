\* The other sensors take part of the room a caller offers.
CONSTANTS
  NumEvents = 4
  NoEvent = NoEvent
  Sensors = {"proximity"}
  Value = {0, 1}
  Counts = {2}
  MplEvents = 1
  PipeSize = 2
  MaxReports = 2
SPECIFICATION Spec
INVARIANT NoMoreData
