\* A ring of three slots, so that reports of two events wrap in it.
CONSTANTS
  NumEvents = 3
  NoEvent = NoEvent
  Sensors = {"proximity"}
  Value = {0, 1}
  Counts = {2}
  MplEvents = 1
  PipeSize = 2
  MaxReports = 3
SPECIFICATION Spec
INVARIANTS
  TypeOK
  NoLostWakeup
  SleepKnowsValue
PROPERTIES
  RefinesFifo
  PendingIsTaken
