SPECIFICATION ControllerSpec
CONSTANTS
  MaxLevel = 3
  Warning = 3
  Every = 2
  MaxVersion = 5
  Absent = Absent
INVARIANT LowIsPlannedFor
PROPERTIES AdviceIsCurrent
