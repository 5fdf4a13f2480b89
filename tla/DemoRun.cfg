SPECIFICATION Spec
CONSTANTS
  None = None
  Window = 2
  Gap = 1
  Suppress = 15
  Kept = 22
  RecentKept = 2
  Retained = 3
  RfSuppress = 5
  BaselineTime = 3
  Settle = 1
  CaptureSettle = 3
  QuietDwell = 5
  AlarmDwell = 4
  MaxCalls = 2
  MaxFaults = 1
INVARIANTS
  DemoTypeOK
  VerdictsAreRight
  OnlyTheseMisses
  OnlyTheseSurvive
  OneMonitor
  ScreenRemembers
CHECK_DEADLOCK FALSE
