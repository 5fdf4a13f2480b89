SPECIFICATION Spec
CONSTANTS
  a = a
  b = b
  Alert = {a}
  Sweep <- SingleSweeps
  None = None
  SweepTime = 1
  Addresses = 2
  Timeout = 1
  Suppress = 4
  Stale = 5
  Linger = 3
  MaxLate = 1
  MaxCount = 3
INVARIANTS
  TypeOK
  CountsAgree
  FreshMeansAlive
  InTouch
PROPERTIES
  RepeatsSpaced
