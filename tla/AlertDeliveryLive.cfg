SPECIFICATION FairSpec
CONSTANTS
  a = a
  b = b
  Alert = {a, b}
  Sweep <- PairSweeps
  None = None
  SweepTime = 1
  Addresses = 1
  Timeout = 1
  Suppress = 4
  Stale = 5
  Linger = 2
  MaxLate = 1
  MaxCount = 0
PROPERTIES
  RogueKeepsBeingReported
  RogueStaysOnScreen
  DeadShownOffline
  ImplementsFeed
