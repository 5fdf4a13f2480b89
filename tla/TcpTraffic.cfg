\* Teardown within the grace period, client ports idle for longer than it.
SPECIFICATION TSpec
CONSTANTS
  Endpoint <- MCEndpoint
  Port = 443
  Grace = 1
  Instant <- MCInstant
  MaxInstant = 4
  vendor = vendor
  Name <- MCName
  Shape <- MCShape
  MaxPackets = 5
  Opaque = Opaque
  None = None
  Teardown = 1
  Reuse = 2
INVARIANTS
  ReportedOnce
  NotMixed
  EveryConnectionReported
CHECK_DEADLOCK FALSE
