\* A connection that stays half closed for longer than the grace period.
SPECIFICATION TSpec
CONSTANTS
  Endpoint <- MCEndpoint
  Port = 443
  Grace = 2
  Instant <- MCInstant
  MaxInstant = 4
  vendor = vendor
  Name <- MCName
  Shape <- MCShape
  MaxPackets = 3
  Opaque = Opaque
  None = None
  Teardown = 4
  Reuse = 6
INVARIANTS
  ReportedOnce
CHECK_DEADLOCK FALSE
