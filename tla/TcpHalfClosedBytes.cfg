\* Data sent after the first FIN, within the grace period.
SPECIFICATION TSpec
CONSTANTS
  Endpoint <- MCEndpoint
  Port = 443
  Grace = 2
  Instant <- MCInstant
  MaxInstant = 4
  vendor = vendor
  Name <- MCName
  Shape <- MCShape
  MaxPackets = 3
  Opaque = Opaque
  None = None
  Teardown = 2
  Reuse = 3
INVARIANTS
  PayloadsAllCounted
CHECK_DEADLOCK FALSE
