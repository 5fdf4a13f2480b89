\* Every capture file of at most four packets, time stamps in any order.
SPECIFICATION Spec
CONSTANTS
  Endpoint <- MCEndpoint
  Port = 443
  Grace = 1
  Instant <- MCInstant
  vendor = vendor
  other = other
  Name <- MCName
  Shape <- MCShape
  MaxPackets = 4
  Opaque = Opaque
  None = None
INVARIANTS
  TypeOK
  PacketsNotShared
  DroppedOnlyAsTail
  SessionsSummariseTheirPackets
  ReportInStartOrder
\* The function returns: a capture file is read once.
CHECK_DEADLOCK FALSE
