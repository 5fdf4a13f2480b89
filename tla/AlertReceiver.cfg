SPECIFICATION FairSpec
CONSTANTS
  Requests = 6
  Cap = 3
  Threads = 3
\* All requests may have been answered.
CHECK_DEADLOCK FALSE
INVARIANTS
  TypeOK
  NewestRetained
  PopFinds
  CappedAtRest
PROPERTIES
  EachAnswered
