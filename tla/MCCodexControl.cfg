SPECIFICATION FairSpec
CONSTANTS
  Requests = {r1, r2}
  Nobody = Nobody
  Closer = Closer
  MaxRuns = 5
INVARIANTS
  OneCollector
  ProfileIsExclusive
  AgreeAtRest
PROPERTIES
  RequestOwnsPage
  StopEnds
CHECK_DEADLOCK FALSE
