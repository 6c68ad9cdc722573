SPECIFICATION FairSpec
CONSTANTS
  MaxBackoff = 30
  SampleLimit = 10
  Room = 2
  Tags = 3
INVARIANTS
  ToldTheTruth
  OneHelper
PROPERTIES
  LoopEnds
  Recovers
CHECK_DEADLOCK FALSE
