SPECIFICATION FairSpec
CONSTANTS
  Sessions = {1, 2, 3}
  Leftovers = {2}
  Running = {1, 3}
  Hooks = {h1, h2}
  Windows = {five, week}
  Carried = {{five}, {five, week}}
  Limit = 2
  MaxStarts = 3
  MaxRuns = 2
  MaxDebris = 1
  NoFile = NoFile
  Nobody = Nobody
  Nothing = Nothing
INVARIANTS
  ShownBelongs
PROPERTIES
  SequenceGrows
  LiveUntilNews
  CatchesUp
CHECK_DEADLOCK FALSE
