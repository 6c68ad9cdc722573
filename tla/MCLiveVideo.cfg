SPECIFICATION LiveFairSpec
CONSTANT MaxChunks = 1
INVARIANTS
  LateNeverSent
  NothingLeftBehind
  BlameIsHonest
  NothingRuns
  FailureShown
PROPERTY AlwaysReturns
CHECK_DEADLOCK FALSE
