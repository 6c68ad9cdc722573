SPECIFICATION Spec
CONSTANTS
  Windows <- MCWindows
  Used <- MCUsed
  Resets <- MCResets
  MaxTime = 4
  StaleAfter = 1
  NoObs = NoObs
INVARIANTS
  CurrentIsReceivedAndLive
  OKIsFresh
PROPERTY KeepsPromise
CHECK_DEADLOCK FALSE
