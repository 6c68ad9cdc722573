SPECIFICATION FairSpec
CONSTANTS
  Accounts = {ann, bob}
  NoAccount = NoAccount
  Capacity = 1
  LoginCapacity = 1
  MaxID <- RequestsPerRole
  MaxTimeouts = 1
  MaxNotes <- NotesPerRole
  MaxForeign = 1
  Orphans <- OrphansPerRole
  Outsiders = {"login", "logout"}
  Nothing = Nothing
INVARIANTS
  SnapshotIsHonest
  SuccessIsReal
PROPERTIES
  CloseReturns
  LoginNoticed
CHECK_DEADLOCK FALSE
