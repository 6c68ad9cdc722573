SPECIFICATION FairSpec
CONSTANTS
  Lines = {bar}
  Accounts = {ann, bob}
  NoAccount = NoAccount
  NoBinding = NoBinding
  NoSidecar = NoSidecar
  Requests = {r1, r2}
  Watcher = Watcher
  MaxBindings = 2
  MaxRestarts = 1
INVARIANTS
  AgreeAtRest
  DroppedStaysDropped
PROPERTY BusyEnds
CHECK_DEADLOCK FALSE
