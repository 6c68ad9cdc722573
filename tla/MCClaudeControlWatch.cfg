SPECIFICATION Spec
CONSTANTS
  Lines = {bar}
  Accounts = {ann, bob}
  NoAccount = NoAccount
  NoBinding = NoBinding
  NoSidecar = NoSidecar
  Requests = {r1, r2}
  Watcher = Watcher
  MaxBindings = 3
  MaxRestarts = 1
PROPERTY NoUnwantedInstall
CHECK_DEADLOCK FALSE
