SPECIFICATION ProfileSpec
CONSTANTS
  Lines = {none, bar}
  Accounts = {ann, bob}
  NoAccount = NoAccount
  NoBinding = NoBinding
  NoSidecar = NoSidecar
  MaxBindings = 4
INVARIANTS
  OwnLineKept
  CleanUnlessTorn
  RestoredIsNewest
