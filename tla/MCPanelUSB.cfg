SPECIFICATION Spec
CONSTANTS
  MaxCommands = 7
  StartupReads = 3
  FlushReads = 2
  NoAck = NoAck
INVARIANTS
  AckAnswersUpload
  NothingStaleWhileSynced
  VideoStoppedWhenIdle
CHECK_DEADLOCK FALSE
