SPECIFICATION FairSpec
CONSTANTS
  HTTPTimeout = 2
  RollingKeys <- TwoWindows
  Timeout = 2
  WaitDelay = 2
  Lengths <- TwoLengths
  PipeSize = 2
CHECK_DEADLOCK FALSE
INVARIANTS RequestTypeOK EveryFailureHasACause NoStrayProcess
PROPERTIES KeepsPromise RequestAnswered
