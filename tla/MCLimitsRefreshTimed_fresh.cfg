SPECIFICATION TimedSpec
CONSTANTS
  NumProviders = 2
  Idle = 6
  Watched = 2
  WatcherExpiry = 2
  CheckEvery = 1
  MaxReadTime = 1
  StaleIntervals = 3
  MayAnswerEmpty = {2}
  h1 = h1
  Handlers <- OneHandler
INVARIANTS TimedTypeOK HealthySnapshotFresh StaleAfterTwoMisses
