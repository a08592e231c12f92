SPECIFICATION FairSpec
CONSTANTS
  NumProviders = 2
  Idle = 3
  Watched = 1
  WatcherExpiry = 2
  CheckEvery = 1
  h1 = h1
  h2 = h2
  Handlers <- TwoHandlers
INVARIANTS TypeOK NoLostWake BackoffFollowsFailures
PROPERTIES ReadsSpaced WatchedReadIsServed EveryProviderReadAgain CancelStopsRun
