SPECIFICATION FairSpec
CONSTANTS
  Tick = tick
  post = post
  get = get
  k1 = k1
  k2 = k2
  Posts <- OnePost
  Gets <- OneGet
  Keys <- OneKey
  MaxDay = 3
  FetchDays = 2
  MaxCost = 1
  MaxAdmin = 2
INVARIANTS TypeOK NeverOverstated OnlyPastDays
PROPERTIES OkMeansSaved ReportCatchesUp RotationPickedUp WritesAsReportAssumes
