SPECIFICATION Spec
CONSTANTS
  Tick = tick
  post = post
  get = get
  k1 = k1
  k2 = k2
  Posts <- OnePost
  Gets <- OneGet
  Keys <- OneKey
  MaxDay = 2
  FetchDays = 1
  MaxCost = 2
  MaxAdmin = 2
INVARIANT HintsNeverRace
