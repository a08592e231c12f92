SPECIFICATION Spec
CONSTANTS
  s1 = s1
  s2 = s2
  r1 = r1
  five_hour = five_hour
  weekly = weekly
  Savers <- TwoSavers
  Readers <- OneReader
  WindowKeys <- TwoWindows
  MaxClock = 2
  MaxSnapshots = 3
  TruncatedReads = FALSE
INVARIANT NilMeansNoSnapshot
