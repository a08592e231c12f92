SPECIFICATION Spec
CONSTANTS
  DayLength = 2
  Offsets <- HalfADay
  Week = 2
  Month = 3
  MaxClock = 10
  MaxCalls = 2
INVARIANTS PeriodsTypeOK OneRowPerGroup PeriodHoldsItsDays PeriodsNested
