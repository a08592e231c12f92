SPECIFICATION Spec
CONSTANTS
  k1 = k1
  k2 = k2
  Keys <- OneKey
  MaxDay = 3
  Week = 1
  Month = 2
  MaxCost = 1
  Amounts <- OneDollar
  TopupDays <- TwoDates
  MaxTopups = 2
  ReadsFail = TRUE
INVARIANTS TypeOK WindowsNested BalanceCoversMonth BalanceNotOverstated
