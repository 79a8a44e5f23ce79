SPECIFICATION ProfitSpec
CONSTANTS
    me = me
    other = other
    Me = me
    Users = {me, other}
    Months <- TwoDays
    Zones = {0, 1}
    FirstDays = {2}
    Amounts = {1, 199}
    MaxSales = 2
INVARIANTS
  ProfitCountedOnce
  ChartsAgree
CHECK_DEADLOCK FALSE
