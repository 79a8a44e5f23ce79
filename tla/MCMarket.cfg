SPECIFICATION Spec
CONSTANTS
  owner = owner
  u1 = u1
  u2 = u2
  i1 = i1
  i2 = i2
  Users <- MCUsers
  Items <- MCItems
  Owner <- MCOwner
  Listed <- MCListed
  Requests = {r1, r2}
  Prices = {10, 20}
  ShareTotal = 2
  Opening = 20
  MaxTrades = 2
  MaxShows = 1
INVARIANTS
  ProfitsAreWhole
  HistoryExplainsBalance
  CountersAreSales
PROPERTIES
  CartLeavesWithSale
CHECK_DEADLOCK FALSE
SYMMETRY MarketSymmetry
