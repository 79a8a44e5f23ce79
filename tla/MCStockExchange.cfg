SPECIFICATION Spec
CONSTANTS
  u1 = u1
  u2 = u2
  h1 = h1
  h2 = h2
  Users = {u1, u2}
  Owner = u1
  Amounts = {1, 2}
  Volumes = {1, 2}
  ShareTotal = 5
  Remain = 3
  MaxVolume = 2
  Handlers = {h1, h2}
  Kinds = {"BUY", "SELL", "MODIFY_BUY", "MODIFY_SELL", "CANCEL"}
  MaxRequests = 2
  MaxFaults = 1
INVARIANTS
  PageShowsBook
  OffersAreCovered
  EveryTradeIsListed
CHECK_DEADLOCK FALSE
SYMMETRY ExchangeSymmetry
