SPECIFICATION Spec
CONSTANTS
  u1 = u1
  u2 = u2
  Users = {u1, u2}
  Owner = u1
  Amounts = {1, 2}
  Volumes = {1, 2}
  ShareTotal = 3
  Funds = 3
  FeeNum = 1
  FeeDen = 2
  MsgTypes <- Everything
  MaxMessages = 3
CHECK_DEADLOCK FALSE
INVARIANTS
  TypeOK
  BookFollowsLive
  SharesConserved
  LedgerBalanced
  CrossedOnlyIfRepriced
  OrderRecordsAgree
PROPERTIES
  PriceTimePriority
  ClosedStaysClosed
  WealthKeptWithoutMatch
