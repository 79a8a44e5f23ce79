SPECIFICATION FairSpec
CONSTANTS
  o1 = o1
  p1 = p1
  q1 = q1
  q2 = q2
  AppConns = {a1, a2}
  AdminConns = {d1, d2}
  Outflows <- MCOutflows
  Payments <- MCPayments
  Prompts = {q1, q2}
  Amount <- MCAmount
  Opening = 1
  MaxUpdates = 2
  MaxCalls = 2
  MaxCrashes = 1
INVARIANTS
  LedgerBalanced
  OverdrawnOnlyUnchecked
  SettledAsAsked
PROPERTIES
  HandlersReturn
CHECK_DEADLOCK FALSE
