SPECIFICATION FairSpec
CONSTANTS
  p1 = p1
  p2 = p2
  Requests = {1, 2}
  Processes = {p1, p2}
  Deployments <- OneOrTwo
  MaxLoad = 3
  MaxTime = 2
  MaxFaults = 1
INVARIANTS
  RowsHaveFiles
  CompleteIsStored
PROPERTIES
  RequestsEnd
CHECK_DEADLOCK FALSE
