SPECIFICATION Spec
CONSTANTS
  j1 = j1
  j2 = j2
  Videos = {1, 2}
  Jobs = {j1, j2}
  Operations = {"create", "init", "detail", "update", "order", "delete", "status", "remove", "discard"}
  MaxJobs = 4
  MaxItems = 2
  MaxCrashes = 1
INVARIANTS
  ItemIsComplete
  
  MatchesAreCounted
CHECK_DEADLOCK FALSE
SYMMETRY ListingSymmetry
