SPECIFICATION WorkspaceSpec
CONSTANTS
  a = a
  b = b
  c = c
  t1 = t1
  t2 = t2
  v1 = v1
  v2 = v2
  Keywords = {a, b, c}
  Videos = {v1, v2}
  Tabs = {t1, t2}
  Edits <- SomeEdits
  Verified = TRUE
  MaxRequests = 2
  MaxCrashes = 1
INVARIANTS
  DoneAsAsked
  TagsWereListed
CHECK_DEADLOCK FALSE
SYMMETRY Symmetry
