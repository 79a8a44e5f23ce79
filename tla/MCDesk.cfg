SPECIFICATION DeskSpec
CONSTANTS
  j1 = j1
  j2 = j2
  a1 = a1
  a2 = a2
  Jobs = {j1, j2}
  Admins = {a1, a2}
  Texts = {"x", "y"}
  Default = "default"
  None = "none"
  MaxJobs = 3
  MaxFailures = 1
INVARIANTS
  MailIsTrue
CHECK_DEADLOCK FALSE
SYMMETRY Symmetry
