CONSTANTS
  Procs = {p1, p2}
  Ids = {i1, i2}
  BatchSize = 1
  MaxTime = 3
  DueDates = {}
  Schedules = {s1}
  Period <- MCPeriod
  NetTerms <- MCNetTerms
  Issues <- MCIssues
  Starts = {0, 1}
  RunLimit = 1
  CatchUp = 240
  NEVER = NEVER
SPECIFICATION RecurringSpec
SYMMETRY Symmetry
CHECK_DEADLOCK FALSE
INVARIANTS NeverOverbilled
PROPERTIES InvoicesSpec
