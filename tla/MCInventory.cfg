SPECIFICATION FairSpec
CONSTANTS
  Products = {a, b}
  Requests = {r1, r2}
  Sweepers = {s1}
  Points <- MCPoints
  Deltas <- MCDeltas
  BatchSize = 2
  MaxChanges = 2
  MaxFaults = 1
INVARIANTS AlertsAccountedFor AloneIsRight
PROPERTIES SweepsRepair
CHECK_DEADLOCK FALSE
