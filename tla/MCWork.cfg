SPECIFICATION FairSpec
CONSTANTS
  i1 = i1  p1 = p1  r1 = r1  r2 = r2
  Invoices = {i1}
  Products = {p1}
  Processes = {a, b}
  Schedules <- MCSchedules
  BatchSize = 2
  MaxPlan = 1
  MaxTasks = 2
  MaxEdits = 1
  MaxFaults = 1
  Rules = {r1, r2}
  Trigger <- MCTrigger
  Editions <- MCEditions
  RuleBatchSize = 2
  EntityBatchSize = 2
  Requests = {x, y}
  PurchaseBatchSize = 1
  MaxRecommendations = 2
INVARIANTS OneOpenTaskPerSignal  NoCascade OnePendingPerProduct ResolvedOnce
CHECK_DEADLOCK FALSE
PROPERTIES ResolvedIsCompleted MatchedIsFired
