SPECIFICATION FairSpec
CONSTANTS
  Docs = {d1}
  Requests = {r1, r2}
  Workers = {w1, w2}
  Stores <- MCStores
  Shared = {"vector"}
  Length <- MCLength
  Unreadable <- MCUnreadable
  MaxIngests = 2
  MaxFaults = 1
INVARIANTS StuckWasAbandoned FailedIsNotFound QuietIndexIsCurrent
PROPERTIES RegisteredIsFound
CHECK_DEADLOCK FALSE
