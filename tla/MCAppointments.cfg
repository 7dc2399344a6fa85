SPECIFICATION Spec
CONSTANTS
  Appts = {a1, a2}
  Assignees = {x}
  Nobody = nobody
  Windows <- MCWindows
  Asked <- MCAsked
  Procs = {p1, p2}
  BatchSize = 2
  Ahead = 1
  MaxTime = 2
SYMMETRY MCSymmetry
INVARIANTS DoubleBookingIsARace RemindersAccountedFor
PROPERTIES OnlyTheOvertakenErr
CHECK_DEADLOCK FALSE
