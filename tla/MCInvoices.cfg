CONSTANTS
  Procs = {p1, p2, p3}
  Ids = {i1, i2}
  BatchSize = 2
  MaxTime = 1
  DueDates = {0}
SPECIFICATION Spec
SYMMETRY Symmetry
CHECK_DEADLOCK FALSE
INVARIANTS NumbersGapless OverdueWasAlerted
PROPERTIES IllegalMoveIsStale
