SPECIFICATION FairSpec
CONSTANTS
  Notes <- MCNotes
  Bad <- MCBad
  Sweepers = {s1, s2, s3}
  BatchSize = 2
  MaxFaults = 2
INVARIANTS RepeatsAreBounded
PROPERTIES GoodOnesArrive
CHECK_DEADLOCK FALSE
