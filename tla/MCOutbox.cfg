CONSTANTS
  p1 = p1
  p2 = p2
  i1 = i1
  i2 = i2
  Events = {e1, e2, e3}
  Pods = {p1, p2}
  Iterations = {i1, i2}
  PodOf <- MCPodOf
  BatchSize = 2
  MaxFaults = 2
SPECIFICATION FairSpec
CHECK_DEADLOCK FALSE
PROPERTIES DeliveredUnlessFault DeliverySpec
