\* No faults: one generation running across midnight.
SPECIFICATION Spec
CONSTANTS
  o1 = o1
  o2 = o2
  o3 = o3
  d1 = d1
  Outfits = {o1, o2}
  Detections = {}
  Estimate = 2
  Costs = {0, 1}
  Caps = {3}
  MaxCap = 3
  LastDay = 1
  MaxFaults = 0
INVARIANT
  NeverUnderCounts
CHECK_DEADLOCK FALSE
