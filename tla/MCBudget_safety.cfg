\* Two concurrent generations and a detection around one midnight, two faults.
SPECIFICATION Spec
CONSTANTS
  o1 = o1
  o2 = o2
  o3 = o3
  d1 = d1
  Outfits = {o1, o2}
  Detections = {d1}
  Estimate = 2
  Costs = {0, 1, 3}
  Caps = {0, 3}
  MaxCap = 3
  LastDay = 1
  MaxFaults = 2
INVARIANTS
  TypeOK
  NetsOut
  FailsSafe
  OverspendBounded
SYMMETRY Symmetry
CHECK_DEADLOCK FALSE
