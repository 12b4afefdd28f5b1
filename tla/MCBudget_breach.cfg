\* One failed Redis command.
SPECIFICATION Spec
CONSTANTS
  o1 = o1
  o2 = o2
  o3 = o3
  d1 = d1
  Outfits = {o1, o2}
  Detections = {}
  Estimate = 2
  Costs = {0, 1}
  Caps = {1}
  MaxCap = 1
  LastDay = 0
  MaxFaults = 1
PROPERTY
  BreachIsDenied
CHECK_DEADLOCK FALSE
