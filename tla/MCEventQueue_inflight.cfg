\* Nothing fails: an event emitted while a POST is under way.
SPECIFICATION Spec
CONSTANTS
  Null = Null
  LastEvent = 2
  BatchSize = 1
  MaxQueueDepth = 2
  MaxRestarts = 0
  MaxFaults = 0
PROPERTY
  DeliveryTakesOnlyTheBatch
CHECK_DEADLOCK FALSE
