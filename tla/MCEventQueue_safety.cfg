\* Three events, a queue of two, one restart (MaxRestarts), two faults.
SPECIFICATION FairSpec
CONSTANTS
  Null = Null
  LastEvent = 3
  BatchSize = 1
  MaxQueueDepth = 2
  MaxRestarts = 1
  MaxFaults = 2
INVARIANTS
  TypeOK
  KeptUntilStored
  OnceWhenHealthy
PROPERTY
  QueueDrains
CHECK_DEADLOCK FALSE
