\* Nothing fails and the SDK is started before any emit: the app is closed and
\* started again.
SPECIFICATION BootSpec
CONSTANTS
  Null = Null
  LastEvent = 3
  BatchSize = 2
  MaxQueueDepth = 3
  MaxRestarts = 1
  MaxFaults = 0
INVARIANT
  PersistedIsKept
CHECK_DEADLOCK FALSE
