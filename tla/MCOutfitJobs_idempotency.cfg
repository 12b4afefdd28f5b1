\* Nothing fails and nothing expires: two submissions with one key.
SPECIFICATION Spec
CONSTANTS
  r1 = r1
  r2 = r2
  s1 = s1
  k1 = k1
  p1 = p1
  NoKey = NoKey
  NoJob = NoJob
  Requests = {r1, r2}
  Streams = {}
  Keys = {k1}
  Pollers = {}
  KeyOf <- SameKey
  MaxConcurrent = 2
  WorkerTimeout = 1
  StaleAfter = 2
  RedisTTL = 2
  IdemTTL = 4
  ReapAfter = 3
  MaxAge = 3
  MaxCrashes = 0
  RedisFaults = FALSE
PROPERTY
  OneJobPerBoundKey
