\* Liveness on a horizon shorter than the 24 h TTL index (ReapAfter > MaxAge).
SPECIFICATION FairSpec
CONSTANTS
  r1 = r1
  r2 = r2
  s1 = s1
  k1 = k1
  p1 = p1
  NoKey = NoKey
  NoJob = NoJob
  Requests = {r1, r2}
  Streams = {}
  Keys = {}
  Pollers = {p1}
  KeyOf <- NoKeys
  MaxConcurrent = 1
  WorkerTimeout = 1
  StaleAfter = 1
  RedisTTL = 1
  IdemTTL = 1
  ReapAfter = 3
  MaxAge = 2
  MaxCrashes = 1
  RedisFaults = TRUE
PROPERTIES
  ProcessingResolves
  VerdictIsServed
  CapacityReturns
