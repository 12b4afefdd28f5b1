\* Two submissions with one idempotency key, a stream, a poll, one crash.
SPECIFICATION Spec
CONSTANTS
  r1 = r1
  r2 = r2
  s1 = s1
  k1 = k1
  p1 = p1
  NoKey = NoKey
  NoJob = NoJob
  Requests = {r1, r2}
  Streams = {s1}
  Keys = {k1}
  Pollers = {p1}
  KeyOf <- SameKey
  MaxConcurrent = 2
  WorkerTimeout = 1
  StaleAfter = 2
  RedisTTL = 2
  IdemTTL = 1
  ReapAfter = 3
  MaxAge = 3
  MaxCrashes = 1
  RedisFaults = TRUE
INVARIANTS
  TypeOK
  SlotsAccounted
  NeverFalselyFailed
  CacheNeverAhead
PROPERTY
  ImplementsLifecycle
SYMMETRY Symmetry
