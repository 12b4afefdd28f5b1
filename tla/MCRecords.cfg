SPECIFICATION MCSpec
CONSTANTS
  p1 = p1
  p2 = p2
  t1 = t1
  t2 = t2
  b1 = b1
  f1 = f1
  x1 = x1
  x2 = x2
  ghost = ghost
  none = none
  free = free
  Claims = {c1, c2}
  Rejecters = {r1, r2}
  NoItem = none
  MaxClaimFaults = 1
  Plain = {a}
  Streams = {s}
  Chain <- TwoProviders
  Routes = {p1}
  NoProvider = none
  FailsToCooldown = 1
  Admins = {a1, a2}
  Readers = {d1, d2}
  Free = free
  MaxVersion = 3
  MaxCacheFaults = 1
  Cases = {e1, e2, e3}
  Parallelism = 2
  MaxEvalFaults = 1
  Saves = {s1, s2}
  Dates = {today}
  Purges = {g1, g2}
  Rows = {w1}
  MaxErasureFaults = 1
  ListRows = {1, 2, 3}
  PageSize = 1
  ScanCap = 2
  Window = 1
  PageCap = 3
  LastTime = 3
  MaxListChanges = 1
  RoleOf <- RoleTable
  Fillers = {x1, x2}
  FillerCap = 1
  Rankings <- SomeRankings
  Proposals <- SomeProposals
  Settings = {sunny}
  MaxRuns = 2
  MaxPoolChanges = 1
  Consoles = {k1, k2}
  StartRoles = {{"admin"}}
  CodeNames = {code1}
  AccessTTL = 1
  RefreshTTL = 2
  LastTick = 2
  MaxRequests = 3
  MaxAdminFaults = 1
INVARIANTS
  RecordsTypeOK
  ClaimsAgree
  DoneIsLast ServedIsBooked
  OneProduction CacheIsCurrent
  CompletedAddsUp
  ErasedIsGone
  WalkIsExact
  BatchIsWearable CachedByModel
  AcceptedIsWarranted FactorsSpentOnce
CHECK_DEADLOCK FALSE
