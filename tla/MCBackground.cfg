SPECIFICATION MCSpec
CONSTANTS
  p1 = p1
  Photos = {p1, p2}
  MaxConcurrent = 1
  JobTimeout = 1
  PollDeadline = 2
  JobTTL = 3
  MaxDetectFaults = 1
  Updates = {u1}
  Original = original
  Worker = worker
  NoImage = none
  MaxAttempts = 2
  MaxItemFaults = 1
  Calls = {c1, c2}
  MaxTokens = 3
  MaxSessionFaults = 1
INVARIANTS
  BackgroundTypeOK
  DetectSlotsAccounted PaidOnce VerdictIsTrue
  PngIsOfImage AttemptsBounded
  SignedOutStays TokensAgree
PROPERTIES
  WaitingEnds DeletedStays ItemRetriesEnd
CHECK_DEADLOCK FALSE
