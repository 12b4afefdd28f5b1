SPECIFICATION ErasureSpec
CONSTANTS
  Saves = {s1}
  Dates = {today}
  Purges = {g1}
  Rows = {w1}
  MaxErasureFaults = 0
INVARIANT PurgeLeavesNothing
CHECK_DEADLOCK FALSE
