SPECIFICATION LiveSpec
CONSTANTS
  Workers = {w1, w2}
  Campaigns = {c1, c2}
  Null = Null
  SameHash = FALSE
  MaxApproved = 1
  MaxTick = 2
  MaxStarts = 2
INVARIANT TickExplainsItsCalls
INVARIANT StallIsShort
PROPERTY CatchesUp
CHECK_DEADLOCK FALSE
