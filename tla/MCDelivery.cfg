SPECIFICATION LiveSpec
CONSTANTS
  Agents = {a1}
  Borrowers = {b1, b2}
  Tasks = {t1, t2, t3}
  Calls = {c1, c2, c3}
  Workers = {w1, w2}
  Ingesters = {i1}
  Null = Null
  Reports = {"completed"}
  Suppressed = {b2}
  MaxAttempts = 2
  Monitored = {a1}
  Mortal = {w1}
  LostReplies = TRUE
  EnforceForeignKeys = FALSE
  SlowOriginate = TRUE
  SlowCalls = TRUE
  InOrder = FALSE
  EarlyEvents = FALSE
  Arriving = {"COMPLETED"}
INVARIANT TypeOK
INVARIANT AtMostOnceOrigination
INVARIANT AttemptLimit
INVARIANT DispatchedIffRecorded
PROPERTY DeliversAsPromised
PROPERTY ClaimSettled
PROPERTY IdleAgentReclaimed
