SPECIFICATION LiveSpec
CONSTANTS
  Agents = {a1, a2}
  Borrowers = {b1}
  Tasks = {t1}
  Calls = {c1, c2}
  Workers = {w1}
  Ingesters = {i1}
  Null = Null
  Reports = {"completed"}
  Suppressed = {}
  MaxAttempts = 2
  Monitored = {}
  Mortal = {w1}
  LostReplies = FALSE
  EnforceForeignKeys = FALSE
  SlowOriginate = FALSE
  SlowCalls = FALSE
  InOrder = FALSE
  EarlyEvents = TRUE
  Arriving = {"COMPLETED"}
PROPERTY ClaimReclaimed
