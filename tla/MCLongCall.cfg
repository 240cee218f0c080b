SPECIFICATION Spec
CONSTANTS
  Agents = {a1}
  Borrowers = {b1, b2}
  Tasks = {t1, t2}
  Calls = {c1, c2}
  Workers = {w1}
  Ingesters = {i1}
  Null = Null
  Reports = {"completed"}
  Suppressed = {}
  MaxAttempts = 2
  Monitored = {}
  Mortal = {}
  LostReplies = FALSE
  EnforceForeignKeys = FALSE
  SlowOriginate = FALSE
  SlowCalls = TRUE
  InOrder = FALSE
  EarlyEvents = FALSE
  Arriving = {"COMPLETED"}
INVARIANT AgentServesOneCall
