SPECIFICATION Spec
CONSTANTS
  Agents = {a1, a2}
  Borrowers = {b1, b2}
  Tasks = {t1, t2}
  Calls = {c1, c2}
  Workers = {w1, w2}
  Ingesters = {i1}
  Null = Null
  Reports = {"completed"}
  Suppressed = {}
  MaxAttempts = 2
  Monitored = {a1}
  Mortal = {w1, w2}
  LostReplies = TRUE
  EnforceForeignKeys = FALSE
  SlowOriginate = FALSE
  SlowCalls = FALSE
  InOrder = FALSE
  EarlyEvents = FALSE
  Arriving = {"INITIATED", "RINGING", "ANSWERED", "COMPLETED"}
SYMMETRY Symmetry
INVARIANT AgentServesOneCall
INVARIANT CompletedConverges
