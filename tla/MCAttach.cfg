SPECIFICATION LiveSpec
CONSTANTS
  Agents = {a1}
  Borrowers = {}
  Tasks = {}
  Calls = {c1, c2}
  Ingesters = {i1, i2}
  Null = Null
  Reports = {"completed", "none"}
  Suppressed = {}
  MaxAttempts = 0
  Bound = {}
  Leased = {c1}
  Arriving = {"RINGING", "ANSWERED", "COMPLETED"}
INVARIANT AttachExclusive
INVARIANT AttachedAgentBusy
PROPERTY StuckCallResolved
