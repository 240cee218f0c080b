SPECIFICATION Spec
CONSTANTS
  Agents = {a1}
  Borrowers = {}
  Tasks = {}
  Calls = {c1}
  Ingesters = {i1, i2}
  Null = Null
  Reports = {"completed"}
  Suppressed = {}
  MaxAttempts = 0
  Bound = {c1}
  Leased = {}
  Arriving = {"RINGING", "ANSWERED", "COMPLETED"}
PROPERTY TerminalStable
