SPECIFICATION LiveSpec
CONSTANTS
  Callers = {r1, r2}
  FailureThreshold = 3000
  ConsecutiveFailureThreshold = 5
  TimelyReplies = TRUE
  ProbesMayRaise = FALSE
INVARIANT ProbeAlone
PROPERTY FailedProbeReopens
PROPERTY OutageEnds
