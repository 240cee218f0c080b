SPECIFICATION HookSpec
CONSTANTS
  LogLimit = 3
  Period = 4
  MaxSockets = 2
  Switches = {"Switched Mode"}
INVARIANT OneLoop
INVARIANT OneConnection
INVARIANT StatusTellsConnection
INVARIANT TogglesOnRecord
INVARIANT DistinctKeys
PROPERTY PauseHalts
PROPERTY ConnectionReturns
PROPERTY ActionsReachTrail
