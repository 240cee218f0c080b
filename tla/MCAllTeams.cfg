SPECIFICATION Spec
CONSTANTS
  NumAgents = 4
  Team <- TwoTeams
  Statuses = {"AVAILABLE", "CONNECTED"}
  Searches <- AllOrOne
  PageSizes = {1, 3}
  FirstPageSize = 1
  Columns <- FixedColumns
INVARIANT AllTeamsListed
