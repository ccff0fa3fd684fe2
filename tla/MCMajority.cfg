SPECIFICATION Spec
CONSTANTS
  None = None
  NumClients = 1
  NumFactions = 4
  NumTeams = 4
  Human <- TrioHuman
  FirstTeam <- TrioTeam
  MaxRequests = 1
PROPERTIES
  MajorityJoins
CHECK_DEADLOCK FALSE
