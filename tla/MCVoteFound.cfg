SPECIFICATION Spec
CONSTANTS
  None = None
  NumClients = 1
  NumFactions = 3
  NumTeams = 3
  Human <- PairHuman
  FirstTeam <- PairTeam
  MaxRequests = 2
INVARIANTS
  VoteFound
CHECK_DEADLOCK FALSE
