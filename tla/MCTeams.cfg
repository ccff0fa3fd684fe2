SPECIFICATION Spec
CONSTANTS
  None = None
  NumClients = 1
  NumFactions = 3
  NumTeams = 3
  Human <- PairHuman
  FirstTeam <- PairTeam
  MaxRequests = 2
INVARIANTS
  TypeOK
  SameTeams
  KnownVotes
PROPERTIES
  Consent
CHECK_DEADLOCK FALSE
