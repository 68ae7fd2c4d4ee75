SPECIFICATION Spec
CONSTANTS
  c1 = c1
  c2 = c2
  NULL = NULL
  Clients <- TwoClients
  MAX_CLIENTS = 1
  MAX_DEATHS = 2
INVARIANTS TypeOK SessionsExclusive RepliesMatch
PROPERTIES MainKeepsServing ServedIsAnswered
CHECK_DEADLOCK FALSE
