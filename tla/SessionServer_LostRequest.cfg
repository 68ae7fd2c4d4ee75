SPECIFICATION Spec
CONSTANTS
  c1 = c1
  c2 = c2
  NULL = NULL
  Clients <- OneClient
  MAX_CLIENTS = 1
  MAX_DEATHS = 0
PROPERTIES EveryCallReturns
CHECK_DEADLOCK FALSE
