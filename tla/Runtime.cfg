SPECIFICATION Spec
CONSTANTS
  MaxToken = 3
  None = None
  Inventories = {i1, i2}
  Strained = {i2}
  Nothing = Nothing
  NoPlan = NoPlan
  Faults = {"docker", "read", "token", "restart", "write", "trip", "crash", "exit"}
INVARIANTS
  WholeSnapshot
PROPERTIES
  HealthyIsConnected
  ConnectorCatchesUp
CHECK_DEADLOCK FALSE
