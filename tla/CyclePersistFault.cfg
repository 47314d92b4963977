SPECIFICATION Spec
CONSTANTS
  Hosts = {h1}
  Routes = {r1}
  None = None
  NoPlan = NoPlan
  Configs <- const_Persisted
  MaxAge = 2
  DropGrace = 2
  Faults = {"persist"}
  EditRecords = {}
  EditRoutes = {}
  RestartAllowed = TRUE
INVARIANTS
  GraceRespected
