SPECIFICATION FairSpec
CONSTANTS
  Hosts = {h1}
  Routes = {r1}
  None = None
  NoPlan = NoPlan
  Configs <- const_Roomy
  MaxAge = 1
  DropGrace = 1
  Faults = {"ingress"}
  EditRecords = {}
  EditRoutes = {}
  RestartAllowed = TRUE
PROPERTIES
  RoutesConverge
