SPECIFICATION FairSpec
CONSTANTS
  Hosts = {h1}
  Routes = {r1}
  None = None
  NoPlan = NoPlan
  Configs <- const_Roomy
  MaxAge = 1
  DropGrace = 1
  Faults = {"read"}
  EditRecords = {}
  EditRoutes = {}
  RestartAllowed = FALSE
PROPERTIES
  Converges
