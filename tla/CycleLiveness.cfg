SPECIFICATION FairSpec
CONSTANTS
  Hosts = {h1, h2}
  Routes = {r1}
  None = None
  NoPlan = NoPlan
  Configs <- const_Roomy
  MaxAge = 1
  DropGrace = 1
  Faults = {"docker", "read", "restart", "ingress", "dns", "lost", "crash"}
  EditRecords = {}
  EditRoutes = {}
  RestartAllowed = TRUE
PROPERTIES
  Converges
  Quiesces
