SPECIFICATION Spec
CONSTANTS
  Hosts = {h1, h2}
  Routes = {r1}
  None = None
  NoPlan = NoPlan
  Configs <- const_Faults
  MaxAge = 2
  DropGrace = 2
  Faults = {"docker", "read", "token", "restart", "ingress", "dns", "lost"}
  EditRecords = {}
  EditRoutes = {}
  RestartAllowed = TRUE
SYMMETRY HostSymmetry
INVARIANTS
  TypeOK
  GraceRespected
  SyncedIsTrue
PROPERTIES
  FailClosed
  BlastRadiusRespected
  TombstoneOutlivesResources
  LeasesKept
