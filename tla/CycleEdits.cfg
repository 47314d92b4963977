SPECIFICATION Spec
CONSTANTS
  Hosts = {h1}
  Routes = {r1, r2}
  None = None
  NoPlan = NoPlan
  Configs <- const_Edits
  MaxAge = 2
  DropGrace = 2
  Faults = {"docker", "read", "token", "restart", "ingress", "dns", "lost", "persist", "crash", "edit"}
  EditRecords <- const_EditRecords
  EditRoutes = {r2}
  RestartAllowed = TRUE
INVARIANTS
  SyncedIsTrue
  GraceRespected
PROPERTIES
  OwnershipRespected
  FailClosed
  TombstoneOutlivesResources
  LeasesKept
