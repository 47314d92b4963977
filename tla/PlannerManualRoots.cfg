SPECIFICATION Spec
CONSTANTS
  Subjects = {"planner"}
  Hostnames <- const_Hostnames
  Targets = {svc}
  Reqs = {req}
  NoHost = NoHost
  NoReq = NoReq
  NotFound = NotFound
  MaxRules = 3
  Hosts = {h1}
  Routes = {r1, r2}
  None = None
  MaxAge = 2
  Absent = Absent
  Bad = Bad
  Star = Star
  Domain <- const_Domain
  Tunnel <- const_Tunnel
  MaxContainers = 3
  MaxLabels = 3
  Limits = {0, 1, 2, 3}
  BaseDelays = {1, 2000, 4000}
  MaxDelay = 3000
  AfterGiven = {0, 100, 9000}
  Names = {n1, n2, n3}
  Wanted = {n1, n2}
  PageSize = 1
  MaxEdits = 2
  Kinds = {degraded, tripped, failure}
  Cooldown = 2
  NoKind = NoKind
PROPERTIES
  ManualRootKept
CHECK_DEADLOCK FALSE
