SPECIFICATION Spec
CONSTANTS
  Changes = {c1, c2}
  Requests = {q1}
  Delay = 1
  MaxDelay = 2
  Interval = 2
  Timeout = 1
  None = None
SYMMETRY ChangeSymmetry
INVARIANTS
  TypeOK
  NoLostWakeup
  CloseLeavesNothing
PROPERTIES
  SignalsKept
