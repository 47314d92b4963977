SPECIFICATION Spec
CONSTANTS
  Changes = {c1}
  Requests = {}
  Delay = 1
  MaxDelay = 2
  Interval = 1
  Timeout = 1
  None = None
INVARIANT
  LoopNeverWaits
