SPECIFICATION FairSpec
CONSTANTS
  Changes = {c1}
  Requests = {}
  Delay = 1
  MaxDelay = 1
  Interval = 1
  Timeout = 0
  None = None
PROPERTIES
  BurstsEnd
  NoChangeForgotten
  CloseEnds
