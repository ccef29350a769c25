SPECIFICATION Spec
CONSTANTS
  N = 3
  Timeout = 30
  Interval = 5
  PktIds = {0, 1}
  NULL = NULL
INVARIANTS
  ChainIsSound
PROPERTIES
  DeadlinesKept
