SPECIFICATION Spec
CONSTANTS
  Wrap = 12
  SendInterval = 2
  RetryInterval = 4
  MaxTurn = 2
INVARIANTS
  RetriesEachSecond
