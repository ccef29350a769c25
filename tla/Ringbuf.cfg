SPECIFICATION Spec
CONSTANTS
  Size = 5
  Byte = {0, 1}
  MaxMsg = 4
  MaxSndBuf = 5
  PendingCap = 7
INVARIANTS
  TypeOK Fifo
