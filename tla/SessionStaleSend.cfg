SPECIFICATION Spec
CONSTANTS
  Pcbs = {p1, p2}
  NULL = NULL
  SndBufMsgs = 1
  NetCap = 1
  MaxInFlight = 2
  RingMsgs = 2
  KeepTicks = 1
  WatchdogTicks = 1
  ConnectTicks = 2
  FinCanFail = TRUE
SYMMETRY PcbSymmetry
INVARIANTS
  OwnStream
