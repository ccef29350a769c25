SPECIFICATION FairSpec
CONSTANTS
  Pcbs = {p1, p2}
  NULL = NULL
  SndBufMsgs = 1
  NetCap = 1
  MaxInFlight = 1
  RingMsgs = 1
  KeepTicks = 1
  WatchdogTicks = 1
  ConnectTicks = 2
  FinCanFail = FALSE
INVARIANTS
  CallbacksOnlyFromConn ConnectIsFirst OwnStream
PROPERTIES
  ContractKept GetsSubscribed
