SPECIFICATION FairSpec
CONSTANTS
  Pcbs = {p1}
  NULL = NULL
  SndBufMsgs = 1
  NetCap = 1
  MaxInFlight = 2
  RingMsgs = 2
  KeepTicks = 2
  WatchdogTicks = 3
  ConnectTicks = 2
  FinCanFail = TRUE
INVARIANTS
  TypeOK ConnMatchesState TimerMatchesState NoPcbLeak
PROPERTIES
  Redials KeepsTrying SilenceNoticed
