SPECIFICATION FairSpec
CONSTANTS
  lwip_cyclic_timers <- MCCyclic
  Interval <- MCInterval
  PoolSize = 4
  LWIP_MAX_TIMEOUT = 5
  MaxLate = 2
INVARIANTS
  TypeOK InOrder ArmedOnce WhoRuns
PROPERTIES
  ChecksAll RefinesTimers TimersGoOn
