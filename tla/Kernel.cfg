SPECIFICATION Spec
CONSTANTS
  AppTasks <- MCAppTasks
  Delay <- MCDelay
  portMAX_DELAY = 4
  MaxPended = 2
  Timeout = 26
  MaxHits = 1
INVARIANTS
  OneList HighestRuns WatchdogFed
PROPERTIES
  RefinesDelays TakesTurns
