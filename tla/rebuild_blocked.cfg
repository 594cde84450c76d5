\* One tick, two jobs, no crash.
CONSTANTS
  Ticks = {t1}
  Requests = {}
  Objects = {o1}
  MaxBackups = 2
  MaxJobs = 2
  MaxCrashes = 0
SPECIFICATION FairSpec
CHECK_DEADLOCK FALSE
PROPERTIES RebuildsComplete
