\* One goroutine at a time: three jobs, two plans, one crash.
CONSTANTS
  Ticks = {t1}
  Bids = {b1}
  Requests = {r1}
  Interval = 1
  MaxActive = 1
  MaxPlans = 2
  MaxJobs = 3
  MaxTasks = 3
  MaxClock = 3
  MaxCrashes = 1
SPECIFICATION Spec
CHECK_DEADLOCK FALSE
INVARIANTS JobMatchesTask NoExtraBackups DealsRecordedAlone
PROPERTIES StatusOnlyAdvances
