\* Two backup ticks, an autobid tick, no crash.
CONSTANTS
  Ticks = {t1, t2}
  Bids = {b1}
  Requests = {}
  Interval = 1
  MaxActive = 3
  MaxPlans = 2
  MaxJobs = 2
  MaxTasks = 2
  MaxClock = 3
  MaxCrashes = 0
SPECIFICATION Spec
CHECK_DEADLOCK FALSE
SYMMETRY TickSymmetry
INVARIANTS DealsRecorded
