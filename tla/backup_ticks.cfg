\* Two backup ticks, an autobid tick and a request, at most two at a time;
\* two plans, one crash.
CONSTANTS
  Ticks = {t1, t2}
  Bids = {b1}
  Requests = {r1}
  Interval = 1
  MaxActive = 2
  MaxPlans = 2
  MaxJobs = 2
  MaxTasks = 2
  MaxClock = 2
  MaxCrashes = 1
SPECIFICATION Spec
CHECK_DEADLOCK FALSE
SYMMETRY TickSymmetry
INVARIANTS TypeOK UniqueUuid CompletedIsActive
