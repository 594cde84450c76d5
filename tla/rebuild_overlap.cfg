\* Two overlapping ticks and a request, two rebuild jobs, one crash.
CONSTANTS
  Ticks = {t1, t2}
  Requests = {r1}
  Objects = {o1}
  MaxBackups = 1
  MaxJobs = 2
  MaxCrashes = 1
SPECIFICATION FairSpec
CHECK_DEADLOCK FALSE
INVARIANTS TypeOK NothingLost CompletedWasRebuilt VolumeBack
PROPERTIES RebuildsCompleteInOrder
