\* One request of the user, who has sorted the table of objects downwards.
CONSTANTS
  MaxSent = 1
  MaxUnderWay = 1
  MaxBuckets = 2
  Objects <- SomeObjects
  FileNames = {"x"}
  FileSizes = {0, 1, 2}
  Paths <- SomePaths
  Times <- SomeTimes
  Within <- SomeWithin
  SortOrders = {TRUE}
  PolicyPrefixes = {"", "*"}
  Policies = {"readonly", "readwrite"}
  Locations = {"Asia", "Africa"}
  Miners <- SomeMiners
  PageSize = 2
  Durations = {1}
SPECIFICATION Spec
CHECK_DEADLOCK FALSE
INVARIANTS DeletesItsRow
