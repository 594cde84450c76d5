\* Three requests of the user, at most two buckets with an object and a folder each.
CONSTANTS
  MaxSent = 3
  MaxUnderWay = 1
  MaxBuckets = 2
  Objects <- SomeObjects
  FileNames = {"x"}
  FileSizes = {0, 1, 2}
  Paths <- SomePaths
  Times <- SomeTimes
  Within <- SomeWithin
  SortOrders = {FALSE}
  PolicyPrefixes = {"", "*"}
  Policies = {"readonly", "readwrite"}
  Locations = {"Asia", "Africa"}
  Miners <- SomeMiners
  PageSize = 2
  Durations = {1}
SPECIFICATION Spec
CHECK_DEADLOCK FALSE
INVARIANTS TableIsCurrent HeaderIsPath ActsOnPicked LinkIsChosen PoliciesOfTitle DealsOfWhatIsOpen DealsAsWanted ProvidersInOrder UploadBarCloses
