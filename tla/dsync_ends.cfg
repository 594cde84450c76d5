\* Three lockers, one writer, one retry, one fault of any kind.
CONSTANTS
  Lockers = {l1, l2, l3}
  Clients = {w1}
  Writers = {w1}
  MaxRetries = 1
  MaxFaults = 1
SPECIFICATION FairSpec
INVARIANTS GrantsKept
PROPERTIES OperationsEnd
