\* Three lockers, a writer against a reader, one fault of any kind.
CONSTANTS
  Lockers = {l1, l2, l3}
  Clients = {w1, r1}
  Writers = {w1}
  MaxRetries = 0
  MaxFaults = 1
SPECIFICATION Spec
SYMMETRY LockerSymmetry
INVARIANTS TypeOK MutualExclusion NoStrayEntries
PROPERTIES IsRWLock
