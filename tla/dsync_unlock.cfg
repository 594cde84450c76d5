\* Four lockers, one writer; two lockers forget the lock.
CONSTANTS
  Lockers = {l1, l2, l3, l4}
  Clients = {w1}
  Writers = {w1}
  MaxRetries = 0
  MaxFaults = 2
SPECIFICATION FairSpec
PROPERTIES UnlockReturnsOnceReleased
