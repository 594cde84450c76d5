---- MODULE MCDRWMutex ----
EXTENDS DRWMutex, TLC
\* Nothing tells one locker from another.
LockerSymmetry == Permutations(Lockers)
====
