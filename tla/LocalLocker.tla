---------------------------- MODULE LocalLocker ----------------------------
(***************************************************************************)
(* The lock table of one lock server (cmd/local-locker.go), for one        *)
(* resource.  lockMap[resource] is a list of lockRequesterInfo; the model  *)
(* keeps how many of its entries carry each UID, as a function from UIDs   *)
(* to numbers.  A UID belongs to one lock operation (NewNSLock draws it),  *)
(* so it fixes the owner and whether the entry is a write or a read lock;  *)
(* entries of one UID differ in their time stamps alone, and no operation  *)
(* but expiry looks at those.                                              *)
(***************************************************************************)
EXTENDS Naturals

CONSTANTS Clients,   \* lock operations, identified by the UID they send
          Writers    \* the ones that ask for a write lock; the others read

ASSUME WritersAssumption == Writers \subseteq Clients

\* The values lockMap[resource] takes, and the one of an absent key.
Entries == [Clients -> Nat]
NoEntries == [c \in Clients |-> 0]

\* One entry, and that one a writer.
isWriteLock(lri) ==
    \E w \in Writers : lri[w] = 1 /\ \A c \in Clients \ {w} : lri[c] = 0

canTakeLock(lri) == \A c \in Clients : lri[c] = 0

canTakeUnlock(lri) == isWriteLock(lri)

\* Mutant: a writer gets in while there are readers.
GrantsBesideReaders(lri, c) == ~isWriteLock(lri)

\* What Lock (a writer) and RLock (a reader) answer.
Grants(lri, c) ==
    IF c \in Writers THEN canTakeLock(lri) ELSE ~isWriteLock(lri)

\* The entry a granted Lock or RLock leaves behind.
addEntry(lri, c) == [lri EXCEPT ![c] = @ + 1]

\* Unlock and RUnlock fail (err # nil) on an entity locked the other way.
\* Unlock also fails when there is no entry at all; RUnlock does not.
Releases(lri, c) ==
    IF c \in Writers THEN canTakeUnlock(lri) ELSE ~isWriteLock(lri)

\* Mutant: takes for granted that there is an entry.
removeEntryUnchecked(lri, c) == [lri EXCEPT ![c] = @ - 1]

\* Drops the first entry of the UID; nothing happens when there is none.
removeEntry(lri, c) == IF lri[c] > 0 THEN [lri EXCEPT ![c] = @ - 1] ELSE lri

\* What Refresh answers.
Refreshed(lri, c) == lri[c] > 0

============================================================================
