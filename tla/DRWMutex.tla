----------------------------- MODULE DRWMutex -----------------------------
(***************************************************************************)
(* The distributed read/write lock of internal/dsync/drwmutex.go, on one   *)
(* resource, with the lock servers of cmd/local-locker.go behind the REST  *)
(* calls of cmd/lock-rest-{client,server}.go.                              *)
(*                                                                         *)
(* A client is one lock operation: it calls lockBlocking, which repeats    *)
(* lock() under the SAME UID until it gets a quorum or its deadline        *)
(* passes; while it holds the lock it refreshes it; then it calls Unlock   *)
(* (or RUnlock), which repeats releaseAll until enough lockers agreed.     *)
(* Calls are asynchronous: a lock request, its answer and a release can    *)
(* each be overtaken by the caller's timeout, so answers of an attempt     *)
(* that was given up meet the requests of the next one.                    *)
(*                                                                         *)
(* Time is left out: a timeout may strike at any moment, and an entry that *)
(* a live holder refreshes may still expire, when its refreshes are late.  *)
(***************************************************************************)
EXTENDS LocalLocker, FiniteSets

CONSTANTS Lockers,       \* the lock servers of the erasure set
          MaxRetries,    \* bound: lock() calls after the first of a lockBlocking, in all
          MaxFaults      \* bound: failed calls, lost entries and crashes

ASSUME LockersAssumption == IsFiniteSet(Lockers)
ASSUME BoundsAssumption == MaxRetries \in Nat /\ MaxFaults \in Nat

VARIABLES
    lockMap,    \* lockMap[l]: the entries at locker l
    phase,      \* where the client is in lockBlocking / Unlock
    attempt,    \* how many times lockBlocking has called lock()
    rpc,        \* rpc[c][a][l]: the call of attempt a to locker l
    locksFailed,  \* refusals and timeouts counted by lock()'s loop
    lateRel,    \* lateRel[c][l]: releases the client no longer waits for
    round,      \* the refresh round in progress
    lost,       \* lost[c]: lockers that dropped an entry of c unasked
    retries,    \* how many attempts were retries
    faults      \* how many faults have happened

vars == <<lockMap, phase, attempt, rpc, locksFailed, lateRel, round, lost, retries, faults>>

Attempts == 1..(MaxRetries + 1)

Phases == {"idle", "locking", "releasing", "backoff", "locked", "cancelled",
           "unlocking", "done", "crashed"}

(* A call is sent; it is answered, and the answer waits in the channel ch: *)
(* granted or denied; lock()'s loop reads it: locked, or over.  Releasing  *)
(* is a sendRelease of releaseAll that has not returned, relerr one that   *)
(* returned false; draining is the sendRelease of an answer nobody read.   *)
CallStates == {"sent", "granted", "denied", "locked", "releasing", "relerr",
               "draining", "over"}

NoCalls == [l \in Lockers |-> "over"]
NoRound == [on |-> FALSE, waiting |-> {}, ok |-> 0, failed |-> 0]

Init ==
    /\ lockMap = [l \in Lockers |-> NoEntries]
    /\ phase = [c \in Clients |-> "idle"]
    /\ attempt = [c \in Clients |-> 0]
    /\ rpc = [c \in Clients |-> [a \in Attempts |-> NoCalls]]
    /\ locksFailed = [c \in Clients |-> 0]
    /\ lateRel = [c \in Clients |-> [l \in Lockers |-> 0]]
    /\ round = [c \in Clients |-> NoRound]
    /\ lost = [c \in Clients |-> {}]
    /\ retries = 0
    /\ faults = 0

----------------------------------------------------------------------------
(* Quorum arithmetic: lockBlocking, checkFailedUnlocks.                    *)

N == Cardinality(Lockers)

Half == N \div 2

\* Mutant: half of the lockers, rounded down, is a quorum.
QuorumHalf(c) == Half

Quorum(c) ==
    IF c \in Writers /\ N - Half = Half THEN (N - Half) + 1 ELSE N - Half

Tolerance(c) == N - Quorum(c)

\* Mutant: the comparison of the even case, for an odd number too.
checkFailedUnlocksStrict(unlocksFailed) == unlocksFailed >= Half

\* len(locks) - tolerance = tolerance is the split-brain case.
checkFailedUnlocks(unlocksFailed) ==
    IF N - Half = Half THEN unlocksFailed >= Half ELSE unlocksFailed > Half

Calls(c) == rpc[c][attempt[c]]
In(c, st) == {l \in Lockers : attempt[c] > 0 /\ Calls(c)[l] = st}

\* The lockers in the locks array of the attempt.
locks(c) == In(c, "locked")

\* The loop of lock(): n iterations, or too many failures.
LoopOver(c) ==
    \/ Cardinality(locks(c)) + locksFailed[c] >= N
    \/ locksFailed[c] > Tolerance(c)

quorumLocked(c) ==
    /\ Cardinality(locks(c)) >= Quorum(c)
    /\ locksFailed[c] <= Tolerance(c)

\* The calls of attempt a with every call in state st moved to state to.
Move(calls, st, to) ==
    [l \in Lockers |-> IF calls[l] = st THEN to ELSE calls[l]]

SetCalls(c, calls) == rpc' = [rpc EXCEPT ![c][attempt[c]] = calls]
SetCall(c, a, l, st) == rpc' = [rpc EXCEPT ![c][a][l] = st]

Fault == faults < MaxFaults /\ faults' = faults + 1

----------------------------------------------------------------------------
(* lockBlocking and lock: one attempt.                                     *)

\* lock(): the locks array is cleared and every locker is asked.
BeginAttempt(c) ==
    /\ \/ phase[c] = "idle" /\ UNCHANGED retries
       \/ /\ phase[c] = "backoff"
          /\ retries < MaxRetries
          /\ retries' = retries + 1
    /\ phase' = [phase EXCEPT ![c] = "locking"]
    /\ attempt' = [attempt EXCEPT ![c] = @ + 1]
    /\ rpc' = [rpc EXCEPT ![c][attempt[c] + 1] = [l \in Lockers |-> "sent"]]
    /\ UNCHANGED <<lockMap, locksFailed, lateRel, round, lost, faults>>

\* The deadline of lockBlocking passed: return false.
GiveUp(c) ==
    /\ phase[c] \in {"idle", "backoff"}
    /\ phase' = [phase EXCEPT ![c] = "done"]
    /\ UNCHANGED <<lockMap, attempt, rpc, locksFailed, lateRel, round, lost, retries, faults>>

\* An answer without a grant counts only while lock() collects answers.
Refusal(c, a) == IF a = attempt[c] /\ phase[c] = "locking" THEN "denied" ELSE "over"

\* A locker handles a lock request and its answer reaches the caller.
HandleLock(c, a, l) ==
    /\ rpc[c][a][l] = "sent"
    /\ \/ /\ Grants(lockMap[l], c)
          /\ lockMap' = [lockMap EXCEPT ![l] = addEntry(@, c)]
          /\ SetCall(c, a, l, "granted")
       \/ /\ ~Grants(lockMap[l], c)
          /\ SetCall(c, a, l, Refusal(c, a))
          /\ UNCHANGED lockMap
    /\ UNCHANGED <<phase, attempt, locksFailed, lateRel, round, lost, retries, faults>>

\* The locker is offline (or nil): the call fails and leaves no entry.
LockCallFails(c, a, l) ==
    /\ rpc[c][a][l] = "sent"
    /\ Fault
    /\ SetCall(c, a, l, Refusal(c, a))
    /\ UNCHANGED <<lockMap, phase, attempt, locksFailed, lateRel, round, lost, retries>>

\* The locker granted the lock, the answer got lost: the caller sees an
\* error and will not release the entry.
LockAnswerLost(c, a, l) ==
    /\ rpc[c][a][l] = "sent"
    /\ Grants(lockMap[l], c)
    /\ Fault
    /\ lockMap' = [lockMap EXCEPT ![l] = addEntry(@, c)]
    /\ SetCall(c, a, l, Refusal(c, a))
    /\ UNCHANGED <<phase, attempt, locksFailed, lateRel, round, lost, retries>>

\* One iteration of lock()'s loop: an answer from ch, or ctx.Done().
CollectAnswer(c, l) ==
    /\ phase[c] = "locking"
    /\ ~LoopOver(c)
    /\ \/ /\ Calls(c)[l] = "granted"
          /\ SetCall(c, attempt[c], l, "locked")
          /\ UNCHANGED locksFailed
       \/ /\ Calls(c)[l] = "denied"
          /\ SetCall(c, attempt[c], l, "over")
          /\ locksFailed' = [locksFailed EXCEPT ![c] = @ + 1]
    /\ UNCHANGED <<lockMap, phase, attempt, lateRel, round, lost, retries, faults>>

CollectTimeout(c) ==
    /\ phase[c] = "locking"
    /\ ~LoopOver(c)
    /\ locksFailed' = [locksFailed EXCEPT ![c] = @ + 1]
    /\ UNCHANGED <<lockMap, phase, attempt, rpc, lateRel, round, lost, retries, faults>>

\* The loop has ended: the lock is held, or releaseAll is called.
LockReturns(c) ==
    /\ phase[c] = "locking"
    /\ LoopOver(c)
    /\ \/ /\ quorumLocked(c)
          /\ phase' = [phase EXCEPT ![c] = "locked"]
          /\ SetCalls(c, Move(Calls(c), "denied", "over"))
       \/ /\ ~quorumLocked(c)
          /\ phase' = [phase EXCEPT ![c] = "releasing"]
          /\ SetCalls(c, Move(Move(Calls(c), "denied", "over"), "locked", "releasing"))
    /\ locksFailed' = [locksFailed EXCEPT ![c] = 0]
    /\ UNCHANGED <<lockMap, attempt, lateRel, round, lost, retries, faults>>

\* wg.Wait() of releaseAll is over.  Its result is only logged here; the
\* entries it could not release stay behind.
AbandonReturns(c) ==
    /\ phase[c] = "releasing"
    /\ In(c, "releasing") = {}
    /\ phase' = [phase EXCEPT ![c] = "backoff"]
    /\ UNCHANGED <<lockMap, attempt, rpc, locksFailed, lateRel, round, lost, retries, faults>>

\* Attempt a has returned from lock() and its goroutine may drain ch.
Returned(c, a) ==
    \/ a < attempt[c] /\ phase[c] # "crashed"
    \/ a = attempt[c] /\ phase[c] \notin {"locking", "releasing", "crashed"}

\* Mutant: releases without waiting for the answers that are missing.
DrainGrantEarly(c, a, l) ==
    /\ Returned(c, a)
    /\ rpc[c][a][l] \in {"sent", "granted"}
    /\ SetCall(c, a, l, "draining")
    /\ UNCHANGED <<lockMap, phase, attempt, locksFailed, lateRel, round, lost, retries, faults>>

\* Mutant: forgets the late grant without releasing it.
DrainGrantForgets(c, a, l) ==
    /\ Returned(c, a)
    /\ rpc[c][a][l] = "granted"
    /\ SetCall(c, a, l, "over")
    /\ UNCHANGED <<lockMap, phase, attempt, locksFailed, lateRel, round, lost, retries, faults>>

\* The grants nobody read are released one after the other, once every call
\* of the attempt has been answered.
DrainGrant(c, a, l) ==
    /\ Returned(c, a)
    /\ rpc[c][a][l] = "granted"
    /\ \A m \in Lockers : rpc[c][a][m] \notin {"sent", "draining"}
    /\ SetCall(c, a, l, "draining")
    /\ UNCHANGED <<lockMap, phase, attempt, locksFailed, lateRel, round, lost, retries, faults>>

----------------------------------------------------------------------------
(* sendRelease: by releaseAll or for a drained grant.  The result of the   *)
(* latter is ignored.                                                      *)

ReleaseReturns(c, a, l, ok) ==
    /\ rpc[c][a][l] \in {"releasing", "draining"}
    /\ SetCall(c, a, l, IF rpc[c][a][l] = "releasing" /\ ~ok THEN "relerr" ELSE "over")

\* A locker handles a release and its answer reaches the caller.
HandleRelease(c, a, l) ==
    /\ \/ /\ Releases(lockMap[l], c)
          /\ lockMap' = [lockMap EXCEPT ![l] = removeEntry(@, c)]
          /\ ReleaseReturns(c, a, l, TRUE)
       \/ /\ ~Releases(lockMap[l], c)
          /\ UNCHANGED lockMap
          /\ ReleaseReturns(c, a, l, FALSE)
    /\ UNCHANGED <<phase, attempt, locksFailed, lateRel, round, lost, retries, faults>>

\* The locker is offline: the call fails and the entry stays.
ReleaseCallFails(c, a, l) ==
    /\ ReleaseReturns(c, a, l, FALSE)
    /\ Fault
    /\ UNCHANGED <<lockMap, phase, attempt, locksFailed, lateRel, round, lost, retries>>

\* The call timed out at the caller; the locker may handle it later.
ReleaseTimesOut(c, a, l) ==
    /\ ReleaseReturns(c, a, l, FALSE)
    /\ Fault
    /\ lateRel' = [lateRel EXCEPT ![c][l] = @ + 1]
    /\ UNCHANGED <<lockMap, phase, attempt, locksFailed, round, lost, retries>>

HandleLateRelease(c, l) ==
    /\ lateRel[c][l] > 0
    /\ lateRel' = [lateRel EXCEPT ![c][l] = @ - 1]
    /\ \/ /\ Releases(lockMap[l], c)
          /\ lockMap' = [lockMap EXCEPT ![l] = removeEntry(@, c)]
       \/ ~Releases(lockMap[l], c) /\ UNCHANGED lockMap
    /\ UNCHANGED <<phase, attempt, rpc, locksFailed, round, lost, retries, faults>>

----------------------------------------------------------------------------
(* Refreshing a held lock.                                                 *)

RefreshBegins(c) ==
    /\ phase[c] = "locked"
    /\ ~round[c].on
    /\ round' = [round EXCEPT ![c] =
                   [on |-> TRUE, waiting |-> Lockers, ok |-> 0, failed |-> 0]]
    /\ UNCHANGED <<lockMap, phase, attempt, rpc, locksFailed, lateRel, lost, retries, faults>>

\* refresh(): every answer is in, or refreshFailed > quorum.
RoundOver(c) == round[c].waiting = {} \/ round[c].failed > Quorum(c)

\* The round without locker l, which added to one of the counts or to none.
Counted(c, l, ok, failed) ==
    [on |-> TRUE, waiting |-> round[c].waiting \ {l},
     ok |-> round[c].ok + ok, failed |-> round[c].failed + failed]

\* A locker refreshes its entry or says that it has none.
RefreshAnswered(c, l) ==
    /\ round[c].on
    /\ ~RoundOver(c)
    /\ l \in round[c].waiting
    /\ round' = [round EXCEPT ![c] =
                   IF Refreshed(lockMap[l], c) THEN Counted(c, l, 1, 0)
                   ELSE Counted(c, l, 0, 1)]
    /\ UNCHANGED <<lockMap, phase, attempt, rpc, locksFailed, lateRel, lost, retries, faults>>

\* The locker is offline or does not answer in time: not counted at all.
RefreshCallFails(c, l) ==
    /\ round[c].on
    /\ ~RoundOver(c)
    /\ l \in round[c].waiting
    /\ Fault
    /\ round' = [round EXCEPT ![c] = Counted(c, l, 0, 0)]
    /\ UNCHANGED <<lockMap, phase, attempt, rpc, locksFailed, lateRel, lost, retries>>

refreshQuorum(c) == round[c].ok >= Quorum(c) \/ round[c].failed < Quorum(c)

\* Without refreshQuorum the operation's context is cancelled
\* (lockLossCallback) and the refresh goroutine ends.
RefreshReturns(c) ==
    /\ round[c].on
    /\ RoundOver(c)
    /\ round' = [round EXCEPT ![c] = NoRound]
    /\ phase' = [phase EXCEPT ![c] =
                   IF refreshQuorum(c) THEN "locked" ELSE "cancelled"]
    /\ UNCHANGED <<lockMap, attempt, rpc, locksFailed, lateRel, lost, retries, faults>>

----------------------------------------------------------------------------
(* Unlock and RUnlock.                                                     *)

Unlock(c) ==
    /\ phase[c] \in {"locked", "cancelled"}
    /\ phase' = [phase EXCEPT ![c] = "unlocking"]
    /\ round' = [round EXCEPT ![c] = NoRound]
    /\ SetCalls(c, Move(Calls(c), "locked", "releasing"))
    /\ UNCHANGED <<lockMap, attempt, locksFailed, lateRel, lost, retries, faults>>

\* One releaseAll of Unlock's loop has ended: return, or call it again for
\* the lockers still in the locks array.
UnlockRound(c) ==
    /\ phase[c] = "unlocking"
    /\ In(c, "releasing") = {}
    /\ \/ /\ checkFailedUnlocks(Cardinality(In(c, "relerr")))
          /\ SetCalls(c, Move(Calls(c), "relerr", "releasing"))
          /\ UNCHANGED phase
       \/ /\ ~checkFailedUnlocks(Cardinality(In(c, "relerr")))
          /\ phase' = [phase EXCEPT ![c] = "done"]
          /\ SetCalls(c, Move(Calls(c), "relerr", "over"))
    /\ UNCHANGED <<lockMap, attempt, locksFailed, lateRel, round, lost, retries, faults>>

----------------------------------------------------------------------------
(* What removes entries unasked, and crashes.                              *)

Live(c) == phase[c] \notin {"done", "crashed"}

\* Locker l keeps `kept` of its entries.
Drop(l, kept) ==
    /\ lockMap' = [lockMap EXCEPT ![l] = kept]
    /\ lost' = [c \in Clients |->
                  IF Live(c) /\ kept[c] < lockMap[l][c]
                  THEN lost[c] \cup {l} ELSE lost[c]]

\* lockMaintenance discards an entry nobody refreshed for 20 seconds: its
\* operation is over, or its refreshes did not get through.  The entry of
\* an attempt in progress is too young: lock() collects for one second.
Expire(c, l) ==
    /\ lockMap[l][c] > IF phase[c] = "locking" /\ Calls(c)[l] \in {"granted", "locked"}
                       THEN 1 ELSE 0
    /\ Drop(l, removeEntry(lockMap[l], c))
    /\ IF Live(c) THEN Fault ELSE UNCHANGED faults
    /\ UNCHANGED <<phase, attempt, rpc, locksFailed, lateRel, round, retries>>

\* The server process restarts with an empty lock table (newLocker), or an
\* administrator force-unlocks the resource.
LockerForgets(l) ==
    /\ lockMap[l] # NoEntries
    /\ Fault
    /\ Drop(l, NoEntries)
    /\ UNCHANGED <<phase, attempt, rpc, locksFailed, lateRel, round, retries>>

\* The process of a client dies, and what its goroutines knew with it; the
\* requests it has sent are still under way.
ClientCrashes(c) ==
    /\ Live(c) /\ phase[c] # "idle"
    /\ Fault
    /\ phase' = [phase EXCEPT ![c] = "crashed"]
    /\ round' = [round EXCEPT ![c] = NoRound]
    /\ locksFailed' = [locksFailed EXCEPT ![c] = 0]
    /\ rpc' = [rpc EXCEPT ![c] = [a \in Attempts |-> [l \in Lockers |->
                 IF rpc[c][a][l] \in {"sent", "releasing", "draining"}
                 THEN rpc[c][a][l] ELSE "over"]]]
    /\ UNCHANGED <<lockMap, attempt, lateRel, lost, retries>>

----------------------------------------------------------------------------

\* The goroutine that called lockBlocking and Unlock.
CallerStep(c) ==
    \/ BeginAttempt(c) \/ GiveUp(c)
    \/ CollectTimeout(c) \/ \E l \in Lockers : CollectAnswer(c, l)
    \/ LockReturns(c) \/ AbandonReturns(c)
    \/ Unlock(c) \/ UnlockRound(c)

\* The goroutines that drain the answers of an attempt.
DrainStep(c) == \E a \in Attempts, l \in Lockers : DrainGrant(c, a, l)

\* The refresh goroutine and the answers it gets.
RefreshStep(c) ==
    RefreshBegins(c) \/ RefreshReturns(c) \/ \E l \in Lockers : RefreshAnswered(c, l)

\* The lockers' handlers.
ServerStep(c) ==
    \E l \in Lockers :
       \/ HandleLateRelease(c, l)
       \/ \E a \in Attempts : HandleLock(c, a, l) \/ HandleRelease(c, a, l)

CallFault(c) ==
    \E l \in Lockers :
       \/ RefreshCallFails(c, l)
       \/ \E a \in Attempts :
            \/ LockCallFails(c, a, l) \/ LockAnswerLost(c, a, l)
            \/ ReleaseCallFails(c, a, l) \/ ReleaseTimesOut(c, a, l)

\* Every operation is over; what is still under way is optional.
Quiet ==
    /\ \A c \in Clients : ~Live(c)
    /\ UNCHANGED vars

Next ==
    \/ \E c \in Clients :
          \/ CallerStep(c) \/ DrainStep(c) \/ RefreshStep(c) \/ ServerStep(c)
          \/ CallFault(c) \/ ClientCrashes(c)
          \/ \E l \in Lockers : Expire(c, l)
    \/ \E l \in Lockers : LockerForgets(l)
    \/ Quiet

Spec == Init /\ [][Next]_vars

(* Goroutines get to run, calls get answered (or time out), a holder       *)
(* finishes its operation, and lockMaintenance visits unrefreshed entries. *)
Fairness ==
    \A c \in Clients :
       /\ WF_vars(CallerStep(c)) /\ WF_vars(DrainStep(c)) /\ WF_vars(ServerStep(c))
       /\ WF_vars(RefreshReturns(c))
       /\ WF_vars(~Live(c) /\ \E l \in Lockers : Expire(c, l))

FairSpec == Spec /\ Fairness

----------------------------------------------------------------------------
(* Properties.                                                             *)

\* Calls whose entry the client still has to release (or to hold).
OwedStates == {"granted", "locked", "releasing", "draining"}
Owing(c, l) == {a \in Attempts : rpc[c][a][l] \in OwedStates}
Owed(c, l) == Cardinality(Owing(c, l)) + lateRel[c][l]

(* Every variable has its type: entry counts, phases, call states, and at  *)
(* most one timed-out iteration per locker in a lock() loop.               *)
TypeOK ==
    /\ lockMap \in [Lockers -> Entries]
    /\ phase \in [Clients -> Phases]
    /\ retries \in 0..MaxRetries
    /\ attempt \in [Clients -> 0..(retries + 1)]
    /\ rpc \in [Clients -> [Attempts -> [Lockers -> CallStates]]]
    /\ locksFailed \in [Clients -> 0..N]
    /\ lateRel \in [Clients -> [Lockers -> Nat]]
    /\ round \in [Clients -> [on : BOOLEAN, waiting : SUBSET Lockers,
                              ok : 0..N, failed : 0..N]]
    /\ lost \in [Clients -> SUBSET Lockers]
    /\ faults \in 0..MaxFaults

Conflict(c, d) == c # d /\ (c \in Writers \/ d \in Writers)

(* Two conflicting operations that both believe to hold the lock share a   *)
(* locker that granted it to both, and that locker dropped an entry of one *)
(* of them unasked (expiry, restart, force-unlock).  In particular, lost   *)
(* or late answers, timed-out attempts and retries under the same UID      *)
(* never break the mutual exclusion of DRWMutex.                           *)
MutualExclusion ==
    \A c, d \in Clients :
       Conflict(c, d) /\ phase[c] = "locked" /\ phase[d] = "locked"
       => \E l \in locks(c) \cap locks(d) : l \in lost[c] \cup lost[d]

(* Until it is unlocked, an operation has an entry at a locker for every   *)
(* grant it still counts on or has yet to give back: the late release of a *)
(* grant of an earlier attempt never takes the entry of the current one    *)
(* away, although both carry the same UID.                                 *)
GrantsKept ==
    \A c \in Clients, l \in Lockers :
       phase[c] \notin {"unlocking", "done", "crashed"} /\ l \notin lost[c]
       => lockMap[l][c] >= Owed(c, l)

(* As long as no call failed, every entry at a locker is one its client    *)
(* will still release: abandoned attempts, timeouts and answers that come  *)
(* after lock() has returned leave no stray entry behind.                  *)
NoStrayEntries ==
    faults = 0 => \A c \in Clients, l \in Lockers : lockMap[l][c] <= Owed(c, l)

(* What RWLock promises holds of DRWMutex: no operation acquires the lock  *)
(* while one that conflicts holds it, unless a lock server has dropped an  *)
(* entry of either, and whatever happens to calls and lockers, a lock that *)
(* ended is never held again under the same UID.                           *)
lockState == [c \in Clients |->
    CASE phase[c] = "locked" -> "held"
      [] phase[c] \in {"idle", "locking", "releasing", "backoff"} -> "waiting"
      [] OTHER -> "ended"]
Broken == {c \in Clients : lost[c] # {}}
RW == INSTANCE RWLock WITH state <- lockState, broken <- Broken
IsRWLock == RW!Spec

(* Whatever single fault happens, every operation comes to its end and in  *)
(* the end no locker keeps an entry of it: Unlock's loop returns, late     *)
(* grants are given back and what was leaked expires.                      *)
OperationsEnd ==
    \A c \in Clients : <>[](~Live(c) /\ \A l \in Lockers : lockMap[l][c] = 0)


(* "Refresh lock continuously and cancel if there is no quorum in the lock *)
(* anymore" (drwmutex.go:207): a refresh round that every locker answered, *)
(* fewer than a quorum of them with an entry, does not leave the operation *)
(* holding the lock.                                                       *)
RefreshCancelsWithoutQuorum ==
    [][\A c \in Clients :
         /\ round[c].on /\ ~round'[c].on
         /\ round[c].ok + round[c].failed = N
         /\ round[c].ok < Quorum(c)
         => phase'[c] # "locked"]_vars

(* "Unlock - block until write lock is released" (namespace-lock.go:180):  *)
(* once no locker has an entry of the operation any more, its Unlock       *)
(* returns.                                                                *)
UnlockReturnsOnceReleased ==
    \A c \in Clients :
       phase[c] = "unlocking" /\ (\A l \in Lockers : lockMap[l][c] = 0) ~> ~Live(c)

============================================================================
