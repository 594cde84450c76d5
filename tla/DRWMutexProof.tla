--------------------------- MODULE DRWMutexProof ---------------------------
(***************************************************************************)
(* Proofs about DRWMutex, for any number of lockers, clients, retries and  *)
(* faults.                                                                 *)
(***************************************************************************)
EXTENDS DRWMutex, FiniteSetTheorems, TLAPS

----------------------------------------------------------------------------
(* The parts of the inductive invariant.                                   *)

\* An operation starts with attempt 1, and attempts not begun have no calls.
AttemptsInOrder ==
    \A c \in Clients :
       /\ phase[c] = "idle" => attempt[c] = 0
       /\ phase[c] \notin {"idle", "done"} => attempt[c] >= 1
       /\ \A a \in Attempts, l \in Lockers :
            a > attempt[c] => rpc[c][a][l] = "over"

\* A refresh round counts each locker once, and runs while the lock is held.
RoundsCounted ==
    \A c \in Clients :
       /\ round[c].ok + round[c].failed + Cardinality(round[c].waiting) <= N
       /\ round[c].on => phase[c] = "locked"

Basic == TypeOK /\ AttemptsInOrder /\ RoundsCounted

----------------------------------------------------------------------------
(* Arithmetic.                                                             *)

LEMMA NNat == N \in Nat /\ Half \in Nat /\ 2 * Half <= N /\ N <= 2 * Half + 1
<1>1. N \in Nat
  BY LockersAssumption, FS_CardinalityType DEF N
<1>2. QED
  BY <1>1 DEF Half

LEMMA QuorumNat ==
  ASSUME NEW c \in Clients
  PROVE  Quorum(c) \in Nat /\ Tolerance(c) \in Int
BY NNat DEF Quorum, Tolerance

\* The quorums of two conflicting operations add up to more than N.
LEMMA QuorumSum ==
  ASSUME NEW c \in Clients, NEW d \in Clients, Conflict(c, d)
  PROVE  Quorum(c) + Quorum(d) > N
BY NNat DEF Quorum, Conflict

LEMMA AttemptsFinite ==
  /\ IsFiniteSet(Attempts)
  /\ \A S \in SUBSET Attempts : IsFiniteSet(S) /\ Cardinality(S) \in Nat
<1>1. IsFiniteSet(Attempts)
  BY BoundsAssumption, FS_Interval DEF Attempts
<1>2. QED
  BY <1>1, FS_Subset, FS_CardinalityType

LEMMA LockersFinite ==
  \A S \in SUBSET Lockers : IsFiniteSet(S) /\ Cardinality(S) \in Nat /\ Cardinality(S) <= N
BY LockersAssumption, FS_Subset, FS_CardinalityType DEF N

\* Sets of lockers that add up to more than N have a locker in common.
LEMMA QuorumsMeet ==
  ASSUME NEW A \in SUBSET Lockers, NEW B \in SUBSET Lockers,
         Cardinality(A) + Cardinality(B) > N
  PROVE  A \cap B # {}
<1>1. Cardinality(A \cup B) = Cardinality(A) + Cardinality(B) - Cardinality(A \cap B)
  BY LockersFinite, FS_Union
<1>2. Cardinality(A \cup B) <= N
  BY LockersFinite
<1>3. Cardinality({}) = 0
  BY FS_EmptySet
<1>4. Cardinality(A \cap B) \in Nat /\ Cardinality(A) \in Nat /\ Cardinality(B) \in Nat
  BY LockersFinite
<1>5. Cardinality(A \cap B) # 0
  BY <1>1, <1>2, <1>4, NNat
<1>6. QED
  BY <1>3, <1>5

LEMMA NoRoundCounted ==
  /\ NoRound.ok + NoRound.failed + Cardinality(NoRound.waiting) <= N
  /\ ~NoRound.on
<1>1. NoRound.ok = 0 /\ NoRound.failed = 0 /\ NoRound.waiting = {} /\ NoRound.on = FALSE
  BY DEF NoRound
<1>2. Cardinality({}) = 0
  BY FS_EmptySet
<1>3. NoRound.ok + NoRound.failed + Cardinality(NoRound.waiting) <= N
  BY <1>1, <1>2, NNat
<1>4. QED
  BY <1>1, <1>3

----------------------------------------------------------------------------
(* What the helpers that write rpc do, call by call.                       *)

LEMMA SetCallEffect ==
  ASSUME TypeOK, NEW c \in Clients, NEW a \in Attempts, NEW l \in Lockers,
         NEW st \in CallStates, SetCall(c, a, l, st)
  PROVE  /\ rpc' \in [Clients -> [Attempts -> [Lockers -> CallStates]]]
         /\ \A d \in Clients, b \in Attempts, m \in Lockers :
              rpc'[d][b][m] = IF d = c /\ b = a /\ m = l THEN st ELSE rpc[d][b][m]
BY DEF TypeOK, SetCall

LEMMA SetCallsEffect ==
  ASSUME TypeOK, NEW c \in Clients, attempt[c] \in Attempts,
         NEW calls \in [Lockers -> CallStates], SetCalls(c, calls)
  PROVE  /\ rpc' \in [Clients -> [Attempts -> [Lockers -> CallStates]]]
         /\ \A d \in Clients, b \in Attempts, m \in Lockers :
              rpc'[d][b][m] = IF d = c /\ b = attempt[c] THEN calls[m] ELSE rpc[d][b][m]
BY DEF TypeOK, SetCalls

LEMMA MoveEffect ==
  ASSUME NEW calls \in [Lockers -> CallStates], NEW st, NEW to \in CallStates
  PROVE  Move(calls, st, to) \in [Lockers -> CallStates]
BY DEF Move

\* The attempt of an operation under way is one of Attempts.
LEMMA CurrentAttempt ==
  ASSUME Basic, NEW c \in Clients, phase[c] \notin {"idle", "done"}
  PROVE  /\ attempt[c] \in Attempts
         /\ Calls(c) \in [Lockers -> CallStates]
<1>1. attempt[c] \in Attempts
  BY BoundsAssumption DEF Basic, TypeOK, AttemptsInOrder, Attempts
<1>2. QED
  BY <1>1 DEF Basic, TypeOK, Calls

----------------------------------------------------------------------------
(* Types.                                                                  *)

LEMMA BasicInit == Init => Basic
<1>1. SUFFICES ASSUME Init PROVE Basic
  OBVIOUS
<1>2. TypeOK
  BY <1>1, NNat, BoundsAssumption
  DEF Init, TypeOK, Entries, NoEntries, Phases, CallStates, NoCalls, NoRound
<1>3. AttemptsInOrder
  BY <1>1, BoundsAssumption DEF Init, AttemptsInOrder, NoCalls, Attempts
<1>4. RoundsCounted
  <2>1. \A c \in Clients : round[c] = NoRound
    BY <1>1 DEF Init
  <2>2. QED
    BY <2>1, NoRoundCounted DEF RoundsCounted
<1>5. QED
  BY <1>2, <1>3, <1>4 DEF Basic


\* One lemma for the actions that change neither round nor attempt: they
\* leave RoundsCounted and most of AttemptsInOrder alone.
LEMMA BasicCall ==
  ASSUME Basic, NEW c \in Clients, NEW a \in Attempts, NEW l \in Lockers,
         rpc[c][a][l] # "over", NEW st \in CallStates, SetCall(c, a, l, st),
         UNCHANGED <<phase, attempt, round>>
  PROVE  /\ rpc' \in [Clients -> [Attempts -> [Lockers -> CallStates]]]
         /\ AttemptsInOrder'
         /\ RoundsCounted'
<1>1. \A d \in Clients, b \in Attempts, m \in Lockers :
         rpc'[d][b][m] = IF d = c /\ b = a /\ m = l THEN st ELSE rpc[d][b][m]
  BY SetCallEffect DEF Basic
<1>2. rpc' \in [Clients -> [Attempts -> [Lockers -> CallStates]]]
  BY SetCallEffect DEF Basic
<1>3. AttemptsInOrder'
  BY <1>1 DEF Basic, AttemptsInOrder
<1>4. RoundsCounted'
  BY DEF Basic, RoundsCounted
<1>5. QED
  BY <1>2, <1>3, <1>4

\* And for those that write one row of calls of the current attempt.
LEMMA BasicCalls ==
  ASSUME Basic, NEW c \in Clients, phase[c] \notin {"idle", "done"},
         NEW calls \in [Lockers -> CallStates], SetCalls(c, calls),
         UNCHANGED attempt, NEW ph \in Phases \ {"idle"},
         phase' = [phase EXCEPT ![c] = ph],
         round' = [round EXCEPT ![c] = NoRound] \/ (UNCHANGED round /\ ~round[c].on)
  PROVE  /\ rpc' \in [Clients -> [Attempts -> [Lockers -> CallStates]]]
         /\ phase' \in [Clients -> Phases]
         /\ AttemptsInOrder'
         /\ RoundsCounted'
<1>0. attempt[c] \in Attempts
  BY CurrentAttempt
<1>1. \A d \in Clients, b \in Attempts, m \in Lockers :
         rpc'[d][b][m] = IF d = c /\ b = attempt[c] THEN calls[m] ELSE rpc[d][b][m]
  BY <1>0, SetCallsEffect DEF Basic
<1>2. rpc' \in [Clients -> [Attempts -> [Lockers -> CallStates]]]
  BY <1>0, SetCallsEffect DEF Basic
<1>3. /\ phase' \in [Clients -> Phases]
      /\ \A d \in Clients : phase'[d] = IF d = c THEN ph ELSE phase[d]
  BY DEF Basic, TypeOK
<1>4. attempt[c] >= 1
  BY DEF Basic, AttemptsInOrder
<1>5. AttemptsInOrder'
  <2> SUFFICES ASSUME NEW d \in Clients
               PROVE  /\ phase'[d] = "idle" => attempt[d] = 0
                      /\ phase'[d] \notin {"idle", "done"} => attempt[d] >= 1
                      /\ \A b \in Attempts, m \in Lockers :
                           b > attempt[d] => rpc'[d][b][m] = "over"
    BY DEF AttemptsInOrder
  <2>1. \A b \in Attempts : b > attempt[d] => ~(d = c /\ b = attempt[c])
    BY <1>0 DEF Attempts
  <2>2. QED
    BY <1>1, <1>3, <1>4, <2>1 DEF Basic, AttemptsInOrder
<1>6. RoundsCounted'
  <2>1. CASE round' = [round EXCEPT ![c] = NoRound]
    <3>1. \A d \in Clients : round'[d] = IF d = c THEN NoRound ELSE round[d]
      BY <2>1 DEF Basic, TypeOK
    <3>2. QED
      BY <1>3, <3>1, NoRoundCounted DEF Basic, RoundsCounted
  <2>2. CASE UNCHANGED round /\ ~round[c].on
    BY <2>2, <1>3 DEF Basic, RoundsCounted
  <2>3. QED
    BY <2>1, <2>2
<1>7. QED
  BY <1>2, <1>3, <1>5, <1>6

\* The operations on entries yield entries.
LEMMA EntriesType ==
  ASSUME NEW lri \in Entries, NEW c \in Clients
  PROVE  /\ NoEntries \in Entries
         /\ addEntry(lri, c) \in Entries
         /\ removeEntry(lri, c) \in Entries
BY DEF Entries, NoEntries, addEntry, removeEntry

LEMMA LockMapType ==
  ASSUME TypeOK, NEW l \in Lockers, NEW c \in Clients,
         \/ UNCHANGED lockMap
         \/ lockMap' = [lockMap EXCEPT ![l] = addEntry(@, c)]
         \/ lockMap' = [lockMap EXCEPT ![l] = removeEntry(@, c)]
         \/ lockMap' = [lockMap EXCEPT ![l] = NoEntries]
  PROVE  lockMap' \in [Lockers -> Entries]
<1>1. lockMap \in [Lockers -> Entries] /\ lockMap[l] \in Entries
  BY DEF TypeOK
<1>2. PICK e \in Entries : UNCHANGED lockMap \/ lockMap' = [lockMap EXCEPT ![l] = e]
  BY <1>1, EntriesType
<1>3. QED
  BY <1>1, <1>2

LEMMA RefusalType ==
  ASSUME NEW c \in Clients, NEW a \in Attempts
  PROVE  Refusal(c, a) \in CallStates
BY DEF Refusal, CallStates

LEMMA FaultType ==
  ASSUME TypeOK, Fault \/ UNCHANGED faults
  PROVE  faults' \in 0..MaxFaults
BY BoundsAssumption DEF TypeOK, Fault

\* Every step keeps the types, the order of attempts and the refresh counts.
LEMMA BasicNext == Basic /\ [Next]_vars => Basic'
<1> SUFFICES ASSUME Basic, [Next]_vars PROVE Basic'
  OBVIOUS
<1> USE DEF Basic
<1>1. ASSUME NEW c \in Clients, BeginAttempt(c) PROVE Basic'
  <2>1. attempt[c] + 1 \in Attempts /\ attempt[c] + 1 \in 0..(retries' + 1)
    BY <1>1, BoundsAssumption DEF BeginAttempt, TypeOK, AttemptsInOrder, Attempts
  <2>2. retries' \in 0..MaxRetries /\ retries <= retries'
    BY <1>1, BoundsAssumption DEF BeginAttempt, TypeOK
  <2>3. attempt' \in [Clients -> 0..(retries' + 1)]
    BY <1>1, <2>1, <2>2 DEF BeginAttempt, TypeOK
  <2>4. /\ rpc' \in [Clients -> [Attempts -> [Lockers -> CallStates]]]
        /\ \A d \in Clients, b \in Attempts, m \in Lockers :
             rpc'[d][b][m] = IF d = c /\ b = attempt[c] + 1 THEN "sent" ELSE rpc[d][b][m]
    BY <1>1, <2>1 DEF BeginAttempt, TypeOK, CallStates
  <2>5. TypeOK'
    BY <1>1, <2>2, <2>3, <2>4 DEF BeginAttempt, TypeOK, Phases
  <2>6. AttemptsInOrder'
    BY <1>1, <2>1, <2>4 DEF BeginAttempt, TypeOK, AttemptsInOrder, Attempts
  <2>7. RoundsCounted'
    BY <1>1 DEF BeginAttempt, TypeOK, RoundsCounted
  <2>8. QED
    BY <2>5, <2>6, <2>7
<1>2. ASSUME NEW c \in Clients, GiveUp(c) PROVE Basic'
  <2>1. TypeOK'
    BY <1>2 DEF GiveUp, TypeOK, Phases
  <2>2. AttemptsInOrder'
    BY <1>2 DEF GiveUp, TypeOK, AttemptsInOrder
  <2>3. RoundsCounted'
    BY <1>2 DEF GiveUp, TypeOK, RoundsCounted
  <2>4. QED
    BY <2>1, <2>2, <2>3
<1>3. ASSUME NEW c \in Clients, NEW a \in Attempts, NEW l \in Lockers, HandleLock(c, a, l)
      PROVE  Basic'
  <2>1. lockMap' \in [Lockers -> Entries]
    BY <1>3, LockMapType DEF HandleLock
  <2>2. PICK st \in CallStates : SetCall(c, a, l, st)
    BY <1>3, RefusalType DEF HandleLock, CallStates
  <2>3. QED
    BY <1>3, <2>1, <2>2, BasicCall DEF HandleLock, TypeOK
<1>4. ASSUME NEW c \in Clients, NEW a \in Attempts, NEW l \in Lockers, LockCallFails(c, a, l)
      PROVE  Basic'
  BY <1>4, RefusalType, FaultType, BasicCall DEF LockCallFails, TypeOK
<1>5. ASSUME NEW c \in Clients, NEW a \in Attempts, NEW l \in Lockers, LockAnswerLost(c, a, l)
      PROVE  Basic'
  <2>1. lockMap' \in [Lockers -> Entries]
    BY <1>5, LockMapType DEF LockAnswerLost
  <2>2. QED
    BY <1>5, <2>1, RefusalType, FaultType, BasicCall DEF LockAnswerLost, TypeOK
<1>6. ASSUME NEW c \in Clients, NEW l \in Lockers, CollectAnswer(c, l) PROVE Basic'
  <2>1. attempt[c] \in Attempts
    BY <1>6, CurrentAttempt DEF CollectAnswer
  <2>2. PICK st \in CallStates : SetCall(c, attempt[c], l, st)
    BY <1>6 DEF CollectAnswer, CallStates
  <2>3. rpc[c][attempt[c]][l] # "over"
    BY <1>6 DEF CollectAnswer, Calls
  <2>4. locksFailed' \in [Clients -> 0..N]
    <3>1. Cardinality(locks(c)) \in Nat
      BY LockersFinite DEF locks, In
    <3>2. locksFailed[c] + 1 \in 0..N
      BY <1>6, <3>1, NNat DEF CollectAnswer, LoopOver, TypeOK
    <3>3. QED
      BY <1>6, <3>2 DEF CollectAnswer, TypeOK
  <2>5. QED
    BY <1>6, <2>1, <2>2, <2>3, <2>4, BasicCall DEF CollectAnswer, TypeOK
<1>7. ASSUME NEW c \in Clients, CollectTimeout(c) PROVE Basic'
  <2>1. Cardinality(locks(c)) \in Nat
    BY LockersFinite DEF locks, In
  <2>2. locksFailed[c] + 1 \in 0..N
    BY <1>7, <2>1, NNat DEF CollectTimeout, LoopOver, TypeOK
  <2>3. TypeOK'
    BY <1>7, <2>2 DEF CollectTimeout, TypeOK
  <2>4. QED
    BY <1>7, <2>3 DEF CollectTimeout, AttemptsInOrder, RoundsCounted
<1>8. ASSUME NEW c \in Clients, LockReturns(c) PROVE Basic'
  <2>1. Calls(c) \in [Lockers -> CallStates] /\ ~round[c].on
    BY <1>8, CurrentAttempt DEF LockReturns, RoundsCounted
  <2>2. PICK calls \in [Lockers -> CallStates], ph \in Phases \ {"idle"} :
           SetCalls(c, calls) /\ phase' = [phase EXCEPT ![c] = ph]
    BY <1>8, <2>1, MoveEffect DEF LockReturns, CallStates, Phases
  <2>3. locksFailed' \in [Clients -> 0..N]
    BY <1>8, NNat DEF LockReturns, TypeOK
  <2>4. QED
    BY <1>8, <2>1, <2>2, <2>3, BasicCalls DEF LockReturns, TypeOK
<1>9. ASSUME NEW c \in Clients, AbandonReturns(c) PROVE Basic'
  <2>1. TypeOK'
    BY <1>9 DEF AbandonReturns, TypeOK, Phases
  <2>2. AttemptsInOrder'
    BY <1>9 DEF AbandonReturns, TypeOK, AttemptsInOrder
  <2>3. RoundsCounted'
    BY <1>9 DEF AbandonReturns, TypeOK, RoundsCounted
  <2>4. QED
    BY <2>1, <2>2, <2>3
<1>10. ASSUME NEW c \in Clients, NEW a \in Attempts, NEW l \in Lockers, DrainGrant(c, a, l)
       PROVE  Basic'
  <2>1. "draining" \in CallStates
    BY DEF CallStates
  <2>2. QED
    BY <1>10, <2>1, BasicCall DEF DrainGrant, TypeOK
<1>11. ASSUME NEW c \in Clients, NEW a \in Attempts, NEW l \in Lockers, NEW ok \in BOOLEAN,
              ReleaseReturns(c, a, l, ok), UNCHANGED <<phase, attempt, round>>
       PROVE  /\ rpc' \in [Clients -> [Attempts -> [Lockers -> CallStates]]]
              /\ AttemptsInOrder' /\ RoundsCounted'
  <2>1. PICK st \in CallStates : SetCall(c, a, l, st)
    BY <1>11 DEF ReleaseReturns, CallStates
  <2>2. rpc[c][a][l] # "over"
    BY <1>11 DEF ReleaseReturns
  <2>3. QED
    BY <1>11, <2>1, <2>2, BasicCall
<1>12. ASSUME NEW c \in Clients, NEW a \in Attempts, NEW l \in Lockers, HandleRelease(c, a, l)
       PROVE  Basic'
  <2>1. lockMap' \in [Lockers -> Entries]
    BY <1>12, LockMapType DEF HandleRelease
  <2>2. QED
    BY <1>11, <1>12, <2>1 DEF HandleRelease, TypeOK
<1>13. ASSUME NEW c \in Clients, NEW a \in Attempts, NEW l \in Lockers, ReleaseCallFails(c, a, l)
       PROVE  Basic'
  BY <1>11, <1>13, FaultType DEF ReleaseCallFails, TypeOK
<1>14. ASSUME NEW c \in Clients, NEW a \in Attempts, NEW l \in Lockers, ReleaseTimesOut(c, a, l)
       PROVE  Basic'
  <2>1. lateRel' \in [Clients -> [Lockers -> Nat]]
    BY <1>14 DEF ReleaseTimesOut, TypeOK
  <2>2. QED
    BY <1>11, <1>14, <2>1, FaultType DEF ReleaseTimesOut, TypeOK
<1>15. ASSUME NEW c \in Clients, NEW l \in Lockers, HandleLateRelease(c, l) PROVE Basic'
  <2>1. lateRel' \in [Clients -> [Lockers -> Nat]]
    BY <1>15 DEF HandleLateRelease, TypeOK
  <2>2. lockMap' \in [Lockers -> Entries]
    BY <1>15, LockMapType DEF HandleLateRelease
  <2>3. QED
    BY <1>15, <2>1, <2>2 DEF HandleLateRelease, TypeOK, AttemptsInOrder, RoundsCounted
<1>16. ASSUME NEW c \in Clients,
              NEW r \in [on : BOOLEAN, waiting : SUBSET Lockers, ok : 0..N, failed : 0..N],
              r.ok + r.failed + Cardinality(r.waiting) <= N, phase[c] = "locked",
              round' = [round EXCEPT ![c] = r],
              UNCHANGED <<lockMap, phase, attempt, rpc, locksFailed, lateRel, lost, retries>>,
              Fault \/ UNCHANGED faults
       PROVE  Basic'
  <2>1. \A d \in Clients : round'[d] = IF d = c THEN r ELSE round[d]
    BY <1>16 DEF TypeOK
  <2>2. TypeOK'
    BY <1>16, FaultType DEF TypeOK
  <2>3. AttemptsInOrder'
    BY <1>16 DEF AttemptsInOrder
  <2>4. RoundsCounted'
    BY <1>16, <2>1 DEF RoundsCounted
  <2>5. QED
    BY <2>2, <2>3, <2>4
<1>17. ASSUME NEW c \in Clients, RefreshBegins(c) PROVE Basic'
  <2> DEFINE r == [on |-> TRUE, waiting |-> Lockers, ok |-> 0, failed |-> 0]
  <2>1. r \in [on : BOOLEAN, waiting : SUBSET Lockers, ok : 0..N, failed : 0..N]
    BY NNat
  <2>2. r.ok + r.failed + Cardinality(r.waiting) <= N
    BY NNat DEF N
  <2>3. QED
    BY <1>16, <1>17, <2>1, <2>2 DEF RefreshBegins
<1>18. ASSUME NEW c \in Clients, NEW l \in Lockers, NEW ok \in {0, 1}, NEW fail \in {0, 1},
              ok + fail <= 1, round[c].on, l \in round[c].waiting,
              round' = [round EXCEPT ![c] = Counted(c, l, ok, fail)],
              UNCHANGED <<lockMap, phase, attempt, rpc, locksFailed, lateRel, lost, retries>>,
              Fault \/ UNCHANGED faults
       PROVE  Basic'
  <2> DEFINE r == Counted(c, l, ok, fail)
  <2>1. round[c].waiting \in SUBSET Lockers /\ round[c].ok \in 0..N /\ round[c].failed \in 0..N
    BY DEF TypeOK
  <2>2. IsFiniteSet(round[c].waiting)
    BY <2>1, LockersFinite
  <2>3. Cardinality(round[c].waiting \ {l}) = Cardinality(round[c].waiting) - 1
    BY <1>18, <2>2, FS_RemoveElement
  <2>4. Cardinality(round[c].waiting) \in Nat /\ Cardinality(round[c].waiting \ {l}) \in Nat
    BY <2>1, LockersFinite
  <2>5. round[c].ok + round[c].failed + Cardinality(round[c].waiting) <= N
    BY DEF RoundsCounted
  <2>6. /\ r.ok = round[c].ok + ok /\ r.failed = round[c].failed + fail
        /\ r.waiting = round[c].waiting \ {l} /\ r.on = TRUE
    BY DEF Counted
  <2>7. r.ok + r.failed + Cardinality(r.waiting) <= N /\ r.ok \in 0..N /\ r.failed \in 0..N
    BY <1>18, <2>1, <2>3, <2>4, <2>5, <2>6, NNat
  <2>8. r \in [on : BOOLEAN, waiting : SUBSET Lockers, ok : 0..N, failed : 0..N]
    BY <2>1, <2>6, <2>7 DEF Counted
  <2>9. phase[c] = "locked"
    BY <1>18 DEF RoundsCounted
  <2>10. QED
    BY <1>16, <1>18, <2>7, <2>8, <2>9
<1>19. ASSUME NEW c \in Clients, NEW l \in Lockers, RefreshAnswered(c, l) PROVE Basic'
  <2>1. /\ round[c].on /\ l \in round[c].waiting
        /\ UNCHANGED <<lockMap, phase, attempt, rpc, locksFailed, lateRel, lost, retries>>
        /\ UNCHANGED faults
    BY <1>19 DEF RefreshAnswered
  <2>2. CASE round' = [round EXCEPT ![c] = Counted(c, l, 1, 0)]
    <3>1. 1 \in {0, 1} /\ 0 \in {0, 1} /\ 1 + 0 <= 1
      OBVIOUS
    <3>2. QED
      BY ONLY <1>18, <2>1, <2>2, <3>1
  <2>3. CASE round' = [round EXCEPT ![c] = Counted(c, l, 0, 1)]
    <3>1. 1 \in {0, 1} /\ 0 \in {0, 1} /\ 0 + 1 <= 1
      OBVIOUS
    <3>2. QED
      BY ONLY <1>18, <2>1, <2>3, <3>1
  <2>4. QED
    BY <1>19, <2>2, <2>3 DEF RefreshAnswered
<1>20. ASSUME NEW c \in Clients, NEW l \in Lockers, RefreshCallFails(c, l) PROVE Basic'
  <2>1. /\ round[c].on /\ l \in round[c].waiting
        /\ round' = [round EXCEPT ![c] = Counted(c, l, 0, 0)]
        /\ UNCHANGED <<lockMap, phase, attempt, rpc, locksFailed, lateRel, lost, retries>>
        /\ Fault
    BY <1>20 DEF RefreshCallFails
  <2>2. 0 \in {0, 1} /\ 0 + 0 <= 1
    OBVIOUS
  <2>3. QED
    BY ONLY <1>18, <2>1, <2>2
<1>21. ASSUME NEW c \in Clients, RefreshReturns(c) PROVE Basic'
  <2>1. phase[c] = "locked"
    BY <1>21 DEF RefreshReturns, RoundsCounted
  <2>2. /\ phase' \in [Clients -> Phases]
        /\ \A d \in Clients : d # c => phase'[d] = phase[d]
        /\ phase'[c] \in {"locked", "cancelled"}
    BY <1>21 DEF RefreshReturns, TypeOK, Phases
  <2>3. /\ round' \in [Clients -> [on : BOOLEAN, waiting : SUBSET Lockers, ok : 0..N, failed : 0..N]]
        /\ \A d \in Clients : round'[d] = IF d = c THEN NoRound ELSE round[d]
    BY <1>21, NNat DEF RefreshReturns, TypeOK, NoRound
  <2>4. TypeOK'
    BY <1>21, <2>2, <2>3 DEF RefreshReturns, TypeOK
  <2>5. AttemptsInOrder'
    BY <1>21, <2>1, <2>2 DEF RefreshReturns, AttemptsInOrder
  <2>6. RoundsCounted'
    BY <2>2, <2>3, NoRoundCounted DEF RoundsCounted
  <2>7. QED
    BY <2>4, <2>5, <2>6
<1>22. ASSUME NEW c \in Clients, Unlock(c) PROVE Basic'
  <2>1. Calls(c) \in [Lockers -> CallStates]
    BY <1>22, CurrentAttempt DEF Unlock
  <2>2. Move(Calls(c), "locked", "releasing") \in [Lockers -> CallStates]
    BY <2>1, MoveEffect DEF CallStates
  <2>3. round' \in [Clients -> [on : BOOLEAN, waiting : SUBSET Lockers, ok : 0..N, failed : 0..N]]
    BY <1>22, NNat DEF Unlock, TypeOK, NoRound
  <2>4. "unlocking" \in Phases \ {"idle"}
    BY DEF Phases
  <2>5. QED
    BY <1>22, <2>2, <2>3, <2>4, BasicCalls DEF Unlock, TypeOK
<1>23. ASSUME NEW c \in Clients, UnlockRound(c) PROVE Basic'
  <2>1. Calls(c) \in [Lockers -> CallStates] /\ ~round[c].on
    BY <1>23, CurrentAttempt DEF UnlockRound, RoundsCounted
  <2>2. PICK calls \in [Lockers -> CallStates] : SetCalls(c, calls)
    BY <1>23, <2>1, MoveEffect DEF UnlockRound, CallStates
  <2>3. PICK ph \in Phases \ {"idle"} : phase' = [phase EXCEPT ![c] = ph]
    <3>1. CASE UNCHANGED phase
      <4>1. phase' = [phase EXCEPT ![c] = "unlocking"]
        BY <1>23, <3>1 DEF UnlockRound, TypeOK
      <4>2. QED
        BY <4>1 DEF Phases
    <3>2. QED
      BY <1>23, <3>1 DEF UnlockRound, Phases
  <2>4. QED
    BY <1>23, <2>1, <2>2, <2>3, BasicCalls DEF UnlockRound, TypeOK
<1>24. ASSUME NEW l \in Lockers, NEW kept \in Entries, Drop(l, kept),
              Fault \/ UNCHANGED faults,
              UNCHANGED <<phase, attempt, rpc, locksFailed, lateRel, round, retries>>
       PROVE  Basic'
  <2>1. lockMap' \in [Lockers -> Entries] /\ lost' \in [Clients -> SUBSET Lockers]
    BY <1>24 DEF Drop, TypeOK
  <2>2. QED
    BY <1>24, <2>1, FaultType DEF TypeOK, AttemptsInOrder, RoundsCounted
<1>25. ASSUME NEW c \in Clients, NEW l \in Lockers, Expire(c, l) PROVE Basic'
  <2>1. removeEntry(lockMap[l], c) \in Entries
    BY EntriesType DEF TypeOK
  <2>2. QED
    BY <1>24, <1>25, <2>1 DEF Expire
<1>26. ASSUME NEW l \in Lockers, LockerForgets(l) PROVE Basic'
  <2>1. NoEntries \in Entries
    BY DEF Entries, NoEntries
  <2>2. QED
    BY <1>24, <1>26, <2>1 DEF LockerForgets
<1>27. ASSUME NEW c \in Clients, ClientCrashes(c) PROVE Basic'
  <2>1. /\ rpc' \in [Clients -> [Attempts -> [Lockers -> CallStates]]]
        /\ \A d \in Clients, b \in Attempts, m \in Lockers :
             rpc[d][b][m] = "over" => rpc'[d][b][m] = "over"
    BY <1>27 DEF ClientCrashes, TypeOK, CallStates
  <2>2. /\ round' \in [Clients -> [on : BOOLEAN, waiting : SUBSET Lockers, ok : 0..N, failed : 0..N]]
        /\ \A d \in Clients : round'[d] = IF d = c THEN NoRound ELSE round[d]
    BY <1>27, NNat DEF ClientCrashes, TypeOK, NoRound
  <2>3. /\ phase' \in [Clients -> Phases]
        /\ \A d \in Clients : phase'[d] = IF d = c THEN "crashed" ELSE phase[d]
    BY <1>27 DEF ClientCrashes, TypeOK, Phases
  <2>4. locksFailed' \in [Clients -> 0..N]
    BY <1>27, NNat DEF ClientCrashes, TypeOK
  <2>5. TypeOK'
    BY <1>27, <2>1, <2>2, <2>3, <2>4, FaultType DEF ClientCrashes, TypeOK
  <2>6. AttemptsInOrder'
    BY <1>27, <2>1, <2>3 DEF ClientCrashes, Live, AttemptsInOrder
  <2>7. RoundsCounted'
    BY <2>2, <2>3, NoRoundCounted DEF RoundsCounted
  <2>8. QED
    BY <2>5, <2>6, <2>7
<1>28. ASSUME UNCHANGED vars PROVE Basic'
  BY <1>28 DEF vars, TypeOK, AttemptsInOrder, RoundsCounted
<1>29. QED
  BY <1>1, <1>2, <1>3, <1>4, <1>5, <1>6, <1>7, <1>8, <1>9, <1>10, <1>12, <1>13, <1>14,
     <1>15, <1>17, <1>19, <1>20, <1>21, <1>22, <1>23, <1>25, <1>26, <1>27, <1>28
  DEF Next, CallerStep, DrainStep, RefreshStep, ServerStep, CallFault, Quiet

\* Type correctness, for any constants, with the order of attempts and the
\* counts of refresh rounds it needs to be inductive.
THEOREM BasicInvariant == Spec => []Basic
BY BasicInit, BasicNext, PTL DEF Spec

\* Every variable keeps its type, whatever is lost, late or crashed: in
\* particular the counters of lock() and refresh() never exceed the number
\* of lockers.
THEOREM TypeCorrect == Spec => []TypeOK
<1>1. Basic => TypeOK
  BY DEF Basic
<1>2. QED
  BY <1>1, BasicInvariant, PTL

----------------------------------------------------------------------------
(* The entries at a locker.                                                *)

\* A writer has at most one entry, and then nobody else has any.
WritersAlone ==
    \A l \in Lockers, w \in Writers :
       /\ lockMap[l][w] <= 1
       /\ lockMap[l][w] = 1 => \A d \in Clients \ {w} : lockMap[l][d] = 0

LEMMA AddEffect ==
  ASSUME TypeOK, NEW c \in Clients, NEW l \in Lockers,
         lockMap' = [lockMap EXCEPT ![l] = addEntry(@, c)]
  PROVE  \A d \in Clients, m \in Lockers :
           lockMap'[m][d] = IF d = c /\ m = l THEN lockMap[l][c] + 1 ELSE lockMap[m][d]
BY DEF TypeOK, Entries, addEntry

LEMMA RemoveEffect ==
  ASSUME TypeOK, NEW c \in Clients, NEW l \in Lockers,
         lockMap' = [lockMap EXCEPT ![l] = removeEntry(@, c)]
  PROVE  \A d \in Clients, m \in Lockers :
           lockMap'[m][d] = IF d = c /\ m = l /\ lockMap[l][c] > 0
                            THEN lockMap[l][c] - 1 ELSE lockMap[m][d]
BY DEF TypeOK, Entries, removeEntry

\* A locker grants only what keeps writers alone.
LEMMA GrantSafe ==
  ASSUME Basic, WritersAlone, NEW c \in Clients, NEW l \in Lockers, Grants(lockMap[l], c)
  PROVE  /\ c \in Writers => \A d \in Clients : lockMap[l][d] = 0
         /\ c \notin Writers => \A w \in Writers : lockMap[l][w] = 0
<1>1. CASE c \in Writers
  BY <1>1 DEF Grants, canTakeLock
<1>2. CASE c \notin Writers
  <2> SUFFICES ASSUME NEW w \in Writers, lockMap[l][w] # 0 PROVE FALSE
    BY <1>2
  <2>1. w \in Clients /\ lockMap[l][w] \in Nat
    BY WritersAssumption DEF Basic, TypeOK, Entries
  <2>2. lockMap[l][w] = 1
    BY <2>1 DEF WritersAlone
  <2>3. isWriteLock(lockMap[l])
    BY <2>2 DEF WritersAlone, isWriteLock
  <2>4. QED
    BY <1>2, <2>3 DEF Grants
<1>3. QED
  BY <1>1, <1>2

\* A release fails only where the client has no entry.
LEMMA RefusedReleaseHasNoEntry ==
  ASSUME Basic, WritersAlone, NEW c \in Clients, NEW l \in Lockers, ~Releases(lockMap[l], c)
  PROVE  lockMap[l][c] = 0
<1>1. lockMap[l][c] \in Nat
  BY DEF Basic, TypeOK, Entries
<1>2. CASE c \in Writers
  <2> SUFFICES ASSUME lockMap[l][c] # 0 PROVE FALSE
    OBVIOUS
  <2>1. lockMap[l][c] = 1
    BY <1>1, <1>2 DEF WritersAlone
  <2>2. isWriteLock(lockMap[l])
    BY <1>2, <2>1 DEF WritersAlone, isWriteLock
  <2>3. QED
    BY <1>2, <2>2 DEF Releases, canTakeUnlock
<1>3. CASE c \notin Writers
  BY <1>3 DEF Releases, isWriteLock
<1>4. QED
  BY <1>2, <1>3

\* What a step may do to the entries.
LEMMA LockMapStep ==
  ASSUME Basic, [Next]_vars
  PROVE  \/ UNCHANGED lockMap
         \/ \E c \in Clients, l \in Lockers :
              \/ /\ Grants(lockMap[l], c)
                 /\ lockMap' = [lockMap EXCEPT ![l] = addEntry(@, c)]
              \/ lockMap' = [lockMap EXCEPT ![l] = removeEntry(@, c)]
         \/ \E l \in Lockers : lockMap' = [lockMap EXCEPT ![l] = NoEntries]
<1> DEFINE Goal == \/ UNCHANGED lockMap
                   \/ \E c \in Clients, l \in Lockers :
                        \/ /\ Grants(lockMap[l], c)
                           /\ lockMap' = [lockMap EXCEPT ![l] = addEntry(@, c)]
                        \/ lockMap' = [lockMap EXCEPT ![l] = removeEntry(@, c)]
                   \/ \E l \in Lockers : lockMap' = [lockMap EXCEPT ![l] = NoEntries]
<1>1. ASSUME NEW c \in Clients, CallerStep(c) \/ DrainStep(c) \/ RefreshStep(c) \/ ClientCrashes(c)
      PROVE  UNCHANGED lockMap
  BY <1>1 DEF CallerStep, DrainStep, RefreshStep, BeginAttempt, GiveUp, CollectTimeout,
     CollectAnswer, LockReturns, AbandonReturns, Unlock, UnlockRound, DrainGrant,
     RefreshBegins, RefreshReturns, RefreshAnswered, ClientCrashes
<1>2. ASSUME NEW c \in Clients, ServerStep(c) PROVE Goal
  BY <1>2 DEF ServerStep, HandleLateRelease, HandleLock, HandleRelease
<1>3. ASSUME NEW c \in Clients, CallFault(c) PROVE Goal
  BY <1>3 DEF CallFault, RefreshCallFails, LockCallFails, LockAnswerLost, ReleaseCallFails,
     ReleaseTimesOut
<1>4. ASSUME NEW c \in Clients, NEW l \in Lockers, Expire(c, l) PROVE Goal
  BY <1>4 DEF Expire, Drop
<1>5. ASSUME NEW l \in Lockers, LockerForgets(l) PROVE Goal
  BY <1>5 DEF LockerForgets, Drop
<1>6. ASSUME UNCHANGED vars PROVE Goal
  BY <1>6 DEF vars
<1>7. QED
  BY <1>1, <1>2, <1>3, <1>4, <1>5, <1>6 DEF Next, Quiet

LEMMA WritersAloneNext ==
  ASSUME Basic, WritersAlone, [Next]_vars
  PROVE  WritersAlone'
<1>0. \A l \in Lockers, d \in Clients : lockMap[l][d] \in Nat
  BY DEF Basic, TypeOK, Entries
<1>1. CASE UNCHANGED lockMap
  BY <1>1 DEF WritersAlone
<1>2. ASSUME NEW c \in Clients, NEW l \in Lockers, Grants(lockMap[l], c),
             lockMap' = [lockMap EXCEPT ![l] = addEntry(@, c)]
      PROVE  WritersAlone'
  <2>1. \A d \in Clients, m \in Lockers :
           lockMap'[m][d] = IF d = c /\ m = l THEN lockMap[l][c] + 1 ELSE lockMap[m][d]
    BY <1>2, AddEffect DEF Basic
  <2> SUFFICES ASSUME NEW m \in Lockers, NEW w \in Writers
               PROVE  /\ lockMap'[m][w] <= 1
                      /\ lockMap'[m][w] = 1 => \A d \in Clients \ {w} : lockMap'[m][d] = 0
    BY DEF WritersAlone
  <2>2. w \in Clients
    BY WritersAssumption
  <2>3. CASE m # l
    BY <2>1, <2>2, <2>3 DEF WritersAlone
  <2>4. CASE m = l /\ c \in Writers
    <3>1. \A d \in Clients : lockMap[l][d] = 0
      BY <1>2, <2>4, GrantSafe
    <3>2. QED
      BY <2>1, <2>2, <2>4, <3>1
  <2>5. CASE m = l /\ c \notin Writers
    <3>1. lockMap[l][w] = 0
      BY <1>2, <2>5, GrantSafe
    <3>2. QED
      BY <2>1, <2>2, <2>5, <3>1
  <2>6. QED
    BY <2>3, <2>4, <2>5
<1>3. ASSUME NEW c \in Clients, NEW l \in Lockers,
             lockMap' = [lockMap EXCEPT ![l] = removeEntry(@, c)]
      PROVE  WritersAlone'
  <2>1. \A d \in Clients, m \in Lockers :
           lockMap'[m][d] = IF d = c /\ m = l /\ lockMap[l][c] > 0
                            THEN lockMap[l][c] - 1 ELSE lockMap[m][d]
    BY <1>3, RemoveEffect DEF Basic
  <2>2. \A d \in Clients, m \in Lockers : lockMap'[m][d] \in Nat /\ lockMap'[m][d] <= lockMap[m][d]
    BY <1>0, <2>1
  <2>3. QED
    BY <1>0, <2>2, WritersAssumption DEF WritersAlone
<1>4. ASSUME NEW l \in Lockers, lockMap' = [lockMap EXCEPT ![l] = NoEntries]
      PROVE  WritersAlone'
  <2>1. \A d \in Clients, m \in Lockers : lockMap'[m][d] = IF m = l THEN 0 ELSE lockMap[m][d]
    BY <1>4 DEF NoEntries, Basic, TypeOK
  <2>2. QED
    BY <2>1, WritersAssumption DEF WritersAlone
<1>5. QED
  BY <1>1, <1>2, <1>3, <1>4, LockMapStep

----------------------------------------------------------------------------
(* The account of entries: what a client owes a locker.                    *)

LEMMA OwedNat ==
  ASSUME TypeOK, NEW c \in Clients, NEW l \in Lockers
  PROVE  /\ Owing(c, l) \in SUBSET Attempts
         /\ IsFiniteSet(Owing(c, l)) /\ Cardinality(Owing(c, l)) \in Nat
         /\ lateRel[c][l] \in Nat /\ Owed(c, l) \in Nat
<1>1. Owing(c, l) \in SUBSET Attempts
  BY DEF Owing
<1>2. lateRel[c][l] \in Nat
  BY DEF TypeOK
<1>3. QED
  BY <1>1, <1>2, AttemptsFinite DEF Owed

\* How a change of one call changes what is owed.
LEMMA CallOwed ==
  ASSUME TypeOK, NEW c \in Clients, NEW a \in Attempts, NEW l \in Lockers,
         NEW st \in CallStates, SetCall(c, a, l, st)
  PROVE  /\ \A d \in Clients, m \in Lockers :
              ~(d = c /\ m = l) => Owing(d, m)' = Owing(d, m)
         /\ (st \in OwedStates <=> rpc[c][a][l] \in OwedStates)
              => Owing(c, l)' = Owing(c, l)
         /\ st \in OwedStates /\ rpc[c][a][l] \notin OwedStates
              => Cardinality(Owing(c, l)') = Cardinality(Owing(c, l)) + 1
         /\ st \notin OwedStates /\ rpc[c][a][l] \in OwedStates
              => /\ Cardinality(Owing(c, l)') = Cardinality(Owing(c, l)) - 1
                 /\ Cardinality(Owing(c, l)) > 0
<1>1. \A d \in Clients, b \in Attempts, m \in Lockers :
         rpc'[d][b][m] = IF d = c /\ b = a /\ m = l THEN st ELSE rpc[d][b][m]
  BY SetCallEffect
<1>2. IsFiniteSet(Owing(c, l)) /\ Cardinality(Owing(c, l)) \in Nat
  BY OwedNat
<1>3. \A d \in Clients, m \in Lockers : ~(d = c /\ m = l) => Owing(d, m)' = Owing(d, m)
  BY <1>1 DEF Owing
<1>4. (st \in OwedStates <=> rpc[c][a][l] \in OwedStates) => Owing(c, l)' = Owing(c, l)
  BY <1>1 DEF Owing
<1>5. ASSUME st \in OwedStates, rpc[c][a][l] \notin OwedStates
      PROVE  Cardinality(Owing(c, l)') = Cardinality(Owing(c, l)) + 1
  <2>1. Owing(c, l)' = Owing(c, l) \cup {a} /\ a \notin Owing(c, l)
    BY <1>1, <1>5 DEF Owing
  <2>2. QED
    BY <1>2, <2>1, FS_AddElement
<1>6. ASSUME st \notin OwedStates, rpc[c][a][l] \in OwedStates
      PROVE  /\ Cardinality(Owing(c, l)') = Cardinality(Owing(c, l)) - 1
             /\ Cardinality(Owing(c, l)) > 0
  <2>1. Owing(c, l)' = Owing(c, l) \ {a} /\ a \in Owing(c, l)
    BY <1>1, <1>6 DEF Owing
  <2>2. Cardinality(Owing(c, l)') = Cardinality(Owing(c, l)) - 1
    BY <1>2, <2>1, FS_RemoveElement
  <2>3. Cardinality(Owing(c, l)) # 0
    BY <1>2, <2>1, FS_EmptySet
  <2>4. QED
    BY <1>2, <2>2, <2>3
<1>7. QED
  BY <1>3, <1>4, <1>5, <1>6

\* A change of a row of calls that keeps the owed ones changes nothing.
LEMMA CallsOwed ==
  ASSUME TypeOK, NEW c \in Clients, attempt[c] \in Attempts,
         NEW calls \in [Lockers -> CallStates], SetCalls(c, calls),
         \A m \in Lockers : calls[m] \in OwedStates <=> Calls(c)[m] \in OwedStates
  PROVE  \A d \in Clients, m \in Lockers : Owing(d, m)' = Owing(d, m)
<1>1. \A d \in Clients, b \in Attempts, m \in Lockers :
         rpc'[d][b][m] = IF d = c /\ b = attempt[c] THEN calls[m] ELSE rpc[d][b][m]
  BY SetCallsEffect
<1>2. QED
  BY <1>1 DEF Owing, Calls

(* What a step may do to the entries of client d at locker m (x) and to    *)
(* what d owes m (o).                                                      *)
Accounted(d, m) ==
    LET x == lockMap[m][d]
        o == Owed(d, m)
    IN  \/ x' = x /\ o' = o
        \/ x' = x + 1 /\ o' = o + 1                          \* granted
        \/ x' = x + 1 /\ o' = o /\ faults' > 0               \* its answer lost
        \/ o' = o - 1 /\ x' = (IF x > 0 THEN x - 1 ELSE x)   \* released
        \/ o' = o - 1 /\ x' = x /\ faults' > 0               \* release failed
        \/ x' <= x /\ o' = o /\ (m \in lost'[d] \/ ~Live(d)) \* dropped
        \/ x' = x /\ o' >= o /\ phase'[d] \in {"unlocking", "done"}
        \/ x' = x /\ faults' > 0 /\ phase'[d] = "crashed"

LEMMA AccountedNext ==
  ASSUME Basic, WritersAlone, [Next]_vars
  PROVE  \A d \in Clients, m \in Lockers : Accounted(d, m)
<1> DEFINE Goal == \A d \in Clients, m \in Lockers : Accounted(d, m)
<1>0. TypeOK /\ faults \in Nat /\ \A d \in Clients, m \in Lockers : lockMap[m][d] \in Nat
  BY BoundsAssumption DEF Basic, TypeOK, Entries
<1>23. \A d \in Clients, m \in Lockers :
         /\ Cardinality(Owing(d, m)) \in Nat /\ lateRel[d][m] \in Nat /\ Owed(d, m) \in Nat
         /\ Owed(d, m) = Cardinality(Owing(d, m)) + lateRel[d][m]
         /\ Owed(d, m)' = Cardinality(Owing(d, m)') + lateRel'[d][m]
  BY <1>0, OwedNat DEF Owed
<1>24. ASSUME UNCHANGED <<lockMap, lateRel>>,
             \A d \in Clients, m \in Lockers : Owing(d, m)' = Owing(d, m)
      PROVE  Goal
  BY <1>23, <1>24 DEF Accounted
<1>25. ASSUME UNCHANGED rpc
      PROVE  \A d \in Clients, m \in Lockers : Owing(d, m)' = Owing(d, m)
  BY <1>25 DEF Owing
<1>26. ASSUME Fault PROVE faults' > 0
  BY <1>0, <1>26 DEF Fault
<1>1. ASSUME NEW c \in Clients, BeginAttempt(c) PROVE Goal
  <2>1. attempt[c] + 1 \in Attempts /\ attempt[c] + 1 > attempt[c]
    BY <1>1, BoundsAssumption DEF BeginAttempt, Basic, TypeOK, AttemptsInOrder, Attempts
  <2>2. \A d \in Clients, b \in Attempts, m \in Lockers :
           rpc'[d][b][m] = IF d = c /\ b = attempt[c] + 1 THEN "sent" ELSE rpc[d][b][m]
    BY <1>1, <1>0, <2>1 DEF BeginAttempt, TypeOK
  <2>3. \A m \in Lockers : rpc[c][attempt[c] + 1][m] = "over"
    BY <2>1 DEF Basic, AttemptsInOrder
  <2>4. \A d \in Clients, m \in Lockers : Owing(d, m)' = Owing(d, m)
    BY <2>2, <2>3 DEF Owing, OwedStates
  <2>5. QED
    BY <1>1, <1>24, <2>4 DEF BeginAttempt
<1>2. ASSUME NEW c \in Clients,
             \/ GiveUp(c) \/ CollectTimeout(c) \/ AbandonReturns(c)
             \/ RefreshBegins(c) \/ RefreshReturns(c)
             \/ \E l \in Lockers : RefreshAnswered(c, l) \/ RefreshCallFails(c, l)
      PROVE  Goal
  <2>1. UNCHANGED <<lockMap, lateRel, rpc>>
    BY <1>2 DEF GiveUp, CollectTimeout, AbandonReturns, RefreshBegins, RefreshReturns,
       RefreshAnswered, RefreshCallFails
  <2>2. QED
    BY <1>24, <1>25, <2>1
<1>3. ASSUME NEW c \in Clients, NEW a \in Attempts, NEW l \in Lockers, HandleLock(c, a, l)
      PROVE  Goal
  <2>1. CASE /\ lockMap' = [lockMap EXCEPT ![l] = addEntry(@, c)]
             /\ SetCall(c, a, l, "granted")
    <3>1. \A d \in Clients, m \in Lockers :
             lockMap'[m][d] = IF d = c /\ m = l THEN lockMap[l][c] + 1 ELSE lockMap[m][d]
      BY <1>0, <2>1, AddEffect
    <3>2. /\ \A d \in Clients, m \in Lockers : ~(d = c /\ m = l) => Owing(d, m)' = Owing(d, m)
          /\ Cardinality(Owing(c, l)') = Cardinality(Owing(c, l)) + 1
      BY <1>3, <1>0, <2>1, CallOwed DEF HandleLock, OwedStates, CallStates
    <3>3. QED
      BY <1>3, <1>23, <3>1, <3>2 DEF HandleLock, Accounted
  <2>2. CASE UNCHANGED lockMap /\ SetCall(c, a, l, Refusal(c, a))
    <3>1. \A d \in Clients, m \in Lockers : Owing(d, m)' = Owing(d, m)
      BY <1>3, <1>0, <2>2, CallOwed, RefusalType DEF HandleLock, OwedStates, Refusal
    <3>2. QED
      BY <1>3, <1>24, <2>2, <3>1 DEF HandleLock
  <2>3. QED
    BY <1>3, <2>1, <2>2 DEF HandleLock
<1>4. ASSUME NEW c \in Clients, NEW a \in Attempts, NEW l \in Lockers,
             rpc[c][a][l] = "sent", SetCall(c, a, l, Refusal(c, a))
      PROVE  \A d \in Clients, m \in Lockers : Owing(d, m)' = Owing(d, m)
  BY <1>4, <1>0, CallOwed, RefusalType DEF OwedStates, Refusal
<1>5. ASSUME NEW c \in Clients, NEW a \in Attempts, NEW l \in Lockers, LockCallFails(c, a, l)
      PROVE  Goal
  BY <1>4, <1>5, <1>24 DEF LockCallFails
<1>6. ASSUME NEW c \in Clients, NEW a \in Attempts, NEW l \in Lockers, LockAnswerLost(c, a, l)
      PROVE  Goal
  <2>1. \A d \in Clients, m \in Lockers :
           lockMap'[m][d] = IF d = c /\ m = l THEN lockMap[l][c] + 1 ELSE lockMap[m][d]
    BY <1>0, <1>6, AddEffect DEF LockAnswerLost
  <2>2. QED
    BY <1>4, <1>6, <1>23, <1>26, <2>1 DEF LockAnswerLost, Accounted
<1>7. ASSUME NEW c \in Clients, NEW l \in Lockers, CollectAnswer(c, l) PROVE Goal
  <2>1. attempt[c] \in Attempts
    BY <1>7, CurrentAttempt DEF CollectAnswer
  <2>2. \A d \in Clients, m \in Lockers : Owing(d, m)' = Owing(d, m)
    BY <1>7, <1>0, <2>1, CallOwed DEF CollectAnswer, Calls, OwedStates, CallStates
  <2>3. QED
    BY <1>7, <1>24, <2>2 DEF CollectAnswer
<1>8. ASSUME NEW c \in Clients, NEW a \in Attempts, NEW l \in Lockers, DrainGrant(c, a, l)
      PROVE  Goal
  <2>1. \A d \in Clients, m \in Lockers : Owing(d, m)' = Owing(d, m)
    BY <1>8, <1>0, CallOwed DEF DrainGrant, OwedStates, CallStates
  <2>2. QED
    BY <1>8, <1>24, <2>1 DEF DrainGrant
<1>9. ASSUME NEW c \in Clients, LockReturns(c) \/ Unlock(c) PROVE Goal
  <2>1. attempt[c] \in Attempts /\ Calls(c) \in [Lockers -> CallStates]
    BY <1>9, CurrentAttempt DEF LockReturns, Unlock
  <2>2. PICK calls \in [Lockers -> CallStates] :
           /\ SetCalls(c, calls)
           /\ \/ calls = Move(Calls(c), "denied", "over")
              \/ calls = Move(Move(Calls(c), "denied", "over"), "locked", "releasing")
              \/ calls = Move(Calls(c), "locked", "releasing")
    BY <1>9, <2>1, MoveEffect DEF LockReturns, Unlock, CallStates
  <2>3. \A m \in Lockers : calls[m] \in OwedStates <=> Calls(c)[m] \in OwedStates
    BY <2>2 DEF Move, OwedStates
  <2>4. \A d \in Clients, m \in Lockers : Owing(d, m)' = Owing(d, m)
    BY <1>0, <2>1, <2>2, <2>3, CallsOwed
  <2>5. QED
    BY <1>9, <1>24, <2>4 DEF LockReturns, Unlock
<1>10. ASSUME NEW c \in Clients, NEW a \in Attempts, NEW l \in Lockers, NEW ok \in BOOLEAN,
              ReleaseReturns(c, a, l, ok)
       PROVE  /\ \A d \in Clients, m \in Lockers : ~(d = c /\ m = l) => Owing(d, m)' = Owing(d, m)
              /\ Cardinality(Owing(c, l)') = Cardinality(Owing(c, l)) - 1
              /\ Cardinality(Owing(c, l)) > 0
  <2>1. PICK st \in CallStates \ OwedStates : SetCall(c, a, l, st)
    BY <1>10 DEF ReleaseReturns, CallStates, OwedStates
  <2>2. rpc[c][a][l] \in OwedStates
    BY <1>10 DEF ReleaseReturns, OwedStates
  <2>3. QED
    BY <1>10, <1>0, <2>1, <2>2, CallOwed
<1>11. ASSUME NEW c \in Clients, NEW l \in Lockers,
              \/ Releases(lockMap[l], c) /\ lockMap' = [lockMap EXCEPT ![l] = removeEntry(@, c)]
              \/ ~Releases(lockMap[l], c) /\ UNCHANGED lockMap
       PROVE  \A d \in Clients, m \in Lockers :
                lockMap'[m][d] = IF d = c /\ m = l /\ lockMap[l][c] > 0
                                 THEN lockMap[l][c] - 1 ELSE lockMap[m][d]
  <2>1. CASE lockMap' = [lockMap EXCEPT ![l] = removeEntry(@, c)]
    BY <1>0, <2>1, RemoveEffect
  <2>2. CASE ~Releases(lockMap[l], c) /\ UNCHANGED lockMap
    <3>1. lockMap[l][c] = 0
      BY <2>2, RefusedReleaseHasNoEntry
    <3>2. QED
      BY <2>2, <3>1
  <2>3. QED
    BY <1>11, <2>1, <2>2
<1>12. ASSUME NEW c \in Clients, NEW a \in Attempts, NEW l \in Lockers, HandleRelease(c, a, l)
       PROVE  Goal
  <2>1. PICK ok \in BOOLEAN : ReleaseReturns(c, a, l, ok)
    BY <1>12 DEF HandleRelease
  <2>2. /\ \A d \in Clients, m \in Lockers : ~(d = c /\ m = l) => Owing(d, m)' = Owing(d, m)
        /\ Cardinality(Owing(c, l)') = Cardinality(Owing(c, l)) - 1
    BY <1>10, <2>1
  <2>3. \A d \in Clients, m \in Lockers :
           lockMap'[m][d] = IF d = c /\ m = l /\ lockMap[l][c] > 0
                            THEN lockMap[l][c] - 1 ELSE lockMap[m][d]
    BY <1>11, <1>12 DEF HandleRelease
  <2>4. UNCHANGED lateRel
    BY <1>12 DEF HandleRelease
  <2>5. QED
    BY <1>23, <2>2, <2>3, <2>4 DEF Accounted
<1>13. ASSUME NEW c \in Clients, NEW a \in Attempts, NEW l \in Lockers, ReleaseCallFails(c, a, l)
       PROVE  Goal
  <2>1. /\ \A d \in Clients, m \in Lockers : ~(d = c /\ m = l) => Owing(d, m)' = Owing(d, m)
        /\ Cardinality(Owing(c, l)') = Cardinality(Owing(c, l)) - 1
    BY <1>10, <1>13 DEF ReleaseCallFails
  <2>2. faults' > 0 /\ UNCHANGED <<lockMap, lateRel>>
    BY <1>13, <1>26 DEF ReleaseCallFails
  <2>3. QED
    BY <1>23, <2>1, <2>2 DEF Accounted
<1>14. ASSUME NEW c \in Clients, NEW a \in Attempts, NEW l \in Lockers, ReleaseTimesOut(c, a, l)
       PROVE  Goal
  <2>1. /\ \A d \in Clients, m \in Lockers : ~(d = c /\ m = l) => Owing(d, m)' = Owing(d, m)
        /\ Cardinality(Owing(c, l)') = Cardinality(Owing(c, l)) - 1
    BY <1>10, <1>14 DEF ReleaseTimesOut
  <2>2. /\ UNCHANGED lockMap
        /\ \A d \in Clients, m \in Lockers :
             lateRel'[d][m] = IF d = c /\ m = l THEN lateRel[c][l] + 1 ELSE lateRel[d][m]
    BY <1>14, <1>0 DEF ReleaseTimesOut, TypeOK
  <2>3. QED
    BY <1>23, <2>1, <2>2 DEF Accounted
<1>15. ASSUME NEW c \in Clients, NEW l \in Lockers, HandleLateRelease(c, l) PROVE Goal
  <2>1. \A d \in Clients, m \in Lockers : Owing(d, m)' = Owing(d, m)
    BY <1>15, <1>25 DEF HandleLateRelease
  <2>2. \A d \in Clients, m \in Lockers :
           lateRel'[d][m] = IF d = c /\ m = l THEN lateRel[c][l] - 1 ELSE lateRel[d][m]
    BY <1>15, <1>0 DEF HandleLateRelease, TypeOK
  <2>3. \A d \in Clients, m \in Lockers :
           lockMap'[m][d] = IF d = c /\ m = l /\ lockMap[l][c] > 0
                            THEN lockMap[l][c] - 1 ELSE lockMap[m][d]
    BY <1>11, <1>15 DEF HandleLateRelease
  <2>4. QED
    BY <1>23, <2>1, <2>2, <2>3 DEF Accounted
<1>16. ASSUME NEW c \in Clients, UnlockRound(c) PROVE Goal
  <2>1. attempt[c] \in Attempts /\ Calls(c) \in [Lockers -> CallStates]
    BY <1>16, CurrentAttempt DEF UnlockRound
  <2>2. PICK calls \in [Lockers -> CallStates] :
           /\ SetCalls(c, calls)
           /\ \/ calls = Move(Calls(c), "relerr", "releasing")
              \/ calls = Move(Calls(c), "relerr", "over")
    BY <1>16, <2>1, MoveEffect DEF UnlockRound, CallStates
  <2>3. \A d \in Clients, b \in Attempts, m \in Lockers :
           rpc'[d][b][m] = IF d = c /\ b = attempt[c] THEN calls[m] ELSE rpc[d][b][m]
    BY <1>0, <2>1, <2>2, SetCallsEffect
  <2>4. \A m \in Lockers : Calls(c)[m] \in OwedStates => calls[m] \in OwedStates
    BY <2>2 DEF Move, OwedStates
  <2>5. \A m \in Lockers : Owing(c, m) \in SUBSET (Owing(c, m)')
    BY <2>3, <2>4 DEF Owing, Calls
  <2>6. \A m \in Lockers : Owing(c, m)' \in SUBSET Attempts
    BY DEF Owing
  <2>7. \A m \in Lockers : /\ Cardinality(Owing(c, m)) <= Cardinality(Owing(c, m)')
                           /\ Cardinality(Owing(c, m)') \in Nat
    BY <2>5, <2>6, AttemptsFinite, FS_Subset
  <2>8. \A d \in Clients, m \in Lockers : d # c => Owing(d, m)' = Owing(d, m)
    BY <2>3 DEF Owing
  <2>9. /\ phase'[c] \in {"unlocking", "done"}
        /\ UNCHANGED <<lockMap, lateRel>>
    BY <1>16, <1>0 DEF UnlockRound, TypeOK
  <2>10. \A d \in Clients, m \in Lockers : d # c => Owed(d, m)' = Owed(d, m)
    BY <1>23, <2>8, <2>9
  <2>11. \A m \in Lockers : Owed(c, m)' >= Owed(c, m)
    BY <1>23, <2>7, <2>9
  <2>12. QED
    BY <2>9, <2>10, <2>11 DEF Accounted
<1>17. ASSUME NEW l \in Lockers, NEW kept \in Entries, Drop(l, kept),
              \A d \in Clients : kept[d] <= lockMap[l][d],
              UNCHANGED <<rpc, lateRel>>
       PROVE  Goal
  <2>1. \A d \in Clients, m \in Lockers : Owed(d, m)' = Owed(d, m)
    BY <1>23, <1>25, <1>17
  <2>2. \A d \in Clients, m \in Lockers :
           lockMap'[m][d] = IF m = l THEN kept[d] ELSE lockMap[m][d]
    BY <1>17, <1>0 DEF Drop, TypeOK
  <2>3. \A d \in Clients : kept[d] \in Nat /\ (kept[d] < lockMap[l][d] \/ kept[d] = lockMap[l][d])
    BY <1>17, <1>0 DEF Entries
  <2>4. \A d \in Clients : Live(d) /\ kept[d] < lockMap[l][d] => l \in lost'[d]
    BY <1>17 DEF Drop
  <2>5. \A d \in Clients, m \in Lockers :
           \/ lockMap'[m][d] = lockMap[m][d]
           \/ lockMap'[m][d] <= lockMap[m][d] /\ (m \in lost'[d] \/ ~Live(d))
    BY <1>0, <1>17, <2>2, <2>3, <2>4
  <2>6. QED
    BY <2>1, <2>5 DEF Accounted
<1>18. ASSUME NEW c \in Clients, NEW l \in Lockers, Expire(c, l) PROVE Goal
  <2>1. /\ removeEntry(lockMap[l], c) \in Entries
        /\ \A d \in Clients : removeEntry(lockMap[l], c)[d] <= lockMap[l][d]
    BY <1>0 DEF TypeOK, Entries, removeEntry
  <2>2. QED
    BY <1>17, <1>18, <2>1 DEF Expire
<1>19. ASSUME NEW l \in Lockers, LockerForgets(l) PROVE Goal
  <2>1. NoEntries \in Entries /\ \A d \in Clients : NoEntries[d] <= lockMap[l][d]
    BY <1>0 DEF Entries, NoEntries
  <2>2. QED
    BY <1>17, <1>19, <2>1 DEF LockerForgets
<1>20. ASSUME NEW c \in Clients, ClientCrashes(c) PROVE Goal
  <2>1. /\ UNCHANGED <<lockMap, lateRel>>
        /\ phase'[c] = "crashed"
        /\ faults' > 0
    BY <1>20, <1>0, <1>26 DEF ClientCrashes, TypeOK
  <2>2. \A d \in Clients, m \in Lockers : d # c => Owing(d, m)' = Owing(d, m)
    BY <1>20, <1>0 DEF ClientCrashes, TypeOK, Owing
  <2>3. \A d \in Clients, m \in Lockers : d # c => Owed(d, m)' = Owed(d, m)
    BY <1>23, <2>1, <2>2
  <2>4. QED
    BY <2>1, <2>3 DEF Accounted
<1>21. ASSUME UNCHANGED vars PROVE Goal
  BY <1>21, <1>24, <1>25 DEF vars
<1>22. QED
  BY <1>1, <1>2, <1>3, <1>5, <1>6, <1>7, <1>8, <1>9, <1>12, <1>13, <1>14, <1>15, <1>16,
     <1>18, <1>19, <1>20, <1>21
  DEF Next, CallerStep, DrainStep, RefreshStep, ServerStep, CallFault, Quiet

\* An operation that is being unlocked, is over or crashed stays so; what
\* was lost stays lost; faults are only added.
LEMMA StepMonotone ==
  ASSUME Basic, [Next]_vars, NEW d \in Clients
  PROVE  /\ phase[d] \in {"unlocking", "done", "crashed"}
              => phase'[d] \in {"unlocking", "done", "crashed"}
         /\ ~Live(d) => ~Live(d)'
         /\ \A m \in Lockers : m \in lost[d] => m \in lost'[d]
         /\ faults' = 0 => faults = 0
<1> DEFINE Goal == /\ phase[d] \in {"unlocking", "done", "crashed"}
                        => phase'[d] \in {"unlocking", "done", "crashed"}
                   /\ ~Live(d) => ~Live(d)'
                   /\ \A m \in Lockers : m \in lost[d] => m \in lost'[d]
                   /\ faults' = 0 => faults = 0
<1>0. TypeOK /\ faults \in Nat
  BY BoundsAssumption DEF Basic, TypeOK
<1>1. ASSUME NEW c \in Clients, CallerStep(c) PROVE Goal
  <2>1. UNCHANGED <<lost, faults>>
    BY <1>1 DEF CallerStep, BeginAttempt, GiveUp, CollectTimeout, CollectAnswer, LockReturns,
       AbandonReturns, Unlock, UnlockRound
  <2>2. \/ UNCHANGED phase
        \/ /\ phase[c] \notin {"unlocking", "done", "crashed"}
           /\ \E ph \in Phases : phase' = [phase EXCEPT ![c] = ph]
        \/ phase[c] = "unlocking" /\ phase' = [phase EXCEPT ![c] = "done"]
    BY <1>1 DEF CallerStep, BeginAttempt, GiveUp, CollectTimeout, CollectAnswer, LockReturns,
       AbandonReturns, Unlock, UnlockRound, Phases
  <2>3. QED
    BY <1>0, <2>1, <2>2 DEF TypeOK, Live
<1>2. ASSUME NEW c \in Clients, DrainStep(c) \/ ServerStep(c) \/ CallFault(c)
      PROVE  Goal
  <2>1. UNCHANGED <<phase, lost>> /\ (UNCHANGED faults \/ Fault)
    BY <1>2 DEF DrainStep, ServerStep, CallFault, DrainGrant, HandleLateRelease, HandleLock,
       HandleRelease, RefreshCallFails, LockCallFails, LockAnswerLost, ReleaseCallFails,
       ReleaseTimesOut
  <2>2. QED
    BY <1>0, <2>1 DEF Fault, Live
<1>3. ASSUME NEW c \in Clients, RefreshStep(c) PROVE Goal
  <2>1. UNCHANGED <<lost, faults>>
    BY <1>3 DEF RefreshStep, RefreshBegins, RefreshReturns, RefreshAnswered
  <2>2. UNCHANGED phase \/ (phase[c] = "locked" /\ \E ph \in Phases : phase' = [phase EXCEPT ![c] = ph])
    BY <1>3 DEF RefreshStep, RefreshBegins, RefreshReturns, RefreshAnswered, Basic,
       RoundsCounted, Phases
  <2>3. QED
    BY <1>0, <2>1, <2>2 DEF TypeOK, Live
<1>4. ASSUME NEW c \in Clients, ClientCrashes(c) PROVE Goal
  BY <1>0, <1>4 DEF ClientCrashes, Fault, TypeOK, Live
<1>5. ASSUME NEW l \in Lockers, NEW kept, Drop(l, kept), UNCHANGED phase, UNCHANGED faults \/ Fault
      PROVE  Goal
  BY <1>0, <1>5 DEF Drop, Fault, Live
<1>6. ASSUME NEW c \in Clients, NEW l \in Lockers, Expire(c, l) PROVE Goal
  BY <1>5, <1>6 DEF Expire
<1>7. ASSUME NEW l \in Lockers, LockerForgets(l) PROVE Goal
  BY <1>5, <1>7 DEF LockerForgets
<1>8. ASSUME UNCHANGED vars PROVE Goal
  BY <1>8 DEF vars, Live
<1>9. QED
  BY <1>1, <1>2, <1>3, <1>4, <1>6, <1>7, <1>8 DEF Next, Quiet

(* The account as an inductive invariant: GrantsKept from below, and       *)
(* NoStrayEntries from above.                                              *)
LEMMA GrantsKeptNext ==
  ASSUME Basic, WritersAlone, GrantsKept, [Next]_vars
  PROVE  GrantsKept'
<1> SUFFICES ASSUME NEW d \in Clients, NEW m \in Lockers,
                    phase'[d] \notin {"unlocking", "done", "crashed"}, m \notin lost'[d]
             PROVE  lockMap'[m][d] >= Owed(d, m)'
  BY DEF GrantsKept
<1>1. phase[d] \notin {"unlocking", "done", "crashed"} /\ m \notin lost[d]
  BY StepMonotone
<1>2. lockMap[m][d] >= Owed(d, m)
  BY <1>1 DEF GrantsKept
<1>3. lockMap[m][d] \in Nat /\ Owed(d, m) \in Nat
  BY OwedNat DEF Basic, TypeOK, Entries
<1>4. Live(d)
  BY <1>1 DEF Live
<1>5. Accounted(d, m)
  BY AccountedNext
<1>6. QED
  BY <1>2, <1>3, <1>4, <1>5 DEF Accounted

LEMMA NoStrayEntriesNext ==
  ASSUME Basic, Basic', WritersAlone, NoStrayEntries, [Next]_vars
  PROVE  NoStrayEntries'
<1> SUFFICES ASSUME NEW d \in Clients, NEW m \in Lockers, faults' = 0
             PROVE  lockMap'[m][d] <= Owed(d, m)'
  BY DEF NoStrayEntries
<1>1. lockMap[m][d] <= Owed(d, m)
  BY StepMonotone DEF NoStrayEntries
<1>2. lockMap[m][d] \in Nat /\ Owed(d, m) \in Nat
  BY OwedNat DEF Basic, TypeOK, Entries
<1>3. (lockMap[m][d])' \in Nat /\ Owed(d, m)' \in Nat
  <2>1. (lockMap[m][d])' \in Nat
    BY DEF Basic, TypeOK, Entries
  <2>2. Owing(d, m)' \in SUBSET Attempts /\ (lateRel[d][m])' \in Nat
    BY DEF Owing, Basic, TypeOK
  <2>3. QED
    BY <2>1, <2>2, AttemptsFinite DEF Owed
<1>4. Accounted(d, m)
  BY AccountedNext
<1>5. QED
  BY <1>1, <1>2, <1>3, <1>4 DEF Accounted

----------------------------------------------------------------------------
(* A holder has collected a quorum.                                        *)

HeldQuorum ==
    \A c \in Clients : phase[c] = "locked" => Cardinality(locks(c)) >= Quorum(c)

\* What becomes of the lockers in the locks array of client d.
Holds(d) ==
    phase'[d] = "locked" => \/ phase[d] = "locked" /\ locks(d)' = locks(d)
                            \/ Cardinality(locks(d)') >= Quorum(d)

\* Calls change neither to nor from "locked" while the lock is held.
LEMMA HoldsCall ==
  ASSUME Basic, NEW c \in Clients, NEW a \in Attempts, NEW l \in Lockers,
         NEW st \in CallStates \ {"locked"}, SetCall(c, a, l, st),
         rpc[c][a][l] # "locked", UNCHANGED <<phase, attempt>>, NEW d \in Clients
  PROVE  Holds(d)
<1>1. \A b \in Attempts, m \in Lockers :
         rpc'[d][b][m] = IF d = c /\ b = a /\ m = l THEN st ELSE rpc[d][b][m]
  BY SetCallEffect DEF Basic
<1>2. ASSUME phase[d] = "locked" PROVE locks(d)' = locks(d)
  <2>1. attempt[d] \in Attempts
    BY <1>2, CurrentAttempt
  <2>2. QED
    BY <1>1, <2>1 DEF locks, In, Calls
<1>3. QED
  BY <1>2 DEF Holds

LEMMA HoldsNext ==
  ASSUME Basic, [Next]_vars, NEW d \in Clients
  PROVE  Holds(d)
<1>0. TypeOK /\ (phase[d] = "locked" => attempt[d] \in Attempts)
  BY CurrentAttempt DEF Basic
<1>14. ASSUME UNCHANGED <<attempt, rpc>>, phase'[d] = "locked" => phase[d] = "locked"
      PROVE  Holds(d)
  BY <1>14 DEF Holds, locks, In, Calls
<1>15. ASSUME NEW c \in Clients, c # d => phase'[d] = phase[d], c # d => attempt'[d] = attempt[d],
             c # d => rpc'[d] = rpc[d], c = d => phase'[d] # "locked"
      PROVE  Holds(d)
  BY <1>15 DEF Holds, locks, In, Calls
<1>1. ASSUME NEW c \in Clients, BeginAttempt(c) PROVE Holds(d)
  BY <1>0, <1>1, <1>15 DEF BeginAttempt, TypeOK
<1>2. ASSUME NEW c \in Clients, GiveUp(c) \/ AbandonReturns(c) PROVE Holds(d)
  BY <1>0, <1>2, <1>14 DEF GiveUp, AbandonReturns, TypeOK
<1>3. ASSUME NEW c \in Clients,
             \/ CollectTimeout(c) \/ RefreshBegins(c)
             \/ \E l \in Lockers : \/ RefreshAnswered(c, l) \/ RefreshCallFails(c, l)
                                   \/ HandleLateRelease(c, l) \/ Expire(c, l)
      PROVE  Holds(d)
  <2>1. UNCHANGED <<attempt, rpc, phase>>
    BY <1>3 DEF CollectTimeout, RefreshBegins, RefreshAnswered, RefreshCallFails,
       HandleLateRelease, Expire
  <2>2. QED
    BY <1>14, <2>1
<1>4. ASSUME NEW l \in Lockers, LockerForgets(l) PROVE Holds(d)
  BY <1>4, <1>14 DEF LockerForgets
<1>5. ASSUME NEW c \in Clients, NEW a \in Attempts, NEW l \in Lockers,
             \/ HandleLock(c, a, l) \/ LockCallFails(c, a, l) \/ LockAnswerLost(c, a, l)
             \/ DrainGrant(c, a, l)
      PROVE  Holds(d)
  <2>1. PICK st \in CallStates \ {"locked"} : SetCall(c, a, l, st)
    BY <1>5 DEF HandleLock, LockCallFails, LockAnswerLost, DrainGrant, Refusal, CallStates
  <2>2. rpc[c][a][l] # "locked" /\ UNCHANGED <<phase, attempt>>
    BY <1>5 DEF HandleLock, LockCallFails, LockAnswerLost, DrainGrant
  <2>3. QED
    BY <2>1, <2>2, HoldsCall
<1>6. ASSUME NEW c \in Clients, NEW a \in Attempts, NEW l \in Lockers,
             \/ HandleRelease(c, a, l) \/ ReleaseCallFails(c, a, l) \/ ReleaseTimesOut(c, a, l)
      PROVE  Holds(d)
  <2>1. PICK ok \in BOOLEAN : ReleaseReturns(c, a, l, ok)
    BY <1>6 DEF HandleRelease, ReleaseCallFails, ReleaseTimesOut
  <2>2. PICK st \in CallStates \ {"locked"} : SetCall(c, a, l, st)
    BY <2>1 DEF ReleaseReturns, CallStates
  <2>3. rpc[c][a][l] # "locked" /\ UNCHANGED <<phase, attempt>>
    BY <1>6, <2>1 DEF HandleRelease, ReleaseCallFails, ReleaseTimesOut, ReleaseReturns
  <2>4. QED
    BY <2>2, <2>3, HoldsCall
<1>7. ASSUME NEW c \in Clients, NEW l \in Lockers, CollectAnswer(c, l) PROVE Holds(d)
  <2>1. phase'[c] = "locking" /\ UNCHANGED <<phase, attempt>>
    BY <1>7 DEF CollectAnswer
  <2>2. c # d => rpc'[d] = rpc[d]
    BY <1>0, <1>7 DEF CollectAnswer, SetCall, TypeOK
  <2>3. QED
    BY <1>15, <2>1, <2>2
<1>8. ASSUME NEW c \in Clients, LockReturns(c) PROVE Holds(d)
  <2>1. c # d => phase'[d] = phase[d] /\ attempt'[d] = attempt[d] /\ rpc'[d] = rpc[d]
    BY <1>0, <1>8 DEF LockReturns, SetCalls, TypeOK
  <2>2. CASE c # d \/ ~quorumLocked(c)
    <3>1. c = d => phase'[d] # "locked"
      BY <1>0, <1>8, <2>2 DEF LockReturns, TypeOK
    <3>2. QED
      BY <1>15, <2>1, <3>1
  <2>3. CASE c = d /\ quorumLocked(c)
    <3>1. attempt[c] \in Attempts /\ Calls(c) \in [Lockers -> CallStates]
      BY <1>8, CurrentAttempt DEF LockReturns
    <3>2. Move(Calls(c), "denied", "over") \in [Lockers -> CallStates]
      BY <3>1, MoveEffect DEF CallStates
    <3>3. SetCalls(c, Move(Calls(c), "denied", "over")) /\ UNCHANGED attempt
      BY <1>8, <2>3 DEF LockReturns
    <3>4. \A m \in Lockers : rpc'[c][attempt[c]][m] = Move(Calls(c), "denied", "over")[m]
      BY <1>0, <3>1, <3>2, <3>3, SetCallsEffect
    <3>5. locks(c)' = locks(c)
      BY <3>3, <3>4 DEF locks, In, Calls, Move
    <3>6. QED
      BY <2>3, <3>5 DEF Holds, quorumLocked
  <2>4. QED
    BY <2>2, <2>3
<1>9. ASSUME NEW c \in Clients, RefreshReturns(c) PROVE Holds(d)
  <2>1. phase[c] = "locked"
    BY <1>9 DEF RefreshReturns, Basic, RoundsCounted
  <2>2. UNCHANGED <<attempt, rpc>> /\ (phase'[d] = "locked" => phase[d] = "locked")
    BY <1>0, <1>9, <2>1 DEF RefreshReturns, TypeOK
  <2>3. QED
    BY <1>14, <2>2
<1>10. ASSUME NEW c \in Clients, Unlock(c) \/ UnlockRound(c) PROVE Holds(d)
  <2>1. c # d => phase'[d] = phase[d] /\ attempt'[d] = attempt[d] /\ rpc'[d] = rpc[d]
    BY <1>0, <1>10 DEF Unlock, UnlockRound, SetCalls, TypeOK
  <2>2. phase'[c] # "locked"
    BY <1>0, <1>10 DEF Unlock, UnlockRound, TypeOK
  <2>3. QED
    BY <1>15, <2>1, <2>2
<1>11. ASSUME NEW c \in Clients, ClientCrashes(c) PROVE Holds(d)
  BY <1>0, <1>11, <1>15 DEF ClientCrashes, TypeOK
<1>12. ASSUME UNCHANGED vars PROVE Holds(d)
  BY <1>12, <1>14 DEF vars
<1>13. QED
  BY <1>1, <1>2, <1>3, <1>4, <1>5, <1>6, <1>7, <1>8, <1>9, <1>10, <1>11, <1>12
  DEF Next, CallerStep, DrainStep, RefreshStep, ServerStep, CallFault, Quiet

----------------------------------------------------------------------------
(* The inductive invariant and the theorems.                               *)

IInv == Basic /\ WritersAlone /\ GrantsKept /\ NoStrayEntries /\ HeldQuorum

LEMMA IInvInit == Init => IInv
<1> SUFFICES ASSUME Init PROVE IInv
  OBVIOUS
<1>1. Basic
  BY BasicInit
<1>2. \A c \in Clients, l \in Lockers : lockMap[l][c] = 0
  BY DEF Init, NoEntries
<1>3. \A c \in Clients, l \in Lockers : Owed(c, l) = 0
  <2>1. \A c \in Clients, l \in Lockers : Owing(c, l) = {}
    BY DEF Init, Owing, NoCalls, OwedStates
  <2>2. \A c \in Clients, l \in Lockers : lateRel[c][l] = 0
    BY DEF Init
  <2>3. Cardinality({}) = 0
    BY FS_EmptySet
  <2>4. QED
    BY <2>1, <2>2, <2>3 DEF Owed
<1>4. WritersAlone
  BY <1>2, WritersAssumption DEF WritersAlone
<1>5. GrantsKept /\ NoStrayEntries
  BY <1>2, <1>3 DEF GrantsKept, NoStrayEntries
<1>6. HeldQuorum
  BY DEF Init, HeldQuorum
<1>7. QED
  BY <1>1, <1>4, <1>5, <1>6 DEF IInv

LEMMA IInvNext == IInv /\ [Next]_vars => IInv'
<1> SUFFICES ASSUME IInv, [Next]_vars PROVE IInv'
  OBVIOUS
<1>1. Basic /\ WritersAlone /\ GrantsKept /\ NoStrayEntries /\ HeldQuorum
  BY DEF IInv
<1>2. Basic'
  BY <1>1, BasicNext
<1>3. WritersAlone' /\ GrantsKept' /\ NoStrayEntries'
  BY <1>1, <1>2, WritersAloneNext, GrantsKeptNext, NoStrayEntriesNext
<1>4. HeldQuorum'
  <2> SUFFICES ASSUME NEW c \in Clients, phase'[c] = "locked"
               PROVE  Cardinality(locks(c)') >= Quorum(c)
    BY DEF HeldQuorum, Quorum, N, Half
  <2>1. Holds(c)
    BY <1>1, HoldsNext
  <2>2. QED
    BY <1>1, <2>1 DEF Holds, HeldQuorum
<1>5. QED
  BY <1>2, <1>3, <1>4 DEF IInv

\* The inductive invariant holds in every behaviour.
THEOREM IInvInvariant == Spec => []IInv
BY IInvInit, IInvNext, PTL DEF Spec

\* An operation keeps an entry for every grant it counts on or has to give
\* back, at every locker that did not drop one unasked.
THEOREM GrantsAreKept == Spec => []GrantsKept
<1>1. IInv => GrantsKept
  BY DEF IInv
<1>2. QED
  BY <1>1, IInvInvariant, PTL

\* Without failed calls no entry is left that its client will not release.
THEOREM NoEntryIsStray == Spec => []NoStrayEntries
<1>1. IInv => NoStrayEntries
  BY DEF IInv
<1>2. QED
  BY <1>1, IInvInvariant, PTL

\* Two holders in conflict have a locker in common, and it lost an entry.
LEMMA HoldersExclude == IInv => MutualExclusion
<1> SUFFICES ASSUME IInv, NEW c \in Clients, NEW d \in Clients, Conflict(c, d),
                    phase[c] = "locked", phase[d] = "locked"
             PROVE  \E l \in locks(c) \cap locks(d) : l \in lost[c] \cup lost[d]
  BY DEF MutualExclusion
<1>1. locks(c) \in SUBSET Lockers /\ locks(d) \in SUBSET Lockers
  BY DEF locks, In
<1>2. Cardinality(locks(c)) + Cardinality(locks(d)) > N
  <2>1. Cardinality(locks(c)) >= Quorum(c) /\ Cardinality(locks(d)) >= Quorum(d)
    BY DEF IInv, HeldQuorum
  <2>2. QED
    BY <1>1, <2>1, QuorumSum, QuorumNat, NNat, LockersFinite
<1>3. PICK l \in Lockers : l \in locks(c) /\ l \in locks(d)
  BY <1>1, <1>2, QuorumsMeet
<1>4. ASSUME NEW e \in {c, d}, l \notin lost[e] PROVE lockMap[l][e] >= 1
  <2>1. e \in Clients /\ l \in locks(e) /\ phase[e] = "locked"
    BY <1>3
  <2>2. attempt[e] \in Attempts
    BY <2>1, CurrentAttempt DEF IInv
  <2>3. attempt[e] \in Owing(e, l)
    BY <2>1, <2>2 DEF locks, In, Calls, Owing, OwedStates
  <2>4. TypeOK
    BY DEF IInv, Basic
  <2>5. Cardinality(Owing(e, l)) # 0 /\ Cardinality(Owing(e, l)) \in Nat
    BY <2>1, <2>3, <2>4, OwedNat, FS_EmptySet
  <2>6. Owed(e, l) >= 1
    BY <2>1, <2>4, <2>5, OwedNat DEF Owed
  <2>7. lockMap[l][e] >= Owed(e, l)
    BY <1>4, <2>1 DEF IInv, GrantsKept
  <2>8. lockMap[l][e] \in Nat /\ Owed(e, l) \in Nat
    BY <2>1, <2>4, OwedNat DEF TypeOK, Entries
  <2>9. QED
    BY <2>6, <2>7, <2>8
<1>5. ~(lockMap[l][c] >= 1 /\ lockMap[l][d] >= 1)
  <2>1. lockMap[l][c] \in Nat /\ lockMap[l][d] \in Nat
    BY DEF IInv, Basic, TypeOK, Entries
  <2>2. QED
    BY <2>1 DEF IInv, WritersAlone, Conflict
<1>6. QED
  BY <1>3, <1>4, <1>5

\* Mutual exclusion, for any number of lockers, clients, retries and faults:
\* two conflicting holders share a locker that dropped an entry unasked.
THEOREM LocksExclude == Spec => []MutualExclusion
BY HoldersExclude, IInvInvariant, PTL

----------------------------------------------------------------------------
(* DRWMutex implements RWLock, for any number of lockers, clients, retries *)
(* and faults.  Each of its steps changes the abstract state of one        *)
(* operation at most, or drops entries and changes none; that an operation *)
(* acquires the lock only when it may follows from the mutual exclusion of *)
(* the state after that step.                                              *)

Waiting == {"idle", "locking", "releasing", "backoff"}
Ended == {"cancelled", "unlocking", "done", "crashed"}

LEMMA PhaseStates ==
  ASSUME NEW c \in Clients
  PROVE  /\ phase[c] \in Waiting => lockState[c] = "waiting"
         /\ phase[c] = "locked" => lockState[c] = "held"
         /\ phase[c] \in Ended => lockState[c] = "ended"
BY DEF lockState, Waiting, Ended

\* Where phase changes for c alone, so does the abstract state.
LEMMA StateChange ==
  ASSUME TypeOK, NEW c \in Clients, NEW ph, phase' = [phase EXCEPT ![c] = ph]
  PROVE  lockState' = [lockState EXCEPT ![c] = lockState'[c]]
<1>1. \A d \in Clients \ {c} : phase'[d] = phase[d]
  BY DEF TypeOK
<1>2. \A d \in Clients \ {c} : lockState'[d] = lockState[d]
  BY <1>1 DEF lockState
<1>3. lockState = [d \in Clients |-> lockState[d]] /\ lockState' = [d \in Clients |-> lockState'[d]]
  BY DEF lockState
<1>4. QED
  BY <1>2, <1>3

\* Entries are dropped, or nothing that RWLock sees happens.
LEMMA BreakStep ==
  ASSUME UNCHANGED phase, \A d \in Clients : lost[d] \subseteq lost'[d]
  PROVE  RW!Next
<1>1. UNCHANGED lockState
  BY DEF lockState
<1>2. Broken \subseteq Broken' /\ Broken' \in SUBSET Clients
  BY DEF Broken
<1>3. QED
  BY <1>1, <1>2 DEF RW!Next, RW!Break

\* The abstract state of c does not change with its phase.
LEMMA StutterStep ==
  ASSUME TypeOK, UNCHANGED lost, NEW c \in Clients, NEW ph,
         phase' = [phase EXCEPT ![c] = ph],
         \/ phase[c] \in Waiting /\ ph \in Waiting
         \/ phase[c] \in Ended /\ ph \in Ended
         \/ phase[c] = "locked" /\ ph = "locked"
  PROVE  UNCHANGED RW!lockVars
<1>1. phase'[c] = ph
  BY DEF TypeOK
<1>2. lockState'[c] = lockState[c]
  BY <1>1, PhaseStates DEF lockState, Waiting, Ended
<1>3. lockState = [lockState EXCEPT ![c] = lockState[c]]
  BY DEF lockState
<1>4. UNCHANGED lockState
  BY <1>2, <1>3, StateChange
<1>5. UNCHANGED Broken
  BY DEF Broken
<1>6. QED
  BY <1>4, <1>5 DEF RW!lockVars

LEMMA EndStep ==
  ASSUME TypeOK, UNCHANGED lost, NEW c \in Clients, NEW ph \in Ended,
         phase' = [phase EXCEPT ![c] = ph], phase[c] \in Waiting \cup {"locked"}
  PROVE  RW!Next
<1>1. phase'[c] = ph
  BY DEF TypeOK
<1>2. lockState'[c] = "ended"
  BY <1>1 DEF lockState, Ended
<1>3. lockState[c] \in {"waiting", "held"}
  BY PhaseStates
<1>4. UNCHANGED Broken
  BY DEF Broken
<1>5. QED
  BY <1>2, <1>3, <1>4, StateChange DEF RW!Next, RW!End

\* By the mutual exclusion after the step, no operation that excludes c held
\* the lock before it.
LEMMA AcquireStep ==
  ASSUME TypeOK, MutualExclusion', UNCHANGED lost, NEW c \in Clients,
         phase' = [phase EXCEPT ![c] = "locked"], phase[c] \in Waiting
  PROVE  RW!Next
<1>1. phase'[c] = "locked"
  BY DEF TypeOK
<1>2. lockState[c] = "waiting" /\ lockState'[c] = "held"
  BY <1>1, PhaseStates DEF lockState
<1>3. UNCHANGED Broken
  BY DEF Broken
<1>4. ASSUME NEW d \in RW!Conflicting(c), lockState[d] = "held"
      PROVE  {c, d} \cap Broken # {}
  <2>1. d \in Clients /\ d # c /\ (c \in Writers \/ d \in Writers)
    BY <1>4 DEF RW!Conflicting
  <2>2. phase[d] = "locked"
    BY <1>4, <2>1 DEF lockState
  <2>3. phase'[d] = "locked"
    BY <2>1, <2>2 DEF TypeOK
  <2>4. PICK l : l \in lost'[c] \cup lost'[d]
    BY <1>1, <2>1, <2>3 DEF MutualExclusion, Conflict
  <2>5. lost[c] # {} \/ lost[d] # {}
    BY <2>4
  <2>6. QED
    BY <2>1, <2>5 DEF Broken
<1>5. \A d \in RW!Conflicting(c) : ~RW!Excludes(d, c)
  BY <1>4 DEF RW!Excludes
<1>6. QED
  BY <1>2, <1>3, <1>5, StateChange DEF RW!Next, RW!Acquire

----------------------------------------------------------------------------

LEMMA LockInit == Init => RW!Init
<1> SUFFICES ASSUME Init PROVE RW!Init
  OBVIOUS
<1>1. lockState = [c \in Clients |-> "waiting"]
  BY DEF Init, lockState
<1>2. Broken = {}
  BY DEF Init, Broken
<1>3. QED
  BY <1>1, <1>2 DEF RW!Init

LEMMA LockNext == IInv /\ IInv' /\ [Next]_vars => [RW!Next]_(RW!lockVars)
<1> SUFFICES ASSUME IInv, IInv', [Next]_vars PROVE [RW!Next]_(RW!lockVars)
  OBVIOUS
<1> DEFINE Goal == [RW!Next]_(RW!lockVars)
<1>0. TypeOK /\ MutualExclusion'
  BY HoldersExclude, PTL DEF IInv, Basic
<1>1. ASSUME UNCHANGED <<phase, lost>> PROVE Goal
  BY <1>1, BreakStep
<1>2. ASSUME NEW c \in Clients, CallerStep(c) PROVE Goal
  <2>1. CASE BeginAttempt(c) \/ AbandonReturns(c)
    BY <1>0, <2>1, StutterStep DEF BeginAttempt, AbandonReturns, Waiting
  <2>2. CASE GiveUp(c) \/ Unlock(c)
    <3>1. UNCHANGED lost /\ \E ph \in {"done", "unlocking"} : phase' = [phase EXCEPT ![c] = ph]
      BY <2>2 DEF GiveUp, Unlock
    <3>2. CASE phase[c] = "cancelled"
      BY <1>0, <3>1, <3>2, StutterStep DEF Ended
    <3>3. CASE phase[c] # "cancelled"
      <4>1. phase[c] \in Waiting \cup {"locked"}
        BY <2>2, <3>3 DEF GiveUp, Unlock, Waiting
      <4>2. QED
        BY <1>0, <3>1, <4>1, EndStep DEF Ended
    <3>4. QED
      BY <3>2, <3>3
  <2>3. CASE CollectTimeout(c) \/ \E l \in Lockers : CollectAnswer(c, l)
    BY <1>1, <2>3 DEF CollectTimeout, CollectAnswer
  <2>4. CASE LockReturns(c)
    <3>1. phase[c] \in Waiting /\ UNCHANGED lost
      BY <2>4 DEF LockReturns, Waiting
    <3>2. \/ phase' = [phase EXCEPT ![c] = "locked"]
          \/ phase' = [phase EXCEPT ![c] = "releasing"]
      BY <2>4 DEF LockReturns
    <3>3. QED
      BY <1>0, <3>1, <3>2, AcquireStep, StutterStep DEF Waiting
  <2>5. CASE UnlockRound(c)
    <3>1. UNCHANGED lost /\ phase[c] = "unlocking"
      BY <2>5 DEF UnlockRound
    <3>2. UNCHANGED phase \/ phase' = [phase EXCEPT ![c] = "done"]
      BY <2>5 DEF UnlockRound
    <3>3. QED
      BY <1>0, <1>1, <3>1, <3>2, StutterStep DEF Ended
  <2>6. QED
    BY <1>2, <2>1, <2>2, <2>3, <2>4, <2>5 DEF CallerStep
<1>3. ASSUME NEW c \in Clients, DrainStep(c) \/ ServerStep(c) \/ CallFault(c) PROVE Goal
  BY <1>1, <1>3 DEF DrainStep, ServerStep, CallFault, DrainGrant, HandleLateRelease,
     HandleLock, HandleRelease, RefreshCallFails, LockCallFails, LockAnswerLost,
     ReleaseCallFails, ReleaseTimesOut
<1>4. ASSUME NEW c \in Clients, RefreshStep(c) PROVE Goal
  <2>1. UNCHANGED lost
    BY <1>4 DEF RefreshStep, RefreshBegins, RefreshReturns, RefreshAnswered
  <2>2. \/ UNCHANGED phase
        \/ /\ phase[c] = "locked"
           /\ \E ph \in {"locked", "cancelled"} : phase' = [phase EXCEPT ![c] = ph]
    BY <1>4 DEF RefreshStep, RefreshBegins, RefreshReturns, RefreshAnswered, IInv, Basic,
       RoundsCounted
  <2>3. QED
    BY <1>0, <1>1, <2>1, <2>2, StutterStep, EndStep DEF Ended
<1>5. ASSUME NEW c \in Clients, ClientCrashes(c) PROVE Goal
  <2>1. UNCHANGED lost /\ phase' = [phase EXCEPT ![c] = "crashed"]
    BY <1>5 DEF ClientCrashes
  <2>2. CASE phase[c] \in Waiting \cup {"locked"}
    BY <1>0, <2>1, <2>2, EndStep DEF Ended
  <2>3. CASE phase[c] \in Ended
    BY <1>0, <2>1, <2>3, StutterStep DEF Ended
  <2>4. QED
    BY <1>0, <2>2, <2>3 DEF TypeOK, Phases, Waiting, Ended
<1>6. ASSUME NEW l \in Lockers, NEW kept, Drop(l, kept), UNCHANGED phase PROVE Goal
  <2>1. \A d \in Clients : lost[d] \subseteq lost'[d]
    BY <1>6 DEF Drop
  <2>2. QED
    BY <1>6, <2>1, BreakStep
<1>7. ASSUME NEW c \in Clients, NEW l \in Lockers, Expire(c, l) PROVE Goal
  BY <1>6, <1>7 DEF Expire
<1>8. ASSUME NEW l \in Lockers, LockerForgets(l) PROVE Goal
  BY <1>6, <1>8 DEF LockerForgets
<1>9. ASSUME UNCHANGED vars PROVE Goal
  BY <1>1, <1>9 DEF vars
<1>10. QED
  BY <1>2, <1>3, <1>4, <1>5, <1>7, <1>8, <1>9 DEF Next, Quiet

\* DRWMutex keeps what RWLock promises: whatever calls fail, answers come late
\* or lockers forget, no operation acquires the lock while a conflicting one
\* holds it, unless entries of either were dropped.
THEOREM DRWMutexIsRWLock == Spec => IsRWLock
BY LockInit, LockNext, IInvInvariant, PTL DEF Spec, IsRWLock, RW!Spec
=============================================================================
