------------------------------- MODULE RWLock -------------------------------
(***************************************************************************)
(* What a lock on one resource promises to those who use it through        *)
(* RWLocker (cmd/namespace-lock.go): GetLock or GetRLock succeeds once at  *)
(* most per operation, never while a conflicting one holds the lock, and   *)
(* nothing takes a lock from its holder but its own Unlock, its context    *)
(* being cancelled, or its process dying.                                  *)
(*                                                                         *)
(* A distributed lock cannot promise this of an operation whose entries    *)
(* the lock servers dropped unasked, by expiry, a restart or a force       *)
(* unlock: such an operation is broken, and broken ones exclude nobody.    *)
(***************************************************************************)
CONSTANTS Clients,   \* lock operations
          Writers    \* the ones that ask for a write lock; the others read

VARIABLES
    state,      \* waiting for the lock, holding it, or ended
    broken      \* the operations whose entries were dropped

lockVars == <<state, broken>>

States == {"waiting", "held", "ended"}

Init == /\ state = [c \in Clients |-> "waiting"]
        /\ broken = {}

Conflicting(c) == {d \in Clients \ {c} : c \in Writers \/ d \in Writers}
Excludes(d, c) == state[d] = "held" /\ {c, d} \cap broken = {}

\* The lock is held from now on.
Acquire(c) == /\ state[c] = "waiting"
              /\ \A d \in Conflicting(c) : ~Excludes(d, c)
              /\ state' = [state EXCEPT ![c] = "held"]
              /\ UNCHANGED broken

\* Unlock, a cancelled context, a crash; or the wait was given up.
End(c) == /\ state[c] \in {"waiting", "held"}
          /\ state' = [state EXCEPT ![c] = "ended"]
          /\ UNCHANGED broken

\* A lock server drops entries.
Break == /\ broken' \in SUBSET Clients
         /\ broken \subseteq broken'
         /\ UNCHANGED state

Next == Break \/ \E c \in Clients : Acquire(c) \/ End(c)
Spec == Init /\ [][Next]_lockVars
=============================================================================
