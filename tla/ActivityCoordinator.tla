------------------------- MODULE ActivityCoordinator -------------------------
(***************************************************************************)
(* The lock between document work and retention clean-up of one user       *)
(* (internal/retention/coordinator.go).  Any number of goroutines may hold *)
(* a work guard, and one goroutine may hold several, nested; an eviction   *)
(* runs alone.  The critical sections of userActivity.mu are the steps: a  *)
(* caller that finds its predicate true sleeps and polls again, which is   *)
(* an action that is not enabled yet.                                      *)
(***************************************************************************)
EXTENDS Naturals, FiniteSets

CONSTANTS Tasks,       \* goroutines that call BeginWork and EndWork
          Evictors,    \* goroutines that call WithEviction
          MaxNesting   \* guards one goroutine may hold at once

ASSUME CoordinatorAssumption ==
    /\ IsFiniteSet(Tasks)
    /\ MaxNesting \in Nat \ {0}

VARIABLES activeWork,  \* userActivity.activeWork
          evicting,    \* userActivity.evicting
          depth,       \* how many guards each task holds
          beginning,   \* the tasks inside BeginWork
          eviction     \* where each evictor is: "none", "waiting", "running"

coordinatorVars == <<activeWork, evicting, depth, beginning, eviction>>

CoordinatorInit ==
    /\ activeWork = 0
    /\ evicting = FALSE
    /\ depth = [t \in Tasks |-> 0]
    /\ beginning = {}
    /\ eviction = [e \in Evictors |-> "none"]
-----------------------------------------------------------------------------
(* A task calls BeginWork; it may hold guards already. *)
CallBeginWork(t) ==
    /\ t \notin beginning
    /\ depth[t] < MaxNesting
    /\ beginning' = beginning \union {t}
    /\ UNCHANGED <<activeWork, evicting, depth, eviction>>

(* BeginWork polls while an eviction runs and then counts the work. *)
BeginWork(t) ==
    /\ t \in beginning
    /\ ~evicting
    /\ activeWork' = activeWork + 1
    /\ depth' = [depth EXCEPT ![t] = @ + 1]
    /\ beginning' = beginning \ {t}
    /\ UNCHANGED <<evicting, eviction>>

(* The caller's context ends first: waitWhileLocked returns its error, and *)
(* no guard was taken.                                                     *)
AbandonBeginWork(t) ==
    /\ t \in beginning
    /\ beginning' = beginning \ {t}
    /\ UNCHANGED <<activeWork, evicting, depth, eviction>>

(* Mutant of EndWork: the count is a flag, and an inner guard clears it. *)
EndWorkClears(t) ==
    /\ t \notin beginning
    /\ depth[t] > 0
    /\ activeWork' = 0
    /\ depth' = [depth EXCEPT ![t] = @ - 1]
    /\ UNCHANGED <<evicting, beginning, eviction>>

EndWork(t) ==
    /\ t \notin beginning
    /\ depth[t] > 0
    /\ activeWork' = IF activeWork > 0 THEN activeWork - 1 ELSE activeWork
    /\ depth' = [depth EXCEPT ![t] = @ - 1]
    /\ UNCHANGED <<evicting, beginning, eviction>>

-----------------------------------------------------------------------------
(* Mutant of CallEviction: the eviction announces itself before it waits. *)
CallEvictionFirst(e) ==
    /\ eviction[e] = "none"
    /\ eviction' = [eviction EXCEPT ![e] = "waiting"]
    /\ evicting' = TRUE
    /\ UNCHANGED <<activeWork, depth, beginning>>

CallEviction(e) ==
    /\ eviction[e] = "none"
    /\ eviction' = [eviction EXCEPT ![e] = "waiting"]
    /\ UNCHANGED <<activeWork, evicting, depth, beginning>>

(* Mutant of Evict: an eviction does not wait for work under way. *)
EvictBesideWork(e) ==
    /\ eviction[e] = "waiting"
    /\ ~evicting
    /\ evicting' = TRUE
    /\ eviction' = [eviction EXCEPT ![e] = "running"]
    /\ UNCHANGED <<activeWork, depth, beginning>>

(* WithEviction polls while there is work or another eviction, and only    *)
(* then takes the flag: a waiting eviction does not hold new work back.    *)
Evict(e) ==
    /\ eviction[e] = "waiting"
    /\ activeWork = 0
    /\ ~evicting
    /\ evicting' = TRUE
    /\ eviction' = [eviction EXCEPT ![e] = "running"]
    /\ UNCHANGED <<activeWork, depth, beginning>>

AbandonEviction(e) ==
    /\ eviction[e] = "waiting"
    /\ eviction' = [eviction EXCEPT ![e] = "none"]
    /\ UNCHANGED <<activeWork, evicting, depth, beginning>>

(* Mutant of EndEviction: the flag is not reset. *)
EndEvictionForgets(e) ==
    /\ eviction[e] = "running"
    /\ eviction' = [eviction EXCEPT ![e] = "none"]
    /\ UNCHANGED <<activeWork, evicting, depth, beginning>>

(* The deferred reset, whatever the clean-up returned. *)
EndEviction(e) ==
    /\ eviction[e] = "running"
    /\ evicting' = FALSE
    /\ eviction' = [eviction EXCEPT ![e] = "none"]
    /\ UNCHANGED <<activeWork, depth, beginning>>

(* The process ends: the coordinator lives in memory only. *)
Restart ==
    /\ activeWork' = 0
    /\ evicting' = FALSE
    /\ depth' = [t \in Tasks |-> 0]
    /\ beginning' = {}
    /\ eviction' = [e \in Evictors |-> "none"]

CoordinatorNext ==
    \/ \E t \in Tasks : \/ CallBeginWork(t)
                        \/ BeginWork(t)
                        \/ AbandonBeginWork(t)
                        \/ EndWork(t)
    \/ \E e \in Evictors : \/ CallEviction(e)
                           \/ Evict(e)
                           \/ AbandonEviction(e)
                           \/ EndEviction(e)
    \/ Restart

CoordinatorSpec == CoordinatorInit /\ [][CoordinatorNext]_coordinatorVars
-----------------------------------------------------------------------------
CoordinatorTypeOK ==
    /\ activeWork \in Nat
    /\ evicting \in BOOLEAN
    /\ depth \in [Tasks -> 0..MaxNesting]
    /\ beginning \subseteq Tasks
    /\ eviction \in [Evictors -> {"none", "waiting", "running"}]

Working(t) == depth[t] > 0

Running == {e \in Evictors : eviction[e] = "running"}

(* "Cleanup excludes active work and other cleanup": while one eviction    *)
(* runs no task holds a guard, at any depth, and no other eviction runs.   *)
Exclusive ==
    /\ \A e, f \in Running : e = f
    /\ Running # {} => \A t \in Tasks : ~Working(t)

(* "Nested materialization/download guards remain valid": a task that      *)
(* holds a guard and asks for another never finds an eviction in its way,  *)
(* also when one is waiting, so it cannot wait for the eviction that waits *)
(* for it.                                                                 *)
NestedNeverBlocked ==
    \A t \in beginning : Working(t) => ~evicting
=============================================================================
