------------------------------ MODULE LLMReuse ------------------------------
(***************************************************************************)
(* Calls of the LLM client for one content, of one user: the row of        *)
(* llm_generation_cache that callers with the same fingerprint share, the  *)
(* provider calls with their retries, and the usage events that charge     *)
(* them.  A caller that finds the row taken waits for it; a lease that     *)
(* runs out lets the next caller take over, under the operation id the     *)
(* row was inserted with.                                                  *)
(*                                                                         *)
(* A caller is one Chat, ChatValidated or ChatWithImage.  Its lease token  *)
(* and its own operation id are fresh, so the caller stands for both, and  *)
(* for the answer its provider calls bring.  A step is one SQL statement,  *)
(* the billing transaction, or one half of a provider call.                *)
(***************************************************************************)
EXTENDS Naturals

CONSTANTS Callers,          \* goroutines, each making one call
          Kind,             \* how each of them calls
          NoCaller,         \* no owner, no operation, no answer
          MaxAttempts,      \* provider calls of a Chat (3)
          MaxContention,    \* rounds of Begin (maxBeginContention, 12)
          MaxFaults,        \* bound: failing statements
          MaxLapses,        \* bound: leases that run out
          MaxCrashes        \* bound: crashes of the server

\* "reuse" shares the row, "fresh" sets BypassReuse, "vision" sends an image.
ASSUME LLMAssumption ==
    /\ Kind \in [Callers -> {"reuse", "fresh", "vision"}]
    /\ NoCaller \notin Callers
    /\ MaxAttempts \in Nat \ {0} /\ MaxContention \in Nat \ {0}
    /\ MaxFaults \in Nat /\ MaxLapses \in Nat /\ MaxCrashes \in Nat

VARIABLES row,              \* the cache row
          unexpired,        \* lease_until is in the future
          charges,          \* credits burned: how often, by operation id
          failed,           \* operations with a ":failed" usage event
          cancelled,        \* callers whose context is cancelled
          pc,               \* where each caller is
          loc,              \* what each caller carries
          faults, lapses, crashes

store == <<row, unexpired>>
ledger == <<charges, failed>>
bounds == <<faults, lapses, crashes>>
vars == <<row, unexpired, charges, failed, cancelled, pc, loc,
          faults, lapses, crashes>>

Reusers == {c \in Callers : Kind[c] = "reuse"}

BeginPcs == {"begin", "insert", "reclaim", "recover", "wait"}
\* The heartbeat runs from the first attempt until Chat returns.
BeatPcs == {"call", "provider", "bill", "validate", "complete"}
EndPcs == {"answered", "failed", "dead"}
Pcs == {"idle", "checks", "return", "cleanup"} \cup BeginPcs \cup BeatPcs \cup EndPcs

NoRow == [state |-> "none", owner |-> NoCaller, op |-> NoCaller,
          response |-> NoCaller]

Init == /\ row = NoRow /\ unexpired = FALSE
        /\ charges = [c \in Callers |-> 0] /\ failed = {}
        /\ cancelled = {}
        /\ pc = [c \in Callers |-> "idle"]
        /\ loc = [c \in Callers |-> [op |-> c, round |-> 1, attempt |-> 1,
                                     response |-> NoCaller]]
        /\ faults = 0 /\ lapses = 0 /\ crashes = 0

Goto(c, at) == pc' = [pc EXCEPT ![c] = at] /\ UNCHANGED loc
Become(c, at, l) == pc' = [pc EXCEPT ![c] = at] /\ loc' = [loc EXCEPT ![c] = l]

Live(c) == c \notin cancelled
Fault == /\ faults < MaxFaults
         /\ faults' = faults + 1
         /\ UNCHANGED <<lapses, crashes>>

----------------------------------------------------------------------------
(* Begin.  Every round reads the row; what it finds decides one further    *)
(* statement.  A statement that changed no row is contention: one more     *)
(* round, until there were MaxContention.                                  *)

\* Chat and ChatValidated with a store, a user, a task and no bypass go
\* through Begin; the others have no row and no lease.
Start(c) ==
    /\ pc[c] = "idle"
    /\ Goto(c, IF Kind[c] = "reuse" THEN "begin" ELSE "checks")
    /\ UNCHANGED <<store, ledger, cancelled, bounds>>

Contention(c) ==
    IF loc[c].round < MaxContention
      THEN Become(c, "begin", [loc[c] EXCEPT !.round = @ + 1])
      ELSE Goto(c, "failed")

\* Where a round goes from what it read.
Found == CASE row.state = "none" -> "insert"
           [] row.state = "completed" -> "return"
           [] row.state = "in_progress" -> IF unexpired THEN "wait" ELSE "recover"
           [] row.state = "failed_uncertain" -> "reclaim"

\* The operation a caller works under: the row's if there is one.
\* Mutant of StoredOp: a take-over bills under the caller's own operation.
StoredOpOwn(c) == c
StoredOp(c) == IF row.state = "none" THEN c ELSE row.op

BeginRead(c) ==
    /\ pc[c] = "begin" /\ Live(c)
    /\ Become(c, Found, [loc[c] EXCEPT !.op = StoredOp(c), !.response = row.response])
    /\ UNCHANGED <<store, ledger, cancelled, bounds>>

Acquire(c, op) ==
    /\ row' = [row EXCEPT !.state = "in_progress", !.owner = c, !.op = op]
    /\ unexpired' = TRUE

Insert(c) ==
    /\ pc[c] = "insert" /\ Live(c)
    /\ IF row.state = "none"
         THEN Acquire(c, c) /\ Become(c, "checks", [loc[c] EXCEPT !.op = c, !.round = 1])
         ELSE Contention(c) /\ UNCHANGED store
    /\ UNCHANGED <<ledger, cancelled, bounds>>

Reclaim(c) ==
    /\ pc[c] = "reclaim" /\ Live(c)
    /\ IF row.state = "failed_uncertain"
         THEN Acquire(c, row.op) /\ Become(c, "checks", [loc[c] EXCEPT !.round = 1])
         ELSE Contention(c) /\ UNCHANGED store
    /\ UNCHANGED <<ledger, cancelled, bounds>>

\* recoverStaleLease looks at the lease again in its WHERE clause.
\* Mutant of Stale: it trusts what the round read.
StaleAsRead == row.state = "in_progress"
Stale == row.state = "in_progress" /\ ~unexpired

Recover(c) ==
    /\ pc[c] = "recover" /\ Live(c)
    /\ row' = IF Stale THEN [row EXCEPT !.state = "failed_uncertain"] ELSE row
    /\ Contention(c)
    /\ UNCHANGED <<unexpired, ledger, cancelled, bounds>>

\* A poll of waitForCompletion.  It does not look at the lease.
WaitEnds(c) ==
    /\ pc[c] = "wait" /\ Live(c)
    /\ \/ /\ row.state = "completed"
          /\ Become(c, "return", [loc[c] EXCEPT !.response = row.response])
       \/ row.state = "failed_uncertain" /\ Contention(c)
    /\ UNCHANGED <<store, ledger, cancelled, bounds>>

\* Ninety seconds of polling are over.
\* Mutant of WaitTimesOut: only a cancelled context ends the wait.
WaitTimesOutNever(c) == FALSE /\ UNCHANGED vars
WaitTimesOut(c) ==
    /\ pc[c] = "wait" /\ row.state = "in_progress"
    /\ Goto(c, "failed")
    /\ UNCHANGED <<store, ledger, cancelled, bounds>>

\* A statement of Begin fails, or finds the context cancelled.
BeginFails(c) ==
    /\ pc[c] \in BeginPcs
    /\ \/ ~Live(c) /\ UNCHANGED bounds
       \/ Fault
    /\ Goto(c, "failed")
    /\ UNCHANGED <<store, ledger, cancelled>>

----------------------------------------------------------------------------
(* The provider call.  From "checks" on a reuser holds the lease, so every *)
(* way out but success goes through "cleanup".                             *)

\* The cost ceiling and the quota let the call pass or refuse it.
Checks(c) ==
    /\ pc[c] = "checks"
    /\ \E at \in {"call", "cleanup"} : Goto(c, at)
    /\ UNCHANGED <<store, ledger, cancelled, bounds>>

CallProvider(c) ==
    /\ pc[c] = "call" /\ Live(c)
    /\ Goto(c, "provider")
    /\ UNCHANGED <<store, ledger, cancelled, bounds>>

Attempts(c) == IF Kind[c] = "vision" THEN 1 ELSE MaxAttempts

\* The provider answers; a 4xx other than 429 ends the call; anything else
\* that goes wrong (429, 5xx, an empty or garbled body) is tried again, and
\* the last such error of a Chat is recorded without a charge.
ProviderAnswers(c) ==
    /\ pc[c] = "provider" /\ Live(c)
    /\ Goto(c, "bill")
    /\ UNCHANGED <<store, ledger, cancelled, bounds>>

ProviderRefuses(c) ==
    /\ pc[c] = "provider" /\ Live(c)
    /\ Goto(c, "cleanup")
    /\ UNCHANGED <<store, ledger, cancelled, bounds>>

ProviderErrs(c) ==
    /\ pc[c] = "provider" /\ Live(c)
    /\ IF loc[c].attempt < Attempts(c)
         THEN /\ Become(c, "call", [loc[c] EXCEPT !.attempt = @ + 1])
              /\ UNCHANGED <<failed, bounds>>
         ELSE /\ Become(c, "cleanup", [loc[c] EXCEPT !.attempt = 1])
              /\ \/ /\ failed' = failed \cup (IF Kind[c] = "vision" THEN {} ELSE {loc[c].op})
                    /\ UNCHANGED bounds
                 \/ Fault /\ UNCHANGED failed
    /\ UNCHANGED <<store, charges, cancelled>>

\* A cancelled context is noticed before the next attempt, inside the HTTP
\* call, after it, after validation, and by Complete's statement.
Interrupted(c) ==
    /\ pc[c] \in BeatPcs \ {"bill"} /\ ~Live(c)
    /\ Goto(c, "cleanup")
    /\ UNCHANGED <<store, ledger, cancelled, bounds>>

----------------------------------------------------------------------------
(* Billing.  recordUsage runs before the provider function returns; the    *)
(* operation id is the idempotency key, and a conflict counts as success.  *)

Billed(c) == charges[loc[c].op] > 0

Bill(c) ==
    /\ pc[c] = "bill" /\ Live(c)
    /\ charges' = IF Billed(c) THEN charges
                              ELSE [charges EXCEPT ![loc[c].op] = @ + 1]
    /\ Become(c, IF Kind[c] = "vision" THEN "return" ELSE "validate",
              [loc[c] EXCEPT !.response = c, !.attempt = 1])
    /\ UNCHANGED <<store, failed, cancelled, bounds>>

BillFails(c) ==
    /\ pc[c] = "bill"
    /\ \/ ~Live(c) /\ UNCHANGED bounds
       \/ Fault
    /\ Goto(c, "cleanup")
    /\ UNCHANGED <<store, ledger, cancelled>>

----------------------------------------------------------------------------
(* Publishing and the lease.                                               *)

\* ChatValidated's validator accepts or rejects; a rejected answer was
\* charged all the same.
Validate(c) ==
    /\ pc[c] = "validate" /\ Live(c)
    /\ \E at \in {IF Kind[c] = "reuse" THEN "complete" ELSE "return", "cleanup"} :
          Goto(c, at)
    /\ UNCHANGED <<store, ledger, cancelled, bounds>>

\* The WHERE clause of RenewLease, Complete and MarkFailedUncertain.
Owns(c) == row.state = "in_progress" /\ row.owner = c

Complete(c) ==
    /\ pc[c] = "complete" /\ Live(c)
    /\ IF Owns(c)
         THEN /\ row' = [row EXCEPT !.state = "completed", !.response = loc[c].response]
              /\ unexpired' = FALSE
              /\ Goto(c, "return")
         ELSE Goto(c, "cleanup") /\ UNCHANGED store
    /\ UNCHANGED <<ledger, cancelled, bounds>>

CompleteFails(c) ==
    /\ pc[c] = "complete"
    /\ Fault
    /\ Goto(c, "cleanup")
    /\ UNCHANGED <<store, ledger, cancelled>>

\* The answer reaches the caller; a hit is validated first and may be refused.
Return(c) ==
    /\ pc[c] = "return"
    /\ \/ Goto(c, "answered")
       \/ loc[c].response # c /\ Goto(c, "failed")
    /\ UNCHANGED <<store, ledger, cancelled, bounds>>

CanCleanUp(c) == TRUE

CleanUp(c) ==
    /\ pc[c] = "cleanup"
    /\ row' = IF Owns(c) /\ CanCleanUp(c)
                THEN [row EXCEPT !.state = "failed_uncertain"] ELSE row
    /\ Goto(c, "failed")
    /\ UNCHANGED <<unexpired, ledger, cancelled, bounds>>

CleanUpFails(c) ==
    /\ pc[c] = "cleanup"
    /\ Fault
    /\ Goto(c, "failed")
    /\ UNCHANGED <<store, ledger, cancelled>>

Beats(c) == Kind[c] = "reuse" /\ pc[c] \in BeatPcs /\ Live(c)

\* Every 45 seconds: renew, and cancel the call if the row is not ours.
Heartbeat(c) ==
    /\ Beats(c)
    /\ IF Owns(c)
         THEN unexpired' = TRUE /\ UNCHANGED cancelled
         ELSE cancelled' = cancelled \cup {c} /\ UNCHANGED unexpired
    /\ UNCHANGED <<row, ledger, pc, loc, bounds>>

HeartbeatFails(c) ==
    /\ Beats(c)
    /\ Fault
    /\ cancelled' = cancelled \cup {c}
    /\ UNCHANGED <<store, ledger, pc, loc>>

----------------------------------------------------------------------------
(* The environment.                                                        *)

\* The request is cancelled, or the task's timeout runs out.
Cancel(c) ==
    /\ pc[c] \in BeginPcs \cup BeatPcs \cup {"checks"} /\ Live(c)
    /\ cancelled' = cancelled \cup {c}
    /\ UNCHANGED <<store, ledger, pc, loc, bounds>>

LeaseLapses ==
    /\ unexpired /\ row.state = "in_progress" /\ lapses < MaxLapses
    /\ unexpired' = FALSE
    /\ lapses' = lapses + 1
    /\ UNCHANGED <<row, ledger, cancelled, pc, loc, faults, crashes>>

Running(c) == pc[c] \notin EndPcs \cup {"idle"}

Crash ==
    /\ crashes < MaxCrashes /\ \E c \in Callers : Running(c)
    /\ crashes' = crashes + 1
    /\ pc' = [c \in Callers |-> IF Running(c) THEN "dead" ELSE pc[c]]
    /\ UNCHANGED <<store, ledger, cancelled, loc, faults, lapses>>

Step(c) == \/ Start(c) \/ BeginRead(c) \/ Insert(c) \/ Reclaim(c) \/ Recover(c)
           \/ WaitEnds(c) \/ WaitTimesOut(c) \/ BeginFails(c)
           \/ Checks(c) \/ CallProvider(c) \/ ProviderAnswers(c)
           \/ ProviderRefuses(c) \/ ProviderErrs(c) \/ Interrupted(c)
           \/ Bill(c) \/ BillFails(c) \/ Validate(c)
           \/ Complete(c) \/ CompleteFails(c) \/ Return(c)
           \/ CleanUp(c) \/ CleanUpFails(c)

Next == \/ \E c \in Callers : Step(c) \/ Heartbeat(c) \/ HeartbeatFails(c) \/ Cancel(c)
        \/ LeaseLapses \/ Crash

Spec == Init /\ [][Next]_vars

\* A goroutine goes on, HTTP calls and polls end; nothing is asked of the
\* heartbeat, of cancellations or of leases.
FairSpec == Spec /\ \A c \in Callers : WF_vars(Step(c))

----------------------------------------------------------------------------
(* What should hold.                                                       *)

TypeOK ==
    /\ row \in [state : {"none", "in_progress", "completed", "failed_uncertain"},
                owner : Callers \cup {NoCaller}, op : Callers \cup {NoCaller},
                response : Callers \cup {NoCaller}]
    /\ unexpired \in BOOLEAN
    /\ charges \in [Callers -> Nat] /\ failed \subseteq Callers
    /\ cancelled \subseteq Callers
    /\ pc \in [Callers -> Pcs]
    /\ loc \in [Callers -> [op : Callers, round : 1..MaxContention,
                            attempt : 1..MaxAttempts,
                            response : Callers \cup {NoCaller}]]
    /\ faults \in 0..MaxFaults /\ lapses \in 0..MaxLapses /\ crashes \in 0..MaxCrashes

\* All callers of one content together are charged once, whatever retries,
\* rejected answers, take-overs and crashes there are; an answer is published
\* only after the charge, and whoever is answered gets the published answer.
Content == INSTANCE OneCall
           WITH Callers <- Reusers, Answers <- Reusers, NoAnswer <- NoCaller,
                Charges <- Reusers \X (1..2),
                charged <- {x \in Reusers \X (1..2) : x[2] <= charges[x[1]]},
                published <- row.response,
                told <- {<<c, loc[c].response>> : c \in {d \in Reusers : pc[d] = "answered"}}

ContentChargedOnce == Content!Spec

\* A caller at work whose lease has not run out keeps it until it is done:
\* no other caller's Begin, however stale what it read, takes it away.
Holds(c) == Owns(c) /\ Running(c)
LeaseKept == \A c \in Callers :
    Holds(c) /\ unexpired => Holds(c)' \/ ~Running(c)' \/ row'.state = "completed"
FreshLeaseKept == [][LeaseKept]_vars

\* Every call returns, also one that waits for a holder that died.
EveryCallReturns == \A c \in Callers : (pc[c] = "begin") ~> (pc[c] \in EndPcs)
=============================================================================
