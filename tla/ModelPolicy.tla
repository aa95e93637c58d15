---------------------------- MODULE ModelPolicy ----------------------------
(***************************************************************************)
(* From an evaluation to production: an administrator approves what a run   *)
(* recommends as the model of its task, and may roll the approval back      *)
(* (internal/eval/policy); every call of the task resolves its model from   *)
(* the approved policy, the user's own choice, or the global settings       *)
(* (internal/llmpolicy).                                                    *)
(*                                                                          *)
(* A request reads the recommendation and its run first, and writes the     *)
(* policy and its audit row in a transaction of its own afterwards: the     *)
(* run, and other requests, go on in between.                               *)
(***************************************************************************)
EXTENDS EvaluationRun

CONSTANT MaxDecisions   \* bound: approvals and rollbacks

ASSUME PolicyConstants == MaxDecisions \in Nat

VARIABLES
  policy,     \* the task's row of task_model_policies, if there
  audit,      \* the newest row of model_policy_audit
  approving,  \* the candidate an approval has checked, or "none"
  decisions

vars == <<runVars, policy, audit, approving, decisions>>

\* previous_json: the spec in force before, "inherit" for none, "null" when
\* there is nothing to go back to.  spec is meaningless when the row is not there.
NoRow == [there |-> FALSE, spec |-> Baseline, previous |-> "null", run |-> "earlier"]
Inforce(p) == IF p.there THEN p.spec ELSE "inherit"

\* Where earlier decisions may have left the task: nothing approved; its first
\* approval in force; or that approval back in force, after a later one was
\* rolled back.
Init ==
  /\ RunInit
  /\ policy = CASE plan.incumbent = "inherit"  -> NoRow
                [] plan.incumbent = "approved" -> [NoRow EXCEPT !.there = TRUE, !.previous = "inherit"]
                [] plan.incumbent = "restored" -> [NoRow EXCEPT !.there = TRUE]
  /\ audit = CASE plan.incumbent = "inherit"  -> [kind |-> "none", previous |-> "inherit", new |-> "inherit"]
               [] plan.incumbent = "approved" -> [kind |-> "approve", previous |-> "inherit", new |-> Baseline]
               [] plan.incumbent = "restored" -> [kind |-> "rollback", previous |-> Baseline, new |-> Baseline]
  /\ approving = "none"
  /\ decisions = 0

-----------------------------------------------------------------------------
(* Approving. *)

\* What the list of recommendations offers to approve.
Approvable(s) ==
  /\ recs[s] = "recommend"
  /\ Real /\ plan.purpose = "benchmark" /\ row.status = "completed"

\* The recommendation and its run are read and checked once more.
ApproveRecommendation(s) ==
  /\ approving = "none" /\ decisions < MaxDecisions
  /\ Approvable(s)
  /\ s \notin plan.foreign \cup plan.unsupported
  /\ Resolve(s)
  /\ results[s] > 0
  /\ approving' = s
  /\ UNCHANGED <<runVars, policy, audit, decisions>>

\* The policy and its audit row, in one transaction.
applyPolicyTx ==
  /\ approving # "none"
  /\ policy' = [there |-> TRUE, spec |-> approving, previous |-> Inforce(policy), run |-> "this"]
  /\ audit' = [kind |-> "approve", previous |-> Inforce(policy), new |-> approving]
  /\ approving' = "none"
  /\ decisions' = decisions + 1
  /\ UNCHANGED runVars

\* Mutant of Restored: what was before the restored policy is kept.
RestoredTwice(p) == [p EXCEPT !.spec = p.previous]

\* The policy goes back; its run and its approver stay those of the approval.
Restored(p) == [p EXCEPT !.spec = p.previous, !.previous = "null"]

\* What the page offers to roll back.
RollbackPreview == policy.there /\ policy.previous # "null"

Rollback ==
  /\ decisions < MaxDecisions
  /\ RollbackPreview
  /\ policy' = IF policy.previous = "inherit" THEN NoRow ELSE Restored(policy)
  /\ audit' = [kind |-> "rollback", previous |-> policy.spec, new |-> policy.previous]
  /\ decisions' = decisions + 1
  /\ UNCHANGED <<runVars, approving>>

-----------------------------------------------------------------------------
(* Production. *)

ApprovedPolicy == IF policy.there THEN {policy.spec} ELSE {}

\* The global model is the baseline's; the user's own choice, when there is one,
\* comes before it and after the approved policy, which must be of the base
\* provider and in the billing catalog.
ResolveTaskModel(userChoice) ==
  CASE policy.there -> [source |-> "policy_approved",
                        specs |-> {s \in ApprovedPolicy : s \notin plan.foreign /\ Resolve(s)}]
    [] ~policy.there /\ userChoice -> [source |-> "user_override", specs |-> {}]
    [] ~policy.there /\ ~userChoice -> [source |-> "global", specs |-> {Baseline}]

\* The spec a call of the task is made with: none when it is refused, or when it
\* is the user's own.
ApplyTask(userChoice) ==
  {s \in ResolveTaskModel(userChoice).specs : s \notin plan.unsupported}

-----------------------------------------------------------------------------
Next ==
  \/ RunNext /\ UNCHANGED <<policy, audit, approving, decisions>>
  \/ \E s \in Candidates : ApproveRecommendation(s)
  \/ applyPolicyTx
  \/ Rollback

Spec == Init /\ [][Next]_vars /\ RunFairness

TypeOK ==
  /\ RunTypeOK
  /\ policy.previous \in Specs \cup {"inherit", "null"} /\ policy.spec \in Specs
  /\ audit.kind \in {"none", "approve", "rollback"}
  /\ approving \in Candidates \cup {"none"}
  /\ decisions \in 0..(MaxDecisions + 1)

\* A model that an approval put in production in place of another answered
\* every case of a finished real benchmark of models of one provider, and is
\* one the evaluation could price: neither a worker that gave up, nor a model
\* that became unavailable, nor a decision taken while the run went on lets
\* another through (candidateCoverageComplete, ApproveRecommendation).
ServedIsProven ==
  \A s \in Candidates, userChoice \in BOOLEAN :
    s \in ApplyTask(userChoice) =>
      /\ ResolveTaskModel(userChoice).source = "policy_approved"
      /\ results[s] = Cases
      /\ Real /\ plan.purpose = "benchmark" /\ row.status \in {"completed", "failed"}
      /\ Resolve(s)
      /\ Cardinality(Distinct(DOMAIN plan.dataset)) >= MinCases

\* A rollback is on offer only when it undoes the newest decision: the audit's
\* last row is then the approval of the model in force, and names the state the
\* rollback goes back to.  After a rollback none is offered.
RollbackUndoesLast ==
  RollbackPreview =>
    /\ audit.kind = "approve"
    /\ audit.new = policy.spec
    /\ audit.previous = policy.previous
=============================================================================
