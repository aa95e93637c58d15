----------------------------- MODULE JobTables -----------------------------
(* The job tables of one user, as far as one posting goes, and the statements  *)
(* the bot and the handlers run on them.  The posting has the id the site      *)
(* gives it and the ids that applications from a pasted address make up.       *)
EXTENDS Naturals, Sequences, FiniteSets

CONSTANTS MaxAttempts        \* bound: submission attempts in a behaviour

ASSUME MaxAttemptsAssumption == MaxAttempts \in Nat \ {0}

Attempts == 1 .. MaxAttempts
Site == 0                    \* the site's own id
Ids == 0 .. MaxAttempts      \* n > 0: the id made up by attempt n

\* Why a posting is in jobs_skipped: for good, or as Cannot Apply, where the
\* text or the failure code tells an unknown submission from the others.
Reasons == {"rejected", "retryable", "unknown"}

\* "other": already_applied, failed, blocked, skipped, cancelled, timed_out.
Outcomes == {"in_progress", "submitted_confirmed", "submission_unknown", "other"}
Unresolved == {"in_progress", "submission_unknown"}

None == [row |-> FALSE]
\* Whether its documents are prepared is left out: a review may be approved or not.
Review(isEasy) == [row |-> TRUE, easy |-> isEasy, tries |-> 0]
MaxTries == 2
Reviews == [row : {TRUE}, easy : BOOLEAN, tries : 0 .. MaxTries]
Entries == [row : {TRUE}, job : SUBSET Ids, link : {"link", "variant"}, outcome : Outcomes]

EmptyDB == [applied |-> {}, skipped |-> [i \in Ids |-> "no"], pending |-> [i \in Ids |-> None],
            queue |-> [i \in Ids |-> "no"], attempts |-> [a \in Attempts |-> None]]

InReview(d, id) == d.pending[id].row
InCannotApply(d, id) == d.skipped[id] \in {"retryable", "unknown"}

\* The pages of the user: each shows the rows of one table that no other page
\* shows.  A suitability below the user's threshold is left out.
AppliedPage(d) == d.applied
SkippedPage(d) == {i \in Ids : d.skipped[i] = "rejected"}
CannotApplyPage(d) == {i \in Ids : InCannotApply(d, i)}
ReviewPage(d) == {i \in Ids : InReview(d, i) /\ d.skipped[i] = "no" /\ d.pending[i].easy}
TopMatchesPage(d) == {i \in Ids : InReview(d, i) /\ d.skipped[i] = "no" /\ ~d.pending[i].easy}

-----------------------------------------------------------------------------
\* Statements.  d is the database, and each yields the database after it.

\* INSERT OR IGNORE INTO jobs_applied.
RecordApplied(d, id) == [d EXCEPT !.applied = @ \cup {id}]

\* INSERT OR IGNORE INTO jobs_skipped: an older reason stays.
RecordSkipped(d, id, why) == IF d.skipped[id] = "no" THEN [d EXCEPT !.skipped[id] = why] ELSE d

\* recordListingFailure: INSERT ... ON CONFLICT DO UPDATE.
RecordListingFailure(d, id, why) == [d EXCEPT !.skipped[id] = why]

\* savePendingReview: INSERT OR REPLACE, which starts the count and the documents anew.
SavePendingReview(d, id, isEasy) == [d EXCEPT !.pending[id] = Review(isEasy)]

\* preserveLinkedInReview for an external application: the count stays.
PreserveReview(d, id) ==
    [d EXCEPT !.pending[id] = IF @.row THEN [@ EXCEPT !.easy = FALSE] ELSE Review(FALSE)]

\* INSERT OR IGNORE INTO jobs_pending_review.
KeepInReview(d, id, isEasy) ==
    IF InReview(d, id) THEN d ELSE SavePendingReview(d, id, isEasy)

\* attempt_count = attempt_count + 1, as far as the cap tells counts apart.
CountTry(d, id) ==
    LET tries == d.pending[id].tries IN
    IF InReview(d, id) /\ tries < MaxTries THEN [d EXCEPT !.pending[id].tries = tries + 1] ELSE d

RemoveReview(d, id) == [d EXCEPT !.pending[id] = None]
RemoveFromQueue(d, id) == [d EXCEPT !.queue[id] = "no"]

\* beginAttempt: an application from an address has no job id yet.
BeginAttempt(d, a, job, link) ==
    [d EXCEPT !.attempts[a] = [row |-> TRUE, job |-> job, link |-> link, outcome |-> "in_progress"]]

\* finishAttempt: UPDATE, and INSERT when the row of the beginning is missing.
FinishAttempt(d, a, job, link, outcome) ==
    [d EXCEPT !.attempts[a] = [row |-> TRUE, job |-> job, link |-> link, outcome |-> outcome]]

\* processEvaluationRetry consumes only rows that still ask for an evaluation.
ConsumeRetry(d, id) == IF d.queue[id] = "evaluate" THEN RemoveFromQueue(d, id) ELSE d

-----------------------------------------------------------------------------
\* The cache of seen jobs (jobSeenCache) and what alreadyAppliedReason says.

SeenKinds == {"new", "already applied", "in skipped list", "in Top Matches", "in approved queue"}

ReasonInTables(d, id) ==
    IF id \in d.applied THEN "already applied"
    ELSE IF d.skipped[id] # "no" THEN "in skipped list"
    ELSE IF InReview(d, id) THEN "in Top Matches"
    ELSE IF d.queue[id] # "no" THEN "in approved queue"
    ELSE "new"

LoadCache(d) == [i \in Ids |-> ReasonInTables(d, i)]
NoCache == [i \in Ids |-> "new"]

\* Applied always wins.
Mark(cache, id, kind) ==
    [cache EXCEPT ![id] = IF @ = "already applied" THEN @ ELSE kind]

SeenReason(cache, d, id) == IF cache[id] # "new" THEN cache[id] ELSE ReasonInTables(d, id)
=============================================================================
