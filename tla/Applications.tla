---------------------------- MODULE Applications ----------------------------
(* Everything that applies to one posting of one user, side by side: the bot's  *)
(* run (approved queue, evaluation retries, Top Matches, search), an approval,  *)
(* applications from a pasted address, and the user's handlers.  All meet in    *)
(* the job tables and in the log of attempts, statement by statement.           *)
EXTENDS JobTables

CONSTANTS
    Scenarios,               \* bounds: the site, how many attempts, and how many disturbances
                             \* (statements that fail, crashes, the user's other requests)
    Urls                     \* requests to apply from an address

ASSUME ScenariosAssumption ==
    Scenarios \subseteq [site : {"linkedin", "seek"}, attempts : 1 .. MaxAttempts, disturbances : Nat]
ASSUME UrlsAssumption == Urls \cap {"bot", "approver", "user", "no"} = {}

VARIABLES
    db,                      \* the job tables and the attempts
    seen,                    \* the run's cache of seen jobs
    todo,                    \* rows of the run's snapshots still to process
    proc,                    \* what each goroutine is at
    applyInProgress,         \* Manager.applyInProgress: the holder, or "no"
    scenario,                \* the posting's site, and the bounds
    pasted,                  \* the form of the pasted address
    page,                    \* what the site shows: "open" or "applied"
    openTabs,                \* goroutines whose tab was loaded while the posting was open
    clicked,                 \* attempts that pressed the site's submit
    started, faults, acts, cleared,
    overtaken                \* history: a retry took back a record on which another request relied

vars == <<db, seen, todo, proc, applyInProgress, scenario, pasted, page, openTabs, clicked, started, faults, acts, cleared,
          overtaken>>
env == <<scenario, pasted>>

Procs == {"bot", "approver", "user"} \cup Urls

\* A goroutine: where it is, why, for which id and attempt, and the statements
\* that its result still has to run, in the order of the code.
Idle == [pc |-> "idle", mode |-> "none", id |-> Site, att |-> 0, plan |-> <<>>]
Modes == {"none", "search", "retry", "queue", "top", "approve", "url", "reject"}
PCs == {"idle", "next", "looked", "open", "guard", "fast", "evaluate", "check", "entry",
        "mark", "click", "confirm", "reconfirm", "write", "done", "consume"}
LinkedIn == scenario.site = "linkedin"
LinkOf(id) == IF id = Site THEN "link" ELSE pasted

Init ==
    /\ scenario \in Scenarios /\ pasted \in {"link", "variant"}
    \* A row to apply to may be left from an older version: retries ask to evaluate.
    /\ \E q \in {"no", "apply"} : db = [EmptyDB EXCEPT !.queue[Site] = q]
    /\ seen = NoCache /\ todo = {} /\ proc = [p \in Procs |-> Idle] /\ applyInProgress = "no"
    /\ page \in {"open", "applied"} /\ openTabs = {} /\ clicked = {} /\ started = 0 /\ faults = 0 /\ acts = 0 /\ cleared = FALSE
    /\ overtaken = FALSE

-----------------------------------------------------------------------------
\* Statements of a result.

S(op, arg) == [op |-> op, arg |-> arg]
Do(op) == S(op, "none")
F(outcome) == S("finish", outcome)
Failure(why) == S("failure", why)
Skip(why) == S("skip", why)
Pend(easy) == S("pend", easy)

RemoveByLink(d, link) == [d EXCEPT !.pending = [i \in Ids |-> IF LinkOf(i) = link THEN None ELSE @[i]]]

\* What p's statement s makes of the database.
Run(d, p, s) ==
    LET id == proc[p].id
        a == proc[p].att
        link == IF proc[p].mode = "url" THEN pasted ELSE LinkOf(id)
    IN CASE s.op = "applied"     -> RecordApplied(d, id)
         [] s.op = "skip"        -> RecordSkipped(d, id, s.arg)
         [] s.op = "failure"     -> RecordListingFailure(d, id, s.arg)
         [] s.op = "pend"        -> SavePendingReview(d, id, s.arg)
         [] s.op = "preserve"    -> PreserveReview(d, id)
         [] s.op = "keep"        -> KeepInReview(d, id, s.arg)
         [] s.op = "count"       -> CountTry(d, id)
         [] s.op = "unpend"      -> RemoveReview(d, id)
         [] s.op = "unpendLink"  -> RemoveByLink(d, link)
         [] s.op = "unqueue"     -> RemoveFromQueue(d, id)
         [] s.op = "finish"      -> FinishAttempt(d, a, {id}, link, s.arg)
         [] s.op = "finishNoJob" -> FinishAttempt(d, a, {}, link, s.arg)

\* The run's own records enter its cache.  The queue's insert of an application
\* does not, and the records of a listing's failure only when they succeed.
Marks(p, s, succeeds) ==
    LET id == proc[p].id IN
    IF p # "bot" THEN seen
    ELSE CASE s.op = "applied" /\ proc[p].mode # "queue"   -> Mark(seen, id, "already applied")
           [] s.op = "skip" \/ (s.op = "failure" /\ succeeds)  -> Mark(seen, id, "in skipped list")
           [] s.op = "pend" \/ (s.op = "preserve" /\ succeeds) -> Mark(seen, id, "in Top Matches")
           [] OTHER                                           -> seen

\* Where p goes when its result is recorded.
Returned(p) ==
    CASE p # "bot"                           -> Idle
      [] p = "bot" /\ proc[p].mode = "retry" -> [proc[p] EXCEPT !.pc = "done", !.att = 0, !.plan = <<>>]
      [] OTHER -> [proc[p] EXCEPT !.pc = "next", !.id = Site, !.att = 0, !.plan = <<>>]

Goto(p, pc) == proc' = [proc EXCEPT ![p].pc = pc]
\* The result of p's work: the statements that record it.
Result(p, plan) ==
    IF plan = <<>> THEN proc' = [proc EXCEPT ![p] = Returned(p)]
    ELSE proc' = [proc EXCEPT ![p].pc = "write", ![p].plan = plan]

Undisturbed == faults + acts < scenario.disturbances
Fault == Undisturbed /\ faults' = faults + 1

Write(p) ==
    /\ proc[p].pc = "write"
    /\ LET s == Head(proc[p].plan) IN
        \/ db' = Run(db, p, s) /\ seen' = Marks(p, s, TRUE) /\ UNCHANGED faults
        \/ Fault /\ seen' = Marks(p, s, FALSE) /\ UNCHANGED db
    /\ LET rest == Tail(proc[p].plan) IN
        /\ proc' = [proc EXCEPT ![p] = IF rest = <<>> THEN Returned(p) ELSE [@ EXCEPT !.plan = rest]]
        /\ applyInProgress' = IF rest = <<>> /\ applyInProgress = p THEN "no" ELSE applyInProgress
        /\ openTabs' = IF rest = <<>> THEN openTabs \ {p} ELSE openTabs
    /\ UNCHANGED <<env, todo, page, clicked, started, acts, cleared, overtaken>>

\* beginAttempt, with the attempt's fresh id; its insert may fail unnoticed.
Begin(p, mode, id, job, pc) ==
    /\ started < scenario.attempts /\ started' = started + 1
    /\ LET a == started + 1
           link == IF mode = "url" THEN pasted ELSE LinkOf(id)
       IN /\ proc' = [proc EXCEPT ![p] = [pc |-> pc, mode |-> mode, id |-> id, att |-> a, plan |-> <<>>]]
          /\ \/ db' = BeginAttempt(db, a, job, link) /\ UNCHANGED faults
             \/ Fault /\ UNCHANGED db

\* p loads the posting, and works on the page it got until it loads it again.
Loads(p) == openTabs' = IF page = "open" THEN openTabs \cup {p} ELSE openTabs \ {p}

AtWork == <<env, applyInProgress, acts, cleared, overtaken>>
Still == <<env, db, seen, todo, applyInProgress, started, faults, acts, cleared, overtaken>>

-----------------------------------------------------------------------------
\* easyApply and seekApply: what both share with every caller.

\* unresolvedSubmission: the id, the address, or LinkedIn's number in it.
CanonicalID(link) == "posting"
\* Mutant of SamePosting: addresses are compared as text.
SamePostingByText(e, id, link) == id \in e.job \/ e.link = link
SamePosting(e, id, link) ==
    \/ id \in e.job
    \/ e.link = link
    \/ CanonicalID(e.link) = CanonicalID(link)
UnresolvedSubmission(p) ==
    \E a \in Attempts \ {proc[p].att} :
        LET e == db.attempts[a] IN
        e.row /\ e.outcome \in Unresolved /\ SamePosting(e, proc[p].id, IF proc[p].mode = "url" THEN pasted ELSE LinkOf(proc[p].id))

Applying == IF LinkedIn THEN "check" ELSE "entry"

\* How an application can go: the errors, and what they are told apart by.
Reviewed == {"unknown", "review", "external", "drift"}      \* linkedInNeedsReview
Unsure == {"unconfirmed", "unconfirmedBlocked"}             \* isSeekSubmitUnconfirmedError
TopMatchTexts == {"blocked", "unconfirmedBlocked"}          \* skipReasonBelongsInTopMatches
Ended(r) == F(IF r \in Unsure THEN "submission_unknown" ELSE "other")
Settled(r) == F(IF r = "ok" THEN "submitted_confirmed" ELSE "other")

\* preserveLinkedInReview and linkedInReviewOutcome; some callers empty the queue.
ReviewPlan(r, unqueue) ==
    CASE r \in {"unknown", "drift"} -> <<Failure("unknown")>> \o unqueue \o <<F("submission_unknown")>>
      [] r = "review"               -> <<Failure("retryable")>> \o unqueue \o <<F("other")>>
      [] r = "external"             -> <<Do("preserve")>> \o unqueue \o <<F("other")>>

\* recordSeekSkipped sends some texts to Top Matches.
SkipOrMatch(r) == IF r \in TopMatchTexts THEN Pend(FALSE) ELSE Skip("retryable")

\* submitEasyApply
EasyApplyPlan(r) ==
    CASE r \in Reviewed          -> ReviewPlan(r, <<>>)
      [] r \in {"ok", "already"} -> <<Do("applied"), Settled(r)>>
      [] r = "blocked"           -> <<Pend(FALSE), F("other")>>
      [] OTHER                   -> <<Skip("retryable"), F("other")>>

\* submitSeekApplication: unconfirmed submissions before blocked ones.
SeekPlan(r) ==
    CASE r = "ok"       -> <<Do("applied"), Settled(r)>>
      [] r \in Unsure   -> <<SkipOrMatch(r), Ended(r)>>
      [] r = "blocked"  -> <<Pend(FALSE), F("other")>>
      [] OTHER          -> <<Skip("retryable"), F("other")>>

\* processTopMatchesQuickApply, after submitSeekApplication.
TopMatchPlan(r) == SeekPlan(r) \o <<IF r = "blocked" THEN Do("count") ELSE Do("unpend")>>

\* Mutant of QueuePlan: a failure leaves the queue and is recorded nowhere.
QueuePlanForgets(r) == <<Do("unqueue"), Ended(r)>>
\* processApprovedQueue, recordApplyFailure and queueApplyOutcome.
QueuePlan(r) ==
    LET unqueue == <<Do("unqueue")>> IN
    CASE r = "drift"      -> unqueue \o <<Failure("unknown"), F("submission_unknown")>>
      [] r \in Reviewed \ {"drift"} -> ReviewPlan(r, unqueue)
      [] r = "already"    -> unqueue \o <<Settled(r)>>
      [] r = "ok"         -> <<Do("applied")>> \o unqueue \o <<Settled(r)>>
      [] OTHER            -> <<IF LinkedIn THEN Skip("retryable") ELSE SkipOrMatch(r)>> \o unqueue
                             \o <<Ended(r)>>

\* Mutant of ApprovePlan: credits that run out end no attempt.
ApprovePlanSilent(r) ==
    CASE r = "quota" -> <<>>
      [] OTHER       -> <<Skip("retryable"), Do("count"), Ended(r)>>
\* runSubmit, and ReviewApprove after a success: texts for Top Matches first.
ApprovePlan(r) ==
    CASE r \in Reviewed          -> ReviewPlan(r, <<Do("unqueue")>>)
      [] r \in {"ok", "already"} -> <<Do("applied"), Do("unpendLink"), Do("unqueue"), Settled(r), Do("unpend")>>
      [] r = "quota"             -> <<F("other")>>
      [] r \in TopMatchTexts     -> <<S("keep", TRUE), Do("count"), F("other")>>
      [] OTHER                   -> <<Skip("retryable"), Do("count"), Ended(r)>>

\* ApplyFromURL: rows of the same address are not doubled.
UrlPlan(r) ==
    LET inReview == \E i \in Ids : InReview(db, i) /\ LinkOf(i) = pasted
        skipped == \E i \in Ids : db.skipped[i] # "no" /\ LinkOf(i) = pasted
    IN CASE r \in Reviewed          -> ReviewPlan(r, <<>>)
         [] r \in {"ok", "already"} -> <<Do("applied"), Do("unpendLink"), Settled(r)>>
         [] r = "quota"             -> <<F("other")>>
         [] r = "notShown"          -> <<F("submission_unknown")>>
         [] r \in TopMatchTexts     -> (IF inReview THEN <<>> ELSE <<S("keep", FALSE)>>) \o <<F("other")>>
         [] OTHER                   -> (IF skipped THEN <<>> ELSE <<Skip("retryable")>>) \o <<Ended(r)>>

Plan(p, r) ==
    LET m == proc[p].mode IN
    CASE m \in {"search", "retry"} -> IF LinkedIn THEN EasyApplyPlan(r) ELSE SeekPlan(r)
      [] m = "top"                 -> TopMatchPlan(r)
      [] m = "queue"               -> QueuePlan(r)
      [] m = "approve"             -> ApprovePlan(r)
      [] m = "url"                 -> UrlPlan(r)

Outcome(p, r) == Result(p, Plan(p, r))

\* easyApply begins: an application of the posting that may have gone out stops it.
Check(p) ==
    /\ proc[p].pc = "check"
    /\ IF UnresolvedSubmission(p) THEN Outcome(p, "unknown") ELSE Goto(p, "entry")
    /\ UNCHANGED <<Still, page, openTabs, clicked>>

\* Everything up to the last page of the form.  The page is the one that was loaded
\* before the check, and before the evaluation of a pasted address; what the site
\* came to show since may appear on it, and need not.
Entry(p) ==
    /\ proc[p].pc = "entry"
    /\ \/ LinkedIn /\ page = "applied" /\ Outcome(p, "already")
       \/ \E r \in {"error", "quota", "blocked"} : Outcome(p, r)
       \/ LinkedIn /\ \E r \in {"review", "external"} : Outcome(p, r)
       \/ p \in openTabs /\ Goto(p, IF LinkedIn THEN "mark" ELSE "click")
    /\ UNCHANGED <<Still, page, openTabs, clicked>>

\* Seek may send a prefilled application when the form is opened.
SilentSubmit(p) ==
    /\ proc[p].pc = "entry" /\ ~LinkedIn /\ p \in openTabs
    /\ clicked' = clicked \cup {proc[p].att}
    /\ \/ page' = "applied" /\ Outcome(p, "ok")
       \/ UNCHANGED page /\ Outcome(p, "error")
    /\ UNCHANGED <<Still, openTabs>>

\* Mutant of MayDispatch: the number of updated rows is not looked at.
MayDispatchAnyway(p) == TRUE
\* markAttemptSubmitDispatch: without the attempt's row there is no click.
MayDispatch(p) == LET e == db.attempts[proc[p].att] IN e.row /\ e.outcome = "in_progress"
MarkDispatch(p) ==
    /\ proc[p].pc = "mark"
    /\ \/ MayDispatch(p) /\ Goto(p, "click") /\ UNCHANGED faults
       \/ ~MayDispatch(p) /\ Outcome(p, "error") /\ UNCHANGED faults
       \/ Fault /\ Outcome(p, "error")
    /\ UNCHANGED <<env, db, seen, todo, applyInProgress, started, acts, cleared, overtaken, page, openTabs, clicked>>

\* The click may fail before or after it reached the site.
ClickFailure == IF LinkedIn THEN "unknown" ELSE "error"
Click(p) ==
    /\ proc[p].pc = "click"
    /\ \/ clicked' = clicked \cup {proc[p].att} /\ Goto(p, "confirm")
       \/ clicked' \in {clicked, clicked \cup {proc[p].att}} /\ Outcome(p, ClickFailure)
    /\ UNCHANGED <<Still, page, openTabs>>

Confirm(p) ==
    /\ proc[p].pc = "confirm"
    /\ \/ page' = "applied" /\ (IF proc[p].mode = "url" THEN Goto(p, "reconfirm") ELSE Outcome(p, "ok"))
       \/ LinkedIn /\ page' = "applied" /\ proc[p].mode # "url" /\ Outcome(p, "drift")
       \/ LinkedIn /\ Outcome(p, "unknown") /\ UNCHANGED page
       \/ ~LinkedIn /\ UNCHANGED page /\ \E r \in {"unconfirmed", "unconfirmedBlocked"} : Outcome(p, r)
    /\ UNCHANGED <<Still, openTabs, clicked>>

\* ApplyFromURL looks once more whether the page says Applied.
Reconfirm(p) ==
    /\ proc[p].pc = "reconfirm"
    /\ \E r \in {"ok", "notShown"} \cup (IF LinkedIn THEN {"drift"} ELSE {}) : Outcome(p, r)
    /\ UNCHANGED <<Still, page, openTabs, clicked>>

-----------------------------------------------------------------------------
\* The bot's run.

Bot == proc["bot"]
Rows == {<<id, db.queue[id]>> : id \in {i \in Ids : db.queue[i] # "no"}}
TopMatches == {<<id, "top">> : id \in {i \in Ids : InReview(db, i) /\ ~db.pending[i].easy /\ db.pending[i].tries = 0}}

BotStart ==
    /\ Bot.pc = "idle"
    /\ seen' = LoadCache(db) /\ todo' = Rows
    /\ proc' = [proc EXCEPT !["bot"] = [Idle EXCEPT !.pc = "next", !.mode = "queue"]]
    /\ UNCHANGED <<AtWork, db, page, openTabs, clicked, started, faults>>

BotEnds ==
    /\ Bot.pc = "next"
    /\ seen' = NoCache /\ todo' = {} /\ proc' = [proc EXCEPT !["bot"] = Idle]
    /\ UNCHANGED <<AtWork, db, page, openTabs, clicked, started, faults>>

\* After the queue: Top Matches on Seek, then the search.
NextPhase ==
    /\ Bot.pc = "next" /\ todo = {} /\ Bot.mode # "search"
    /\ IF ~LinkedIn /\ Bot.mode # "top"
         THEN todo' = TopMatches /\ proc' = [proc EXCEPT !["bot"].mode = "top"]
         ELSE todo' = {} /\ proc' = [proc EXCEPT !["bot"].mode = "search"]
    /\ UNCHANGED <<AtWork, db, seen, page, openTabs, clicked, started, faults>>

\* processApprovedQueue submits a row.
SubmitQueued(id) ==
    /\ Bot.pc = "next" /\ <<id, "apply">> \in todo
    /\ todo' = todo \ {<<id, "apply">>}
    /\ Begin("bot", "queue", id, {id}, "open")
    /\ UNCHANGED <<AtWork, seen, page, openTabs, clicked>>

\* processEvaluationRetry: durable outcomes first, then past the cache.
RetryUnsafe(id) ==
    \/ \E i \in db.applied : i = id \/ LinkOf(i) = LinkOf(id)
    \/ \E a \in Attempts : LET e == db.attempts[a] IN
         e.row /\ e.outcome \in Unresolved /\ (id \in e.job \/ e.link = LinkOf(id))
RetryEvaluation(id) ==
    /\ Bot.pc = "next" /\ <<id, "evaluate">> \in todo
    /\ todo' = todo \ {<<id, "evaluate">>}
    /\ IF RetryUnsafe(id) THEN UNCHANGED <<seen, proc, openTabs>>
       ELSE /\ seen' = Mark(seen, id, "in approved queue") /\ Loads("bot")
            /\ proc' = [proc EXCEPT !["bot"] = [Idle EXCEPT !.pc = "looked", !.mode = "retry", !.id = id]]
    /\ UNCHANGED <<AtWork, db, page, clicked, started, faults>>

\* The search shows the posting: what is known about it ends its processing.
Known(id, reevaluate) ==
    LET reason == SeenReason(seen, db, id) IN
    \/ reason # "new" /\ ~(reevaluate /\ reason \in {"in approved queue", "in Top Matches"})
    \/ LinkedIn /\ ~reevaluate /\ \E i \in Ids : InReview(db, i)
Search ==
    /\ Bot.pc = "next" /\ Bot.mode = "search" /\ ~Known(Site, FALSE)
    /\ Goto("bot", "looked") /\ Loads("bot")
    /\ UNCHANGED <<Still, page, clicked>>

\* processLinkedInJob and processSeekJobEvaluation, with checkScore: the listing
\* is read and evaluated.
Judge ==
    /\ Bot.pc = "looked"
    /\ IF Bot.mode = "retry" /\ Known(Bot.id, TRUE) THEN Result("bot", <<>>)
       ELSE \/ \E plan \in {<<>>, <<Skip("rejected")>>, <<Failure("retryable")>>,
                            <<Pend(FALSE)>>, <<Pend(TRUE)>>} : Result("bot", plan)
            \/ ~LinkedIn /\ "bot" \notin openTabs /\ Result("bot", <<Do("applied")>>)
    /\ UNCHANGED <<Still, page, openTabs, clicked>>

\* A match with Easy or Quick Apply and no review asked for.
Submit ==
    /\ Bot.pc = "looked" /\ "bot" \in openTabs
    /\ Bot.mode = "retry" => ~Known(Bot.id, TRUE)
    /\ Begin("bot", Bot.mode, Bot.id, {Bot.id}, "open")
    /\ UNCHANGED <<AtWork, seen, todo, page, openTabs, clicked>>

\* processTopMatchesQuickApply: no page, no Quick Apply, or an application.
RecheckTopMatch(id) ==
    /\ Bot.pc = "next" /\ <<id, "top">> \in todo
    /\ todo' = todo \ {<<id, "top">>}
    /\ \/ /\ \E plan \in {<<>>, <<Do("count")>>} :
                proc' = [proc EXCEPT !["bot"] = IF plan = <<>> THEN @ ELSE [@ EXCEPT !.pc = "write", !.id = id, !.plan = plan]]
          /\ UNCHANGED <<db, started, faults>>
       \/ page = "open" /\ Begin("bot", "top", id, {id}, "open")
    /\ UNCHANGED <<AtWork, seen, page, openTabs, clicked>>

\* The document guard is refused, the page does not open, or the site is there.
\* The queue takes no guard; on Seek a page that does not open is recorded.
OpenPage ==
    /\ Bot.pc = "open"
    /\ \/ Result("bot", <<F("other")>>) /\ UNCHANGED openTabs
       \/ ~LinkedIn /\ Bot.mode # "queue" /\ UNCHANGED openTabs
          /\ Result("bot", <<Skip("retryable"), F("other")>> \o (IF Bot.mode = "top" THEN <<Do("unpend")>> ELSE <<>>))
       \/ Goto("bot", Applying) /\ Loads("bot")
    /\ UNCHANGED <<Still, page, clicked>>

\* A retry is consumed when a durable record exists: read first, then deleted.
RetryDone ==
    /\ Bot.pc = "done"
    /\ LET id == Bot.id
           durable == \/ \E i \in db.applied : i = id \/ LinkOf(i) = LinkOf(id)
                      \/ db.skipped[id] # "no" \/ InReview(db, id)
       IN IF durable /\ seen[id] # "in approved queue" THEN Goto("bot", "consume")
          ELSE proc' = [proc EXCEPT !["bot"] = [Idle EXCEPT !.pc = "next", !.mode = "queue"]]
    /\ UNCHANGED <<Still, page, openTabs, clicked>>

Consume ==
    /\ Bot.pc = "consume"
    /\ \/ db' = ConsumeRetry(db, Bot.id) /\ UNCHANGED faults
       \/ Fault /\ UNCHANGED db
    /\ proc' = [proc EXCEPT !["bot"] = [Idle EXCEPT !.pc = "next", !.mode = "queue"]]
    /\ UNCHANGED <<AtWork, seen, todo, page, openTabs, clicked, started>>

-----------------------------------------------------------------------------
\* An approval (ReviewApprove and runSubmit).

Approve(id) ==
    /\ proc["approver"].pc = "idle" /\ InReview(db, id)
    /\ Begin("approver", "approve", id, {id}, "open")
    /\ UNCHANGED <<AtWork, seen, todo, page, openTabs, clicked>>

\* Guard, set-up, browser and billing may each refuse; two tries are enough.
TriedTwice(id) == InReview(db, id) /\ db.pending[id].tries >= MaxTries
OpenApproved ==
    /\ proc["approver"].pc = "open"
    /\ \/ Result("approver", <<F("other")>>) /\ UNCHANGED openTabs
       \/ TriedTwice(proc["approver"].id) /\ UNCHANGED openTabs
          /\ Result("approver", <<Skip("retryable"), Do("unpend"), F("other")>>)
       \/ ~TriedTwice(proc["approver"].id) /\ Goto("approver", Applying) /\ Loads("approver")
    /\ UNCHANGED <<Still, page, clicked>>

-----------------------------------------------------------------------------
\* An application from a pasted address (ApplyFromURL).

ApplyFromURL(u) ==
    /\ proc[u].pc = "idle"
    /\ Begin(u, "url", started + 1, {}, "guard")
    /\ UNCHANGED <<AtWork, seen, todo, page, openTabs, clicked>>

NoJob(outcome) == S("finishNoJob", outcome)

UrlGuard(u) ==
    /\ proc[u].pc = "guard"
    /\ \/ Result(u, <<NoJob("other")>>) /\ UNCHANGED applyInProgress
       \/ applyInProgress # "no" /\ Result(u, <<NoJob("other")>>) /\ UNCHANGED applyInProgress
       \/ applyInProgress = "no" /\ applyInProgress' = u /\ Goto(u, "fast")
    /\ UNCHANGED <<env, db, seen, todo, page, openTabs, clicked, started, faults, acts, cleared, overtaken>>

\* Unless it is forced, a posting already applied to by this address is done.
Tracked == \E i \in db.applied : LinkOf(i) = pasted
UrlFast(u) ==
    /\ proc[u].pc = "fast"
    /\ \/ Tracked /\ Result(u, <<NoJob("other")>>)
       \/ Goto(u, "open")
    /\ UNCHANGED <<Still, page, openTabs, clicked>>

\* Set-up, browser, login and billing; a listing that cannot be verified is kept
\* under the site's own id; a page that shows an application is adopted.
UrlOpen(u) ==
    /\ proc[u].pc = "open" /\ u \in Urls /\ Loads(u)
    /\ \/ Result(u, <<NoJob("other")>>)
       \/ LinkedIn /\ proc' = [proc EXCEPT ![u].pc = "write", ![u].id = Site,
                                           ![u].plan = <<Failure("retryable"), F("other")>>]
       \/ page = "applied" /\ Result(u, (IF Tracked THEN <<>> ELSE <<Do("applied"), Do("unpendLink")>>)
                                        \o <<NoJob("other")>>)
       \/ page = "open" /\ Goto(u, "evaluate")
    /\ UNCHANGED <<Still, page, clicked>>

UrlEvaluate(u) ==
    /\ proc[u].pc = "evaluate"
    /\ \/ LinkedIn /\ page = "applied" /\ Result(u, <<F("other")>>)
       \/ Result(u, <<Failure("retryable"), F("other")>>)
       \/ Result(u, <<Skip("rejected"), F("other")>>)
       \/ Result(u, <<Pend(FALSE), F("other")>>)
       \/ Goto(u, Applying)
    /\ UNCHANGED <<Still, page, openTabs, clicked>>

-----------------------------------------------------------------------------
\* The user's other handlers, the site, and a crash.

Act == Undisturbed /\ acts' = acts + 1
Aside == <<env, seen, todo, applyInProgress, page, openTabs, clicked, started, faults>>

\* ReviewReject reads the row and runs two statements.
Reject(id) ==
    /\ Act
    /\ proc["user"].pc = "idle" /\ InReview(db, id)
    /\ proc' = [proc EXCEPT !["user"] = [Idle EXCEPT !.pc = "write", !.mode = "reject", !.id = id,
                                                     !.plan = <<Skip("rejected"), Do("unpend")>>]]
    /\ UNCHANGED <<Aside, db, cleared, overtaken>>

DeletePendingReview(id) ==
    /\ Act
    /\ InReview(db, id)
    /\ db' = RecordSkipped(RemoveReview(db, id), id, "rejected")
    /\ UNCHANGED <<Aside, proc, cleared, overtaken>>

\* MarkApplied, and MarkAppliedFromCannotApply.
MarkApplied(id) ==
    /\ Act
    /\ \/ InReview(db, id) /\ db' = RemoveReview(RecordApplied(db, id), id)
       \/ InCannotApply(db, id) /\ db' = [RecordApplied(db, id) EXCEPT !.skipped[id] = "no"]
    /\ UNCHANGED <<Aside, proc, cleared, overtaken>>

\* enqueueCannotApplyRetryTx: a Cannot Apply entry asks for a new evaluation.
MayRetry(id) == db.skipped[id] = "retryable" /\ ~RetryUnsafe(id)
\* The run is about to consume the last retry, or a rejection about to drop the review,
\* because the entry is there.
ReliedOn(id) ==
    \/ Bot.pc = "consume" /\ Bot.id = id
    \/ proc["user"].plan = <<Do("unpend")>> /\ proc["user"].id = id
RetryCannotApply(id) ==
    /\ Act
    /\ MayRetry(id)
    /\ db' = [db EXCEPT !.queue[id] = "evaluate", !.skipped[id] = "no"]
    /\ overtaken' = (overtaken \/ ReliedOn(id))
    /\ UNCHANGED <<Aside, proc, cleared>>

\* DeleteApplied, DeleteSkipped, BlacklistCompany: the user lets go of a row.
LetGo(id) ==
    /\ Act
    /\ \/ id \in db.applied /\ db' = [db EXCEPT !.applied = @ \ {id}]
       \/ db.skipped[id] # "no" /\ db' = [db EXCEPT !.skipped[id] = "no"]
       \/ InReview(db, id) /\ db' = RemoveReview(db, id)
    /\ cleared' = TRUE
    /\ UNCHANGED <<Aside, proc, overtaken>>

\* The site shows an application that went out.
SiteShowsApplied ==
    /\ page = "open" /\ clicked # {} /\ page' = "applied"
    /\ UNCHANGED <<Still, proc, openTabs, clicked>>

Crash ==
    /\ Fault /\ \E p \in Procs : proc[p].pc # "idle"
    /\ proc' = [p \in Procs |-> Idle] /\ seen' = NoCache /\ todo' = {} /\ applyInProgress' = "no" /\ openTabs' = {}
    /\ UNCHANGED <<env, db, page, clicked, started, acts, cleared, overtaken>>

BotStep ==
    \/ BotStart \/ BotEnds \/ NextPhase \/ Search \/ Judge \/ Submit \/ OpenPage \/ RetryDone \/ Consume
    \/ \E id \in Ids : SubmitQueued(id) \/ RetryEvaluation(id) \/ RecheckTopMatch(id)
Applier(p) ==
    \/ Write(p) \/ Check(p) \/ Entry(p) \/ SilentSubmit(p) \/ MarkDispatch(p) \/ Click(p) \/ Confirm(p) \/ Reconfirm(p)
UrlStep(u) == ApplyFromURL(u) \/ UrlGuard(u) \/ UrlFast(u) \/ UrlOpen(u) \/ UrlEvaluate(u)
Handlers ==
    \E id \in Ids : \/ Approve(id) \/ Reject(id) \/ DeletePendingReview(id)
                    \/ MarkApplied(id) \/ RetryCannotApply(id) \/ LetGo(id)

Next ==
    \/ BotStep \/ OpenApproved \/ Handlers \/ SiteShowsApplied \/ Crash
    \/ \E p \in Procs : Applier(p)
    \/ \E u \in Urls : UrlStep(u)

Spec == Init /\ [][Next]_vars

-----------------------------------------------------------------------------
\* Properties.

\* The variables have their types: rows, reasons and outcomes are the tables' own.
TypeOK ==
    /\ db \in [applied : SUBSET Ids, skipped : [Ids -> Reasons \cup {"no"}],
               pending : [Ids -> Reviews \cup {None}], queue : [Ids -> {"no", "apply", "evaluate"}],
               attempts : [Attempts -> Entries \cup {None}]]
    /\ seen \in [Ids -> SeenKinds] /\ todo \subseteq Ids \X {"apply", "evaluate", "top"}
    /\ \A p \in Procs : proc[p].pc \in PCs /\ proc[p].mode \in Modes /\ proc[p].id \in Ids
                        /\ proc[p].att \in {0} \cup Attempts
    /\ applyInProgress \in Urls \cup {"no"} /\ page \in {"open", "applied"} /\ openTabs \subseteq Procs
    /\ clicked \subseteq Attempts /\ faults + acts <= scenario.disturbances /\ started \in 0 .. MaxAttempts

\* On LinkedIn a second attempt presses submit only after every earlier press was
\* confirmed, and only on a page that was loaded before the site showed it: never
\* beside or after one that may still go out, whoever tries, under whatever id or form
\* of the address, with crashes and statements that fail (unresolvedSubmission and
\* markAttemptSubmitDispatch; easyApply does not load the page again).
SecondClickIsStale ==
    [][LinkedIn /\ clicked' # clicked /\ clicked # {} =>
          /\ page = "applied" /\ \A a \in clicked : db.attempts[a].outcome = "submitted_confirmed"
          /\ \E p \in openTabs : clicked' = clicked \cup {proc[p].att}]_vars

\* An attempt that pressed LinkedIn's submit never counts as an ordinary failure:
\* its row says it is under way, unknown or confirmed.
ClickIsKnown ==
    LinkedIn => \A a \in clicked :
        db.attempts[a].row /\ db.attempts[a].outcome \in {"in_progress", "submission_unknown", "submitted_confirmed"}

\* Every path ends its attempt: without a crash or a failed statement, an attempt
\* in progress has a goroutine working on it.
AttemptsSettle ==
    faults = 0 => \A a \in Attempts :
        db.attempts[a].row /\ db.attempts[a].outcome = "in_progress"
            => \E p \in Procs : proc[p].att = a /\ proc[p].pc # "idle"

Listed(d) ==
    \/ AppliedPage(d) \cup SkippedPage(d) \cup CannotApplyPage(d) # {}
    \/ ReviewPage(d) \cup TopMatchesPage(d) # {}
    \/ \E i \in Ids : d.queue[i] # "no"
OpenAttempt(d) == \E a \in Attempts : d.attempts[a].row /\ d.attempts[a].outcome \in Unresolved

\* A posting that some page or the queue has, or an unresolved attempt, does not vanish from
\* all of them, as long as the user removed nothing, no statement failed and no retry was
\* consumed, or review dropped, for a Cannot Apply entry that a request has taken back.
\* The search and a pasted address may drop a posting that no list had; LinkedIn's queue
\* drops one whose page says that the user applied.
Accounted(d) == Listed(d) \/ OpenAttempt(d)
Dropped == ~Listed(db) /\ \E p \in Procs : proc[p].mode \in {"search", "url"} /\ proc'[p] # proc[p]
AlreadyApplied == LinkedIn /\ page = "applied" /\ Bot.mode = "queue" /\ proc'["bot"] # Bot
NothingForgotten ==
    [][Accounted(db) /\ ~Accounted(db')
           => cleared \/ cleared' \/ faults > 0 \/ overtaken \/ Dropped \/ AlreadyApplied]_vars

=============================================================================
