--------------------------- MODULE ReviewDocuments ---------------------------
(* One application in review: the user picks its documents, prepares them,      *)
(* approves or rejects it, while the documents themselves are saved and deleted *)
(* and the server may restart.  Every request reads the row of the review once  *)
(* and writes it at its end, minutes later for a preparation or an approval.    *)
EXTENDS DocumentLibrary, ApplicationDocuments

CONSTANTS
    PolicySettings,          \* the user's document policies that are tried
    Forms,                   \* what the form of the posting may ask for
    Plans                    \* bound: how many requests about documents, and about the review

\* Letters that are written for the application are left out: what becomes of them is
\* what becomes of a tailored résumé.
ASSUME ReviewAssumption ==
    /\ PolicySettings \subseteq [resumeMode : {"default", "tailor", "site"}, coverMode : {"general", "skip"},
                                siteFallback : BOOLEAN]
    /\ Forms \subseteq Capabilities

VARIABLES
    setting, form,           \* of this behaviour; they never change
    row,                     \* the row of jobs_pending_review, or Gone
    asked,                   \* the selection that the user saved last
    reviews,                 \* bound: requests about the review that the user may still make
    work,                    \* the preparation or approval at work in each slot
    merged                   \* history: a failed approval wrote into a row that had changed meanwhile

reviewVars == <<library, setting, form, merged, row, asked, reviews, work>>
review == <<row, asked, reviews, work>>

\* The row when the bot puts an application into review: documents not yet made.
NewRow == [there |-> TRUE, resumeV |-> None, coverV |-> None, resumePath |-> None, coverPath |-> None,
           pack |-> [EmptyPack EXCEPT !.hold = "placeholder"], attempts |-> 0]
Gone == [NewRow EXCEPT !.there = FALSE]
NoWork == [pc |-> "idle"]

ReviewInit ==
    /\ setting \in PolicySettings /\ form \in Forms
    \* a résumé and a cover letter, rendered; the résumé is the default
    /\ documents = <<NewDocument("resume"), NewDocument("cover")>>
    /\ versions = [i \in 1 .. 2 |->
                     [NewVersion(i, 1, documents[i].kind, <<i>>) EXCEPT !.reconstructible = TRUE, !.file = TRUE]]
    /\ defaults = [k \in DefaultKinds |-> IF k = "resume" THEN <<1>> ELSE NoVersion]
    /\ charged = {<<1>>, <<2>>}
    /\ task = [s \in Slots |-> NoTask] /\ work = [s \in Slots |-> NoWork]
    /\ \E plan \in Plans : requests = plan[1] /\ reviews = plan[2]
    /\ faults = 0
    /\ row = NewRow /\ asked = NoSelection /\ merged = FALSE

Idle(s) == task[s].pc = "idle" /\ work[s].pc = "idle"
Reviews == reviews > 0 /\ reviews' = reviews - 1
Works(s, w) == work' = [work EXCEPT ![s] = w]

-----------------------------------------------------------------------------
\* Selecting.

\* What the picker offers for a kind.
Offered(kind) == {v \in VersionIds : ValidVersion(v, kind)} \cup {None}
Selections ==
    {sel \in [resume : Offered("resume"), cover : Offered("cover"), site : BOOLEAN, skip : BOOLEAN] :
        ~(sel.site /\ sel.resume # None) /\ ~(sel.skip /\ sel.cover # None)}

\* Mutant of Selected: the files of the last preparation stay.
SelectedKeepsPaths(sel) ==
    [row EXCEPT !.resumeV = sel.resume, !.coverV = sel.cover, !.pack = PackAfterSelectionChange(sel)]
Selected(sel) ==
    [row EXCEPT !.resumeV = sel.resume, !.coverV = sel.cover, !.resumePath = None, !.coverPath = None,
                !.pack = PackAfterSelectionChange(sel)]

\* ReviewPutDocuments.  What it validated may be deleted before or after its write alike.
Put ==
    /\ Reviews /\ NoFault /\ row.there
    /\ \E sel \in Selections : row' = Selected(sel) /\ asked' = sel
    /\ UNCHANGED <<documents, versions, defaults, charged, task, requests, setting, form, merged, work>>

-----------------------------------------------------------------------------
\* What the review page says before anything is prepared.

RowSelection(r) == [NoSelection EXCEPT !.resume = r.resumeV, !.cover = r.coverV]
Policy == [resumeMode |-> setting.resumeMode, coverMode |-> setting.coverMode, profile |-> TRUE,
           resume |-> defaults["resume"], cover |-> defaults["cover"],
           siteFallback |-> setting.siteFallback, coverFallback |-> FALSE]

PreparesFrom(r) == NewLazy(RowSelection(r), FALSE, r.pack, r.resumePath, r.coverPath)

\* Mutant of SelectionFromPack: the columns alone.
SelectionFromColumns(r) == RowSelection(r)
SelectionFromPack(r) ==
    LET first(a, b) == IF a # None THEN a ELSE b IN
    [r.pack.sel EXCEPT !.resume = first(@, r.resumeV), !.cover = first(@, r.coverV)]

\* actionForResolved: only what is tailored or generated has a price.
Action(d) ==
    CASE d.outcome = "hold"    -> <<"hold">>
      [] d.outcome = "site"    -> <<"site">>
      [] d.outcome = "skipped" -> <<"skip">>
      [] OTHER                 -> IF d.make THEN <<"make">> ELSE <<"reuse", d.version>>
\* ResolveReviewPreflight on the stored capabilities, for what is not prepared yet.
Preview(r) ==
    LET res == Resolve(Policy, SelectionFromPack(r), FALSE, r.pack.caps) IN <<Action(res.resume), Action(res.cover)>>

-----------------------------------------------------------------------------
\* Preparing.

\* PrepareReviewDocuments reads the row, then opens the form.
Prepare(s) ==
    /\ Idle(s) /\ Reviews /\ NoFault /\ row.there
    /\ Works(s, [pc |-> "scan", lz |-> PreparesFrom(row)])
    /\ UNCHANGED <<documents, versions, defaults, charged, task, requests, setting, form, merged, row, asked>>

\* An incomplete scan, an error or a closed connection: nothing is written.
GivesUp(s) ==
    /\ work[s].pc \in {"scan", "write"}
    /\ Fault
    /\ Works(s, NoWork)
    /\ UNCHANGED <<documents, versions, defaults, charged, task, requests, reviews, setting, form, merged, row, asked>>

\* What becomes of the resolution, given which files there are.
Unavailable(d) == d.outcome = "local" /\ ~Readable(d.version)
Mishap(res, v) ==
    IF IsHeld(res) THEN "none"
    ELSE IF Unavailable([res.resume EXCEPT !.version = v]) THEN "resumeFile"
    ELSE IF Unavailable(res.cover) THEN "coverFile"
    ELSE "none"
ToWrite(s, lz) == Works(s, [pc |-> "write", lz |-> lz])

\* The scan told what the form asks for; the documents are resolved, and a résumé to
\* tailor is saved first.
Scan(s) ==
    LET lz == ApplyCaps(work[s].lz, form)
        res == Resolve(Policy, Overrides(lz), FALSE, lz.caps)
        made(how) == Materialized(lz, Policy, NoSelection, how)
    IN /\ work[s].pc = "scan"
       /\ UNCHANGED <<versions, defaults, charged, requests, reviews, setting, form, merged, row, asked>>
       /\ CASE ~MayMaterialize(lz) ->
                  NoFault /\ ToWrite(s, lz) /\ UNCHANGED <<documents, task>>
            [] MayMaterialize(lz) /\ ~IsHeld(res) /\ res.resume.make ->
                  \/ NoFault /\ BeginsSave(s, "resume", 0, NoVersion, "prepare")
                        /\ Works(s, [pc |-> "save", lz |-> lz, st |-> Policy])
                  \/ Fault /\ UNCHANGED <<documents, task>> /\ \E how \in {"guard", "tailor", "save"} : ToWrite(s, made(how))
            [] OTHER ->
                  /\ UNCHANGED <<documents, task>>
                  /\ \/ NoFault /\ ToWrite(s, made(Mishap(res, res.resume.version)))
                     \/ Fault /\ ~IsHeld(res) /\ \E how \in MishapsOf(res) \ {"none"} : ToWrite(s, made(how))

\* The tailored résumé is saved, or is not.
Tailored(s) ==
    LET v == task[s].version
        lz == work[s].lz
        res == Resolve(work[s].st, Overrides(lz), FALSE, lz.caps)
        how == IF task[s].pc = "failed" THEN "save" ELSE Mishap(res, v)
    IN /\ work[s].pc = "save" /\ task[s].pc \in {"ok", "failed"}
       /\ Set(s, NoTask)
       /\ \/ NoFault /\ ToWrite(s, Materialized(lz, work[s].st, [NoSelection EXCEPT !.resume = v], how))
          \/ Fault /\ how = "none"
                /\ ToWrite(s, Materialized(lz, work[s].st, [NoSelection EXCEPT !.resume = v], "resumeFile"))
       /\ UNCHANGED <<documents, versions, defaults, charged, requests, reviews, setting, form, merged, row, asked>>

PreparedPack(lz) ==
    [(IF Blocked(lz) THEN [lz.pack EXCEPT !.hold = lz.hold] ELSE MarkPrepared(lz.pack)) EXCEPT
        !.caps = lz.caps, !.sel = lz.sel, !.resume.path = Peek(lz).resume, !.cover.path = Peek(lz).cover]

\* The UPDATE at the end: whatever the row holds by now.
PrepareWrite(s) ==
    LET lz == work[s].lz IN
    /\ work[s].pc = "write"
    /\ row' = IF ~row.there THEN Gone
              ELSE [row EXCEPT !.resumeV = lz.resumeV, !.coverV = lz.coverV, !.resumePath = Peek(lz).resume,
                               !.coverPath = Peek(lz).cover, !.pack = PreparedPack(lz)]
    /\ Works(s, NoWork)
    /\ NoFault /\ UNCHANGED <<documents, versions, defaults, charged, task, requests, reviews, setting, form, merged, asked>>

-----------------------------------------------------------------------------
\* Approving and rejecting.

ApprovedFrom(r) == NewLazy(RowSelection(r), TRUE, r.pack, r.resumePath, r.coverPath)

\* ReviewApprove refuses what is not prepared; the documents are frozen here.
Approve(s) ==
    /\ Idle(s) /\ Reviews /\ NoFault
    /\ row.there /\ ReadyForSubmit(row.pack)
    /\ Works(s, [pc |-> "guard", lz |-> ApprovedFrom(row)])
    /\ UNCHANGED <<documents, versions, defaults, charged, task, requests, setting, form, merged, row, asked>>

\* runSubmit: an application that was tried twice goes to Cannot Apply.
Guard(s) ==
    LET spent == row.there /\ row.attempts >= 2 IN
    /\ work[s].pc = "guard"
    /\ row' = IF spent THEN Gone ELSE row
    /\ Works(s, IF spent THEN NoWork ELSE [work[s] EXCEPT !.pc = "submit"])
    /\ NoFault /\ UNCHANGED <<documents, versions, defaults, charged, task, requests, reviews, setting, form, merged, asked>>

\* A failure writes back what was approved, as far as there is something.
Failed(r, lz) ==
    LET first(a, b) == IF a # None THEN a ELSE b IN
    [r EXCEPT !.attempts = @ + 1, !.pack = lz.pack,
              !.resumePath = first(Peek(lz).resume, @), !.coverPath = first(Peek(lz).cover, @),
              !.resumeV = first(lz.resumeV, @), !.coverV = first(lz.coverV, @)]
\* A row that was rejected meanwhile is put back where the code inserts before it updates.
Reinserted == IF row.there THEN row ELSE NewRow
\* preserveLinkedInReviewWithVerdict: the employer's website takes the application.
External(r) == [r EXCEPT !.pack.hold = "other"]

Submitted(s) ==
    LET lz == work[s].lz
        mixes == row.there /\ ApprovedFrom(row) # lz
    IN /\ work[s].pc = "submit"
       /\ \/ row' = Gone /\ UNCHANGED merged                             \* sent, or applied before
          \/ row' = (IF ~row.there THEN Gone ELSE Failed(row, lz)) /\ merged' = (merged \/ mixes)
          \/ row' = Failed(Reinserted, lz) /\ merged' = (merged \/ mixes) \* the form cannot be automated
          \/ row' = External(Reinserted) /\ UNCHANGED merged
          \/ row' = row /\ UNCHANGED merged                              \* no browser, no credits, a listing to check
       /\ Works(s, NoWork)
       /\ NoFault /\ UNCHANGED <<documents, versions, defaults, charged, task, requests, reviews, setting, form, asked>>

Reject ==
    /\ Reviews /\ NoFault /\ row.there
    /\ row' = Gone
    /\ UNCHANGED <<documents, versions, defaults, charged, task, requests, setting, form, merged, asked, work>>

-----------------------------------------------------------------------------

\* The server restarts, whatever is at work.
Crash ==
    /\ Fault
    /\ \E s \in Slots : ~Idle(s)
    /\ task' = [s \in Slots |-> NoTask] /\ work' = [s \in Slots |-> NoWork]
    /\ UNCHANGED <<documents, versions, defaults, charged, requests, reviews, setting, form, merged, row, asked>>

LibraryRequest ==
    /\ \/ \E s \in Slots : Idle(s) /\ (Save(s) \/ SetDefault(s))
       \/ \E s \in Slots : SaveStep(s) \/ WriteDefault(s)
       \/ DeleteDocument
    /\ UNCHANGED <<review, setting, form, merged>>

ReviewNext ==
    \/ LibraryRequest
    \/ Put \/ Reject \/ Crash
    \/ \E s \in Slots : Prepare(s) \/ Scan(s) \/ Tailored(s) \/ PrepareWrite(s) \/ GivesUp(s)
    \/ \E s \in Slots : Approve(s) \/ Guard(s) \/ Submitted(s)

ReviewSpec == ReviewInit /\ [][ReviewNext]_reviewVars

-----------------------------------------------------------------------------

\* What can be approved is complete and consistent, however selections, preparations
\* and failed approvals were mixed: nothing holds it, the file that goes out was
\* exported from the version that the pack names, and the picker's choice was kept
\* (PrepareReviewDocuments, ReviewPutDocuments, runSubmit); unless an approval that failed
\* wrote into a row that had changed meanwhile: the UPDATE replaces the pack but keeps a
\* path that it has none for (manager.go:700), which the next preparation takes for its own.
ReadyIsComplete ==
    ~merged /\ row.there /\ ReadyForSubmit(row.pack) =>
        LET pack == row.pack IN
        /\ pack.resume.outcome # "hold" /\ pack.cover.outcome # "hold"
        /\ pack.resume.version # None => pack.resume.path = pack.resume.version /\ Readable(pack.resume.version)
        /\ pack.cover.version # None => pack.cover.path = pack.cover.version /\ Readable(pack.cover.version)
        /\ pack.sel.site => pack.resume.outcome = "site"
        /\ ~pack.sel.site /\ pack.sel.resume # None => pack.resume.version = pack.sel.resume
        /\ pack.sel.skip => pack.cover.outcome = "skipped"
        /\ ~pack.sel.skip /\ pack.sel.cover # None => pack.cover.version = pack.sel.cover

\* The page tells beforehand what a preparation does, and so what it costs: unless the
\* form turns out to ask for something else, both resolve the same, whatever mix of
\* selection and columns earlier preparations left (SelectionFromPack, newManagerLazy).
PreviewIsHonest ==
    row.there /\ ~row.pack.prepared /\ row.pack.caps.det =>
        LET res == Resolve(Policy, Overrides(PreparesFrom(row)), FALSE, row.pack.caps) IN
        Preview(row) = <<Action(res.resume), Action(res.cover)>>

\* After the picker changed, nothing prepared for an earlier selection can be
\* approved (docs/issue-59-acceptance.md: a selection change invalidates preparation).
SelectionHolds ==
    row.there /\ ReadyForSubmit(row.pack) =>
        /\ asked.site => row.pack.resume.outcome = "site"
        /\ asked.resume # None => row.pack.resume.version = asked.resume
        /\ asked.skip => row.pack.cover.outcome = "skipped"
        /\ asked.cover # None => row.pack.cover.version = asked.cover
=============================================================================
