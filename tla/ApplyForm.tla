----------------------------- MODULE ApplyForm ------------------------------
(* One pass through an application form, by easyApply (LinkedIn) or seekApply,  *)
(* to apply or, for the review page, only to prepare documents: the loops over  *)
(* the form's pages with their counters of failed progress, the filling of a    *)
(* page, the documents made on the way, and the one button that sends it all.   *)
(* The site decides what a page asks, whether a click takes, and when the next  *)
(* page shows.                                                                  *)
EXTENDS ApplicationDocuments, Sequences

CONSTANTS
    Scenarios,               \* the form, the settings and the mode (see TypeOK)
    MaxSteps,                \* iterations of easyApply's loop (40)
    PrepareSteps,            \* of a LinkedIn preparation's scan (12)
    SeekSteps,               \* of the Seek loops (10)
    MaxUnfillable,           \* pages with fields of which none was filled, in a row (6)
    MaxBlind,                \* clicks that took, in a row, with nothing filled (8)
    MaxMissing,              \* clicks that found no button, in a row (5)
    StuckAt                  \* repeats of a page, after which it counts as stuck: of a click
                             \* that did not take (4), that took after a fill (5), or without (6)

ASSUME LimitsAssumption ==
    /\ {MaxSteps, PrepareSteps, SeekSteps, MaxUnfillable, MaxBlind, MaxMissing} \subseteq Nat \ {0}
    /\ MaxUnfillable > 1
ASSUME StuckAtAssumption == StuckAt \in [{"refused", "filled", "blind"} -> Nat \ {0}]

\* The button that sends is on the last page.  A frozen pack is one that a preparation
\* stored ready to go, with the files of its versions (documents_prepare.go:118).
ASSUME ScenariosAssumption ==
    \A s \in Scenarios :
        /\ s.site \in {"linkedin", "seek"} /\ s.mode \in {"apply", "prepare"} /\ s.disturbances \in Nat
        /\ s.pack.caps \in Capabilities
        /\ s.pages \in Seq([fields : SUBSET Fields, attached : BOOLEAN, lag : Nat,
                            button : {"next", "submit", "submitOff", "off"}, plain : BOOLEAN])
        /\ s.pages # <<>>
        /\ \A k \in 1 .. Len(s.pages) - 1 : s.pages[k].button \notin {"submit", "submitOff"}
        /\ s.frozen =>
              /\ s.pack.hold = ""
              /\ s.pack.resume.path = s.pack.resume.version /\ s.pack.sel.resume \in {None, s.pack.resume.version}
              /\ s.pack.cover.path = s.pack.cover.version /\ s.pack.sel.cover \in {None, s.pack.cover.version}

VARIABLES
    scenario,                \* never changes
    pc, lz,                  \* where the code is, and its lazyDocGen
    at, moving,              \* the page that shows, and how many looks until the next one does
    done,                    \* what is filled on this page
    uploaded,                \* the versions last put into the form
    run,                     \* the loop's counters
    marked, pressed, sent,   \* submit_dispatch is stored; the button was pressed; the site has it
    tally,                   \* documents made so far, and whether some were lost on the way
    slips,                   \* rare events that happened, by name
    disturbed, result

vars == <<scenario, pc, lz, at, moving, done, uploaded, run, marked, pressed, sent, tally, slips, disturbed, result>>
docs == <<lz, tally, done, uploaded>>
site == <<at, moving>>
sending == <<marked, pressed, sent>>

Page == scenario.pages[at]
Preparing == scenario.mode = "prepare"
LinkedIn == scenario.site = "linkedin"
Settings == scenario.settings

NoRun == [i |-> 0, prev |-> 0, same |-> 0, unfillable |-> 0, missing |-> 0, blind |-> 0, filled |-> FALSE]

Init ==
    /\ scenario \in Scenarios
    /\ lz = NewLazy(scenario.pack.sel, scenario.frozen, scenario.pack, scenario.pack.resume.path, scenario.pack.cover.path)
    /\ pc = "open" /\ at = 1 /\ moving = 0 /\ done = {} /\ run = NoRun
    /\ uploaded = [resume |-> None, cover |-> None]
    /\ marked = FALSE /\ pressed = FALSE /\ sent = FALSE
    /\ tally = [resumes |-> 0, covers |-> 0, lost |-> FALSE]
    /\ slips = {} /\ disturbed = 0 /\ result = "none"

Return(r) == pc' = "done" /\ result' = r
Continue(p) == pc' = p /\ UNCHANGED result
Disturb == disturbed < scenario.disturbances /\ disturbed' = disturbed + 1

\* Mutant of AfterSubmit: the deferred wrapping of the error is dropped.
AfterSubmitPlain(pushed) == "failed"
\* What an error means after the submit button was, or was not, clicked.
AfterSubmit(pushed) == IF pushed THEN "unknown" ELSE "failed"

-----------------------------------------------------------------------------
\* Making documents.

Fresh == [resume |-> <<"tailored", tally.resumes + 1>>, cover |-> <<"letter", tally.covers + 1>>]
Count(l, how) ==
    LET res == Resolve(Settings, Overrides(l), l.frozen, l.caps) IN
    [resumes |-> tally.resumes + (IF Tailors(res, how) THEN 1 ELSE 0),
     covers  |-> tally.covers + (IF ~IsHeld(res) /\ res.cover.make /\ how \in {"none", "coverFile"} THEN 1 ELSE 0),
     lost    |-> tally.lost \/ (Tailors(res, how) /\ how \in {"save", "resumeFile", "coverFile"})]
HowFor(l) == IF MayMaterialize(l) THEN MishapsOf(Resolve(Settings, Overrides(l), l.frozen, l.caps)) ELSE {"none"}
EnsureMaterialized(l, how) == IF MayMaterialize(l) THEN Materialized(l, Settings, Fresh, how) ELSE l
TallyOf(l, how) == IF MayMaterialize(l) THEN Count(l, how) ELSE tally
Costs(n) == disturbed + n <= scenario.disturbances /\ disturbed' = disturbed + n

-----------------------------------------------------------------------------
\* fillFormStep.

\* Fields: files, a "question", an input that is scanned but takes no answer
\* ("stubborn"), and one that shows but is not scanned ("odd").
IsResume(f) == f \in {"resume", "unnamed"}
HasFile(f) == f \in done \/ (IsResume(f) /\ Page.attached)
\* jsScanFields: file inputs always, other fields while they are unanswered.
Scanned == {f \in Page.fields : f \in FileFields \/ f = "stubborn" \/ (f = "question" /\ f \notin done)}
Complete ==
    \A f \in Page.fields : CASE f \in {"stubborn", "odd"}           -> FALSE
                             [] f \in {"resume", "cover", "question"} -> HasFile(f)
                             [] OTHER                                -> TRUE

\* A file in an input with a label may be anyone's, unless only the site's résumé is used.
OriginClear == Settings.resumeMode = "site" \/ ~("resume" \in Scanned /\ HasFile("resume"))
\* What the scan tells the documents.
Looked(l) ==
    LET capped == ApplyCaps(l, CapsOf(Scanned)) IN
    IF Scanned = {} THEN l
    ELSE IF \E f \in Scanned : IsResume(f) /\ HasFile(f)
    THEN SeeAttached(capped, OriginClear)
    ELSE capped

Files == IF Preparing THEN {} ELSE Scanned \cap FileFields
PathFor(l, f) == IF IsResume(f) THEN l.resume ELSE l.cover
CannotFill(l, f) ==
    \/ Blocked(l)
    \/ /\ PathFor(l, f) = None
       /\ IF IsResume(f) /\ l.useSite THEN ~HasFile(f)
          ELSE HasFile(f) /\ f \in {"resume", "cover"} /\ ~(IsResume(f) /\ Settings.resumeMode = "site")
\* The scripts that answer a question, choose an option or tick a box; an input
\* that takes none of it stays as it is.
Answerable(f) == f = "question"
FillsField(l, f) ==
    \/ Answerable(f)
    \/ f \in Files /\ PathFor(l, f) # None
    \/ f \in Files /\ IsResume(f) /\ HasFile(f) /\ (l.useSite \/ Settings.resumeMode = "site")

\* answerFormQuestion: heuristics and the first option stand in for the model,
\* except when its quota is gone.
ModelFails == "question" \in Scanned
\* formUploadFile, seekUploadResume and seekUploadCoverLetter
UploadFails(l) == \E f \in Files : PathFor(l, f) # None

\* What filling the page with the documents l comes to: making them cost `made`
\* mishaps, and `slip` says what else went wrong.
FillOutcome(l, count, made, slip) ==
    LET failed == slip # "none" \/ \E f \in Files : CannotFill(l, f)
        filled == IF failed THEN {} ELSE {f \in Scanned : FillsField(l, f)}
        resumes == \E f \in filled : IsResume(f) /\ l.resume # None
        covers == filled \cap {"cover", "coverOptional"} # {}
    IN [lz |-> l, tally |-> count, failed |-> failed, filled |-> filled,
        cost |-> made + (IF slip = "none" THEN 0 ELSE 1),
        uploaded |-> [resume |-> IF resumes THEN l.resume ELSE uploaded.resume,
                      cover |-> IF covers THEN l.cover ELSE uploaded.cover]]

\* Documents are made when the page asks for a file, after the scan told of it.
Made(looked) ==
    IF Files = {} THEN {<<looked, tally, 0>>}
    ELSE {<<EnsureMaterialized(looked, how), TallyOf(looked, how), IF how = "none" THEN 0 ELSE 1>> :
             how \in HowFor(looked)}
Slips(l) == {"none"} \cup (IF ModelFails THEN {"llm"} ELSE {}) \cup (IF UploadFails(l) THEN {"upload"} ELSE {})
FillOutcomes ==
    UNION {UNION {{FillOutcome(m[1], m[2], m[3], slip) : slip \in Slips(m[1])} : m \in Made(looked)} :
              looked \in {Looked(lz)}}

Fill(o) ==
    /\ Costs(o.cost)
    /\ lz' = o.lz /\ tally' = o.tally /\ done' = done \cup o.filled /\ uploaded' = o.uploaded
HasFields == Scanned # {} \/ "odd" \in Page.fields

-----------------------------------------------------------------------------
\* The site.

\* A click on Next or Continue.
Advance ==
    IF Complete /\ moving = 0 /\ at < Len(scenario.pages)
    THEN IF Page.lag = 0 THEN at' = at + 1 /\ moving' = 0 /\ done' = {}
         ELSE moving' = Page.lag /\ UNCHANGED <<at, done>>
    ELSE UNCHANGED <<site, done>>
\* A look at a page that is about to give way.
Arrive ==
    IF moving = 1 THEN moving' = 0 /\ at' = at + 1 /\ done' = {}
    ELSE moving' = (IF moving = 0 THEN 0 ELSE moving - 1) /\ UNCHANGED <<at, done>>

\* The next page shows while the code works on the last one.
Race ==
    /\ moving > 0 /\ pc \in {"click", "refill", "navigate", "seekClick"} /\ Disturb
    /\ at' = at + 1 /\ moving' = 0 /\ done' = {} /\ slips' = slips \cup {"race"}
    /\ UNCHANGED <<scenario, pc, lz, uploaded, run, sending, tally, result>>

\* The button: its kind, and whether it can be clicked.
Kind == Page.button
Enabled == Kind \in {"next", "submit"}

\* The context, the meter's quota, the identity of the posting or the browser.
Interrupted ==
    /\ pc \notin {"open", "signIn", "button", "opened", "confirm", "done"} /\ Disturb
    /\ Return("failed")
    /\ UNCHANGED <<scenario, docs, site, run, sending, slips>>

-----------------------------------------------------------------------------
\* easyApply.

\* Mutant of LoopHead: a page that gives way does not end the count of its repeats.
LoopHeadKeepsCount ==
    /\ pc = "head" /\ run.i < MaxSteps
    /\ Arrive
    /\ run' = [run EXCEPT !.i = @ + 1, !.prev = at', !.same = IF at' = run.prev THEN @ + 1 ELSE @]
    /\ Continue("fill")
    /\ UNCHANGED <<scenario, lz, tally, uploaded, sending, slips, disturbed>>
\* The top of the loop: has the modal moved on?  A page without labels never counts.
LoopHead ==
    /\ pc = "head" /\ run.i < MaxSteps
    /\ Arrive
    /\ run' = [run EXCEPT !.i = @ + 1, !.prev = at',
                          !.same = IF at' = run.prev /\ ~scenario.pages[at'].plain THEN @ + 1 ELSE 0]
    /\ Continue("fill")
    /\ UNCHANGED <<scenario, lz, tally, uploaded, sending, slips, disturbed>>

\* The page that comes up, and the identity of the posting before it is clicked.
OpenModal ==
    /\ pc = "open" /\ LinkedIn
    /\ \/ Continue(IF Preparing THEN "scan" ELSE "head") /\ UNCHANGED disturbed
       \/ Disturb /\ Return("failed")
    /\ UNCHANGED <<scenario, docs, site, run, sending, slips>>

FillStep ==
    /\ pc = "fill"
    /\ \E o \in FillOutcomes :
        LET n == IF HasFields /\ o.filled = {} THEN run.unfillable + 1 ELSE 0 IN
        /\ Fill(o)
        /\ IF o.failed THEN Return("failed") /\ UNCHANGED run
           ELSE /\ run' = [run EXCEPT !.unfillable = n, !.filled = o.filled # {}]
                /\ IF n >= MaxUnfillable THEN Return("failed") ELSE Continue("click")
    /\ UNCHANGED <<scenario, site, sending, slips>>

\* What follows a click on a page that is not the last: stuck, refused or on.
Judge(ok) ==
    LET limit == CASE ~ok               -> StuckAt["refused"]
                   [] ok /\ run.filled  -> StuckAt["filled"]
                   [] OTHER             -> StuckAt["blind"]
        missing == IF ok THEN 0 ELSE run.missing + 1
        blind == IF ~ok THEN run.blind ELSE IF run.filled THEN 0 ELSE run.blind + 1
    IN IF run.same >= limit
       THEN /\ UNCHANGED run
            /\ IF Complete THEN Return("failed") ELSE Continue("refill")
       ELSE /\ run' = [run EXCEPT !.missing = missing, !.blind = blind,
                                  !.unfillable = IF ok THEN 0 ELSE @]
            /\ IF missing >= MaxMissing \/ blind >= MaxBlind THEN Return("failed") ELSE Continue("head")

ClickNext ==
    /\ pc = "click" /\ Kind # "submit"
    /\ \/ Kind = "next" /\ Advance /\ Judge(TRUE) /\ UNCHANGED disturbed
       \/ Kind # "next" /\ Judge(FALSE) /\ UNCHANGED <<site, done, disturbed>>
       \* The script fails; unless the browser is gone, the loop goes on.
       \/ Disturb /\ Continue("head") /\ UNCHANGED <<site, done, run>>
    /\ UNCHANGED <<scenario, lz, tally, uploaded, sending, slips>>

\* LinkedIn enables the submit button between the look at it and the click.
LateClick ==
    /\ pc = "click" /\ Kind = "submitOff" /\ Disturb
    /\ slips' = slips \cup {"late"} /\ pressed' = TRUE /\ sent' = Complete
    /\ Judge(TRUE)
    /\ UNCHANGED <<scenario, docs, site, marked>>

\* markAttemptSubmitDispatch, then the click: nothing is sent unless it is stored.
ClickSubmit ==
    /\ pc = "click" /\ Kind = "submit"
    /\ \/ /\ marked' = TRUE /\ pressed' = TRUE /\ sent' = Complete
          /\ Continue("confirm") /\ UNCHANGED disturbed
       \/ Disturb /\ UNCHANGED <<marked, pressed, sent>> /\ Return("failed")
       \* The click fails, or its answer is lost.
       \/ /\ Disturb /\ marked' = TRUE /\ pressed' \in BOOLEAN /\ sent' = (pressed' /\ Complete)
          /\ Return(AfterSubmit(TRUE))
    /\ UNCHANGED <<scenario, docs, site, run, slips>>

\* waitLinkedInConfirmation
Confirm ==
    /\ pc = "confirm" /\ LinkedIn
    /\ \/ sent /\ Return("submitted") /\ UNCHANGED disturbed
       \/ ~sent /\ Return(AfterSubmit(TRUE)) /\ UNCHANGED disturbed
       \/ Disturb /\ Return(AfterSubmit(TRUE))
    /\ UNCHANGED <<scenario, docs, site, run, sending, slips>>

\* Mutant of Refill: a page that could be filled again starts the whole count anew.
RefillRestarts ==
    /\ pc = "refill"
    /\ \E o \in FillOutcomes :
        /\ Fill(o)
        /\ IF o.failed \/ o.filled = {} THEN Return("failed") /\ UNCHANGED run
           ELSE run' = NoRun /\ Continue("head")
    /\ UNCHANGED <<scenario, site, sending, slips>>
\* Stuck with validation errors on the page: it is filled again.
Refill ==
    /\ pc = "refill"
    /\ \E o \in FillOutcomes :
        /\ Fill(o)
        /\ IF o.failed \/ o.filled = {} THEN Return("failed") /\ UNCHANGED run
           ELSE run' = [run EXCEPT !.same = 0, !.unfillable = 0] /\ Continue("head")
    /\ UNCHANGED <<scenario, site, sending, slips>>

OutOfSteps ==
    /\ \/ pc = "head" /\ run.i = MaxSteps
       \/ pc = "scan" /\ run.i = PrepareSteps
       \/ pc = "seek" /\ run.i = SeekSteps
    /\ Return("failed")
    /\ UNCHANGED <<scenario, docs, site, run, sending, slips, disturbed>>

-----------------------------------------------------------------------------
\* scanApplyStepsForPrepare: no upload, and no button but the ones that navigate.

\* A failure to fill is noted and passed over, unless the model's quota is gone.
ScanStep ==
    /\ pc = "scan" /\ run.i < PrepareSteps
    /\ \E looked \in {Looked(lz)} : \E how \in HowFor(looked) :
        /\ Costs(IF how = "none" THEN 0 ELSE 1)
        /\ lz' = EnsureMaterialized(looked, how) /\ tally' = TallyOf(looked, how)
    /\ done' = done \cup {f \in Scanned : f = "question"}
    /\ run' = [run EXCEPT !.i = @ + 1] /\ Continue("navigate")
    /\ UNCHANGED <<scenario, site, uploaded, sending, slips>>

\* linkedInPrepareScanComplete
ScanEnds == Kind \in {"submit", "submitOff"}
ScanNavigate ==
    /\ pc = "navigate"
    /\ LET same == IF at = run.prev THEN run.same + 1 ELSE 0 IN
        IF ScanEnds THEN Return("prepared") /\ UNCHANGED <<site, done, run>>
        \* applyPrimaryAllowsPrepareNav
        ELSE IF Kind # "next" \/ same >= 2 THEN Return("failed") /\ UNCHANGED <<site, done, run>>
        ELSE run' = [run EXCEPT !.same = same, !.prev = at] /\ Continue("look") /\ Advance
    /\ UNCHANGED <<scenario, lz, tally, uploaded, sending, slips, disturbed>>
\* Time passes before the next look.
ScanLook ==
    /\ pc = "look" /\ LinkedIn /\ Arrive /\ Continue("scan")
    /\ UNCHANGED <<scenario, lz, tally, uploaded, run, sending, slips, disturbed>>

-----------------------------------------------------------------------------
\* seekApply and prepareSeekReviewDocuments.

\* policiesRequireVerifiedDocuments
VerifiedDocuments == Settings.resumeMode # "site" \/ Settings.coverMode # "skip"
BlockSilent == Preparing \/ VerifiedDocuments
\* The site takes a prefilled application at the first click, without a form.
Silently == sent' = TRUE /\ slips' = slips \cup {"silent"}

\* seekEnsureLoggedIn: with stored credentials, a lost session is recovered once.
SeekSignIn ==
    /\ pc \in {"open", "signIn"} /\ ~LinkedIn
    /\ \/ Continue("button") /\ UNCHANGED disturbed
       \/ (pc = "signIn" \/ ~Preparing) /\ Disturb /\ Return("failed")
    /\ UNCHANGED <<scenario, docs, site, run, sending, slips>>

\* seekOpenQuickApplyForm
OpenSeek ==
    /\ pc = "button"
    /\ IF scenario.entry = "button" /\ BlockSilent
       THEN Return("failed") /\ UNCHANGED <<sent, slips, disturbed>>
       ELSE /\ Continue("opened")
            /\ \/ UNCHANGED <<sent, slips, disturbed>>
               \/ Disturb /\ Silently
    /\ UNCHANGED <<scenario, docs, site, run, marked, pressed>>

\* seekWaitPastLogin, and what shows then.
SeekOpened ==
    /\ pc = "opened"
    \* Sent: an error where documents had to be verified, or the job page does not say so.
    /\ \/ "silent" \in slips /\ ~BlockSilent /\ Return("submitted") /\ UNCHANGED <<slips, disturbed>>
       \/ "silent" \in slips /\ Return("failed") /\ UNCHANGED <<slips, disturbed>>
       \/ "silent" \notin slips /\ Continue("visible") /\ UNCHANGED <<slips, disturbed>>
       \/ "silent" \notin slips /\ Disturb /\ Continue("recover") /\ UNCHANGED slips
       \* A login: only applying recovers from it, and only once.
       \/ /\ "silent" \notin slips /\ Disturb /\ slips' = slips \cup {"login"}
          /\ IF Preparing \/ "login" \in slips THEN Return("failed") ELSE Continue("signIn")
    /\ UNCHANGED <<scenario, docs, site, run, sending>>

\* ensureSeekApplyFormVisible tries once more: seekClickQuickApply does not block.
RecoverSeek ==
    /\ pc = "recover"
    /\ \/ Continue("visible") /\ UNCHANGED <<sent, slips>>
       \/ Return("failed") /\ UNCHANGED <<sent, slips>>
       \/ Silently /\ Return("failed")
    /\ UNCHANGED <<scenario, docs, site, run, marked, pressed, disturbed>>

\* The whole form is looked at before its first page is filled; a hold ends it.
SeeForm ==
    /\ pc = "visible"
    /\ IF Preparing THEN Continue("seek") /\ UNCHANGED <<lz, tally, disturbed>>
       ELSE \E looked \in {ApplyCaps(lz, Probe(Page.fields, Page.attached))} :
            \E how \in HowFor(looked) :
            \E l \in {EnsureMaterialized(looked, how)} :
                /\ Costs(IF how = "none" THEN 0 ELSE 1)
                /\ lz' = l /\ tally' = TallyOf(looked, how)
                /\ IF Blocked(l) THEN Return("failed") ELSE Continue("seek")
    /\ UNCHANGED <<scenario, site, done, uploaded, run, sending, slips>>

SeekFill ==
    /\ pc = "seek" /\ run.i < SeekSteps /\ ~Preparing
    \* One retry for fields that are still mounting comes to the same.
    /\ \E o \in FillOutcomes :
        /\ Fill(o)
        /\ IF o.failed \/ (HasFields /\ o.filled = {}) THEN Return("failed") /\ UNCHANGED run
           ELSE Continue("seekClick") /\ run' = [run EXCEPT !.i = @ + 1]
    /\ UNCHANGED <<scenario, site, sending, slips>>

\* Continue goes before Submit.  Consent is ticked and the page filled again first.
SeekClick ==
    /\ pc = "seekClick" /\ ~Preparing
    /\ \/ ~Enabled /\ Return("failed") /\ UNCHANGED <<site, done, pressed, sent, slips, disturbed>>
       \/ Kind = "next" /\ Advance /\ Continue("look") /\ UNCHANGED <<pressed, sent, slips, disturbed>>
       \/ /\ Kind = "submit" /\ pressed' = TRUE /\ sent' = Complete /\ Continue("confirm")
          /\ UNCHANGED <<site, done, slips, disturbed>>
       \* The click returns an error, taken or not.
       \/ /\ Enabled /\ Disturb /\ Return("failed") /\ UNCHANGED <<site, done>>
          /\ pressed' \in {FALSE, Kind = "submit"} /\ sent' = (pressed' /\ Complete)
          /\ slips' = slips \cup {"click"}
    /\ UNCHANGED <<scenario, lz, tally, uploaded, run, marked>>
SeekLook ==
    /\ pc = "look" /\ ~LinkedIn /\ Arrive /\ Continue("seek")
    /\ UNCHANGED <<scenario, lz, tally, uploaded, run, sending, slips, disturbed>>

\* seekWaitSubmitConfirmation; every error of it is errSeekSubmitUnconfirmed.
SeekConfirm ==
    /\ pc = "confirm" /\ ~LinkedIn
    /\ \/ sent /\ Return("submitted") /\ UNCHANGED disturbed
       \/ ~sent /\ Return(AfterSubmit(TRUE)) /\ UNCHANGED disturbed
       \/ Disturb /\ Return(AfterSubmit(TRUE))
    /\ UNCHANGED <<scenario, docs, site, run, sending, slips>>

SeekScan ==
    /\ pc = "seek" /\ run.i < SeekSteps /\ Preparing
    /\ lz' = ApplyCaps(Looked(lz), Probe(Page.fields, Page.attached))
    /\ done' = done \cup {f \in Scanned : f = "question"}
    /\ run' = [run EXCEPT !.i = @ + 1] /\ Continue("seekClick")
    /\ UNCHANGED <<scenario, site, tally, uploaded, sending, slips, disturbed>>
\* Mutant of SeekNavigate: the submit button is a button like any other.
SeekNavigateOn ==
    /\ pc = "seekClick" /\ Preparing
    /\ \/ ~Enabled /\ Return("failed") /\ UNCHANGED <<site, done, pressed, sent>>
       \/ Kind = "next" /\ Advance /\ Continue("look") /\ UNCHANGED <<pressed, sent>>
       \/ /\ Kind = "submit" /\ pressed' = TRUE /\ sent' = Complete
          /\ Return("prepared") /\ UNCHANGED <<site, done>>
    /\ UNCHANGED <<scenario, lz, tally, uploaded, run, marked, slips, disturbed>>
SeekNavigate ==
    /\ pc = "seekClick" /\ Preparing
    /\ \/ ~Enabled /\ Return("failed") /\ UNCHANGED <<site, done, lz, tally, disturbed>>
       \/ Kind = "next" /\ Advance /\ Continue("look") /\ UNCHANGED <<lz, tally, disturbed>>
       \* The submit button ends the scan; only now are the documents made.
       \/ /\ Kind = "submit"
          /\ \E how \in HowFor(lz) :
                /\ Costs(IF how = "none" THEN 0 ELSE 1)
                /\ lz' = EnsureMaterialized(lz, how) /\ tally' = TallyOf(lz, how)
          /\ Return("prepared") /\ UNCHANGED <<site, done>>
    /\ UNCHANGED <<scenario, uploaded, run, sending, slips>>

-----------------------------------------------------------------------------
Next ==
    \/ OpenModal \/ LoopHead \/ FillStep \/ ClickNext \/ LateClick \/ ClickSubmit \/ Confirm \/ Refill
    \/ ScanStep \/ ScanNavigate \/ ScanLook
    \/ SeekSignIn \/ OpenSeek \/ SeekOpened \/ RecoverSeek \/ SeeForm \/ SeekFill \/ SeekClick \/ SeekLook \/ SeekConfirm
    \/ SeekScan \/ SeekNavigate
    \/ OutOfSteps \/ Interrupted \/ Race

Spec == Init /\ [][Next]_vars /\ WF_vars(Next)

-----------------------------------------------------------------------------
PCs == {"open", "head", "fill", "click", "refill", "confirm", "scan", "navigate", "look",
        "signIn", "button", "opened", "recover", "visible", "seek", "seekClick", "done"}

\* The iterations of the loop that the form is passed in.
StepLimit(s) == IF s.site = "seek" THEN SeekSteps ELSE IF s.mode = "prepare" THEN PrepareSteps ELSE MaxSteps

\* Types, and the bounds of the loops' counters (bot.go:1980, 2210; prepare_review.go:14).
TypeOK ==
    /\ pc \in PCs /\ at \in 1 .. Len(scenario.pages) /\ moving \in Nat
    /\ done \subseteq Page.fields
    /\ run.i \in 0 .. StepLimit(scenario) /\ run.same \in Nat /\ run.filled \in BOOLEAN
    /\ run.unfillable \in 0 .. MaxUnfillable /\ run.missing \in 0 .. MaxMissing /\ run.blind \in 0 .. MaxBlind
    /\ {marked, pressed, sent, tally.lost} \subseteq BOOLEAN /\ (sent => pressed \/ "silent" \in slips)
    /\ slips \subseteq {"race", "late", "click", "silent", "login"} /\ disturbed \in 0 .. scenario.disturbances
    /\ result \in {"none", "submitted", "prepared", "failed", "unknown"}
    /\ (pc = "done") = (result # "none")

\* "Prepare never submits" (docs/issue-59-acceptance.md:14): whatever the pages, preparing
\* never presses the form's submit button.  Only Seek, which may take a prefilled
\* application at the first click, can have it sent (prepare_review.go:182).
PreparingNeverSubmits == Preparing => ~pressed /\ (sent => "silent" \in slips)

\* An attempt that ends as failed, and so may be repeated, was not sent (bot.go:1790),
\* but for three rare events: a submit button that is enabled late, a Seek click that
\* returns an error, and an application that Seek takes without showing a form.
FailureIsUnsent == result = "failed" /\ sent => slips \cap {"late", "click", "silent"} # {}

\* What goes out is what the selection, the policy and the defaults resolve to for
\* everything that the form turned out to ask, page by page, and it is what gets
\* recorded (documents_prepare.go:235, form.go:916).  A page that gives way
\* between its filling and the click on the next one is outside of it.
FormFields == UNION {scenario.pages[k].fields : k \in 1 .. Len(scenario.pages)}
DocumentsAsChosen ==
    sent /\ pressed /\ "race" \notin slips =>
        LET choice == Resolve(Settings, Overrides(lz), lz.frozen, lz.caps) IN
        /\ choice.resume.outcome = "local" /\ (\E f \in FormFields : IsResume(f)) =>
               uploaded.resume = choice.resume.version /\ uploaded.resume = lz.resumeV
        /\ choice.cover.outcome = "local" /\ FormFields \cap {"cover", "coverOptional"} # {} =>
               uploaded.cover = choice.cover.version /\ uploaded.cover = lz.coverV
        /\ choice.resume.outcome = "site" => uploaded.resume = None

\* One application is tailored for, and paid for, once, however often its form makes
\* the bot resolve the documents anew ("TestMaterializeSequence_OneTailorAcross...",
\* documents_prepare.go:285), unless a tailored file could not be stored or exported.
TailoredOnce == tally.resumes > 1 => tally.lost

\* What comes together along the pages of a form: what it asks for, how often the
\* loop looks, and how often it may click without having filled anything.
HasResume(p) == \E f \in p.fields : IsResume(f)
CapsAfter(s, caps, p) ==
    LET seen == MergeCaps(caps, CapsOf(p.fields)) IN
    IF p.attached /\ HasResume(p) THEN [seen EXCEPT !.site = TRUE, !.amb = @ \/ ("resume" \in p.fields /\ s.settings.resumeMode # "site")]
    ELSE seen
AtFirst(s) == [caps |-> s.pack.caps, looks |-> 0, blind |-> 0]
AfterPage(s, total, p) ==
    [caps |-> CapsAfter(s, total.caps, p), looks |-> total.looks + 1 + p.lag,
     blind |-> IF HasResume(p) THEN total.blind ELSE total.blind + 1 + p.lag]
Totals(s) ==
    LET total[k \in 0 .. Len(s.pages)] ==
            IF k = 0 THEN AtFirst(s) ELSE AfterPage(s, total[k - 1], s.pages[k])
    IN total

\* No counter of the loop runs out while the pages change as slowly as they do.
InTime(s, total) ==
    /\ total.looks < StepLimit(s)
    /\ s.site = "linkedin" /\ s.mode = "apply" => total.blind < MaxBlind
NotStuck(s, p) ==
    s.site = "linkedin" =>
        IF s.mode = "prepare" THEN p.lag <= 2
        ELSE p.lag <= StuckAt["filled"] /\ p.lag <= StuckAt["blind"]

\* The documents are never held back, and what a page requires is there.
DocumentsFor(s, totals, k) == Resolve(s.settings, s.pack.sel, s.frozen, totals[k].caps)
DocumentsThere(s, totals) ==
    /\ s.pack.hold \in {"", "changed"}
    /\ s.site = "seek" /\ s.pack.caps.det => ~IsHeld(DocumentsFor(s, totals, 0))
    /\ \A k \in 1 .. Len(s.pages) :
        LET p == s.pages[k]
            res == DocumentsFor(s, totals, k)
        IN /\ p.fields \cap FileFields # {} => ~IsHeld(res)
           /\ res.resume.outcome = "site" /\ HasResume(p) => p.attached
           /\ s.frozen /\ HasResume(p) => s.pack.resume.path # None
           /\ s.frozen /\ "cover" \in p.fields => s.pack.cover.path # None
           \* Seek gives up on a page that has fields and takes nothing, also when the
           \* page shows again and its questions are answered.
           /\ s.site = "seek" =>
                 \/ p.fields \subseteq {"question"}
                 \/ "question" \in p.fields /\ p.lag <= 1
                 \/ res.resume.outcome \in {"local", "site"} /\ HasResume(p)
                 \/ res.cover.outcome = "local" /\ p.fields \cap {"cover", "coverOptional"} # {}
\* Nothing is filled in by a preparation, but for answers.
NeedsNoFile(p) == "cover" \notin p.fields /\ ("resume" \in p.fields => p.attached)

\* A site that behaves.
GoodForm(s, totals) ==
    /\ s.entry = "href"
    /\ \A k \in 1 .. Len(s.pages) :
        LET p == s.pages[k] IN
        /\ p.fields \cap {"stubborn", "odd"} = {}
        /\ p.button = IF k = Len(s.pages) THEN "submit" ELSE "next"
        /\ NotStuck(s, p)
        /\ s.mode = "prepare" => p.button = "submit" \/ NeedsNoFile(p)
    /\ InTime(s, totals[Len(s.pages)])
    /\ s.mode = "apply" => DocumentsThere(s, totals)
Fine(s) == \E totals \in {Totals(s)} : GoodForm(s, totals)
\* A form that behaves is sent, or prepared to its end: the counters that find a form
\* stuck never stop one that moves on, however slowly its pages change (bot.go:2240).
FineFormGoesOut ==
    pc = "done" /\ disturbed = 0 /\ Fine(scenario) => result = IF Preparing THEN "prepared" ELSE "submitted"

\* No form keeps the bot for ever, even one that takes each filling and never moves on
\* (bot.go:2210): Next is one goroutine's next step, which the scheduler runs.
Ends == <>(pc = "done")
=============================================================================
