--------------------- MODULE ApplicationDocuments_proofs ---------------------
(***************************************************************************)
(* One pass through an application form, for every form, pack, setting and *)
(* number of steps, on LinkedIn and on Seek.                               *)
(*                                                                         *)
(* A preparation never reaches a step that fills a form in order to send   *)
(* it (SendInv).  A résumé that was tailored is kept as the one that the   *)
(* next resolution takes, unless a preparation that failed half way lost   *)
(* it (Tallied).  And the documents that go out are the chosen ones: what  *)
(* was put into the form is still what the resolver would choose, because  *)
(* a choice, once the form was scanned, is never taken back by a later     *)
(* look (After), and every page that gave way was filled with it (Filled). *)
(*                                                                         *)
(* The library: what can be read was charged, because each save under way  *)
(* has a version of its own and gives it a file only after the charge      *)
(* (LibraryInv).                                                           *)
(*                                                                         *)
(* One review: what its row holds, and what each preparation and approval  *)
(* under way will write into it, is a whole pack or one that is not        *)
(* prepared (RowPart, WorkPart).  Everything is said of what was read as   *)
(* well as of the row, since each request writes what it read; a failed    *)
(* approval writes only half of it, and "merged" tells whether the other   *)
(* half has changed meanwhile.                                             *)
(*                                                                         *)
(* A form that behaves goes out (OnCourse): as long as nothing disturbs    *)
(* it, a pass is at a step of the way there, its counters are within what  *)
(* the pages so far allow (PaceInv, StuckInv), and what it knows of the    *)
(* form is what these pages add up to (DocsInv).  That they add up, as the *)
(* recursive Totals says, is shown by induction (InductiveSet).            *)
(*                                                                         *)
(* And no form keeps the code for ever (FormInv): from the bounds of the   *)
(* counters, every step lowers what Remaining counts.                      *)
(***************************************************************************)
EXTENDS ApplyForm, ReviewDocuments, FiniteSetTheorems, SequenceTheorems, WellFoundedInduction, TLAPS

\* The button that sends was pressed, or the site took the application, in the common way.
Rare == slips \cap {"late", "click", "silent"} # {}

\* Preparing, the code is never at a step that fills in order to send.
ApplyOnly == {"head", "fill", "click", "refill", "confirm"}

\* Nothing is pressed when preparing; what was pressed or sent is on its way to being
\* confirmed, or the pass ended without calling it a failure.
SendInv ==
    /\ Preparing => ~pressed /\ pc \notin ApplyOnly
    /\ sent => pressed \/ "silent" \in slips
    /\ result # "none" <=> pc = "done"
    /\ pressed \/ sent => Rare \/ pc = "confirm" \/ (pc = "done" /\ result # "failed")

\* SendInv holds at first,
LEMMA SendInit == Init => SendInv
BY DEF Init, SendInv, ApplyOnly

\* and every step keeps it.
LEMMA SendStep ==
    ASSUME SendInv, [Next]_vars
    PROVE  SendInv'
<1> USE DEF Return, Continue, docs, site, sending, Preparing, LinkedIn, ApplyOnly, Rare
<1>0. scenario' = scenario
  BY DEF Next, OpenModal, LoopHead, FillStep, ClickNext, LateClick, ClickSubmit, Confirm, Refill,
         ScanStep, ScanNavigate, ScanLook, SeekSignIn, OpenSeek, SeekOpened, RecoverSeek, SeeForm, SeekFill,
         SeekClick, SeekLook, SeekConfirm, SeekScan, SeekNavigate, OutOfSteps, Interrupted, Race, vars
<1>1. CASE UNCHANGED vars
  BY <1>1 DEF vars, SendInv
<1>2. CASE OpenModal \/ LoopHead \/ Confirm \/ ScanLook
  BY <1>2 DEF SendInv, OpenModal, LoopHead, Confirm, ScanLook, AfterSubmit
<1>3. CASE FillStep
  BY <1>3 DEF SendInv, FillStep
<1>4. CASE Refill
  BY <1>4 DEF SendInv, Refill
<1>5. CASE ClickNext
  BY <1>5 DEF SendInv, ClickNext, Judge
<1>6. CASE LateClick
  BY <1>6 DEF SendInv, LateClick, Judge
<1>7. CASE ClickSubmit
  BY <1>7 DEF SendInv, ClickSubmit, AfterSubmit
<1>8. CASE ScanStep \/ ScanNavigate
  BY <1>8 DEF SendInv, ScanStep, ScanNavigate
<1>9. CASE SeekSignIn \/ OpenSeek \/ SeekOpened \/ RecoverSeek
  BY <1>9 DEF SendInv, SeekSignIn, OpenSeek, SeekOpened, RecoverSeek, Silently
<1>10. CASE SeeForm \/ SeekFill \/ SeekLook
  BY <1>10 DEF SendInv, SeeForm, SeekFill, SeekLook
<1>11. CASE SeekClick
  <2>1. \/ pc' = "done" /\ result' = "failed" /\ UNCHANGED <<pressed, sent, slips>>
        \/ pc' = "look" /\ UNCHANGED <<result, pressed, sent, slips>>
        \/ pc' = "confirm" /\ UNCHANGED <<result, slips>> /\ pressed' = TRUE
        \/ pc' = "done" /\ result' = "failed" /\ slips' = slips \cup {"click"} /\ sent' = (pressed' /\ Complete)
    BY <1>11, Zenon DEF SeekClick
  <2>2. pc = "seekClick" /\ ~Preparing
    BY <1>11 DEF SeekClick
  <2>3. CASE slips' = slips \cup {"click"} /\ sent' = (pressed' /\ Complete) /\ pc' = "done" /\ result' = "failed"
    <3>1. sent' => pressed'
      BY <2>3, Zenon
    <3>2. Rare'
      BY <2>3
    <3> QED BY <3>1, <3>2, <2>2, <2>3, <1>0 DEF SendInv
  <2> QED BY <2>1, <2>2, <2>3, <1>0 DEF SendInv
<1>12. CASE SeekConfirm
  BY <1>12 DEF SendInv, SeekConfirm, AfterSubmit
<1>13. CASE SeekScan \/ SeekNavigate
  BY <1>13 DEF SendInv, SeekScan, SeekNavigate
<1>14. CASE OutOfSteps \/ Interrupted \/ Race
  BY <1>14 DEF SendInv, OutOfSteps, Interrupted, Race
<1> QED BY <1>1, <1>2, <1>3, <1>4, <1>5, <1>6, <1>7, <1>8, <1>9, <1>10, <1>11, <1>12, <1>13, <1>14 DEF Next

\* Preparing the documents of a review (PrepareReviewDocuments) walks through the same form,
\* page by page, and never presses the button that sends it: the scan stops at the page that
\* shows one.  Only Seek can take an application without being asked (prepare_review.go:182).
THEOREM NoPreparationSubmits == Spec => []PreparingNeverSubmits
<1>1. SendInv => PreparingNeverSubmits
  BY DEF SendInv, PreparingNeverSubmits
<1> QED BY SendInit, SendStep, <1>1, PTL DEF Spec

\* An application that easyApply or seekApply reports as failed was not sent, except after a
\* late answer, a click that failed half way or a submission the site took in silence.
THEOREM FailedIsUnsent == Spec => []FailureIsUnsent
<1>1. SendInv => FailureIsUnsent
  BY DEF SendInv, FailureIsUnsent, Rare
<1> QED BY SendInit, SendStep, <1>1, PTL DEF Spec

-----------------------------------------------------------------------------
(* One résumé is tailored. *)

\* What lazyDocGen carries.
LazyFields == {"caps", "sel", "frozen", "pack", "hold", "resumeOverride", "coverOverride",
               "resume", "cover", "resumeV", "coverV", "useSite", "mat"}
IsLazy(l) == l = [f \in LazyFields |-> l[f]]
IsChoice(s) == s = [f \in {"resume", "cover", "site", "skip"} |-> s[f]]

\* The résumé that was tailored is the one the next resolution takes.
Reused(l) == ~l.frozen /\ ~l.sel.site /\ l.resumeV # None
LazyInv(l) == IsLazy(l) /\ IsChoice(l.sel) /\ (l.mat => l.hold # "unknown")

\* A change of what the form asks for clears what was made, and keeps which version was used.
LEMMA InvalidateKeeps ==
    ASSUME NEW l, LazyInv(l), NEW prev, l.hold # "unknown"
    PROVE  /\ LazyInv(Invalidate(l, prev)) /\ Invalidate(l, prev).sel = l.sel
           /\ Invalidate(l, prev).frozen = l.frozen /\ Invalidate(l, prev).resumeV = l.resumeV
<1> DEFINE cleared == [l EXCEPT !.mat = FALSE, !.cover = None, !.coverV = None, !.pack.cover = NoRef]
           plain == [l EXCEPT !.mat = FALSE]
<1>1. /\ IsLazy(plain) /\ plain.sel = l.sel /\ plain.frozen = l.frozen
      /\ plain.resumeV = l.resumeV /\ plain.mat = FALSE
  BY DEF LazyInv, IsLazy, LazyFields
<1>2. /\ IsLazy(cleared) /\ cleared.sel = l.sel /\ cleared.frozen = l.frozen
      /\ cleared.resumeV = l.resumeV /\ cleared.mat = FALSE
  BY DEF LazyInv, IsLazy, LazyFields
<1>3. Invalidate(l, prev) \in {plain, cleared}
  BY DEF Invalidate
<1> HIDE DEF plain, cleared
<1> QED BY <1>1, <1>2, <1>3 DEF LazyInv

\* So does taking over what a look at the form found.
LEMMA ApplyCapsKeeps ==
    ASSUME NEW l, LazyInv(l), NEW caps
    PROVE  /\ LazyInv(ApplyCaps(l, caps)) /\ ApplyCaps(l, caps).sel = l.sel
           /\ ApplyCaps(l, caps).frozen = l.frozen /\ ApplyCaps(l, caps).resumeV = l.resumeV
<1> DEFINE taken == [l EXCEPT !.caps = MergeCaps(@, caps)]
<1>1. /\ LazyInv(taken) /\ taken.sel = l.sel /\ taken.frozen = l.frozen
      /\ taken.resumeV = l.resumeV /\ taken.mat = l.mat /\ taken.hold = l.hold
  <2> DEFINE c == MergeCaps(l.caps, caps)
  <2>1. taken = [l EXCEPT !.caps = c]
    OBVIOUS
  <2> HIDE DEF c, taken
  <2> QED BY <2>1 DEF LazyInv, IsLazy, LazyFields
<1>2. ApplyCaps(l, caps) = taken \/ (l.mat /\ ApplyCaps(l, caps) = Invalidate(taken, l.caps))
  BY DEF ApplyCaps
<1> HIDE DEF taken
<1>3. CASE ApplyCaps(l, caps) = taken
  BY <1>1, <1>3
<1>4. CASE l.mat /\ ApplyCaps(l, caps) = Invalidate(taken, l.caps)
  <2>1. taken.hold # "unknown"
    BY <1>1, <1>4 DEF LazyInv
  <2> QED BY <1>1, <1>4, <2>1, InvalidateKeeps
<1> QED BY <1>2, <1>3, <1>4

\* And a look at the page as a whole, with the files it shows as attached.
LEMMA LookedKeeps ==
    ASSUME LazyInv(lz)
    PROVE  /\ LazyInv(Looked(lz)) /\ Looked(lz).sel = lz.sel
           /\ Looked(lz).frozen = lz.frozen /\ Looked(lz).resumeV = lz.resumeV
<1> DEFINE capped == ApplyCaps(lz, CapsOf(Scanned))
           m == OriginClear
<1>1. /\ LazyInv(capped) /\ capped.sel = lz.sel
      /\ capped.frozen = lz.frozen /\ capped.resumeV = lz.resumeV
  BY ApplyCapsKeeps
<1>2. Looked(lz) \in {lz, capped, SeeAttached(capped, m)}
  BY DEF Looked
<1> HIDE DEF capped, m
<1>3. LET s == SeeAttached(capped, m) IN
      /\ LazyInv(s) /\ s.sel = capped.sel /\ s.frozen = capped.frozen /\ s.resumeV = capped.resumeV
  BY <1>1 DEF SeeAttached, LazyInv, IsLazy, LazyFields
<1> QED BY <1>1, <1>2, <1>3

\* A résumé that was used is a file for the next resolution, which makes none.
LEMMA ResumeReused ==
    ASSUME NEW st, NEW l, LazyInv(l), Reused(l), NEW caps
    PROVE  LET r == ResolveResume(st, Overrides(l), l.frozen, caps) IN ~r.make /\ r.version # None
<1>1. Overrides(l).resume # None /\ ~Overrides(l).site /\ ~l.frozen
  BY DEF Overrides, LazyInv, IsChoice, Reused
<1> DEFINE o == Overrides(l)
<1> HIDE DEF o
<1>2. ResolveResume(st, o, l.frozen, caps) = File(o.resume)
  BY <1>1 DEF ResolveResume, o
<1> QED BY <1>1, <1>2 DEF File, o

\* A version is to be made only for an application that has none.
LEMMA MakeIsFirst ==
    ASSUME NEW st, NEW l, LazyInv(l), NEW caps, ResolveResume(st, Overrides(l), l.frozen, caps).make
    PROVE  ~l.frozen /\ ~l.sel.site /\ l.resumeV = None
<1>1. ~l.frozen
  BY DEF ResolveResume, Frozen, File, Skipped
<1>2. Overrides(l).resume = None \/ Overrides(l).site
  BY <1>1 DEF ResolveResume, File
<1>3. ~Overrides(l).site
  BY <1>1 DEF ResolveResume, Held, Site
<1> QED BY <1>1, <1>2, <1>3 DEF Overrides, LazyInv, IsChoice

\* Materialising, also when it fails half way, remembers the version that was made.
LEMMA MaterializedKeeps ==
    ASSUME NEW l, LazyInv(l), NEW st, NEW fresh, fresh.resume # None, NEW how
    PROVE  LET m == Materialized(l, st, fresh, how)
               res == Resolve(st, Overrides(l), l.frozen, l.caps)
           IN /\ LazyInv(m) /\ m.sel = l.sel /\ m.frozen = l.frozen
              /\ Reused(l) => Reused(m)
              /\ Tailors(res, how) /\ how \notin {"save", "resumeFile", "coverFile"} => Reused(m)
<1> DEFINE res == Resolve(st, Overrides(l), l.frozen, l.caps)
           r == IF res.resume.make THEN [res.resume EXCEPT !.version = fresh.resume] ELSE res.resume
           m == Materialized(l, st, fresh, how)
           failed == [l EXCEPT !.hold = "other"]
<1>1. res.resume = ResolveResume(st, Overrides(l), l.frozen, l.caps)
  BY DEF Resolve
<1>2. Reused(l) => ~res.resume.make /\ res.resume.version # None
  BY <1>1, ResumeReused
<1>3. res.resume.make => ~l.frozen /\ ~l.sel.site /\ res.resume = ToMake
  BY <1>1, MakeIsFirst DEF ResolveResume, File, Frozen, Skipped, Held, Site, ToMake
<1>4. res.resume.make => r.version = fresh.resume
  BY <1>3 DEF ToMake
<1>5. ~res.resume.make => r = res.resume
  OBVIOUS
<1> DEFINE general == how = "cover" /\ st.coverFallback /\ st.cover # None
           absorbed(v, c) == [failed EXCEPT !.resume = IF v # None THEN v ELSE @,
                                            !.resumeV = IF v # None THEN v ELSE @,
                                            !.coverV = IF c # None THEN c ELSE @]
\* Every branch of it changes some fields of the documents at hand.
<1>6. CASE IsHeld(res) \/ how \in {"guard", "resumeFile", "coverFile"}
  <2>1. PICK p : m = [failed EXCEPT !.mat = TRUE, !.pack = p]
    <3>1. CASE IsHeld(res)
      BY <3>1 DEF Materialized
    <3>2. CASE ~IsHeld(res) /\ how = "guard"
      BY <3>2 DEF Materialized
    <3>3. CASE ~IsHeld(res) /\ how \in {"resumeFile", "coverFile"}
      BY <3>3 DEF Materialized
    <3> QED BY <1>6, <3>1, <3>2, <3>3
  <2>2. IsLazy(m) /\ m.sel = l.sel /\ m.frozen = l.frozen /\ m.resumeV = l.resumeV /\ m.hold = "other"
    <3> HIDE DEF m
    <3> QED BY <2>1 DEF LazyInv, IsLazy, LazyFields
  <2>3. ~(Tailors(res, how) /\ how \notin {"save", "resumeFile", "coverFile"})
    BY <1>6 DEF Tailors
  <2> HIDE DEF m, res
  <2> QED BY <2>2, <2>3 DEF Reused, LazyInv, res, m
<1>7. CASE ~IsHeld(res) /\ how \in {"tailor", "save"}
  <2> DEFINE a == AbsorbPartial(failed, res.resume, res.cover, None)
  <2>1. PICK p : m = [a EXCEPT !.mat = TRUE, !.pack = p]
    BY <1>7 DEF Materialized
  <2>2. a.resumeV = IF res.resume.version # None THEN res.resume.version ELSE l.resumeV
    <3> HIDE DEF r, res
    <3> QED BY DEF AbsorbPartial, LazyInv, IsLazy, LazyFields
  <2>3. IsLazy(a) /\ a.sel = l.sel /\ a.frozen = l.frozen /\ a.hold = "other"
    <3> HIDE DEF r, res
    <3> QED BY DEF AbsorbPartial, LazyInv, IsLazy, LazyFields
  <2>4. IsLazy(m) /\ m.sel = l.sel /\ m.frozen = l.frozen /\ m.resumeV = a.resumeV /\ m.hold = "other"
    <3> HIDE DEF m, a
    <3> QED BY <2>1, <2>3 DEF IsLazy, LazyFields
  <2>5. ~(Tailors(res, how) /\ how \notin {"save", "resumeFile", "coverFile"})
    BY <1>7 DEF Tailors
  <2> HIDE DEF m, res, a
  <2> QED BY <2>2, <2>3, <2>4, <2>5 DEF Reused, LazyInv, res, m
<1>8. CASE ~IsHeld(res) /\ how = "cover" /\ ~general
  <2> DEFINE a == AbsorbPartial(failed, r, res.cover, r.version)
  <2>1. PICK p : m = [a EXCEPT !.mat = TRUE, !.pack = p]
    BY <1>8 DEF Materialized
  <2>2. a.resumeV = IF r.version # None THEN r.version ELSE l.resumeV
    <3> HIDE DEF r, res
    <3> QED BY DEF AbsorbPartial, LazyInv, IsLazy, LazyFields
  <2>3. IsLazy(a) /\ a.sel = l.sel /\ a.frozen = l.frozen /\ a.hold = "other"
    <3> HIDE DEF r, res
    <3> QED BY DEF AbsorbPartial, LazyInv, IsLazy, LazyFields
  <2>4. IsLazy(m) /\ m.sel = l.sel /\ m.frozen = l.frozen /\ m.resumeV = a.resumeV /\ m.hold = "other"
    <3> HIDE DEF m, a
    <3> QED BY <2>1, <2>3 DEF IsLazy, LazyFields
  <2>5. Tailors(res, how) => ~l.frozen /\ ~l.sel.site /\ r.version # None
    BY <1>3, <1>4 DEF Tailors
  <2> HIDE DEF m, res, a, r
  <2> QED BY <2>2, <2>3, <2>4, <2>5 DEF Reused, LazyInv, res, m
<1>9. CASE ~IsHeld(res) /\ how \notin {"guard", "tailor", "save", "resumeFile", "coverFile"} /\ (how = "cover" => general)
  <2>1. \E c, rp, cp, us, p :
            m = [l EXCEPT !.hold = "", !.mat = TRUE, !.resume = rp, !.cover = cp,
                          !.resumeV = r.version, !.coverV = c, !.useSite = us, !.pack = p]
    <3> DEFINE c == CASE ~res.cover.make -> res.cover
                      [] res.cover.make /\ general -> File(st.cover)
                      [] OTHER -> [res.cover EXCEPT !.version = fresh.cover]
               rp == IF how # "resumeFile" THEN r.version ELSE None
               cp == IF how # "coverFile" THEN c.version ELSE None
    <3>1. m = [l EXCEPT !.hold = "", !.mat = TRUE, !.resume = rp, !.cover = cp,
                        !.resumeV = r.version, !.coverV = c.version, !.useSite = @ \/ r.outcome = "site",
                        !.pack = PackFromPrepared("", r, c, rp, cp)]
      BY <1>9, Zenon DEF Materialized
    <3> HIDE DEF m, r, c, rp, cp
    <3> QED BY <3>1, Zenon
  <2>2. IsLazy(m) /\ m.sel = l.sel /\ m.frozen = l.frozen /\ m.resumeV = r.version /\ m.hold = ""
    <3> HIDE DEF m, r
    <3> QED BY <2>1 DEF LazyInv, IsLazy, LazyFields
  <2>3. Tailors(res, how) => ~l.frozen /\ ~l.sel.site /\ r.version # None
    BY <1>3, <1>4 DEF Tailors
  <2>4. Reused(l) => r.version # None
    BY <1>2
  <2> HIDE DEF m, res, r
  <2> QED BY <2>2, <2>3, <2>4 DEF Reused, LazyInv, res, m
<1> QED BY <1>6, <1>7, <1>8, <1>9

\* What the documents l and the tally t must agree on.
Tallied(l, t) ==
    /\ LazyInv(l) /\ t.resumes \in Nat
    /\ t.resumes > 1 => t.lost
    /\ t.resumes > 0 /\ ~t.lost => Reused(l)

\* The count of résumés and the documents agree after documents were asked for,
LEMMA MakingTailorsOnce ==
    ASSUME NEW l, Tallied(l, tally), NEW how
    PROVE  Tallied(EnsureMaterialized(l, how), TallyOf(l, how))
<1> DEFINE res == Resolve(Settings, Overrides(l), l.frozen, l.caps)
           m == Materialized(l, Settings, Fresh, how)
           t == Count(l, how)
<1>1. CASE ~MayMaterialize(l)
  BY <1>1 DEF EnsureMaterialized, TallyOf
<1>2. CASE MayMaterialize(l)
  <2>1. EnsureMaterialized(l, how) = m /\ TallyOf(l, how) = t
    BY <1>2 DEF EnsureMaterialized, TallyOf
  <2>2. Fresh.resume # None
    BY DEF Fresh, None
  <2>3. /\ LazyInv(m) /\ (Reused(l) => Reused(m))
        /\ Tailors(res, how) /\ how \notin {"save", "resumeFile", "coverFile"} => Reused(m)
    BY <2>2, MaterializedKeeps DEF Tallied
  <2>4. Tailors(res, how) => ~Reused(l)
    <3>1. Tailors(res, how) => ResolveResume(Settings, Overrides(l), l.frozen, l.caps).make
      BY DEF Tailors, Resolve
    <3> QED BY <3>1, ResumeReused DEF Tallied
  <2>5. /\ t.resumes = tally.resumes + (IF Tailors(res, how) THEN 1 ELSE 0)
        /\ t.lost = (tally.lost \/ (Tailors(res, how) /\ how \in {"save", "resumeFile", "coverFile"}))
    BY DEF Count
  <2> HIDE DEF m, t, res
  <2>6. CASE Tailors(res, how)
    <3>1. tally.resumes = 0 \/ tally.lost
      BY <2>4, <2>6 DEF Tallied
    <3>2. t.resumes = tally.resumes + 1
      BY <2>5, <2>6
    <3>3. t.lost \/ (how \notin {"save", "resumeFile", "coverFile"} /\ ~tally.lost)
      BY <2>5, <2>6, Zenon
    <3>4. tally.lost => t.lost
      BY <2>5, Zenon
    <3> QED BY <2>1, <2>3, <2>6, <3>1, <3>2, <3>3, <3>4 DEF Tallied
  <2>7. CASE ~Tailors(res, how)
    <3>1. t.resumes = tally.resumes
      BY <2>5, <2>7 DEF Tallied
    <3>2. t.lost <=> tally.lost
      BY <2>5, <2>7, Zenon
    <3> QED BY <2>1, <2>3, <3>1, <3>2 DEF Tallied
  <2> QED BY <2>6, <2>7
<1> QED BY <1>1, <1>2

\* after a look at the form, which makes none,
LEMMA LookingTailorsNothing ==
    ASSUME Tallied(lz, tally)
    PROVE  Tallied(Looked(lz), tally)
BY LookedKeeps DEF Tallied, Reused

\* and after a page was filled.
LEMMA FillingTailorsOnce ==
    ASSUME Tallied(lz, tally), NEW o \in FillOutcomes
    PROVE  Tallied(o.lz, o.tally)
<1> DEFINE looked == Looked(lz)
<1>1. Tallied(looked, tally)
  BY LookingTailorsNothing
<1> HIDE DEF looked
<1>2. PICK m \in Made(looked) : \E slip : o = FillOutcome(m[1], m[2], m[3], slip)
  BY DEF FillOutcomes, looked
<1>3. \/ m[1] = looked /\ m[2] = tally
      \/ \E how : m[1] = EnsureMaterialized(looked, how) /\ m[2] = TallyOf(looked, how)
  BY DEF Made
<1>4. Tallied(m[1], m[2])
  BY <1>1, <1>3, MakingTailorsOnce
<1>5. o.lz = m[1] /\ o.tally = m[2]
  BY <1>2 DEF FillOutcome
<1> QED BY <1>4, <1>5

TailorInv == Tallied(lz, tally)

\* At first nothing is tailored,
LEMMA TailorInit == Init => TailorInv
<1> SUFFICES ASSUME Init PROVE TailorInv
  OBVIOUS
<1>1. IsLazy(lz) /\ IsChoice(lz.sel) /\ lz.mat = FALSE
  <2> DEFINE p == scenario.pack
  <2>1. lz = NewLazy(p.sel, scenario.frozen, p, p.resume.path, p.cover.path)
    BY DEF Init
  <2> HIDE DEF p
  <2>2. CASE ~scenario.frozen
    BY <2>1, <2>2 DEF NewLazy, IsLazy, LazyFields, IsChoice
  <2>3. CASE scenario.frozen
    <3> DEFINE first(a, b) == IF a # None THEN a ELSE b
               chosen == [resume |-> first(p.sel.resume, p.sel.resume), cover |-> first(p.sel.cover, p.sel.cover),
                          site |-> p.sel.site, skip |-> p.sel.skip]
    <3> DEFINE h == IF ~scenario.frozen /\ ~Stale(p.hold) THEN p.hold ELSE ""
               site1 == p.resume.outcome = "site"
               r == first(p.resume.path, p.resume.path)
               c == first(p.cover.path, p.cover.path)
               fresh == [caps |-> p.caps, sel |-> chosen, frozen |-> scenario.frozen, pack |-> p, hold |-> h,
                         resumeOverride |-> p.resume.path, coverOverride |-> p.cover.path,
                         resume |-> None, cover |-> None, resumeV |-> None, coverV |-> None,
                         useSite |-> FALSE, mat |-> FALSE]
    <3>1. lz = [fresh EXCEPT !.hold = p.hold, !.useSite = site1, !.resume = r, !.cover = c,
                             !.resumeV = p.resume.version, !.coverV = p.cover.version]
      BY <2>1, <2>3 DEF NewLazy
    <3> HIDE DEF chosen, h, site1, r, c
    <3>2. IsLazy(lz) /\ lz.mat = FALSE /\ lz.sel = chosen
      BY <3>1 DEF IsLazy, LazyFields
    <3>3. IsChoice(chosen)
      BY DEF chosen, IsChoice
    <3> QED BY <3>2, <3>3
  <2> QED BY <2>2, <2>3
<1>2. tally.resumes = 0
  BY DEF Init
<1> QED BY <1>1, <1>2 DEF TailorInv, Tallied, LazyInv

\* and every step keeps the tally right.
LEMMA TailorStep ==
    ASSUME TailorInv, [Next]_vars
    PROVE  TailorInv'
<1>1. CASE \E o \in FillOutcomes : Fill(o)
  BY <1>1, FillingTailorsOnce DEF Fill, TailorInv
<1>2. CASE \E how : lz' = EnsureMaterialized(Looked(lz), how) /\ tally' = TallyOf(Looked(lz), how)
  BY <1>2, LookingTailorsNothing, MakingTailorsOnce DEF TailorInv
<1>3. CASE \E how : lz' = EnsureMaterialized(lz, how) /\ tally' = TallyOf(lz, how)
  BY <1>3, MakingTailorsOnce DEF TailorInv
<1>4. ASSUME NEW caps PROVE Tallied(ApplyCaps(lz, caps), tally)
  BY ApplyCapsKeeps DEF TailorInv, Tallied, Reused
<1>5. CASE SeeForm /\ ~Preparing
  <2>1. PICK caps, how : /\ lz' = EnsureMaterialized(ApplyCaps(lz, caps), how)
                         /\ tally' = TallyOf(ApplyCaps(lz, caps), how)
    BY <1>5 DEF SeeForm
  <2> QED BY <2>1, <1>4, MakingTailorsOnce DEF TailorInv
<1>6. CASE SeekScan
  <2>1. lz' = ApplyCaps(Looked(lz), Probe(Page.fields, Page.attached)) /\ tally' = tally
    BY <1>6 DEF SeekScan
  <2>2. Tallied(Looked(lz), tally)
    BY LookingTailorsNothing DEF TailorInv
  <2>3. Tallied(ApplyCaps(Looked(lz), Probe(Page.fields, Page.attached)), tally)
    BY <2>2, ApplyCapsKeeps DEF Tallied, Reused
  <2> QED BY <2>1, <2>3 DEF TailorInv
<1>7. CASE UNCHANGED <<lz, tally>>
  BY <1>7 DEF TailorInv
<1>8. \/ \E o \in FillOutcomes : Fill(o)
      \/ \E how : lz' = EnsureMaterialized(Looked(lz), how) /\ tally' = TallyOf(Looked(lz), how)
      \/ \E how : lz' = EnsureMaterialized(lz, how) /\ tally' = TallyOf(lz, how)
      \/ SeeForm /\ ~Preparing
      \/ SeekScan
      \/ UNCHANGED <<lz, tally>>
  BY Zenon DEF Next, OpenModal, LoopHead, FillStep, ClickNext, LateClick, ClickSubmit, Confirm, Refill,
         ScanStep, ScanNavigate, ScanLook, SeekSignIn, OpenSeek, SeekOpened, RecoverSeek, SeeForm, SeekFill,
         SeekClick, SeekLook, SeekConfirm, SeekScan, SeekNavigate, OutOfSteps, Interrupted, Race, vars, docs
<1> QED BY <1>1, <1>2, <1>3, <1>5, <1>6, <1>7, <1>8

\* At most one tailored résumé is made and paid for per application, whatever the form
\* shows on later pages and however often documents are asked for again, unless the
\* first could not be stored or exported (lazyDocGen.get, absorbPartialMaterialization).
THEOREM ApplicationIsTailoredOnce == Spec => []TailoredOnce
<1>1. TailorInv => TailoredOnce
  BY DEF TailorInv, Tallied, TailoredOnce
<1> QED BY TailorInit, TailorStep, <1>1, PTL DEF Spec

-----------------------------------------------------------------------------
(* What goes out is what was chosen. *)

\* The résumé, or the letter, that was used is the one any later resolution chooses.
RightResume(l) == (l.frozen \/ ~l.sel.site) /\ l.sel.resume \in {None, l.resumeV}
RightCover(l) == (l.frozen \/ ~l.sel.skip) /\ l.sel.cover \in {None, l.coverV}

\* What the resolver says of them, from what is known now.
ResumeChoice(st, l) == ResolveResume(st, Overrides(l), l.frozen, l.caps)
CoverChoice(st, l) == ResolveCover(st, Overrides(l), l.frozen, l.caps)
LocalResume(st, l) == ResumeChoice(st, l).outcome = "local"
LocalCover(st, l) == CoverChoice(st, l).outcome = "local"

\* What is used is what was chosen; a frozen pack is never made anew; and documents that
\* count as materialised have every file that the resolver asks for, unless held back.
Agreed(st, l) ==
    /\ IsLazy(l) /\ IsChoice(l.sel) /\ l.caps \in Capabilities
    /\ l.resumeV # None => RightResume(l)
    /\ l.coverV # None => RightCover(l)
    /\ l.resume \in {None, l.resumeV} /\ l.cover \in {None, l.coverV}
    /\ l.frozen => l.resume = l.resumeV /\ l.cover = l.coverV /\ ~l.mat
                   /\ l.sel.resume \in {None, l.resumeV} /\ l.sel.cover \in {None, l.coverV}
    /\ l.mat => l.hold # "unknown" /\ l.caps.det
    /\ l.mat /\ ~Blocked(l) => (LocalResume(st, l) => l.resume # None) /\ (LocalCover(st, l) => l.cover # None)

\* A résumé that was used is what the resolver chooses again.
LEMMA UsedResumeIsChosen ==
    ASSUME NEW st, NEW l, Agreed(st, l), l.resumeV # None
    PROVE  \A caps : ResolveResume(st, Overrides(l), l.frozen, caps) = File(l.resumeV)
<1> DEFINE o == Overrides(l)
<1>1. o.resume = l.resumeV /\ o.site = l.sel.site
  BY DEF Overrides, Agreed, IsChoice, RightResume
<1>2. l.frozen \/ ~l.sel.site
  BY DEF Agreed, RightResume
<1> HIDE DEF o
<1>3. \A caps : ResolveResume(st, o, l.frozen, caps) = File(o.resume)
  BY <1>1, <1>2 DEF ResolveResume, Frozen
<1> QED BY <1>1, <1>3 DEF o

\* And so is a cover letter.
LEMMA UsedCoverIsChosen ==
    ASSUME NEW st, NEW l, Agreed(st, l), l.coverV # None
    PROVE  \A caps : ResolveCover(st, Overrides(l), l.frozen, caps) = File(l.coverV)
<1> DEFINE o == Overrides(l)
<1>1. o.cover = l.coverV /\ o.skip = l.sel.skip
  BY DEF Overrides, Agreed, IsChoice, RightCover
<1>2. l.frozen \/ ~l.sel.skip
  BY DEF Agreed, RightCover
<1> HIDE DEF o
<1>3. \A caps : ResolveCover(st, o, l.frozen, caps) = File(o.cover)
  BY <1>1, <1>2 DEF ResolveCover, Frozen
<1> QED BY <1>1, <1>3 DEF o

\* What the form asks for only grows.
Grows(c, d) == (c.det => d.det) /\ (c.req => d.req) /\ (c.opt => d.opt)

\* Once the form was scanned, no more that it asks for makes a file of a résumé.
LEMMA ResumeIsDecided ==
    ASSUME NEW st, NEW o, NEW o2, NEW frozen, NEW c \in Capabilities, NEW d \in Capabilities,
           o2.resume = o.resume, o2.site = o.site, c.det, d.det,
           ResolveResume(st, o, frozen, c).outcome # "local"
    PROVE  ResolveResume(st, o2, frozen, d).outcome # "local"
BY DEF ResolveResume, Frozen, File, Held, Site, Skipped, ToMake

\* Nor of a cover letter, once the form was seen to take one, unless it is now required.
LEMMA CoverIsDecided ==
    ASSUME NEW st, NEW o, NEW o2, NEW frozen, NEW c \in Capabilities, NEW d \in Capabilities,
           o2.cover = o.cover, o2.skip = o.skip, c.det, d.det,
           c.req \/ c.opt, c.req => d.req, c.opt => d.opt, d.req => c.req,
           ResolveCover(st, o, frozen, c).outcome # "local"
    PROVE  ResolveCover(st, o2, frozen, d).outcome # "local"
<1>1. CoverIntent(st.coverMode, c) <=> CoverIntent(st.coverMode, d)
  BY DEF CoverIntent
<1> QED BY <1>1 DEF ResolveCover, Frozen, File, Held, Skipped, ToMake

\* What a choice that is no file, and one that is, comes with.
LEMMA ResumeChoices ==
    ASSUME NEW st, NEW o, NEW frozen, NEW c
    PROVE  LET r == ResolveResume(st, o, frozen, c) IN
           /\ r.outcome # "local" => ~r.make /\ r.version = None
           /\ r.outcome = "local" => r.make \/ r.version # None
           /\ r.make => r = ToMake
BY DEF ResolveResume, Frozen, File, Held, Site, Skipped, ToMake

\* The same for cover letters.
LEMMA CoverChoices ==
    ASSUME NEW st, NEW o, NEW frozen, NEW c
    PROVE  LET r == ResolveCover(st, o, frozen, c) IN
           /\ r.outcome # "local" => ~r.make /\ r.version = None
           /\ r.outcome = "local" => r.make \/ r.version # None
           /\ r.make => r = ToMake
BY DEF ResolveCover, Frozen, File, Held, Skipped, ToMake

\* The form was scanned, and no résumé file is to go with it; the form takes a cover letter, and none is to.
NoResume(st, l) == l.caps.det /\ ~LocalResume(st, l)
NoCover(st, l) == l.caps.det /\ (l.caps.req \/ l.caps.opt) /\ ~LocalCover(st, l)

\* That no résumé file is to go out stays so, however much more the form asks for,
LEMMA NoResumeStays ==
    ASSUME NEW st, NEW l, NEW m, NoResume(st, l), IsChoice(l.sel), m.sel = l.sel, m.frozen = l.frozen,
           m.resumeV = l.resumeV, l.caps \in Capabilities, m.caps \in Capabilities, Grows(l.caps, m.caps)
    PROVE  NoResume(st, m)
<1>1. Overrides(m).resume = Overrides(l).resume /\ Overrides(m).site = Overrides(l).site
  BY DEF Overrides, IsChoice
<1>2. l.caps.det /\ m.caps.det
  BY DEF NoResume, Grows
<1>3. ResolveResume(st, Overrides(l), l.frozen, l.caps).outcome # "local"
  BY DEF NoResume, LocalResume, ResumeChoice
<1> DEFINE o == Overrides(l)
           o2 == Overrides(m)
<1> HIDE DEF o, o2
<1>4. ResolveResume(st, o2, l.frozen, m.caps).outcome # "local"
  BY <1>1, <1>2, <1>3, ResumeIsDecided DEF o, o2
<1> QED BY <1>2, <1>4 DEF NoResume, LocalResume, ResumeChoice, o2

\* and that no letter is, unless one becomes required.
LEMMA NoCoverStays ==
    ASSUME NEW st, NEW l, NEW m, NoCover(st, l), IsChoice(l.sel), m.sel = l.sel, m.frozen = l.frozen,
           m.coverV = l.coverV, l.caps \in Capabilities, m.caps \in Capabilities, Grows(l.caps, m.caps),
           m.caps.req => l.caps.req
    PROVE  NoCover(st, m)
<1>1. Overrides(m).cover = Overrides(l).cover /\ Overrides(m).skip = Overrides(l).skip
  BY DEF Overrides, IsChoice
<1>2. l.caps.det /\ m.caps.det /\ (l.caps.req \/ l.caps.opt) /\ (m.caps.req \/ m.caps.opt)
  BY DEF NoCover, Grows
<1>3. ResolveCover(st, Overrides(l), l.frozen, l.caps).outcome # "local"
  BY DEF NoCover, LocalCover, CoverChoice
<1> DEFINE o == Overrides(l)
           o2 == Overrides(m)
<1> HIDE DEF o, o2
<1>4. ResolveCover(st, o2, l.frozen, m.caps).outcome # "local"
  BY <1>1, <1>2, <1>3, CoverIsDecided DEF o, o2, Grows
<1> QED BY <1>2, <1>4 DEF NoCover, LocalCover, CoverChoice, o2

\* What the fields of a page say of the form.
LEMMA CapsOfFields ==
    ASSUME NEW fields
    PROVE  /\ CapsOf(fields) \in Capabilities
           /\ CapsOf(fields).det <=> fields # {}
           /\ CapsOf(fields).req <=> "cover" \in fields
           /\ "coverOptional" \in fields => CapsOf(fields).opt
<1>1. Cardinality(fields \cap {"resume", "unnamed"}) \in Nat
  <2>1. IsFiniteSet({"resume", "unnamed"})
    <3>1. IsFiniteSet({"resume"})
      BY FS_Singleton
    <3>2. IsFiniteSet({"resume"} \cup {"unnamed"})
      BY <3>1, FS_AddElement
    <3>3. {"resume", "unnamed"} = {"resume"} \cup {"unnamed"}
      OBVIOUS
    <3> QED BY <3>2, <3>3
  <2>2. IsFiniteSet(fields \cap {"resume", "unnamed"})
    BY <2>1, FS_Subset
  <2> QED BY <2>2, FS_CardinalityType
<1> DEFINE n == Cardinality(fields \cap {"resume", "unnamed"})
           opt == "coverOptional" \in fields \/ (n >= 2 /\ "cover" \notin fields)
<1>2. CapsOf(fields) = [NoCaps EXCEPT !.det = fields # {}, !.slots = n, !.req = "cover" \in fields, !.opt = opt]
  BY DEF CapsOf
<1>3. opt \in BOOLEAN /\ n \in Nat /\ ("coverOptional" \in fields => opt)
  BY <1>1
<1> HIDE DEF n, opt
<1>4. CapsOf(fields) = [det |-> fields # {}, slots |-> n, req |-> "cover" \in fields, opt |-> opt,
                        site |-> FALSE, amb |-> FALSE]
  BY <1>2 DEF NoCaps
<1> DEFINE det == fields # {}
           req == "cover" \in fields
<1>5. det \in BOOLEAN /\ req \in BOOLEAN
  OBVIOUS
<1>6. CapsOf(fields) = [det |-> det, slots |-> n, req |-> req, opt |-> opt, site |-> FALSE, amb |-> FALSE]
  BY <1>4
<1>7. (det <=> fields # {}) /\ (req <=> "cover" \in fields)
  OBVIOUS
<1> HIDE DEF det, req
<1>8. CapsOf(fields) \in Capabilities
  BY <1>3, <1>5, <1>6 DEF Capabilities
<1>9. CapsOf(fields).det = det /\ CapsOf(fields).req = req /\ CapsOf(fields).opt = opt
  BY <1>6
<1> QED BY <1>3, <1>7, <1>8, <1>9

\* And so is what a probe of the page says.
LEMMA ProbeOfFields ==
    ASSUME NEW fields, NEW attached \in BOOLEAN
    PROVE  Probe(fields, attached) \in Capabilities
BY CapsOfFields DEF Probe, Capabilities

\* Merging two looks forgets nothing that one of them found, and requires no more.
LEMMA MergedCaps ==
    ASSUME NEW c \in Capabilities, NEW d \in Capabilities
    PROVE  /\ MergeCaps(c, d) \in Capabilities
           /\ Grows(c, MergeCaps(c, d))
           /\ d.det => Grows(d, MergeCaps(c, d))
           /\ MergeCaps(c, d).req => c.req \/ d.req
BY DEF MergeCaps, Grows, Capabilities

\* How a look at the form, or the making of documents, changes what is known and used.
After(st, l, m) ==
    /\ Agreed(st, m) /\ m.sel = l.sel /\ m.frozen = l.frozen /\ Grows(l.caps, m.caps)
    /\ l.resumeV # None => m.resumeV = l.resumeV
    /\ l.coverV # None /\ (l.caps.req \/ l.caps.opt) => m.coverV = l.coverV
    /\ NoResume(st, l) => NoResume(st, m)
    /\ NoCover(st, l) /\ (m.caps.req => l.caps.req) => NoCover(st, m)

\* Two such changes make one.
LEMMA AfterOfAfter ==
    ASSUME NEW st, NEW l, NEW m, NEW n, After(st, l, m), After(st, m, n)
    PROVE  After(st, l, n)
BY DEF After, Grows

\* The rest of After for documents of which the versions did not change.
LEMMA AfterIfKept ==
    ASSUME NEW st, NEW l, NEW m, Agreed(st, l), Agreed(st, m), m.sel = l.sel, m.frozen = l.frozen,
           Grows(l.caps, m.caps), m.resumeV = l.resumeV,
           m.coverV = l.coverV \/ ~(l.caps.req \/ l.caps.opt)
    PROVE  After(st, l, m)
<1>1. IsChoice(l.sel) /\ l.caps \in Capabilities /\ m.caps \in Capabilities
  BY DEF Agreed
<1>2. NoResume(st, l) => NoResume(st, m)
  BY <1>1, NoResumeStays
<1>3. NoCover(st, l) => m.coverV = l.coverV
  BY DEF NoCover
<1>4. NoCover(st, l) /\ (m.caps.req => l.caps.req) => NoCover(st, m)
  BY <1>1, <1>3, NoCoverStays
<1> QED BY <1>2, <1>4 DEF After

\* Clearing what was made is such a change,
LEMMA InvalidateAfter ==
    ASSUME NEW st, NEW l, NEW c \in Capabilities, Agreed(st, l), l.mat, c = l.caps \/ Grows(l.caps, c)
    PROVE  After(st, l, Invalidate([l EXCEPT !.caps = c], l.caps))
<1> DEFINE k == [l EXCEPT !.caps = c]
           plain == [k EXCEPT !.mat = FALSE]
           cleared == [k EXCEPT !.mat = FALSE, !.cover = None, !.coverV = None, !.pack.cover = NoRef]
           i == Invalidate(k, l.caps)
<1>1. /\ IsLazy(k) /\ k.caps = c /\ k.sel = l.sel /\ k.frozen = l.frozen /\ k.hold = l.hold
      /\ k.resumeV = l.resumeV /\ k.coverV = l.coverV /\ k.resume = l.resume /\ k.cover = l.cover
  BY DEF Agreed, IsLazy, LazyFields
<1>2. k.hold # "unknown" /\ ~l.frozen
  BY <1>1 DEF Agreed
<1>3. i = plain \/ (i = cleared /\ ~l.caps.req /\ ~l.caps.opt)
  BY <1>2 DEF Invalidate
<1> HIDE DEF k, i
<1>4. /\ IsLazy(plain) /\ plain.caps = c /\ plain.sel = l.sel /\ plain.frozen = l.frozen
      /\ plain.resumeV = l.resumeV /\ plain.coverV = l.coverV /\ plain.resume = l.resume /\ plain.cover = l.cover
      /\ plain.mat = FALSE
  BY <1>1 DEF IsLazy, LazyFields
<1>5. /\ IsLazy(cleared) /\ cleared.caps = c /\ cleared.sel = l.sel /\ cleared.frozen = l.frozen
      /\ cleared.resumeV = l.resumeV /\ cleared.coverV = None /\ cleared.resume = l.resume /\ cleared.cover = None
      /\ cleared.mat = FALSE
  BY <1>1 DEF IsLazy, LazyFields
<1>6. Grows(l.caps, c)
  BY DEF Grows
<1> HIDE DEF plain, cleared
<1>7. Agreed(st, plain)
  BY <1>2, <1>4 DEF Agreed, RightResume, RightCover
<1>8. Agreed(st, cleared)
  BY <1>2, <1>5 DEF Agreed, RightResume, RightCover
<1>9. CASE i = plain
  BY <1>4, <1>6, <1>7, <1>9, AfterIfKept DEF i, k
<1>10. CASE i = cleared /\ ~l.caps.req /\ ~l.caps.opt
  BY <1>5, <1>6, <1>8, <1>10, AfterIfKept DEF i, k
<1> QED BY <1>3, <1>9, <1>10

\* and taking over what a look found,
LEMMA ApplyCapsAfter ==
    ASSUME NEW st, NEW l, NEW caps \in Capabilities, Agreed(st, l)
    PROVE  /\ After(st, l, ApplyCaps(l, caps))
           /\ ApplyCaps(l, caps).caps = MergeCaps(l.caps, caps)
<1> DEFINE c == MergeCaps(l.caps, caps)
           k == [l EXCEPT !.caps = c]
           a == ApplyCaps(l, caps)
<1>1. c \in Capabilities /\ Grows(l.caps, c)
  BY MergedCaps DEF Agreed
<1>2. /\ IsLazy(k) /\ k.caps = c /\ k.sel = l.sel /\ k.frozen = l.frozen /\ k.hold = l.hold /\ k.mat = l.mat
      /\ k.resumeV = l.resumeV /\ k.coverV = l.coverV /\ k.resume = l.resume /\ k.cover = l.cover
  <2> HIDE DEF c
  <2> QED BY DEF Agreed, IsLazy, LazyFields
<1>3. \/ a = k /\ ~(~l.frozen /\ l.mat /\ c.det /\ c # l.caps)
      \/ a = Invalidate(k, l.caps) /\ l.mat
  BY <1>2 DEF ApplyCaps
<1>4. CASE a = k /\ ~(~l.frozen /\ l.mat /\ c.det /\ c # l.caps)
  <2>1. CASE l.mat
    <3>1. c = l.caps
      BY <1>1, <1>4, <2>1 DEF Agreed, Grows
    <3>2. k = l
      <4> HIDE DEF c
      <4> QED BY <3>1 DEF Agreed, IsLazy, LazyFields
    <3>3. Agreed(st, k)
      BY <3>2
    <3> HIDE DEF k, c, a
    <3> QED BY <1>1, <1>2, <1>4, <3>3, AfterIfKept DEF a, c
  <2>2. CASE ~l.mat
    <3> HIDE DEF k, c
    <3>1. Agreed(st, k)
      BY <1>1, <1>2, <2>2 DEF Agreed, RightResume, RightCover
    <3> HIDE DEF a
    <3> QED BY <1>1, <1>2, <1>4, <3>1, AfterIfKept DEF a, c
  <2> QED BY <2>1, <2>2
<1>5. CASE a = Invalidate(k, l.caps) /\ l.mat
  <2>1. After(st, l, Invalidate(k, l.caps))
    BY <1>1, <1>5, InvalidateAfter
  <2>2. Invalidate(k, l.caps).caps = c
    <3> HIDE DEF k, c
    <3>1. k.hold # "unknown"
      BY <1>2, <1>5 DEF Agreed
    <3> QED BY <1>2, <3>1 DEF Invalidate, IsLazy, LazyFields
  <2> QED BY <1>5, <2>1, <2>2
<1> QED BY <1>3, <1>4, <1>5

\* The choice of a cover letter looks at no more than this.
LEMMA SameCover ==
    ASSUME NEW st, NEW o, NEW o2, NEW frozen, NEW c, NEW d, o2.cover = o.cover, o2.skip = o.skip,
           d.det = c.det, d.req = c.req, d.opt = c.opt, d.slots = c.slots
    PROVE  ResolveCover(st, o2, frozen, d) = ResolveCover(st, o, frozen, c)
<1>1. CoverIntent(st.coverMode, c) = CoverIntent(st.coverMode, d)
  BY DEF CoverIntent
<1> QED BY <1>1 DEF ResolveCover

\* and seeing files attached,
LEMMA SeeAttachedAfter ==
    ASSUME NEW st, NEW l, NEW clear \in BOOLEAN, Agreed(st, l)
    PROVE  LET s == SeeAttached(l, clear) IN
           After(st, l, s) /\ \A f \in {"det", "req", "opt"} : s.caps[f] = l.caps[f]
<1> DEFINE s == SeeAttached(l, clear)
           amb == l.caps.amb \/ ~clear
           c == [l.caps EXCEPT !.site = TRUE, !.amb = amb]
<1>1. amb \in BOOLEAN
  OBVIOUS
<1>2. s = [l EXCEPT !.caps = c]
  BY DEF SeeAttached, Agreed, IsLazy, LazyFields, Capabilities
<1> HIDE DEF amb, s
<1>3. c \in Capabilities
  BY <1>1 DEF Agreed, Capabilities
<1>4. /\ c.det = l.caps.det /\ c.req = l.caps.req /\ c.opt = l.caps.opt /\ c.slots = l.caps.slots
  BY DEF Agreed, Capabilities
<1> HIDE DEF c
<1>5. /\ IsLazy(s) /\ s.caps = c /\ s.sel = l.sel /\ s.frozen = l.frozen /\ s.hold = l.hold /\ s.mat = l.mat
      /\ s.resumeV = l.resumeV /\ s.coverV = l.coverV /\ s.resume = l.resume /\ s.cover = l.cover
  BY <1>2 DEF Agreed, IsLazy, LazyFields
<1>6. Grows(l.caps, c)
  BY <1>4 DEF Grows
<1>7. Overrides(s) = Overrides(l)
  BY <1>5 DEF Overrides
<1>8. LocalCover(st, s) = LocalCover(st, l)
  BY <1>4, <1>5, <1>7, SameCover DEF LocalCover, CoverChoice
<1>9. ASSUME l.mat, LocalResume(st, s) PROVE LocalResume(st, l)
  <2>1. l.caps.det /\ IsChoice(l.sel) /\ l.caps \in Capabilities
    BY <1>9 DEF Agreed
  <2>2. ~LocalResume(st, l) => NoResume(st, s)
    BY <2>1, <1>3, <1>5, <1>6, NoResumeStays DEF NoResume
  <2> QED BY <1>9, <2>2 DEF NoResume
<1>10. Agreed(st, s)
  BY <1>3, <1>4, <1>5, <1>8, <1>9 DEF Agreed, RightResume, RightCover, Blocked
<1>11. After(st, l, s)
  BY <1>5, <1>6, <1>10, AfterIfKept
<1> QED BY <1>4, <1>5, <1>11 DEF s

\* and the whole look at a page.
LEMMA LookedAfter ==
    ASSUME Agreed(Settings, lz)
    PROVE  /\ After(Settings, lz, Looked(lz))
           /\ Scanned # {} => Looked(lz).caps.det
           /\ "cover" \in Scanned => Looked(lz).caps.req
           /\ "coverOptional" \in Scanned => Looked(lz).caps.opt
           /\ Looked(lz).caps.req => lz.caps.req \/ "cover" \in Scanned
<1> DEFINE st == Settings
           sc == Scanned
           capped == ApplyCaps(lz, CapsOf(sc))
           m == OriginClear
           seen == SeeAttached(capped, m)
<1>1. /\ CapsOf(sc) \in Capabilities /\ (CapsOf(sc).det <=> sc # {})
      /\ (CapsOf(sc).req <=> "cover" \in sc) /\ ("coverOptional" \in sc => CapsOf(sc).opt)
  BY CapsOfFields
<1>2. After(st, lz, capped) /\ capped.caps = MergeCaps(lz.caps, CapsOf(sc))
  BY <1>1, ApplyCapsAfter
<1>3. \/ Looked(lz) = lz /\ sc = {}
      \/ Looked(lz) \in {capped, seen} /\ sc # {}
  BY DEF Looked
<1>4. m \in BOOLEAN
  BY DEF OriginClear
<1> HIDE DEF capped, m, st
<1>5. Agreed(st, capped)
  BY <1>2 DEF After
<1>6. After(st, capped, seen) /\ \A f \in {"det", "req", "opt"} : seen.caps[f] = capped.caps[f]
  BY <1>4, <1>5, SeeAttachedAfter
<1> HIDE DEF seen, sc
<1>7. After(st, lz, seen)
  BY <1>2, <1>6, AfterOfAfter
<1>8. After(st, lz, lz)
  BY DEF After, Grows, st
<1>9. sc # {} => /\ capped.caps.det /\ ("cover" \in sc => capped.caps.req)
                 /\ ("coverOptional" \in sc => capped.caps.opt)
                 /\ (capped.caps.req => lz.caps.req \/ "cover" \in sc)
  <2>1. lz.caps \in Capabilities
    BY DEF Agreed
  <2> QED BY <1>1, <1>2, <2>1, MergedCaps DEF Grows
<1> QED BY <1>2, <1>3, <1>6, <1>7, <1>8, <1>9 DEF sc, st

\* What every way of making documents leaves behind.
LEMMA MakingAfter ==
    ASSUME NEW st, NEW l, NEW m, Agreed(st, l), ~l.frozen, l.caps.det,
           IsLazy(m), m.sel = l.sel, m.frozen = l.frozen, m.caps = l.caps, m.hold \in {"", "other"},
           \/ m.resumeV = l.resumeV
           \/ /\ l.resumeV = None /\ LocalResume(st, l)
              /\ ~l.sel.site /\ l.sel.resume \in {None, m.resumeV},
           \/ m.coverV = l.coverV
           \/ /\ l.coverV = None /\ LocalCover(st, l)
              /\ ~l.sel.skip /\ l.sel.cover \in {None, m.coverV},
           m.resume \in {None, m.resumeV}, m.cover \in {None, m.coverV},
           m.hold = "" => (LocalResume(st, l) => m.resume # None) /\ (LocalCover(st, l) => m.cover # None)
    PROVE  After(st, l, m)
<1>1. l.caps \in Capabilities /\ m.caps \in Capabilities /\ IsChoice(l.sel) /\ Grows(l.caps, m.caps)
  BY DEF Agreed, Grows
<1>2. ~LocalResume(st, l) => NoResume(st, m)
  <2>1. ~LocalResume(st, l) => NoResume(st, l) /\ m.resumeV = l.resumeV
    BY DEF NoResume
  <2> QED BY <1>1, <2>1, NoResumeStays
<1>3. ~LocalCover(st, l) => ~LocalCover(st, m)
  <2>1. ~LocalCover(st, l) => m.coverV = l.coverV
    OBVIOUS
  <2>2. m.coverV = l.coverV => Overrides(m).cover = Overrides(l).cover /\ Overrides(m).skip = Overrides(l).skip
    BY <1>1 DEF Overrides, IsChoice
  <2> DEFINE o == Overrides(l)
             o2 == Overrides(m)
  <2> HIDE DEF o, o2
  <2>3. ~LocalCover(st, l) => ResolveCover(st, o2, l.frozen, m.caps) = ResolveCover(st, o, l.frozen, l.caps)
    <3>1. ~LocalCover(st, l) => o2.cover = o.cover /\ o2.skip = o.skip
      BY <2>1, <2>2 DEF o, o2
    <3> QED BY <3>1 DEF ResolveCover
  <2> QED BY <2>3 DEF LocalCover, CoverChoice, o, o2
<1>4. m.resumeV # None => RightResume(m)
  BY DEF Agreed, RightResume
<1>5. m.coverV # None => RightCover(m)
  BY DEF Agreed, RightCover
<1>6. ~Blocked(m) => (LocalResume(st, m) => m.resume # None) /\ (LocalCover(st, m) => m.cover # None)
  BY <1>2, <1>3 DEF Blocked, NoResume
<1>7. Agreed(st, m)
  BY <1>1, <1>4, <1>5, <1>6 DEF Agreed
<1>8. NoResume(st, l) => NoResume(st, m)
  BY <1>2 DEF NoResume
<1>9. NoCover(st, l) => NoCover(st, m)
  BY <1>3 DEF NoCover
<1>10. l.resumeV # None => m.resumeV = l.resumeV
  OBVIOUS
<1>11. l.coverV # None => m.coverV = l.coverV
  OBVIOUS
<1> QED BY <1>1, <1>7, <1>8, <1>9, <1>10, <1>11 DEF After

\* A choice that names a version names the selected or the used one, where there is one.
LEMMA ChosenVersions ==
    ASSUME NEW st, NEW l, Agreed(st, l), ~l.frozen
    PROVE  LET r == ResumeChoice(st, l)
               c == CoverChoice(st, l)
           IN /\ r.outcome = "local" => ~l.sel.site /\ (r.make => l.sel.resume = None) /\ (~r.make => l.sel.resume \in {None, r.version})
              /\ c.outcome = "local" => ~l.sel.skip /\ (c.make => l.sel.cover = None) /\ (~c.make => l.sel.cover \in {None, c.version})
              /\ l.resumeV # None => r = File(l.resumeV)
              /\ l.coverV # None => c = File(l.coverV)
<1> DEFINE o == Overrides(l)
<1>1. /\ o.site = l.sel.site /\ o.skip = l.sel.skip
      /\ l.sel.resume # None => o.resume = l.sel.resume
      /\ l.sel.cover # None => o.cover = l.sel.cover
  BY DEF Overrides, Agreed, IsChoice
<1> HIDE DEF o
<1>2. LET r == ResolveResume(st, o, l.frozen, l.caps) IN
      r.outcome = "local" => ~o.site /\ (o.resume # None => r = File(o.resume))
  BY DEF ResolveResume, Frozen, File, Held, Site, Skipped, ToMake
<1>3. LET c == ResolveCover(st, o, l.frozen, l.caps) IN
      c.outcome = "local" => ~o.skip /\ (o.cover # None => c = File(o.cover))
  BY DEF ResolveCover, Frozen, File, Held, Skipped, ToMake
<1>4. l.resumeV # None => ResumeChoice(st, l) = File(l.resumeV)
  BY UsedResumeIsChosen DEF ResumeChoice
<1>5. l.coverV # None => CoverChoice(st, l) = File(l.coverV)
  BY UsedCoverIsChosen DEF CoverChoice
<1>6. \A v : File(v).make = FALSE /\ File(v).version = v
  BY DEF File
<1> DEFINE r == ResumeChoice(st, l)
           c == CoverChoice(st, l)
<1>7. r = ResolveResume(st, o, l.frozen, l.caps) /\ c = ResolveCover(st, o, l.frozen, l.caps)
  BY DEF ResumeChoice, CoverChoice, o
<1> HIDE DEF r, c
<1> QED BY <1>1, <1>2, <1>3, <1>4, <1>5, <1>6, <1>7 DEF r, c

\* Making documents is such a change: the three ways it ends are shown apart.
LEMMA MaterializedAfter ==
    \A st, l, fresh, how :
        Agreed(st, l) /\ MayMaterialize(l) /\ fresh.resume # None /\ fresh.cover # None =>
            /\ After(st, l, Materialized(l, st, fresh, how))
            /\ Materialized(l, st, fresh, how).mat /\ Materialized(l, st, fresh, how).caps = l.caps
<1> SUFFICES
        ASSUME NEW st, NEW l, Agreed(st, l), MayMaterialize(l),
               NEW fresh, fresh.resume # None, fresh.cover # None, NEW how
        PROVE  /\ After(st, l, Materialized(l, st, fresh, how))
               /\ Materialized(l, st, fresh, how).mat /\ Materialized(l, st, fresh, how).caps = l.caps
  OBVIOUS
<1> DEFINE m == Materialized(l, st, fresh, how)
           res == Resolve(st, Overrides(l), l.frozen, l.caps)
           rc == ResumeChoice(st, l)
           cc == CoverChoice(st, l)
           r == IF rc.make THEN [rc EXCEPT !.version = fresh.resume] ELSE rc
           general == how = "cover" /\ st.coverFallback /\ st.cover # None
           c == CASE ~cc.make -> cc
                  [] cc.make /\ general -> File(st.cover)
                  [] OTHER -> [cc EXCEPT !.version = fresh.cover]
           failed == [l EXCEPT !.hold = "other"]
<1>1. ~l.frozen /\ l.caps.det
  BY DEF MayMaterialize
<1>2. res.resume = rc /\ res.cover = cc
  BY DEF Resolve, ResumeChoice, CoverChoice
<1>3. /\ rc.outcome = "local" => ~l.sel.site /\ (rc.make => l.sel.resume = None) /\ (~rc.make => l.sel.resume \in {None, rc.version})
      /\ cc.outcome = "local" => ~l.sel.skip /\ (cc.make => l.sel.cover = None) /\ (~cc.make => l.sel.cover \in {None, cc.version})
      /\ l.resumeV # None => rc = File(l.resumeV)
      /\ l.coverV # None => cc = File(l.coverV)
  BY <1>1, ChosenVersions
<1>4. /\ rc.outcome # "local" => ~rc.make /\ rc.version = None
      /\ rc.outcome = "local" => rc.make \/ rc.version # None
      /\ rc.make => rc = ToMake
  BY ResumeChoices DEF ResumeChoice
<1>5. /\ cc.outcome # "local" => ~cc.make /\ cc.version = None
      /\ cc.outcome = "local" => cc.make \/ cc.version # None
      /\ cc.make => cc = ToMake
  BY CoverChoices DEF CoverChoice
<1>6. /\ LocalResume(st, l) <=> rc.outcome = "local"
      /\ LocalCover(st, l) <=> cc.outcome = "local"
  BY DEF LocalResume, LocalCover
<1> HIDE DEF rc, cc
\* The version that is made or taken.
<1>7. /\ rc.make => r.version = fresh.resume
      /\ ~rc.make => r = rc
  BY <1>4 DEF ToMake
<1>8. /\ ~cc.make => c = cc
      /\ cc.make /\ general => c = File(st.cover)
      /\ cc.make /\ ~general => c.version = fresh.cover
  BY <1>5 DEF ToMake
<1>9. \A v \in {rc.version, r.version} :
          /\ v # None => LocalResume(st, l) /\ ~l.sel.site /\ l.sel.resume \in {None, v}
          /\ l.resumeV # None => v = l.resumeV
  BY <1>3, <1>4, <1>6, <1>7 DEF File, ToMake
<1>10. \A v \in {cc.version, c.version} :
          /\ v # None => LocalCover(st, l) /\ ~l.sel.skip /\ l.sel.cover \in {None, v}
          /\ l.coverV # None => v = l.coverV
  BY <1>3, <1>5, <1>6, <1>8 DEF File, ToMake
<1>11. (LocalResume(st, l) => r.version # None) /\ (LocalCover(st, l) => c.version # None)
  BY <1>4, <1>5, <1>6, <1>7, <1>8 DEF File
\* Every branch of it changes some fields of the documents at hand.
<1>12. CASE IsHeld(res) \/ how \in {"guard", "resumeFile", "coverFile"}
  <2>1. PICK p : m = [failed EXCEPT !.mat = TRUE, !.pack = p]
    <3>1. CASE IsHeld(res)
      BY <3>1 DEF Materialized
    <3>2. CASE ~IsHeld(res) /\ how = "guard"
      BY <3>2 DEF Materialized
    <3>3. CASE ~IsHeld(res) /\ how \in {"resumeFile", "coverFile"}
      BY <3>3 DEF Materialized
    <3> QED BY <1>12, <3>1, <3>2, <3>3
  <2> HIDE DEF m
  <2>2. /\ IsLazy(m) /\ m.sel = l.sel /\ m.frozen = l.frozen /\ m.caps = l.caps /\ m.hold = "other" /\ m.mat = TRUE
        /\ m.resume = l.resume /\ m.cover = l.cover /\ m.resumeV = l.resumeV /\ m.coverV = l.coverV
    BY <2>1 DEF Agreed, IsLazy, LazyFields
  <2>3. After(st, l, m)
    BY <1>1, <2>2, MakingAfter DEF Agreed
  <2> QED BY <2>2, <2>3 DEF m
<1>13. CASE ~IsHeld(res) /\ how \in {"tailor", "save"}
  <2> DEFINE a == AbsorbPartial(failed, rc, cc, None)
  <2>1. PICK p : m = [a EXCEPT !.mat = TRUE, !.pack = p]
    BY <1>2, <1>13 DEF Materialized
  <2>2. /\ IsLazy(a) /\ a.sel = l.sel /\ a.frozen = l.frozen /\ a.caps = l.caps /\ a.hold = "other"
        /\ a.resume = l.resume /\ a.cover = l.cover
        /\ a.resumeV = (IF rc.version # None THEN rc.version ELSE l.resumeV)
        /\ a.coverV = (IF cc.version # None THEN cc.version ELSE l.coverV)
    BY DEF AbsorbPartial, Agreed, IsLazy, LazyFields
  <2> HIDE DEF m, a
  <2>3. /\ IsLazy(m) /\ m.sel = l.sel /\ m.frozen = l.frozen /\ m.caps = l.caps /\ m.hold = "other" /\ m.mat = TRUE
        /\ m.resume = l.resume /\ m.cover = l.cover /\ m.resumeV = a.resumeV /\ m.coverV = a.coverV
    BY <2>1, <2>2 DEF IsLazy, LazyFields
  <2>4. \/ m.resumeV = l.resumeV
        \/ l.resumeV = None /\ LocalResume(st, l) /\ ~l.sel.site /\ l.sel.resume \in {None, m.resumeV}
    BY <1>9, <2>2, <2>3
  <2>5. \/ m.coverV = l.coverV
        \/ l.coverV = None /\ LocalCover(st, l) /\ ~l.sel.skip /\ l.sel.cover \in {None, m.coverV}
    BY <1>10, <2>2, <2>3
  <2>6. m.resume \in {None, m.resumeV} /\ m.cover \in {None, m.coverV}
    BY <1>9, <1>10, <2>2, <2>3 DEF Agreed
  <2>7. After(st, l, m)
    BY <1>1, <2>3, <2>4, <2>5, <2>6, MakingAfter
  <2> QED BY <2>3, <2>7 DEF m
<1>14. CASE ~IsHeld(res) /\ how = "cover" /\ ~general
  <2> DEFINE a == AbsorbPartial(failed, r, cc, r.version)
  <2>1. PICK p : m = [a EXCEPT !.mat = TRUE, !.pack = p]
    BY <1>2, <1>14 DEF Materialized
  <2>2. /\ IsLazy(a) /\ a.sel = l.sel /\ a.frozen = l.frozen /\ a.caps = l.caps /\ a.hold = "other"
        /\ a.resume = (IF r.version # None THEN r.version ELSE l.resume) /\ a.cover = l.cover
        /\ a.resumeV = (IF r.version # None THEN r.version ELSE l.resumeV)
        /\ a.coverV = (IF cc.version # None THEN cc.version ELSE l.coverV)
    <3> HIDE DEF r
    <3> QED BY DEF AbsorbPartial, Agreed, IsLazy, LazyFields
  <2> HIDE DEF m, a
  <2>3. /\ IsLazy(m) /\ m.sel = l.sel /\ m.frozen = l.frozen /\ m.caps = l.caps /\ m.hold = "other" /\ m.mat = TRUE
        /\ m.resume = a.resume /\ m.cover = l.cover /\ m.resumeV = a.resumeV /\ m.coverV = a.coverV
    BY <2>1, <2>2 DEF IsLazy, LazyFields
  <2> HIDE DEF r
  <2>4. \/ m.resumeV = l.resumeV
        \/ l.resumeV = None /\ LocalResume(st, l) /\ ~l.sel.site /\ l.sel.resume \in {None, m.resumeV}
    BY <1>9, <2>2, <2>3
  <2>5. \/ m.coverV = l.coverV
        \/ l.coverV = None /\ LocalCover(st, l) /\ ~l.sel.skip /\ l.sel.cover \in {None, m.coverV}
    BY <1>10, <2>2, <2>3
  <2>6. m.resume \in {None, m.resumeV} /\ m.cover \in {None, m.coverV}
    BY <1>9, <1>10, <2>2, <2>3 DEF Agreed
  <2>7. After(st, l, m)
    BY <1>1, <2>3, <2>4, <2>5, <2>6, MakingAfter
  <2> QED BY <2>3, <2>7 DEF m
<1>15. CASE ~IsHeld(res) /\ how \notin {"guard", "tailor", "save", "resumeFile", "coverFile"} /\ (how = "cover" => general)
  <2>1. m = [l EXCEPT !.hold = "", !.mat = TRUE, !.resume = r.version, !.cover = c.version,
                      !.resumeV = r.version, !.coverV = c.version, !.useSite = @ \/ r.outcome = "site",
                      !.pack = PackFromPrepared("", r, c, r.version, c.version)]
    BY <1>2, <1>15 DEF Materialized
  <2> HIDE DEF m, r, c
  <2>2. /\ IsLazy(m) /\ m.sel = l.sel /\ m.frozen = l.frozen /\ m.caps = l.caps /\ m.hold = "" /\ m.mat = TRUE
        /\ m.resume = r.version /\ m.cover = c.version /\ m.resumeV = r.version /\ m.coverV = c.version
    BY <2>1 DEF Agreed, IsLazy, LazyFields
  <2>3. \/ m.resumeV = l.resumeV
        \/ l.resumeV = None /\ LocalResume(st, l) /\ ~l.sel.site /\ l.sel.resume \in {None, m.resumeV}
    BY <1>9, <2>2
  <2>4. \/ m.coverV = l.coverV
        \/ l.coverV = None /\ LocalCover(st, l) /\ ~l.sel.skip /\ l.sel.cover \in {None, m.coverV}
    BY <1>10, <2>2
  <2>5. After(st, l, m)
    BY <1>1, <1>11, <2>2, <2>3, <2>4, MakingAfter
  <2> QED BY <2>2, <2>5 DEF m
<1> QED BY <1>12, <1>13, <1>14, <1>15

-----------------------------------------------------------------------------
(* Where the form is. *)

\* The steps before the first page is looked at.
EarlySteps == {"open", "signIn", "button", "opened", "recover", "visible"}
Sends == {"submit", "submitOff"}

\* Only the last page sends it, and it never gives way.
PlaceInv ==
    /\ scenario \in Scenarios
    /\ at \in 1 .. Len(scenario.pages) /\ moving \in Nat
    /\ moving > 0 => Kind = "next" /\ at < Len(scenario.pages)
    /\ pressed => Kind \in Sends
    /\ pc \in EarlySteps => at = 1 /\ moving = 0 /\ ~pressed
    /\ ~Preparing => pc \notin {"scan", "navigate"}
    /\ ~Preparing /\ LinkedIn => pc \in {"open", "head", "fill", "click", "refill", "confirm", "done"}

\* The pages of a form.
PageRecords == [fields : SUBSET Fields, attached : BOOLEAN, lag : Nat,
                button : {"next", "submit", "submitOff", "off"}, plain : BOOLEAN]

\* A form has at least one of them.
LEMMA PagesType ==
    ASSUME scenario \in Scenarios
    PROVE  /\ scenario.pages \in Seq(PageRecords) /\ Len(scenario.pages) \in Nat \ {0}
           /\ \A k \in 1 .. Len(scenario.pages) : scenario.pages[k] \in PageRecords
<1>1. scenario.pages \in Seq(PageRecords) /\ scenario.pages # <<>>
  BY ScenariosAssumption DEF PageRecords
<1> DEFINE ps == scenario.pages
<1> HIDE DEF ps
<1>2. Len(ps) \in Nat \ {0} /\ \A k \in 1 .. Len(ps) : ps[k] \in PageRecords
  BY <1>1, EmptySeq, LenProperties, ElementOfSeq DEF ps
<1> QED BY <1>1, <1>2 DEF ps

\* No step changes the scenario.
LEMMA ScenarioStays ==
    ASSUME [Next]_vars
    PROVE  scenario' = scenario
BY DEF Next, OpenModal, LoopHead, FillStep, ClickNext, LateClick, ClickSubmit, Confirm, Refill,
       ScanStep, ScanNavigate, ScanLook, SeekSignIn, OpenSeek, SeekOpened, RecoverSeek, SeeForm, SeekFill,
       SeekClick, SeekLook, SeekConfirm, SeekScan, SeekNavigate, OutOfSteps, Interrupted, Race, vars

\* Every pass begins at the first page.
LEMMA PlaceInit == Init => PlaceInv
<1> SUFFICES ASSUME Init PROVE PlaceInv
  OBVIOUS
<1>1. scenario \in Scenarios
  BY DEF Init
<1>2. Len(scenario.pages) \in Nat \ {0}
  BY <1>1, PagesType
<1> QED BY <1>1, <1>2 DEF Init, PlaceInv, EarlySteps

\* How the page that shows may change.
Stays == at' = at /\ moving' = moving
\* The next page arrives,
LEMMA ArrivePlace ==
    ASSUME PlaceInv, Arrive
    PROVE  /\ at' \in 1 .. Len(scenario.pages) /\ moving' \in Nat
           /\ \/ at' = at /\ (moving' > 0 => moving > 0)
              \/ at' = at + 1 /\ moving' = 0 /\ moving > 0 /\ ~pressed
<1>1. Len(scenario.pages) \in Nat
  BY PagesType DEF PlaceInv
<1>2. moving > 0 => ~pressed
  BY DEF PlaceInv, Sends
<1> QED BY <1>1, <1>2 DEF Arrive, PlaceInv

\* or is asked for.
LEMMA AdvancePlace ==
    ASSUME PlaceInv, Kind = "next", Advance
    PROVE  /\ at' \in 1 .. Len(scenario.pages) /\ moving' \in Nat
           /\ ~pressed
           /\ \/ at' = at /\ (moving' > 0 => at < Len(scenario.pages))
              \/ at' = at + 1 /\ moving' = 0 /\ Complete
<1>1. Len(scenario.pages) \in Nat
  BY PagesType DEF PlaceInv
<1>2. Page.lag \in Nat
  BY PagesType DEF PlaceInv, Page, PageRecords
<1>3. ~pressed
  BY DEF PlaceInv, Sends
<1> QED BY <1>1, <1>2, <1>3 DEF Advance, PlaceInv, site

\* Every step keeps PlaceInv.
LEMMA PlaceStep ==
    ASSUME PlaceInv, SendInv, [Next]_vars
    PROVE  PlaceInv'
<1> USE DEF Return, Continue, docs, site, sending, Preparing, LinkedIn
<1>0. scenario' = scenario
  BY ScenarioStays
<1>p. \A k : scenario'.pages[k] = scenario.pages[k]
  BY <1>0
<1>1. CASE UNCHANGED vars
  BY <1>1 DEF vars, PlaceInv, Kind, Page
<1>2. CASE OpenModal
  BY <1>0, <1>2 DEF OpenModal, PlaceInv, Kind, Page, EarlySteps
<1>3. CASE LoopHead
  <2>1. pc' = "fill" /\ pressed' = pressed /\ Arrive
    BY <1>3 DEF LoopHead
  <2>2. pc = "head"
    BY <1>3 DEF LoopHead
  <2>3. ~Preparing
    BY <2>2 DEF SendInv, ApplyOnly
  <2> QED BY <1>0, <2>1, <2>2, <2>3, ArrivePlace DEF PlaceInv, Kind, Page, EarlySteps
<1>4. CASE FillStep \/ Refill
  <2>1. Stays /\ pressed' = pressed
    BY <1>4 DEF FillStep, Refill, Stays
  <2>2. pc \in {"fill", "refill"} /\ pc' \in {"done", "click", "head"}
    BY <1>4 DEF FillStep, Refill
  <2>3. ~Preparing
    BY <2>2 DEF SendInv, ApplyOnly
  <2> QED BY <1>0, <2>1, <2>2, <2>3 DEF PlaceInv, Kind, Page, EarlySteps, Stays
<1>5. CASE ClickNext
  <2>1. pc = "click" /\ pressed' = pressed
    BY <1>5 DEF ClickNext
  <2>2. pc' \in {"done", "refill", "head"}
    BY <1>5 DEF ClickNext, Judge
  <2>3. (Kind = "next" /\ Advance) \/ Stays
    BY <1>5 DEF ClickNext, Stays
  <2>4. CASE Stays
    BY <1>0, <2>1, <2>2, <2>4 DEF PlaceInv, Kind, Page, EarlySteps, Stays
  <2>5. CASE Kind = "next" /\ Advance
    BY <1>0, <2>1, <2>2, <2>5, AdvancePlace DEF PlaceInv, Kind, Page, EarlySteps
  <2> QED BY <2>3, <2>4, <2>5
<1>6. CASE LateClick
  <2>1. pc' \in {"done", "refill", "head"}
    BY <1>6 DEF LateClick, Judge
  <2> QED BY <1>0, <1>6, <2>1 DEF LateClick, PlaceInv, Kind, Page, EarlySteps, Sends
<1>7. CASE ClickSubmit
  BY <1>0, <1>7 DEF ClickSubmit, PlaceInv, Kind, Page, EarlySteps, Sends
<1>8. CASE Confirm \/ SeekConfirm
  <2>1. Stays /\ pressed' = pressed /\ pc' = "done"
    BY <1>8 DEF Confirm, SeekConfirm, Stays
  <2> QED BY <1>0, <2>1 DEF PlaceInv, Kind, Page, EarlySteps, Stays
<1>9. CASE ScanStep
  BY <1>0, <1>9 DEF ScanStep, PlaceInv, Kind, Page, EarlySteps
<1>10. CASE ScanNavigate
  <2>1. pc = "navigate" /\ pressed' = pressed /\ Preparing
    BY <1>10 DEF ScanNavigate, PlaceInv
  <2>2. pc' \in {"done", "look"}
    BY <1>10 DEF ScanNavigate
  <2>3. (Kind = "next" /\ Advance) \/ Stays
    BY <1>10 DEF ScanNavigate, Stays
  <2>4. CASE Stays
    BY <1>0, <2>1, <2>2, <2>4 DEF PlaceInv, Kind, Page, EarlySteps, Stays
  <2>5. CASE Kind = "next" /\ Advance
    BY <1>0, <2>1, <2>2, <2>5, AdvancePlace DEF PlaceInv, Kind, Page, EarlySteps
  <2> QED BY <2>3, <2>4, <2>5
<1>11. CASE ScanLook
  <2>1. pc = "look" /\ pc' = "scan" /\ pressed' = pressed /\ Arrive /\ LinkedIn
    BY <1>11 DEF ScanLook
  <2>2. Preparing
    BY <2>1 DEF PlaceInv
  <2> QED BY <1>0, <2>1, <2>2, ArrivePlace DEF PlaceInv, Kind, Page, EarlySteps
<1>12. CASE SeekSignIn
  BY <1>0, <1>12 DEF SeekSignIn, PlaceInv, Kind, Page, EarlySteps
<1>13. CASE OpenSeek
  BY <1>0, <1>13 DEF OpenSeek, PlaceInv, Kind, Page, EarlySteps, Silently
<1>14. CASE SeekOpened
  BY <1>0, <1>14 DEF SeekOpened, PlaceInv, Kind, Page, EarlySteps
<1>15. CASE RecoverSeek
  BY <1>0, <1>15 DEF RecoverSeek, PlaceInv, Kind, Page, EarlySteps, Silently
<1>16. CASE SeeForm
  BY <1>0, <1>16 DEF SeeForm, PlaceInv, Kind, Page, EarlySteps
<1>17. CASE SeekFill
  BY <1>0, <1>17 DEF SeekFill, Fill, PlaceInv, Kind, Page, EarlySteps
<1>18. CASE SeekClick
  <2>1. pc = "seekClick"
    BY <1>18 DEF SeekClick
  <2>2. \/ Kind = "next" /\ Advance /\ pc' = "look" /\ pressed' = pressed
        \/ Stays /\ pc' \in {"done", "confirm"} /\ (pressed' => pressed \/ Kind = "submit")
    BY <1>18, Zenon DEF SeekClick, Stays
  <2>3. CASE Kind = "next" /\ Advance /\ pc' = "look" /\ pressed' = pressed
    BY <1>0, <2>1, <2>3, AdvancePlace DEF PlaceInv, Kind, Page, EarlySteps
  <2>4. CASE Stays /\ pc' \in {"done", "confirm"} /\ (pressed' => pressed \/ Kind = "submit")
    BY <1>0, <2>1, <2>4 DEF PlaceInv, Kind, Page, EarlySteps, Sends, Stays
  <2> QED BY <2>2, <2>3, <2>4
<1>19. CASE SeekLook
  <2>1. pc = "look" /\ pc' = "seek" /\ pressed' = pressed /\ Arrive /\ ~LinkedIn
    BY <1>19 DEF SeekLook
  <2> QED BY <1>0, <2>1, ArrivePlace DEF PlaceInv, Kind, Page, EarlySteps
<1>20. CASE SeekScan
  BY <1>0, <1>20 DEF SeekScan, PlaceInv, Kind, Page, EarlySteps
<1>21. CASE SeekNavigate
  <2>1. pc = "seekClick" /\ pressed' = pressed /\ Preparing /\ pc' \in {"done", "look"}
    BY <1>21 DEF SeekNavigate
  <2>3. (Kind = "next" /\ Advance) \/ Stays
    BY <1>21 DEF SeekNavigate, Stays
  <2>4. CASE Stays
    BY <1>0, <2>1, <2>4 DEF PlaceInv, Kind, Page, EarlySteps, Stays
  <2>5. CASE Kind = "next" /\ Advance
    BY <1>0, <2>1, <2>5, AdvancePlace DEF PlaceInv, Kind, Page, EarlySteps
  <2> QED BY <2>3, <2>4, <2>5
<1>22. CASE OutOfSteps \/ Interrupted
  BY <1>0, <1>22 DEF OutOfSteps, Interrupted, PlaceInv, Kind, Page, EarlySteps
<1>23. CASE Race
  <2>1. Len(scenario.pages) \in Nat
    BY PagesType DEF PlaceInv
  <2> QED BY <1>0, <1>23, <2>1 DEF Race, PlaceInv, Kind, Page, EarlySteps, Sends
<1> QED BY <1>1, <1>2, <1>3, <1>4, <1>5, <1>6, <1>7, <1>8, <1>9, <1>10, <1>11, <1>12, <1>13, <1>14, <1>15, <1>16,
           <1>17, <1>18, <1>19, <1>20, <1>21, <1>22, <1>23 DEF Next

\* Asking for documents (lazyDocGen.get) is such a change, after which they are there or frozen.
LEMMA EnsureAfter ==
    ASSUME NEW st, st = Settings, NEW l, Agreed(st, l), NEW how
    PROVE  LET m == EnsureMaterialized(l, how) IN
           /\ After(st, l, m) /\ m.caps = l.caps
           /\ l.caps.det => m.frozen \/ m.mat
<1>1. CASE MayMaterialize(l)
  <2>1. Fresh.resume # None /\ Fresh.cover # None
    BY DEF Fresh, None
  <2>2. EnsureMaterialized(l, how) = Materialized(l, st, Fresh, how)
    BY <1>1 DEF EnsureMaterialized
  <2> DEFINE fr == Fresh
             m == Materialized(l, st, fr, how)
  <2> HIDE DEF fr
  <2>3. After(st, l, m) /\ m.mat /\ m.caps = l.caps
    BY <1>1, <2>1, MaterializedAfter DEF fr
  <2> HIDE DEF m
  <2> QED BY <2>2, <2>3 DEF m, fr
<1>2. CASE ~MayMaterialize(l)
  <2>1. EnsureMaterialized(l, how) = l
    BY <1>2 DEF EnsureMaterialized
  <2>2. After(st, l, l)
    BY DEF After, Grows
  <2>3. l.caps.det => l.frozen \/ l.mat
    BY <1>2 DEF MayMaterialize
  <2> QED BY <2>1, <2>2, <2>3
<1> QED BY <1>1, <1>2

\* Documents that are not held back, made or frozen: a file that is not there is not wanted.
LEMMA NoFileMeansNone ==
    ASSUME NEW st, NEW l, Agreed(st, l), l.caps.det, l.frozen \/ l.mat, ~Blocked(l)
    PROVE  /\ l.resume = None => NoResume(st, l)
           /\ l.cover = None /\ (l.caps.req \/ l.caps.opt) => NoCover(st, l)
<1>1. CASE l.frozen
  <2>1. l.resume = None => Overrides(l).resume = None
    BY <1>1 DEF Agreed, Overrides, IsChoice
  <2>2. l.cover = None => Overrides(l).cover = None
    BY <1>1 DEF Agreed, Overrides, IsChoice
  <2> DEFINE o == Overrides(l)
  <2> HIDE DEF o
  <2>3. o.resume = None => ResolveResume(st, o, l.frozen, l.caps).outcome # "local"
    BY <1>1 DEF ResolveResume, Frozen, Skipped
  <2>4. o.cover = None => ResolveCover(st, o, l.frozen, l.caps).outcome # "local"
    BY <1>1 DEF ResolveCover, Frozen, Skipped
  <2> QED BY <2>1, <2>2, <2>3, <2>4 DEF NoResume, NoCover, LocalResume, LocalCover, ResumeChoice, CoverChoice, o
<1>2. CASE l.mat
  BY <1>2 DEF Agreed, NoResume, NoCover
<1> QED BY <1>1, <1>2

\* The fields for a cover letter.
Letters == {"cover", "coverOptional"}

\* Filling a page puts what was chosen into it, and says so when it does not.
LEMMA FillGood ==
    ASSUME Agreed(Settings, lz), ~Preparing, NEW o \in FillOutcomes
    PROVE  /\ After(Settings, lz, o.lz)
           /\ o.lz.caps.req => lz.caps.req \/ "cover" \in Page.fields
           /\ \/ o.uploaded.resume = uploaded.resume
              \/ o.uploaded.resume = o.lz.resume /\ o.lz.resume # None
           /\ \/ o.uploaded.cover = uploaded.cover
              \/ o.uploaded.cover = o.lz.cover /\ o.lz.cover # None /\ (o.lz.caps.req \/ o.lz.caps.opt)
           /\ "cover" \in Page.fields => o.lz.caps.req
           /\ ~o.failed =>
                 /\ (\E f \in Page.fields : IsResume(f)) => o.uploaded.resume # None \/ NoResume(Settings, o.lz)
                 /\ Page.fields \cap Letters # {} => o.uploaded.cover # None \/ NoCover(Settings, o.lz)
<1> DEFINE looked == Looked(lz)
           st == Settings
           sc == Scanned
<1>1. /\ After(st, lz, looked)
      /\ sc # {} => looked.caps.det
      /\ "cover" \in sc => looked.caps.req
      /\ "coverOptional" \in sc => looked.caps.opt
      /\ looked.caps.req => lz.caps.req \/ "cover" \in sc
  BY LookedAfter
<1>2. \A f \in FileFields : f \in sc <=> f \in Page.fields
  BY DEF Scanned, FileFields
<1>3. Files = sc \cap FileFields
  BY DEF Files
<1>4. PICK m \in Made(looked) : \E slip : o = FillOutcome(m[1], m[2], m[3], slip)
  BY DEF FillOutcomes
<1>5. PICK slip : o = FillOutcome(m[1], m[2], m[3], slip)
  BY <1>4
<1> HIDE DEF looked, st
<1>6. Agreed(st, looked)
  BY <1>1 DEF After
<1> DEFINE l == m[1]
<1>7. /\ After(st, looked, l) /\ l.caps = looked.caps
      /\ Files # {} => l.frozen \/ l.mat
  <2>1. CASE Files = {}
    <3>1. l = looked
      BY <2>1, <1>4 DEF Made
    <3> QED BY <2>1, <3>1, <1>6 DEF After, Grows
  <2>2. CASE Files # {}
    <3>1. PICK how : l = EnsureMaterialized(looked, how)
      BY <2>2, <1>4 DEF Made
    <3>2. sc # {}
      BY <2>2, <1>3
    <3> QED BY <3>1, <3>2, <1>1, <1>6, EnsureAfter DEF st
  <2> QED BY <2>1, <2>2
<1>8. After(st, lz, l)
  BY <1>1, <1>7, AfterOfAfter
<1> DEFINE failed == slip # "none" \/ \E f \in Files : CannotFill(l, f)
           filled == IF failed THEN {} ELSE {f \in sc : FillsField(l, f)}
           resumes == (\E f \in filled : IsResume(f)) /\ l.resume # None
           covers == filled \cap Letters # {}
<1>9. /\ o.lz = l /\ o.failed = failed
      /\ o.uploaded.resume = IF resumes THEN l.resume ELSE uploaded.resume
      /\ o.uploaded.cover = IF covers THEN l.cover ELSE uploaded.cover
  BY <1>5 DEF FillOutcome, Letters
<1>10. covers => l.cover # None /\ (l.caps.req \/ l.caps.opt)
  <2>1. ASSUME covers PROVE \E f \in Letters : f \in sc /\ FillsField(l, f)
    BY <2>1
  <2>2. \A f \in Letters : FillsField(l, f) => l.cover # None
    BY DEF FillsField, Answerable, PathFor, IsResume, Letters
  <2> QED BY <1>1, <1>7, <2>1, <2>2 DEF Letters
<1>11. ASSUME ~failed, NEW f \in Page.fields, IsResume(f) PROVE l.resume # None => resumes
  <2>1. f \in Files
    BY <1>2, <1>3, <1>11 DEF IsResume, FileFields
  <2>2. l.resume # None => FillsField(l, f)
    BY <1>11, <2>1 DEF FillsField, PathFor
  <2>3. f \in sc
    BY <2>1, <1>3
  <2> QED BY <1>11, <2>2, <2>3
<1>12. ASSUME ~failed, NEW f \in Page.fields, f \in Letters PROVE l.cover # None => covers
  <2>1. f \in Files
    BY <1>2, <1>3, <1>12 DEF Letters, FileFields
  <2>2. l.cover # None => FillsField(l, f)
    BY <1>12, <2>1 DEF FillsField, PathFor, IsResume, Letters
  <2>3. f \in sc
    BY <2>1, <1>3
  <2> QED BY <1>12, <2>2, <2>3
<1>13. ASSUME ~failed, NEW f \in Page.fields, f \in FileFields
       PROVE  /\ l.resume = None => NoResume(st, l)
              /\ l.cover = None /\ (l.caps.req \/ l.caps.opt) => NoCover(st, l)
  <2>1. f \in Files /\ f \in sc
    BY <1>2, <1>3, <1>13
  <2>2. ~Blocked(l)
    BY <1>13, <2>1 DEF CannotFill
  <2>3. l.caps.det /\ (l.frozen \/ l.mat) /\ Agreed(st, l)
    BY <1>1, <1>7, <2>1 DEF After
  <2> QED BY <2>2, <2>3, NoFileMeansNone
<1>14. "cover" \in Page.fields => l.caps.req
  BY <1>1, <1>2, <1>7 DEF FileFields
<1>15. l.caps.req => lz.caps.req \/ "cover" \in Page.fields
  BY <1>1, <1>2, <1>7 DEF FileFields
<1>16. ~failed /\ (\E f \in Page.fields : IsResume(f)) => o.uploaded.resume # None \/ NoResume(st, l)
  <2> SUFFICES ASSUME ~failed, NEW f \in Page.fields, IsResume(f) PROVE o.uploaded.resume # None \/ NoResume(st, l)
    OBVIOUS
  <2>1. f \in FileFields
    BY DEF IsResume, FileFields
  <2> HIDE DEF failed, filled, resumes, covers, l
  <2> QED BY <1>9, <1>11, <1>13, <2>1 DEF resumes
<1>17. ~failed /\ Page.fields \cap Letters # {} => o.uploaded.cover # None \/ NoCover(st, l)
  <2> SUFFICES ASSUME ~failed, NEW f \in Page.fields, f \in Letters PROVE o.uploaded.cover # None \/ NoCover(st, l)
    OBVIOUS
  <2>1. f \in FileFields
    BY DEF Letters, FileFields
  <2>2. l.caps.req \/ l.caps.opt
    BY <1>1, <1>2, <1>7, <2>1 DEF Letters
  <2> HIDE DEF failed, filled, resumes, covers, l
  <2> QED BY <1>9, <1>10, <1>12, <1>13, <2>1, <2>2
<1> HIDE DEF failed, filled, resumes, covers, l, sc
<1> QED BY <1>8, <1>9, <1>10, <1>14, <1>15, <1>16, <1>17 DEF st, resumes

\* The pages of which the fields are filled: those that gave way, and the one that
\* shows once the code is past its filling.
PastFilling == pc \in {"click", "refill", "confirm", "seekClick"} \/ moving > 0 \/ pressed
Behind(k) == k < at \/ (k = at /\ PastFilling)

\* A page that was filled has the résumé and the letter that are used, where one is.
FilledWell(k) ==
    /\ (\E f \in scenario.pages[k].fields : IsResume(f)) => uploaded.resume # None \/ NoResume(Settings, lz)
    /\ scenario.pages[k].fields \cap Letters # {} => uploaded.cover # None \/ NoCover(Settings, lz)
    /\ "cover" \in scenario.pages[k].fields => lz.caps.req

\* What the form was given is the version that is used.
UploadInv ==
    /\ Agreed(Settings, lz)
    /\ uploaded.resume # None => uploaded.resume = lz.resumeV
    /\ uploaded.cover # None => uploaded.cover = lz.coverV /\ (lz.caps.req \/ lz.caps.opt)
\* Every page behind was filled so, unless one gave way before it was seen.
FilledInv ==
    "race" \notin slips /\ (pc # "done" \/ pressed) =>
        \A k \in 1 .. Len(scenario.pages) : Behind(k) => FilledWell(k)
\* A preparation fills nothing.
ChosenInv == ~Preparing => UploadInv /\ FilledInv

\* At first nothing is uploaded and no page is behind.
LEMMA ChosenInit == Init => ChosenInv
<1> SUFFICES ASSUME Init PROVE ChosenInv
  OBVIOUS
<1> DEFINE p == scenario.pack
           first(a, b) == IF a # None THEN a ELSE b
           chosen == [resume |-> first(p.sel.resume, p.sel.resume), cover |-> first(p.sel.cover, p.sel.cover),
                      site |-> p.sel.site, skip |-> p.sel.skip]
           h == IF ~scenario.frozen /\ ~Stale(p.hold) THEN p.hold ELSE ""
           site1 == p.resume.outcome = "site"
           fresh == [caps |-> p.caps, sel |-> chosen, frozen |-> scenario.frozen, pack |-> p, hold |-> h,
                     resumeOverride |-> p.resume.path, coverOverride |-> p.cover.path,
                     resume |-> None, cover |-> None, resumeV |-> None, coverV |-> None,
                     useSite |-> FALSE, mat |-> FALSE]
<1>1. /\ scenario \in Scenarios /\ p.caps \in Capabilities
      /\ scenario.frozen =>
            /\ p.resume.path = p.resume.version /\ p.sel.resume \in {None, p.resume.version}
            /\ p.cover.path = p.cover.version /\ p.sel.cover \in {None, p.cover.version}
  BY ScenariosAssumption DEF Init
<1>2. IsChoice(chosen) /\ chosen.resume = p.sel.resume /\ chosen.cover = p.sel.cover
  BY DEF IsChoice
<1>3. lz = NewLazy(p.sel, scenario.frozen, p, p.resume.path, p.cover.path)
  BY DEF Init
<1>4. CASE ~scenario.frozen
  <2>1. lz = fresh
    BY <1>3, <1>4 DEF NewLazy
  <2> HIDE DEF chosen, h
  <2>2. Agreed(Settings, lz)
    BY <1>1, <1>2, <1>4, <2>1 DEF Agreed, IsLazy, LazyFields
  <2> QED BY <2>2 DEF Init, ChosenInv, UploadInv, FilledInv, Behind, PastFilling
<1>5. CASE scenario.frozen
  <2> DEFINE r == first(p.resume.path, p.resume.path)
             c == first(p.cover.path, p.cover.path)
  <2>1. lz = [fresh EXCEPT !.hold = p.hold, !.useSite = site1, !.resume = r, !.cover = c,
                           !.resumeV = p.resume.version, !.coverV = p.cover.version]
    BY <1>3, <1>5 DEF NewLazy
  <2>2. r = p.resume.version /\ c = p.cover.version
    BY <1>1, <1>5
  <2> HIDE DEF chosen, h, site1, r, c
  <2>3. /\ IsLazy(lz) /\ lz.caps = p.caps /\ lz.sel = chosen /\ lz.frozen = scenario.frozen /\ lz.mat = FALSE
        /\ lz.resume = r /\ lz.cover = c /\ lz.resumeV = p.resume.version /\ lz.coverV = p.cover.version
    BY <2>1 DEF IsLazy, LazyFields
  <2>4. Agreed(Settings, lz)
    BY <1>1, <1>2, <1>5, <2>2, <2>3 DEF Agreed, RightResume, RightCover
  <2> QED BY <2>4 DEF Init, ChosenInv, UploadInv, FilledInv, Behind, PastFilling
<1> QED BY <1>4, <1>5

\* Documents that were looked at or made anew are still the ones that went into the form.
LEMMA UploadsStay ==
    ASSUME UploadInv, NEW l, After(Settings, lz, l)
    PROVE  /\ Agreed(Settings, l)
           /\ uploaded.resume # None => uploaded.resume = l.resumeV
           /\ uploaded.cover # None => uploaded.cover = l.coverV /\ (l.caps.req \/ l.caps.opt)
BY DEF UploadInv, After, Grows

\* Filling the page that shows.
LEMMA FillChosen ==
    ASSUME UploadInv, FilledInv, PlaceInv, ~Preparing, NEW o \in FillOutcomes, Fill(o), scenario' = scenario,
           pc # "done"
    PROVE  /\ UploadInv'
           /\ "race" \notin slips =>
                \A k \in 1 .. Len(scenario.pages) :
                    (Behind(k) \/ (k = at /\ ~o.failed)) /\ (o.failed => pressed) => FilledWell(k)'
<1>1. lz' = o.lz /\ uploaded' = o.uploaded
  BY DEF Fill
<1>2. Settings' = Settings
  BY DEF Settings
<1> DEFINE l == o.lz
           up == o.uploaded
<1>3. /\ After(Settings, lz, l)
      /\ l.caps.req => lz.caps.req \/ "cover" \in Page.fields
      /\ \/ up.resume = uploaded.resume
         \/ up.resume = l.resume /\ l.resume # None
      /\ \/ up.cover = uploaded.cover
         \/ up.cover = l.cover /\ l.cover # None /\ (l.caps.req \/ l.caps.opt)
      /\ "cover" \in Page.fields => l.caps.req
      /\ ~o.failed =>
            /\ (\E f \in Page.fields : IsResume(f)) => up.resume # None \/ NoResume(Settings, l)
            /\ Page.fields \cap Letters # {} => up.cover # None \/ NoCover(Settings, l)
  BY FillGood DEF UploadInv
<1> HIDE DEF l, up
<1>4. UploadInv'
  <2>1. /\ Agreed(Settings, l)
        /\ uploaded.resume # None => uploaded.resume = l.resumeV
        /\ uploaded.cover # None => uploaded.cover = l.coverV /\ (l.caps.req \/ l.caps.opt)
    BY <1>3, UploadsStay
  <2>2. l.resume \in {None, l.resumeV} /\ l.cover \in {None, l.coverV}
    BY <2>1 DEF Agreed
  <2>3. /\ up.resume # None => up.resume = l.resumeV
        /\ up.cover # None => up.cover = l.coverV /\ (l.caps.req \/ l.caps.opt)
    BY <1>3, <2>1, <2>2
  <2> QED BY <1>1, <1>2, <2>1, <2>3 DEF UploadInv, l, up
<1>5. ASSUME "race" \notin slips, NEW k \in 1 .. Len(scenario.pages),
             Behind(k) \/ (k = at /\ ~o.failed), o.failed => pressed
      PROVE  FilledWell(k)'
  <2> DEFINE F == scenario.pages[k].fields
  <2>1. (scenario.pages[k].fields)' = F
    OBVIOUS
  <2>2. Behind(k) => FilledWell(k)
    BY <1>5 DEF FilledInv
  <2>3. o.failed => Behind(at)
    BY <1>5 DEF Behind, PastFilling
  <2>4. Len(scenario.pages) \in Nat /\ at \in 1 .. Len(scenario.pages)
    BY PagesType DEF PlaceInv
  <2>5. o.failed => FilledWell(at)
    BY <1>5, <2>3, <2>4 DEF FilledInv
  <2>6. CASE k = at /\ ~o.failed
    <3>1. F = Page.fields
      BY <2>6 DEF Page
    <3> QED BY <1>1, <1>2, <1>3, <2>1, <2>6, <3>1 DEF FilledWell, l, up
  <2>7. CASE Behind(k)
    <3>1. FilledWell(k)
      BY <2>2, <2>7
    <3>2. "cover" \in F => l.caps.req
      BY <1>3, <3>1 DEF FilledWell, After, Grows
    <3>3. (\E f \in F : IsResume(f)) => up.resume # None \/ NoResume(Settings, l)
      BY <1>3, <3>1 DEF FilledWell, After
    <3>4. F \cap Letters # {} => up.cover # None \/ NoCover(Settings, l)
      <4>1. CASE "cover" \in Page.fields /\ ~o.failed
        BY <1>3, <4>1 DEF Letters
      <4>2. CASE "cover" \notin Page.fields
        BY <1>3, <3>1, <4>2 DEF FilledWell, After
      <4>3. CASE "cover" \in Page.fields /\ o.failed
        <5>1. lz.caps.req
          BY <2>5, <4>3 DEF FilledWell, Page
        <5> QED BY <1>3, <3>1, <5>1 DEF FilledWell, After
      <4> QED BY <4>1, <4>2, <4>3
    <3> QED BY <1>1, <1>2, <2>1, <3>2, <3>3, <3>4 DEF FilledWell, l, up
  <2> QED BY <1>5, <2>6, <2>7
<1> QED BY <1>4, <1>5

\* Where nothing is filled, no page is left behind that was not.
LEMMA ChosenKept ==
    ASSUME UploadInv, FilledInv, scenario' = scenario, UNCHANGED <<lz, uploaded>>, pc # "done",
           slips' = slips, pressed => pressed',
           pc' # "done" \/ pressed' => \A k \in 1 .. Len(scenario.pages) : Behind(k)' => Behind(k)
    PROVE  (UploadInv /\ FilledInv)'
<1>1. UploadInv'
  BY DEF UploadInv, Settings
<1>2. \A k : FilledWell(k)' <=> FilledWell(k)
  BY DEF FilledWell, Settings
<1>3. FilledInv'
  BY <1>2 DEF FilledInv
<1> QED BY <1>1, <1>3

\* Every step keeps what went into the form the chosen documents.
LEMMA ChosenStep ==
    ASSUME ChosenInv, PlaceInv, SendInv, [Next]_vars
    PROVE  ChosenInv'
<1> USE DEF Return, Continue, docs, site, sending
<1> SUFFICES ASSUME ~Preparing PROVE (UploadInv /\ FilledInv)'
  BY ScenarioStays DEF ChosenInv, Preparing
<1>0. scenario' = scenario /\ UploadInv /\ FilledInv
  BY ScenarioStays DEF ChosenInv
<1>a. /\ at \in 1 .. Len(scenario.pages) /\ Len(scenario.pages) \in Nat /\ moving \in Nat
      /\ pc \in EarlySteps => at = 1 /\ moving = 0 /\ ~pressed
      /\ pc \notin {"scan", "navigate"}
      /\ LinkedIn => pc \in {"open", "head", "fill", "click", "refill", "confirm", "done"}
      /\ moving > 0 => ~pressed
  BY PagesType DEF PlaceInv, Sends
<1>1. CASE UNCHANGED vars
  <2>1. UploadInv' /\ FilledInv'
    BY <1>0, <1>1 DEF vars, UploadInv, FilledInv, FilledWell, Behind, PastFilling, Settings
  <2> QED BY <2>1
<1>2. CASE OpenModal
  BY <1>0, <1>a, <1>2, ChosenKept DEF OpenModal, Behind, PastFilling, EarlySteps, Preparing
<1>3. CASE LoopHead
  BY <1>0, <1>a, <1>3, ArrivePlace, ChosenKept DEF LoopHead, Behind, PastFilling
<1>4. CASE FillStep
  <2>1. PICK o \in FillOutcomes : /\ Fill(o)
                                  /\ IF o.failed THEN pc' = "done" ELSE pc' \in {"done", "click"}
    BY <1>4 DEF FillStep
  <2>2. pc = "fill" /\ UNCHANGED <<at, moving, pressed, slips>>
    BY <1>4 DEF FillStep
  <2>3. UploadInv' /\ ("race" \notin slips =>
             \A k \in 1 .. Len(scenario.pages) :
                 (Behind(k) \/ (k = at /\ ~o.failed)) /\ (o.failed => pressed) => FilledWell(k)')
    BY <1>0, <2>1, <2>2, FillChosen
  <2>4. \A k \in 1 .. Len(scenario.pages) :
            Behind(k)' /\ (pc' # "done" \/ pressed) => (Behind(k) \/ (k = at /\ ~o.failed)) /\ (o.failed => pressed)
    BY <2>1, <2>2 DEF Behind, PastFilling
  <2> QED BY <1>0, <2>2, <2>3, <2>4 DEF FilledInv
<1>5. CASE Refill
  <2>1. PICK o \in FillOutcomes : /\ Fill(o)
                                  /\ IF o.failed THEN pc' = "done" ELSE pc' \in {"done", "head"}
    BY <1>5 DEF Refill
  <2>2. pc = "refill" /\ UNCHANGED <<at, moving, pressed, slips>>
    BY <1>5 DEF Refill
  <2>3. UploadInv' /\ ("race" \notin slips =>
             \A k \in 1 .. Len(scenario.pages) :
                 (Behind(k) \/ (k = at /\ ~o.failed)) /\ (o.failed => pressed) => FilledWell(k)')
    BY <1>0, <2>1, <2>2, FillChosen
  <2>4. \A k \in 1 .. Len(scenario.pages) :
            Behind(k)' /\ (pc' # "done" \/ pressed) => (Behind(k) \/ (k = at /\ ~o.failed)) /\ (o.failed => pressed)
    BY <2>1, <2>2 DEF Behind, PastFilling
  <2> QED BY <1>0, <2>2, <2>3, <2>4 DEF FilledInv
<1>6. CASE SeekFill
  <2>1. PICK o \in FillOutcomes : /\ Fill(o)
                                  /\ IF o.failed THEN pc' = "done" ELSE pc' \in {"done", "seekClick"}
    BY <1>6 DEF SeekFill
  <2>2. pc = "seek" /\ UNCHANGED <<at, moving, pressed, slips>>
    BY <1>6 DEF SeekFill
  <2>3. UploadInv' /\ ("race" \notin slips =>
             \A k \in 1 .. Len(scenario.pages) :
                 (Behind(k) \/ (k = at /\ ~o.failed)) /\ (o.failed => pressed) => FilledWell(k)')
    BY <1>0, <2>1, <2>2, FillChosen
  <2>4. \A k \in 1 .. Len(scenario.pages) :
            Behind(k)' /\ (pc' # "done" \/ pressed) => (Behind(k) \/ (k = at /\ ~o.failed)) /\ (o.failed => pressed)
    BY <2>1, <2>2 DEF Behind, PastFilling
  <2> QED BY <1>0, <2>2, <2>3, <2>4 DEF FilledInv
<1>7. CASE ClickNext
  <2>1. pc = "click" /\ UNCHANGED <<lz, uploaded, slips, pressed>>
    BY <1>7 DEF ClickNext
  <2>2. \/ Stays
        \/ Kind = "next" /\ Advance /\ Judge(TRUE)
    BY <1>7 DEF ClickNext, Stays
  <2>3. CASE Stays
    BY <1>0, <2>1, <2>3, ChosenKept DEF Behind, PastFilling, Stays
  <2>4. CASE Kind = "next" /\ Advance /\ Judge(TRUE)
    <3>1. ~pressed /\ (at' = at \/ (at' = at + 1 /\ moving' = 0 /\ Complete))
      BY <2>4, AdvancePlace
    <3>2. Complete => pc' # "refill"
      BY <2>4 DEF Judge
    <3>3. pc' \in {"done", "refill", "head"}
      BY <2>4 DEF Judge
    <3> QED BY <1>0, <1>a, <2>1, <3>1, <3>2, <3>3, ChosenKept DEF Behind, PastFilling
  <2> QED BY <2>2, <2>3, <2>4
<1>8. CASE LateClick
  <2>1. pc = "click" /\ slips' = slips \cup {"late"} /\ pressed' /\ UNCHANGED <<lz, uploaded, at, moving>>
    BY <1>8 DEF LateClick
  <2>2. UploadInv'
    BY <1>0, <2>1 DEF UploadInv, Settings
  <2>3. \A k : FilledWell(k)' <=> FilledWell(k)
    BY <1>0, <2>1 DEF FilledWell, Settings
  <2>4. \A k : Behind(k)' => Behind(k)
    BY <2>1 DEF Behind, PastFilling
  <2> QED BY <1>0, <2>1, <2>2, <2>3, <2>4 DEF FilledInv
<1>9. CASE ClickSubmit
  <2>1. pc = "click" /\ UNCHANGED <<lz, uploaded, at, moving, slips>> /\ (pressed' \/ (pressed' = pressed) \/ pc' = "done")
    BY <1>9 DEF ClickSubmit
  <2>2. UploadInv'
    BY <1>0, <2>1 DEF UploadInv, Settings
  <2>3. \A k : FilledWell(k)' <=> FilledWell(k)
    BY <1>0, <2>1 DEF FilledWell, Settings
  <2>4. \A k : Behind(k)' => Behind(k)
    BY <2>1 DEF Behind, PastFilling
  <2> QED BY <1>0, <2>1, <2>2, <2>3, <2>4 DEF FilledInv
<1>10. CASE Confirm \/ SeekConfirm
  <2>1. pc = "confirm" /\ pc' = "done" /\ UNCHANGED <<lz, uploaded, at, moving, slips, pressed>>
    BY <1>10 DEF Confirm, SeekConfirm
  <2> QED BY <1>0, <2>1, ChosenKept DEF Behind, PastFilling
<1>11. CASE SeekSignIn
  BY <1>0, <1>a, <1>11, ChosenKept DEF SeekSignIn, Behind, PastFilling, EarlySteps
<1>12. CASE OpenSeek \/ SeekOpened \/ RecoverSeek
  <2>1. /\ pc \in {"button", "opened", "recover"} /\ pc' \in {"opened", "visible", "recover", "signIn", "done"}
        /\ UNCHANGED <<lz, uploaded, at, moving, pressed>>
        /\ "race" \in slips => "race" \in slips'
    BY <1>12 DEF OpenSeek, SeekOpened, RecoverSeek, Silently
  <2>2. UploadInv'
    BY <1>0, <2>1 DEF UploadInv, Settings
  <2>3. \A k : FilledWell(k)' <=> FilledWell(k)
    BY <1>0, <2>1 DEF FilledWell, Settings
  <2>4. \A k : Behind(k)' => Behind(k)
    BY <1>a, <2>1 DEF Behind, PastFilling, EarlySteps
  <2> QED BY <1>0, <2>1, <2>2, <2>3, <2>4 DEF FilledInv
<1>13. CASE SeeForm
  <2>1. /\ pc = "visible" /\ pc' \in {"done", "seek"}
        /\ UNCHANGED <<uploaded, at, moving, pressed, slips>>
    BY <1>13 DEF SeeForm
  <2>2. PICK how : lz' = EnsureMaterialized(ApplyCaps(lz, Probe(Page.fields, Page.attached)), how)
    BY <1>13 DEF SeeForm
  <2>3. Probe(Page.fields, Page.attached) \in Capabilities
    <3>1. Page.attached \in BOOLEAN
      BY <1>a, PagesType DEF PlaceInv, Page, PageRecords
    <3> QED BY <3>1, ProbeOfFields
  <2> DEFINE st == Settings
             c == Probe(Page.fields, Page.attached)
             looked == ApplyCaps(lz, c)
             l == EnsureMaterialized(looked, how)
  <2> HIDE DEF c, st
  <2>4. Agreed(st, lz)
    BY <1>0 DEF UploadInv, st
  <2>5. After(st, lz, looked)
    BY <2>3, <2>4, ApplyCapsAfter DEF c
  <2> HIDE DEF looked
  <2>6. After(st, looked, l)
    BY <2>5, EnsureAfter DEF After, st
  <2> HIDE DEF l
  <2>7. After(st, lz, l)
    BY <2>5, <2>6, AfterOfAfter
  <2>8. UploadInv'
    <3>1. lz' = l /\ Settings' = st /\ uploaded' = uploaded
      BY <1>0, <2>1, <2>2 DEF l, looked, c, st, Settings
    <3>2. /\ Agreed(st, l)
          /\ uploaded.resume # None => uploaded.resume = l.resumeV
          /\ uploaded.cover # None => uploaded.cover = l.coverV /\ (l.caps.req \/ l.caps.opt)
      BY <1>0, <2>7, UploadsStay DEF st
    <3> QED BY <3>1, <3>2 DEF UploadInv
  <2>9. \A k \in 1 .. Len(scenario.pages) : ~Behind(k)'
    BY <1>0, <1>a, <2>1 DEF Behind, PastFilling, EarlySteps
  <2> QED BY <1>0, <2>8, <2>9 DEF FilledInv
<1>14. CASE SeekClick
  <2>1. pc = "seekClick" /\ UNCHANGED <<lz, uploaded>> /\ (slips' = slips \/ slips' = slips \cup {"click"})
    BY <1>14 DEF SeekClick
  <2>2. \/ Kind = "next" /\ Advance /\ pc' = "look" /\ pressed' = pressed
        \/ Stays
    BY <1>14 DEF SeekClick, Stays
  <2>3. UploadInv'
    BY <1>0, <2>1 DEF UploadInv, Settings
  <2>4. \A k : FilledWell(k)' <=> FilledWell(k)
    BY <1>0, <2>1 DEF FilledWell, Settings
  <2>5. \A k \in 1 .. Len(scenario.pages) : Behind(k)' => Behind(k)
    <3>1. CASE Stays
      BY <2>1, <3>1 DEF Behind, PastFilling, Stays
    <3>2. CASE Kind = "next" /\ Advance /\ pc' = "look" /\ pressed' = pressed
      <4>1. ~pressed /\ (at' = at \/ (at' = at + 1 /\ moving' = 0))
        BY <3>2, AdvancePlace
      <4> QED BY <1>a, <2>1, <3>2, <4>1 DEF Behind, PastFilling
    <3> QED BY <2>2, <3>1, <3>2
  <2> QED BY <1>0, <2>1, <2>3, <2>4, <2>5 DEF FilledInv
<1>15. CASE SeekLook
  BY <1>0, <1>a, <1>15, ArrivePlace, ChosenKept DEF SeekLook, Behind, PastFilling
<1>16. CASE OutOfSteps \/ Interrupted
  <2>1. pc # "done" /\ pc' = "done" /\ UNCHANGED <<lz, uploaded, at, moving, slips, pressed>>
    BY <1>16 DEF OutOfSteps, Interrupted
  <2> QED BY <1>0, <2>1, ChosenKept DEF Behind, PastFilling
<1>17. CASE Race
  <2>1. slips' = slips \cup {"race"} /\ UNCHANGED <<lz, uploaded>>
    BY <1>17 DEF Race
  <2> QED BY <1>0, <2>1 DEF UploadInv, FilledInv, Settings
<1>18. ~(ScanStep \/ ScanNavigate \/ ScanLook \/ SeekScan \/ SeekNavigate)
  BY <1>a DEF ScanStep, ScanNavigate, ScanLook, SeekScan, SeekNavigate
<1> QED BY <1>1, <1>2, <1>3, <1>4, <1>5, <1>6, <1>7, <1>8, <1>9, <1>10, <1>11, <1>12, <1>13, <1>14, <1>15, <1>16,
           <1>17, <1>18 DEF Next

\* An application that was sent by pressing the button carries the chosen documents: where the
\* form takes a résumé or a letter, the version that was resolved and is recorded, and no résumé
\* where the site's own is to be used (fillFormStep, applicationDocumentOverrides); except that
\* a page gave way between its filling and the click on the next one.
THEOREM SentAsChosen == Spec => []DocumentsAsChosen
<1> DEFINE Inv == PlaceInv /\ SendInv /\ ChosenInv
<1>1. Init => Inv
  BY PlaceInit, SendInit, ChosenInit
<1>2. Inv /\ [Next]_vars => Inv'
  BY PlaceStep, SendStep, ChosenStep
<1>3. Inv => DocumentsAsChosen
  <2> SUFFICES ASSUME Inv, sent, pressed, "race" \notin slips PROVE DocumentsAsChosen
    BY DEF DocumentsAsChosen
  <2>1. ~Preparing /\ UploadInv /\ FilledInv
    BY DEF SendInv, ChosenInv
  <2>2. Len(scenario.pages) \in Nat /\ at \in 1 .. Len(scenario.pages)
    BY PagesType DEF PlaceInv
  <2>3. at = Len(scenario.pages)
    <3>1. \A k \in 1 .. Len(scenario.pages) - 1 : scenario.pages[k].button \notin Sends
      BY ScenariosAssumption, Zenon DEF PlaceInv, Sends
    <3> QED BY <2>2, <3>1 DEF PlaceInv, Kind, Page
  <2>4. \A k \in 1 .. Len(scenario.pages) : FilledWell(k)
    BY <2>1, <2>2, <2>3 DEF FilledInv, Behind, PastFilling
  <2> DEFINE choice == Resolve(Settings, Overrides(lz), lz.frozen, lz.caps)
  <2>5. choice.resume = ResumeChoice(Settings, lz) /\ choice.cover = CoverChoice(Settings, lz)
    BY DEF Resolve, ResumeChoice, CoverChoice
  <2>6. uploaded.resume # None => choice.resume = File(uploaded.resume) /\ uploaded.resume = lz.resumeV
    BY <2>1, <2>5, UsedResumeIsChosen DEF UploadInv, ResumeChoice
  <2>7. uploaded.cover # None => choice.cover = File(uploaded.cover) /\ uploaded.cover = lz.coverV
    BY <2>1, <2>5, UsedCoverIsChosen DEF UploadInv, CoverChoice
  <2>8. (\E f \in FormFields : IsResume(f)) => uploaded.resume # None \/ choice.resume.outcome # "local"
    BY <2>4, <2>5 DEF FilledWell, FormFields, NoResume, LocalResume
  <2>9. FormFields \cap {"cover", "coverOptional"} # {} => uploaded.cover # None \/ choice.cover.outcome # "local"
    BY <2>4, <2>5 DEF FilledWell, FormFields, NoCover, LocalCover, Letters
  <2> HIDE DEF choice
  <2>10. /\ choice.resume.outcome = "local" /\ (\E f \in FormFields : IsResume(f)) =>
               uploaded.resume = choice.resume.version /\ uploaded.resume = lz.resumeV
         /\ choice.cover.outcome = "local" /\ FormFields \cap {"cover", "coverOptional"} # {} =>
               uploaded.cover = choice.cover.version /\ uploaded.cover = lz.coverV
         /\ choice.resume.outcome = "site" => uploaded.resume = None
    BY <2>6, <2>7, <2>8, <2>9 DEF File
  <2> QED BY <2>10 DEF DocumentsAsChosen, choice
<1> QED BY <1>1, <1>2, <1>3, PTL DEF Spec

-----------------------------------------------------------------------------
(* The library: what can be read was charged, and stays readable. *)

\* Rows as records of their fields, whatever these hold.
VersionFields == {"doc", "number", "kind", "key", "reconstructible", "file", "alive"}
TaskFields == {"pc", "kind", "doc", "number", "version", "key", "for"}
IsVersion(v) == v = [f \in VersionFields |-> v[f]]
IsTask(t) == t = [f \in TaskFields |-> t[f]]
LibraryType ==
    /\ \E rows : versions \in Seq(rows)
    /\ \A i \in 1 .. Len(versions) : IsVersion(versions[i])
    /\ task = [s \in Slots |-> task[s]] /\ \A s \in Slots : IsTask(task[s])

\* The steps of a save that work on its version, and those before it can be read.
Saving == {"original", "render", "charge", "link", "ready", "clean"}
Unlinked == {"render", "charge", "link", "clean"}
SavesVersion(t, i, rows, keys) ==
    /\ i \in 1 .. Len(rows) /\ t.version = <<i>> /\ rows[i].key = t.key
    /\ t.pc = "original" => rows[i].kind = "original"
    /\ t.pc \in {"link", "ready"} => t.key \in keys
    /\ t.pc \in Unlinked => ~rows[i].file /\ ~rows[i].reconstructible
\* Every save works on a version of its own.
SavesInv ==
    /\ \A s \in Slots : task[s].pc \in Saving => \E i : SavesVersion(task[s], i, versions, charged)
    /\ \A s, u \in Slots :
         task[s].pc \in Saving /\ task[u].pc \in Saving /\ task[s].version = task[u].version => s = u
PaidInv == \A i \in 1 .. Len(versions) :
    (versions[i].file \/ versions[i].reconstructible) /\ versions[i].kind # "original" => versions[i].key \in charged
LibraryInv == LibraryType /\ SavesInv /\ PaidInv
\* What can be read stays so.
ReadableStays == \A v : Readable(v) => Readable(v)'

LEMMA TaskSet ==
    ASSUME LibraryType, NEW s \in Slots, NEW t, IsTask(t), task' = [task EXCEPT ![s] = t]
    PROVE  /\ task' = [u \in Slots |-> task'[u]] /\ \A u \in Slots : IsTask(task'[u])
           /\ task'[s] = t /\ \A u \in Slots : u # s => task'[u] = task[u]
BY DEF LibraryType

\* Steps that leave the versions alone and end or begin saves.
LEMMA QuietLibrary ==
    ASSUME LibraryInv, UNCHANGED <<versions, charged>>,
           task' = [s \in Slots |-> task'[s]], \A s \in Slots : IsTask(task'[s]),
           \A s \in Slots : task'[s] = task[s] \/ task'[s].pc \notin Saving
    PROVE  LibraryInv' /\ ReadableStays
<1>1. LibraryType' /\ PaidInv'
  BY DEF LibraryInv, LibraryType, PaidInv
<1>2. SavesInv'
  BY DEF LibraryInv, SavesInv, SavesVersion
<1>3. ReadableStays
  BY DEF ReadableStays, Readable, Alive, VersionIds, Version, Stored, Reproducible
<1> QED BY <1>1, <1>2, <1>3 DEF LibraryInv

\* One slot that ends its work or turns to something else.
LEMMA SlotEnds ==
    ASSUME LibraryInv, UNCHANGED <<versions, charged>>, NEW s \in Slots, NEW t, IsTask(t), Set(s, t),
           t.pc \notin Saving
    PROVE  LibraryInv' /\ ReadableStays
<1>1. LibraryType /\ task' = [task EXCEPT ![s] = t]
  BY DEF LibraryInv, Set
<1> QED BY <1>1, TaskSet, QuietLibrary

LEMMA NoTaskType == IsTask(NoTask) /\ NoTask.pc = "idle"
BY DEF IsTask, NoTask, TaskFields

LEMMA GoesOn ==
    ASSUME NEW t, IsTask(t), NEW step
    PROVE  LET u == [t EXCEPT !.pc = step] IN
           IsTask(u) /\ u.pc = step /\ u.version = t.version /\ u.key = t.key /\ u.kind = t.kind
BY DEF IsTask, TaskFields

LEMMA EndedTask ==
    ASSUME LibraryInv, NEW s \in Slots, NEW end \in {"ok", "failed"}, EndsSave(s, end)
    PROVE  \E t : IsTask(t) /\ t.pc \notin Saving /\ Set(s, t)
<1>1. IsTask(task[s])
  BY DEF LibraryInv, LibraryType
<1>2. IsTask(NoTask) /\ NoTask.pc \notin Saving
  BY NoTaskType DEF Saving
<1>3. IsTask([task[s] EXCEPT !.pc = end]) /\ [task[s] EXCEPT !.pc = end].pc \notin Saving
  BY <1>1, GoesOn DEF Saving
<1> QED BY <1>2, <1>3 DEF EndsSave

\* One row of versions that changes in a flag.
LEMMA RowSet ==
    ASSUME LibraryType, NEW i \in 1 .. Len(versions), NEW r, IsVersion(r), versions' = [versions EXCEPT ![i] = r]
    PROVE  /\ \E rows : versions' \in Seq(rows)
           /\ Len(versions') = Len(versions) /\ versions'[i] = r
           /\ \A j \in 1 .. Len(versions) : j # i => versions'[j] = versions[j]
           /\ \A j \in 1 .. Len(versions') : IsVersion(versions'[j])
<1>1. PICK rows : versions \in Seq(rows)
  BY DEF LibraryType
<1>2. versions \in Seq(rows \cup {r}) /\ r \in rows \cup {r}
  BY <1>1
<1>3. versions' \in Seq(rows \cup {r}) /\ Len(versions') = Len(versions)
  BY <1>2, ExceptSeq
<1>4. versions'[i] = r /\ \A j \in 1 .. Len(versions) : j # i => versions'[j] = versions[j]
  BY <1>1
<1>5. \A j \in 1 .. Len(versions') : IsVersion(versions'[j])
  BY <1>3, <1>4 DEF LibraryType
<1> QED BY <1>3, <1>4, <1>5

LEMMA RowFields ==
    \A v, r, x : IsVersion(v) =>
        /\ r = [v EXCEPT !.file = x] =>
              /\ IsVersion(r) /\ r.file = x /\ r.reconstructible = v.reconstructible
              /\ r.key = v.key /\ r.kind = v.kind /\ r.alive = v.alive
        /\ r = [v EXCEPT !.reconstructible = x] =>
              /\ IsVersion(r) /\ r.reconstructible = x /\ r.file = v.file
              /\ r.key = v.key /\ r.kind = v.kind /\ r.alive = v.alive
        /\ r = [v EXCEPT !.alive = x] =>
              /\ IsVersion(r) /\ r.alive = x /\ r.file = v.file /\ r.reconstructible = v.reconstructible
              /\ r.key = v.key /\ r.kind = v.kind
BY DEF IsVersion, VersionFields

\* A save that finds its version, changes its row to r, charges at most, and goes on as t.
LEMMA SaveMoves ==
    ASSUME LibraryInv, NEW s \in Slots, task[s].pc \in Saving, NEW i, SavesVersion(task[s], i, versions, charged),
           NEW r, IsVersion(r), r.key = versions[i].key, r.kind = versions[i].kind,
           versions' = [versions EXCEPT ![i] = r],
           charged \subseteq charged',
           NEW t, IsTask(t), Set(s, t),
           t.pc \in Saving => SavesVersion(t, i, versions', charged'),
           (r.file \/ r.reconstructible) /\ r.kind # "original" => r.key \in charged',
           Readable(<<i>>) => r.alive /\ (r.file \/ r.reconstructible)
    PROVE  LibraryInv' /\ ReadableStays
<1>1. LibraryType /\ SavesInv /\ PaidInv /\ task' = [task EXCEPT ![s] = t] /\ i \in 1 .. Len(versions)
  BY DEF LibraryInv, Set, SavesVersion
<1>2. /\ \E rows : versions' \in Seq(rows)
      /\ Len(versions') = Len(versions) /\ versions'[i] = r
      /\ \A j \in 1 .. Len(versions) : j # i => versions'[j] = versions[j]
      /\ \A j \in 1 .. Len(versions') : IsVersion(versions'[j])
  BY <1>1, RowSet
<1>3. /\ task' = [u \in Slots |-> task'[u]] /\ \A u \in Slots : IsTask(task'[u])
      /\ task'[s] = t /\ \A u \in Slots : u # s => task'[u] = task[u]
  BY <1>1, TaskSet
<1>4. LibraryType'
  BY <1>2, <1>3 DEF LibraryType
<1>5. PaidInv'
  BY <1>1, <1>2 DEF PaidInv
<1>6. ASSUME NEW u \in Slots, task'[u].pc \in Saving  PROVE \E j : SavesVersion(task'[u], j, versions', charged')
  <2>1. CASE u = s
    BY <1>3, <1>6, <2>1
  <2>2. CASE u # s
    <3>1. task'[u] = task[u] /\ task[u].pc \in Saving
      BY <1>3, <1>6, <2>2
    <3>2. PICK j : SavesVersion(task[u], j, versions, charged)
      BY <1>1, <3>1 DEF SavesInv
    <3>3. j # i
      BY <1>1, <2>2, <3>1, <3>2 DEF SavesInv, SavesVersion
    <3> QED BY <1>2, <3>1, <3>2, <3>3 DEF SavesVersion
  <2> QED BY <2>1, <2>2
<1>7. t.pc \in Saving => t.version = task[s].version
  BY DEF SavesVersion
<1>8. SavesInv'
  <2>1. ASSUME NEW u \in Slots, NEW w \in Slots, task'[u].pc \in Saving, task'[w].pc \in Saving,
               task'[u].version = task'[w].version
        PROVE  u = w
    BY <1>1, <1>3, <1>7, <2>1 DEF SavesInv
  <2> QED BY <1>6, <2>1 DEF SavesInv
<1>9. ReadableStays
  <2> SUFFICES ASSUME NEW v, Readable(v) PROVE Readable(v)'
    BY DEF ReadableStays
  <2>1. PICK j \in 1 .. Len(versions) : v = <<j>>
    BY DEF Readable, Alive, VersionIds
  <2>2. v \in VersionIds'
    BY <1>2, <2>1 DEF VersionIds
  <2>3. v[1] = j
    BY <2>1
  <2> QED BY <1>2, <2>1, <2>2, <2>3 DEF Readable, Alive, Version, Stored, Reproducible
<1> QED BY <1>4, <1>5, <1>8, <1>9 DEF LibraryInv

\* The same, when its row does not change.
LEMMA SaveWaits ==
    ASSUME LibraryInv, NEW s \in Slots, task[s].pc \in Saving, NEW i, SavesVersion(task[s], i, versions, charged),
           UNCHANGED versions, charged \subseteq charged', NEW t, IsTask(t), Set(s, t),
           t.pc \in Saving => SavesVersion(t, i, versions, charged')
    PROVE  LibraryInv' /\ ReadableStays
<1>1. i \in 1 .. Len(versions) /\ \E rows : versions \in Seq(rows)
  BY DEF SavesVersion, LibraryInv, LibraryType
<1>2. versions' = [versions EXCEPT ![i] = versions[i]]
  BY <1>1
<1>3. IsVersion(versions[i])
  BY <1>1 DEF LibraryInv, LibraryType
<1>4. (versions[i].file \/ versions[i].reconstructible) /\ versions[i].kind # "original" => versions[i].key \in charged'
  BY <1>1 DEF LibraryInv, PaidInv
<1>5. Readable(<<i>>) => versions[i].alive /\ (versions[i].file \/ versions[i].reconstructible)
  BY DEF Readable, Alive, Version, Stored, Reproducible
<1>6. t.pc \in Saving => SavesVersion(t, i, versions', charged')
  OBVIOUS
<1> DEFINE r == versions[i]
<1>7. r.key = versions[i].key /\ r.kind = versions[i].kind /\ versions' = [versions EXCEPT ![i] = r]
  BY <1>2
<1>8. IsVersion(r) /\ ((r.file \/ r.reconstructible) /\ r.kind # "original" => r.key \in charged')
      /\ (Readable(<<i>>) => r.alive /\ (r.file \/ r.reconstructible))
  BY <1>3, <1>4, <1>5
<1> HIDE DEF r
<1> QED BY <1>6, <1>7, <1>8, SaveMoves

LEMMA SavesOne ==
    ASSUME LibraryInv, NEW s \in Slots, task[s].pc \in Saving
    PROVE  IsTask(task[s]) /\ \E i : SavesVersion(task[s], i, versions, charged) /\ IsVersion(versions[i])
BY DEF LibraryInv, LibraryType, SavesInv, SavesVersion

LEMMA BeginsSaveKeeps ==
    ASSUME LibraryInv, NEW s \in Slots, NEW kind, NEW d, NEW key, NEW for, BeginsSave(s, kind, d, key, for),
           UNCHANGED <<versions, charged>>
    PROVE  LibraryInv' /\ ReadableStays
<1> DEFINE doc == IF d = 0 THEN Len(documents) + 1 ELSE d
           number == IF d = 0 THEN 1 ELSE NextNumber(d)
           t == [NoTask EXCEPT !.pc = "insert", !.kind = kind, !.doc = doc, !.key = key, !.for = for, !.number = number]
<1>2. IsTask(t) /\ t.pc \notin Saving
  BY DEF IsTask, NoTask, TaskFields, Saving
<1>3. Set(s, t)
  BY DEF BeginsSave
<1> HIDE DEF t
<1> QED BY <1>2, <1>3, SlotEnds

\* What a save does to its row: a file, the flag, or the end of a row that cannot be read.
FlagSet(i, r) ==
    \/ r = [versions[i] EXCEPT !.file = TRUE]
    \/ r = [versions[i] EXCEPT !.reconstructible = TRUE]
    \/ /\ \E x : r = [versions[i] EXCEPT !.alive = x]
       /\ ~versions[i].file /\ ~versions[i].reconstructible

LEMMA FlagSetFields ==
    ASSUME NEW i, IsVersion(versions[i]), NEW r, FlagSet(i, r)
    PROVE  /\ IsVersion(r) /\ r.key = versions[i].key /\ r.kind = versions[i].kind
           /\ \/ r.alive = versions[i].alive /\ (r.file \/ r.reconstructible)
              \/ ~versions[i].file /\ ~versions[i].reconstructible /\ ~r.file /\ ~r.reconstructible
<1>1. CASE r = [versions[i] EXCEPT !.file = TRUE]
  BY <1>1, RowFields
<1>2. CASE r = [versions[i] EXCEPT !.reconstructible = TRUE]
  BY <1>2, RowFields
<1>3. CASE (\E x : r = [versions[i] EXCEPT !.alive = x]) /\ ~versions[i].file /\ ~versions[i].reconstructible
  BY <1>3, RowFields
<1> QED BY <1>1, <1>2, <1>3 DEF FlagSet

\* A save sets a flag of its row, and is done or goes on as t.
LEMMA SetsFlag ==
    ASSUME LibraryInv, NEW s \in Slots, task[s].pc \in Saving, NEW i, SavesVersion(task[s], i, versions, charged),
           NEW r, FlagSet(i, r), versions' = [versions EXCEPT ![i] = r], UNCHANGED charged,
           versions[i].kind # "original" => versions[i].key \in charged \/ (~r.file /\ ~r.reconstructible),
           NEW t, IsTask(t), Set(s, t), t.pc \in Saving => SavesVersion(t, i, versions', charged')
    PROVE  LibraryInv' /\ ReadableStays
<1>1. i \in 1 .. Len(versions) /\ IsVersion(versions[i])
  BY DEF SavesVersion, LibraryInv, LibraryType
<1>2. /\ IsVersion(r) /\ r.key = versions[i].key /\ r.kind = versions[i].kind
      /\ \/ r.alive = versions[i].alive /\ (r.file \/ r.reconstructible)
         \/ ~versions[i].file /\ ~versions[i].reconstructible /\ ~r.file /\ ~r.reconstructible
  BY <1>1, FlagSetFields
<1>3. (r.file \/ r.reconstructible) /\ r.kind # "original" => r.key \in charged'
  BY <1>2
<1>4. Readable(<<i>>) => versions[i].alive /\ (versions[i].file \/ versions[i].reconstructible)
  BY DEF Readable, Alive, Version, Stored, Reproducible
<1>5. Readable(<<i>>) => r.alive /\ (r.file \/ r.reconstructible)
  BY <1>2, <1>4
<1> QED BY <1>2, <1>3, <1>5, SaveMoves

LEMMA InsertKeeps ==
    ASSUME LibraryInv, NEW s \in Slots, InsertVersion(s)
    PROVE  LibraryInv' /\ ReadableStays
<1> DEFINE n == Len(versions) + 1
           key == IF task[s].key = NoVersion THEN <<n>> ELSE task[s].key
           r == [Inserted(s) EXCEPT !.key = key]
           first == IF task[s].kind = "original" THEN "original" ELSE "render"
           t == [task[s] EXCEPT !.version = <<n>>, !.key = key, !.pc = first]
<1>1. versions' = Append(versions, r) /\ Set(s, t) /\ UNCHANGED charged
  BY DEF InsertVersion
<1>2. LibraryType /\ SavesInv /\ PaidInv /\ IsTask(task[s])
  BY DEF LibraryInv, LibraryType
<1>3. /\ IsVersion(r) /\ r.key = key /\ r.kind = task[s].kind
      /\ ~r.file /\ ~r.reconstructible
  BY DEF IsVersion, VersionFields, Inserted, NewVersion
<1>4. IsTask(t) /\ t.pc = first /\ t.version = <<n>> /\ t.key = key
  BY <1>2 DEF IsTask, TaskFields
<1>5. first = "original" => r.kind = "original"
  BY <1>3
<1>6. first \in {"original", "render"}
  OBVIOUS
<1> HIDE DEF key, r, first, t
<1>7. PICK rows : versions \in Seq(rows)
  BY <1>2 DEF LibraryType
<1>8. /\ versions' \in Seq(rows \cup {r}) /\ Len(versions') = n /\ versions'[n] = r
      /\ \A j \in 1 .. Len(versions) : versions'[j] = versions[j]
  <2>1. versions \in Seq(rows \cup {r}) /\ r \in rows \cup {r}
    BY <1>7
  <2> QED BY <1>1, <2>1
<1>9. Len(versions) \in Nat
  BY <1>7
<1>10. /\ task' = [u \in Slots |-> task'[u]] /\ \A u \in Slots : IsTask(task'[u])
       /\ task'[s] = t /\ \A u \in Slots : u # s => task'[u] = task[u]
  BY <1>1, <1>2, <1>4, TaskSet DEF Set
<1>11. LibraryType'
  BY <1>2, <1>3, <1>8, <1>9, <1>10 DEF LibraryType
<1>12. PaidInv'
  BY <1>1, <1>2, <1>3, <1>8, <1>9 DEF PaidInv
<1>13. SavesVersion(t, n, versions', charged')
  BY <1>3, <1>4, <1>5, <1>6, <1>8, <1>9 DEF SavesVersion, Unlinked
<1>14. ASSUME NEW u \in Slots, task'[u].pc \in Saving, u # s
       PROVE  /\ task'[u] = task[u]
              /\ \E j \in 1 .. Len(versions) :
                   task'[u].version = <<j>> /\ SavesVersion(task'[u], j, versions', charged')
  <2>1. task'[u] = task[u] /\ task[u].pc \in Saving
    BY <1>10, <1>14
  <2>2. PICK j : SavesVersion(task[u], j, versions, charged)
    BY <1>2, <2>1 DEF SavesInv
  <2>3. j \in 1 .. Len(versions) /\ versions'[j] = versions[j] /\ j \in 1 .. Len(versions')
    BY <1>8, <1>9, <2>2 DEF SavesVersion
  <2> QED BY <1>1, <2>1, <2>2, <2>3 DEF SavesVersion
<1>15. SavesInv'
  <2>1. ASSUME NEW u \in Slots, NEW w \in Slots, task'[u].pc \in Saving, task'[w].pc \in Saving,
               task'[u].version = task'[w].version
        PROVE  u = w
    <3>1. CASE u # s /\ w # s
      BY <1>2, <1>14, <2>1, <3>1 DEF SavesInv
    <3>2. CASE u = s /\ w # s
      BY <1>4, <1>9, <1>10, <1>14, <2>1, <3>2
    <3>3. CASE u # s /\ w = s
      BY <1>4, <1>9, <1>10, <1>14, <2>1, <3>3
    <3> QED BY <3>1, <3>2, <3>3
  <2> QED BY <1>10, <1>13, <1>14, <2>1 DEF SavesInv
<1>16. ReadableStays
  <2> SUFFICES ASSUME NEW v, Readable(v) PROVE Readable(v)'
    BY DEF ReadableStays
  <2>1. PICK j \in 1 .. Len(versions) : v = <<j>>
    BY DEF Readable, Alive, VersionIds
  <2>2. v \in VersionIds' /\ v[1] = j /\ versions'[j] = versions[j]
    BY <1>8, <1>9, <2>1 DEF VersionIds
  <2> QED BY <2>2 DEF Readable, Alive, Version, Stored, Reproducible
<1> QED BY <1>11, <1>12, <1>15, <1>16 DEF LibraryInv

LEMMA SaveStepKeeps ==
    ASSUME LibraryInv, NEW s \in Slots, SaveStep(s)
    PROVE  LibraryInv' /\ ReadableStays
<1> DEFINE Onto(step) == [task[s] EXCEPT !.pc = step]
<1>1. CASE InsertVersion(s)
  BY <1>1, InsertKeeps
<1>2. CASE InsertFails(s)
  <2>1. PICK t : IsTask(t) /\ t.pc \notin Saving /\ Set(s, t)
    BY <1>2, EndedTask DEF InsertFails
  <2> QED BY <1>2, <2>1, SlotEnds DEF InsertFails
<1>3. ASSUME task[s].pc \in Saving
      PROVE  \E i : /\ SavesVersion(task[s], i, versions, charged) /\ IsTask(task[s]) /\ task[s].version[1] = i
                    /\ IsVersion(versions[i]) /\ task[s].version = <<i>>
                    /\ \A step : /\ IsTask(Onto(step)) /\ Onto(step).pc = step /\ Onto(step).version = <<i>>
                               /\ Onto(step).key = task[s].key
  <2>1. PICK i : SavesVersion(task[s], i, versions, charged) /\ IsVersion(versions[i])
    BY <1>3, SavesOne
  <2>2. IsTask(task[s]) /\ task[s].version = <<i>> /\ task[s].version[1] = i
    BY <1>3, <2>1, SavesOne DEF SavesVersion
  <2> QED BY <2>1, <2>2, GoesOn
<1>4. CASE StoreOriginal(s)
  <2>1. task[s].pc \in Saving /\ task[s].pc = "original" /\ UNCHANGED charged
    BY <1>4 DEF StoreOriginal, Saving
  <2>2. PICK i : /\ SavesVersion(task[s], i, versions, charged) /\ IsTask(task[s]) /\ task[s].version[1] = i
                 /\ IsVersion(versions[i])
    BY <1>3, <2>1
  <2>3. PICK t : IsTask(t) /\ t.pc \notin Saving /\ Set(s, t)
    BY <1>4, EndedTask DEF StoreOriginal
  <2>4. CASE UNCHANGED versions
    BY <2>1, <2>2, <2>3, <2>4, SaveWaits
  <2>5. CASE versions' = [versions EXCEPT ![task[s].version[1]].file = TRUE]
    <3> DEFINE r == [versions[i] EXCEPT !.file = TRUE]
    <3>1. versions' = [versions EXCEPT ![i] = r] /\ FlagSet(i, r)
      BY <2>2, <2>5 DEF FlagSet
    <3>2. versions[i].kind = "original"
      BY <2>1, <2>2 DEF SavesVersion
    <3> HIDE DEF r
    <3> QED BY <2>1, <2>2, <2>3, <3>1, <3>2, SetsFlag
  <2> QED BY <1>4, <2>4, <2>5 DEF StoreOriginal
<1>5. CASE Render(s)
  <2>1. task[s].pc \in Saving /\ task[s].pc = "render" /\ UNCHANGED <<versions, charged>>
    BY <1>5 DEF Render, Saving
  <2>2. PICK i : /\ SavesVersion(task[s], i, versions, charged) /\ task[s].version = <<i>>
                 /\ \A step : /\ IsTask(Onto(step)) /\ Onto(step).pc = step /\ Onto(step).version = <<i>>
                            /\ Onto(step).key = task[s].key
    BY <1>3, <2>1
  <2>3. CASE Goto(s, "charge")
    <3> DEFINE t == Onto("charge")
    <3>1. IsTask(t) /\ t.pc = "charge" /\ t.version = <<i>> /\ t.key = task[s].key /\ Set(s, t)
      BY <2>2, <2>3 DEF Goto
    <3> HIDE DEF t
    <3>2. SavesVersion(t, i, versions, charged')
      BY <2>1, <2>2, <3>1 DEF SavesVersion, Unlinked
    <3> QED BY <2>1, <2>2, <3>1, <3>2, SaveWaits
  <2>4. CASE EndsSave(s, "failed")
    <3>1. PICK t : IsTask(t) /\ t.pc \notin Saving /\ Set(s, t)
      BY <2>4, EndedTask
    <3> QED BY <2>1, <3>1, SlotEnds
  <2> QED BY <1>5, <2>3, <2>4 DEF Render
<1>6. CASE Charge(s)
  <2>1. task[s].pc \in Saving /\ task[s].pc = "charge" /\ UNCHANGED versions
    BY <1>6 DEF Charge, Saving
  <2>2. PICK i : /\ SavesVersion(task[s], i, versions, charged) /\ task[s].version = <<i>>
                 /\ \A step : /\ IsTask(Onto(step)) /\ Onto(step).pc = step /\ Onto(step).version = <<i>>
                            /\ Onto(step).key = task[s].key
    BY <1>3, <2>1
  <2>3. CASE charged' = Recorded(task[s].key) /\ Goto(s, "link")
    <3> DEFINE t == Onto("link")
    <3>1. IsTask(t) /\ t.pc = "link" /\ t.version = <<i>> /\ t.key = task[s].key /\ Set(s, t)
      BY <2>2, <2>3 DEF Goto
    <3> HIDE DEF t
    <3>2. charged \subseteq charged' /\ task[s].key \in charged'
      BY <2>3 DEF Recorded
    <3>3. SavesVersion(t, i, versions, charged')
      BY <2>1, <2>2, <3>1, <3>2 DEF SavesVersion, Unlinked
    <3> QED BY <2>1, <2>2, <3>1, <3>2, <3>3, SaveWaits
  <2>4. CASE UNCHANGED charged /\ Goto(s, "clean")
    <3> DEFINE t == Onto("clean")
    <3>1. IsTask(t) /\ t.pc = "clean" /\ t.version = <<i>> /\ t.key = task[s].key /\ Set(s, t)
      BY <2>2, <2>4 DEF Goto
    <3> HIDE DEF t
    <3>2. SavesVersion(t, i, versions, charged') /\ charged \subseteq charged'
      BY <2>1, <2>2, <2>4, <3>1 DEF SavesVersion, Unlinked
    <3> QED BY <2>1, <2>2, <3>1, <3>2, SaveWaits
  <2> QED BY <1>6, <2>3, <2>4 DEF Charge
<1>7. CASE Link(s)
  <2>1. task[s].pc \in Saving /\ task[s].pc = "link" /\ UNCHANGED charged
    BY <1>7 DEF Link, Saving
  <2>2. PICK i : /\ SavesVersion(task[s], i, versions, charged) /\ task[s].version = <<i>> /\ task[s].version[1] = i
                 /\ IsVersion(versions[i])
                 /\ \A step : /\ IsTask(Onto(step)) /\ Onto(step).pc = step /\ Onto(step).version = <<i>>
                            /\ Onto(step).key = task[s].key
    BY <1>3, <2>1
  <2>3. versions[i].key \in charged /\ i \in 1 .. Len(versions) /\ LibraryType
    BY <2>1, <2>2 DEF SavesVersion, LibraryInv
  <2>4. CASE versions' = [versions EXCEPT ![task[s].version[1]].file = TRUE] /\ Goto(s, "ready")
    <3> DEFINE t == Onto("ready")
               r == [versions[i] EXCEPT !.file = TRUE]
    <3>1. IsTask(t) /\ t.pc = "ready" /\ t.version = <<i>> /\ t.key = task[s].key /\ Set(s, t)
      BY <2>2, <2>4 DEF Goto
    <3>2. versions' = [versions EXCEPT ![i] = r] /\ FlagSet(i, r)
      BY <2>2, <2>4 DEF FlagSet
    <3>3. IsVersion(r) /\ r.key = versions[i].key
      BY <2>2, RowFields
    <3> HIDE DEF t, r
    <3>4. Len(versions') = Len(versions) /\ versions'[i] = r
      BY <2>3, <3>2, <3>3, RowSet
    <3>5. SavesVersion(t, i, versions', charged')
      BY <2>1, <2>2, <2>3, <3>1, <3>3, <3>4 DEF SavesVersion, Unlinked
    <3> QED BY <2>1, <2>2, <2>3, <3>1, <3>2, <3>5, SetsFlag
  <2>5. CASE UNCHANGED versions /\ Goto(s, "clean")
    <3> DEFINE t == Onto("clean")
    <3>1. IsTask(t) /\ t.pc = "clean" /\ t.version = <<i>> /\ t.key = task[s].key /\ Set(s, t)
      BY <2>2, <2>5 DEF Goto
    <3> HIDE DEF t
    <3>2. SavesVersion(t, i, versions, charged')
      BY <2>1, <2>2, <3>1 DEF SavesVersion, Unlinked
    <3> QED BY <2>1, <2>2, <2>5, <3>1, <3>2, SaveWaits
  <2> QED BY <1>7, <2>4, <2>5 DEF Link
<1>8. CASE Ready(s)
  <2>1. task[s].pc \in Saving /\ task[s].pc = "ready" /\ UNCHANGED charged
    BY <1>8 DEF Ready, Saving
  <2>2. PICK i : /\ SavesVersion(task[s], i, versions, charged) /\ IsTask(task[s]) /\ task[s].version[1] = i
    BY <1>3, <2>1
  <2>3. versions[i].key \in charged
    BY <2>1, <2>2 DEF SavesVersion
  <2>4. PICK t : IsTask(t) /\ t.pc \notin Saving /\ Set(s, t)
    BY <1>8, EndedTask DEF Ready
  <2>5. CASE UNCHANGED versions
    BY <2>1, <2>2, <2>4, <2>5, SaveWaits
  <2>6. CASE versions' = [versions EXCEPT ![task[s].version[1]].reconstructible = TRUE]
    <3> DEFINE r == [versions[i] EXCEPT !.reconstructible = TRUE]
    <3>1. versions' = [versions EXCEPT ![i] = r] /\ FlagSet(i, r)
      BY <2>2, <2>6 DEF FlagSet
    <3> HIDE DEF r
    <3> QED BY <2>1, <2>2, <2>3, <2>4, <3>1, SetsFlag
  <2> QED BY <1>8, <2>5, <2>6 DEF Ready
<1>9. CASE Clean(s)
  <2>1. task[s].pc \in Saving /\ task[s].pc = "clean" /\ UNCHANGED charged
    BY <1>9 DEF Clean, Saving
  <2>2. PICK i : /\ SavesVersion(task[s], i, versions, charged) /\ IsTask(task[s]) /\ task[s].version[1] = i
                 /\ task[s].version = <<i>> /\ IsVersion(versions[i])
    BY <1>3, <2>1
  <2>3. ~versions[i].file /\ ~versions[i].reconstructible
    BY <2>1, <2>2 DEF SavesVersion, Unlinked
  <2>4. PICK t : IsTask(t) /\ t.pc \notin Saving /\ Set(s, t)
    BY <1>9, EndedTask DEF Clean
  <2>5. CASE UNCHANGED versions
    BY <2>1, <2>2, <2>4, <2>5, SaveWaits
  <2>6. CASE ~UNCHANGED versions
    <3> DEFINE x == \E k \in DefaultKinds : defaults[k] = task[s].version
               r == [versions[i] EXCEPT !.alive = x]
    <3>1. versions' = [versions EXCEPT ![i] = r]
      BY <1>9, <2>2, <2>6 DEF Clean
    <3>2. FlagSet(i, r)
      BY <2>3 DEF FlagSet
    <3> HIDE DEF r, x
    <3>3. ~r.file /\ ~r.reconstructible
      <4>1. PICK y : r = [versions[i] EXCEPT !.alive = y]
        BY DEF r
      <4> QED BY <2>2, <2>3, <4>1, RowFields
    <3> QED BY <2>1, <2>2, <2>3, <2>4, <3>1, <3>2, <3>3, SetsFlag
  <2> QED BY <2>5, <2>6
<1> QED BY <1>1, <1>2, <1>4, <1>5, <1>6, <1>7, <1>8, <1>9 DEF SaveStep

\* Everything that requests about documents do.
LEMMA RequestKeeps ==
    ASSUME LibraryInv, LibraryRequest
    PROVE  LibraryInv' /\ ReadableStays
<1>1. ASSUME NEW s \in Slots, Save(s)  PROVE LibraryInv' /\ ReadableStays
  BY <1>1, BeginsSaveKeeps DEF Save, SaveResume, SaveCover, GenerateResume, GenerateCover, Upload
<1>2. ASSUME NEW s \in Slots, SetDefault(s)  PROVE LibraryInv' /\ ReadableStays
  <2>1. PICK kind, v : Set(s, [NoTask EXCEPT !.pc = "default", !.kind = kind, !.version = v])
    BY <1>2 DEF SetDefault
  <2> DEFINE t == [NoTask EXCEPT !.pc = "default", !.kind = kind, !.version = v]
  <2>2. IsTask(t) /\ t.pc \notin Saving
    BY DEF IsTask, NoTask, TaskFields, Saving
  <2> HIDE DEF t
  <2> QED BY <1>2, <2>1, <2>2, SlotEnds DEF SetDefault, t
<1>3. ASSUME NEW s \in Slots, WriteDefault(s)  PROVE LibraryInv' /\ ReadableStays
  BY <1>3, SlotEnds, NoTaskType DEF WriteDefault, Saving
<1>4. ASSUME DeleteDocument  PROVE LibraryInv' /\ ReadableStays
  BY <1>4, QuietLibrary DEF DeleteDocument, LibraryInv, LibraryType
<1> QED BY <1>1, <1>2, <1>3, <1>4, SaveStepKeeps DEF LibraryRequest

\* The steps of a review, and what they leave alone.
LEMMA LibraryStays ==
    ASSUME LibraryInv, UNCHANGED <<versions, charged, task>>
    PROVE  LibraryInv' /\ ReadableStays
BY QuietLibrary DEF LibraryInv, LibraryType

LEMMA LibraryKept ==
    ASSUME LibraryInv, [ReviewNext]_reviewVars
    PROVE  LibraryInv' /\ ReadableStays
<1>1. CASE LibraryRequest
  BY <1>1, RequestKeeps
<1>2. CASE Put \/ Reject
  BY <1>2, LibraryStays DEF Put, Reject
<1>3. CASE Crash
  <2>1. task' = [s \in Slots |-> NoTask] /\ UNCHANGED <<versions, charged>>
    BY <1>3 DEF Crash
  <2>2. \A s \in Slots : task'[s] = NoTask
    BY <2>1
  <2>3. task' = [s \in Slots |-> task'[s]]
    BY <2>1
  <2> QED BY <2>1, <2>2, <2>3, NoTaskType, QuietLibrary DEF Saving
<1>4. ASSUME NEW s \in Slots, Scan(s)  PROVE LibraryInv' /\ ReadableStays
  <2>1. UNCHANGED <<versions, charged>> /\ (UNCHANGED task \/ BeginsSave(s, "resume", 0, NoVersion, "prepare"))
    BY <1>4 DEF Scan
  <2> QED BY <2>1, LibraryStays, BeginsSaveKeeps
<1>5. ASSUME NEW s \in Slots, Tailored(s)  PROVE LibraryInv' /\ ReadableStays
  BY <1>5, SlotEnds, NoTaskType DEF Tailored, Saving
<1>6. ASSUME NEW s \in Slots,
             Prepare(s) \/ PrepareWrite(s) \/ GivesUp(s) \/ Approve(s) \/ Guard(s) \/ Submitted(s)
      PROVE  LibraryInv' /\ ReadableStays
  BY <1>6, LibraryStays DEF Prepare, PrepareWrite, GivesUp, Approve, Guard, Submitted
<1>7. CASE UNCHANGED reviewVars
  BY <1>7, LibraryStays DEF reviewVars, library
<1> QED BY <1>1, <1>2, <1>3, <1>4, <1>5, <1>6, <1>7 DEF ReviewNext

LEMMA LibraryInit == ReviewInit => LibraryInv
<1> SUFFICES ASSUME ReviewInit PROVE LibraryInv
  OBVIOUS
<1> DEFINE r(i) == [NewVersion(i, 1, documents[i].kind, <<i>>) EXCEPT !.reconstructible = TRUE, !.file = TRUE]
<1>1. versions = [i \in 1 .. 2 |-> r(i)] /\ charged = {<<1>>, <<2>>} /\ task = [s \in Slots |-> NoTask]
  BY DEF ReviewInit
<1>2. \A i : IsVersion(r(i)) /\ r(i).key = <<i>>
  BY DEF IsVersion, VersionFields, NewVersion
<1> HIDE DEF r
<1>3. versions \in Seq({r(1), r(2)}) /\ Len(versions) = 2 /\ \A i \in 1 .. 2 : versions[i] = r(i)
  <2>1. \A i \in 1 .. 2 : r(i) \in {r(1), r(2)}
    OBVIOUS
  <2>2. versions \in [1 .. 2 -> {r(1), r(2)}]
    BY <1>1, <2>1
  <2> QED BY <1>1, <2>2, SeqDef
<1>4. LibraryType
  BY <1>1, <1>2, <1>3, NoTaskType DEF LibraryType
<1>5. SavesInv
  BY <1>1, NoTaskType DEF SavesInv, Saving
<1>6. \A i \in 1 .. 2 : versions[i].key \in charged
  <2>1. versions[1].key = <<1>> /\ versions[2].key = <<2>>
    BY <1>2, <1>3
  <2>2. \A i \in 1 .. 2 : i = 1 \/ i = 2
    OBVIOUS
  <2> QED BY <1>1, <2>1, <2>2
<1>7. PaidInv
  BY <1>3, <1>6 DEF PaidInv
<1> QED BY <1>4, <1>5, <1>7 DEF LibraryInv

\* What can be read as a PDF has been charged: no failed, unfinished or interrupted save
\* leaves a file, or a row that reproduces one, for which no render was recorded
\* (saveResumeVersionLocked, resumeBillAndLink).
THEOREM NoRenderIsFree == ReviewSpec => []RenderIsPaid
<1>1. LibraryInv => RenderIsPaid
  BY DEF LibraryInv, PaidInv, RenderIsPaid, Readable, Alive, Version, Stored, Reproducible
<1>2. LibraryInv /\ [ReviewNext]_reviewVars => LibraryInv'
  BY LibraryKept
<1> QED BY <1>1, <1>2, LibraryInit, PTL DEF ReviewSpec

-----------------------------------------------------------------------------
(* The review: what can be approved is complete, and what is prepared was shown. *)

PackFields == {"prepared", "hold", "sel", "caps", "resume", "cover"}
ReviewFields == {"there", "resumeV", "coverV", "resumePath", "coverPath", "pack", "attempts"}
IsRef(ref) == ref = [f \in {"outcome", "version", "path"} |-> ref[f]]
IsPack(p) ==
    /\ p = [f \in PackFields |-> p[f]]
    /\ IsChoice(p.sel) /\ p.caps \in Capabilities /\ IsRef(p.resume) /\ IsRef(p.cover)
IsReview(r) == r = [f \in ReviewFields |-> r[f]] /\ IsPack(r.pack)
IsDocuments(l) == IsLazy(l) /\ IsChoice(l.sel) /\ IsPack(l.pack) /\ l.caps \in Capabilities

\* The versions whose file can be read.
ReadableFiles == {v \in VersionIds : Readable(v)}

\* What ReadyIsComplete says of a pack, given which files there are.
CompletePack(pack, files) ==
    /\ pack.resume.outcome # "hold" /\ pack.cover.outcome # "hold"
    /\ pack.resume.version # None => pack.resume.path = pack.resume.version /\ pack.resume.version \in files
    /\ pack.cover.version # None => pack.cover.path = pack.cover.version /\ pack.cover.version \in files
    /\ pack.sel.site => pack.resume.outcome = "site"
    /\ ~pack.sel.site /\ pack.sel.resume # None => pack.resume.version = pack.sel.resume
    /\ pack.sel.skip => pack.cover.outcome = "skipped"
    /\ ~pack.sel.skip /\ pack.sel.cover # None => pack.cover.version = pack.sel.cover

\* Before the form was scanned, nothing is there that could be sent.
Unscanned(pack, resumePath, coverPath) ==
    ~pack.caps.det => pack.resume = NoRef /\ pack.cover = NoRef /\ resumePath = None /\ coverPath = None
\* What was used is what the picker chose.
UsedAgrees(sel, resumeV, coverV) ==
    /\ resumeV # None /\ sel.resume # None /\ ~sel.site => resumeV = sel.resume
    /\ coverV # None /\ sel.cover # None /\ ~sel.skip => coverV = sel.cover
\* A pack and the columns beside it: paths belong to the version that was used or chosen,
\* and what can be approved is complete, with the same paths and versions in the columns.
ChosenOr(v, chosen) == IF v # None THEN v ELSE chosen
Whole(pack, resumePath, coverPath, resumeV, coverV, files) ==
    /\ resumePath # None => ~pack.sel.site /\ resumePath = ChosenOr(resumeV, pack.sel.resume)
    /\ coverPath # None => ~pack.sel.skip /\ coverPath = ChosenOr(coverV, pack.sel.cover)
    /\ ReadyForSubmit(pack) => /\ CompletePack(pack, files)
                               /\ pack.resume.path = resumePath /\ pack.cover.path = coverPath
                               /\ pack.resume.version = resumeV /\ pack.cover.version = coverV

\* The row, also when an approval that failed wrote into it, and otherwise.
SoundRow(r) ==
    /\ Unscanned(r.pack, r.resumePath, r.coverPath)
    /\ ~r.pack.prepared => UsedAgrees(r.pack.sel, r.resumeV, r.coverV)
WholeRow(r, files) == Whole(r.pack, r.resumePath, r.coverPath, r.resumeV, r.coverV, files)

\* A preparation before it resolved anything, and the override it took from the row.
Opened(l) ==
    /\ ~l.frozen /\ ~l.mat /\ l.resume = None /\ l.cover = None /\ l.resumeV = None /\ l.coverV = None
    /\ ~l.caps.det => l.pack.resume = NoRef /\ l.pack.cover = NoRef
                      /\ l.resumeOverride = None /\ l.coverOverride = None
KeptPaths(l) ==
    /\ l.resumeOverride # None => ~l.sel.site /\ l.sel.resume = l.resumeOverride
    /\ l.coverOverride # None => ~l.sel.skip /\ l.sel.cover = l.coverOverride
\* What it is about to write.
SoundlyWritten(l) ==
    /\ Unscanned(PreparedPack(l), Peek(l).resume, Peek(l).cover)
    /\ UsedAgrees(l.sel, l.resumeV, l.coverV)
WhollyWritten(l, files) == Whole(PreparedPack(l), Peek(l).resume, Peek(l).cover, l.resumeV, l.coverV, files)
\* A résumé is being tailored for it.
WritesNoLetter(st) == st.coverMode \in {"general", "skip"}
TailorsFor(st, l) ==
    LET res == Resolve(st, Overrides(l), FALSE, l.caps) IN
    l.caps.det /\ ~IsHeld(res) /\ res.resume.make /\ WritesNoLetter(st)

SoundWork(w) ==
    /\ w.pc \in {"idle", "scan", "save", "write", "guard", "submit"}
    /\ w.pc # "idle" => IsDocuments(w.lz)
    /\ w.pc \in {"scan", "save"} => Opened(w.lz)
    /\ w.pc = "save" => TailorsFor(w.st, w.lz)
    /\ w.pc = "write" => SoundlyWritten(w.lz)
    /\ w.pc \in {"guard", "submit"} => ReadyForSubmit(w.lz.pack) /\ w.lz.pack.caps.det
    /\ w.pc = "guard" => w = [pc |-> "guard", lz |-> w.lz]
\* What was approved is complete by itself.
WhollyApproved(l, files) == Whole(l.pack, Peek(l).resume, Peek(l).cover, l.resumeV, l.coverV, files)
WholeWork(w, files) ==
    /\ w.pc \in {"guard", "submit"} => WhollyApproved(w.lz, files)
    /\ w.pc \in {"scan", "save"} => KeptPaths(w.lz)
    /\ w.pc = "write" => WhollyWritten(w.lz, files)

RowPart == IsReview(row) /\ (row.there => SoundRow(row) /\ (~merged => WholeRow(row, ReadableFiles)))
WorkPart ==
    /\ work = [s \in Slots |-> work[s]]
    /\ \A s \in Slots : SoundWork(work[s]) /\ (~merged => WholeWork(work[s], ReadableFiles))
ScenePart == setting \in PolicySettings /\ form \in Forms /\ merged \in BOOLEAN
ReviewInv == ScenePart /\ RowPart /\ WorkPart

\* More files break nothing.
LEMMA WholeStays ==
    \A pack, resumePath, coverPath, resumeV, coverV, files, more :
        Whole(pack, resumePath, coverPath, resumeV, coverV, files) /\ files \subseteq more
            => Whole(pack, resumePath, coverPath, resumeV, coverV, more)
BY DEF Whole, CompletePack

LEMMA WorkStays ==
    \A w, files, more : WholeWork(w, files) /\ files \subseteq more => WholeWork(w, more)
BY WholeStays DEF WholeWork, WhollyWritten, WhollyApproved

LEMMA FilesStay == ASSUME LibraryInv, ReadableStays PROVE ReadableFiles \subseteq ReadableFiles'
BY DEF ReadableStays, ReadableFiles, Readable, Alive

LEMMA RowSame ==
    ASSUME RowPart, ReadableFiles \subseteq ReadableFiles', UNCHANGED row, merged => merged'
    PROVE  RowPart'
BY WholeStays DEF RowPart, WholeRow

LEMMA WorkSame ==
    ASSUME WorkPart, ReadableFiles \subseteq ReadableFiles', UNCHANGED work, merged => merged'
    PROVE  WorkPart'
BY WorkStays DEF WorkPart

\* One slot goes on with w.
LEMMA WorkSet ==
    ASSUME WorkPart, ReadableFiles \subseteq ReadableFiles', merged => merged', NEW s \in Slots, NEW w, Works(s, w),
           SoundWork(w), ~merged' => WholeWork(w, ReadableFiles')
    PROVE  WorkPart'
BY WorkStays DEF WorkPart, Works

LEMMA WorkEnds ==
    ASSUME WorkPart, ReadableFiles \subseteq ReadableFiles', merged => merged', NEW s \in Slots, Works(s, NoWork)
    PROVE  WorkPart'
<1>1. SoundWork(NoWork) /\ \A files : WholeWork(NoWork, files)
  BY DEF SoundWork, WholeWork, NoWork
<1> QED BY <1>1, WorkSet

-----------------------------------------------------------------------------
(* The values that the steps write. *)

LEMMA CapsType == NoCaps \in Capabilities
BY DEF NoCaps, Capabilities

LEMMA EmptyValues ==
    /\ IsChoice(NoSelection) /\ IsRef(NoRef) /\ IsPack(EmptyPack)
    /\ EmptyPack.resume = NoRef /\ EmptyPack.cover = NoRef /\ EmptyPack.sel = NoSelection
    /\ EmptyPack.prepared = FALSE
BY CapsType DEF IsChoice, IsRef, IsPack, PackFields, NoSelection, NoRef, EmptyPack

\* What cannot be approved and has no paths is whole.
LEMMA WholeIfEmpty ==
    \A pack, resumeV, coverV, files : ~pack.prepared => Whole(pack, None, None, resumeV, coverV, files)
BY DEF Whole, ReadyForSubmit

LEMMA NoRefValues ==
    /\ NoRef.outcome = "" /\ NoRef.version = None /\ NoRef.path = None
    /\ [NoRef EXCEPT !.path = None] = NoRef
<1>1. NoRef.outcome = "" /\ NoRef.version = None /\ NoRef.path = None
  BY DEF NoRef
<1>2. \A ref : IsRef(ref) => [ref EXCEPT !.path = ref.path] = ref
  BY DEF IsRef
<1> QED BY <1>1, <1>2, EmptyValues

LEMMA NewRowFine ==
    /\ IsReview(NewRow) /\ SoundRow(NewRow) /\ \A files : WholeRow(NewRow, files)
    /\ IsReview(Gone) /\ ~Gone.there
<1> DEFINE p == [EmptyPack EXCEPT !.hold = "placeholder"]
<1>1. IsPack(p) /\ ~p.prepared /\ p.resume = NoRef /\ p.cover = NoRef
  BY CapsType DEF IsChoice, IsRef, IsPack, PackFields, NoSelection, NoRef, EmptyPack
<1> HIDE DEF p
<1>2. NewRow = [there |-> TRUE, resumeV |-> None, coverV |-> None, resumePath |-> None, coverPath |-> None,
                pack |-> p, attempts |-> 0]
  BY DEF NewRow, p
<1>3. IsReview(NewRow) /\ IsReview(Gone) /\ ~Gone.there
  BY <1>1, <1>2 DEF Gone, IsReview, ReviewFields
<1>4. SoundRow(NewRow)
  BY <1>1, <1>2 DEF SoundRow, Unscanned, UsedAgrees
<1> QED BY <1>1, <1>2, <1>3, <1>4, WholeIfEmpty DEF WholeRow

LEMMA SelectedFine ==
    ASSUME IsReview(row), NEW sel \in Selections
    PROVE  /\ IsReview(Selected(sel)) /\ SoundRow(Selected(sel)) /\ \A files : WholeRow(Selected(sel), files)
<1> DEFINE p == PackAfterSelectionChange(sel)
           r == Selected(sel)
<1>1. IsChoice(sel)
  BY DEF Selections, IsChoice
<1>2. IsPack(p) /\ ~p.prepared /\ p.resume = NoRef /\ p.cover = NoRef /\ p.sel = sel
  <2>1. p = [EmptyPack EXCEPT !.sel = sel, !.hold = "changed"]
    BY DEF PackAfterSelectionChange
  <2> HIDE DEF p
  <2> QED BY <1>1, <2>1, CapsType DEF IsChoice, IsRef, IsPack, PackFields, NoSelection, NoRef, EmptyPack
<1> HIDE DEF p
<1>3. /\ r = [f \in ReviewFields |-> r[f]] /\ r.pack = p /\ r.resumeV = sel.resume /\ r.coverV = sel.cover
      /\ r.resumePath = None /\ r.coverPath = None
  BY DEF Selected, IsReview, ReviewFields, p
<1> HIDE DEF r
<1>4. IsReview(r) /\ SoundRow(r)
  BY <1>2, <1>3 DEF IsReview, SoundRow, Unscanned, UsedAgrees
<1>5. \A files : WholeRow(r, files)
  BY <1>2, <1>3, WholeIfEmpty DEF WholeRow
<1> QED BY <1>4, <1>5 DEF r

\* What PrepareReviewDocuments starts from.
LEMMA OpenedFrom ==
    ASSUME NEW r, IsReview(r), SoundRow(r)
    PROVE  LET l == PreparesFrom(r) IN
           IsDocuments(l) /\ Opened(l) /\ \A files : WholeRow(r, files) => KeptPaths(l)
<1> DEFINE l == PreparesFrom(r)
           chosen == [resume |-> ChosenOr(r.resumeV, r.pack.sel.resume), cover |-> ChosenOr(r.coverV, r.pack.sel.cover),
                      site |-> r.pack.sel.site, skip |-> r.pack.sel.skip]
           hold == IF ~Stale(r.pack.hold) THEN r.pack.hold ELSE ""
<1>1. RowSelection(r).resume = r.resumeV /\ RowSelection(r).cover = r.coverV
  BY DEF RowSelection, NoSelection
<1>2. l = [caps |-> r.pack.caps, sel |-> chosen, frozen |-> FALSE, pack |-> r.pack, hold |-> hold,
           resumeOverride |-> r.resumePath, coverOverride |-> r.coverPath,
           resume |-> None, cover |-> None, resumeV |-> None, coverV |-> None,
           useSite |-> FALSE, mat |-> FALSE]
  BY <1>1 DEF PreparesFrom, NewLazy, ChosenOr
<1>3. IsChoice(chosen) /\ IsPack(r.pack)
  BY DEF IsChoice, IsReview
<1>4. /\ chosen.site = r.pack.sel.site /\ chosen.skip = r.pack.sel.skip
      /\ chosen.resume = ChosenOr(r.resumeV, r.pack.sel.resume)
      /\ chosen.cover = ChosenOr(r.coverV, r.pack.sel.cover)
  OBVIOUS
<1> HIDE DEF chosen, hold, l
<1>5. IsDocuments(l)
  BY <1>2, <1>3 DEF IsDocuments, IsLazy, LazyFields, IsPack
<1>6. Opened(l)
  BY <1>2 DEF Opened, SoundRow, Unscanned
<1>7. ASSUME NEW files, WholeRow(r, files)  PROVE KeptPaths(l)
  BY <1>2, <1>4, <1>7 DEF KeptPaths, WholeRow, Whole
<1> QED BY <1>5, <1>6, <1>7 DEF l

\* What the form asks for is taken over.
LEMMA OpenedScanned ==
    ASSUME NEW l, IsDocuments(l), Opened(l), NEW caps \in Capabilities
    PROVE  LET k == ApplyCaps(l, caps) IN
           /\ IsDocuments(k) /\ Opened(k) /\ k.sel = l.sel
           /\ KeptPaths(l) => KeptPaths(k)
<1> DEFINE c == MergeCaps(l.caps, caps)
           k == ApplyCaps(l, caps)
<1>1. c \in Capabilities /\ (l.caps.det => c.det)
  BY DEF MergeCaps, Capabilities, IsDocuments
<1>2. k = [l EXCEPT !.caps = c]
  BY DEF ApplyCaps, Opened
<1> HIDE DEF c, k
<1>3. /\ IsLazy(k) /\ k.caps = c
      /\ \A f \in LazyFields \ {"caps"} : k[f] = l[f]
  BY <1>2 DEF IsDocuments, IsLazy, LazyFields
<1>4. /\ k.sel = l.sel /\ k.frozen = l.frozen /\ k.pack = l.pack /\ k.mat = l.mat
      /\ k.resumeOverride = l.resumeOverride /\ k.coverOverride = l.coverOverride
      /\ k.resume = l.resume /\ k.cover = l.cover /\ k.resumeV = l.resumeV /\ k.coverV = l.coverV
  BY <1>3 DEF LazyFields
<1>5. IsDocuments(k)
  BY <1>1, <1>3, <1>4 DEF IsDocuments
<1>6. Opened(k)
  BY <1>1, <1>3, <1>4 DEF Opened
<1>7. KeptPaths(l) => KeptPaths(k)
  BY <1>4 DEF KeptPaths
<1> QED BY <1>4, <1>5, <1>6, <1>7 DEF k

\* The pack and the paths that a preparation writes.
LEMMA PreparedFields ==
    ASSUME NEW l, IsDocuments(l)
    PROVE  LET p == PreparedPack(l) IN
           /\ IsPack(p) /\ p.caps = l.caps /\ p.sel = l.sel
           /\ p.resume.path = Peek(l).resume /\ p.cover.path = Peek(l).cover
           /\ p.resume.outcome = l.pack.resume.outcome /\ p.resume.version = l.pack.resume.version
           /\ p.cover.outcome = l.pack.cover.outcome /\ p.cover.version = l.pack.cover.version
           /\ Blocked(l) => ~ReadyForSubmit(p)
           /\ p.resume = [l.pack.resume EXCEPT !.path = Peek(l).resume]
           /\ p.cover = [l.pack.cover EXCEPT !.path = Peek(l).cover]
<1> DEFINE q == IF Blocked(l) THEN [l.pack EXCEPT !.hold = l.hold] ELSE MarkPrepared(l.pack)
           a == Peek(l).resume
           b == Peek(l).cover
           p == PreparedPack(l)
<1>1. IsPack(l.pack)
  BY DEF IsDocuments
<1>2. q = [f \in PackFields |-> q[f]] /\ q.resume = l.pack.resume /\ q.cover = l.pack.cover
      /\ (Blocked(l) => q.hold = l.hold)
  BY <1>1 DEF IsPack, PackFields, MarkPrepared
<1> HIDE DEF q, a, b
<1> DEFINE rr == [q.resume EXCEPT !.path = a]
           cc == [q.cover EXCEPT !.path = b]
<1>3. p = [q EXCEPT !.caps = l.caps, !.sel = l.sel, !.resume.path = a, !.cover.path = b]
  BY DEF PreparedPack, q, a, b
<1>4. p = [q EXCEPT !.caps = l.caps, !.sel = l.sel, !.resume = rr, !.cover = cc]
  BY <1>2, <1>3 DEF PackFields
<1>5. /\ IsRef(rr) /\ rr.path = a /\ rr.outcome = q.resume.outcome /\ rr.version = q.resume.version
      /\ IsRef(cc) /\ cc.path = b /\ cc.outcome = q.cover.outcome /\ cc.version = q.cover.version
  BY <1>1, <1>2 DEF IsPack, IsRef
<1> HIDE DEF rr, cc, p
<1>6. /\ p = [f \in PackFields |-> p[f]] /\ p.caps = l.caps /\ p.sel = l.sel /\ p.resume = rr /\ p.cover = cc
      /\ p.hold = q.hold
  BY <1>2, <1>4 DEF PackFields
<1>7. IsPack(p)
  BY <1>5, <1>6 DEF IsPack, IsDocuments
<1>8. Blocked(l) => ~ReadyForSubmit(p)
  BY <1>2, <1>6 DEF Blocked, ReadyForSubmit
<1>9. rr = [l.pack.resume EXCEPT !.path = a] /\ cc = [l.pack.cover EXCEPT !.path = b]
  BY <1>2 DEF rr, cc
<1> QED BY <1>2, <1>5, <1>6, <1>7, <1>8, <1>9 DEF p, a, b

\* What a preparation writes that never knew what the form asks for.
LEMMA UnscannedWritten ==
    ASSUME NEW l, IsDocuments(l), Opened(l), ~l.caps.det
    PROVE  SoundlyWritten(l) /\ \A files : WhollyWritten(l, files)
<1> DEFINE p == PreparedPack(l)
<1>1. Peek(l).resume = None /\ Peek(l).cover = None
  BY DEF Peek, Opened
<1>2. /\ p.resume = [l.pack.resume EXCEPT !.path = None] /\ p.cover = [l.pack.cover EXCEPT !.path = None]
      /\ p.caps = l.caps /\ p.sel = l.sel
  BY <1>1, PreparedFields
<1>3. l.pack.resume = NoRef /\ l.pack.cover = NoRef
  BY DEF Opened
<1>4. p.resume = NoRef /\ p.cover = NoRef
  BY <1>2, <1>3, NoRefValues
<1> HIDE DEF p
<1>5. ~ReadyForSubmit(p)
  BY <1>4, NoRefValues DEF ReadyForSubmit
<1>6. SoundlyWritten(l)
  BY <1>1, <1>2, <1>4 DEF SoundlyWritten, Unscanned, UsedAgrees, Opened, p
<1>7. \A files : WhollyWritten(l, files)
  BY <1>1, <1>5 DEF WhollyWritten, Whole, p
<1> QED BY <1>6, <1>7

\* The resolver makes no cover letter under the policies that are tried, and keeps the choice.
KeepsChoice(sel, res) ==
    /\ ~res.cover.make
    /\ res.resume.make => res.resume = ToMake /\ ~sel.site /\ sel.resume = None
    /\ res.resume.outcome # "hold" /\ sel.site => res.resume.outcome = "site" /\ res.resume.version = None
    /\ ~sel.site /\ sel.resume # None => res.resume = File(sel.resume)
    /\ res.cover.outcome # "hold" /\ sel.skip => res.cover.outcome = "skipped" /\ res.cover.version = None
    /\ ~sel.skip /\ sel.cover # None => res.cover = File(sel.cover)
    /\ res.resume.version # None => res.resume.outcome = "local" /\ ~sel.site
    /\ res.cover.version # None => res.cover.outcome = "local" /\ ~sel.skip

LEMMA OpenedChoice ==
    \A l, st : IsDocuments(l) /\ Opened(l) /\ WritesNoLetter(st)
        => KeepsChoice(l.sel, Resolve(st, Overrides(l), FALSE, l.caps))
<1> SUFFICES ASSUME NEW l, IsDocuments(l), Opened(l), NEW st, WritesNoLetter(st)
             PROVE  KeepsChoice(l.sel, Resolve(st, Overrides(l), FALSE, l.caps))
  OBVIOUS
<1> DEFINE o == Overrides(l)
           rr == ResolveResume(st, o, FALSE, l.caps)
           cc == ResolveCover(st, o, FALSE, l.caps)
<1>1. o.resume = l.sel.resume /\ o.cover = l.sel.cover /\ o.site = l.sel.site /\ o.skip = l.sel.skip
  BY DEF Overrides, Opened, IsDocuments, IsChoice
<1> HIDE DEF o
<1>2. /\ rr.make => rr = ToMake /\ ~o.site /\ o.resume = None
      /\ rr.outcome # "hold" /\ o.site => rr.outcome = "site" /\ rr.version = None
      /\ ~o.site /\ o.resume # None => rr = File(o.resume)
      /\ rr.version # None => rr.outcome = "local" /\ ~o.site
  BY DEF ResolveResume, Held, Site, File, ToMake
<1>3. /\ ~cc.make
      /\ cc.outcome # "hold" /\ o.skip => cc.outcome = "skipped" /\ cc.version = None
      /\ ~o.skip /\ o.cover # None => cc = File(o.cover)
      /\ cc.version # None => cc.outcome = "local" /\ ~o.skip
  BY DEF WritesNoLetter, ResolveCover, Held, Skipped, File
<1> HIDE DEF rr, cc
<1>4. Resolve(st, o, FALSE, l.caps).resume = rr /\ Resolve(st, o, FALSE, l.caps).cover = cc
  BY DEF Resolve, rr, cc
<1> DEFINE res == Resolve(st, o, FALSE, l.caps)
<1> HIDE DEF res
<1>5. res.resume = rr /\ res.cover = cc
  BY <1>4 DEF res
<1>6. KeepsChoice(l.sel, res)
  BY <1>1, <1>2, <1>3, <1>5 DEF KeepsChoice
<1> QED BY <1>6 DEF res, o

LEMMA ChoiceValues ==
    /\ ToMake.outcome = "local" /\ ToMake.version = None
    /\ \A v : File(v).outcome = "local" /\ File(v).version = v
BY DEF ToMake, File

\* A preparation that is held back, for whatever reason, and one that went well.
HeldBack(l, m, res) ==
    /\ IsDocuments(m) /\ m.hold = "other" /\ m.sel = l.sel /\ m.caps = l.caps
    /\ m.resumeOverride = l.resumeOverride /\ m.coverOverride = l.coverOverride
    /\ m.resume = None /\ m.cover = None
    /\ m.resumeV \in {None, res.resume.version} /\ m.coverV \in {None, res.cover.version}
    /\ IsHeld(res) => m.resumeV = None /\ m.coverV = None
WentWell(l, m, r, c) ==
    /\ IsDocuments(m) /\ m.hold = "" /\ m.sel = l.sel /\ m.caps = l.caps
    /\ m.resumeOverride = l.resumeOverride /\ m.coverOverride = l.coverOverride
    /\ m.resume = r.version /\ m.cover = c.version /\ m.resumeV = r.version /\ m.coverV = c.version
    /\ m.pack.resume.outcome = r.outcome /\ m.pack.cover.outcome = c.outcome
    /\ m.pack.resume.version = r.version /\ m.pack.cover.version = c.version

\* Packs as the making of documents leaves them.
PackOf(p, r, c) ==
    /\ IsPack(p) /\ p.resume.outcome = r.outcome /\ p.cover.outcome = c.outcome
    /\ p.resume.version = r.version /\ p.cover.version = c.version

LEMMA MadePack == \A hold, r, c, a, b : PackOf(PackFromPrepared(hold, r, c, a, b), r, c)
<1> SUFFICES ASSUME NEW hold, NEW r, NEW c, NEW a, NEW b PROVE PackOf(PackFromPrepared(hold, r, c, a, b), r, c)
  OBVIOUS
<1> DEFINE p == PackFromPrepared(hold, r, c, a, b)
           rr == Ref(r, a)
           cc == Ref(c, b)
<1>1. /\ IsRef(rr) /\ rr.outcome = r.outcome /\ rr.version = r.version
      /\ IsRef(cc) /\ cc.outcome = c.outcome /\ cc.version = c.version
  BY DEF Ref, IsRef
<1>2. p = [EmptyPack EXCEPT !.hold = hold, !.resume = rr, !.cover = cc]
  BY DEF PackFromPrepared
<1> HIDE DEF p, rr, cc
<1>3. /\ p = [f \in PackFields |-> p[f]] /\ p.sel = EmptyPack.sel /\ p.caps = EmptyPack.caps
      /\ p.resume = rr /\ p.cover = cc
  BY <1>2, EmptyValues DEF IsPack, PackFields
<1> QED BY <1>1, <1>3, EmptyValues DEF PackOf, IsPack, p

LEMMA HeldWritten ==
    ASSUME NEW l, IsDocuments(l), Opened(l), l.caps.det, NEW st, WritesNoLetter(st),
           NEW m, HeldBack(l, m, Resolve(st, Overrides(l), FALSE, l.caps))
    PROVE  SoundlyWritten(m) /\ (KeptPaths(l) => \A files : WhollyWritten(m, files))
<1> DEFINE res == Resolve(st, Overrides(l), FALSE, l.caps)
           p == PreparedPack(m)
<1>1. KeepsChoice(l.sel, res)
  BY OpenedChoice
<1>2. HeldBack(l, m, res)
  OBVIOUS
<1>3. /\ p.caps = m.caps /\ p.sel = m.sel /\ ~ReadyForSubmit(p)
  BY <1>2, PreparedFields DEF HeldBack, Blocked
<1>4. Peek(m).resume = l.resumeOverride /\ Peek(m).cover = l.coverOverride
  BY <1>2 DEF Peek, HeldBack
<1> HIDE DEF res, p
<1>5. SoundlyWritten(m)
  BY <1>1, <1>2, <1>3 DEF KeepsChoice, SoundlyWritten, Unscanned, UsedAgrees, HeldBack, File, p
<1>6. ASSUME KeptPaths(l), NEW files  PROVE WhollyWritten(m, files)
  <2>1. l.resumeOverride # None => ~l.sel.site /\ l.sel.resume = l.resumeOverride /\ m.resumeV \in {None, l.sel.resume}
    BY <1>1, <1>2, <1>6 DEF KeepsChoice, KeptPaths, HeldBack, File
  <2>2. l.coverOverride # None => ~l.sel.skip /\ l.sel.cover = l.coverOverride /\ m.coverV \in {None, l.sel.cover}
    BY <1>1, <1>2, <1>6 DEF KeepsChoice, KeptPaths, HeldBack, File
  <2> QED BY <1>2, <1>3, <1>4, <2>1, <2>2 DEF WhollyWritten, Whole, ChosenOr, HeldBack, p
<1> QED BY <1>5, <1>6

\* What went well was not held, and its files can be read.
LEMMA WellWritten ==
    ASSUME NEW l, IsDocuments(l), Opened(l), l.caps.det, NEW st, WritesNoLetter(st),
           ~IsHeld(Resolve(st, Overrides(l), FALSE, l.caps)),
           NEW r, NEW c, c = Resolve(st, Overrides(l), FALSE, l.caps).cover,
           LET res == Resolve(st, Overrides(l), FALSE, l.caps) IN
             /\ r.outcome = res.resume.outcome /\ (~res.resume.make => r = res.resume),
           NEW m, WentWell(l, m, r, c),
           NEW files, r.outcome = "local" => r.version \in files, c.outcome = "local" => c.version \in files
    PROVE  SoundlyWritten(m) /\ (KeptPaths(l) => WhollyWritten(m, files))
<1> DEFINE res == Resolve(st, Overrides(l), FALSE, l.caps)
           p == PreparedPack(m)
<1>1. KeepsChoice(l.sel, res)
  BY OpenedChoice
<1>2. /\ res.resume.outcome # "hold" /\ res.cover.outcome # "hold" /\ c = res.cover
      /\ r.outcome = res.resume.outcome /\ (~res.resume.make => r = res.resume)
  BY DEF IsHeld
<1>3. /\ p.caps = m.caps /\ p.sel = m.sel
      /\ p.resume.path = Peek(m).resume /\ p.cover.path = Peek(m).cover
      /\ p.resume.outcome = r.outcome /\ p.resume.version = r.version
      /\ p.cover.outcome = c.outcome /\ p.cover.version = c.version
  BY PreparedFields DEF WentWell
<1>4. /\ Peek(m).resume = ChosenOr(l.resumeOverride, r.version)
      /\ Peek(m).cover = ChosenOr(l.coverOverride, c.version)
  BY DEF Peek, WentWell, ChosenOr
<1> HIDE DEF res, p
\* Where there is a choice it was taken, and a version is one that a file was asked for.
<1>5. /\ l.sel.site => r.outcome = "site"
      /\ ~l.sel.site /\ l.sel.resume # None => r.version = l.sel.resume /\ ~res.resume.make
      /\ r.version # None => r.outcome = "local" /\ ~l.sel.site
  <2>1. CASE res.resume.make
    <3>1. res.resume = ToMake /\ ~l.sel.site /\ l.sel.resume = None
      BY <1>1, <2>1 DEF KeepsChoice
    <3>2. r.outcome = "local"
      BY <1>2, <3>1, ChoiceValues
    <3> QED BY <3>1, <3>2
  <2>2. CASE ~res.resume.make
    <3>1. r = res.resume
      BY <1>2, <2>2
    <3>2. l.sel.site => r.outcome = "site"
      BY <1>1, <1>2, <3>1 DEF KeepsChoice
    <3>3. ~l.sel.site /\ l.sel.resume # None => r.version = l.sel.resume
      BY <1>1, <3>1 DEF KeepsChoice, File
    <3>4. r.version # None => r.outcome = "local" /\ ~l.sel.site
      BY <1>1, <3>1 DEF KeepsChoice
    <3> QED BY <2>2, <3>2, <3>3, <3>4
  <2> QED BY <2>1, <2>2
<1>6. /\ l.sel.skip => c.outcome = "skipped"
      /\ ~l.sel.skip /\ l.sel.cover # None => c.version = l.sel.cover
      /\ c.version # None => c.outcome = "local" /\ ~l.sel.skip
  <2>1. l.sel.skip => c.outcome = "skipped"
    BY <1>1, <1>2 DEF KeepsChoice
  <2>2. ~l.sel.skip /\ l.sel.cover # None => c.version = l.sel.cover
    BY <1>1, <1>2, ChoiceValues DEF KeepsChoice
  <2>3. c.version # None => c.outcome = "local" /\ ~l.sel.skip
    BY <1>1, <1>2 DEF KeepsChoice
  <2> QED BY <2>1, <2>2, <2>3
<1>7. SoundlyWritten(m)
  BY <1>3, <1>5, <1>6 DEF SoundlyWritten, Unscanned, UsedAgrees, WentWell, p
<1>8. ASSUME KeptPaths(l)  PROVE WhollyWritten(m, files)
  <2>1. Peek(m).resume = r.version
    BY <1>4, <1>5, <1>8 DEF KeptPaths, ChosenOr
  <2>2. Peek(m).cover = c.version
    BY <1>4, <1>6, <1>8 DEF KeptPaths, ChosenOr
  <2>3. CompletePack(p, files)
    <3>1. p.resume.outcome # "hold" /\ p.cover.outcome # "hold"
      BY <1>2, <1>3
    <3>2. p.resume.version # None => p.resume.path = p.resume.version /\ p.resume.version \in files
      BY <1>3, <1>5, <2>1
    <3>3. p.cover.version # None => p.cover.path = p.cover.version /\ p.cover.version \in files
      BY <1>3, <1>6, <2>2
    <3>4. p.sel = l.sel
      BY <1>3 DEF WentWell
    <3> QED BY <1>3, <1>5, <1>6, <3>1, <3>2, <3>3, <3>4 DEF CompletePack
  <2> QED BY <1>3, <1>5, <1>6, <2>1, <2>2, <2>3 DEF WhollyWritten, Whole, ChosenOr, WentWell, p
<1> QED BY <1>7, <1>8

\* Who is not frozen resolves alike, however that is written.
LEMMA NotFrozen ==
    \A st, o, frozen, caps : ~frozen => Resolve(st, o, frozen, caps) = Resolve(st, o, FALSE, caps)
<1> SUFFICES ASSUME NEW st, NEW o, NEW frozen, NEW caps, ~frozen
             PROVE  Resolve(st, o, frozen, caps) = Resolve(st, o, FALSE, caps)
  OBVIOUS
<1>1. ResolveResume(st, o, frozen, caps) = ResolveResume(st, o, FALSE, caps)
  BY DEF ResolveResume
<1>2. ResolveCover(st, o, frozen, caps) = ResolveCover(st, o, FALSE, caps)
  BY DEF ResolveCover
<1> QED BY <1>1, <1>2 DEF Resolve

\* What a preparation makes of its resolution.
MadeResume(res, v) == IF res.resume.make THEN [res.resume EXCEPT !.version = v] ELSE res.resume
Troubles == {"guard", "tailor", "save", "resumeFile", "coverFile"}

LEMMA Making ==
    ASSUME NEW l, IsDocuments(l), Opened(l), NEW st, WritesNoLetter(st), NEW fresh, NEW how, how # "cover"
    PROVE  LET res == Resolve(st, Overrides(l), FALSE, l.caps)
               m == Materialized(l, st, fresh, how)
           IN \/ HeldBack(l, m, res)
              \/ ~IsHeld(res) /\ how \notin Troubles /\ WentWell(l, m, MadeResume(res, fresh.resume), res.cover)
<1> DEFINE res == Resolve(st, Overrides(l), FALSE, l.caps)
           r == MadeResume(res, fresh.resume)
           c == res.cover
           m == Materialized(l, st, fresh, how)
           failed == [l EXCEPT !.hold = "other"]
<1>1. KeepsChoice(l.sel, res)
  BY OpenedChoice
<1>2. Resolve(st, Overrides(l), l.frozen, l.caps) = res
  BY NotFrozen DEF Opened
<1>3. ~res.cover.make
  BY <1>1 DEF KeepsChoice
<1> HIDE DEF res
<1>4. /\ IsLazy(failed) /\ failed.hold = "other" /\ failed.sel = l.sel /\ failed.caps = l.caps
      /\ failed.resumeOverride = l.resumeOverride /\ failed.coverOverride = l.coverOverride
      /\ failed.resume = None /\ failed.cover = None /\ failed.resumeV = None /\ failed.coverV = None
  BY DEF IsDocuments, IsLazy, LazyFields, Opened
<1>5. IsChoice(l.sel) /\ l.caps \in Capabilities
  BY DEF IsDocuments
\* Every branch of it changes some fields of the documents at hand.
<1>6. CASE IsHeld(res) \/ how \in {"guard", "resumeFile", "coverFile"}
  <2>1. PICK hold, a, b, x, y : m = [failed EXCEPT !.mat = TRUE, !.pack = PackFromPrepared(hold, a, b, x, y)]
    <3>1. CASE IsHeld(res)
      BY <1>2, <3>1 DEF Materialized
    <3>2. CASE ~IsHeld(res) /\ how = "guard"
      BY <1>2, <3>2 DEF Materialized
    <3>3. CASE ~IsHeld(res) /\ how \in {"resumeFile", "coverFile"}
      BY <1>2, <3>3 DEF Materialized
    <3> QED BY <1>6, <3>1, <3>2, <3>3
  <2> DEFINE p == PackFromPrepared(hold, a, b, x, y)
  <2>2. IsPack(p)
    BY MadePack DEF PackOf
  <2> HIDE DEF m, p, failed
  <2>3. m = [failed EXCEPT !.mat = TRUE, !.pack = p]
    BY <2>1 DEF p
  <2>4. /\ IsLazy(m) /\ m.hold = "other" /\ m.sel = l.sel /\ m.caps = l.caps /\ m.pack = p
        /\ m.resumeOverride = l.resumeOverride /\ m.coverOverride = l.coverOverride
        /\ m.resume = None /\ m.cover = None /\ m.resumeV = None /\ m.coverV = None
    BY <1>4, <2>3 DEF IsLazy, LazyFields
  <2>5. HeldBack(l, m, res)
    BY <1>5, <2>2, <2>4 DEF HeldBack, IsDocuments
  <2> QED BY <2>5 DEF m, res
<1>7. CASE ~IsHeld(res) /\ how \in {"tailor", "save"}
  <2> DEFINE k == AbsorbPartial(failed, res.resume, res.cover, None)
  <2>1. PICK hold, a, b, x, y : m = [k EXCEPT !.mat = TRUE, !.pack = PackFromPrepared(hold, a, b, x, y)]
    BY <1>2, <1>7 DEF Materialized
  <2> DEFINE p == PackFromPrepared(hold, a, b, x, y)
  <2>2. IsPack(p)
    BY MadePack DEF PackOf
  <2> HIDE DEF m, p, failed
  <2>3. /\ IsLazy(k) /\ k.hold = "other" /\ k.sel = l.sel /\ k.caps = l.caps
        /\ k.resumeOverride = l.resumeOverride /\ k.coverOverride = l.coverOverride
        /\ k.resume = None /\ k.cover = None
        /\ k.resumeV \in {None, res.resume.version} /\ k.coverV \in {None, res.cover.version}
    BY <1>4 DEF AbsorbPartial, IsLazy, LazyFields
  <2> HIDE DEF k
  <2>4. m = [k EXCEPT !.mat = TRUE, !.pack = p]
    BY <2>1 DEF p
  <2>5. /\ IsLazy(m) /\ m.hold = "other" /\ m.sel = l.sel /\ m.caps = l.caps /\ m.pack = p
        /\ m.resumeOverride = l.resumeOverride /\ m.coverOverride = l.coverOverride
        /\ m.resume = None /\ m.cover = None
        /\ m.resumeV \in {None, res.resume.version} /\ m.coverV \in {None, res.cover.version}
    BY <2>3, <2>4 DEF IsLazy, LazyFields
  <2>6. HeldBack(l, m, res)
    BY <1>5, <1>7, <2>2, <2>5 DEF HeldBack, IsDocuments
  <2> QED BY <2>6 DEF m, res
<1>8. CASE ~IsHeld(res) /\ how \notin Troubles
  <2> DEFINE p == PackFromPrepared("", r, c, r.version, c.version)
  <2>1. m = [l EXCEPT !.hold = "", !.mat = TRUE, !.resume = r.version, !.cover = c.version,
                      !.resumeV = r.version, !.coverV = c.version, !.useSite = @ \/ r.outcome = "site", !.pack = p]
    BY <1>2, <1>3, <1>8 DEF Materialized, MadeResume, Troubles
  <2> HIDE DEF m, r, c
  <2>2. PackOf(p, r, c)
    BY MadePack
  <2> HIDE DEF p
  <2>3. /\ IsLazy(m) /\ m.hold = "" /\ m.sel = l.sel /\ m.caps = l.caps /\ m.pack = p
        /\ m.resumeOverride = l.resumeOverride /\ m.coverOverride = l.coverOverride
        /\ m.resume = r.version /\ m.cover = c.version /\ m.resumeV = r.version /\ m.coverV = c.version
    BY <2>1 DEF IsDocuments, IsLazy, LazyFields
  <2>4. WentWell(l, m, r, c)
    BY <1>5, <2>2, <2>3 DEF PackOf, WentWell, IsDocuments
  <2> QED BY <1>8, <2>4 DEF m, res, r, c
<1> QED BY <1>6, <1>7, <1>8 DEF Troubles

\* What is approved holds a scanned, complete pack.
LEMMA ApprovedFields ==
    ASSUME NEW r, IsReview(r)
    PROVE  LET l == ApprovedFrom(r) IN
           /\ IsDocuments(l) /\ l.pack = r.pack
           /\ l.resumeOverride = r.resumePath /\ l.coverOverride = r.coverPath
           /\ l.resume = ChosenOr(r.pack.resume.path, r.resumePath) /\ l.cover = ChosenOr(r.pack.cover.path, r.coverPath)
           /\ l.resumeV = r.pack.resume.version /\ l.coverV = r.pack.cover.version
<1> DEFINE l == ApprovedFrom(r)
           chosen == [resume |-> ChosenOr(r.resumeV, r.pack.sel.resume), cover |-> ChosenOr(r.coverV, r.pack.sel.cover),
                      site |-> r.pack.sel.site, skip |-> r.pack.sel.skip]
           fresh == [caps |-> r.pack.caps, sel |-> chosen, frozen |-> TRUE, pack |-> r.pack, hold |-> "",
                     resumeOverride |-> r.resumePath, coverOverride |-> r.coverPath,
                     resume |-> None, cover |-> None, resumeV |-> None, coverV |-> None,
                     useSite |-> FALSE, mat |-> FALSE]
           useSite == r.pack.resume.outcome = "site"
           a == ChosenOr(r.pack.resume.path, r.resumePath)
           b == ChosenOr(r.pack.cover.path, r.coverPath)
<1>1. RowSelection(r).resume = r.resumeV /\ RowSelection(r).cover = r.coverV
  BY DEF RowSelection, NoSelection
<1>2. l = [fresh EXCEPT !.hold = r.pack.hold, !.useSite = useSite, !.resume = a, !.cover = b,
                        !.resumeV = r.pack.resume.version, !.coverV = r.pack.cover.version]
  BY <1>1 DEF ApprovedFrom, NewLazy, ChosenOr
<1>3. IsChoice(chosen) /\ IsPack(r.pack)
  BY DEF IsChoice, IsReview
<1>4. IsLazy(fresh)
  BY DEF IsLazy, LazyFields
<1>5. /\ fresh.caps = r.pack.caps /\ fresh.sel = chosen /\ fresh.pack = r.pack
      /\ fresh.resumeOverride = r.resumePath /\ fresh.coverOverride = r.coverPath
  OBVIOUS
<1> HIDE DEF l, fresh, chosen, useSite, a, b
<1>6. /\ IsLazy(l) /\ l.caps = fresh.caps /\ l.sel = fresh.sel /\ l.pack = fresh.pack
      /\ l.resumeOverride = fresh.resumeOverride /\ l.coverOverride = fresh.coverOverride
      /\ l.resume = a /\ l.cover = b
      /\ l.resumeV = r.pack.resume.version /\ l.coverV = r.pack.cover.version
  BY <1>2, <1>4 DEF IsLazy, LazyFields
<1>7. IsDocuments(l)
  BY <1>3, <1>5, <1>6 DEF IsDocuments, IsPack
<1> QED BY <1>5, <1>6, <1>7 DEF l, a, b

LEMMA ReadyIsScanned ==
    \A pack, a, b : ReadyForSubmit(pack) /\ Unscanned(pack, a, b) => pack.caps.det
BY NoRefValues DEF ReadyForSubmit, Unscanned

\* A failed approval writes a pack that was complete once,
LEMMA FailedFine ==
    ASSUME NEW q, IsReview(q), NEW l, IsDocuments(l), ReadyForSubmit(l.pack), l.pack.caps.det
    PROVE  IsReview(Failed(q, l)) /\ SoundRow(Failed(q, l)) /\ Failed(q, l).there = q.there
<1> DEFINE r == Failed(q, l)
           a == ChosenOr(Peek(l).resume, q.resumePath)
           b == ChosenOr(Peek(l).cover, q.coverPath)
           x == ChosenOr(l.resumeV, q.resumeV)
           y == ChosenOr(l.coverV, q.coverV)
<1>1. r = [q EXCEPT !.attempts = @ + 1, !.pack = l.pack, !.resumePath = a, !.coverPath = b,
                      !.resumeV = x, !.coverV = y]
  BY DEF Failed, ChosenOr
<1> HIDE DEF r, a, b, x, y
<1>2. r = [f \in ReviewFields |-> r[f]] /\ r.pack = l.pack /\ r.there = q.there
  BY <1>1 DEF IsReview, ReviewFields
<1>3. IsReview(r)
  BY <1>2 DEF IsReview, IsDocuments
<1>4. r.pack.prepared
  BY <1>2 DEF ReadyForSubmit
<1>5. SoundRow(r)
  BY <1>2, <1>4 DEF SoundRow, Unscanned
<1> QED BY <1>2, <1>3, <1>5 DEF r

\* and into the row that it was approved from, the same that was there.
LEMMA FailedSame ==
    ASSUME IsReview(row), NEW files, WholeRow(row, files), ReadyForSubmit(row.pack)
    PROVE  WholeRow(Failed(row, ApprovedFrom(row)), files)
<1> DEFINE l == ApprovedFrom(row)
           r == Failed(row, l)
           a == ChosenOr(Peek(l).resume, row.resumePath)
           b == ChosenOr(Peek(l).cover, row.coverPath)
           x == ChosenOr(l.resumeV, row.resumeV)
           y == ChosenOr(l.coverV, row.coverV)
<1>1. /\ l.pack = row.pack
      /\ l.resumeOverride = row.resumePath /\ l.coverOverride = row.coverPath
      /\ l.resume = ChosenOr(row.pack.resume.path, row.resumePath)
      /\ l.cover = ChosenOr(row.pack.cover.path, row.coverPath)
      /\ l.resumeV = row.pack.resume.version /\ l.coverV = row.pack.cover.version
  BY ApprovedFields
<1>2. r = [row EXCEPT !.attempts = @ + 1, !.pack = l.pack, !.resumePath = a, !.coverPath = b,
                      !.resumeV = x, !.coverV = y]
  BY DEF Failed, ChosenOr
<1>3. /\ row.pack.resume.path = row.resumePath /\ row.pack.cover.path = row.coverPath
      /\ row.pack.resume.version = row.resumeV /\ row.pack.cover.version = row.coverV
  BY DEF WholeRow, Whole
<1> HIDE DEF l
<1>4. Peek(l).resume = row.resumePath /\ Peek(l).cover = row.coverPath
  BY <1>1, <1>3 DEF Peek, ChosenOr
<1>5. a = row.resumePath /\ b = row.coverPath /\ x = row.resumeV /\ y = row.coverV
  BY <1>1, <1>3, <1>4 DEF ChosenOr
<1> HIDE DEF r, a, b, x, y
<1>6. /\ r.pack = row.pack /\ r.resumePath = row.resumePath /\ r.coverPath = row.coverPath
      /\ r.resumeV = row.resumeV /\ r.coverV = row.coverV
  BY <1>1, <1>2, <1>5 DEF IsReview, ReviewFields
<1>7. WholeRow(r, files)
  BY <1>6 DEF WholeRow
<1> QED BY <1>7 DEF r, l

\* An approval takes from a whole row what is whole,
LEMMA ApprovedWhole ==
    ASSUME IsReview(row), ReadyForSubmit(row.pack)
    PROVE  \A files : WholeRow(row, files) => WhollyApproved(ApprovedFrom(row), files)
<1> SUFFICES ASSUME NEW files, WholeRow(row, files)
             PROVE  WhollyApproved(ApprovedFrom(row), files)
  OBVIOUS
<1> DEFINE l == ApprovedFrom(row)
<1>1. /\ l.pack = row.pack
      /\ l.resumeOverride = row.resumePath /\ l.coverOverride = row.coverPath
      /\ l.resume = ChosenOr(row.pack.resume.path, row.resumePath)
      /\ l.cover = ChosenOr(row.pack.cover.path, row.coverPath)
      /\ l.resumeV = row.pack.resume.version /\ l.coverV = row.pack.cover.version
  BY ApprovedFields
<1>2. /\ row.pack.resume.path = row.resumePath /\ row.pack.cover.path = row.coverPath
      /\ row.pack.resume.version = row.resumeV /\ row.pack.cover.version = row.coverV
  BY DEF WholeRow, Whole
<1> HIDE DEF l
<1>3. Peek(l).resume = row.resumePath /\ Peek(l).cover = row.coverPath
  BY <1>1, <1>2 DEF Peek, ChosenOr
<1>4. WhollyApproved(l, files)
  BY <1>1, <1>2, <1>3 DEF WhollyApproved, WholeRow
<1> QED BY <1>4 DEF l

\* so that a row that is put back is whole too.
LEMMA ReinsertedWhole ==
    ASSUME NEW l, NEW files, WhollyApproved(l, files)
    PROVE  WholeRow(Failed(NewRow, l), files)
<1> DEFINE r == Failed(NewRow, l)
           a == ChosenOr(Peek(l).resume, None)
           b == ChosenOr(Peek(l).cover, None)
           x == ChosenOr(l.resumeV, None)
           y == ChosenOr(l.coverV, None)
<1>1. /\ IsReview(NewRow) /\ NewRow.resumePath = None /\ NewRow.coverPath = None
      /\ NewRow.resumeV = None /\ NewRow.coverV = None
  BY NewRowFine DEF NewRow
<1>2. r = [NewRow EXCEPT !.attempts = @ + 1, !.pack = l.pack, !.resumePath = a, !.coverPath = b,
                         !.resumeV = x, !.coverV = y]
  BY <1>1 DEF Failed, ChosenOr
<1>3. a = Peek(l).resume /\ b = Peek(l).cover /\ x = l.resumeV /\ y = l.coverV
  BY DEF ChosenOr
<1> HIDE DEF r, a, b, x, y
<1>4. /\ r.pack = l.pack /\ r.resumePath = Peek(l).resume /\ r.coverPath = Peek(l).cover
      /\ r.resumeV = l.resumeV /\ r.coverV = l.coverV
  BY <1>1, <1>2, <1>3 DEF IsReview, ReviewFields
<1>5. WholeRow(r, files)
  BY <1>4 DEF WholeRow, WhollyApproved
<1> QED BY <1>5 DEF r

\* A row that waits for the user to apply elsewhere cannot be approved.
LEMMA ExternalFine ==
    ASSUME NEW q, IsReview(q), SoundRow(q)
    PROVE  /\ IsReview(External(q)) /\ SoundRow(External(q)) /\ External(q).there = q.there
           /\ \A files : WholeRow(q, files) => WholeRow(External(q), files)
<1> DEFINE p == [q.pack EXCEPT !.hold = "other"]
           r == External(q)
<1>1. r = [q EXCEPT !.pack = p]
  BY DEF External, IsReview, ReviewFields
<1>2. IsPack(q.pack)
  BY DEF IsReview
<1>3. /\ IsPack(p) /\ p.prepared = q.pack.prepared /\ p.sel = q.pack.sel /\ p.caps = q.pack.caps
      /\ p.resume = q.pack.resume /\ p.cover = q.pack.cover /\ p.hold = "other"
  BY <1>2 DEF IsPack, PackFields
<1> HIDE DEF p, r
<1>4. /\ IsReview(r) /\ r.pack = p /\ r.there = q.there
      /\ r.resumePath = q.resumePath /\ r.coverPath = q.coverPath /\ r.resumeV = q.resumeV /\ r.coverV = q.coverV
  BY <1>1, <1>3 DEF IsReview, ReviewFields
<1>5. SoundRow(r)
  BY <1>3, <1>4 DEF SoundRow, Unscanned
<1>6. ASSUME NEW files, WholeRow(q, files)  PROVE WholeRow(r, files)
  <2>1. ~ReadyForSubmit(p)
    BY <1>3 DEF ReadyForSubmit
  <2> QED BY <1>3, <1>4, <1>6, <2>1 DEF WholeRow, Whole
<1> QED BY <1>4, <1>5, <1>6 DEF r

\* The row that a preparation writes.
LEMMA WrittenFine ==
    ASSUME IsReview(row), NEW l, IsDocuments(l), SoundlyWritten(l),
           NEW r, r = [row EXCEPT !.resumeV = l.resumeV, !.coverV = l.coverV, !.resumePath = Peek(l).resume,
                                  !.coverPath = Peek(l).cover, !.pack = PreparedPack(l)]
    PROVE  /\ IsReview(r) /\ SoundRow(r)
           /\ \A files : WhollyWritten(l, files) => WholeRow(r, files)
<1> DEFINE p == PreparedPack(l)
           a == Peek(l).resume
           b == Peek(l).cover
<1>1. IsPack(p) /\ p.sel = l.sel
  BY PreparedFields
<1> HIDE DEF p, a, b
<1>2. r = [row EXCEPT !.resumeV = l.resumeV, !.coverV = l.coverV, !.resumePath = a, !.coverPath = b, !.pack = p]
  BY DEF p, a, b
<1>3. /\ r = [f \in ReviewFields |-> r[f]] /\ r.pack = p /\ r.resumePath = a /\ r.coverPath = b
      /\ r.resumeV = l.resumeV /\ r.coverV = l.coverV
  BY <1>2 DEF IsReview, ReviewFields
<1>4. IsReview(r)
  BY <1>1, <1>3 DEF IsReview
<1>5. SoundRow(r)
  BY <1>1, <1>3 DEF SoundRow, SoundlyWritten, p, a, b
<1>6. ASSUME NEW files, WhollyWritten(l, files)  PROVE WholeRow(r, files)
  BY <1>3, <1>6 DEF WholeRow, WhollyWritten, p, a, b
<1> QED BY <1>4, <1>5, <1>6

\* What a preparation writes after it made documents from files that can be read.
LEMMA MadeWritten ==
    ASSUME NEW l, IsDocuments(l), Opened(l), l.caps.det, NEW st, WritesNoLetter(st),
           NEW fresh, NEW how, how # "cover", NEW files,
           NEW res, res = Resolve(st, Overrides(l), FALSE, l.caps),
           ~IsHeld(res) /\ how \notin Troubles =>
               /\ res.resume.outcome = "local" => MadeResume(res, fresh.resume).version \in files
               /\ res.cover.outcome = "local" => res.cover.version \in files,
           NEW m, m = Materialized(l, st, fresh, how)
    PROVE  IsDocuments(m) /\ SoundlyWritten(m) /\ (KeptPaths(l) => WhollyWritten(m, files))
<1> DEFINE r == MadeResume(res, fresh.resume)
           c == res.cover
<1>1. KeepsChoice(l.sel, res)
  BY OpenedChoice
<1>2. HeldBack(l, m, res) \/ (~IsHeld(res) /\ how \notin Troubles /\ WentWell(l, m, r, c))
  BY Making
<1>3. r.outcome = res.resume.outcome /\ (~res.resume.make => r = res.resume)
  BY <1>1, ChoiceValues DEF KeepsChoice, MadeResume, ToMake
<1> HIDE DEF r
<1>4. CASE HeldBack(l, m, res)
  BY <1>4, HeldWritten DEF HeldBack
<1>5. CASE ~IsHeld(res) /\ how \notin Troubles /\ WentWell(l, m, r, c)
  <2>1. (r.outcome = "local" => r.version \in files) /\ (c.outcome = "local" => c.version \in files)
    BY <1>3, <1>5 DEF r
  <2>2. IsDocuments(m)
    BY <1>5 DEF WentWell
  <2> HIDE DEF c
  <2>3. c = Resolve(st, Overrides(l), FALSE, l.caps).cover
    BY DEF c
  <2> QED BY <1>3, <1>5, <2>1, <2>2, <2>3, WellWritten
<1> QED BY <1>2, <1>4, <1>5

\* What the resolver returns are records.
LEMMA ResumeRecord ==
    \A st, o, frozen, caps, v, r : r = ResolveResume(st, o, frozen, caps) =>
        /\ [r EXCEPT !.version = v].outcome = r.outcome
        /\ [r EXCEPT !.version = v].version = v
BY DEF ResolveResume, Frozen, File, Held, Site, Skipped, ToMake

\* No mishap means that the files can be read.
LEMMA NoMishap ==
    ASSUME NEW st, NEW o, NEW caps, NEW res, res = Resolve(st, o, FALSE, caps), ~IsHeld(res), NEW v
    PROVE  /\ Mishap(res, v) \in {"none", "resumeFile", "coverFile"}
           /\ Mishap(res, v) = "none" =>
                /\ res.resume.outcome = "local" => v \in ReadableFiles
                /\ res.cover.outcome = "local" => res.cover.version \in ReadableFiles
<1> DEFINE r == [res.resume EXCEPT !.version = v]
<1>1. r.outcome = res.resume.outcome /\ r.version = v
  BY ResumeRecord DEF Resolve
<1> HIDE DEF r
<1>2. Mishap(res, v) = IF Unavailable(r) THEN "resumeFile" ELSE IF Unavailable(res.cover) THEN "coverFile" ELSE "none"
  BY DEF Mishap, r
<1>3. \A d : d.outcome = "local" /\ ~Unavailable(d) => d.version \in ReadableFiles
  BY DEF Unavailable, ReadableFiles, Readable, Alive
<1> QED BY <1>1, <1>2, <1>3

LEMMA WriteSet ==
    ASSUME WorkPart, ReadableFiles \subseteq ReadableFiles', UNCHANGED merged, NEW s \in Slots,
           NEW l, IsDocuments(l), SoundlyWritten(l), ~merged => WhollyWritten(l, ReadableFiles'), ToWrite(s, l)
    PROVE  WorkPart'
<1> DEFINE w == [pc |-> "write", lz |-> l]
<1>1. w.pc = "write" /\ w.lz = l
  OBVIOUS
<1> HIDE DEF w
<1>2. SoundWork(w)
  BY <1>1 DEF SoundWork
<1>3. ~merged => WholeWork(w, ReadableFiles')
  BY <1>1 DEF WholeWork
<1>4. Works(s, w)
  BY DEF ToWrite, w
<1> QED BY <1>2, <1>3, <1>4, WorkSet

LEMMA PolicyWritesNoLetter == ScenePart => WritesNoLetter(Policy)
BY ReviewAssumption DEF ScenePart, WritesNoLetter, Policy

LEMMA ScanKeeps ==
    ASSUME ReviewInv, ReadableFiles = ReadableFiles', NEW s \in Slots, Scan(s)
    PROVE  WorkPart'
<1> DEFINE l == ApplyCaps(work[s].lz, form)
           res == Resolve(Policy, Overrides(l), FALSE, l.caps)
           made(how) == Materialized(l, Policy, NoSelection, how)
<1>1. work[s].pc = "scan" /\ UNCHANGED merged /\ WorkPart /\ ScenePart
  BY DEF Scan, ReviewInv
<1>2. IsDocuments(work[s].lz) /\ Opened(work[s].lz) /\ (~merged => KeptPaths(work[s].lz))
  BY <1>1 DEF WorkPart, SoundWork, WholeWork
<1>3. IsDocuments(l) /\ Opened(l) /\ (~merged => KeptPaths(l))
  BY <1>1, <1>2, OpenedScanned, ReviewAssumption DEF ScenePart
<1>4. WritesNoLetter(Policy)
  BY <1>1, PolicyWritesNoLetter
<1>5. KeepsChoice(l.sel, res)
  BY <1>3, <1>4, OpenedChoice
<1>6. MayMaterialize(l) <=> l.caps.det
  BY <1>3 DEF MayMaterialize, Opened
<1>7. \/ ~MayMaterialize(l) /\ ToWrite(s, l)
      \/ /\ MayMaterialize(l) /\ ~IsHeld(res) /\ res.resume.make
         /\ \/ Works(s, [pc |-> "save", lz |-> l, st |-> Policy])
            \/ \E how \in {"guard", "tailor", "save"} : ToWrite(s, made(how))
      \/ /\ MayMaterialize(l) /\ ~(~IsHeld(res) /\ res.resume.make)
         /\ \/ ToWrite(s, made(Mishap(res, res.resume.version)))
            \/ ~IsHeld(res) /\ \E how \in MishapsOf(res) \ {"none"} : ToWrite(s, made(how))
  BY DEF Scan
<1> HIDE DEF l, res
<1>8. res = Resolve(Policy, Overrides(l), FALSE, l.caps)
  BY DEF res
<1>9. CASE ~MayMaterialize(l) /\ ToWrite(s, l)
  BY <1>1, <1>3, <1>6, <1>9, UnscannedWritten, WriteSet
<1>10. CASE MayMaterialize(l) /\ ~IsHeld(res) /\ res.resume.make /\ Works(s, [pc |-> "save", lz |-> l, st |-> Policy])
  <2> DEFINE w == [pc |-> "save", lz |-> l, st |-> Policy]
  <2>1. w.pc = "save" /\ w.lz = l /\ w.st = Policy /\ Works(s, w)
    BY <1>10
  <2> HIDE DEF w
  <2>2. TailorsFor(Policy, l)
    BY <1>4, <1>6, <1>8, <1>10 DEF TailorsFor
  <2>3. SoundWork(w) /\ (~merged => WholeWork(w, ReadableFiles'))
    BY <1>3, <2>1, <2>2 DEF SoundWork, WholeWork
  <2> QED BY <1>1, <2>1, <2>3, WorkSet
<1>11. ASSUME MayMaterialize(l), NEW how, how # "cover", ToWrite(s, made(how)),
              ~IsHeld(res) /\ how \notin Troubles =>
                /\ res.resume.outcome = "local" => MadeResume(res, NoSelection.resume).version \in ReadableFiles
                /\ res.cover.outcome = "local" => res.cover.version \in ReadableFiles
       PROVE  WorkPart'
  <2>1. IsDocuments(made(how)) /\ SoundlyWritten(made(how)) /\ (KeptPaths(l) => WhollyWritten(made(how), ReadableFiles))
    BY <1>3, <1>4, <1>6, <1>8, <1>11, MadeWritten
  <2> DEFINE m == made(how)
  <2> HIDE DEF m
  <2>2. IsDocuments(m) /\ SoundlyWritten(m) /\ (~merged => WhollyWritten(m, ReadableFiles')) /\ ToWrite(s, m)
    BY <1>3, <1>11, <2>1 DEF m
  <2> QED BY <1>1, <2>2, WriteSet
<1>12. CASE MayMaterialize(l) /\ \E how \in {"guard", "tailor", "save"} : ToWrite(s, made(how))
  BY <1>11, <1>12 DEF Troubles
<1>13. CASE MayMaterialize(l) /\ ~IsHeld(res) /\ \E how \in MishapsOf(res) \ {"none"} : ToWrite(s, made(how))
  <2>1. PICK how \in MishapsOf(res) \ {"none"} : ToWrite(s, made(how))
    BY <1>13
  <2>2. how \in Troubles
    BY <1>5 DEF MishapsOf, Troubles, KeepsChoice
  <2>3. how # "cover"
    BY <2>2 DEF Troubles
  <2> QED BY <1>11, <1>13, <2>1, <2>2, <2>3
<1>14. CASE /\ MayMaterialize(l) /\ ~(~IsHeld(res) /\ res.resume.make)
            /\ ToWrite(s, made(Mishap(res, res.resume.version)))
  <2> DEFINE how == Mishap(res, res.resume.version)
  <2>1. CASE IsHeld(res)
    <3>1. how = "none"
      BY <2>1 DEF Mishap
    <3> QED BY <1>11, <1>14, <2>1, <3>1
  <2>2. CASE ~IsHeld(res)
    <3>1. /\ how \in {"none", "resumeFile", "coverFile"}
          /\ how = "none" =>
                /\ res.resume.outcome = "local" => res.resume.version \in ReadableFiles
                /\ res.cover.outcome = "local" => res.cover.version \in ReadableFiles
      BY <1>8, <2>2, NoMishap
    <3>2. MadeResume(res, NoSelection.resume) = res.resume
      BY <1>14, <2>2 DEF MadeResume
    <3> HIDE DEF how
    <3>3. ToWrite(s, made(how))
      BY <1>14 DEF how
    <3>4. how # "cover" /\ (how \notin Troubles => how = "none")
      BY <3>1 DEF Troubles
    <3> QED BY <1>11, <1>14, <3>1, <3>2, <3>3, <3>4
  <2> QED BY <2>1, <2>2
<1> QED BY <1>7, <1>9, <1>10, <1>12, <1>13, <1>14

LEMMA TailoredKeeps ==
    ASSUME ReviewInv, ReadableFiles = ReadableFiles', NEW s \in Slots, Tailored(s)
    PROVE  WorkPart'
<1> DEFINE l == work[s].lz
           st == work[s].st
           v == task[s].version
           fresh == [NoSelection EXCEPT !.resume = v]
           res == Resolve(st, Overrides(l), FALSE, l.caps)
           how == IF task[s].pc = "failed" THEN "save" ELSE Mishap(res, v)
           made(h) == Materialized(l, st, fresh, h)
<1>1. work[s].pc = "save" /\ UNCHANGED merged /\ WorkPart /\ ScenePart
  BY DEF Tailored, ReviewInv
<1>2. /\ IsDocuments(l) /\ Opened(l) /\ (~merged => KeptPaths(l))
      /\ TailorsFor(st, l)
  BY <1>1 DEF WorkPart, SoundWork, WholeWork
<1>3. l.caps.det /\ ~IsHeld(res) /\ res.resume.make /\ WritesNoLetter(st)
  BY <1>2 DEF TailorsFor
<1>4. KeepsChoice(l.sel, res)
  BY <1>2, <1>3, OpenedChoice
<1>5. ToWrite(s, made(how)) \/ ToWrite(s, made("resumeFile"))
  BY DEF Tailored
<1>6. fresh.resume = v
  BY DEF NoSelection
<1> HIDE DEF l, st, res, fresh
<1>7. res = Resolve(st, Overrides(l), FALSE, l.caps)
  BY DEF res, l, st
<1>8. MadeResume(res, fresh.resume).version = v
  <2>1. MadeResume(res, fresh.resume) = [res.resume EXCEPT !.version = v]
    BY <1>3, <1>6 DEF MadeResume
  <2>2. res.resume = ResolveResume(st, Overrides(l), FALSE, l.caps)
    BY <1>7 DEF Resolve
  <2> HIDE DEF v
  <2>3. [res.resume EXCEPT !.version = v].version = v
    BY <2>2, ResumeRecord
  <2> QED BY <2>1, <2>3 DEF v
<1>9. /\ Mishap(res, v) \in {"none", "resumeFile", "coverFile"}
      /\ Mishap(res, v) = "none" =>
            /\ res.resume.outcome = "local" => v \in ReadableFiles
            /\ res.cover.outcome = "local" => res.cover.version \in ReadableFiles
  <2> HIDE DEF v
  <2> QED BY <1>3, <1>7, NoMishap
<1>10. /\ how \in {"none", "save", "resumeFile", "coverFile"}
       /\ how = "none" =>
            /\ res.resume.outcome = "local" => v \in ReadableFiles
            /\ res.cover.outcome = "local" => res.cover.version \in ReadableFiles
  BY <1>9
<1>11. ASSUME NEW h \in {how, "resumeFile"}, ToWrite(s, made(h))  PROVE WorkPart'
  <2> HIDE DEF how
  <2>1. h # "cover" /\ (h \notin Troubles => h = "none" /\ h = how)
    BY <1>10, <1>11 DEF Troubles
  <2> DEFINE m == made(h)
  <2>2. ~IsHeld(res) /\ h \notin Troubles =>
            /\ res.resume.outcome = "local" => MadeResume(res, fresh.resume).version \in ReadableFiles
            /\ res.cover.outcome = "local" => res.cover.version \in ReadableFiles
    BY <1>8, <1>10, <2>1
  <2>3. IsDocuments(m) /\ SoundlyWritten(m) /\ (KeptPaths(l) => WhollyWritten(m, ReadableFiles))
    BY <1>2, <1>3, <1>7, <2>1, <2>2, MadeWritten DEF l
  <2> HIDE DEF m
  <2>4. ToWrite(s, m) /\ (~merged => WhollyWritten(m, ReadableFiles'))
    BY <1>2, <1>11, <2>3 DEF m, l
  <2> QED BY <1>1, <2>3, <2>4, WriteSet
<1> QED BY <1>5, <1>11

LEMMA ReviewInvInit == ReviewInit => ReviewInv
<1> SUFFICES ASSUME ReviewInit PROVE ReviewInv
  OBVIOUS
<1>1. ScenePart
  BY DEF ReviewInit, ScenePart
<1>2. RowPart
  BY NewRowFine DEF ReviewInit, RowPart
<1>3. SoundWork(NoWork) /\ \A files : WholeWork(NoWork, files)
  BY DEF SoundWork, WholeWork, NoWork
<1>4. WorkPart
  BY <1>3 DEF ReviewInit, WorkPart
<1> QED BY <1>1, <1>2, <1>4 DEF ReviewInv

\* The row becomes r.
LEMMA RowBecomes ==
    ASSUME NEW r, row' = r, IsReview(r), r.there => SoundRow(r) /\ (~merged' => WholeRow(r, ReadableFiles'))
    PROVE  RowPart'
BY DEF RowPart

LEMMA ReviewKept ==
    ASSUME ReviewInv, LibraryInv, [ReviewNext]_reviewVars
    PROVE  ReviewInv'
<1>1. ScenePart /\ RowPart /\ WorkPart
  BY DEF ReviewInv
<1>2. ReadableFiles \subseteq ReadableFiles'
  BY LibraryKept, FilesStay
<1>3. IsReview(Gone) /\ ~Gone.there
  BY NewRowFine
<1>4. ASSUME row' = Gone  PROVE RowPart'
  BY <1>3, <1>4, RowBecomes
<1>5. ASSUME UNCHANGED <<row, merged>>  PROVE RowPart'
  BY <1>1, <1>2, <1>5, RowSame
<1>6. ASSUME UNCHANGED <<work, merged>>  PROVE WorkPart'
  BY <1>1, <1>2, <1>6, WorkSame
<1>7. ASSUME UNCHANGED <<setting, form, merged>>  PROVE ScenePart'
  BY <1>1, <1>7 DEF ScenePart
<1>8. CASE LibraryRequest
  BY <1>5, <1>6, <1>7, <1>8 DEF LibraryRequest, review, ReviewInv
<1>9. CASE Put
  <2>1. PICK sel \in Selections : row' = Selected(sel)
    BY <1>9 DEF Put
  <2> DEFINE r == Selected(sel)
  <2>2. IsReview(r) /\ SoundRow(r) /\ \A files : WholeRow(r, files)
    BY <1>1, SelectedFine DEF RowPart
  <2> HIDE DEF r
  <2>3. RowPart'
    BY <2>1, <2>2, RowBecomes DEF r
  <2> QED BY <1>6, <1>7, <1>9, <2>3 DEF Put, ReviewInv
<1>10. CASE Reject
  BY <1>4, <1>6, <1>7, <1>10 DEF Reject, ReviewInv
<1>11. CASE Crash
  <2>1. SoundWork(NoWork) /\ \A files : WholeWork(NoWork, files)
    BY DEF SoundWork, WholeWork, NoWork
  <2>2. WorkPart'
    BY <1>11, <2>1 DEF Crash, WorkPart
  <2> QED BY <1>5, <1>7, <1>11, <2>2 DEF Crash, ReviewInv
<1>12. ASSUME NEW s \in Slots, Prepare(s)  PROVE ReviewInv'
  <2> DEFINE l == PreparesFrom(row)
             w == [pc |-> "scan", lz |-> l]
  <2>1. IsDocuments(l) /\ Opened(l) /\ (~merged => KeptPaths(l))
    BY <1>1, <1>12, OpenedFrom DEF RowPart, Prepare
  <2>2. w.pc = "scan" /\ w.lz = l /\ Works(s, w) /\ UNCHANGED merged
    BY <1>12 DEF Prepare
  <2> HIDE DEF w, l
  <2>3. SoundWork(w) /\ (~merged => WholeWork(w, ReadableFiles'))
    BY <2>1, <2>2 DEF SoundWork, WholeWork
  <2>4. WorkPart'
    BY <1>1, <1>2, <2>2, <2>3, WorkSet
  <2> QED BY <1>5, <1>7, <1>12, <2>4 DEF Prepare, ReviewInv
<1>13. ASSUME NEW s \in Slots, Scan(s)  PROVE ReviewInv'
  <2>1. ReadableFiles = ReadableFiles'
    BY <1>13 DEF Scan, ReadableFiles, Readable, Alive, VersionIds, Version, Stored, Reproducible
  <2>2. WorkPart'
    BY <1>13, <2>1, ScanKeeps
  <2> QED BY <1>5, <1>7, <1>13, <2>2 DEF Scan, ReviewInv
<1>14. ASSUME NEW s \in Slots, Tailored(s)  PROVE ReviewInv'
  <2>1. ReadableFiles = ReadableFiles'
    BY <1>14 DEF Tailored, ReadableFiles, Readable, Alive, VersionIds, Version, Stored, Reproducible
  <2>2. WorkPart'
    BY <1>14, <2>1, TailoredKeeps
  <2> QED BY <1>5, <1>7, <1>14, <2>2 DEF Tailored, ReviewInv
<1>15. ASSUME NEW s \in Slots, PrepareWrite(s)  PROVE ReviewInv'
  <2> DEFINE l == work[s].lz
             r == [row EXCEPT !.resumeV = l.resumeV, !.coverV = l.coverV, !.resumePath = Peek(l).resume,
                              !.coverPath = Peek(l).cover, !.pack = PreparedPack(l)]
  <2>1. work[s].pc = "write" /\ Works(s, NoWork) /\ UNCHANGED merged
    BY <1>15 DEF PrepareWrite
  <2>2. IsDocuments(l) /\ SoundlyWritten(l) /\ (~merged => WhollyWritten(l, ReadableFiles))
    BY <1>1, <2>1 DEF WorkPart, SoundWork, WholeWork
  <2>3. row' = Gone \/ row' = r
    BY <1>15 DEF PrepareWrite
  <2>4. IsReview(r) /\ SoundRow(r) /\ (~merged => WholeRow(r, ReadableFiles))
    BY <1>1, <2>2, WrittenFine DEF RowPart
  <2> HIDE DEF r
  <2>5. ~merged => WholeRow(r, ReadableFiles')
    BY <1>2, <2>4, WholeStays DEF WholeRow
  <2>6. RowPart'
    BY <1>4, <2>1, <2>3, <2>4, <2>5, RowBecomes
  <2>7. WorkPart'
    BY <1>1, <1>2, <2>1, WorkEnds
  <2> QED BY <1>7, <1>15, <2>6, <2>7 DEF PrepareWrite, ReviewInv
<1>16. ASSUME NEW s \in Slots, GivesUp(s)  PROVE ReviewInv'
  <2>1. WorkPart'
    BY <1>1, <1>2, <1>16, WorkEnds DEF GivesUp
  <2> QED BY <1>5, <1>7, <1>16, <2>1 DEF GivesUp, ReviewInv
<1>17. ASSUME NEW s \in Slots, Approve(s)  PROVE ReviewInv'
  <2> DEFINE l == ApprovedFrom(row)
             w == [pc |-> "guard", lz |-> l]
  <2>1. row.there /\ ReadyForSubmit(row.pack) /\ Works(s, w) /\ UNCHANGED merged
    BY <1>17 DEF Approve
  <2>2. IsReview(row) /\ SoundRow(row)
    BY <1>1, <2>1 DEF RowPart
  <2>3. IsDocuments(l) /\ l.pack = row.pack
    BY <2>2, ApprovedFields
  <2>4. l.pack.caps.det /\ ReadyForSubmit(l.pack)
    BY <2>1, <2>2, <2>3, ReadyIsScanned DEF SoundRow
  <2>8. ~merged' => WhollyApproved(l, ReadableFiles')
    BY <1>1, <1>2, <2>1, <2>2, ApprovedWhole, WholeStays DEF RowPart, WhollyApproved
  <2> HIDE DEF l
  <2>5. w.pc = "guard" /\ w.lz = l /\ w = [pc |-> "guard", lz |-> w.lz]
    OBVIOUS
  <2> HIDE DEF w
  <2>6. SoundWork(w) /\ (~merged' => WholeWork(w, ReadableFiles'))
    BY <2>3, <2>4, <2>5, <2>8 DEF SoundWork, WholeWork
  <2>7. WorkPart'
    BY <1>1, <1>2, <2>1, <2>6, WorkSet DEF w, l
  <2> QED BY <1>5, <1>7, <1>17, <2>7 DEF Approve, ReviewInv
<1>18. ASSUME NEW s \in Slots, Guard(s)  PROVE ReviewInv'
  <2>1. work[s].pc = "guard" /\ UNCHANGED merged
        /\ (Works(s, NoWork) \/ Works(s, [work[s] EXCEPT !.pc = "submit"])) /\ row' \in {Gone, row}
    BY <1>18 DEF Guard
  <2> DEFINE w == [work[s] EXCEPT !.pc = "submit"]
             l == work[s].lz
  <2>2. SoundWork(work[s])
    BY <1>1 DEF WorkPart
  <2>3. work[s] = [pc |-> "guard", lz |-> l] /\ IsDocuments(l) /\ ReadyForSubmit(l.pack) /\ l.pack.caps.det
    BY <2>1, <2>2 DEF SoundWork
  <2>4. w.pc = "submit" /\ w.lz = l
    BY <2>3
  <2>7. ~merged' => WhollyApproved(l, ReadableFiles')
    BY <1>1, <1>2, <2>1, WorkStays DEF WorkPart, WholeWork
  <2> HIDE DEF w, l
  <2>5. SoundWork(w) /\ (~merged' => WholeWork(w, ReadableFiles'))
    BY <2>3, <2>4, <2>7 DEF SoundWork, WholeWork
  <2>6. WorkPart'
    BY <1>1, <1>2, <2>1, <2>5, WorkSet, WorkEnds DEF w
  <2> QED BY <1>4, <1>5, <1>7, <1>18, <2>1, <2>6 DEF Guard, ReviewInv
<1>19. ASSUME NEW s \in Slots, Submitted(s)  PROVE ReviewInv'
  <2> DEFINE l == work[s].lz
             mixes == row.there /\ ApprovedFrom(row) # l
  <2>1. /\ work[s].pc = "submit" /\ Works(s, NoWork) /\ UNCHANGED <<setting, form>>
        /\ \/ row' = Gone /\ UNCHANGED merged
           \/ row' = (IF ~row.there THEN Gone ELSE Failed(row, l)) /\ merged' = (merged \/ mixes)
           \/ row' = Failed(Reinserted, l) /\ merged' = (merged \/ mixes)
           \/ row' = External(Reinserted) /\ UNCHANGED merged
           \/ row' = row /\ UNCHANGED merged
    BY <1>19 DEF Submitted
  <2>2. IsDocuments(l) /\ ReadyForSubmit(l.pack) /\ l.pack.caps.det
    BY <1>1, <2>1 DEF WorkPart, SoundWork
  <2>3. (merged => merged') /\ merged' \in BOOLEAN
    <3> HIDE DEF mixes, l
    <3>1. CASE UNCHANGED merged
      BY <1>1, <3>1 DEF ScenePart
    <3>2. CASE merged' = (merged \/ mixes)
      BY <3>2, Zenon
    <3> QED BY <2>1, <3>1, <3>2
  <2>4. WorkPart'
    BY <1>1, <1>2, <2>1, <2>3, WorkEnds
  <2>5. ScenePart'
    BY <1>1, <2>1, <2>3 DEF ScenePart
  <2>6. ASSUME row.there, row' = Failed(row, l), merged' = (merged \/ mixes)  PROVE RowPart'
    <3>1. IsReview(Failed(row, l)) /\ SoundRow(Failed(row, l))
      BY <1>1, <2>2, FailedFine DEF RowPart
    <3>2. ASSUME ~merged'  PROVE WholeRow(Failed(row, l), ReadableFiles')
      <4>1. ~merged /\ ApprovedFrom(row) = l
        BY <2>6, <3>2
      <4>2. IsReview(row) /\ WholeRow(row, ReadableFiles) /\ row.pack = l.pack
        BY <1>1, <2>6, <4>1, ApprovedFields DEF RowPart
      <4>3. WholeRow(Failed(row, ApprovedFrom(row)), ReadableFiles)
        BY <2>2, <4>2, FailedSame
      <4> QED BY <1>2, <4>1, <4>3, WholeStays DEF WholeRow
    <3> DEFINE r == Failed(row, l)
    <3> HIDE DEF r
    <3>3. row' = r /\ IsReview(r) /\ SoundRow(r) /\ (~merged' => WholeRow(r, ReadableFiles'))
      BY <2>6, <3>1, <3>2 DEF r
    <3> QED BY <3>3, RowBecomes
  <2>8. ASSUME ~row.there, row' = Failed(NewRow, l), merged' = (merged \/ mixes)  PROVE RowPart'
    <3>1. IsReview(Failed(NewRow, l)) /\ SoundRow(Failed(NewRow, l))
      BY <2>2, NewRowFine, FailedFine
    <3>2. ASSUME ~merged'  PROVE WholeRow(Failed(NewRow, l), ReadableFiles')
      <4>1. ~merged
        BY <2>3, <3>2
      <4>2. WhollyApproved(l, ReadableFiles')
        BY <1>1, <1>2, <2>1, <4>1, WorkStays DEF WorkPart, WholeWork
      <4> QED BY <4>2, ReinsertedWhole
    <3> DEFINE r == Failed(NewRow, l)
    <3> HIDE DEF r
    <3>3. row' = r /\ IsReview(r) /\ SoundRow(r) /\ (~merged' => WholeRow(r, ReadableFiles'))
      BY <2>8, <3>1, <3>2 DEF r
    <3> QED BY <3>3, RowBecomes
  <2>9. ASSUME row' = External(Reinserted), UNCHANGED merged  PROVE RowPart'
    <3> DEFINE q == Reinserted
               r == External(q)
    <3>1. IsReview(q) /\ SoundRow(q) /\ (~merged => WholeRow(q, ReadableFiles'))
      BY <1>1, <1>2, NewRowFine, WholeStays DEF RowPart, Reinserted, WholeRow
    <3> HIDE DEF q
    <3>2. IsReview(r) /\ SoundRow(r) /\ (~merged => WholeRow(r, ReadableFiles'))
      BY <3>1, ExternalFine
    <3> HIDE DEF r
    <3>3. row' = r
      BY <2>9 DEF r, q
    <3> QED BY <2>9, <3>2, <3>3, RowBecomes
  <2>7. RowPart'
    BY <1>4, <1>5, <2>1, <2>6, <2>8, <2>9 DEF Reinserted
  <2> QED BY <2>4, <2>5, <2>7 DEF ReviewInv
<1>20. CASE UNCHANGED reviewVars
  BY <1>5, <1>6, <1>7, <1>20 DEF reviewVars, ReviewInv
<1> QED BY <1>8, <1>9, <1>10, <1>11, <1>12, <1>13, <1>14, <1>15, <1>16, <1>17, <1>18, <1>19, <1>20 DEF ReviewNext

LEMMA ReviewHolds == ReviewSpec => [](LibraryInv /\ ReviewInv)
<1>1. LibraryInv /\ ReviewInv /\ [ReviewNext]_reviewVars => (LibraryInv /\ ReviewInv)'
  BY LibraryKept, ReviewKept
<1> QED BY <1>1, LibraryInit, ReviewInvInit, PTL DEF ReviewSpec

\* What can be approved is complete and consistent, in every mix of selections, preparations,
\* approvals and changes of the library, unless a failed approval wrote into a row that had
\* changed meanwhile (PrepareReviewDocuments, ReviewPutDocuments, runSubmit).
THEOREM ApprovedIsComplete == ReviewSpec => []ReadyIsComplete
<1>1. ReviewInv => ReadyIsComplete
  BY DEF ReviewInv, RowPart, WholeRow, Whole, CompletePack, ReadableFiles, ReadyIsComplete
<1> QED BY <1>1, ReviewHolds, PTL

\* What the page says before a preparation is what the preparation resolves to, whatever
\* mix of columns, selections and packs the row went through (SelectionFromPack, newManagerLazy).
THEOREM PreparesWhatWasShown == ReviewSpec => []PreviewIsHonest
<1>1. ASSUME ReviewInv, row.there, ~row.pack.prepared
      PROVE  \A st, caps : Resolve(st, Overrides(PreparesFrom(row)), FALSE, caps)
                             = Resolve(st, SelectionFromPack(row), FALSE, caps)
  <2> DEFINE o == Overrides(PreparesFrom(row))
             sel == SelectionFromPack(row)
             chosen == row.pack.sel
  <2>1. IsReview(row) /\ SoundRow(row) /\ IsChoice(chosen)
    BY <1>1 DEF ReviewInv, RowPart, IsReview, IsPack
  <2>2. UsedAgrees(chosen, row.resumeV, row.coverV)
    BY <1>1, <2>1 DEF SoundRow
  <2>3. /\ sel.resume = ChosenOr(chosen.resume, row.resumeV) /\ sel.cover = ChosenOr(chosen.cover, row.coverV)
        /\ sel.site = chosen.site /\ sel.skip = chosen.skip
    BY <2>1 DEF SelectionFromPack, ChosenOr, IsChoice
  <2>4. /\ o.resume = ChosenOr(row.resumeV, chosen.resume) /\ o.cover = ChosenOr(row.coverV, chosen.cover)
        /\ o.site = chosen.site /\ o.skip = chosen.skip
    <3> DEFINE l == PreparesFrom(row)
               c == [resume |-> ChosenOr(row.resumeV, chosen.resume), cover |-> ChosenOr(row.coverV, chosen.cover),
                     site |-> chosen.site, skip |-> chosen.skip]
    <3>1. RowSelection(row).resume = row.resumeV /\ RowSelection(row).cover = row.coverV
      BY DEF RowSelection, NoSelection
    <3>2. l.sel = c /\ l.resumeV = None /\ l.coverV = None
      BY <3>1 DEF PreparesFrom, NewLazy, ChosenOr
    <3> HIDE DEF l
    <3>3. o.resume = c.resume /\ o.cover = c.cover /\ o.site = c.site /\ o.skip = c.skip
      BY <3>2 DEF Overrides, l
    <3> QED BY <3>3
  <2> HIDE DEF o, sel, chosen
  <2>5. o.site = sel.site /\ o.skip = sel.skip /\ (~o.site => o.resume = sel.resume) /\ (~o.skip => o.cover = sel.cover)
    BY <2>2, <2>3, <2>4 DEF UsedAgrees, ChosenOr
  <2>6. ASSUME NEW st, NEW caps  PROVE Resolve(st, o, FALSE, caps) = Resolve(st, sel, FALSE, caps)
    <3>1. ResolveResume(st, o, FALSE, caps) = ResolveResume(st, sel, FALSE, caps)
      BY <2>5 DEF ResolveResume
    <3>2. ResolveCover(st, o, FALSE, caps) = ResolveCover(st, sel, FALSE, caps)
      BY <2>5 DEF ResolveCover
    <3> QED BY <3>1, <3>2 DEF Resolve
  <2> QED BY <2>6 DEF o, sel
<1>2. ReviewInv => PreviewIsHonest
  BY <1>1 DEF PreviewIsHonest, Preview
<1> QED BY <1>2, ReviewHolds, PTL

-----------------------------------------------------------------------------
(* A form that behaves goes out. *)

\* Two findings that ask for the same: the site's own résumé apart.
SameAsk(c, d) == c.det = d.det /\ c.slots = d.slots /\ c.req = d.req /\ c.opt = d.opt
\* Of the site's own résumé at most as much is unclear, and at least as much known.
NoWorse(c, d) == (c.amb => d.amb) /\ (d.site => c.site)

\* Fields that answers leave on the page say the same of it as all of them.
LEMMA SameFiles ==
    \A all, rest : rest \cap FileFields = all \cap FileFields /\ rest # {} /\ all # {} =>
        CapsOf(rest) = CapsOf(all)
<1> SUFFICES ASSUME NEW all, NEW rest, rest \cap FileFields = all \cap FileFields, rest # {}, all # {}
    PROVE  CapsOf(rest) = CapsOf(all)
  OBVIOUS
<1>1. rest \cap {"resume", "unnamed"} = all \cap {"resume", "unnamed"}
  BY DEF FileFields
<1>2. ("cover" \in rest <=> "cover" \in all) /\ ("coverOptional" \in rest <=> "coverOptional" \in all)
  BY DEF FileFields
<1> DEFINE n == Cardinality(rest \cap {"resume", "unnamed"})
<1>3. n = Cardinality(all \cap {"resume", "unnamed"})
  BY <1>1
<1> HIDE DEF n
<1>4. (rest # {}) = (all # {}) /\ ("cover" \in rest) = ("cover" \in all)
  BY <1>2
<1>5. ("coverOptional" \in rest \/ (n >= 2 /\ "cover" \notin rest))
      = ("coverOptional" \in all \/ (n >= 2 /\ "cover" \notin all))
  BY <1>2
<1> QED BY <1>3, <1>4, <1>5, Zenon DEF CapsOf, n

\* What merging comes to, part by part.
LEMMA MergeParts ==
    \A c \in Capabilities, d \in Capabilities :
        /\ MergeCaps(c, d) \in Capabilities
        /\ ~d.det => MergeCaps(c, d) = c
        /\ d.det => /\ MergeCaps(c, d).det
                    /\ MergeCaps(c, d).slots = IF d.slots > c.slots THEN d.slots ELSE c.slots
                    /\ MergeCaps(c, d).req = (c.req \/ d.req)
                    /\ MergeCaps(c, d).opt = (c.opt \/ d.opt)
                    /\ MergeCaps(c, d).site = (c.site \/ d.site)
                    /\ MergeCaps(c, d).amb = (c.amb \/ d.amb)
BY DEF MergeCaps, Capabilities

\* What was merged already changes nothing more.
LEMMA MergeAbsorbs ==
    \A c \in Capabilities, d \in Capabilities :
        SameAsk(MergeCaps(MergeCaps(c, d), d), MergeCaps(c, d))
<1> SUFFICES ASSUME NEW c \in Capabilities, NEW d \in Capabilities
    PROVE SameAsk(MergeCaps(MergeCaps(c, d), d), MergeCaps(c, d))
  OBVIOUS
<1> DEFINE m == MergeCaps(c, d)
<1>1. m \in Capabilities
  BY MergeParts
<1>2. c.slots \in Nat /\ d.slots \in Nat
  BY DEF Capabilities
<1>3. CASE ~d.det
  BY <1>1, <1>3, MergeParts DEF SameAsk
<1>4. CASE d.det
  <2>1. m.det /\ m.slots = (IF d.slots > c.slots THEN d.slots ELSE c.slots)
        /\ m.req = (c.req \/ d.req) /\ m.opt = (c.opt \/ d.opt)
    BY <1>4, MergeParts
  <2> HIDE DEF m
  <2> DEFINE n == MergeCaps(m, d)
  <2>2. n.det /\ n.slots = (IF d.slots > m.slots THEN d.slots ELSE m.slots)
        /\ n.req = (m.req \/ d.req) /\ n.opt = (m.opt \/ d.opt) /\ n \in Capabilities
    BY <1>1, <1>4, MergeParts
  <2> HIDE DEF n
  <2>3. n.slots = m.slots
    BY <1>2, <2>1, <2>2
  <2>4. m.req \in BOOLEAN /\ m.opt \in BOOLEAN /\ n.det = TRUE /\ m.det = TRUE
    BY <1>1, <2>1, <2>2 DEF Capabilities
  <2>5. SameAsk(n, m)
    BY <2>1, <2>2, <2>3, <2>4 DEF SameAsk
  <2> QED BY <2>5 DEF n, m
<1> QED BY <1>3, <1>4

\* Merging the same into findings that ask for the same.
LEMMA MergeAlike ==
    \A c \in Capabilities, e \in Capabilities, d \in Capabilities :
        SameAsk(c, e) => SameAsk(MergeCaps(c, d), MergeCaps(e, d))
<1> SUFFICES ASSUME NEW c \in Capabilities, NEW e \in Capabilities, NEW d \in Capabilities, SameAsk(c, e)
    PROVE SameAsk(MergeCaps(c, d), MergeCaps(e, d))
  OBVIOUS
<1>1. CASE ~d.det
  BY <1>1, MergeParts DEF SameAsk
<1>2. CASE d.det
  <2> DEFINE m == MergeCaps(c, d)
             n == MergeCaps(e, d)
  <2>1. /\ m.det /\ m.slots = (IF d.slots > c.slots THEN d.slots ELSE c.slots)
        /\ m.req = (c.req \/ d.req) /\ m.opt = (c.opt \/ d.opt) /\ m \in Capabilities
    BY <1>2, MergeParts
  <2>2. /\ n.det /\ n.slots = (IF d.slots > e.slots THEN d.slots ELSE e.slots)
        /\ n.req = (e.req \/ d.req) /\ n.opt = (e.opt \/ d.opt) /\ n \in Capabilities
    BY <1>2, MergeParts
  <2> HIDE DEF m, n
  <2>3. m.det = TRUE /\ n.det = TRUE
    BY <2>1, <2>2 DEF Capabilities
  <2>4. SameAsk(m, n)
    BY <2>1, <2>2, <2>3 DEF SameAsk
  <2> QED BY <2>4 DEF m, n
<1> QED BY <1>1, <1>2

-----------------------------------------------------------------------------
\* A résumé file is chosen, whatever the form asks for; else only the site's own will do.
HasChoice(st, sel) ==
    /\ ~sel.site
    /\ \/ sel.resume # None
       \/ st.resumeMode = "tailor" /\ st.profile
       \/ st.resumeMode = "default" /\ st.resume # None

\* What a resolution that holds nothing back comes to.
LEMMA NotHeldBack ==
    \A st, sel, fr, t :
        ~fr /\ ~IsHeld(Resolve(st, sel, fr, t)) =>
            /\ HasChoice(st, sel) => ResolveResume(st, sel, fr, t).outcome = "local"
            /\ ~HasChoice(st, sel) => ResolveResume(st, sel, fr, t).outcome = "site"
            /\ ResolveResume(st, sel, fr, t).outcome # "hold"
            /\ ResolveCover(st, sel, fr, t).outcome # "hold"
<1> SUFFICES ASSUME NEW st, NEW sel, NEW fr, NEW t, ~fr, ResolveResume(st, sel, fr, t).outcome # "hold"
    PROVE  IF HasChoice(st, sel) THEN ResolveResume(st, sel, fr, t).outcome = "local"
           ELSE ResolveResume(st, sel, fr, t).outcome = "site"
  BY DEF IsHeld, Resolve
<1> QED BY DEF ResolveResume, HasChoice, Held, Site, File, ToMake

\* The same choice, made with what an earlier step used and with no worse findings.
LEMMA ResumeAgain ==
    \A st, sel, o, fr, c, t :
        /\ ~fr /\ o.site = sel.site /\ c.det /\ t.det
        /\ sel.resume # None => o.resume = sel.resume
        /\ ResolveResume(st, sel, fr, t).outcome # "hold"
        =>
        /\ HasChoice(st, sel) => ResolveResume(st, o, fr, c).outcome = "local"
        /\ ~HasChoice(st, sel) /\ o.resume = sel.resume /\ NoWorse(c, t) =>
               ResolveResume(st, o, fr, c) = Site
BY DEF ResolveResume, HasChoice, NoWorse, Held, Site, File, ToMake

\* The same for the cover letter.
LEMMA CoverAgain ==
    \A st, sel, o, fr, c, t :
        /\ ~fr /\ o.skip = sel.skip /\ SameAsk(c, t)
        /\ sel.cover # None => o.cover = sel.cover
        /\ ResolveCover(st, sel, fr, t).outcome # "hold"
        =>
        /\ ResolveCover(st, o, fr, c).outcome # "hold"
        /\ ResolveCover(st, sel, fr, t).outcome = "local" => ResolveCover(st, o, fr, c).outcome = "local"
<1> TAKE st, sel, o, fr, c, t
<1> HAVE /\ ~fr /\ o.skip = sel.skip /\ SameAsk(c, t)
         /\ sel.cover # None => o.cover = sel.cover
         /\ ResolveCover(st, sel, fr, t).outcome # "hold"
<1>1. CASE o.cover = sel.cover
  <2>1. ResolveCover(st, o, fr, c) = ResolveCover(st, sel, fr, t)
    BY <1>1, SameCover DEF SameAsk
  <2> QED BY <2>1
<1>2. CASE o.cover # sel.cover
  <2>1. sel.cover = None /\ o.cover # None
    BY <1>2
  <2>2. CASE sel.skip
    <3>1. c.det = t.det /\ c.req = t.req
      BY DEF SameAsk
    <3> QED BY <2>2, <3>1 DEF ResolveCover, Held, Skipped
  <2>3. CASE ~sel.skip
    <3>1. ResolveCover(st, o, fr, c) = File(o.cover)
      BY <2>1, <2>3 DEF ResolveCover
    <3>2. ResolveCover(st, o, fr, c).outcome = "local"
      BY <3>1 DEF File
    <3> QED BY <3>2
  <2> QED BY <2>2, <2>3
<1> QED BY <1>1, <1>2

\* A required letter that is not held back is a file.
LEMMA RequiredIsLocal ==
    \A st, sel, fr, t : ~fr /\ t.det /\ t.req /\ ResolveCover(st, sel, fr, t).outcome # "hold" =>
        ResolveCover(st, sel, fr, t).outcome = "local"
BY DEF ResolveCover, CoverIntent, Held, Skipped, File, ToMake

\* A look takes nothing away from documents that are not held back.
Keeps(l, m) ==
    /\ IsLazy(m) /\ m.hold = l.hold /\ m.frozen = l.frozen /\ m.sel = l.sel /\ m.useSite = l.useSite
    /\ m.resume = l.resume /\ m.resumeV = l.resumeV /\ (m.mat => l.mat) /\ (l.frozen => m.cover = l.cover)

LEMMA ApplyCapsKeepsFiles ==
    \A l, caps : IsLazy(l) /\ l.hold = "" =>
        Keeps(l, ApplyCaps(l, caps)) /\ ApplyCaps(l, caps).caps = MergeCaps(l.caps, caps)
<1> SUFFICES ASSUME NEW l, NEW caps, IsLazy(l), l.hold = ""
    PROVE  Keeps(l, ApplyCaps(l, caps)) /\ ApplyCaps(l, caps).caps = MergeCaps(l.caps, caps)
  OBVIOUS
<1> DEFINE c == MergeCaps(l.caps, caps)
           k == [l EXCEPT !.caps = c]
           a == ApplyCaps(l, caps)
           plain == [k EXCEPT !.mat = FALSE]
           cleared == [k EXCEPT !.mat = FALSE, !.cover = None, !.coverV = None, !.pack.cover = NoRef]
<1> HIDE DEF c
<1>1. Keeps(l, k) /\ k.caps = c /\ k.cover = l.cover
  BY DEF IsLazy, LazyFields, Keeps
<1>2. a = k \/ (a = Invalidate(k, l.caps) /\ ~l.frozen)
  BY DEF ApplyCaps, c
<1>3. Invalidate(k, l.caps) \in {plain, cleared}
  BY <1>1 DEF Invalidate, Keeps
<1> HIDE DEF k, a
<1>4. IsLazy(k) /\ k.frozen = l.frozen
  BY <1>1 DEF Keeps
<1>5. Keeps(k, plain) /\ plain.caps = c
  BY <1>1, <1>4 DEF IsLazy, LazyFields, Keeps
<1>6. ~k.frozen => Keeps(k, cleared) /\ cleared.caps = c
  BY <1>1, <1>4 DEF IsLazy, LazyFields, Keeps
<1> HIDE DEF plain, cleared
<1>7. \A m : Keeps(k, m) => Keeps(l, m)
  BY <1>1 DEF Keeps
<1> QED BY <1>1, <1>2, <1>3, <1>4, <1>5, <1>6, <1>7 DEF a, c

\* What a look finds: what the scanned fields say, and a file that was attached.
SeesFile == \E f \in Scanned : IsResume(f) /\ HasFile(f)
LEMMA LookFinds ==
    ASSUME IsLazy(lz), lz.caps \in Capabilities, lz.hold = ""
    PROVE  LET m == Looked(lz)
               c == MergeCaps(lz.caps, CapsOf(Scanned))
           IN /\ Keeps(lz, m) /\ SameAsk(m.caps, c) /\ m.caps \in Capabilities
              /\ m.caps.amb => lz.caps.amb \/ (SeesFile /\ ~OriginClear)
              /\ lz.caps.site \/ SeesFile => m.caps.site
<1> DEFINE c == MergeCaps(lz.caps, CapsOf(Scanned))
           a == ApplyCaps(lz, CapsOf(Scanned))
           clear == OriginClear
           s == SeeAttached(a, clear)
<1>1. CapsOf(Scanned) \in Capabilities /\ (CapsOf(Scanned).det <=> Scanned # {})
      /\ CapsOf(Scanned).amb = FALSE
  <2>1. CapsOf(Scanned).amb = FALSE
    BY DEF CapsOf, NoCaps
  <2> QED BY <2>1, CapsOfFields
<1>2. c \in Capabilities /\ (~CapsOf(Scanned).det => c = lz.caps)
      /\ (c.amb => lz.caps.amb) /\ (lz.caps.site => c.site)
  BY <1>1, MergeParts
<1>3. Keeps(lz, a) /\ a.caps = c
  BY ApplyCapsKeepsFiles
<1>4. CASE Scanned = {}
  <2>1. Looked(lz) = lz
    BY <1>4 DEF Looked
  <2>2. c = lz.caps
    BY <1>1, <1>2, <1>4
  <2>3. ~SeesFile
    BY <1>4 DEF SeesFile
  <2> QED BY <2>1, <2>2, <2>3 DEF Keeps, SameAsk
<1> HIDE DEF c, a, clear
<1>5. CASE Scanned # {} /\ ~SeesFile
  <2>1. Looked(lz) = a
    BY <1>5 DEF Looked, SeesFile, a
  <2> QED BY <1>2, <1>3, <1>5, <2>1 DEF SameAsk, c
<1>6. CASE Scanned # {} /\ SeesFile
  <2>1. Looked(lz) = s
    BY <1>6 DEF Looked, SeesFile, a, clear
  <2> DEFINE amb == c.amb \/ ~clear
             d == [c EXCEPT !.site = TRUE, !.amb = amb]
  <2>2. s = [a EXCEPT !.caps = d]
    BY <1>2, <1>3 DEF SeeAttached, Keeps, IsLazy, LazyFields, Capabilities
  <2>3. amb \in BOOLEAN /\ (amb => c.amb \/ ~OriginClear)
    BY <1>2 DEF clear, Capabilities
  <2> HIDE DEF amb, s
  <2>4. d \in Capabilities /\ SameAsk(d, c) /\ d.site /\ d.amb = amb
    BY <1>2, <2>3 DEF Capabilities, SameAsk
  <2> HIDE DEF d
  <2>5. Keeps(lz, s) /\ s.caps = d
    BY <1>3, <2>2 DEF Keeps, IsLazy, LazyFields
  <2> QED BY <1>2, <1>6, <2>1, <2>3, <2>4, <2>5 DEF c
<1> QED BY <1>4, <1>5, <1>6

-----------------------------------------------------------------------------
\* The documents of a pass that nothing held back.
SoundDocs(s, l) ==
    /\ l.hold = "" /\ l.frozen = s.frozen
    /\ \A f \in {"resume", "cover", "site", "skip"} : l.sel[f] = s.pack.sel[f]
    /\ s.frozen => l.resume = s.pack.resume.path /\ l.cover = s.pack.cover.path
    /\ ~s.frozen /\ ~HasChoice(s.settings, s.pack.sel) =>
           l.resume = None /\ l.resumeV = None /\ (l.mat => l.useSite)

\* A look leaves them so.
LEMMA SoundKept == \A s, l, m : SoundDocs(s, l) /\ Keeps(l, m) => SoundDocs(s, m)
<1> TAKE s, l, m
<1> HAVE SoundDocs(s, l) /\ Keeps(l, m)
<1>1. m.frozen = s.frozen /\ (s.frozen => m.cover = l.cover) /\ m.resume = l.resume /\ m.resumeV = l.resumeV
  BY DEF SoundDocs, Keeps
<1>2. m.hold = "" /\ m.sel = l.sel /\ (m.mat => l.mat) /\ m.useSite = l.useSite
  BY DEF SoundDocs, Keeps
<1> QED BY <1>1, <1>2 DEF SoundDocs

\* Findings with which a pass resolves as the totals of its pages do.
Comparable(s, c, t) ==
    SameAsk(c, t) /\ (~s.frozen /\ ~HasChoice(s.settings, s.pack.sel) => NoWorse(c, t))

\* The choices of a pass agree with the ones that its scenario resolves to.
LEMMA ChoosesAlike ==
    \A s, l, t :
        /\ Agreed(s.settings, l) /\ SoundDocs(s, l) /\ ~s.frozen /\ l.caps.det /\ Comparable(s, l.caps, t)
        /\ ~IsHeld(Resolve(s.settings, s.pack.sel, s.frozen, t))
        =>
        /\ HasChoice(s.settings, s.pack.sel) => ResumeChoice(s.settings, l).outcome = "local"
        /\ ~HasChoice(s.settings, s.pack.sel) => ResumeChoice(s.settings, l) = Site
        /\ CoverChoice(s.settings, l).outcome # "hold"
        /\ ResolveCover(s.settings, s.pack.sel, s.frozen, t).outcome = "local" => CoverChoice(s.settings, l).outcome = "local"
<1> SUFFICES ASSUME NEW s, NEW l, NEW t,
        Agreed(s.settings, l), SoundDocs(s, l), ~s.frozen, l.caps.det, Comparable(s, l.caps, t),
        ~IsHeld(Resolve(s.settings, s.pack.sel, s.frozen, t))
    PROVE
        /\ HasChoice(s.settings, s.pack.sel) => ResumeChoice(s.settings, l).outcome = "local"
        /\ ~HasChoice(s.settings, s.pack.sel) => ResumeChoice(s.settings, l) = Site
        /\ CoverChoice(s.settings, l).outcome # "hold"
        /\ ResolveCover(s.settings, s.pack.sel, s.frozen, t).outcome = "local" => CoverChoice(s.settings, l).outcome = "local"
  BY Zenon
<1> DEFINE st == s.settings
           sel == s.pack.sel
           fr == s.frozen
           o == Overrides(l)
           c == l.caps
<1>1. /\ ResumeChoice(st, l) = ResolveResume(st, o, fr, c)
      /\ CoverChoice(st, l) = ResolveCover(st, o, fr, c)
  BY DEF ResumeChoice, CoverChoice, SoundDocs
<1>2. /\ ResolveResume(st, sel, fr, t).outcome # "hold"
      /\ ResolveCover(st, sel, fr, t).outcome # "hold"
  BY NotHeldBack
<1>3. /\ o.site = sel.site /\ o.skip = sel.skip
      /\ sel.resume # None => o.resume = sel.resume
      /\ sel.cover # None => o.cover = sel.cover
  BY DEF Overrides, SoundDocs, Agreed, IsChoice
<1>4. ~HasChoice(st, sel) => o.resume = sel.resume
  BY DEF Overrides, SoundDocs, Agreed, IsChoice
<1>5. ~fr /\ c.det /\ t.det /\ SameAsk(c, t) /\ (~HasChoice(st, sel) => NoWorse(c, t))
  BY DEF Comparable, SameAsk
<1> HIDE DEF st, sel, fr, o, c
<1>6. /\ HasChoice(st, sel) => ResolveResume(st, o, fr, c).outcome = "local"
      /\ ~HasChoice(st, sel) => ResolveResume(st, o, fr, c) = Site
  BY <1>2, <1>3, <1>4, <1>5, ResumeAgain
<1>7. /\ ResolveCover(st, o, fr, c).outcome # "hold"
      /\ ResolveCover(st, sel, fr, t).outcome = "local" => ResolveCover(st, o, fr, c).outcome = "local"
  BY <1>2, <1>3, <1>5, CoverAgain
<1> QED BY <1>1, <1>6, <1>7 DEF st, sel, fr, o, c

\* Making documents that nothing holds back.
LEMMA MadeSound ==
    \A s, l, t, fresh :
        /\ Agreed(s.settings, l) /\ SoundDocs(s, l) /\ MayMaterialize(l) /\ Comparable(s, l.caps, t)
        /\ ~IsHeld(Resolve(s.settings, s.pack.sel, s.frozen, t))
        => SoundDocs(s, Materialized(l, s.settings, fresh, "none"))
<1> SUFFICES ASSUME NEW s, NEW l, NEW t, NEW fresh,
        Agreed(s.settings, l), SoundDocs(s, l), MayMaterialize(l), Comparable(s, l.caps, t),
        ~IsHeld(Resolve(s.settings, s.pack.sel, s.frozen, t))
    PROVE SoundDocs(s, Materialized(l, s.settings, fresh, "none"))
  BY Zenon
<1> DEFINE st == s.settings
           res == Resolve(st, Overrides(l), l.frozen, l.caps)
           rc == ResumeChoice(st, l)
           cc == CoverChoice(st, l)
           r == IF rc.make THEN [rc EXCEPT !.version = fresh.resume] ELSE rc
           c == IF ~cc.make THEN cc ELSE [cc EXCEPT !.version = fresh.cover]
           m == Materialized(l, st, fresh, "none")
<1>0. ~l.frozen /\ l.caps.det /\ l.frozen = s.frozen /\ IsLazy(l)
  BY DEF MayMaterialize, SoundDocs, Agreed
<1>1. res.resume = rc /\ res.cover = cc
  BY DEF Resolve, ResumeChoice, CoverChoice
<1>2. /\ HasChoice(st, s.pack.sel) => rc.outcome = "local"
      /\ ~HasChoice(st, s.pack.sel) => rc = Site
      /\ cc.outcome # "hold"
  BY <1>0, ChoosesAlike
<1>3. ~IsHeld(res)
  BY <1>1, <1>2 DEF IsHeld, Site
<1> HIDE DEF rc, cc
<1>4. \E p : m = [l EXCEPT !.hold = "", !.mat = TRUE, !.resume = r.version, !.cover = c.version,
                      !.resumeV = r.version, !.coverV = c.version, !.useSite = @ \/ r.outcome = "site",
                      !.pack = p]
  BY <1>1, <1>3 DEF Materialized
<1>5. ~HasChoice(st, s.pack.sel) => r = Site
  BY <1>2 DEF Site
<1>6. Site.outcome = "site" /\ Site.version = None
  BY DEF Site
<1> DEFINE us == l.useSite \/ r.outcome = "site"
<1> HIDE DEF m, r, c
<1>7. PICK p : m = [l EXCEPT !.hold = "", !.mat = TRUE, !.resume = r.version, !.cover = c.version,
                      !.resumeV = r.version, !.coverV = c.version, !.useSite = us, !.pack = p]
  BY <1>0, <1>4 DEF IsLazy, LazyFields
<1> HIDE DEF us
<1>8. /\ m.hold = "" /\ m.frozen = l.frozen /\ m.sel = l.sel /\ m.resume = r.version /\ m.resumeV = r.version
      /\ m.useSite = us
  BY <1>0, <1>7 DEF IsLazy, LazyFields
<1>9. ~HasChoice(st, s.pack.sel) => us
  BY <1>5, <1>6 DEF us
<1> QED BY <1>0, <1>5, <1>6, <1>8, <1>9 DEF SoundDocs, m

-----------------------------------------------------------------------------
\* What comes together along the first k pages, and what that page shows.
Total(k) == Totals(scenario)[k]
PageAt(k) == scenario.pages[k]
DocumentsAt(k) == DocumentsFor(scenario, Totals(scenario), k)
SiteOnly == ~scenario.frozen /\ ~HasChoice(Settings, scenario.pack.sel)

\* What a form that behaves says of its documents on page k,
PageDocuments(k) ==
    /\ PageAt(k).fields \cap FileFields # {} => ~IsHeld(DocumentsAt(k))
    /\ DocumentsAt(k).resume.outcome = "site" /\ HasResume(PageAt(k)) => PageAt(k).attached
    /\ scenario.frozen /\ HasResume(PageAt(k)) => scenario.pack.resume.path # None
    /\ scenario.frozen /\ "cover" \in PageAt(k).fields => scenario.pack.cover.path # None
    /\ scenario.site = "seek" =>
          \/ PageAt(k).fields \subseteq {"question"}
          \/ "question" \in PageAt(k).fields /\ PageAt(k).lag <= 1
          \/ DocumentsAt(k).resume.outcome \in {"local", "site"} /\ HasResume(PageAt(k))
          \/ DocumentsAt(k).cover.outcome = "local" /\ PageAt(k).fields \cap {"cover", "coverOptional"} # {}
\* and of its shape and its pace.
PageShape(k) ==
    /\ Total(k) = AfterPage(scenario, Total(k - 1), PageAt(k))
    /\ PageAt(k).fields \cap {"stubborn", "odd"} = {}
    /\ PageAt(k).button = IF k = Len(scenario.pages) THEN "submit" ELSE "next"
    /\ NotStuck(scenario, PageAt(k))
    /\ Preparing => PageAt(k).button = "submit" \/ NeedsNoFile(PageAt(k))
    /\ \A j \in {k - 1, k} :
          /\ Total(j).looks \in 0 .. StepLimit(scenario) - 1
          /\ Total(j).blind \in Nat
          /\ LinkedIn /\ ~Preparing => Total(j).blind < MaxBlind

\* Induction, as a fact about a set: the least number outside of it has a predecessor within.
Less == OpToRel(<, Nat)
LEMMA LessThan == \A x \in Nat, y \in Nat : <<x, y>> \in Less <=> x < y
BY DEF OpToRel, Less

LEMMA InductiveSet ==
    ASSUME NEW S, 0 \in S, \A n \in Nat : n \in S => n + 1 \in S
    PROVE  Nat \subseteq S
<1> DEFINE T == Nat \ S
<1> SUFFICES ASSUME T # {} PROVE FALSE
  OBVIOUS
<1>1. IsWellFoundedOn(Less, Nat) /\ T \subseteq Nat
  BY NatLessThanWellFounded, Zenon DEF Less
<1> HIDE DEF T
<1>2. PICK x \in T : \A y \in T : ~(<<y, x>> \in Less)
  BY <1>1, WFMin, Zenon
<1>3. x \in Nat /\ x \notin S
  BY DEF T
<1>4. x # 0 /\ x - 1 \in Nat /\ x - 1 < x /\ x = (x - 1) + 1
  BY <1>3
<1>5. <<x - 1, x>> \in Less
  BY <1>3, <1>4, LessThan
<1>6. x - 1 \in S
  BY <1>2, <1>4, <1>5 DEF T
<1> QED BY <1>3, <1>4, <1>6

\* The totals of a form add up, page by page: of the recursion that defines them there is
\* one as far as each page.
AddUp(s, totals) ==
    /\ totals[0] = AtFirst(s)
    /\ \A k \in 1 .. Len(s.pages) : totals[k] = AfterPage(s, totals[k - 1], s.pages[k])
LEMMA TotalsAddUp == \A s : Len(s.pages) \in Nat => AddUp(s, Totals(s))
<1> SUFFICES ASSUME NEW s, Len(s.pages) \in Nat PROVE AddUp(s, Totals(s))
  OBVIOUS
<1> DEFINE N == Len(s.pages)
           Upto(n, f) == f = [k \in 0 .. n |-> IF k = 0 THEN AtFirst(s) ELSE AfterPage(s, f[k - 1], s.pages[k])]
           S == {n \in Nat : \E f : Upto(n, f)}
<1>1. 0 \in S
  <2> DEFINE f == [k \in 0 .. 0 |-> AtFirst(s)]
  <2>1. Upto(0, f)
    OBVIOUS
  <2> QED BY <2>1
<1>2. ASSUME NEW n \in Nat, n \in S PROVE n + 1 \in S
  <2>1. PICK f : Upto(n, f)
    BY <1>2
  <2> DEFINE g == [k \in 0 .. n + 1 |-> IF k = n + 1 THEN AfterPage(s, f[n], s.pages[n + 1]) ELSE f[k]]
             h == [k \in 0 .. n + 1 |-> IF k = 0 THEN AtFirst(s) ELSE AfterPage(s, g[k - 1], s.pages[k])]
  <2>2. ASSUME NEW k \in 0 .. n + 1 PROVE g[k] = h[k]
    <3>1. k \in Nat /\ k <= n + 1
      OBVIOUS
    <3>2. CASE k = n + 1
      <4>1. g[k] = AfterPage(s, f[n], s.pages[n + 1]) /\ g[n] = f[n] /\ k # 0 /\ k - 1 = n
        BY <3>2
      <4>2. h[k] = AfterPage(s, g[k - 1], s.pages[k])
        BY <4>1
      <4> QED BY <3>2, <4>1, <4>2
    <3>3. CASE k \in 0 .. n /\ k # 0
      <4>1. g[k] = f[k] /\ g[k - 1] = f[k - 1] /\ f[k] = AfterPage(s, f[k - 1], s.pages[k])
        BY <2>1, <3>3
      <4>2. h[k] = AfterPage(s, g[k - 1], s.pages[k])
        BY <3>3
      <4> QED BY <4>1, <4>2
    <3>4. CASE k = 0
      BY <2>1, <3>4
    <3> QED BY <3>1, <3>2, <3>3, <3>4
  <2>3. g = h
    BY <2>2
  <2>4. Upto(n + 1, g)
    BY <2>3
  <2> HIDE DEF g, Upto
  <2> QED BY <2>4
<1>3. N \in S
  <2> HIDE DEF S
  <2> QED BY <1>1, <1>2, InductiveSet
<1>4. \E f : Upto(N, f)
  BY <1>3
<1> DEFINE T == CHOOSE f : Upto(N, f)
<1>5. Totals(s) = T
  BY DEF Totals
<1>6. Upto(N, T)
  <2> HIDE DEF Upto
  <2> QED BY <1>4
<1> HIDE DEF T
<1>7. T[0] = AtFirst(s) /\ \A k \in 1 .. N : T[k] = AfterPage(s, T[k - 1], s.pages[k])
  BY <1>6
<1> QED BY <1>5, <1>7 DEF AddUp

\* They never go down.
LEMMA TotalsGrow ==
    ASSUME scenario \in Scenarios
    PROVE  \A k \in 0 .. Len(scenario.pages) :
              LET t == Totals(scenario)[k]
                  last == Totals(scenario)[Len(scenario.pages)]
              IN t.looks \in 0 .. last.looks /\ last.looks \in Nat /\ t.blind \in 0 .. last.blind /\ last.blind \in Nat
<1> DEFINE N == Len(scenario.pages)
           T == Totals(scenario)
           Counts(k) == T[k].looks \in Nat /\ T[k].blind \in Nat
           Below(k) == T[k].looks <= T[N].looks /\ T[k].blind <= T[N].blind
           Up == {n \in Nat : n <= N => Counts(n)}
           Down == {n \in Nat : n <= N => Below(N - n)}
<1>1. N \in Nat /\ \A k \in 1 .. N : scenario.pages[k].lag \in Nat
  <2>1. N \in Nat /\ \A k \in 1 .. N : scenario.pages[k] \in PageRecords
    BY PagesType
  <2> QED BY <2>1 DEF PageRecords
<1>2. AddUp(scenario, T)
  BY <1>1, TotalsAddUp
<1> HIDE DEF N, T
<1>3. T[0].looks = 0 /\ T[0].blind = 0
  BY <1>2 DEF AddUp, AtFirst
<1>4. \A k \in 1 .. N :
        /\ T[k].looks = T[k - 1].looks + 1 + scenario.pages[k].lag
        /\ T[k].blind = IF HasResume(scenario.pages[k]) THEN T[k - 1].blind ELSE T[k - 1].blind + 1 + scenario.pages[k].lag
  <2> SUFFICES ASSUME NEW k \in 1 .. N
      PROVE  /\ T[k].looks = T[k - 1].looks + 1 + scenario.pages[k].lag
             /\ T[k].blind = IF HasResume(scenario.pages[k]) THEN T[k - 1].blind
                            ELSE T[k - 1].blind + 1 + scenario.pages[k].lag
    OBVIOUS
  <2> DEFINE t == T[k - 1]
             q == scenario.pages[k]
  <2>1. T[k] = AfterPage(scenario, t, q)
    BY <1>2 DEF AddUp, N
  <2> HIDE DEF t, q
  <2>2. T[k].looks = t.looks + 1 + q.lag /\ T[k].blind = IF HasResume(q) THEN t.blind ELSE t.blind + 1 + q.lag
    BY <2>1 DEF AfterPage
  <2> QED BY <2>2 DEF t, q
<1>5. Nat \subseteq Up
  <2>1. 0 \in Up
    BY <1>3
  <2>2. ASSUME NEW n \in Nat, n \in Up PROVE n + 1 \in Up
    <3> SUFFICES ASSUME n + 1 <= N PROVE Counts(n + 1)
      OBVIOUS
    <3>1. n + 1 \in 1 .. N /\ (n + 1) - 1 = n /\ Counts(n)
      BY <1>1, <2>2
    <3> QED BY <1>1, <1>4, <3>1
  <2> HIDE DEF Up
  <2> QED BY <2>1, <2>2, InductiveSet
<1>6. \A k \in 0 .. N : Counts(k)
  BY <1>1, <1>5
<1>7. Nat \subseteq Down
  <2>1. 0 \in Down
    <3>1. N - 0 = N /\ Counts(N)
      BY <1>1, <1>6
    <3> QED BY <3>1
  <2>2. ASSUME NEW n \in Nat, n \in Down PROVE n + 1 \in Down
    <3> SUFFICES ASSUME n + 1 <= N PROVE Below(N - (n + 1))
      OBVIOUS
    <3> DEFINE k == N - n
    <3>1. k \in 1 .. N /\ N - (n + 1) = k - 1 /\ Below(k)
      BY <1>1, <2>2
    <3>2. Counts(k) /\ Counts(k - 1) /\ Counts(N)
      BY <1>1, <1>6, <3>1
    <3> HIDE DEF k
    <3>3. Below(k - 1)
      BY <1>1, <1>4, <3>1, <3>2
    <3> QED BY <3>1, <3>3
  <2> HIDE DEF Down
  <2> QED BY <2>1, <2>2, InductiveSet
<1>8. \A k \in 0 .. N : Below(k)
  <2> SUFFICES ASSUME NEW k \in 0 .. N PROVE Below(k)
    OBVIOUS
  <2>1. N - k \in Nat /\ N - k <= N /\ N - (N - k) = k
    BY <1>1
  <2> QED BY <1>7, <2>1
<1>9. N \in 0 .. N
  BY <1>1
<1> HIDE DEF Up, Down
<1> QED BY <1>6, <1>8, <1>9 DEF N, T

\* There are two modes and two sites.
LEMMA OneMode ==
    ASSUME scenario \in Scenarios
    PROVE  (scenario.mode = "apply" <=> ~Preparing) /\ (scenario.site = "seek" <=> ~LinkedIn)
BY ScenariosAssumption DEF Preparing, LinkedIn

LEMMA FineGives ==
    ASSUME Fine(scenario), scenario \in Scenarios
    PROVE  /\ \A k \in 1 .. Len(scenario.pages) : PageShape(k) /\ (~Preparing => PageDocuments(k))
           /\ Total(0) = AtFirst(scenario) /\ scenario.entry = "href"
           /\ ~Preparing => scenario.pack.hold \in {"", "changed"}
           /\ ~Preparing /\ ~LinkedIn /\ scenario.pack.caps.det => ~IsHeld(DocumentsAt(0))
<1> DEFINE T == Totals(scenario)
<1>2. Len(scenario.pages) \in Nat
  BY PagesType
<1>1. AddUp(scenario, T) /\ GoodForm(scenario, T)
  BY <1>2, TotalsAddUp DEF Fine
<1> HIDE DEF T
<1>3. \A k \in 1 .. Len(scenario.pages) : k \in 0 .. Len(scenario.pages) /\ k - 1 \in 0 .. Len(scenario.pages)
  BY <1>2
<1>4. InTime(scenario, T[Len(scenario.pages)]) /\ scenario.entry = "href"
  BY <1>1 DEF GoodForm
<1>t. \A k \in 0 .. Len(scenario.pages) :
        LET last == T[Len(scenario.pages)] IN
        T[k].looks \in 0 .. last.looks /\ last.looks \in Nat /\ T[k].blind \in 0 .. last.blind /\ last.blind \in Nat
  BY TotalsGrow DEF T
<1>5. ASSUME NEW k \in 1 .. Len(scenario.pages) PROVE PageShape(k)
  <2>1. T[k] = AfterPage(scenario, T[k - 1], scenario.pages[k])
    BY <1>1 DEF AddUp
  <2>2. \A j \in {k - 1, k} :
            /\ T[j].looks \in 0 .. StepLimit(scenario) - 1
            /\ T[j].blind \in Nat
            /\ LinkedIn /\ ~Preparing => T[j].blind < MaxBlind
    <3> SUFFICES ASSUME NEW j \in 0 .. Len(scenario.pages)
        PROVE  /\ T[j].looks \in 0 .. StepLimit(scenario) - 1
               /\ T[j].blind \in Nat
               /\ LinkedIn /\ ~Preparing => T[j].blind < MaxBlind
      BY <1>3
    <3>1. StepLimit(scenario) \in Nat /\ MaxBlind \in Nat
      BY LimitsAssumption DEF StepLimit
    <3>2. LinkedIn /\ ~Preparing => T[Len(scenario.pages)].blind < MaxBlind
      BY <1>4, OneMode DEF InTime, LinkedIn
    <3>3. T[Len(scenario.pages)].looks < StepLimit(scenario)
      BY <1>4 DEF InTime
    <3> QED BY <1>t, <3>1, <3>2, <3>3
  <2>3. /\ PageAt(k).fields \cap {"stubborn", "odd"} = {}
        /\ PageAt(k).button = IF k = Len(scenario.pages) THEN "submit" ELSE "next"
        /\ NotStuck(scenario, PageAt(k))
        /\ Preparing => PageAt(k).button = "submit" \/ NeedsNoFile(PageAt(k))
    BY <1>1 DEF GoodForm, PageAt, Preparing
  <2> QED BY <2>1, <2>2, <2>3 DEF PageShape, Total, PageAt, T
<1>6. ASSUME ~Preparing PROVE DocumentsThere(scenario, T)
  BY <1>1, <1>6, OneMode DEF GoodForm
<1>7. ASSUME NEW k \in 1 .. Len(scenario.pages), ~Preparing PROVE PageDocuments(k)
  <2>1. DocumentsThere(scenario, T)
    BY <1>6, <1>7
  <2> QED BY <2>1 DEF DocumentsThere, PageDocuments, PageAt, DocumentsAt, T
<1>8. T[0] = AtFirst(scenario)
  BY <1>1 DEF AddUp
<1>9. ~Preparing => /\ scenario.pack.hold \in {"", "changed"}
                    /\ ~LinkedIn /\ scenario.pack.caps.det => ~IsHeld(DocumentsAt(0))
  BY <1>6, OneMode DEF DocumentsThere, DocumentsAt, T
<1> QED BY <1>4, <1>5, <1>7, <1>8, <1>9 DEF Total, T

-----------------------------------------------------------------------------
\* The findings of a pass on the page that shows: they hold what its fields ask for, or
\* will when it is looked at.  All of its fields are still to be seen then.
Taken(caps) == SameAsk(caps, Total(at).caps) /\ (Total(at).caps.site => caps.site)
Untaken(caps) ==
    /\ done = {} /\ SameAsk(MergeCaps(caps, CapsOf(Page.fields)), Total(at).caps)
    /\ Total(at - 1).caps.site => caps.site
\* Where only the site's own résumé will do, no file is ever put into the form.
OwnFiles(caps, filled) ==
    SiteOnly => /\ caps.amb => Total(at).caps.amb
                /\ \A f \in filled : IsResume(f) => Page.attached
TotalType == Total(at - 1).caps \in Capabilities

\* What a page adds to the totals.
LEMMA TotalAdds ==
    \A k : PageShape(k) /\ Total(k - 1).caps \in Capabilities =>
        LET c == Total(k).caps
            d == MergeCaps(Total(k - 1).caps, CapsOf(PageAt(k).fields))
            seen == PageAt(k).attached /\ HasResume(PageAt(k))
        IN /\ c \in Capabilities /\ SameAsk(c, d) /\ d \in Capabilities
           /\ c.site <=> Total(k - 1).caps.site \/ seen
           /\ c.amb <=> Total(k - 1).caps.amb \/ (seen /\ "resume" \in PageAt(k).fields /\ Settings.resumeMode # "site")
<1> TAKE k
<1> HAVE PageShape(k) /\ Total(k - 1).caps \in Capabilities
<1> DEFINE p == PageAt(k)
           c == Total(k).caps
           b == Total(k - 1).caps
           d == MergeCaps(b, CapsOf(p.fields))
           seen == p.attached /\ HasResume(p)
           amb == d.amb \/ ("resume" \in p.fields /\ Settings.resumeMode # "site")
<1>1. c = CapsAfter(scenario, b, p)
  BY DEF PageShape, AfterPage
<1>2. c = IF seen THEN [d EXCEPT !.site = TRUE, !.amb = amb] ELSE d
  <2>1. d \in Capabilities
    BY CapsOfFields, MergeParts
  <2>2. c = IF seen THEN [d EXCEPT !.site = TRUE, !.amb = @ \/ ("resume" \in p.fields /\ Settings.resumeMode # "site")] ELSE d
    BY <1>1 DEF CapsAfter, Settings
  <2> HIDE DEF c, d, seen
  <2>3. [d EXCEPT !.site = TRUE, !.amb = @ \/ ("resume" \in p.fields /\ Settings.resumeMode # "site")] = [d EXCEPT !.site = TRUE, !.amb = amb]
    BY <2>1 DEF Capabilities
  <2> QED BY <2>2, <2>3
<1>3. /\ d \in Capabilities /\ (d.site <=> b.site) /\ (d.amb <=> b.amb)
  <2>1. CapsOf(p.fields) \in Capabilities /\ CapsOf(p.fields).site = FALSE /\ CapsOf(p.fields).amb = FALSE
    BY CapsOfFields DEF CapsOf, NoCaps
  <2> QED BY <2>1, MergeParts DEF Capabilities
<1>4. amb \in BOOLEAN /\ (amb <=> d.amb \/ ("resume" \in p.fields /\ Settings.resumeMode # "site"))
  BY <1>3 DEF Capabilities
<1> HIDE DEF c, b, d, p, amb
<1>5. CASE seen
  BY <1>2, <1>3, <1>4, <1>5 DEF Capabilities, SameAsk, c, b, d, p
<1>6. CASE ~seen
  BY <1>2, <1>3, <1>6 DEF Capabilities, SameAsk, c, b, d, p
<1> QED BY <1>5, <1>6

\* And so the page that shows.
LEMMA PageAdds ==
    ASSUME PageShape(at), TotalType
    PROVE  LET c == Total(at).caps
               d == MergeCaps(Total(at - 1).caps, CapsOf(Page.fields))
               seen == Page.attached /\ HasResume(Page)
           IN /\ c \in Capabilities /\ SameAsk(c, d) /\ d \in Capabilities
              /\ c.site <=> Total(at - 1).caps.site \/ seen
              /\ c.amb <=> Total(at - 1).caps.amb \/ (seen /\ "resume" \in Page.fields /\ Settings.resumeMode # "site")
<1>1. Page = PageAt(at)
  BY DEF Page, PageAt
<1> QED BY <1>1, TotalAdds DEF TotalType

\* A look takes what the page asks for.
LEMMA LookTakes ==
    ASSUME PageShape(at), TotalType, Page \in PageRecords, done \subseteq Page.fields,
           IsLazy(lz), lz.caps \in Capabilities, lz.hold = "",
           Taken(lz.caps) \/ Untaken(lz.caps), OwnFiles(lz.caps, done)
    PROVE  /\ Keeps(lz, Looked(lz)) /\ Looked(lz).caps \in Capabilities
           /\ Taken(Looked(lz).caps) /\ OwnFiles(Looked(lz).caps, done)
<1> DEFINE m == Looked(lz)
           tot == Total(at).caps
           b == Total(at - 1).caps
           F == Page.fields
           d == CapsOf(F)
           e == CapsOf(Scanned)
           seen == Page.attached /\ HasResume(Page)
<1>1. /\ Keeps(lz, m) /\ SameAsk(m.caps, MergeCaps(lz.caps, e)) /\ m.caps \in Capabilities
      /\ m.caps.amb => lz.caps.amb \/ (SeesFile /\ ~OriginClear)
      /\ lz.caps.site \/ SeesFile => m.caps.site
  BY LookFinds
<1>2. /\ tot \in Capabilities /\ SameAsk(tot, MergeCaps(b, d)) /\ MergeCaps(b, d) \in Capabilities
      /\ tot.site <=> b.site \/ seen
      /\ tot.amb <=> b.amb \/ (seen /\ "resume" \in F /\ Settings.resumeMode # "site")
  BY PageAdds
<1>3. d \in Capabilities /\ e \in Capabilities /\ (e.det <=> Scanned # {}) /\ b \in Capabilities
  BY CapsOfFields DEF TotalType
<1>4. F \subseteq FileFields \cup {"question"}
  BY DEF PageShape, PageAt, Page, PageRecords, Fields
<1>5. Scanned \subseteq F /\ Scanned \cap FileFields = F \cap FileFields /\ (done = {} => Scanned = F)
  BY <1>4 DEF Scanned
<1>6. seen => SeesFile
  <2> SUFFICES ASSUME Page.attached, NEW f \in F, IsResume(f) PROVE SeesFile
    BY DEF HasResume
  <2>1. f \in Scanned
    BY <1>5 DEF IsResume, FileFields
  <2> QED BY <2>1 DEF SeesFile, HasFile
<1>7. SiteOnly /\ SeesFile => seen
  BY <1>5 DEF SeesFile, HasFile, OwnFiles, HasResume
<1> DEFINE had == lz.caps
<1> HIDE DEF m, tot, b, F, d, e, seen, had
<1>8. SameAsk(MergeCaps(had, e), tot)
  <2>1. CASE Untaken(had)
    BY <1>5, <2>1 DEF Untaken, d, e, F, tot
  <2>2. CASE Taken(had) /\ Scanned = {}
    <3>1. MergeCaps(had, e) = had
      BY <1>3, <2>2, MergeParts DEF had
    <3> QED BY <2>2, <3>1 DEF Taken, tot
  <2>3. CASE Taken(had) /\ Scanned # {}
    <3>1. e = d
      BY <1>5, <2>3, SameFiles DEF e, d, F
    <3>2. SameAsk(had, tot)
      BY <2>3 DEF Taken, tot
    <3>3. SameAsk(MergeCaps(had, d), MergeCaps(tot, d))
      BY <1>2, <1>3, <3>2, MergeAlike DEF had
    <3>4. SameAsk(MergeCaps(tot, d), MergeCaps(MergeCaps(b, d), d))
      BY <1>2, <1>3, MergeAlike
    <3>5. SameAsk(MergeCaps(MergeCaps(b, d), d), MergeCaps(b, d))
      BY <1>3, MergeAbsorbs
    <3> QED BY <1>2, <3>1, <3>3, <3>4, <3>5 DEF SameAsk
  <2> QED BY <2>1, <2>2, <2>3 DEF had
<1>9. tot.site => m.caps.site
  BY <1>1, <1>2, <1>6 DEF Taken, Untaken, tot, b
<1>10. SameAsk(m.caps, tot)
  BY <1>1, <1>8 DEF SameAsk, had
<1>11. SiteOnly => (m.caps.amb => tot.amb)
  <2>1. ~OriginClear => "resume" \in F /\ Settings.resumeMode # "site"
    BY <1>5 DEF OriginClear
  <2> QED BY <1>1, <1>2, <1>7, <2>1 DEF OwnFiles, tot
<1> QED BY <1>1, <1>9, <1>10, <1>11 DEF Taken, OwnFiles, tot, m

-----------------------------------------------------------------------------
\* The files that filling the page needs.
Supplied(l) ==
    /\ HasResume(Page) => l.resume # None \/ (l.useSite /\ Page.attached)
    /\ "cover" \in Page.fields => l.cover # None
    /\ DocumentsAt(at).cover.outcome = "local" /\ Page.fields \cap Letters # {} => l.cover # None

\* Documents that were made, or frozen, hold them.
LEMMA SuppliedFiles ==
    ASSUME PageShape(at), PageDocuments(at), TotalType, scenario \in Scenarios, NEW l,
           Agreed(Settings, l), SoundDocs(scenario, l), Taken(l.caps), OwnFiles(l.caps, done),
           l.frozen \/ l.mat, Page.fields \cap FileFields # {}
    PROVE  Supplied(l)
<1> DEFINE F == Page.fields
           st == Settings
           tot == Total(at).caps
           sel == scenario.pack.sel
           fr == scenario.frozen
<1>1. /\ F # {} /\ CapsOf(F).det /\ (CapsOf(F).req <=> "cover" \in F) /\ CapsOf(F) \in Capabilities
  BY CapsOfFields
<1>2. tot.det /\ ("cover" \in F => tot.req)
  <2>1. SameAsk(tot, MergeCaps(Total(at - 1).caps, CapsOf(F)))
    BY PageAdds
  <2>2. /\ MergeCaps(Total(at - 1).caps, CapsOf(F)).det
        /\ CapsOf(F).req => MergeCaps(Total(at - 1).caps, CapsOf(F)).req
    BY <1>1, MergeParts DEF TotalType
  <2> QED BY <1>1, <2>1, <2>2 DEF SameAsk
<1>3. SameAsk(l.caps, tot) /\ Comparable(scenario, l.caps, tot) /\ l.caps.det
  BY <1>2 DEF Taken, OwnFiles, Comparable, SiteOnly, NoWorse, SameAsk, Settings
<1>4. /\ DocumentsAt(at).resume = ResolveResume(st, sel, fr, tot)
      /\ DocumentsAt(at).cover = ResolveCover(st, sel, fr, tot)
      /\ DocumentsAt(at) = Resolve(st, sel, fr, tot)
      /\ ~IsHeld(DocumentsAt(at))
  BY DEF DocumentsAt, DocumentsFor, Resolve, Total, Settings, PageDocuments, PageAt, Page
<1>5. CASE fr
  <2>1. l.resume = scenario.pack.resume.path /\ l.cover = scenario.pack.cover.path
    BY <1>5 DEF SoundDocs
  <2>2. HasResume(Page) => l.resume # None
    BY <1>5, <2>1 DEF PageDocuments, PageAt, Page
  <2>3. "cover" \in F => l.cover # None
    BY <1>5, <2>1 DEF PageDocuments, PageAt, Page
  <2>4. DocumentsAt(at).cover.outcome = "local" => sel.cover # None
    BY <1>4, <1>5 DEF ResolveCover, Frozen, Skipped
  <2>5. sel.cover \in {None, scenario.pack.cover.path}
    BY <1>5, ScenariosAssumption
  <2> QED BY <2>1, <2>2, <2>3, <2>4, <2>5 DEF Supplied
<1>6. CASE ~fr
  <2>1. ~l.frozen /\ l.mat /\ ~Blocked(l)
    BY <1>6 DEF SoundDocs, Blocked
  <2>2. /\ HasChoice(st, sel) => ResumeChoice(st, l).outcome = "local"
        /\ ~HasChoice(st, sel) => ResumeChoice(st, l) = Site
        /\ ResolveCover(st, sel, fr, tot).outcome = "local" => CoverChoice(st, l).outcome = "local"
    BY <1>3, <1>4, <1>6, ChoosesAlike DEF Settings
  <2>3. /\ HasChoice(st, sel) => l.resume # None
        /\ CoverChoice(st, l).outcome = "local" => l.cover # None
    BY <2>1, <2>2 DEF Agreed, LocalResume, LocalCover
  <2>4. ~HasChoice(st, sel) => l.useSite
    BY <1>6, <2>1 DEF SoundDocs, Settings
  <2>5. ~HasChoice(st, sel) => DocumentsAt(at).resume.outcome = "site"
    BY <1>4, <1>6, NotHeldBack
  <2>6. ~HasChoice(st, sel) /\ HasResume(Page) => Page.attached
    BY <2>5 DEF PageDocuments, PageAt, Page
  <2>7. ResolveCover(st, sel, fr, tot).outcome # "hold"
    BY <1>4 DEF IsHeld
  <2>8. "cover" \in F => ResolveCover(st, sel, fr, tot).outcome = "local"
    BY <1>2, <1>6, <2>7, RequiredIsLocal
  <2> QED BY <1>4, <2>2, <2>3, <2>4, <2>6, <2>8 DEF Supplied
<1> QED BY <1>5, <1>6

\* Asking for them makes them so.
LEMMA EnsuredFiles ==
    ASSUME PageShape(at), PageDocuments(at), TotalType, scenario \in Scenarios, NEW l,
           Agreed(Settings, l), SoundDocs(scenario, l), Taken(l.caps), OwnFiles(l.caps, done),
           Page.fields \cap FileFields # {}
    PROVE  LET m == EnsureMaterialized(l, "none") IN
           Agreed(Settings, m) /\ SoundDocs(scenario, m) /\ m.caps = l.caps /\ Supplied(m)
<1> DEFINE m == EnsureMaterialized(l, "none")
           tot == Total(at).caps
<1>1. Agreed(Settings, m) /\ m.caps = l.caps /\ (l.caps.det => m.frozen \/ m.mat)
  BY EnsureAfter DEF After
<1>2. l.caps.det
  <2>1. CapsOf(Page.fields).det /\ CapsOf(Page.fields) \in Capabilities
    BY CapsOfFields
  <2>2. MergeCaps(Total(at - 1).caps, CapsOf(Page.fields)).det
    BY <2>1, MergeParts DEF TotalType
  <2> QED BY <2>2, PageAdds DEF Taken, SameAsk
<1>3. Comparable(scenario, l.caps, tot)
  BY DEF Taken, OwnFiles, Comparable, SiteOnly, NoWorse, Settings
<1>4. ~IsHeld(Resolve(scenario.settings, scenario.pack.sel, scenario.frozen, tot))
  BY DEF DocumentsAt, DocumentsFor, Total, PageDocuments, PageAt, Page
<1>5. SoundDocs(scenario, m)
  <2>1. CASE MayMaterialize(l)
    <3>1. m = Materialized(l, scenario.settings, Fresh, "none")
      BY <2>1 DEF EnsureMaterialized, Settings
    <3> HIDE DEF m, tot
    <3>2. \A fresh : SoundDocs(scenario, Materialized(l, scenario.settings, fresh, "none"))
      BY <1>3, <1>4, <2>1, MadeSound DEF Settings
    <3> QED BY <3>1, <3>2
  <2>2. CASE ~MayMaterialize(l)
    BY <2>2 DEF EnsureMaterialized
  <2> QED BY <2>1, <2>2
<1> HIDE DEF m
<1>6. Taken(m.caps) /\ OwnFiles(m.caps, done)
  BY <1>1
<1>7. Supplied(m)
  BY <1>1, <1>2, <1>5, <1>6, SuppliedFiles
<1> QED BY <1>1, <1>5, <1>7 DEF m

-----------------------------------------------------------------------------
\* A page is complete once these fields are filled.
Asked == {"resume", "cover", "question"}
\* Undisturbed, filling the page of a form that behaves does not fail, and completes it.
LEMMA FineFill ==
    ASSUME PageShape(at), PageDocuments(at), TotalType, scenario \in Scenarios, Page \in PageRecords,
           done \subseteq Page.fields, Agreed(Settings, lz), SoundDocs(scenario, lz),
           Taken(lz.caps) \/ Untaken(lz.caps), OwnFiles(lz.caps, done), ~Preparing,
           NEW o \in FillOutcomes, o.cost = 0
    PROVE  /\ ~o.failed /\ o.filled \subseteq Page.fields /\ Agreed(Settings, o.lz)
           /\ SoundDocs(scenario, o.lz) /\ Taken(o.lz.caps) /\ OwnFiles(o.lz.caps, done \cup o.filled)
           /\ Page.fields \cap Asked \subseteq done \cup o.filled
           /\ HasResume(Page) => o.filled # {}
           /\ ~LinkedIn /\ (done = {} \/ Page.lag > 1) /\ Scanned # {} => o.filled # {}
<1> DEFINE looked == Looked(lz)
           F == Page.fields
<1>1. PICK m \in Made(looked) : \E slip : o = FillOutcome(m[1], m[2], m[3], slip)
  BY DEF FillOutcomes
<1>2. PICK slip : o = FillOutcome(m[1], m[2], m[3], slip)
  BY <1>1
<1> DEFINE l == m[1]
           failed == slip # "none" \/ \E f \in Files : CannotFill(l, f)
           filled == IF failed THEN {} ELSE {f \in Scanned : FillsField(l, f)}
<1>3. /\ o.lz = l /\ o.failed = failed /\ o.filled = filled
      /\ o.cost = m[3] + (IF slip = "none" THEN 0 ELSE 1)
  BY <1>2 DEF FillOutcome
<1>4. m[3] \in {0, 1}
  BY <1>1 DEF Made
<1>5. m[3] = 0 /\ slip = "none"
  BY <1>3, <1>4
<1>6. /\ Keeps(lz, looked) /\ looked.caps \in Capabilities
      /\ Taken(looked.caps) /\ OwnFiles(looked.caps, done)
  BY LookTakes DEF Agreed, SoundDocs
<1>7. Agreed(Settings, looked)
  BY LookedAfter DEF After
<1>8. SoundDocs(scenario, looked)
  BY <1>6, SoundKept
<1>9. F \subseteq FileFields \cup {"question"}
  BY DEF PageShape, PageAt, Page, PageRecords, Fields
<1>10. /\ Scanned \subseteq F /\ Files = F \cap FileFields /\ F \cap FileFields \subseteq Scanned
       /\ "question" \in F /\ "question" \notin done => "question" \in Scanned
  BY <1>9 DEF Scanned, Files
<1>11. /\ Agreed(Settings, l) /\ SoundDocs(scenario, l) /\ l.caps = looked.caps
       /\ Files # {} => Supplied(l)
  <2>1. CASE Files = {}
    <3>1. l = looked
      BY <1>1, <2>1 DEF Made
    <3> QED BY <1>7, <1>8, <2>1, <3>1
  <2>2. CASE Files # {}
    <3>1. l = EnsureMaterialized(looked, "none")
      <4>1. PICK how \in HowFor(looked) : m = <<EnsureMaterialized(looked, how), TallyOf(looked, how), IF how = "none" THEN 0 ELSE 1>>
        BY <1>1, <2>2 DEF Made
      <4>2. m[1] = EnsureMaterialized(looked, how) /\ m[3] = IF how = "none" THEN 0 ELSE 1
        BY <4>1
      <4>3. how = "none"
        BY <1>5, <4>2
      <4> QED BY <4>2, <4>3
    <3> HIDE DEF looked, l
    <3> DEFINE n == EnsureMaterialized(looked, "none")
    <3>2. Agreed(Settings, n) /\ SoundDocs(scenario, n) /\ n.caps = looked.caps /\ Supplied(n)
      BY <1>6, <1>7, <1>8, <1>10, <2>2, EnsuredFiles
    <3> QED BY <3>1, <3>2
  <2> QED BY <2>1, <2>2
<1> HIDE DEF looked, l
<1>12. ~Blocked(l)
  BY <1>11 DEF SoundDocs, Blocked
<1>13. \A f \in F : IsResume(f) => HasResume(Page) /\ f \in Files
  BY <1>10 DEF HasResume, IsResume, FileFields
<1>14. ASSUME NEW f \in Files PROVE ~CannotFill(l, f)
  <2>1. CASE IsResume(f)
    <3>1. l.resume # None \/ (l.useSite /\ Page.attached)
      BY <1>10, <1>11, <1>13, <2>1 DEF Supplied
    <3> QED BY <1>12, <2>1, <3>1 DEF CannotFill, PathFor, HasFile
  <2>2. CASE f = "cover"
    <3>1. l.cover # None
      BY <1>10, <1>11, <2>2 DEF Supplied
    <3> QED BY <1>12, <2>2, <3>1 DEF CannotFill, PathFor, IsResume
  <2>3. CASE f = "coverOptional"
    BY <1>12, <2>3 DEF CannotFill, PathFor, IsResume
  <2> QED BY <1>10, <2>1, <2>2, <2>3 DEF FileFields, IsResume
<1>15. ~failed /\ filled = {f \in Scanned : FillsField(l, f)}
  BY <1>5, <1>14
<1> HIDE DEF failed, filled
<1>16. \A f \in F : IsResume(f) => f \in filled
  <2> SUFFICES ASSUME NEW f \in F, IsResume(f) PROVE f \in filled
    OBVIOUS
  <2>1. f \in Files /\ f \in Scanned /\ Supplied(l) /\ HasResume(Page)
    BY <1>10, <1>11, <1>13
  <2>2. l.resume # None \/ (l.useSite /\ Page.attached)
    BY <2>1 DEF Supplied
  <2>3. FillsField(l, f)
    BY <2>1, <2>2 DEF FillsField, PathFor, HasFile
  <2> QED BY <1>15, <2>1, <2>3
<1>17. "question" \in F /\ "question" \notin done => "question" \in filled
  BY <1>10, <1>15 DEF FillsField, Answerable
<1>18. \A f \in F \cap Letters : l.cover # None => f \in filled
  <2> SUFFICES ASSUME NEW f \in F \cap Letters, l.cover # None PROVE f \in filled
    OBVIOUS
  <2>1. f \in Files /\ f \in Scanned /\ ~IsResume(f)
    BY <1>10 DEF Letters, FileFields, IsResume
  <2>2. FillsField(l, f)
    BY <2>1 DEF FillsField, PathFor
  <2> QED BY <1>15, <2>1, <2>2
<1>19. "cover" \in F => "cover" \in filled
  BY <1>10, <1>11, <1>18 DEF Supplied, Letters, FileFields
<1>20. F \cap Asked \subseteq done \cup filled
  BY <1>16, <1>17, <1>19 DEF Asked, IsResume
<1>21. HasResume(Page) => filled # {}
  BY <1>16 DEF HasResume
<1>22. OwnFiles(l.caps, done \cup filled)
  <2> SUFFICES ASSUME SiteOnly, NEW f \in filled, IsResume(f) PROVE Page.attached
    BY <1>6, <1>11 DEF OwnFiles
  <2>1. l.resume = None
    BY <1>11 DEF SoundDocs, SiteOnly, Settings
  <2>2. FillsField(l, f)
    BY <1>15
  <2>3. HasFile(f)
    BY <2>1, <2>2 DEF FillsField, PathFor, Answerable, IsResume
  <2> QED BY <2>3 DEF HasFile, OwnFiles
<1>23. ASSUME ~LinkedIn, done = {} \/ Page.lag > 1, Scanned # {} PROVE filled # {}
  <2>1. \/ F \subseteq {"question"}
        \/ "question" \in F /\ Page.lag <= 1
        \/ HasResume(Page)
        \/ DocumentsAt(at).cover.outcome = "local" /\ F \cap Letters # {}
    BY <1>23, OneMode DEF PageDocuments, PageAt, Page, Letters
  <2>2. CASE F \subseteq {"question"}
    <3>1. "question" \in Scanned
      BY <1>10, <1>23, <2>2
    <3> QED BY <1>15, <3>1 DEF FillsField, Answerable
  <2>3. CASE "question" \in F /\ Page.lag <= 1
    <3>1. Page.lag \in Nat
      BY DEF PageRecords
    <3>2. done = {}
      BY <1>23, <2>3, <3>1
    <3> QED BY <1>17, <2>3, <3>2
  <2>4. CASE DocumentsAt(at).cover.outcome = "local" /\ F \cap Letters # {}
    <3>1. Files # {}
      BY <1>10, <2>4 DEF Letters, FileFields
    <3>2. l.cover # None
      BY <1>11, <2>4, <3>1 DEF Supplied
    <3> QED BY <1>18, <2>4, <3>2
  <2> QED BY <1>21, <2>1, <2>2, <2>3, <2>4
<1>24. Taken(l.caps)
  BY <1>6, <1>11
<1> QED BY <1>3, <1>10, <1>11, <1>15, <1>20, <1>21, <1>22, <1>23, <1>24

-----------------------------------------------------------------------------
(* How far a pass is: the page, its findings, and the counters of the loop. *)

\* How often the page was looked at again, since it was asked to give way.
Repeats == IF moving = 0 THEN 0 ELSE Page.lag - moving
\* What the pages before it took.
Looks == Total(at - 1).looks
Blinds == Total(at - 1).blind
\* The page was filled.
Passed == pc \in {"click", "navigate", "seekClick"} \/ moving > 0
\* The steps at which a page may be new.
NewPage == EarlySteps \cup {"head", "fill", "look", "scan", "seek"}
Runs == [i : Nat, prev : Nat, same : Nat, unfillable : Nat, missing : Nat, blind : Nat, filled : BOOLEAN]
RunType == run \in Runs

\* The way that a form that behaves is passed, and how it ends.
PathInv ==
    /\ pc \in IF LinkedIn
              THEN IF Preparing THEN {"open", "scan", "navigate", "look", "done"}
                   ELSE {"open", "head", "fill", "click", "confirm", "done"}
              ELSE {"open", "button", "opened", "visible", "seek", "seekClick", "look", "done"}
                       \cup (IF Preparing THEN {} ELSE {"confirm"})
    /\ slips = {} /\ (pc = "confirm" => sent)
    /\ pc = "done" => result = IF Preparing THEN "prepared" ELSE "submitted"
\* A page gives way once it was filled, and the next one is new.
PageInv ==
    /\ moving \in 0 .. Page.lag /\ done \subseteq Page.fields /\ TotalType
    /\ moving > 0 /\ pc = "seek" => moving < Page.lag
    /\ moving = 0 /\ pc \in NewPage => done = {}
    /\ Passed => Complete \/ (Preparing /\ Kind = "submit")
\* Nothing holds the documents back, and what is known of the form is what its pages tell.
DocsInv ==
    ~Preparing =>
        /\ SoundDocs(scenario, lz) /\ OwnFiles(lz.caps, done)
        /\ Taken(lz.caps) \/ (~Passed /\ Untaken(lz.caps))
        /\ pc \in EarlySteps => lz.caps = scenario.pack.caps
\* The loop looks no oftener than the pages need.
PaceInv ==
    /\ RunType
    /\ pc \in EarlySteps => run = NoRun
    /\ pc \in {"head", "look"} => run.i <= Looks + (IF moving = 0 THEN 0 ELSE 1 + Repeats)
    /\ pc \in {"scan", "seek"} => run.i <= Looks + Repeats
    /\ pc \in {"fill", "click", "navigate", "seekClick"} => run.i <= Looks + 1 + Repeats
\* A page repeats only while the next one is on its way, and is always filled.
StuckInv ==
    LinkedIn =>
        /\ run.prev <= at
        /\ moving = 0 /\ pc \in {"open", "head", "scan", "navigate", "look"} => run.prev < at
        /\ pc \in {"fill", "click"} => run.prev = at /\ run.same <= Repeats
        /\ moving > 0 /\ pc \in {"head", "look"} => run.same <= Repeats
        /\ moving > 0 /\ pc \in {"scan", "navigate"} => run.same + 1 <= Repeats
        /\ run.missing = 0 /\ (pc # "click" => run.unfillable = 0)
        /\ pc = "head" => run.blind <= Blinds + (IF moving = 0 \/ HasResume(Page) THEN 0 ELSE 1 + Repeats)
        /\ pc \in {"fill", "click"} => run.blind <= Blinds + (IF HasResume(Page) THEN 0 ELSE Repeats)
        /\ pc = "click" /\ HasResume(Page) => run.filled
OnCourse == PathInv /\ (pc \notin {"confirm", "done"} => PageInv /\ DocsInv /\ PaceInv /\ StuckInv)

\* The scenario, and what comes together along its pages, never changes.
LEMMA Rigid ==
    ASSUME scenario' = scenario
    PROVE  /\ \A k : Total(k)' = Total(k) /\ PageAt(k)' = PageAt(k) /\ DocumentsAt(k)' = DocumentsAt(k)
           /\ Settings' = Settings /\ (SiteOnly' <=> SiteOnly)
           /\ (Preparing' <=> Preparing) /\ (LinkedIn' <=> LinkedIn)
BY DEF Total, PageAt, DocumentsAt, Settings, SiteOnly, Preparing, LinkedIn

\* What is known at the page that shows.
LEMMA Here ==
    ASSUME PlaceInv, Fine(scenario)
    PROVE  /\ scenario \in Scenarios /\ Len(scenario.pages) \in Nat /\ at \in 1 .. Len(scenario.pages)
           /\ Page = PageAt(at) /\ Page \in PageRecords /\ Page.lag \in Nat
           /\ PageShape(at) /\ (~Preparing => PageDocuments(at))
           /\ at + 1 \in 1 .. Len(scenario.pages) => PageShape(at + 1) /\ PageAt(at + 1) \in PageRecords
           /\ Kind = IF at = Len(scenario.pages) THEN "submit" ELSE "next"
<1>1. scenario \in Scenarios /\ Len(scenario.pages) \in Nat /\ at \in 1 .. Len(scenario.pages)
  BY PagesType DEF PlaceInv
<1>2. \A k \in 1 .. Len(scenario.pages) : PageAt(k) \in PageRecords
  BY <1>1, PagesType DEF PageAt
<1>3. \A k \in 1 .. Len(scenario.pages) : PageShape(k) /\ (~Preparing => PageDocuments(k))
  BY <1>1, FineGives
<1>4. Page = PageAt(at) /\ Page.lag \in Nat
  BY <1>1, <1>2 DEF Page, PageAt, PageRecords
<1>5. Kind = IF at = Len(scenario.pages) THEN "submit" ELSE "next"
  BY <1>1, <1>3, <1>4 DEF PageShape, Kind
<1> QED BY <1>1, <1>2, <1>3, <1>4, <1>5

\* The counters stay within their limits.
Limit == StepLimit(scenario)
LEMMA WithinLimits ==
    ASSUME PlaceInv, Fine(scenario)
    PROVE  /\ Looks \in Nat /\ Blinds \in Nat /\ Limit \in Nat /\ Looks + 1 + Page.lag < Limit
           /\ Total(at).looks = Looks + 1 + Page.lag
           /\ Total(at).blind = Blinds + (IF HasResume(Page) THEN 0 ELSE 1 + Page.lag)
           /\ LinkedIn /\ ~Preparing => Total(at).blind < MaxBlind
<1>1. /\ PageShape(at) /\ Page = PageAt(at) /\ Page.lag \in Nat
  BY Here
<1>2. /\ Total(at).looks = Looks + 1 + Page.lag
      /\ Total(at).blind = IF HasResume(Page) THEN Blinds ELSE Blinds + 1 + Page.lag
  BY <1>1 DEF PageShape, AfterPage, Looks, Blinds
<1>3. Limit \in Nat
  BY LimitsAssumption DEF Limit, StepLimit
<1>4. /\ Looks \in 0 .. Limit - 1 /\ Total(at).looks \in 0 .. Limit - 1 /\ Blinds \in Nat
      /\ LinkedIn /\ ~Preparing => Total(at).blind < MaxBlind
  BY <1>1 DEF PageShape, Looks, Blinds, Limit
<1> QED BY <1>1, <1>2, <1>3, <1>4

\* The page that shows stays,
LEMMA PageStays ==
    ASSUME scenario' = scenario, at' = at
    PROVE  /\ Page' = Page /\ Kind' = Kind /\ Looks' = Looks /\ Blinds' = Blinds /\ (TotalType' <=> TotalType)
           /\ \A c : /\ Taken(c)' <=> Taken(c)
                     /\ done' = {} => (Untaken(c)' <=> SameAsk(MergeCaps(c, CapsOf(Page.fields)), Total(at).caps)
                                                      /\ (Total(at - 1).caps.site => c.site))
           /\ \A c, d : OwnFiles(c, d)' <=> OwnFiles(c, d)
<1>1. /\ \A k : Total(k)' = Total(k)
      /\ SiteOnly' <=> SiteOnly
  BY Rigid
<1>2. Page' = Page
  BY DEF Page
<1> QED BY <1>1, <1>2 DEF Kind, Looks, Blinds, TotalType, Taken, Untaken, OwnFiles

\* or gives way to the next one, which nothing was taken from yet.
LEMMA PageTurns ==
    ASSUME scenario' = scenario, at' = at + 1, at + 1 \in 1 .. Len(scenario.pages), moving' = 0, done' = {},
           PlaceInv, Fine(scenario), TotalType
    PROVE  /\ Page' = PageAt(at + 1) /\ Page' \in PageRecords
           /\ Looks' = Looks + 1 + Page.lag /\ TotalType'
           /\ Blinds' = Blinds + (IF HasResume(Page) THEN 0 ELSE 1 + Page.lag)
           /\ \A c \in Capabilities : Taken(c) /\ OwnFiles(c, done) => Untaken(c)' /\ OwnFiles(c, {})'
<1>1. \A k : Total(k)' = Total(k) /\ PageAt(k)' = PageAt(k)
  BY Rigid
<1>2. SiteOnly' <=> SiteOnly
  BY Rigid
<1>3. at \in Nat /\ at' - 1 = at
  BY Here
<1>4. Page' = PageAt(at + 1) /\ Page' \in PageRecords
  BY Here DEF Page, PageAt
<1> DEFINE b == Total(at).caps
           n == Total(at + 1).caps
           q == PageAt(at + 1)
           d == CapsOf(q.fields)
<1>5. b \in Capabilities /\ d \in Capabilities /\ PageShape(at + 1)
  BY Here, PageAdds, CapsOfFields
<1>6. at + 1 - 1 = at
  BY <1>3
<1>7. /\ SameAsk(n, MergeCaps(b, d)) /\ MergeCaps(b, d) \in Capabilities
      /\ b.amb => n.amb
  <2> DEFINE k == at + 1
  <2>0. k - 1 = at
    BY <1>3
  <2>4. PageShape(k)
    BY <1>5
  <2> HIDE DEF k
  <2>1. Total(k - 1) = Total(at)
    BY <2>0
  <2>3. Total(k - 1).caps \in Capabilities
    BY <1>5, <2>1
  <2>2. /\ SameAsk(Total(k).caps, MergeCaps(Total(k - 1).caps, CapsOf(PageAt(k).fields)))
        /\ MergeCaps(Total(k - 1).caps, CapsOf(PageAt(k).fields)) \in Capabilities
        /\ Total(k - 1).caps.amb => Total(k).caps.amb
    BY <2>3, <2>4, TotalAdds
  <2> QED BY <2>1, <2>2 DEF k
<1>8. ASSUME NEW c \in Capabilities, Taken(c), OwnFiles(c, done) PROVE Untaken(c)' /\ OwnFiles(c, {})'
  <2>1. SameAsk(c, b) /\ (b.site => c.site) /\ (SiteOnly => (c.amb => b.amb))
    BY <1>8 DEF Taken, OwnFiles
  <2>2. SameAsk(MergeCaps(c, d), MergeCaps(b, d))
    BY <1>5, <2>1, MergeAlike
  <2>3. SameAsk(MergeCaps(c, d), n)
    BY <1>7, <2>2 DEF SameAsk
  <2>4. Total(at)'.caps = n /\ Total(at - 1)'.caps = b
    BY <1>1, <1>3
  <2>5. Untaken(c)'
    BY <1>4, <2>1, <2>3, <2>4 DEF Untaken
  <2>6. OwnFiles(c, {})'
    BY <1>2, <1>7, <2>1, <2>4 DEF OwnFiles
  <2> QED BY <2>5, <2>6
<1>9. TotalType'
  BY <1>1, <1>3, <1>5 DEF TotalType
<1>10. Looks' = Total(at).looks /\ Blinds' = Total(at).blind
  BY <1>1, <1>3 DEF Looks, Blinds
<1> QED BY <1>4, <1>8, <1>9, <1>10, WithinLimits

-----------------------------------------------------------------------------
\* Merging findings that ask for the same.
LEMMA MergeSame ==
    \A c \in Capabilities, d \in Capabilities, e \in Capabilities :
        SameAsk(d, e) => SameAsk(MergeCaps(c, d), MergeCaps(c, e))
<1> SUFFICES ASSUME NEW c \in Capabilities, NEW d \in Capabilities, NEW e \in Capabilities, SameAsk(d, e)
    PROVE SameAsk(MergeCaps(c, d), MergeCaps(c, e))
  OBVIOUS
<1>1. CASE ~d.det
  BY <1>1, MergeParts DEF SameAsk
<1>2. CASE d.det
  <2> DEFINE m == MergeCaps(c, d)
             n == MergeCaps(c, e)
  <2>1. /\ m.det /\ m.slots = (IF d.slots > c.slots THEN d.slots ELSE c.slots)
        /\ m.req = (c.req \/ d.req) /\ m.opt = (c.opt \/ d.opt) /\ m \in Capabilities
    BY <1>2, MergeParts
  <2>2. e.det /\ e.slots = d.slots /\ e.req = d.req /\ e.opt = d.opt
    BY <1>2 DEF SameAsk
  <2>3. /\ n.det /\ n.slots = (IF e.slots > c.slots THEN e.slots ELSE c.slots)
        /\ n.req = (c.req \/ e.req) /\ n.opt = (c.opt \/ e.opt) /\ n \in Capabilities
    BY <2>2, MergeParts
  <2> HIDE DEF m, n
  <2>4. m.det = TRUE /\ n.det = TRUE
    BY <2>1, <2>3 DEF Capabilities
  <2>5. SameAsk(m, n)
    BY <2>1, <2>2, <2>3, <2>4 DEF SameAsk
  <2> QED BY <2>5 DEF m, n
<1> QED BY <1>1, <1>2

\* What the probe of a page says: what the file fields say, and that a file is there.
LEMMA ProbeParts ==
    \A fields, attached : attached \in BOOLEAN =>
        LET q == Probe(fields, attached)
            d == CapsOf(fields)
        IN /\ q \in Capabilities /\ (q.det <=> fields \cap FileFields # {}) /\ (q.site <=> attached)
           /\ q.amb = FALSE /\ (q.det => SameAsk(q, d))
<1> TAKE fields, attached
<1> HAVE attached \in BOOLEAN
<1> DEFINE q == Probe(fields, attached)
           d == CapsOf(fields)
           e == CapsOf(fields \cap FileFields)
<1>1. e \in Capabilities /\ (e.det <=> fields \cap FileFields # {}) /\ e.amb = FALSE
  <2>1. e.amb = FALSE
    BY DEF CapsOf, NoCaps
  <2> QED BY <2>1, CapsOfFields
<1>2. q = [e EXCEPT !.site = attached]
  BY DEF Probe
<1>3. fields \cap FileFields # {} => e = d
  <2> DEFINE rest == fields \cap FileFields
  <2>1. rest \cap FileFields = fields \cap FileFields /\ (rest # {} => fields # {})
    OBVIOUS
  <2> HIDE DEF rest
  <2>2. rest # {} => CapsOf(rest) = CapsOf(fields)
    BY <2>1, SameFiles
  <2> QED BY <2>2 DEF rest
<1> HIDE DEF q, d, e
<1>4. /\ q \in Capabilities /\ q.det = e.det /\ (q.site <=> attached) /\ q.amb = e.amb /\ SameAsk(q, e)
  BY <1>1, <1>2 DEF Capabilities, SameAsk
<1> QED BY <1>1, <1>3, <1>4 DEF q, d

-----------------------------------------------------------------------------
\* Where a form that behaves starts.
LEMMA FineStarts ==
    ASSUME scenario \in Scenarios, Fine(scenario)
    PROVE  /\ Total(0).caps = scenario.pack.caps /\ Total(0).looks = 0 /\ Total(0).blind = 0
           /\ scenario.entry = "href"
           /\ ~Preparing /\ ~LinkedIn /\ scenario.pack.caps.det => ~IsHeld(DocumentsAt(0))
<1>1. /\ Total(0) = AtFirst(scenario) /\ scenario.entry = "href"
      /\ ~Preparing /\ ~LinkedIn /\ scenario.pack.caps.det => ~IsHeld(DocumentsAt(0))
  BY FineGives, Zenon
<1> QED BY <1>1 DEF AtFirst

\* The look at the whole Seek form, and the documents that are made at once.
Seen == ApplyCaps(lz, Probe(Page.fields, Page.attached))
LEMMA SeenFinds ==
    ASSUME PlaceInv, Fine(scenario), at = 1, done = {}, TotalType, Agreed(Settings, lz), SoundDocs(scenario, lz),
           lz.caps = Total(0).caps
    PROVE  /\ Agreed(Settings, Seen) /\ SoundDocs(scenario, Seen) /\ Untaken(Seen.caps) /\ OwnFiles(Seen.caps, {})
           /\ Page.fields \cap FileFields = {} => Seen.caps = Total(0).caps
           /\ Page.fields \cap FileFields # {} => Comparable(scenario, Seen.caps, Total(1).caps)
<1> DEFINE q == Probe(Page.fields, Page.attached)
           d == CapsOf(Page.fields)
           b == Total(0).caps
           t == Total(1).caps
           c == MergeCaps(b, q)
           m == Seen
           seen == Page.attached /\ HasResume(Page)
<1>1. /\ q \in Capabilities /\ (q.det <=> Page.fields \cap FileFields # {}) /\ (q.site <=> Page.attached)
      /\ q.amb = FALSE /\ (q.det => SameAsk(q, d))
  <2>1. Page.attached \in BOOLEAN
    BY Here DEF PageRecords
  <2> QED BY <2>1, ProbeParts
<1>2. d \in Capabilities /\ b \in Capabilities
  BY CapsOfFields DEF TotalType
<1>3. /\ t \in Capabilities /\ SameAsk(t, MergeCaps(b, d)) /\ MergeCaps(b, d) \in Capabilities
      /\ t.site <=> b.site \/ seen
      /\ t.amb <=> b.amb \/ (seen /\ "resume" \in Page.fields /\ Settings.resumeMode # "site")
  BY Here, PageAdds
<1>4. Agreed(Settings, m) /\ m.caps = c
  BY <1>1, ApplyCapsAfter DEF After, Seen
<1>5. SoundDocs(scenario, m)
  <2>1. IsLazy(lz) /\ lz.hold = ""
    BY Zenon DEF Agreed, SoundDocs
  <2>2. Keeps(lz, m)
    BY <2>1, ApplyCapsKeepsFiles, Zenon DEF Seen
  <2> QED BY <2>2, SoundKept, Zenon
<1> HIDE DEF q, d, b, t, m, seen
<1>6. /\ c \in Capabilities /\ (~q.det => c = b) /\ (b.site => c.site) /\ (c.amb => b.amb)
      /\ q.det /\ q.site => c.site
  <2>1. c \in Capabilities /\ (~q.det => c = b)
    BY <1>1, <1>2, MergeParts
  <2>2. q.det => (c.site <=> b.site \/ q.site) /\ (c.amb <=> b.amb \/ q.amb)
    <3>1. q.det => c.site = (b.site \/ q.site) /\ c.amb = (b.amb \/ q.amb)
      BY <1>1, <1>2, MergeParts, Zenon
    <3>2. c.site \in BOOLEAN /\ c.amb \in BOOLEAN
      BY <2>1 DEF Capabilities
    <3> QED BY <3>1, <3>2
  <2>3. q.det \in BOOLEAN
    BY <1>1 DEF Capabilities
  <2> HIDE DEF c
  <2> QED BY <1>1, <2>1, <2>2, <2>3
<1>7. q.det => SameAsk(c, MergeCaps(b, d))
  BY <1>1, <1>2, MergeSame
<1>8. SameAsk(MergeCaps(c, d), t)
  <2>1. CASE ~q.det
    BY <1>3, <1>6, <2>1 DEF SameAsk
  <2>2. CASE q.det
    <3>1. SameAsk(MergeCaps(c, d), MergeCaps(MergeCaps(b, d), d))
      BY <1>2, <1>3, <1>6, <1>7, <2>2, MergeAlike
    <3>2. SameAsk(MergeCaps(MergeCaps(b, d), d), MergeCaps(b, d))
      BY <1>2, MergeAbsorbs
    <3> QED BY <1>3, <3>1, <3>2 DEF SameAsk
  <2> QED BY <2>1, <2>2
<1>9. Untaken(m.caps) /\ OwnFiles(m.caps, {})
  BY <1>3, <1>4, <1>6, <1>8 DEF Untaken, OwnFiles, b, t, d
<1>10. q.det => Comparable(scenario, c, t)
  <2> SUFFICES ASSUME q.det PROVE Comparable(scenario, c, t)
    OBVIOUS
  <2>1. SameAsk(c, t)
    BY <1>3, <1>7 DEF SameAsk
  <2>2. NoWorse(c, t)
    BY <1>1, <1>3, <1>6 DEF NoWorse, seen
  <2> QED BY <2>1, <2>2 DEF Comparable
<1> QED BY <1>1, <1>4, <1>5, <1>6, <1>9, <1>10 DEF m, b, t

LEMMA SeenSound ==
    ASSUME PlaceInv, Fine(scenario), at = 1, done = {}, TotalType, Agreed(Settings, lz), SoundDocs(scenario, lz),
           lz.caps = Total(0).caps, ~Preparing, ~LinkedIn
    PROVE  LET m == EnsureMaterialized(Seen, "none") IN
           SoundDocs(scenario, m) /\ Untaken(m.caps) /\ OwnFiles(m.caps, {}) /\ ~Blocked(m)
<1> DEFINE l == Seen
           m == EnsureMaterialized(l, "none")
           t(k) == Total(k).caps
<1>1. /\ Agreed(Settings, l) /\ SoundDocs(scenario, l) /\ Untaken(l.caps) /\ OwnFiles(l.caps, {})
      /\ Page.fields \cap FileFields = {} => l.caps = t(0)
      /\ Page.fields \cap FileFields # {} => Comparable(scenario, l.caps, t(1))
  BY SeenFinds
<1> HIDE DEF l
<1>2. m.caps = l.caps
  BY <1>1, EnsureAfter
<1>3. SoundDocs(scenario, m)
  <2>1. CASE ~MayMaterialize(l)
    BY <1>1, <2>1 DEF EnsureMaterialized
  <2>2. CASE MayMaterialize(l)
    <3>1. m = Materialized(l, scenario.settings, Fresh, "none")
      BY <2>2 DEF EnsureMaterialized, Settings
    <3>2. \E k \in {0, 1} : Comparable(scenario, l.caps, t(k)) /\ ~IsHeld(DocumentsAt(k))
      <4>1. CASE Page.fields \cap FileFields = {}
        <5>1. Comparable(scenario, l.caps, t(0))
          BY <1>1, <4>1 DEF Comparable, SameAsk, NoWorse
        <5>2. t(0) = scenario.pack.caps
          BY FineStarts DEF PlaceInv
        <5>3. scenario.pack.caps.det
          BY <1>1, <2>2, <4>1, <5>2 DEF MayMaterialize
        <5>4. ~IsHeld(DocumentsAt(0))
          BY <5>3, FineStarts DEF PlaceInv
        <5> QED BY <5>1, <5>4
      <4>2. CASE Page.fields \cap FileFields # {}
        <5>1. Page = PageAt(1) /\ PageDocuments(1)
          BY Here
        <5>2. ~IsHeld(DocumentsAt(1))
          BY <4>2, <5>1 DEF PageDocuments
        <5> QED BY <1>1, <4>2, <5>2
      <4> QED BY <4>1, <4>2
    <3>3. PICK k \in {0, 1} : Comparable(scenario, l.caps, t(k)) /\ ~IsHeld(DocumentsAt(k))
      BY <3>2
    <3>4. ~IsHeld(Resolve(scenario.settings, scenario.pack.sel, scenario.frozen, t(k)))
      BY <3>3 DEF DocumentsAt, DocumentsFor, Total
    <3> HIDE DEF m, t
    <3>5. \A fresh : SoundDocs(scenario, Materialized(l, scenario.settings, fresh, "none"))
      BY <1>1, <2>2, <3>3, <3>4, MadeSound DEF Settings
    <3> QED BY <3>1, <3>5
  <2> QED BY <2>1, <2>2
<1>4. m.hold = ""
  BY <1>3, Zenon DEF SoundDocs
<1>5. ~Blocked(m)
  BY <1>4, Zenon DEF Blocked
<1> HIDE DEF m
<1>6. Untaken(m.caps) /\ OwnFiles(m.caps, {})
  BY <1>1, <1>2
<1> QED BY <1>3, <1>5, <1>6 DEF m, l

-----------------------------------------------------------------------------
(* The steps, undisturbed. *)

\* A page is complete when the fields that it asks for are filled.
LEMMA Completes ==
    ASSUME scenario' = scenario, at' = at, Page \in PageRecords, Page.fields \cap {"stubborn", "odd"} = {},
           \A f \in Page.fields \cap Asked : f \in done' \/ (f = "resume" /\ Page.attached)
    PROVE  Complete'
<1>1. Page' = Page
  BY DEF Page
<1>2. \A f \in Page.fields : f \in {"stubborn", "odd", "resume", "cover", "question"} \/ f \in {"unnamed", "coverOptional"}
  BY DEF PageRecords, Fields, FileFields
<1> QED BY <1>1, <1>2 DEF Complete, HasFile, IsResume, Asked

\* Where the page stays, so does what is told of it.
LEMMA StillHere ==
    ASSUME scenario' = scenario, at' = at, moving' = moving, done' = done
    PROVE  Repeats' = Repeats /\ (Complete' <=> Complete) /\ Page' = Page
<1>1. Page' = Page
  BY DEF Page
<1> QED BY <1>1 DEF Repeats, Complete, HasFile, IsResume

\* What a step does to the place.
Turned ==
    /\ at' = at + 1 /\ moving' = 0 /\ done' = {} /\ Repeats' = 0
    /\ Looks' = Looks + 1 + Page.lag /\ Blinds' = Blinds + (IF HasResume(Page) THEN 0 ELSE 1 + Page.lag)
Stayed == at' = at /\ done' = done /\ Page' = Page /\ Looks' = Looks /\ Blinds' = Blinds

LEMMA PageTurned ==
    ASSUME PlaceInv, Fine(scenario), PageInv, DocsInv, Taken(lz.caps) \/ Preparing, ChosenInv,
           scenario' = scenario, lz' = lz, at' = at + 1, at < Len(scenario.pages), moving' = 0, done' = {},
           pc' \in {"head", "fill", "scan", "look", "seek"}
    PROVE  Turned /\ PageInv' /\ DocsInv'
<1>1. at \in Nat /\ Len(scenario.pages) \in Nat /\ at + 1 \in 1 .. Len(scenario.pages) /\ Page.lag \in Nat
  BY Here
<1>2. /\ Page' = PageAt(at + 1) /\ Page' \in PageRecords
      /\ Looks' = Looks + 1 + Page.lag /\ TotalType'
      /\ Blinds' = Blinds + (IF HasResume(Page) THEN 0 ELSE 1 + Page.lag)
      /\ \A c \in Capabilities : Taken(c) /\ OwnFiles(c, done) => Untaken(c)' /\ OwnFiles(c, {})'
  BY <1>1, PageTurns DEF PageInv
<1>3. Repeats' = 0
  BY DEF Repeats
<1>4. Page'.lag \in Nat
  BY <1>2 DEF PageRecords
<1>5. ~Passed'
  BY DEF Passed
<1>6. PageInv'
  BY <1>2, <1>4, <1>5 DEF PageInv
<1>7. DocsInv'
  <2>1. (Preparing' <=> Preparing) /\ pc' \notin EarlySteps
    BY Rigid DEF EarlySteps
  <2> SUFFICES ASSUME ~Preparing
      PROVE SoundDocs(scenario, lz)' /\ OwnFiles(lz.caps, done)' /\ Untaken(lz.caps)'
    BY <1>5, <2>1 DEF DocsInv
  <2>2. lz.caps \in Capabilities
    BY DEF ChosenInv, UploadInv, Agreed
  <2>3. SoundDocs(scenario, lz) /\ OwnFiles(lz.caps, done)
    BY DEF DocsInv
  <2>4. Untaken(lz.caps)' /\ OwnFiles(lz.caps, {})'
    BY <1>2, <2>2, <2>3
  <2>5. SoundDocs(scenario, lz)'
    BY <2>3
  <2> QED BY <2>4, <2>5
<1> QED BY <1>2, <1>3, <1>6, <1>7 DEF Turned

LEMMA PageKept ==
    ASSUME PlaceInv, PageInv, DocsInv, scenario' = scenario, lz' = lz, at' = at, done' = done,
           moving' \in 0 .. Page.lag, Passed' => Passed, pc' \notin EarlySteps,
           moving' = 0 /\ pc' \in NewPage => done = {}, moving' > 0 /\ pc' = "seek" => moving' < Page.lag
    PROVE  Stayed /\ PageInv' /\ DocsInv'
<1>1. /\ Page' = Page /\ Kind' = Kind /\ Looks' = Looks /\ Blinds' = Blinds /\ (TotalType' <=> TotalType)
      /\ \A c : Taken(c)' <=> Taken(c)
      /\ \A c, d : OwnFiles(c, d)' <=> OwnFiles(c, d)
  BY PageStays
<1>2. done = {} => \A c : Untaken(c)' <=> Untaken(c)
  BY PageStays DEF Untaken
<1>3. (Preparing' <=> Preparing) /\ (Settings' = Settings)
  BY Rigid
<1>4. Complete' <=> Complete
  BY <1>1 DEF Complete, HasFile, IsResume
<1>5. PageInv'
  BY <1>1, <1>3, <1>4 DEF PageInv
<1>6. DocsInv'
  <2> SUFFICES ASSUME ~Preparing
      PROVE SoundDocs(scenario, lz)' /\ OwnFiles(lz.caps, done)' /\ (Taken(lz.caps)' \/ (~Passed' /\ Untaken(lz.caps)'))
    BY <1>3 DEF DocsInv
  <2>1. SoundDocs(scenario, lz) /\ OwnFiles(lz.caps, done) /\ (Taken(lz.caps) \/ (~Passed /\ Untaken(lz.caps)))
    BY DEF DocsInv
  <2>2. SoundDocs(scenario, lz)'
    BY <2>1
  <2>3. Untaken(lz.caps) => Untaken(lz.caps)'
    BY <1>2 DEF Untaken
  <2> QED BY <1>1, <2>1, <2>2, <2>3
<1> QED BY <1>1, <1>5, <1>6 DEF Stayed

\* A look while the next page is on its way, or at one that stays.
LEMMA ArriveGoes ==
    ASSUME PlaceInv, ChosenInv, Fine(scenario), PageInv, DocsInv, scenario' = scenario, lz' = lz, Arrive,
           pc \in {"head", "look"}, pc' \in {"fill", "scan", "seek"}
    PROVE  /\ PageInv' /\ DocsInv' /\ moving \in 0 .. Page.lag /\ Page.lag \in Nat
           /\ \/ moving = 1 /\ Turned
              \/ moving > 1 /\ moving' = moving - 1 /\ Stayed
              \/ moving = 0 /\ moving' = 0 /\ Stayed
<1>1. Page.lag \in Nat /\ moving \in 0 .. Page.lag /\ Len(scenario.pages) \in Nat
  BY Here DEF PageInv
<1>2. pc' \notin EarlySteps /\ pc \in NewPage /\ (Passed <=> moving > 0) /\ (Passed' <=> moving' > 0)
  BY DEF EarlySteps, NewPage, Passed
<1>3. CASE moving = 1
  <2>1. at' = at + 1 /\ moving' = 0 /\ done' = {}
    BY <1>3 DEF Arrive
  <2>2. at < Len(scenario.pages)
    BY <1>3 DEF PlaceInv
  <2>3. Taken(lz.caps) \/ Preparing
    BY <1>2, <1>3 DEF DocsInv
  <2>4. Turned /\ PageInv' /\ DocsInv'
    BY <2>1, <2>2, <2>3, PageTurned
  <2> QED BY <1>1, <1>3, <2>4
<1>4. CASE moving > 1
  <2>1. at' = at /\ moving' = moving - 1 /\ done' = done
    BY <1>1, <1>4 DEF Arrive
  <2>2. Stayed /\ PageInv' /\ DocsInv'
    BY <1>1, <1>2, <1>4, <2>1, PageKept
  <2> QED BY <1>1, <1>4, <2>1, <2>2
<1>5. CASE moving = 0
  <2>1. at' = at /\ moving' = 0 /\ done' = done
    BY <1>5 DEF Arrive
  <2>2. done = {}
    BY <1>2, <1>5 DEF PageInv
  <2>3. Stayed /\ PageInv' /\ DocsInv'
    BY <1>1, <1>2, <1>5, <2>1, <2>2, PageKept
  <2> QED BY <1>1, <1>5, <2>1, <2>3
<1> QED BY <1>1, <1>3, <1>4, <1>5

\* A click on a page that was filled.
LEMMA AdvanceGoes ==
    ASSUME PlaceInv, ChosenInv, Fine(scenario), PageInv, DocsInv, scenario' = scenario, lz' = lz, Advance,
           Kind = "next", pc \in {"click", "navigate", "seekClick"}, pc' \in {"head", "look"}
    PROVE  /\ PageInv' /\ DocsInv' /\ moving \in 0 .. Page.lag /\ Page.lag \in Nat
           /\ \/ moving = 0 /\ Page.lag = 0 /\ Turned
              \/ moving = 0 /\ Page.lag > 0 /\ moving' = Page.lag /\ Stayed
              \/ moving > 0 /\ moving' = moving /\ Stayed
<1>1. /\ Page.lag \in Nat /\ moving \in 0 .. Page.lag /\ Len(scenario.pages) \in Nat
      /\ at \in 1 .. Len(scenario.pages) /\ at # Len(scenario.pages)
  BY Here DEF PageInv
<1>2. at < Len(scenario.pages)
  BY <1>1
<1>3. Passed /\ pc' \notin EarlySteps
  BY DEF Passed, EarlySteps
<1>4. Complete /\ (Taken(lz.caps) \/ Preparing)
  BY <1>3 DEF PageInv, DocsInv
<1>5. CASE moving = 0 /\ Page.lag = 0
  <2>1. at' = at + 1 /\ moving' = 0 /\ done' = {}
    BY <1>2, <1>4, <1>5 DEF Advance
  <2>2. Turned /\ PageInv' /\ DocsInv'
    BY <1>2, <1>4, <2>1, PageTurned
  <2> QED BY <1>1, <1>5, <2>2
<1>6. CASE moving = 0 /\ Page.lag > 0
  <2>1. at' = at /\ moving' = Page.lag /\ done' = done
    BY <1>1, <1>2, <1>4, <1>6 DEF Advance, site
  <2>2. Stayed /\ PageInv' /\ DocsInv'
    BY <1>1, <1>3, <1>6, <2>1, PageKept
  <2> QED BY <1>1, <1>6, <2>1, <2>2
<1>7. CASE moving > 0
  <2>1. at' = at /\ moving' = moving /\ done' = done
    BY <1>1, <1>7 DEF Advance, site
  <2>2. Stayed /\ PageInv' /\ DocsInv'
    BY <1>1, <1>3, <1>7, <2>1, PageKept
  <2> QED BY <1>1, <1>7, <2>1, <2>2
<1> QED BY <1>1, <1>5, <1>6, <1>7

-----------------------------------------------------------------------------
\* A pass through a form that behaves, and a step that nothing disturbs.
Going == PlaceInv /\ ChosenInv /\ Fine(scenario) /\ OnCourse
Calm == scenario' = scenario /\ disturbed = 0 /\ disturbed' = 0

LEMMA CalmGives ==
    ASSUME Calm
    PROVE  (Preparing' <=> Preparing) /\ (LinkedIn' <=> LinkedIn) /\ Settings' = Settings /\ ~Disturb
BY Rigid DEF Calm, Disturb

\* The counters of a pass, where it has not come to its end.
LEMMA Counters ==
    ASSUME Going, pc \notin {"confirm", "done"}
    PROVE  /\ PageInv /\ DocsInv /\ PaceInv /\ StuckInv /\ RunType
           /\ Looks \in Nat /\ Blinds \in Nat /\ Limit \in Nat /\ Looks + 1 + Page.lag < Limit
           /\ Page.lag \in Nat /\ moving \in 0 .. Page.lag /\ at \in Nat
           /\ Repeats \in Nat /\ (moving > 0 => Repeats < Page.lag) /\ (moving = 0 => Repeats = 0)
           /\ Kind = IF at = Len(scenario.pages) THEN "submit" ELSE "next"
<1>1. PageInv /\ DocsInv /\ PaceInv /\ StuckInv
  BY DEF Going, OnCourse
<1>2. Page.lag \in Nat /\ at \in Nat /\ Kind = IF at = Len(scenario.pages) THEN "submit" ELSE "next"
  BY Here DEF Going
<1>3. moving \in 0 .. Page.lag
  BY <1>1 DEF PageInv
<1>4. Repeats \in Nat /\ (moving > 0 => Repeats < Page.lag) /\ (moving = 0 => Repeats = 0)
  BY <1>2, <1>3 DEF Repeats
<1>5. Looks \in Nat /\ Blinds \in Nat /\ Limit \in Nat /\ Looks + 1 + Page.lag < Limit
  BY WithinLimits DEF Going
<1> QED BY <1>1, <1>2, <1>3, <1>4, <1>5 DEF PaceInv

\* The top of the loop.
LEMMA HeadOnCourse ==
    ASSUME Going, Calm, LoopHead
    PROVE  OnCourse'
<1>1. /\ pc = "head" /\ Arrive /\ pc' = "fill" /\ lz' = lz /\ slips' = slips
      /\ run' = [run EXCEPT !.i = @ + 1, !.prev = at',
                            !.same = IF at' = run.prev /\ ~scenario.pages[at'].plain THEN @ + 1 ELSE 0]
  BY DEF LoopHead, Continue
<1>2. LinkedIn /\ ~Preparing /\ LinkedIn' /\ ~Preparing'
  <2>1. PathInv
    BY DEF Going, OnCourse
  <2>2. LinkedIn /\ ~Preparing
    BY <1>1, <2>1 DEF PathInv
  <2> QED BY <2>2, CalmGives
<1>3. /\ PageInv /\ DocsInv /\ PaceInv /\ StuckInv /\ RunType
      /\ Looks \in Nat /\ Blinds \in Nat /\ Page.lag \in Nat /\ moving \in 0 .. Page.lag /\ at \in Nat
  BY <1>1, Counters
<1>4. /\ PageInv' /\ DocsInv'
      /\ \/ moving = 1 /\ Turned
         \/ moving > 1 /\ moving' = moving - 1 /\ Stayed
         \/ moving = 0 /\ moving' = 0 /\ Stayed
  BY <1>1, <1>3, ArriveGoes DEF Going, Calm
<1> DEFINE same == IF at' = run.prev /\ ~scenario.pages[at'].plain THEN run.same + 1 ELSE 0
<1>5. at' \in Nat /\ same \in Nat
  BY <1>3, <1>4 DEF Turned, Stayed, RunType, Runs
<1>6. /\ RunType' /\ run'.i = run.i + 1 /\ run'.prev = at' /\ run'.same = same
      /\ run'.unfillable = run.unfillable /\ run'.missing = run.missing /\ run'.blind = run.blind
  <2> DEFINE i == run.i + 1
  <2>1. run' = [run EXCEPT !.i = i, !.prev = at', !.same = same]
    BY <1>1, <1>3 DEF RunType, Runs
  <2>2. i \in Nat /\ run \in Runs
    BY <1>3 DEF RunType, Runs
  <2> HIDE DEF same, i
  <2>3. /\ run' \in Runs /\ run'.i = i /\ run'.prev = at' /\ run'.same = same
        /\ run'.unfillable = run.unfillable /\ run'.missing = run.missing /\ run'.blind = run.blind
    BY <1>5, <2>1, <2>2 DEF Runs
  <2> QED BY <2>3 DEF RunType, i
<1>7. same = 0 \/ (at' = run.prev /\ same = run.same + 1)
  OBVIOUS
<1> HIDE DEF same
<1>8. /\ run.i <= Looks + (IF moving = 0 THEN 0 ELSE 1 + Repeats)
      /\ run.prev <= at /\ (moving = 0 => run.prev < at) /\ (moving > 0 => run.same <= Repeats)
      /\ run.missing = 0 /\ run.unfillable = 0
      /\ run.blind <= Blinds + (IF moving = 0 \/ HasResume(Page) THEN 0 ELSE 1 + Repeats)
  BY <1>1, <1>2, <1>3 DEF PaceInv, StuckInv
<1>9. {run.i, run.prev, run.same, run.blind} \subseteq Nat
  BY <1>3 DEF RunType, Runs
<1>10. CASE moving = 1 /\ Turned
  <2>1. /\ at' = at + 1 /\ Repeats' = 0 /\ Looks' = Looks + 1 + Page.lag
        /\ Blinds' = Blinds + (IF HasResume(Page) THEN 0 ELSE 1 + Page.lag) /\ moving' = 0
    BY <1>10 DEF Turned
  <2>2. Repeats = Page.lag - 1
    BY <1>10 DEF Repeats
  <2>3. run'.i <= Looks' + 1 + Repeats'
    BY <1>3, <1>6, <1>8, <1>9, <1>10, <2>1, <2>2
  <2>4. run'.same = 0
    BY <1>3, <1>6, <1>7, <1>8, <1>9, <2>1
  <2>5. run'.blind <= Blinds'
    BY <1>3, <1>6, <1>8, <1>9, <1>10, <2>1, <2>2
  <2>6. PaceInv'
    BY <1>1, <1>6, <2>3 DEF PaceInv, EarlySteps
  <2>7. run'.blind <= (Blinds + (IF HasResume(Page) THEN 0 ELSE Repeats))'
    BY <2>1, <2>5
  <2>8. StuckInv'
    BY <1>1, <1>5, <1>6, <1>8, <2>1, <2>4, <2>7 DEF StuckInv
  <2> QED BY <2>6, <2>8, <1>1, <1>2, <1>4 DEF Going, OnCourse, PathInv
<1>11. CASE (moving > 1 /\ moving' = moving - 1 /\ Stayed) \/ (moving = 0 /\ moving' = 0 /\ Stayed)
  <2>1. at' = at /\ Page' = Page /\ Looks' = Looks /\ Blinds' = Blinds
    BY <1>11 DEF Stayed
  <2>2. Repeats' = IF moving = 0 THEN 0 ELSE Repeats + 1
    BY <1>3, <1>11, <2>1 DEF Repeats
  <2>3. Repeats \in Nat /\ (moving = 0 => Repeats = 0)
    BY <1>1, Counters
  <2>4. run'.i <= Looks' + 1 + Repeats'
    BY <1>3, <1>6, <1>8, <1>9, <1>11, <2>1, <2>2, <2>3
  <2>5. run'.same <= Repeats'
    BY <1>3, <1>6, <1>7, <1>8, <1>9, <1>11, <2>1, <2>2, <2>3
  <2>6. run'.blind <= Blinds' + (IF HasResume(Page') THEN 0 ELSE Repeats')
    BY <1>3, <1>6, <1>8, <1>9, <1>11, <2>1, <2>2, <2>3
  <2>7. PaceInv'
    BY <1>1, <1>6, <2>4 DEF PaceInv, EarlySteps
  <2>8. StuckInv'
    BY <1>1, <1>5, <1>6, <1>8, <2>5, <2>6 DEF StuckInv
  <2> QED BY <2>7, <2>8, <1>1, <1>2, <1>4 DEF Going, OnCourse, PathInv
<1> QED BY <1>4, <1>10, <1>11

\* What a filling costs, and what one comes to that costs nothing.
LEMMA FillCosts == \A o \in FillOutcomes : o.cost \in Nat
<1> SUFFICES ASSUME NEW o \in FillOutcomes PROVE o.cost \in Nat
  OBVIOUS
<1>1. PICK m \in Made(Looked(lz)) : \E slip : o = FillOutcome(m[1], m[2], m[3], slip)
  BY DEF FillOutcomes
<1>2. PICK slip : o = FillOutcome(m[1], m[2], m[3], slip)
  BY <1>1
<1>3. o.cost = m[3] + (IF slip = "none" THEN 0 ELSE 1)
  BY <1>2 DEF FillOutcome
<1> DEFINE l == Looked(lz)
<1> HIDE DEF l
<1>4. m[3] \in {0, 1}
  BY <1>1 DEF Made, l
<1> QED BY <1>3, <1>4

LEMMA FillSucceeds ==
    ASSUME Going, Calm, pc \in {"fill", "seek"}, ~Preparing, NEW o \in FillOutcomes, Costs(o.cost)
    PROVE  /\ ~o.failed /\ o.filled \subseteq Page.fields
           /\ SoundDocs(scenario, o.lz) /\ Taken(o.lz.caps) /\ OwnFiles(o.lz.caps, done \cup o.filled)
           /\ Page.fields \cap Asked \subseteq done \cup o.filled
           /\ HasResume(Page) => o.filled # {}
           /\ ~LinkedIn /\ HasFields => o.filled # {}
<1>1. o.cost = 0
  BY FillCosts DEF Costs, Calm
<1>2. /\ PageInv /\ DocsInv /\ Page.lag \in Nat /\ moving \in 0 .. Page.lag
  BY Counters
<1>3. /\ PageShape(at) /\ PageDocuments(at) /\ scenario \in Scenarios /\ Page \in PageRecords
      /\ Page.fields \cap {"stubborn", "odd"} = {}
  BY Here DEF Going, PageShape
<1>4. /\ TotalType /\ done \subseteq Page.fields /\ (moving = 0 => done = {})
      /\ moving > 0 /\ pc = "seek" => moving < Page.lag
  BY <1>2 DEF PageInv, NewPage
<1>5. Agreed(Settings, lz)
  BY DEF Going, ChosenInv, UploadInv
<1>6. SoundDocs(scenario, lz) /\ OwnFiles(lz.caps, done) /\ (Taken(lz.caps) \/ Untaken(lz.caps))
  BY <1>2 DEF DocsInv
<1>7. /\ ~o.failed /\ o.filled \subseteq Page.fields
      /\ SoundDocs(scenario, o.lz) /\ Taken(o.lz.caps) /\ OwnFiles(o.lz.caps, done \cup o.filled)
      /\ Page.fields \cap Asked \subseteq done \cup o.filled
      /\ HasResume(Page) => o.filled # {}
      /\ ~LinkedIn /\ (done = {} \/ Page.lag > 1) /\ Scanned # {} => o.filled # {}
  BY <1>1, <1>3, <1>4, <1>5, <1>6, FineFill
<1>8. ~LinkedIn => pc = "seek"
  <2>1. PathInv
    BY DEF Going, OnCourse
  <2> QED BY <2>1 DEF PathInv
<1>9. ~LinkedIn => done = {} \/ Page.lag > 1
  BY <1>2, <1>4, <1>8
<1> QED BY <1>3, <1>7, <1>9 DEF HasFields

LEMMA CalmFill ==
    ASSUME Going, Calm, pc \in {"fill", "seek"}, ~Preparing, NEW o \in FillOutcomes, Fill(o),
           at' = at, moving' = moving, pc' \in {"click", "seekClick"}
    PROVE  PageInv' /\ DocsInv' /\ Page' = Page /\ Repeats' = Repeats /\ Looks' = Looks /\ Blinds' = Blinds
<1>1. Costs(o.cost) /\ lz' = o.lz /\ done' = done \cup o.filled
  BY DEF Fill
<1>2. PageInv /\ Page.lag \in Nat /\ moving \in 0 .. Page.lag
  BY Counters
<1>3. Page \in PageRecords /\ Page.fields \cap {"stubborn", "odd"} = {}
  BY Here DEF Going, PageShape
<1>4. TotalType /\ done \subseteq Page.fields
  BY <1>2 DEF PageInv
<1>7. /\ o.filled \subseteq Page.fields
      /\ SoundDocs(scenario, o.lz) /\ Taken(o.lz.caps) /\ OwnFiles(o.lz.caps, done \cup o.filled)
      /\ Page.fields \cap Asked \subseteq done \cup o.filled
  BY <1>1, FillSucceeds
<1>9. scenario' = scenario /\ (Preparing' <=> Preparing)
  BY CalmGives DEF Calm
<1>10. Complete'
  BY <1>1, <1>3, <1>7, <1>9, Completes
<1>11. /\ Page' = Page /\ Looks' = Looks /\ Blinds' = Blinds /\ (TotalType' <=> TotalType)
       /\ \A c : Taken(c)' <=> Taken(c)
       /\ \A c, d : OwnFiles(c, d)' <=> OwnFiles(c, d)
  BY <1>9, PageStays
<1>12. Repeats' = Repeats
  BY <1>11 DEF Repeats
<1>13. PageInv'
  BY <1>1, <1>2, <1>4, <1>7, <1>10, <1>11 DEF PageInv, NewPage, EarlySteps
<1>14. DocsInv'
  <2>1. SoundDocs(scenario, lz)'
    BY <1>1, <1>7, <1>9
  <2>2. Taken(lz.caps)' /\ OwnFiles(lz.caps, done)'
    BY <1>1, <1>7, <1>11
  <2> QED BY <2>1, <2>2 DEF DocsInv, EarlySteps
<1> QED BY <1>11, <1>12, <1>13, <1>14

LEMMA FillOnCourse ==
    ASSUME Going, Calm, FillStep
    PROVE  OnCourse'
<1>1. pc = "fill" /\ at' = at /\ moving' = moving /\ slips' = slips
  BY DEF FillStep, site
<1>2. LinkedIn /\ ~Preparing /\ LinkedIn' /\ ~Preparing' /\ slips = {}
  <2>1. PathInv
    BY DEF Going, OnCourse
  <2>2. LinkedIn /\ ~Preparing /\ slips = {}
    BY <1>1, <2>1 DEF PathInv
  <2> QED BY <2>2, CalmGives
<1>3. PICK o \in FillOutcomes :
        LET n == IF HasFields /\ o.filled = {} THEN run.unfillable + 1 ELSE 0 IN
        /\ Fill(o)
        /\ IF o.failed THEN Return("failed") /\ UNCHANGED run
           ELSE /\ run' = [run EXCEPT !.unfillable = n, !.filled = o.filled # {}]
                /\ IF n >= MaxUnfillable THEN Return("failed") ELSE Continue("click")
  BY DEF FillStep
<1> DEFINE n == IF HasFields /\ o.filled = {} THEN run.unfillable + 1 ELSE 0
           filled == o.filled # {}
<1>4. /\ PaceInv /\ StuckInv /\ RunType /\ at \in Nat
  BY <1>1, Counters
<1>5. n \in {0, 1} /\ ~(n >= MaxUnfillable)
  BY <1>1, <1>2, <1>4, LimitsAssumption DEF StuckInv
<1>6. ~o.failed /\ (HasResume(Page) => filled)
  BY <1>1, <1>2, <1>3, FillSucceeds DEF Fill
<1>7. Fill(o) /\ pc' = "click" /\ run' = [run EXCEPT !.unfillable = n, !.filled = filled]
  BY <1>3, <1>5, <1>6 DEF Continue
<1>8. /\ PageInv' /\ DocsInv' /\ Page' = Page /\ Repeats' = Repeats /\ Looks' = Looks /\ Blinds' = Blinds
  BY <1>1, <1>2, <1>7, CalmFill
<1>9. n \in Nat /\ filled \in BOOLEAN
  BY <1>5
<1> HIDE DEF n, filled
<1>10. /\ RunType' /\ run'.i = run.i /\ run'.prev = run.prev /\ run'.same = run.same
       /\ run'.missing = run.missing /\ run'.blind = run.blind /\ run'.filled = filled
  BY <1>4, <1>7, <1>9 DEF RunType, Runs
<1>11. PaceInv'
  BY <1>1, <1>4, <1>7, <1>8, <1>10 DEF PaceInv, EarlySteps
<1>12. StuckInv'
  BY <1>1, <1>2, <1>4, <1>6, <1>7, <1>8, <1>10 DEF StuckInv
<1>13. PathInv'
  BY <1>1, <1>2, <1>7 DEF PathInv
<1> QED BY <1>8, <1>11, <1>12, <1>13 DEF OnCourse

\* A click on Next, and its judgement.
LEMMA JudgedOn ==
    ASSUME Going, pc = "click", LinkedIn, ~Preparing, Judge(TRUE)
    PROVE  /\ pc' = "head" /\ RunType' /\ run'.i = run.i /\ run'.prev = run.prev /\ run'.same = run.same
           /\ run'.missing = 0 /\ run'.unfillable = 0 /\ run'.blind = IF run.filled THEN 0 ELSE run.blind + 1
<1>1. /\ StuckInv /\ RunType /\ Page.lag \in Nat /\ moving \in 0 .. Page.lag
      /\ Repeats \in Nat /\ (moving > 0 => Repeats < Page.lag) /\ (moving = 0 => Repeats = 0) /\ Blinds \in Nat
  BY Counters
<1>2. /\ run.same <= Repeats /\ run.blind <= Blinds + (IF HasResume(Page) THEN 0 ELSE Repeats)
      /\ HasResume(Page) => run.filled
  BY <1>1 DEF StuckInv
<1>3. StuckAt["filled"] \in Nat \ {0} /\ StuckAt["blind"] \in Nat \ {0}
  BY StuckAtAssumption
<1>4. Page.lag <= StuckAt["filled"] /\ Page.lag <= StuckAt["blind"]
  <2>1. scenario.site = "linkedin" /\ scenario.mode # "prepare"
    BY DEF LinkedIn, Preparing
  <2>2. NotStuck(scenario, Page)
    BY Here DEF Going, PageShape
  <2> QED BY <2>1, <2>2 DEF NotStuck
<1>5. run.same < StuckAt["filled"] /\ run.same < StuckAt["blind"]
  BY <1>1, <1>2, <1>3, <1>4 DEF RunType, Runs
<1> DEFINE blind == IF run.filled THEN 0 ELSE run.blind + 1
<1>6. blind \in Nat /\ blind < MaxBlind
  <2>1. Total(at).blind = Blinds + (IF HasResume(Page) THEN 0 ELSE 1 + Page.lag) /\ Total(at).blind < MaxBlind
    BY WithinLimits DEF Going
  <2>2. MaxBlind \in Nat \ {0}
    BY LimitsAssumption
  <2> QED BY <1>1, <1>2, <2>1, <2>2 DEF RunType, Runs
<1>7. MaxMissing \in Nat \ {0}
  BY LimitsAssumption
<1> DEFINE limit == CASE ~TRUE -> StuckAt["refused"]
                     [] TRUE /\ run.filled -> StuckAt["filled"]
                     [] OTHER -> StuckAt["blind"]
           clicks == IF ~TRUE THEN run.blind ELSE IF run.filled THEN 0 ELSE run.blind + 1
           missing == IF TRUE THEN 0 ELSE run.missing + 1
           unfillable == IF TRUE THEN 0 ELSE run.unfillable
<1>a. IF run.same >= limit
      THEN /\ UNCHANGED run
           /\ IF Complete THEN Return("failed") ELSE Continue("refill")
      ELSE /\ run' = [run EXCEPT !.missing = missing, !.blind = clicks, !.unfillable = IF TRUE THEN 0 ELSE @]
           /\ IF missing >= MaxMissing \/ clicks >= MaxBlind THEN Return("failed") ELSE Continue("head")
  BY Zenon DEF Judge
<1>b. limit \in {StuckAt["filled"], StuckAt["blind"]}
  OBVIOUS
<1>c. clicks = blind /\ missing = 0 /\ unfillable = 0
  OBVIOUS
<1> HIDE DEF limit, clicks, missing, blind
<1>d. ~(run.same >= limit)
  BY <1>1, <1>3, <1>5, <1>b DEF RunType, Runs
<1>e. ~(missing >= MaxMissing \/ clicks >= MaxBlind)
  BY <1>6, <1>7, <1>c, LimitsAssumption
<1>9. pc' = "head"
  BY <1>a, <1>d, <1>e DEF Continue
<1>f. run' = [run EXCEPT !.missing = missing, !.blind = clicks, !.unfillable = unfillable]
  BY <1>a, <1>d, <1>e
<1> HIDE DEF unfillable
<1>8. run' = [run EXCEPT !.missing = 0, !.blind = blind, !.unfillable = 0]
  BY <1>c, <1>f
<1>10. /\ RunType' /\ run'.i = run.i /\ run'.prev = run.prev /\ run'.same = run.same
       /\ run'.missing = 0 /\ run'.unfillable = 0 /\ run'.blind = blind
  BY <1>1, <1>6, <1>8 DEF RunType, Runs
<1> QED BY <1>9, <1>10 DEF blind

LEMMA NextOnCourse ==
    ASSUME Going, Calm, ClickNext
    PROVE  OnCourse'
<1>1. pc = "click" /\ lz' = lz /\ slips' = slips /\ Kind # "submit"
  BY DEF ClickNext
<1>2. LinkedIn /\ ~Preparing /\ LinkedIn' /\ ~Preparing' /\ slips = {}
  <2>1. PathInv
    BY DEF Going, OnCourse
  <2>2. LinkedIn /\ ~Preparing /\ slips = {}
    BY <1>1, <2>1 DEF PathInv
  <2> QED BY <2>2, CalmGives
<1>3. /\ PageInv /\ DocsInv /\ PaceInv /\ StuckInv /\ RunType /\ Kind = "next"
      /\ Looks \in Nat /\ Blinds \in Nat /\ Page.lag \in Nat /\ moving \in 0 .. Page.lag /\ at \in Nat
      /\ Repeats \in Nat /\ (moving = 0 => Repeats = 0)
  BY <1>1, Counters
<1>4. Advance /\ Judge(TRUE)
  BY <1>3, CalmGives, Zenon DEF ClickNext
<1>5. /\ pc' = "head" /\ RunType' /\ run'.i = run.i /\ run'.prev = run.prev /\ run'.same = run.same
      /\ run'.missing = 0 /\ run'.unfillable = 0 /\ run'.blind = IF run.filled THEN 0 ELSE run.blind + 1
  BY <1>1, <1>2, <1>4, JudgedOn
<1>6. /\ PageInv' /\ DocsInv'
      /\ \/ moving = 0 /\ Page.lag = 0 /\ Turned
         \/ moving = 0 /\ Page.lag > 0 /\ moving' = Page.lag /\ Stayed
         \/ moving > 0 /\ moving' = moving /\ Stayed
  BY <1>1, <1>3, <1>4, <1>5, AdvanceGoes DEF Going, Calm
<1>7. /\ run.i <= Looks + 1 + Repeats /\ run.prev = at /\ run.same <= Repeats
      /\ run.blind <= Blinds + (IF HasResume(Page) THEN 0 ELSE Repeats)
      /\ HasResume(Page) => run.filled
  BY <1>1, <1>2, <1>3 DEF PaceInv, StuckInv
<1>8. {run.i, run.prev, run.same, run.blind} \subseteq Nat
  BY <1>3 DEF RunType, Runs
<1>9. CASE moving = 0 /\ Page.lag = 0 /\ Turned
  <2>1. /\ at' = at + 1 /\ Repeats' = 0 /\ Looks' = Looks + 1 + Page.lag
        /\ Blinds' = Blinds + (IF HasResume(Page) THEN 0 ELSE 1 + Page.lag) /\ moving' = 0
    BY <1>9 DEF Turned
  <2>2. run'.i <= Looks' /\ run'.prev < at'
    BY <1>3, <1>5, <1>7, <1>8, <1>9, <2>1
  <2>3. run'.blind <= Blinds'
    BY <1>3, <1>5, <1>7, <1>8, <1>9, <2>1
  <2>4. PaceInv'
    BY <1>5, <2>1, <2>2 DEF PaceInv, EarlySteps
  <2>5. Blinds' \in Nat /\ at' \in Nat /\ run'.prev <= at'
    BY <1>3, <1>5, <1>8, <2>1, <2>2
  <2>6. StuckInv'
    BY <1>2, <1>5, <2>1, <2>2, <2>3, <2>5 DEF StuckInv
  <2> QED BY <1>1, <1>2, <1>5, <1>6, <2>4, <2>6 DEF OnCourse, PathInv
<1>10. CASE (moving = 0 /\ Page.lag > 0 /\ moving' = Page.lag /\ Stayed) \/ (moving > 0 /\ moving' = moving /\ Stayed)
  <2>1. at' = at /\ Page' = Page /\ Looks' = Looks /\ Blinds' = Blinds
    BY <1>10 DEF Stayed
  <2>2. Repeats' = Repeats /\ moving' > 0 /\ moving' # 0
    BY <1>3, <1>10, <2>1 DEF Repeats
  <2>3. run'.i <= Looks' + 1 + Repeats' /\ run'.same <= Repeats' /\ run'.prev <= at'
    BY <1>3, <1>5, <1>7, <1>8, <2>1, <2>2
  <2>4. run'.blind <= Blinds' + (IF HasResume(Page') THEN 0 ELSE 1 + Repeats')
    BY <1>3, <1>5, <1>7, <1>8, <2>1, <2>2
  <2>5. Looks' + (1 + Repeats') = Looks' + 1 + Repeats'
    BY <1>3, <2>1, <2>2
  <2>6. PaceInv'
    BY <1>5, <2>2, <2>3, <2>5 DEF PaceInv, EarlySteps
  <2>7. StuckInv'
    BY <1>2, <1>5, <2>2, <2>3, <2>4 DEF StuckInv
  <2> QED BY <1>1, <1>2, <1>5, <1>6, <2>6, <2>7 DEF OnCourse, PathInv
<1> QED BY <1>6, <1>9, <1>10

\* The button that sends is on a page that is complete.
LEMMA SubmitOnCourse ==
    ASSUME Going, Calm, ClickSubmit
    PROVE  OnCourse'
<1>1. pc = "click" /\ Kind = "submit" /\ slips' = slips
  BY DEF ClickSubmit
<1>2. LinkedIn /\ ~Preparing /\ LinkedIn' /\ ~Preparing' /\ slips = {}
  <2>1. PathInv
    BY DEF Going, OnCourse
  <2>2. LinkedIn /\ ~Preparing /\ slips = {}
    BY <1>1, <2>1 DEF PathInv
  <2> QED BY <2>2, CalmGives
<1>3. Complete
  <2>1. PageInv
    BY <1>1, Counters
  <2> QED BY <1>1, <1>2, <2>1 DEF PageInv, Passed
<1>4. sent' = Complete /\ pc' = "confirm"
  BY CalmGives DEF ClickSubmit, Continue
<1> QED BY <1>1, <1>2, <1>3, <1>4 DEF OnCourse, PathInv

\* What was sent is confirmed.
LEMMA ConfirmOnCourse ==
    ASSUME Going, Calm, Confirm \/ SeekConfirm
    PROVE  OnCourse'
<1>1. pc = "confirm" /\ slips' = slips /\ PathInv
  BY DEF Confirm, SeekConfirm, Going, OnCourse
<1>2. sent /\ ~Preparing /\ ~Preparing' /\ slips = {}
  <2>1. sent /\ ~Preparing /\ slips = {}
    BY <1>1 DEF PathInv
  <2> QED BY <2>1, CalmGives
<1>3. pc' = "done" /\ result' = "submitted"
  BY <1>2, CalmGives DEF Confirm, SeekConfirm, Return
<1> QED BY <1>1, <1>2, <1>3 DEF OnCourse, PathInv

\* The steps before the first page.
LEMMA EarlyKept ==
    ASSUME Going, Calm, pc \in EarlySteps, UNCHANGED <<lz, at, moving, done, run>>,
           pc' \in EarlySteps \cup {"head", "scan", "seek"}
    PROVE  PageInv' /\ DocsInv' /\ PaceInv' /\ StuckInv'
<1>1. /\ PageInv /\ DocsInv /\ PaceInv /\ run = NoRun /\ Looks \in Nat /\ Blinds \in Nat /\ at = 1 /\ moving = 0
      /\ ~Passed /\ ~Passed' /\ done = {} /\ Page.lag \in Nat
  <2>1. pc \notin {"confirm", "done"} /\ at = 1 /\ moving = 0 /\ pc \in NewPage
    BY DEF Going, PlaceInv, EarlySteps, NewPage
  <2>2. ~Passed /\ ~Passed'
    BY <2>1 DEF Passed, EarlySteps
  <2>3. PageInv /\ DocsInv /\ PaceInv /\ Looks \in Nat /\ Blinds \in Nat /\ Page.lag \in Nat
    BY <2>1, Counters
  <2> QED BY <2>1, <2>2, <2>3 DEF PageInv, PaceInv
<1>2. scenario' = scenario /\ at' = at /\ moving' = moving /\ done' = done /\ lz' = lz /\ run' = NoRun
  BY <1>1 DEF Calm
<1>3. /\ Page' = Page /\ Looks' = Looks /\ Blinds' = Blinds /\ (TotalType' <=> TotalType)
      /\ \A c : Taken(c)' <=> Taken(c)
      /\ \A c, d : OwnFiles(c, d)' <=> OwnFiles(c, d)
  BY <1>2, PageStays
<1>4. \A c : Untaken(c)' <=> Untaken(c)
  BY <1>1, <1>2, PageStays DEF Untaken
<1>5. PageInv'
  BY <1>1, <1>2, <1>3 DEF PageInv
<1>6. DocsInv'
  <2> SUFFICES ASSUME ~Preparing
      PROVE /\ SoundDocs(scenario, lz)' /\ OwnFiles(lz.caps, done)' /\ (Taken(lz.caps)' \/ Untaken(lz.caps)')
            /\ lz'.caps = scenario'.pack.caps
    BY <1>1, CalmGives DEF DocsInv
  <2>1. /\ SoundDocs(scenario, lz) /\ OwnFiles(lz.caps, done) /\ (Taken(lz.caps) \/ Untaken(lz.caps))
        /\ lz.caps = scenario.pack.caps
    BY <1>1 DEF DocsInv
  <2>2. SoundDocs(scenario, lz)'
    BY <1>2, <2>1
  <2> QED BY <1>2, <1>3, <1>4, <2>1, <2>2
<1>7. Repeats' = 0
  BY <1>1, <1>2 DEF Repeats
<1>8. PaceInv'
  BY <1>1, <1>2, <1>3, <1>7 DEF PaceInv, RunType, Runs, NoRun, EarlySteps
<1>9. StuckInv'
  BY <1>1, <1>2, <1>3, <1>7 DEF StuckInv, NoRun, EarlySteps
<1> QED BY <1>5, <1>6, <1>8, <1>9

LEMMA EarlyOnCourse ==
    ASSUME Going, Calm, OpenModal \/ SeekSignIn \/ OpenSeek \/ SeekOpened
    PROVE  OnCourse'
<1>1. PathInv
  BY DEF Going, OnCourse
<1>2. pc \in EarlySteps /\ pc \in {"open", "button", "opened"} /\ slips = {}
  BY <1>1 DEF PathInv, EarlySteps, OpenModal, SeekSignIn, OpenSeek, SeekOpened
<1>3. scenario.entry = "href"
  BY FineStarts DEF Going, PlaceInv
<1>4. UNCHANGED <<lz, at, moving, done, run>>
  BY DEF OpenModal, SeekSignIn, OpenSeek, SeekOpened, docs, site
<1>5. /\ slips' = slips
      /\ \/ LinkedIn /\ pc' = IF Preparing THEN "scan" ELSE "head"
         \/ ~LinkedIn /\ pc' \in {"button", "opened", "visible"}
  <2>1. LinkedIn <=> ~(pc \in {"button", "opened"} \/ SeekSignIn)
    BY <1>1, <1>2 DEF PathInv, OpenModal, SeekSignIn, OpenSeek, SeekOpened
  <2>2. CASE OpenModal
    BY <1>2, <2>2, CalmGives DEF OpenModal, Continue
  <2>3. CASE SeekSignIn
    BY <1>2, <2>3, CalmGives DEF SeekSignIn, Continue
  <2>4. CASE OpenSeek
    BY <1>2, <1>3, <2>1, <2>4, CalmGives DEF OpenSeek, Continue
  <2>5. CASE SeekOpened
    BY <1>2, <2>1, <2>5, CalmGives DEF SeekOpened, Continue
  <2> QED BY <2>2, <2>3, <2>4, <2>5
<1>6. pc' \in EarlySteps \cup {"head", "scan", "seek"}
  BY <1>5 DEF EarlySteps
<1>7. PageInv' /\ DocsInv' /\ PaceInv' /\ StuckInv'
  BY <1>2, <1>4, <1>6, EarlyKept
<1>8. PathInv'
  BY <1>2, <1>5, CalmGives DEF PathInv
<1> QED BY <1>7, <1>8 DEF OnCourse

\* A preparation answers what it can, and needs no more to go on.
LEMMA ScanFills ==
    ASSUME Going, Calm, Preparing, pc \in {"scan", "seek"}, at' = at, moving' = moving,
           done' = done \cup {f \in Scanned : f = "question"}, pc' \in {"navigate", "seekClick"}
    PROVE  PageInv' /\ DocsInv' /\ Page' = Page /\ Repeats' = Repeats /\ Looks' = Looks /\ Blinds' = Blinds
<1>1. PageInv /\ Page.lag \in Nat /\ moving \in 0 .. Page.lag
  BY Counters
<1>2. /\ Page \in PageRecords /\ Page.fields \cap {"stubborn", "odd"} = {}
      /\ Kind = "submit" \/ NeedsNoFile(Page)
  <2>1. Page = PageAt(at) /\ PageShape(at) /\ Page \in PageRecords
    BY Here DEF Going
  <2> QED BY <2>1 DEF PageShape, Kind
<1>3. TotalType /\ done \subseteq Page.fields
  BY <1>1 DEF PageInv
<1>4. scenario' = scenario /\ (Preparing' <=> Preparing)
  BY CalmGives DEF Calm
<1>5. /\ Page' = Page /\ Looks' = Looks /\ Blinds' = Blinds /\ (TotalType' <=> TotalType) /\ Kind' = Kind
  BY <1>4, PageStays
<1>6. Repeats' = Repeats
  BY <1>5 DEF Repeats
<1>7. done' \subseteq Page.fields /\ ("question" \in Page.fields => "question" \in done')
  BY <1>3 DEF Scanned
<1>8. Complete' \/ Kind = "submit"
  <2> SUFFICES ASSUME NeedsNoFile(Page) PROVE Complete'
    BY <1>2
  <2>1. \A f \in Page.fields \cap Asked : f \in done' \/ (f = "resume" /\ Page.attached)
    BY <1>7 DEF Asked, NeedsNoFile
  <2> QED BY <1>2, <1>4, <2>1, Completes
<1>9. PageInv'
  BY <1>1, <1>3, <1>4, <1>5, <1>7, <1>8 DEF PageInv, NewPage, EarlySteps
<1>10. DocsInv'
  BY <1>4 DEF DocsInv
<1> QED BY <1>5, <1>6, <1>9, <1>10

LEMMA ScanOnCourse ==
    ASSUME Going, Calm, ScanStep \/ SeekScan
    PROVE  OnCourse'
<1>1. /\ pc \in {"scan", "seek"} /\ slips' = slips /\ PathInv
      /\ pc = "scan" => ScanStep
      /\ pc = "seek" => SeekScan
  BY DEF ScanStep, SeekScan, Going, OnCourse
<1>2. Preparing /\ slips = {} /\ (LinkedIn <=> pc = "scan")
  BY <1>1 DEF PathInv, SeekScan
<1>3. /\ at' = at /\ moving' = moving /\ done' = done \cup {f \in Scanned : f = "question"}
      /\ run' = [run EXCEPT !.i = @ + 1]
      /\ pc' = IF LinkedIn THEN "navigate" ELSE "seekClick"
  BY <1>1, <1>2 DEF ScanStep, SeekScan, site, Continue
<1>4. PageInv' /\ DocsInv' /\ Page' = Page /\ Repeats' = Repeats /\ Looks' = Looks /\ Blinds' = Blinds
  BY <1>1, <1>2, <1>3, ScanFills
<1>5. PaceInv /\ StuckInv /\ RunType /\ Repeats \in Nat /\ Looks \in Nat /\ at \in Nat
  BY <1>1, Counters
<1> DEFINE k == run.i + 1
<1>6. k \in Nat /\ run' = [run EXCEPT !.i = k] /\ run.i \in Nat
  BY <1>3, <1>5 DEF RunType, Runs
<1>7. k = run.i + 1
  OBVIOUS
<1> HIDE DEF k
<1>8. /\ RunType' /\ run'.i = k /\ run'.prev = run.prev /\ run'.same = run.same
      /\ run'.missing = run.missing /\ run'.blind = run.blind /\ run'.unfillable = run.unfillable
  BY <1>5, <1>6 DEF RunType, Runs
<1>9. run'.i <= Looks' + 1 + Repeats'
  <2>1. run.i <= Looks + Repeats
    BY <1>1, <1>5 DEF PaceInv
  <2> QED BY <1>4, <1>5, <1>6, <1>7, <1>8, <2>1
<1>10. PaceInv'
  BY <1>3, <1>8, <1>9 DEF PaceInv, EarlySteps
<1>11. StuckInv'
  BY <1>1, <1>2, <1>3, <1>4, <1>5, <1>8, CalmGives DEF StuckInv
<1>12. PathInv'
  BY <1>1, <1>2, <1>3, CalmGives DEF PathInv
<1> QED BY <1>4, <1>10, <1>11, <1>12 DEF OnCourse

LEMMA NavigateOnCourse ==
    ASSUME Going, Calm, ScanNavigate
    PROVE  OnCourse'
<1>1. pc = "navigate" /\ slips' = slips /\ lz' = lz /\ PathInv
  BY DEF ScanNavigate, Going, OnCourse
<1>2. LinkedIn /\ Preparing /\ LinkedIn' /\ Preparing' /\ slips = {}
  <2>1. LinkedIn /\ Preparing /\ slips = {}
    BY <1>1 DEF PathInv
  <2> QED BY <2>1, CalmGives
<1>3. /\ PageInv /\ DocsInv /\ PaceInv /\ StuckInv /\ RunType /\ Kind \in {"next", "submit"}
      /\ Looks \in Nat /\ Page.lag \in Nat /\ moving \in 0 .. Page.lag /\ at \in Nat
      /\ Repeats \in Nat /\ (moving = 0 => Repeats = 0) /\ (moving > 0 => Repeats < Page.lag)
  BY <1>1, Counters
<1>4. Page.lag <= 2
  <2>1. scenario.site = "linkedin" /\ scenario.mode = "prepare"
    BY <1>2 DEF LinkedIn, Preparing
  <2>2. NotStuck(scenario, Page)
    BY Here DEF Going, PageShape
  <2> QED BY <2>1, <2>2 DEF NotStuck
<1> DEFINE same == IF at = run.prev THEN run.same + 1 ELSE 0
<1>5. /\ run.i <= Looks + 1 + Repeats /\ run.prev <= at /\ (moving = 0 => run.prev < at)
      /\ moving > 0 => run.same + 1 <= Repeats
      /\ run.missing = 0 /\ run.unfillable = 0
  BY <1>1, <1>2, <1>3 DEF PaceInv, StuckInv
<1>6. same \in Nat /\ same <= Repeats /\ (moving = 0 => same = 0) /\ ~(same >= 2)
      /\ {run.i, run.prev, run.same} \subseteq Nat
  BY <1>3, <1>4, <1>5 DEF RunType, Runs
<1>7. CASE Kind = "submit"
  <2>1. pc' = "done" /\ result' = "prepared"
    BY <1>7 DEF ScanNavigate, ScanEnds, Return
  <2> QED BY <1>1, <1>2, <2>1 DEF OnCourse, PathInv
<1>8. CASE Kind = "next"
  <2>1. IF Kind # "next" \/ same >= 2 THEN Return("failed") /\ UNCHANGED <<site, done, run>>
        ELSE run' = [run EXCEPT !.same = same, !.prev = at] /\ Continue("look") /\ Advance
    BY <1>8 DEF ScanNavigate, ScanEnds
  <2> HIDE DEF same
  <2>2. run' = [run EXCEPT !.same = same, !.prev = at] /\ pc' = "look" /\ Advance
    BY <1>6, <1>8, <2>1 DEF Continue
  <2>3. /\ RunType' /\ run'.i = run.i /\ run'.prev = at /\ run'.same = same
        /\ run'.missing = run.missing /\ run'.unfillable = run.unfillable
    BY <1>3, <1>6, <2>2 DEF RunType, Runs
  <2>4. /\ PageInv' /\ DocsInv'
        /\ \/ moving = 0 /\ Page.lag = 0 /\ Turned
           \/ moving = 0 /\ Page.lag > 0 /\ moving' = Page.lag /\ Stayed
           \/ moving > 0 /\ moving' = moving /\ Stayed
    BY <1>1, <1>3, <1>8, <2>2, AdvanceGoes DEF Going, Calm
  <2>5. CASE moving = 0 /\ Page.lag = 0 /\ Turned
    <3>1. at' = at + 1 /\ Looks' = Looks + 1 + Page.lag /\ moving' = 0
      BY <2>5 DEF Turned
    <3>2. run'.i <= Looks' /\ run'.prev < at' /\ run'.prev <= at'
      BY <1>3, <1>5, <1>6, <2>3, <2>5, <3>1
    <3>3. PaceInv'
      BY <1>6, <2>2, <2>3, <3>1, <3>2, <1>3 DEF PaceInv, EarlySteps
    <3>4. StuckInv'
      BY <1>5, <2>2, <2>3, <3>1, <3>2 DEF StuckInv
    <3> QED BY <1>1, <1>2, <2>2, <2>4, <3>3, <3>4 DEF OnCourse, PathInv
  <2>6. CASE (moving = 0 /\ Page.lag > 0 /\ moving' = Page.lag /\ Stayed) \/ (moving > 0 /\ moving' = moving /\ Stayed)
    <3>1. at' = at /\ Page' = Page /\ Looks' = Looks
      BY <2>6 DEF Stayed
    <3>2. Repeats' = Repeats /\ moving' > 0 /\ moving' # 0
      BY <1>3, <2>6, <3>1 DEF Repeats
    <3>3. run'.i <= Looks' + (1 + Repeats') /\ run'.same <= Repeats' /\ run'.prev <= at'
      BY <1>3, <1>5, <1>6, <2>3, <3>1, <3>2
    <3>4. PaceInv'
      BY <2>2, <2>3, <3>2, <3>3 DEF PaceInv, EarlySteps
    <3>5. StuckInv'
      BY <1>5, <2>2, <2>3, <3>2, <3>3 DEF StuckInv
    <3> QED BY <1>1, <1>2, <2>2, <2>4, <3>4, <3>5 DEF OnCourse, PathInv
  <2> QED BY <2>4, <2>5, <2>6
<1> QED BY <1>3, <1>7, <1>8

\* A look at what the click on Next came to.
LEMMA LookOnCourse ==
    ASSUME Going, Calm, ScanLook \/ SeekLook
    PROVE  OnCourse'
<1>1. /\ pc = "look" /\ slips' = slips /\ lz' = lz /\ run' = run /\ Arrive /\ PathInv
      /\ pc' = IF LinkedIn THEN "scan" ELSE "seek"
  BY DEF ScanLook, SeekLook, Continue, Going, OnCourse
<1>2. slips = {} /\ (LinkedIn => Preparing)
  BY <1>1 DEF PathInv
<1>3. /\ PageInv /\ DocsInv /\ PaceInv /\ StuckInv /\ RunType
      /\ Looks \in Nat /\ Page.lag \in Nat /\ moving \in 0 .. Page.lag /\ at \in Nat
      /\ Repeats \in Nat /\ (moving = 0 => Repeats = 0) /\ (moving > 0 => Repeats < Page.lag)
  BY <1>1, Counters
<1>4. /\ PageInv' /\ DocsInv'
      /\ \/ moving = 1 /\ Turned
         \/ moving > 1 /\ moving' = moving - 1 /\ Stayed
         \/ moving = 0 /\ moving' = 0 /\ Stayed
  BY <1>1, <1>3, ArriveGoes DEF Going, Calm
<1>5. /\ run.i <= Looks + (IF moving = 0 THEN 0 ELSE 1 + Repeats)
      /\ LinkedIn => /\ run.prev <= at /\ (moving = 0 => run.prev < at) /\ (moving > 0 => run.same <= Repeats)
                     /\ run.missing = 0 /\ run.unfillable = 0
  BY <1>1, <1>3 DEF PaceInv, StuckInv
<1>6. {run.i, run.prev, run.same} \subseteq Nat /\ RunType'
  BY <1>1, <1>3 DEF RunType, Runs
<1>7. PathInv'
  BY <1>1, <1>2, CalmGives DEF PathInv
<1>8. CASE moving = 1 /\ Turned
  <2>1. at' = at + 1 /\ Repeats' = 0 /\ Looks' = Looks + 1 + Page.lag /\ moving' = 0
    BY <1>8 DEF Turned
  <2>2. run'.i <= Looks' + Repeats' /\ (LinkedIn => run'.prev < at' /\ run'.prev <= at')
    BY <1>1, <1>3, <1>5, <1>6, <1>8, <2>1
  <2>3. PaceInv'
    BY <1>1, <1>6, <2>2 DEF PaceInv, EarlySteps
  <2>4. StuckInv'
    BY <1>1, <1>5, <2>1, <2>2, CalmGives DEF StuckInv
  <2> QED BY <1>4, <1>7, <2>3, <2>4 DEF OnCourse
<1>9. CASE (moving > 1 /\ moving' = moving - 1 /\ Stayed) \/ (moving = 0 /\ moving' = 0 /\ Stayed)
  <2>1. at' = at /\ Page' = Page /\ Looks' = Looks
    BY <1>9 DEF Stayed
  <2>2. Repeats' = IF moving = 0 THEN 0 ELSE Repeats + 1
    BY <1>3, <1>9, <2>1 DEF Repeats
  <2>3. moving' > 0 <=> moving > 0
    BY <1>3, <1>9
  <2>4. run'.i <= Looks' + Repeats'
    BY <1>1, <1>3, <1>5, <1>6, <2>1, <2>2
  <2>5. LinkedIn => /\ run'.prev <= at' /\ (moving' = 0 => run'.prev < at') /\ (moving' > 0 => run'.same + 1 <= Repeats')
    BY <1>1, <1>3, <1>5, <1>6, <1>9, <2>1, <2>2, <2>3
  <2>6. PaceInv'
    BY <1>1, <1>6, <2>4 DEF PaceInv, EarlySteps
  <2>7. StuckInv'
    BY <1>1, <1>5, <2>5, CalmGives DEF StuckInv
  <2> QED BY <1>4, <1>7, <2>6, <2>7 DEF OnCourse
<1> QED BY <1>4, <1>8, <1>9

LEMMA SeekFillOnCourse ==
    ASSUME Going, Calm, SeekFill
    PROVE  OnCourse'
<1>1. pc = "seek" /\ at' = at /\ moving' = moving /\ slips' = slips /\ ~Preparing /\ PathInv
  BY DEF SeekFill, site, Going, OnCourse
<1>2. ~LinkedIn /\ slips = {} /\ ~LinkedIn'
  BY <1>1, CalmGives DEF PathInv
<1>3. PICK o \in FillOutcomes :
        /\ Fill(o)
        /\ IF o.failed \/ (HasFields /\ o.filled = {}) THEN Return("failed") /\ UNCHANGED run
           ELSE Continue("seekClick") /\ run' = [run EXCEPT !.i = @ + 1]
  BY DEF SeekFill
<1>4. ~o.failed /\ ~(HasFields /\ o.filled = {})
  BY <1>1, <1>2, <1>3, FillSucceeds DEF Fill
<1>5. Fill(o) /\ pc' = "seekClick" /\ run' = [run EXCEPT !.i = @ + 1]
  BY <1>3, <1>4 DEF Continue
<1>6. PageInv' /\ DocsInv' /\ Repeats' = Repeats /\ Looks' = Looks
  BY <1>1, <1>5, CalmFill
<1>7. PaceInv /\ RunType /\ Repeats \in Nat /\ Looks \in Nat
  BY <1>1, Counters
<1> DEFINE k == run.i + 1
<1>8. k \in Nat /\ run' = [run EXCEPT !.i = k] /\ run.i \in Nat /\ k = run.i + 1
  BY <1>5, <1>7 DEF RunType, Runs
<1> HIDE DEF k
<1>9. RunType' /\ run'.i = k
  BY <1>7, <1>8 DEF RunType, Runs
<1>10. run'.i <= Looks' + 1 + Repeats'
  <2>1. run.i <= Looks + Repeats
    BY <1>1, <1>7 DEF PaceInv
  <2> QED BY <1>6, <1>7, <1>8, <1>9, <2>1
<1>11. PaceInv' /\ StuckInv'
  BY <1>2, <1>5, <1>9, <1>10 DEF PaceInv, StuckInv, EarlySteps
<1>12. PathInv'
  BY <1>1, <1>2, <1>5, CalmGives DEF PathInv
<1> QED BY <1>6, <1>11, <1>12 DEF OnCourse

\* A click on Continue, or on the button that ends it.
LEMMA SeekClickOnCourse ==
    ASSUME Going, Calm, SeekClick \/ SeekNavigate
    PROVE  OnCourse'
<1>1. /\ pc = "seekClick" /\ slips' = slips /\ run' = run /\ PathInv
      /\ Preparing => SeekNavigate
      /\ ~Preparing => SeekClick
  <2>1. pc = "seekClick" /\ run' = run /\ PathInv /\ (Preparing => SeekNavigate) /\ (~Preparing => SeekClick)
    BY DEF SeekClick, SeekNavigate, Going, OnCourse
  <2>2. slips' = slips
    BY CalmGives DEF SeekClick, SeekNavigate
  <2> QED BY <2>1, <2>2
<1>2. ~LinkedIn /\ slips = {} /\ ~LinkedIn'
  BY <1>1, CalmGives DEF PathInv
<1>3. /\ PageInv /\ DocsInv /\ PaceInv /\ RunType /\ Kind \in {"next", "submit"}
      /\ Looks \in Nat /\ Page.lag \in Nat /\ moving \in 0 .. Page.lag
      /\ Repeats \in Nat /\ (moving = 0 => Repeats = 0)
  BY <1>1, Counters
<1>4. CASE Kind = "submit"
  <2>1. CASE Preparing
    <3>1. pc' = "done" /\ result' = "prepared"
      BY <1>1, <1>4, <2>1, CalmGives DEF SeekNavigate, Enabled, Return
    <3> QED BY <1>1, <1>2, <2>1, <3>1, CalmGives DEF OnCourse, PathInv
  <2>2. CASE ~Preparing
    <3>1. Complete
      BY <1>1, <1>3, <2>2 DEF PageInv, Passed
    <3>2. pc' = "confirm" /\ sent' = Complete
      BY <1>1, <1>4, <2>2, CalmGives DEF SeekClick, Enabled, Continue
    <3> QED BY <1>1, <1>2, <2>2, <3>1, <3>2, CalmGives DEF OnCourse, PathInv
  <2> QED BY <2>1, <2>2
<1>5. CASE Kind = "next"
  <2>1. Advance /\ pc' = "look" /\ lz' = lz
    <3>1. CASE Preparing
      BY <1>1, <1>5, <3>1, CalmGives, Zenon DEF SeekNavigate, Enabled, Continue
    <3>2. CASE ~Preparing
      BY <1>1, <1>5, <3>2, CalmGives, Zenon DEF SeekClick, Enabled, Continue
    <3> QED BY <3>1, <3>2
  <2>2. /\ PageInv' /\ DocsInv'
        /\ \/ moving = 0 /\ Page.lag = 0 /\ Turned
           \/ moving = 0 /\ Page.lag > 0 /\ moving' = Page.lag /\ Stayed
           \/ moving > 0 /\ moving' = moving /\ Stayed
    BY <1>1, <1>3, <1>5, <2>1, AdvanceGoes DEF Going, Calm
  <2>3. run.i <= Looks + 1 + Repeats /\ run.i \in Nat
    BY <1>1, <1>3 DEF PaceInv, RunType, Runs
  <2>4. run'.i <= Looks' + (IF moving' = 0 THEN 0 ELSE 1 + Repeats')
    <3>1. CASE moving = 0 /\ Page.lag = 0 /\ Turned
      <4>1. Looks' = Looks + 1 + Page.lag /\ moving' = 0
        BY <3>1 DEF Turned
      <4> QED BY <1>1, <1>3, <2>3, <3>1, <4>1
    <3>2. CASE (moving = 0 /\ Page.lag > 0 /\ moving' = Page.lag /\ Stayed) \/ (moving > 0 /\ moving' = moving /\ Stayed)
      <4>1. Page' = Page /\ Looks' = Looks
        BY <3>2 DEF Stayed
      <4>2. Repeats' = Repeats /\ moving' > 0 /\ moving' # 0
        BY <1>3, <3>2, <4>1 DEF Repeats
      <4> QED BY <1>1, <1>3, <2>3, <4>1, <4>2
    <3> QED BY <2>2, <3>1, <3>2
  <2>5. RunType'
    BY <1>1, <1>3 DEF RunType
  <2>6. PaceInv' /\ StuckInv'
    BY <1>2, <2>1, <2>4, <2>5 DEF PaceInv, StuckInv, EarlySteps
  <2>7. PathInv'
    BY <1>1, <1>2, <2>1, CalmGives DEF PathInv
  <2> QED BY <2>2, <2>6, <2>7 DEF OnCourse
<1> QED BY <1>3, <1>4, <1>5

\* The whole form is looked at, and then filled.
LEMMA SeeOnCourse ==
    ASSUME Going, Calm, SeeForm
    PROVE  OnCourse'
<1>1. /\ pc = "visible" /\ slips' = slips /\ UNCHANGED <<at, moving, done, run>> /\ PathInv
  BY DEF SeeForm, site, Going, OnCourse
<1>2. ~LinkedIn /\ slips = {} /\ ~LinkedIn' /\ pc \in EarlySteps
  BY <1>1, CalmGives DEF PathInv, EarlySteps
<1>3. CASE Preparing
  <2>1. lz' = lz /\ pc' = "seek"
    BY <1>3 DEF SeeForm, Continue
  <2>2. PageInv' /\ DocsInv' /\ PaceInv' /\ StuckInv'
    BY <1>1, <1>2, <2>1, EarlyKept
  <2> QED BY <1>1, <1>2, <1>3, <2>1, <2>2, CalmGives DEF OnCourse, PathInv
<1>4. CASE ~Preparing
  <2>1. /\ at = 1 /\ moving = 0 /\ done = {} /\ PageInv /\ DocsInv /\ pc # "done" /\ TotalType
    <3>1. at = 1 /\ moving = 0
      BY <1>2 DEF Going, PlaceInv
    <3>2. PageInv /\ DocsInv
      BY <1>1, Counters
    <3> QED BY <1>1, <1>2, <3>1, <3>2 DEF PageInv, NewPage
  <2>2. /\ Agreed(Settings, lz) /\ SoundDocs(scenario, lz) /\ lz.caps = Total(0).caps
    <3>1. Agreed(Settings, lz)
      BY <1>4 DEF Going, ChosenInv, UploadInv
    <3>2. SoundDocs(scenario, lz) /\ lz.caps = scenario.pack.caps
      BY <1>2, <1>4, <2>1 DEF DocsInv
    <3> QED BY <3>1, <3>2, FineStarts DEF Going, PlaceInv
  <2> DEFINE m == EnsureMaterialized(Seen, "none")
  <2>3. SoundDocs(scenario, m) /\ Untaken(m.caps) /\ OwnFiles(m.caps, {}) /\ ~Blocked(m)
    BY <1>2, <1>4, <2>1, <2>2, SeenSound DEF Going
  <2>4. lz' = m /\ pc' = "seek"
    <3>1. PICK how \in HowFor(Seen) :
              /\ Costs(IF how = "none" THEN 0 ELSE 1)
              /\ lz' = EnsureMaterialized(Seen, how)
              /\ IF Blocked(EnsureMaterialized(Seen, how)) THEN Return("failed") ELSE Continue("seek")
      BY <1>4, Zenon DEF SeeForm, Seen
    <3>2. how = "none"
      BY <3>1 DEF Costs, Calm
    <3> QED BY <2>3, <3>1, <3>2 DEF Continue
  <2> HIDE DEF m
  <2>5. /\ scenario' = scenario /\ done' = {} /\ at' = 1 /\ moving' = 0 /\ pc' \notin EarlySteps /\ ~Passed'
    BY <1>1, <2>1, <2>4 DEF Calm, Passed, EarlySteps
  <2>6. /\ Page' = Page /\ Looks' = Looks /\ (TotalType' <=> TotalType)
        /\ \A c : Untaken(c)' <=> Untaken(c)
        /\ \A c, d : OwnFiles(c, d)' <=> OwnFiles(c, d)
    <3>1. at' = at
      BY <1>1
    <3>2. \A c : Untaken(c)' <=> Untaken(c)
      BY <2>1, <2>5, <3>1, PageStays DEF Untaken
    <3> QED BY <2>5, <3>1, <3>2, PageStays
  <2>7. PageInv'
    BY <2>1, <2>5, <2>6 DEF PageInv
  <2>8. DocsInv'
    <3>1. SoundDocs(scenario, lz)'
      BY <2>3, <2>4, <2>5
    <3>2. Untaken(lz.caps)' /\ OwnFiles(lz.caps, done)'
      BY <2>3, <2>4, <2>5, <2>6
    <3> QED BY <2>5, <3>1, <3>2 DEF DocsInv
  <2>9. PaceInv'
    <3>1. PaceInv /\ Looks \in Nat
      BY <1>1, Counters
    <3>2. run' = NoRun
      BY <1>1, <1>2, <3>1 DEF PaceInv
    <3>3. Repeats' = 0
      BY <2>5 DEF Repeats
    <3> QED BY <2>4, <2>5, <2>6, <3>1, <3>2, <3>3 DEF PaceInv, RunType, Runs, NoRun
  <2>10. StuckInv' /\ PathInv'
    BY <1>1, <1>2, <1>4, <2>4, CalmGives DEF StuckInv, PathInv
  <2> QED BY <2>7, <2>8, <2>9, <2>10 DEF OnCourse
<1> QED BY <1>3, <1>4

\* The loop's own limit is never what ends it.
LEMMA StepsSuffice ==
    ASSUME Going
    PROVE  ~OutOfSteps
<1> SUFFICES ASSUME OutOfSteps PROVE FALSE
  OBVIOUS
<1>1. /\ pc \in {"head", "scan", "seek"} /\ PathInv
      /\ pc = "head" => run.i = MaxSteps
      /\ pc = "scan" => run.i = PrepareSteps
      /\ pc = "seek" => run.i = SeekSteps
  BY DEF OutOfSteps, Going, OnCourse
<1>2. run.i = Limit
  <2>1. pc = "head" => LinkedIn /\ ~Preparing
    BY <1>1 DEF PathInv
  <2>2. pc = "scan" => LinkedIn /\ Preparing
    BY <1>1 DEF PathInv
  <2>3. pc = "seek" => ~LinkedIn
    BY <1>1 DEF PathInv
  <2>4. (scenario.mode = "apply" <=> ~Preparing) /\ (scenario.site = "seek" <=> ~LinkedIn)
    BY OneMode DEF Going, PlaceInv
  <2> QED BY <1>1, <2>1, <2>2, <2>3, <2>4 DEF Limit, StepLimit, Preparing
<1>3. /\ PaceInv /\ RunType /\ Looks \in Nat /\ Limit \in Nat /\ Looks + 1 + Page.lag < Limit /\ Page.lag \in Nat
      /\ Repeats \in Nat /\ (moving > 0 => Repeats < Page.lag) /\ (moving = 0 => Repeats = 0) /\ moving \in 0 .. Page.lag
  BY <1>1, Counters
<1>4. run.i <= Looks + (IF moving = 0 THEN 0 ELSE 1 + Repeats) \/ run.i <= Looks + Repeats
  BY <1>1, <1>3 DEF PaceInv
<1> QED BY <1>2, <1>3, <1>4

\* A step that changes nothing.
LEMMA QuietOnCourse ==
    ASSUME Going, Calm, UNCHANGED vars
    PROVE  OnCourse'
<1>1. /\ scenario' = scenario /\ pc' = pc /\ lz' = lz /\ at' = at /\ moving' = moving /\ done' = done /\ run' = run
      /\ slips' = slips /\ sent' = sent /\ result' = result
  BY DEF vars
<1>2. PathInv'
  BY <1>1, CalmGives DEF Going, OnCourse, PathInv
<1>3. CASE pc \in {"confirm", "done"}
  BY <1>1, <1>2, <1>3 DEF OnCourse
<1>4. CASE pc \notin {"confirm", "done"}
  <2>1. PageInv /\ DocsInv /\ PaceInv /\ StuckInv
    BY <1>4, Counters
  <2>2. /\ Page' = Page /\ Kind' = Kind /\ Looks' = Looks /\ Blinds' = Blinds /\ (TotalType' <=> TotalType)
        /\ \A c : Taken(c)' <=> Taken(c)
        /\ \A c, d : OwnFiles(c, d)' <=> OwnFiles(c, d)
    BY <1>1, PageStays
  <2>3. \A c : Untaken(c)' <=> Untaken(c)
    <3>1. CASE done = {}
      BY <1>1, <3>1, PageStays DEF Untaken
    <3>2. CASE done # {}
      BY <1>1, <3>2 DEF Untaken
    <3> QED BY <3>1, <3>2
  <2>4. Repeats' = Repeats /\ (Complete' <=> Complete) /\ (Passed' <=> Passed)
    BY <1>1, StillHere DEF Passed
  <2>5. PageInv'
    BY <1>1, <2>1, <2>2, <2>4, CalmGives DEF PageInv
  <2>6. SoundDocs(scenario, lz)' <=> SoundDocs(scenario, lz)
    BY <1>1
  <2>7. DocsInv'
    BY <1>1, <2>1, <2>2, <2>3, <2>4, <2>6, CalmGives DEF DocsInv
  <2>8. PaceInv'
    BY <1>1, <2>1, <2>2, <2>4 DEF PaceInv, RunType
  <2>9. StuckInv'
    BY <1>1, <2>1, <2>2, <2>4, CalmGives DEF StuckInv
  <2> QED BY <1>2, <2>5, <2>7, <2>8, <2>9 DEF OnCourse
<1> QED BY <1>3, <1>4

-----------------------------------------------------------------------------
\* The documents that a pass starts with are not held back.
LEMMA SoundAtFirst ==
    ASSUME Init, ~Preparing, Fine(scenario)
    PROVE  SoundDocs(scenario, lz) /\ lz.caps = scenario.pack.caps
<1> DEFINE p == scenario.pack
           fr == scenario.frozen
           first(a, b) == IF a # None THEN a ELSE b
           chosen == [resume |-> first(p.sel.resume, p.sel.resume), cover |-> first(p.sel.cover, p.sel.cover),
                      site |-> p.sel.site, skip |-> p.sel.skip]
           h == IF ~fr /\ ~Stale(p.hold) THEN p.hold ELSE ""
           site1 == p.resume.outcome = "site"
           fresh == [caps |-> p.caps, sel |-> chosen, frozen |-> fr, pack |-> p, hold |-> h,
                     resumeOverride |-> p.resume.path, coverOverride |-> p.cover.path,
                     resume |-> None, cover |-> None, resumeV |-> None, coverV |-> None,
                     useSite |-> FALSE, mat |-> FALSE]
<1>1. scenario \in Scenarios
  BY DEF Init
<1>2. lz = NewLazy(p.sel, fr, p, p.resume.path, p.cover.path)
  BY DEF Init
<1>3. \A f \in {"resume", "cover", "site", "skip"} : chosen[f] = p.sel[f]
  OBVIOUS
<1>4. CASE ~fr
  <2>1. p.hold \in {"", "changed"}
    BY <1>1, FineGives, Zenon
  <2>2. h = ""
    BY <1>4, <2>1, Zenon DEF Stale
  <2>3. lz = fresh
    BY <1>2, <1>4, Zenon DEF NewLazy
  <2> HIDE DEF chosen, h
  <2>4. /\ lz.hold = h /\ lz.frozen = fr /\ lz.sel = chosen /\ lz.caps = p.caps
        /\ lz.resume = None /\ lz.resumeV = None /\ lz.mat = FALSE
    BY <2>3
  <2> QED BY <1>3, <1>4, <2>2, <2>4, Zenon DEF SoundDocs
<1>5. CASE fr
  <2> DEFINE r == first(p.resume.path, p.resume.path)
             c == first(p.cover.path, p.cover.path)
             k == p.hold
  <2>1. lz = [fresh EXCEPT !.hold = k, !.useSite = site1, !.resume = r, !.cover = c,
                           !.resumeV = p.resume.version, !.coverV = p.cover.version]
    BY <1>2, <1>5, Zenon DEF NewLazy
  <2>2. r = p.resume.path /\ c = p.cover.path
    OBVIOUS
  <2>3. k = ""
    BY <1>1, <1>5, ScenariosAssumption, Zenon
  <2> HIDE DEF chosen, h, site1, r, c, k
  <2>4. /\ lz.hold = k /\ lz.frozen = fr /\ lz.sel = chosen /\ lz.caps = p.caps
        /\ lz.resume = r /\ lz.cover = c
    BY <2>1
  <2> QED BY <1>3, <1>5, <2>2, <2>3, <2>4, Zenon DEF SoundDocs
<1> QED BY <1>4, <1>5

\* A pass begins on its course.
LEMMA OnCourseInit == Init /\ Fine(scenario) => OnCourse
<1> SUFFICES ASSUME Init, Fine(scenario) PROVE OnCourse
  OBVIOUS
<1>1. /\ scenario \in Scenarios /\ pc = "open" /\ at = 1 /\ moving = 0 /\ done = {} /\ run = NoRun /\ slips = {}
      /\ result = "none"
  BY DEF Init
<1>2. /\ Page.lag \in Nat /\ PageShape(at) /\ Page = PageAt(at)
      /\ Looks \in Nat /\ Blinds \in Nat
  BY Here, PlaceInit, WithinLimits
<1>3. Total(at - 1).caps = scenario.pack.caps /\ scenario.pack.caps \in Capabilities
  <2>1. Total(0).caps = scenario.pack.caps
    BY <1>1, FineStarts
  <2>2. at - 1 = 0
    BY <1>1
  <2>3. scenario.pack.caps \in Capabilities
    BY <1>1, ScenariosAssumption
  <2> QED BY <2>1, <2>2, <2>3
<1>4. PathInv
  BY <1>1 DEF PathInv
<1>5. ~Passed
  BY <1>1 DEF Passed
<1>6. PageInv
  BY <1>1, <1>2, <1>3, <1>5 DEF PageInv, TotalType
<1>7. PaceInv
  BY <1>1, <1>2 DEF PaceInv, RunType, Runs, NoRun, EarlySteps
<1>8. StuckInv
  BY <1>1, <1>2 DEF StuckInv, NoRun
<1>9. ASSUME ~Preparing
      PROVE  SoundDocs(scenario, lz) /\ lz.caps = scenario.pack.caps /\ Untaken(lz.caps) /\ OwnFiles(lz.caps, done)
  <2>1. SoundDocs(scenario, lz) /\ lz.caps = scenario.pack.caps
    BY <1>9, SoundAtFirst
  <2>2. /\ SameAsk(Total(at).caps, MergeCaps(Total(at - 1).caps, CapsOf(Page.fields)))
        /\ Total(at).caps \in Capabilities
        /\ Total(at).caps.amb <=> Total(at - 1).caps.amb \/ (Page.attached /\ HasResume(Page) /\ "resume" \in Page.fields /\ Settings.resumeMode # "site")
    BY <1>2, <1>3, PageAdds DEF TotalType
  <2>3. lz.caps = Total(at - 1).caps
    BY <1>3, <2>1
  <2>4. Untaken(lz.caps)
    BY <1>1, <2>2, <2>3 DEF Untaken, SameAsk
  <2>5. OwnFiles(lz.caps, done)
    BY <1>1, <2>2, <2>3 DEF OwnFiles
  <2> QED BY <2>1, <2>4, <2>5
<1>10. DocsInv
  BY <1>5, <1>9 DEF DocsInv
<1> QED BY <1>4, <1>6, <1>7, <1>8, <1>10 DEF OnCourse

-----------------------------------------------------------------------------
\* A step is disturbed once, or as often as making its documents and filling the page is.
LEMMA HowDisturbed ==
    ASSUME [Next]_vars
    PROVE  UNCHANGED disturbed \/ Disturb \/ \E n \in Nat : Costs(n)
<1>1. CASE FillStep \/ Refill \/ SeekFill
  <2>1. \E o \in FillOutcomes : Costs(o.cost)
    BY <1>1 DEF FillStep, Refill, SeekFill, Fill
  <2> QED BY <2>1, FillCosts
<1>2. CASE ScanStep \/ SeeForm \/ SeekNavigate
  <2>1. UNCHANGED disturbed \/ \E h : Costs(IF h THEN 0 ELSE 1)
    BY <1>2, Zenon DEF ScanStep, SeeForm, SeekNavigate
  <2>2. \A h : (IF h THEN 0 ELSE 1) \in Nat
    OBVIOUS
  <2> QED BY <2>1, <2>2
<1>3. CASE OpenModal \/ LoopHead \/ Confirm \/ ScanNavigate \/ ScanLook \/ SeekSignIn \/ SeekLook \/ SeekConfirm
  BY <1>3 DEF OpenModal, LoopHead, Confirm, ScanNavigate, ScanLook, SeekSignIn, SeekLook, SeekConfirm
<1>4. CASE ClickNext \/ LateClick \/ ClickSubmit
  BY <1>4 DEF ClickNext, LateClick, ClickSubmit
<1>5. CASE OpenSeek \/ SeekOpened \/ RecoverSeek
  BY <1>5 DEF OpenSeek, SeekOpened, RecoverSeek
<1>6. CASE SeekClick \/ SeekScan
  BY <1>6 DEF SeekClick, SeekScan
<1>7. CASE OutOfSteps \/ Interrupted \/ Race \/ UNCHANGED vars
  BY <1>7 DEF OutOfSteps, Interrupted, Race, vars
<1> QED BY <1>1, <1>2, <1>3, <1>4, <1>5, <1>6, <1>7 DEF Next

\* What disturbed a pass is never undone.
LEMMA DisturbanceStays ==
    ASSUME disturbed \in Nat, [Next]_vars
    PROVE  disturbed' \in Nat /\ disturbed' >= disturbed
BY HowDisturbed DEF Disturb, Costs

\* Where nothing disturbs it, no step leaves the course.
LEMMA CourseStep ==
    ASSUME Going, Calm, [Next]_vars
    PROVE  OnCourse'
<1>1. PathInv /\ ~Disturb
  BY CalmGives DEF Going, OnCourse
<1>2. ~LateClick
  <2> SUFFICES ASSUME LateClick PROVE FALSE
    OBVIOUS
  <2> QED BY <1>1 DEF LateClick
<1>3. ~Interrupted /\ ~Race
  BY <1>1 DEF Interrupted, Race
<1>4. ~Refill /\ ~RecoverSeek
  <2>1. pc # "refill" /\ pc # "recover"
    BY <1>1 DEF PathInv
  <2> QED BY <2>1 DEF Refill, RecoverSeek
<1>5. ~OutOfSteps
  BY StepsSuffice
<1>6. CASE OpenModal \/ SeekSignIn \/ OpenSeek \/ SeekOpened
  BY <1>6, EarlyOnCourse
<1>7. CASE LoopHead
  BY <1>7, HeadOnCourse
<1>8. CASE FillStep
  BY <1>8, FillOnCourse
<1>9. CASE ClickNext
  BY <1>9, NextOnCourse
<1>10. CASE ClickSubmit
  BY <1>10, SubmitOnCourse
<1>11. CASE Confirm \/ SeekConfirm
  BY <1>11, ConfirmOnCourse
<1>12. CASE ScanStep \/ SeekScan
  BY <1>12, ScanOnCourse
<1>13. CASE ScanNavigate
  BY <1>13, NavigateOnCourse
<1>14. CASE ScanLook \/ SeekLook
  BY <1>14, LookOnCourse
<1>15. CASE SeeForm
  BY <1>15, SeeOnCourse
<1>16. CASE SeekFill
  BY <1>16, SeekFillOnCourse
<1>17. CASE SeekClick \/ SeekNavigate
  BY <1>17, SeekClickOnCourse
<1>18. CASE UNCHANGED vars
  BY <1>18, QuietOnCourse
<1> QED BY <1>2, <1>3, <1>4, <1>5, <1>6, <1>7, <1>8, <1>9, <1>10, <1>11, <1>12, <1>13, <1>14, <1>15, <1>16, <1>17,
           <1>18, Zenon DEF Next

\* A form that behaves, in a pass that nothing disturbs, is sent, or prepared to its end
\* (FineFormGoesOut), however slowly its pages change and whatever they ask: each page gives
\* way before the loop has looked too often (PaceInv) or counts as stuck (StuckInv), and the
\* documents that it takes are chosen as the ones that its pages add up to (DocsInv).
THEOREM FineFormIsSent == Spec => []FineFormGoesOut
<1> DEFINE Inv == /\ PlaceInv /\ SendInv /\ ChosenInv /\ disturbed \in Nat
                  /\ disturbed = 0 /\ Fine(scenario) => OnCourse
<1>1. Init => Inv
  <2>1. Init => disturbed \in Nat
    BY DEF Init
  <2> QED BY <2>1, PlaceInit, SendInit, ChosenInit, OnCourseInit
<1>2. Inv /\ [Next]_vars => Inv'
  <2> SUFFICES ASSUME Inv, [Next]_vars PROVE Inv'
    OBVIOUS
  <2>1. PlaceInv' /\ SendInv' /\ ChosenInv'
    BY PlaceStep, SendStep, ChosenStep
  <2>2. disturbed' \in Nat /\ disturbed' >= disturbed
    BY DisturbanceStays
  <2>3. scenario' = scenario /\ (Fine(scenario)' <=> Fine(scenario))
    BY ScenarioStays
  <2>4. ASSUME disturbed' = 0, Fine(scenario) PROVE OnCourse'
    <3>1. disturbed = 0
      BY <2>2, <2>4
    <3>2. Going /\ Calm
      BY <2>3, <2>4, <3>1 DEF Going, Calm
    <3> QED BY <3>2, CourseStep
  <2> QED BY <2>1, <2>2, <2>3, <2>4
<1>3. Inv => FineFormGoesOut
  BY DEF FineFormGoesOut, OnCourse, PathInv
<1> QED BY <1>1, <1>2, <1>3, PTL DEF Spec

-----------------------------------------------------------------------------
(* Types and bounds of a pass. *)

\* Which steps belong to which way through a form.
WayInv ==
    /\ pc \in PCs
    /\ pc \in {"head", "fill", "click", "refill"} => LinkedIn /\ ~Preparing
    /\ pc \in {"scan", "navigate"} => LinkedIn /\ Preparing
    /\ pc \in {"signIn", "button", "opened", "recover", "visible", "seek", "seekClick"} => ~LinkedIn
    /\ pc = "look" => ~LinkedIn \/ Preparing
\* The counters are within their limits, and below them as long as the loop goes on.
CountInv ==
    /\ RunType /\ run.i <= StepLimit(scenario)
    /\ run.unfillable <= MaxUnfillable /\ run.missing <= MaxMissing /\ run.blind <= MaxBlind
    /\ pc # "done" => run.unfillable < MaxUnfillable /\ run.missing < MaxMissing /\ run.blind < MaxBlind
\* What is filled is on the page.
DoneInv == done \subseteq Page.fields
\* The flags and the outcome.
FlagInv ==
    /\ {marked, pressed, sent, tally.lost} \subseteq BOOLEAN
    /\ slips \subseteq {"race", "late", "click", "silent", "login"} /\ disturbed \in 0 .. scenario.disturbances
    /\ result \in {"none", "submitted", "prepared", "failed", "unknown"}
FormInv == PlaceInv /\ SendInv /\ WayInv /\ CountInv /\ DoneInv /\ FlagInv

LEMMA FormInvTypes == FormInv => TypeOK
<1> SUFFICES ASSUME FormInv PROVE TypeOK
  OBVIOUS
<1>1. StepLimit(scenario) \in Nat /\ MaxUnfillable \in Nat /\ MaxMissing \in Nat /\ MaxBlind \in Nat
  BY LimitsAssumption DEF StepLimit
<1>2. /\ run.i \in 0 .. StepLimit(scenario) /\ run.same \in Nat /\ run.filled \in BOOLEAN
      /\ run.unfillable \in 0 .. MaxUnfillable /\ run.missing \in 0 .. MaxMissing /\ run.blind \in 0 .. MaxBlind
  BY <1>1 DEF FormInv, CountInv, RunType, Runs
<1> QED BY <1>2 DEF FormInv, PlaceInv, SendInv, WayInv, DoneInv, FlagInv, TypeOK

LEMMA FormInvInit == Init => FormInv
<1> SUFFICES ASSUME Init PROVE FormInv
  OBVIOUS
<1>1. PlaceInv /\ SendInv
  BY PlaceInit, SendInit
<1>2. StepLimit(scenario) \in Nat /\ {MaxUnfillable, MaxMissing, MaxBlind} \subseteq Nat \ {0}
  BY LimitsAssumption DEF StepLimit
<1>3. CountInv
  <2>1. run \in Runs /\ run.i = 0 /\ run.unfillable = 0 /\ run.missing = 0 /\ run.blind = 0
    BY DEF Init, NoRun, Runs
  <2> QED BY <1>2, <2>1 DEF CountInv, RunType
<1>4. WayInv /\ DoneInv
  BY DEF Init, WayInv, PCs, DoneInv
<1>5. scenario.disturbances \in Nat
  BY ScenariosAssumption DEF Init
<1>6. FlagInv
  <2>1. tally.lost = FALSE /\ marked = FALSE /\ pressed = FALSE /\ sent = FALSE
    BY DEF Init
  <2>2. {marked, pressed, sent, tally.lost} \subseteq BOOLEAN
    BY <2>1
  <2>3. slips = {} /\ result = "none" /\ disturbed \in 0 .. scenario.disturbances
    BY <1>5 DEF Init
  <2> QED BY <2>2, <2>3 DEF FlagInv
<1> QED BY <1>1, <1>3, <1>4, <1>6 DEF FormInv

\* Every step is one of the way.
LEMMA WayStep ==
    ASSUME WayInv, [Next]_vars
    PROVE  WayInv'
<1> USE DEF Return, Continue, docs, site, sending, PCs
<1>0. (Preparing' <=> Preparing) /\ (LinkedIn' <=> LinkedIn)
  BY ScenarioStays, Rigid
<1>1. CASE UNCHANGED vars
  BY <1>0, <1>1 DEF vars, WayInv
<1>2. CASE OpenModal \/ LoopHead \/ Confirm \/ ScanLook
  BY <1>0, <1>2 DEF WayInv, OpenModal, LoopHead, Confirm, ScanLook
<1>3. CASE FillStep
  BY <1>0, <1>3 DEF WayInv, FillStep
<1>4. CASE Refill
  BY <1>0, <1>4 DEF WayInv, Refill
<1>5. CASE ClickNext \/ LateClick
  BY <1>0, <1>5 DEF WayInv, ClickNext, LateClick, Judge
<1>6. CASE ClickSubmit
  BY <1>0, <1>6 DEF WayInv, ClickSubmit
<1>7. CASE ScanStep \/ ScanNavigate
  BY <1>0, <1>7 DEF WayInv, ScanStep, ScanNavigate
<1>8. CASE SeekSignIn \/ OpenSeek
  BY <1>0, <1>8 DEF WayInv, SeekSignIn, OpenSeek
<1>9. CASE SeekOpened \/ RecoverSeek
  BY <1>0, <1>9 DEF WayInv, SeekOpened, RecoverSeek
<1>10. CASE SeeForm
  BY <1>0, <1>10 DEF WayInv, SeeForm
<1>11. CASE SeekFill
  BY <1>0, <1>11 DEF WayInv, SeekFill
<1>12. CASE SeekClick
  BY <1>0, <1>12 DEF WayInv, SeekClick
<1>13. CASE SeekLook \/ SeekConfirm \/ SeekScan
  BY <1>0, <1>13 DEF WayInv, SeekLook, SeekConfirm, SeekScan
<1>14. CASE SeekNavigate
  BY <1>0, <1>14 DEF WayInv, SeekNavigate
<1>15. CASE OutOfSteps \/ Interrupted \/ Race
  BY <1>0, <1>15 DEF WayInv, OutOfSteps, Interrupted, Race
<1> QED BY <1>1, <1>2, <1>3, <1>4, <1>5, <1>6, <1>7, <1>8, <1>9, <1>10, <1>11, <1>12, <1>13, <1>14, <1>15 DEF Next

\* The ways a page can go on, or not.
LEMMA ArriveFields ==
    ASSUME DoneInv, scenario' = scenario, Arrive \/ Advance \/ UNCHANGED <<at, done>>
    PROVE  DoneInv'
BY DEF DoneInv, Page, Arrive, Advance, site

\* What an outcome of filling fills, and what it counts.
LEMMA OutcomeParts ==
    ASSUME tally.lost \in BOOLEAN
    PROVE  \A o \in FillOutcomes : o.filled \subseteq Page.fields /\ o.tally.lost \in BOOLEAN
<1> SUFFICES ASSUME NEW o \in FillOutcomes PROVE o.filled \subseteq Page.fields /\ o.tally.lost \in BOOLEAN
  OBVIOUS
<1>1. PICK m \in Made(Looked(lz)) : \E slip : o = FillOutcome(m[1], m[2], m[3], slip)
  BY DEF FillOutcomes
<1>2. PICK slip : o = FillOutcome(m[1], m[2], m[3], slip)
  BY <1>1
<1>3. o.filled \subseteq Scanned /\ o.tally = m[2]
  BY <1>2 DEF FillOutcome
<1>4. \A l, how : TallyOf(l, how).lost \in BOOLEAN
  BY DEF TallyOf, Count
<1>5. m[2].lost \in BOOLEAN
  <2>1. m[2] = tally \/ \E how : m[2] = TallyOf(Looked(lz), how)
    BY DEF Made
  <2> QED BY <1>4, <2>1
<1> QED BY <1>3, <1>5 DEF Scanned

LEMMA DoneStep ==
    ASSUME DoneInv, FlagInv, [Next]_vars
    PROVE  DoneInv'
<1> USE DEF docs, site
<1>0. scenario' = scenario
  BY ScenarioStays
<1>a. tally.lost \in BOOLEAN
  BY DEF FlagInv
<1>1. CASE \/ Arrive \/ Advance \/ UNCHANGED <<at, done>>
  BY <1>0, <1>1, ArriveFields
<1>2. CASE FillStep \/ Refill \/ SeekFill
  <2>1. at' = at /\ \E o \in FillOutcomes : done' = done \cup o.filled
    BY <1>2 DEF FillStep, Refill, SeekFill, Fill
  <2>2. Page' = Page
    BY <1>0, <2>1 DEF Page
  <2> QED BY <1>a, <2>1, <2>2, OutcomeParts DEF DoneInv
<1>3. CASE ScanStep \/ SeekScan
  <2>1. at' = at /\ done' = done \cup {f \in Scanned : f = "question"}
    BY <1>3 DEF ScanStep, SeekScan
  <2>2. Page' = Page
    BY <1>0, <2>1 DEF Page
  <2> QED BY <2>1, <2>2 DEF DoneInv, Scanned
<1>4. CASE Race
  BY <1>4 DEF Race, DoneInv
<1>5. CASE OpenModal \/ LoopHead \/ ClickNext \/ LateClick \/ ClickSubmit \/ Confirm \/ ScanNavigate \/ ScanLook
  BY <1>1, <1>5, Zenon DEF OpenModal, LoopHead, ClickNext, LateClick, ClickSubmit, Confirm, ScanNavigate, ScanLook
<1>6. CASE SeekSignIn \/ OpenSeek \/ SeekOpened \/ RecoverSeek \/ SeeForm \/ SeekClick \/ SeekLook \/ SeekConfirm \/ SeekNavigate
  BY <1>1, <1>6, Zenon DEF SeekSignIn, OpenSeek, SeekOpened, RecoverSeek, SeeForm, SeekClick, SeekLook, SeekConfirm, SeekNavigate
<1>7. CASE OutOfSteps \/ Interrupted \/ UNCHANGED vars
  BY <1>1, <1>7 DEF OutOfSteps, Interrupted, vars
<1> QED BY <1>2, <1>3, <1>4, <1>5, <1>6, <1>7 DEF Next

\* The outcome and the flags are among the known ones.
LEMMA FlagStep ==
    ASSUME FlagInv, PlaceInv, [Next]_vars
    PROVE  FlagInv'
<1> USE DEF Return, Continue, docs, site, sending, AfterSubmit
<1> DEFINE Known(s) == s \subseteq {"race", "late", "click", "silent", "login"}
           Results == {"none", "submitted", "prepared", "failed", "unknown"}
           Flags(s) == s \subseteq BOOLEAN
<1>0. scenario' = scenario
  BY ScenarioStays
<1>1. disturbed' \in 0 .. scenario'.disturbances
  <2>1. disturbed \in Nat /\ scenario.disturbances \in Nat /\ disturbed <= scenario.disturbances
    <3>1. scenario.disturbances \in Nat
      BY ScenariosAssumption DEF PlaceInv
    <3> QED BY <3>1 DEF FlagInv
  <2>2. Disturb => disturbed' \in 0 .. scenario.disturbances
    BY <2>1 DEF Disturb
  <2>3. \A n \in Nat : Costs(n) => disturbed' \in 0 .. scenario.disturbances
    BY <2>1 DEF Costs
  <2> QED BY <1>0, <2>1, <2>2, <2>3, HowDisturbed
<1>2. tally.lost \in BOOLEAN /\ \A l, how : TallyOf(l, how).lost \in BOOLEAN
  BY DEF FlagInv, TallyOf, Count
<1>3. tally'.lost \in BOOLEAN
  <2>1. UNCHANGED tally \/ (\E l, how : tally' = TallyOf(l, how)) \/ \E o \in FillOutcomes : Fill(o)
    BY DEF Next, OpenModal, LoopHead, FillStep, ClickNext, LateClick, ClickSubmit, Confirm, Refill,
           ScanStep, ScanNavigate, ScanLook, SeekSignIn, OpenSeek, SeekOpened, RecoverSeek, SeeForm, SeekFill,
           SeekClick, SeekLook, SeekConfirm, SeekScan, SeekNavigate, OutOfSteps, Interrupted, Race, vars
  <2> QED BY <1>2, <2>1, OutcomeParts DEF Fill
<1>4. result \in Results /\ Known(slips) /\ Flags({marked, pressed, sent}) /\ Complete \in BOOLEAN
  BY DEF FlagInv, Complete
<1>5. result' \in Results
  <2>1. UNCHANGED result \/ \E r \in Results : Return(r)
    BY DEF Next, OpenModal, LoopHead, FillStep, ClickNext, LateClick, ClickSubmit, Confirm, Refill, Judge,
           ScanStep, ScanNavigate, ScanLook, SeekSignIn, OpenSeek, SeekOpened, RecoverSeek, SeeForm, SeekFill,
           SeekClick, SeekLook, SeekConfirm, SeekScan, SeekNavigate, OutOfSteps, Interrupted, Race, vars
  <2> QED BY <1>4, <2>1
<1>6. Known(slips')
  <2>1. UNCHANGED slips \/ \E s \in {"race", "late", "click", "silent", "login"} : slips' = slips \cup {s}
    BY DEF Next, OpenModal, LoopHead, FillStep, ClickNext, LateClick, ClickSubmit, Confirm, Refill, Silently,
           ScanStep, ScanNavigate, ScanLook, SeekSignIn, OpenSeek, SeekOpened, RecoverSeek, SeeForm, SeekFill,
           SeekClick, SeekLook, SeekConfirm, SeekScan, SeekNavigate, OutOfSteps, Interrupted, Race, vars
  <2> QED BY <1>4, <2>1
<1>7. Flags({marked', pressed', sent'})
  <2>1. /\ UNCHANGED marked \/ marked' = TRUE
        /\ UNCHANGED pressed \/ pressed' \in BOOLEAN
        /\ UNCHANGED sent \/ sent' \in {TRUE, Complete} \/ \E b \in BOOLEAN : sent' = (b /\ Complete)
    BY DEF Next, OpenModal, LoopHead, FillStep, ClickNext, LateClick, ClickSubmit, Confirm, Refill, Silently,
           ScanStep, ScanNavigate, ScanLook, SeekSignIn, OpenSeek, SeekOpened, RecoverSeek, SeeForm, SeekFill,
           SeekClick, SeekLook, SeekConfirm, SeekScan, SeekNavigate, OutOfSteps, Interrupted, Race, vars
  <2> QED BY <1>4, <2>1
<1> QED BY <1>1, <1>3, <1>5, <1>6, <1>7 DEF FlagInv

\* The limit of the loop that the code is in.
LEMMA LimitHere ==
    ASSUME WayInv, PlaceInv
    PROVE  /\ pc = "head" => StepLimit(scenario) = MaxSteps
           /\ pc = "scan" => StepLimit(scenario) = PrepareSteps
           /\ pc = "seek" => StepLimit(scenario) = SeekSteps
           /\ StepLimit(scenario) \in Nat
<1>1. (LinkedIn => scenario.site # "seek") /\ (~LinkedIn => scenario.site = "seek")
  BY OneMode DEF PlaceInv
<1>2. {MaxSteps, PrepareSteps, SeekSteps} \subseteq Nat
  BY LimitsAssumption
<1> QED BY <1>1, <1>2 DEF WayInv, StepLimit, Preparing

\* The counters after a step that leaves them,
LEMMA CountKept ==
    ASSUME CountInv, scenario' = scenario, run' = run, pc = "done" => pc' = "done"
    PROVE  CountInv'
<1>1. StepLimit(scenario)' = StepLimit(scenario)
  BY DEF StepLimit
<1> QED BY <1>1 DEF CountInv, RunType

\* and after each one that does not.
LEMMA CountStep ==
    ASSUME CountInv, WayInv, PlaceInv, PlaceInv', [Next]_vars
    PROVE  CountInv'
<1> USE DEF Return, Continue, docs, site, sending
<1>0. scenario' = scenario /\ StepLimit(scenario)' = StepLimit(scenario) /\ StepLimit(scenario) \in Nat
  BY ScenarioStays, LimitHere DEF StepLimit
<1>a. /\ run.i \in Nat /\ run.prev \in Nat /\ run.same \in Nat /\ run.unfillable \in Nat
      /\ run.missing \in Nat /\ run.blind \in Nat /\ run.filled \in BOOLEAN /\ run \in Runs
      /\ run.i <= StepLimit(scenario)
      /\ run.unfillable <= MaxUnfillable /\ run.missing <= MaxMissing /\ run.blind <= MaxBlind
      /\ pc # "done" => run.unfillable < MaxUnfillable /\ run.missing < MaxMissing /\ run.blind < MaxBlind
  BY DEF CountInv, RunType, Runs
<1>b. /\ MaxUnfillable \in Nat /\ MaxMissing \in Nat /\ MaxBlind \in Nat
      /\ 0 < MaxUnfillable /\ 0 < MaxMissing /\ 0 < MaxBlind
  BY LimitsAssumption
<1>c. at \in Nat /\ at' \in Nat
  <2>1. at \in 1 .. Len(scenario.pages) /\ at' \in 1 .. Len(scenario'.pages)
    BY DEF PlaceInv
  <2> QED BY <2>1
<1>1. CASE run' = run /\ (pc = "done" => pc' = "done")
  BY <1>0, <1>1, CountKept
<1>2. CASE LoopHead
  <2> DEFINE i == run.i + 1
             same == IF at' = run.prev /\ ~scenario.pages[at'].plain THEN run.same + 1 ELSE 0
  <2>1. i \in Nat /\ same \in Nat /\ i <= StepLimit(scenario)
    BY <1>0, <1>a, <1>2, LimitHere DEF LoopHead
  <2>2. run' = [run EXCEPT !.i = i, !.prev = at', !.same = same] /\ pc = "head"
    BY <1>2 DEF LoopHead
  <2> HIDE DEF i, same
  <2>3. /\ run' \in Runs /\ run'.i = i /\ run'.unfillable = run.unfillable /\ run'.missing = run.missing
        /\ run'.blind = run.blind
    BY <1>a, <1>c, <2>1, <2>2 DEF Runs
  <2> QED BY <1>0, <1>a, <2>1, <2>2, <2>3 DEF CountInv, RunType
<1>3. CASE FillStep
  <2>1. PICK o \in FillOutcomes :
          LET n == IF HasFields /\ o.filled = {} THEN run.unfillable + 1 ELSE 0 IN
          IF o.failed THEN pc' = "done" /\ run' = run
          ELSE /\ run' = [run EXCEPT !.unfillable = n, !.filled = o.filled # {}]
               /\ pc' = IF n >= MaxUnfillable THEN "done" ELSE "click"
    BY <1>3 DEF FillStep
  <2> DEFINE n == IF HasFields /\ o.filled = {} THEN run.unfillable + 1 ELSE 0
             full == o.filled # {}
  <2>2. n \in Nat /\ full \in BOOLEAN /\ n <= MaxUnfillable /\ pc = "fill"
    BY <1>3, <1>a, <1>b DEF FillStep
  <2>3. CASE o.failed
    BY <1>1, <2>1, <2>3
  <2>4. CASE ~o.failed
    <3>1. run' = [run EXCEPT !.unfillable = n, !.filled = full] /\ (pc' # "done" => ~(n >= MaxUnfillable))
      BY <2>1, <2>4
    <3> HIDE DEF n, full
    <3>2. /\ run' \in Runs /\ run'.i = run.i /\ run'.unfillable = n /\ run'.missing = run.missing
          /\ run'.blind = run.blind
      BY <1>a, <2>2, <3>1 DEF Runs
    <3>3. pc' # "done" => n < MaxUnfillable
      BY <1>b, <2>2, <3>1
    <3> QED BY <1>0, <1>a, <2>2, <3>2, <3>3 DEF CountInv, RunType
  <2> QED BY <2>3, <2>4
<1>4. CASE ClickNext \/ LateClick
  <2>1. \A ok \in BOOLEAN : Judge(ok) => CountInv'
    <3> SUFFICES ASSUME NEW ok \in BOOLEAN, Judge(ok) PROVE CountInv'
      OBVIOUS
    <3> DEFINE missing == IF ok THEN 0 ELSE run.missing + 1
               blind == IF ~ok THEN run.blind ELSE IF run.filled THEN 0 ELSE run.blind + 1
               unf == IF ok THEN 0 ELSE run.unfillable
    <3>0. pc = "click"
      BY <1>4 DEF ClickNext, LateClick
    <3>1. \/ run' = run
          \/ /\ run' = [run EXCEPT !.missing = missing, !.blind = blind, !.unfillable = unf]
             /\ pc' = IF missing >= MaxMissing \/ blind >= MaxBlind THEN "done" ELSE "head"
      BY <1>a DEF Judge, Runs
    <3>2. /\ missing \in Nat /\ missing <= MaxMissing /\ blind \in Nat /\ blind <= MaxBlind
          /\ unf \in Nat /\ unf < MaxUnfillable
      BY <1>a, <1>b, <3>0
    <3>3. CASE run' = run
      BY <1>1, <3>0, <3>3
    <3>4. CASE run' # run
      <4> HIDE DEF missing, blind, unf
      <4>1. /\ run' = [run EXCEPT !.missing = missing, !.blind = blind, !.unfillable = unf]
            /\ pc' # "done" => ~(missing >= MaxMissing) /\ ~(blind >= MaxBlind)
        BY <3>1, <3>4
      <4>2. /\ run' \in Runs /\ run'.i = run.i /\ run'.unfillable = unf /\ run'.missing = missing
            /\ run'.blind = blind
        BY <1>a, <3>2, <4>1 DEF Runs
      <4>3. pc' # "done" => missing < MaxMissing /\ blind < MaxBlind
        BY <1>b, <3>2, <4>1
      <4> QED BY <1>0, <1>a, <1>b, <3>2, <4>2, <4>3 DEF CountInv, RunType
    <3> QED BY <3>3, <3>4
  <2>2. Judge(TRUE) \/ Judge(FALSE) \/ (run' = run /\ pc # "done")
    BY <1>4, Zenon DEF ClickNext, LateClick
  <2> QED BY <1>1, <2>1, <2>2
<1>5. CASE Refill
  <2>1. pc = "refill" /\ (run' = run \/ run' = [run EXCEPT !.same = 0, !.unfillable = 0])
    BY <1>5 DEF Refill
  <2>2. CASE run' = run
    BY <1>1, <2>1, <2>2
  <2>3. CASE run' = [run EXCEPT !.same = 0, !.unfillable = 0]
    <3>1. /\ run' \in Runs /\ run'.i = run.i /\ run'.unfillable = 0 /\ run'.missing = run.missing
          /\ run'.blind = run.blind
      BY <1>a, <2>3 DEF Runs
    <3> QED BY <1>0, <1>a, <1>b, <2>1, <3>1 DEF CountInv, RunType
  <2> QED BY <2>1, <2>2, <2>3
<1>6. CASE ScanStep \/ SeekFill \/ SeekScan
  <2>1. pc \in {"scan", "seek"} /\ run.i < StepLimit(scenario)
        /\ (run' = run \/ run' = [run EXCEPT !.i = run.i + 1])
    BY <1>6, LimitHere DEF ScanStep, SeekFill, SeekScan
  <2>2. CASE run' = run
    BY <1>1, <2>1, <2>2
  <2>3. CASE run' = [run EXCEPT !.i = run.i + 1]
    <3> DEFINE i == run.i + 1
    <3>1. i \in Nat /\ i <= StepLimit(scenario)
      BY <1>0, <1>a, <2>1
    <3>2. run' = [run EXCEPT !.i = i]
      BY <2>3
    <3> HIDE DEF i
    <3>3. /\ run' \in Runs /\ run'.i = i /\ run'.unfillable = run.unfillable /\ run'.missing = run.missing
          /\ run'.blind = run.blind
      BY <1>a, <3>1, <3>2 DEF Runs
    <3> QED BY <1>0, <1>a, <2>1, <3>1, <3>3 DEF CountInv, RunType
  <2> QED BY <2>1, <2>2, <2>3
<1>7. CASE ScanNavigate
  <2> DEFINE same == IF at = run.prev THEN run.same + 1 ELSE 0
  <2>1. pc = "navigate" /\ (run' = run \/ run' = [run EXCEPT !.same = same, !.prev = at]) /\ same \in Nat
    BY <1>7, <1>a DEF ScanNavigate
  <2>2. CASE run' = run
    BY <1>1, <2>1, <2>2
  <2>3. CASE run' = [run EXCEPT !.same = same, !.prev = at]
    <3> HIDE DEF same
    <3>1. /\ run' \in Runs /\ run'.i = run.i /\ run'.unfillable = run.unfillable /\ run'.missing = run.missing
          /\ run'.blind = run.blind
      BY <1>a, <1>c, <2>1, <2>3 DEF Runs
    <3> QED BY <1>0, <1>a, <2>1, <3>1 DEF CountInv, RunType
  <2> QED BY <2>1, <2>2, <2>3
<1>8. CASE OpenModal \/ ClickSubmit \/ Confirm \/ ScanLook \/ SeekSignIn \/ OpenSeek \/ SeekOpened \/ RecoverSeek
           \/ SeeForm
  <2>1. run' = run /\ pc # "done"
    BY <1>8 DEF OpenModal, ClickSubmit, Confirm, ScanLook, SeekSignIn, OpenSeek, SeekOpened, RecoverSeek, SeeForm
  <2> QED BY <1>1, <2>1
<1>9. CASE SeekClick \/ SeekLook \/ SeekConfirm \/ SeekNavigate \/ OutOfSteps \/ Interrupted \/ Race \/ UNCHANGED vars
  <2>1. run' = run /\ (pc # "done" \/ pc' = pc)
    BY <1>9 DEF SeekClick, SeekLook, SeekConfirm, SeekNavigate, OutOfSteps, Interrupted, Race, vars
  <2> QED BY <1>1, <2>1
<1> QED BY <1>2, <1>3, <1>4, <1>5, <1>6, <1>7, <1>8, <1>9 DEF Next

\* All of it,
LEMMA FormInvStep ==
    ASSUME FormInv, [Next]_vars
    PROVE  FormInv'
<1>1. PlaceInv /\ SendInv /\ WayInv /\ CountInv /\ DoneInv /\ FlagInv
  BY DEF FormInv
<1>2. PlaceInv' /\ SendInv'
  BY <1>1, PlaceStep, SendStep
<1>3. WayInv' /\ DoneInv' /\ FlagInv'
  BY <1>1, WayStep, DoneStep, FlagStep
<1>4. CountInv'
  BY <1>1, <1>2, CountStep
<1> QED BY <1>2, <1>3, <1>4 DEF FormInv

\* always.
LEMMA FormAlways == Spec => []FormInv
<1>1. FormInv /\ [Next]_vars => FormInv'
  BY FormInvStep
<1> QED BY <1>1, FormInvInit, PTL DEF Spec

\* Whatever the form and the documents, the state of a pass is well formed: the page that shows
\* is one of the form, only what is on it is filled, and no counter of the loop goes beyond its
\* limit, that of the steps of this site and mode included (bot.go:1980, 2210).
THEOREM FormTypeCorrect == Spec => []TypeOK
<1>1. FormInv => TypeOK
  BY FormInvTypes
<1> QED BY <1>1, FormAlways, PTL

\* Why a pass ends: every step uses up some of a number that is fixed by the form and by how
\* far the pass is, of its iterations left above all.  Nothing that the site does gains time:
\* not a page that is filled again, one that gives way by itself, or a login in between.
StageOf(p) ==
    CASE p = "done" -> 0
      [] p = "confirm" -> 1
      [] p \in {"head", "scan", "seek"} -> 2
      [] p \in {"look", "refill", "visible"} -> 3
      [] p \in {"click", "navigate", "seekClick", "recover"} -> 4
      [] p \in {"fill", "opened"} -> 5
      [] p = "button" -> 6
      [] p \in {"open", "signIn"} -> 7
Remaining ==
    4 * (StepLimit(scenario) - run.i) + (Len(scenario.pages) - at) + StageOf(pc)
    + (IF "login" \in slips THEN 0 ELSE 3)
EveryStepCounts == [][Remaining' \in 0 .. Remaining - 1]_vars

\* The stages, one by one.
LEMMA Stages ==
    /\ StageOf("done") = 0 /\ StageOf("confirm") = 1
    /\ StageOf("head") = 2 /\ StageOf("scan") = 2 /\ StageOf("seek") = 2
    /\ StageOf("look") = 3 /\ StageOf("refill") = 3 /\ StageOf("visible") = 3
    /\ StageOf("click") = 4 /\ StageOf("navigate") = 4 /\ StageOf("seekClick") = 4 /\ StageOf("recover") = 4
    /\ StageOf("fill") = 5 /\ StageOf("opened") = 5 /\ StageOf("button") = 6
    /\ StageOf("open") = 7 /\ StageOf("signIn") = 7
BY DEF StageOf
LEMMA StageTypes == \A p \in PCs : StageOf(p) \in Nat
BY Stages DEF PCs

\* The kinds of steps: another iteration, a step of one, a page that gives way, and a login.
Ahead == at' \in {at, at + 1}
SameLogin == "login" \in slips' <=> "login" \in slips
Ticks == run'.i = run.i + 1 /\ StageOf(pc') <= StageOf(pc) + 3
Falls == run'.i = run.i /\ StageOf(pc') < StageOf(pc)
GivesWay == at' = at + 1 /\ SameLogin /\ run' = run /\ pc' = pc
LogsIn ==
    /\ "login" \notin slips /\ "login" \in slips'
    /\ at' = at /\ run' = run /\ StageOf(pc') = StageOf(pc) + 2

\* How a step leaves the page and the slips,
LEMMA StepSite ==
    ASSUME Next
    PROVE  /\ Ahead
           /\ SameLogin \/ (SeekOpened /\ at' = at)
<1> USE DEF docs, site, sending, Arrive, Advance
<1>1. CASE OpenModal \/ LoopHead \/ FillStep \/ ClickNext \/ LateClick \/ ClickSubmit \/ Confirm \/ Refill
  BY <1>1 DEF Ahead, SameLogin, OpenModal, LoopHead, FillStep, ClickNext, LateClick, ClickSubmit, Confirm, Refill
<1>2. CASE ScanStep \/ ScanNavigate \/ ScanLook \/ SeekSignIn \/ OpenSeek \/ SeekOpened \/ RecoverSeek \/ SeeForm
  BY <1>2 DEF Ahead, SameLogin, ScanStep, ScanNavigate, ScanLook, SeekSignIn, OpenSeek, SeekOpened, RecoverSeek,
         SeeForm, Silently
<1>3. CASE SeekFill \/ SeekClick \/ SeekLook \/ SeekConfirm \/ SeekScan \/ SeekNavigate
  BY <1>3 DEF Ahead, SameLogin, SeekFill, SeekClick, SeekLook, SeekConfirm, SeekScan, SeekNavigate
<1>4. CASE OutOfSteps \/ Interrupted \/ Race
  BY <1>4 DEF Ahead, SameLogin, OutOfSteps, Interrupted, Race
<1> QED BY <1>1, <1>2, <1>3, <1>4 DEF Next

\* and how it leaves the loop.
LEMMA StepLoop ==
    ASSUME WayInv, RunType, Next
    PROVE  Ticks \/ Falls \/ GivesWay \/ LogsIn
<1> USE Stages DEF Return, Continue, docs, site, sending
<1>0. run \in Runs /\ run.i \in Nat
  BY DEF RunType, Runs
<1>1. CASE OpenModal \/ ClickSubmit \/ Confirm \/ ScanLook \/ SeekSignIn \/ OpenSeek \/ RecoverSeek \/ SeeForm
  <2>1. run' = run
    BY <1>1 DEF OpenModal, ClickSubmit, Confirm, ScanLook, SeekSignIn, OpenSeek, RecoverSeek, SeeForm
  <2>2. StageOf(pc') < StageOf(pc)
    <3>1. CASE OpenModal \/ Confirm \/ ScanLook
      <4>1. \/ pc = "open" /\ pc' \in {"scan", "head", "done"}
            \/ pc = "confirm" /\ pc' = "done"
            \/ pc = "look" /\ pc' = "scan"
        BY <3>1 DEF OpenModal, Confirm, ScanLook
      <4>2. CASE pc = "open" /\ pc' \in {"scan", "head", "done"}
        <5>1. StageOf(pc) = 7 /\ StageOf(pc') \in {2, 0}
          BY <4>2
        <5> QED BY <5>1
      <4>3. CASE pc = "confirm" /\ pc' = "done"
        BY <4>3
      <4>4. CASE pc = "look" /\ pc' = "scan"
        BY <4>4
      <4> QED BY <4>1, <4>2, <4>3, <4>4
    <3>3. CASE ClickSubmit
      <4>1. pc = "click" /\ pc' \in {"confirm", "done"}
        BY <3>3 DEF ClickSubmit
      <4> QED BY <4>1
    <3>2. CASE SeekSignIn \/ OpenSeek \/ RecoverSeek \/ SeeForm
      BY <3>2 DEF SeekSignIn, OpenSeek, RecoverSeek, SeeForm
    <3> QED BY <1>1, <3>1, <3>2, <3>3
  <2> QED BY <2>1, <2>2 DEF Falls
<1>2. CASE LoopHead
  <2>1. run'.i = run.i + 1 /\ pc = "head" /\ pc' = "fill"
    BY <1>0, <1>2 DEF LoopHead, Runs
  <2> QED BY <2>1 DEF Ticks
<1>3. CASE FillStep
  <2>1. run'.i = run.i /\ pc = "fill" /\ pc' \in {"done", "click"}
    BY <1>0, <1>3 DEF FillStep, Runs
  <2> QED BY <2>1 DEF Falls
<1>4. CASE ClickNext \/ LateClick
  <2>1. \A ok \in BOOLEAN : Judge(ok) => run'.i = run.i /\ pc' \in {"done", "refill", "head"}
    BY <1>0 DEF Judge, Runs
  <2>2. pc = "click" /\ (Judge(TRUE) \/ Judge(FALSE) \/ (pc' = "head" /\ run' = run))
    BY <1>4, Zenon DEF ClickNext, LateClick, Continue
  <2>3. run'.i = run.i /\ pc' \in {"done", "refill", "head"}
    BY <2>1, <2>2
  <2> QED BY <2>2, <2>3 DEF Falls
<1>5. CASE Refill
  <2>1. run'.i = run.i /\ pc = "refill" /\ pc' \in {"done", "head"}
    BY <1>0, <1>5 DEF Refill, Runs
  <2> QED BY <2>1 DEF Falls
<1>6. CASE ScanStep
  <2>1. run'.i = run.i + 1 /\ pc = "scan" /\ pc' = "navigate"
    BY <1>0, <1>6 DEF ScanStep, Runs
  <2> QED BY <2>1 DEF Ticks
<1>7. CASE SeekFill \/ SeekScan
  <2>1. pc = "seek" /\ ((run' = run /\ pc' = "done") \/ (run'.i = run.i + 1 /\ pc' = "seekClick"))
    BY <1>0, <1>7 DEF SeekFill, SeekScan, Runs
  <2> QED BY <2>1 DEF Ticks, Falls
<1>8. CASE ScanNavigate
  <2>1. run'.i = run.i /\ pc = "navigate" /\ pc' \in {"done", "look"}
    BY <1>0, <1>8 DEF ScanNavigate, Runs
  <2> QED BY <2>1 DEF Falls
<1>9. CASE SeekOpened
  <2>1. pc = "opened" /\ run' = run /\ at' = at
    BY <1>9 DEF SeekOpened
  <2>2. \/ pc' \in {"done", "visible", "recover"}
        \/ pc' = "signIn" /\ "login" \notin slips /\ "login" \in slips'
    BY <1>9 DEF SeekOpened
  <2> QED BY <2>1, <2>2 DEF Falls, LogsIn
<1>10. CASE SeekClick \/ SeekNavigate
  <2>1. pc = "seekClick" /\ run' = run /\ pc' \in {"done", "look", "confirm"}
    BY <1>10 DEF SeekClick, SeekNavigate
  <2> QED BY <2>1 DEF Falls
<1>11. CASE SeekLook \/ SeekConfirm
  <2>1. run' = run /\ ((pc = "look" /\ pc' = "seek") \/ (pc = "confirm" /\ pc' = "done"))
    BY <1>11 DEF SeekLook, SeekConfirm
  <2> QED BY <2>1 DEF Falls
<1>12. CASE OutOfSteps \/ Interrupted
  <2>1. run' = run /\ pc \in PCs \ {"done"} /\ pc' = "done"
    BY <1>12 DEF OutOfSteps, Interrupted, WayInv
  <2> QED BY <2>1 DEF Falls, PCs
<1>13. CASE Race
  <2>1. at' = at + 1 /\ run' = run /\ pc' = pc /\ slips' = slips \cup {"race"}
    BY <1>13 DEF Race
  <2> QED BY <2>1 DEF GivesWay, SameLogin
<1> QED BY <1>1, <1>2, <1>3, <1>4, <1>5, <1>6, <1>7, <1>8, <1>9, <1>10, <1>11, <1>12, <1>13 DEF Next

\* What is left of a well-formed pass is never negative.
LEMMA RemainingType == FormInv => Remaining \in Nat
<1> SUFFICES ASSUME FormInv PROVE Remaining \in Nat
  OBVIOUS
<1>1. run.i \in Nat /\ run.i <= StepLimit(scenario) /\ StepLimit(scenario) \in Nat
  BY LimitHere DEF FormInv, CountInv, RunType, Runs
<1>2. Len(scenario.pages) \in Nat /\ at \in 1 .. Len(scenario.pages)
  <2>1. Len(scenario.pages) \in Nat
    BY PagesType DEF FormInv, PlaceInv
  <2> QED BY <2>1 DEF FormInv, PlaceInv
<1>3. StageOf(pc) \in Nat
  BY StageTypes DEF FormInv, WayInv
<1> DEFINE a == StepLimit(scenario) - run.i
           b == Len(scenario.pages) - at
           c == StageOf(pc)
           d == IF "login" \in slips THEN 0 ELSE 3
<1>4. a \in Nat /\ b \in Nat /\ c \in Nat /\ d \in Nat
  BY <1>1, <1>2, <1>3
<1>5. Remaining = 4 * a + b + c + d
  BY DEF Remaining
<1> HIDE DEF a, b, c, d
<1> QED BY <1>4, <1>5

\* The arithmetic of it.
LEMMA Fewer ==
    \A L, P, i, i1, a, a1, c, c1, d, d1 \in Nat :
        /\ a1 \in {a, a + 1}
        /\ \/ i1 = i + 1 /\ c1 <= c + 3 /\ d1 = d
           \/ i1 = i /\ c1 = c /\ d1 = d /\ a1 = a + 1
           \/ i1 = i /\ c1 = c + 2 /\ d = 3 /\ d1 = 0
           \/ i1 = i /\ c1 < c /\ d1 <= d
        => 4 * (L - i1) + (P - a1) + c1 + d1 < 4 * (L - i) + (P - a) + c + d
OBVIOUS

LEMMA RemainingStep ==
    ASSUME FormInv, Remaining \in Nat, Remaining' \in Nat, Next
    PROVE  Remaining' \in 0 .. Remaining - 1
<1>1. FormInv' /\ WayInv /\ WayInv' /\ RunType /\ scenario' = scenario
  BY FormInvStep, ScenarioStays DEF FormInv, CountInv
<1>2. /\ StepLimit(scenario) \in Nat /\ Len(scenario.pages) \in Nat /\ at \in Nat /\ run.i \in Nat
  <2>1. StepLimit(scenario) \in Nat /\ run.i \in Nat
    BY LimitHere DEF FormInv, CountInv, RunType, Runs
  <2>2. Len(scenario.pages) \in Nat
    BY PagesType DEF FormInv, PlaceInv
  <2>3. at \in Nat
    BY <2>2 DEF FormInv, PlaceInv
  <2> QED BY <2>1, <2>2, <2>3
<1>3. StageOf(pc) \in Nat /\ StageOf(pc') \in Nat
  BY <1>1, StageTypes DEF WayInv
<1> DEFINE L == StepLimit(scenario)
           P == Len(scenario.pages)
           c == StageOf(pc)
           c1 == StageOf(pc')
           d == IF "login" \in slips THEN 0 ELSE 3
           d1 == IF "login" \in slips' THEN 0 ELSE 3
           i == run.i
           i1 == run'.i
<1>4. Remaining = 4 * (L - i) + (P - at) + c + d /\ Remaining' = 4 * (L - i1) + (P - at') + c1 + d1
  BY <1>1 DEF Remaining, StepLimit
<1>5. /\ at' \in {at, at + 1}
      /\ \/ i1 = i + 1 /\ c1 <= c + 3 /\ d1 = d
         \/ i1 = i /\ c1 = c /\ d1 = d /\ at' = at + 1
         \/ i1 = i /\ c1 = c + 2 /\ d = 3 /\ d1 = 0
         \/ i1 = i /\ c1 < c /\ d1 <= d
  <2>1. Ahead /\ (SameLogin \/ SeekOpened)
    BY StepSite
  <2>2. Ticks \/ Falls \/ GivesWay \/ LogsIn
    BY <1>1, StepLoop
  <2>3. SeekOpened => run' = run /\ (slips \subseteq slips')
    BY DEF SeekOpened, site, sending, docs
  <2> QED BY <1>2, <1>3, <2>1, <2>2, <2>3 DEF Ahead, SameLogin, Ticks, Falls, GivesWay, LogsIn
<1>6. d \in Nat /\ d1 \in Nat /\ c \in Nat /\ c1 \in Nat /\ L \in Nat /\ P \in Nat /\ i \in Nat
  BY <1>2, <1>3
<1> HIDE DEF L, P, c, c1, d, d1, i, i1
<1>7. i1 \in Nat /\ at \in Nat /\ at' \in Nat
  BY <1>2, <1>5, <1>6
<1>8. 4 * (L - i1) + (P - at') + c1 + d1 < 4 * (L - i) + (P - at) + c + d
  BY <1>5, <1>6, <1>7, Fewer
<1>9. Remaining' < Remaining
  BY <1>4, <1>8
<1> QED BY <1>2, <1>9

\* No pass goes on for ever, whatever the site does and the model answers: every step of every
\* behaviour lowers a natural number, so that the steps are at most as many as that number is
\* at first: four for each iteration of the loop (bot.go:1980, 2210), one for each further page, ten more.
THEOREM EveryPassIsBounded == Spec => EveryStepCounts
<1>1. FormInv => Remaining \in Nat
  BY RemainingType
<1>2. FormInv /\ Remaining \in Nat /\ (Remaining \in Nat)' /\ [Next]_vars => [Remaining' \in 0 .. Remaining - 1]_vars
  BY RemainingStep
<1>3. Spec => [][Remaining' \in 0 .. Remaining - 1]_vars
  BY <1>1, <1>2, FormAlways, PTL DEF Spec
<1> QED BY <1>3 DEF EveryStepCounts
=============================================================================
