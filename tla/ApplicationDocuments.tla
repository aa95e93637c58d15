------------------------ MODULE ApplicationDocuments ------------------------
(* Which résumé and which cover letter go into one application: what the form   *)
(* asks for, the choice among the application's selection, the user's policy    *)
(* and the defaults, the making of the files, and the pack that is stored.  All *)
(* are operators on values; the modules that open forms hold the state.         *)
EXTENDS Naturals, Sequences, FiniteSets

\* A content version is <<origin, number>>, and so is the file exported from it.
None == <<>>

\* Why documents are held back.  Only the kinds of text that the code tells apart.
Holds == {"", "unknown", "changed", "placeholder", "other"}
Outcomes == {"", "local", "site", "skipped", "hold"}

NoCaps == [det |-> FALSE, slots |-> 0, req |-> FALSE, opt |-> FALSE, site |-> FALSE, amb |-> FALSE]
NoSelection == [resume |-> None, cover |-> None, site |-> FALSE, skip |-> FALSE]
NoRef == [outcome |-> "", version |-> None, path |-> None]
EmptyPack == [prepared |-> FALSE, hold |-> "", sel |-> NoSelection, caps |-> NoCaps,
              resume |-> NoRef, cover |-> NoRef]

-----------------------------------------------------------------------------
\* The resolver: the selection, then the policy, then its fall-back, then a hold.
\* st is the user's settings: both modes, both fall-backs, both defaults, and
\* whether a confirmed profile exists.

Held == [outcome |-> "hold", version |-> None, make |-> FALSE]
Site == [outcome |-> "site", version |-> None, make |-> FALSE]
Unresolved == [outcome |-> "", version |-> None, make |-> FALSE]
Skipped == [outcome |-> "skipped", version |-> None, make |-> FALSE]
File(v) == [outcome |-> "local", version |-> v, make |-> FALSE]
ToMake == [outcome |-> "local", version |-> None, make |-> TRUE]
Frozen(v) == IF v = None THEN Skipped ELSE File(v)

ResolveResume(st, sel, frozen, caps) ==
    CASE frozen -> Frozen(sel.resume)
      [] ~frozen /\ sel.site ->
            IF caps.amb \/ (caps.det /\ ~caps.site) THEN Held ELSE Site
      [] ~frozen /\ ~sel.site /\ sel.resume # None -> File(sel.resume)
      [] ~frozen /\ ~sel.site /\ sel.resume = None ->
            CASE st.resumeMode = "site"    -> IF caps.site /\ ~caps.amb THEN Site ELSE Held
              [] st.resumeMode = "tailor"  -> IF caps.det /\ st.profile THEN ToMake ELSE Held
              [] st.resumeMode = "default" ->
                    IF caps.det /\ st.resume # None THEN File(st.resume)
                    ELSE IF caps.det /\ st.siteFallback /\ caps.site /\ ~caps.amb THEN Site ELSE Held
              [] OTHER -> Held

\* Whether the policy wants a cover letter for this form.
CoverIntent(mode, caps) ==
    caps.det /\ (caps.req \/ (mode \in {"accepted", "general"} /\ (caps.opt \/ caps.slots >= 2)))

ResolveCover(st, sel, frozen, caps) ==
    CASE frozen -> Frozen(sel.cover)
      [] ~frozen /\ sel.skip -> IF caps.det /\ caps.req THEN Held ELSE Skipped
      [] ~frozen /\ ~sel.skip /\ sel.cover # None -> File(sel.cover)
      [] ~frozen /\ ~sel.skip /\ sel.cover = None ->
            CASE ~caps.det -> Held
              [] caps.det /\ ~CoverIntent(st.coverMode, caps) -> Skipped
              [] caps.det /\ CoverIntent(st.coverMode, caps) ->
                    CASE st.coverMode = "general" -> IF st.cover # None THEN File(st.cover) ELSE Held
                      [] st.coverMode \in {"required", "accepted"} -> IF st.profile THEN ToMake ELSE Held
                      [] OTHER                     -> Held

Resolve(st, sel, frozen, caps) ==
    [resume |-> ResolveResume(st, sel, frozen, caps), cover |-> ResolveCover(st, sel, frozen, caps)]
IsHeld(res) == res.resume.outcome = "hold" \/ res.cover.outcome = "hold"

-----------------------------------------------------------------------------
\* What the form asks for.

\* "unnamed" is a file input without a label, which says neither résumé nor cover letter.
FileFields == {"resume", "unnamed", "cover", "coverOptional"}
Fields == FileFields \cup {"question", "stubborn", "odd"}
Capabilities == [det : BOOLEAN, slots : Nat, req : BOOLEAN, opt : BOOLEAN, site : BOOLEAN, amb : BOOLEAN]

\* What one page shows; every file input that is no cover letter is a résumé slot.
CapsOf(fields) ==
    LET slots == Cardinality(fields \cap {"resume", "unnamed"}) IN
    [NoCaps EXCEPT !.det = fields # {}, !.slots = slots, !.req = "cover" \in fields,
                   !.opt = "coverOptional" \in fields \/ (slots >= 2 /\ "cover" \notin fields)]
\* The look at the whole Seek form: it sees file inputs only.
Probe(fields, attached) == [CapsOf(fields \cap FileFields) EXCEPT !.site = attached]

MergeCaps(dst, src) ==
    IF ~src.det THEN dst
    ELSE [det   |-> TRUE,
          slots |-> IF src.slots > dst.slots THEN src.slots ELSE dst.slots,
          req   |-> dst.req \/ src.req,
          opt   |-> dst.opt \/ src.opt,
          site  |-> dst.site \/ src.site,
          amb   |-> dst.amb \/ src.amb]

-----------------------------------------------------------------------------
\* The stored pack.

\* StaleReviewHoldReason, and the other texts that MarkPrepared clears.
Stale(hold) == hold = "changed"
MarkPrepared(pack) ==
    [pack EXCEPT !.prepared = TRUE, !.hold = IF Stale(@) \/ @ = "placeholder" THEN "" ELSE @]
ReadyForSubmit(pack) ==
    /\ pack.prepared
    /\ pack.hold = ""
    /\ \/ pack.resume.outcome # "" \/ pack.cover.outcome # ""
       \/ pack.resume.path # None \/ pack.cover.path # None
PackAfterSelectionChange(sel) == [EmptyPack EXCEPT !.sel = sel, !.hold = "changed"]

Ref(d, path) == [outcome |-> d.outcome, version |-> d.version, path |-> path]
PackFromPrepared(hold, r, c, resumePath, coverPath) ==
    [EmptyPack EXCEPT !.hold = hold, !.resume = Ref(r, resumePath), !.cover = Ref(c, coverPath)]

-----------------------------------------------------------------------------
\* lazyDocGen: the documents of one attempt.

NewLazy(sel, frozen, pack, resumePath, coverPath) ==
    LET first(a, b) == IF a # None THEN a ELSE b
        chosen == [resume |-> first(sel.resume, pack.sel.resume), cover |-> first(sel.cover, pack.sel.cover),
                   site |-> pack.sel.site, skip |-> pack.sel.skip]
        fresh == [caps |-> pack.caps, sel |-> chosen, frozen |-> frozen, pack |-> pack,
                  hold |-> IF ~frozen /\ ~Stale(pack.hold) THEN pack.hold ELSE "",
                  resumeOverride |-> resumePath, coverOverride |-> coverPath,
                  resume |-> None, cover |-> None, resumeV |-> None, coverV |-> None,
                  useSite |-> FALSE, mat |-> FALSE]
    \* restoreFrozenPack
    IN IF ~frozen THEN fresh
       ELSE [fresh EXCEPT !.hold = pack.hold, !.useSite = pack.resume.outcome = "site",
                          !.resume = first(pack.resume.path, resumePath), !.cover = first(pack.cover.path, coverPath),
                          !.resumeV = pack.resume.version, !.coverV = pack.cover.version]

Blocked(lz) == lz.hold # ""
Peek(lz) == [resume |-> IF lz.resumeOverride # None THEN lz.resumeOverride ELSE lz.resume,
             cover  |-> IF lz.coverOverride # None THEN lz.coverOverride ELSE lz.cover]

\* Mutant of Overrides: a version that an earlier step made is not reused.
OverridesForget(lz) == lz.sel
\* applicationDocumentOverrides: what was chosen, else what was already used.
Overrides(lz) ==
    [lz.sel EXCEPT !.resume = IF @ = None THEN lz.resumeV ELSE @,
                   !.cover = IF @ = None THEN lz.coverV ELSE @]

\* invalidateMaterialization: what was made is kept, except a hold for want of a
\* scan, and a cover letter when the form turns out to take one.
Invalidate(lz, prev) ==
    IF lz.hold = "unknown"
    THEN [lz EXCEPT !.mat = FALSE, !.hold = "", !.resume = None, !.cover = None, !.resumeV = None,
                    !.coverV = None, !.useSite = FALSE, !.pack = EmptyPack]
    ELSE IF ~prev.req /\ ~prev.opt /\ (lz.caps.req \/ lz.caps.opt)
    THEN [lz EXCEPT !.mat = FALSE, !.cover = None, !.coverV = None, !.pack.cover = NoRef]
    ELSE [lz EXCEPT !.mat = FALSE]

\* Mutant of ApplyCaps: a form that asks for more later is not looked at again.
ApplyCapsOnce(lz, caps) == [lz EXCEPT !.caps = MergeCaps(@, caps)]
ApplyCaps(lz, caps) ==
    LET merged == [lz EXCEPT !.caps = MergeCaps(@, caps)] IN
    IF ~lz.frozen /\ lz.mat /\ merged.caps.det /\ (merged.caps # lz.caps \/ lz.hold = "unknown")
    THEN Invalidate(merged, lz.caps)
    ELSE merged

\* A résumé input that already holds a file, of which it may be clear that it is the site's.
\* The flags are set past ApplyCaps, so that alone prepares nothing anew.
SeeAttached(lz, clear) ==
    [lz EXCEPT !.caps.site = TRUE, !.caps.amb = @ \/ ~clear]

\* What can go wrong while documents are made.
Mishaps == {"none", "guard", "tailor", "save", "resumeFile", "cover", "coverFile"}
\* The mishaps that can happen to this resolution.
MishapsOf(res) ==
    {"none", "guard"}
        \cup (IF res.resume.make THEN {"tailor", "save"} ELSE {})
        \cup (IF res.resume.outcome = "local" THEN {"resumeFile"} ELSE {})
        \cup (IF res.cover.make THEN {"cover"} ELSE {})
        \cup (IF res.cover.outcome = "local" THEN {"coverFile"} ELSE {})
\* A résumé was tailored, and paid for.
Tailors(res, how) == ~IsHeld(res) /\ res.resume.make /\ how \notin {"guard", "tailor"}

\* Mutant of AbsorbPartial: a failure drops what was made before it.
AbsorbPartialDrops(lz, r, c, resumePath) == lz
\* absorbPartialMaterialization, and the pack of a preparation that failed.
AbsorbPartial(lz, r, c, resumePath) ==
    [lz EXCEPT !.resume = IF resumePath # None THEN resumePath ELSE @,
               !.resumeV = IF r.version # None THEN r.version ELSE @,
               !.coverV = IF c.version # None THEN c.version ELSE @]

\* MaterializeApplicationDocs and what materializeWithPolicies makes of its result;
\* fresh is the pair of versions that this call may add to the library.
Materialized(lz, st, fresh, how) ==
    LET res == Resolve(st, Overrides(lz), lz.frozen, lz.caps)
        r == IF res.resume.make THEN [res.resume EXCEPT !.version = fresh.resume] ELSE res.resume
        general == how = "cover" /\ st.coverFallback /\ st.cover # None
        c == CASE ~res.cover.make -> res.cover
               [] res.cover.make /\ general -> File(st.cover)
               [] OTHER -> [res.cover EXCEPT !.version = fresh.cover]
        resumePath == IF how # "resumeFile" THEN r.version ELSE None
        coverPath == IF how # "coverFile" THEN c.version ELSE None
        used(d, path, version) == IF path # None /\ version # None THEN [d EXCEPT !.version = version] ELSE d
        \* PackFromPrepared and mergeMaterializedPackPaths
        WithPack(l, rr, cc) ==
            [l EXCEPT !.mat = TRUE,
                      !.pack = PackFromPrepared(l.hold, used(rr, l.resume, l.resumeV), used(cc, l.cover, l.coverV),
                                                l.resume, l.cover)]
        failed == [lz EXCEPT !.hold = "other"]
    IN IF IsHeld(res)
       THEN [failed EXCEPT !.mat = TRUE, !.pack = PackFromPrepared("other", res.resume, res.cover, None, None)]
       ELSE IF how = "guard"
       THEN WithPack(failed, Unresolved, Unresolved)
       ELSE IF how \in {"tailor", "save"}
       THEN WithPack(AbsorbPartial(failed, res.resume, res.cover, None), res.resume, res.cover)
       ELSE IF how = "cover" /\ ~general
       THEN WithPack(AbsorbPartial(failed, r, res.cover, r.version), r, res.cover)
       ELSE IF how \in {"resumeFile", "coverFile"}
       \* failHold: not an error, so nothing is absorbed.
       THEN [failed EXCEPT !.mat = TRUE,
                           !.pack = PackFromPrepared("other", r, IF how = "resumeFile" THEN res.cover ELSE c, resumePath,
                                                     IF how = "resumeFile" THEN None ELSE coverPath)]
       ELSE [lz EXCEPT !.hold = "", !.mat = TRUE, !.resume = resumePath, !.cover = coverPath,
                       !.resumeV = r.version, !.coverV = c.version, !.useSite = @ \/ r.outcome = "site",
                       !.pack = PackFromPrepared("", r, c, resumePath, coverPath)]

\* ensureMaterialized runs it only once per invalidation, and never before a scan.
MayMaterialize(lz) == ~lz.frozen /\ lz.caps.det /\ ~lz.mat
=============================================================================
