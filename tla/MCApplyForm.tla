---------------------------- MODULE MCApplyForm -----------------------------
(* Forms, settings and modes for the runs of ApplyForm. *)
EXTENDS ApplyForm

Saved == <<"saved", 1>>
SavedCover == <<"saved", 2>>
With(rm, cm, v, c, sf, cf) == [resumeMode |-> rm, coverMode |-> cm, siteFallback |-> sf, coverFallback |-> cf,
                               resume |-> v, cover |-> c, profile |-> TRUE]
AllSettings == {With("tailor", "required", None, None, FALSE, FALSE),
                With("tailor", "accepted", Saved, SavedCover, FALSE, TRUE),
                With("tailor", "accepted", None, None, FALSE, FALSE),
                With("default", "general", Saved, SavedCover, FALSE, FALSE),
                With("default", "required", None, None, TRUE, FALSE),
                With("site", "skip", None, None, FALSE, FALSE)}

P(fields, attached, lag, button) ==
    [fields |-> fields, attached |-> attached, lag |-> lag, button |-> button, plain |-> FALSE]
N(fields) == P(fields, FALSE, 1, "next")
Submit == P({}, FALSE, 0, "submit")

\* Forms that can be filled: short and long, slow pages, files asked for late.
Forms == {<<N({"resume", "question"}), P({"question"}, FALSE, 2, "next"), N({"question"}), Submit>>,
          <<N({"resume"}), N({"question"}), N({"cover"}), Submit>>,
          <<P({"resume"}, TRUE, 0, "next"), N({"coverOptional"}), P({"question"}, FALSE, 2, "next"), Submit>>,
          <<P({"resume", "coverOptional", "question"}, TRUE, 0, "submit")>>,
          <<N({"resume", "unnamed"}), N({"question"}), P({"cover"}, FALSE, 0, "submit")>>,
          <<P({"resume"}, FALSE, 4, "next"), P({"unnamed", "question"}, TRUE, 4, "next"), Submit>>,
          <<P({"resume", "coverOptional"}, TRUE, 0, "next"), P({"resume", "unnamed"}, TRUE, 1, "next"), Submit>>,
          <<P({}, FALSE, 1, "next"), P({"question"}, FALSE, 0, "next"), P({"resume"}, TRUE, 0, "submit")>>}
\* Forms that cannot: a field that takes no answer, one that is not seen, a page
\* that never moves on or never lets go, and more prefilled pages than allowed.
BadForms == {<<N({"resume", "stubborn"}), Submit>>,
             <<N({"odd"}), Submit>>,
             <<N({"stubborn", "question"}), Submit>>,
             <<P({"resume"}, TRUE, 99, "next"), Submit>>,
             <<P({}, FALSE, 99, "next"), Submit>>,
             <<N({"question"}), P({"resume"}, TRUE, 0, "off")>>,
             <<N({"question"}), P({"resume", "coverOptional"}, TRUE, 0, "submitOff")>>,
             <<[N({"odd"}) EXCEPT !.plain = TRUE], Submit>>,
             [k \in 1 .. 10 |-> IF k = 10 THEN Submit ELSE P({}, FALSE, 0, "next")]}

Ready(v, c) ==
    [EmptyPack EXCEPT !.prepared = TRUE, !.caps.det = TRUE, !.sel.resume = v, !.sel.cover = c,
                      !.resume = [outcome |-> IF v = None THEN "site" ELSE "local", version |-> v, path |-> v],
                      !.cover = [outcome |-> IF c = None THEN "skipped" ELSE "local", version |-> c, path |-> c]]
Packs == {EmptyPack, PackAfterSelectionChange([NoSelection EXCEPT !.resume = Saved, !.skip = TRUE]),
          [EmptyPack EXCEPT !.sel.site = TRUE, !.hold = "other"]}
FrozenPacks == {Ready(Saved, SavedCover), Ready(<<"saved", 3>>, None), Ready(None, None)}

Case(s, m, f, p, pages, st, e, d) ==
    [site |-> s, mode |-> m, frozen |-> f, pack |-> p, pages |-> pages, settings |-> st, entry |-> e, disturbances |-> d]
Entries(s) == IF s = "seek" THEN {"href", "button"} ELSE {"href"}
AllScenarios ==
    UNION {
        {Case(s, m, FALSE, p, pages, st, e, d) :
            m \in {"apply", "prepare"}, p \in Packs, pages \in Forms, st \in AllSettings, e \in Entries(s), d \in {2}} \cup
        {Case(s, "apply", TRUE, p, pages, st, e, 2) :
            p \in FrozenPacks, pages \in Forms, st \in AllSettings, e \in {"href"}} \cup
        {Case(s, m, FALSE, EmptyPack, pages, st, "href", 2) :
            m \in {"apply", "prepare"}, pages \in BadForms, st \in AllSettings}
      : s \in {"linkedin", "seek"}}
Stuck == [refused |-> 4, filled |-> 5, blind |-> 6]
=============================================================================
