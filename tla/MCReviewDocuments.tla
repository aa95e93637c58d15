-------------------------- MODULE MCReviewDocuments --------------------------
(* ReviewDocuments for TLC: two settings, a form and the mixes of requests.     *)
EXTENDS ReviewDocuments, TLC

CONSTANTS s1, s2

MCSlots == {s1, s2}
SlotSymmetry == Permutations(MCSlots)

MCSettings ==
    {[resumeMode |-> "default", coverMode |-> "general", siteFallback |-> FALSE],
     [resumeMode |-> "tailor", coverMode |-> "skip", siteFallback |-> FALSE]}
\* A form with a résumé, which the site may hold already, and an optional cover letter.
MCForms == {[NoCaps EXCEPT !.det = TRUE, !.slots = 1, !.opt = TRUE, !.site = TRUE]}

\* Requests about documents, and about the review.
MCPlans == {<<3, 0>>, <<2, 1>>, <<1, 2>>, <<0, 4>>}
=============================================================================
