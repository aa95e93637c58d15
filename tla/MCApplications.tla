--------------------------- MODULE MCApplications ---------------------------
(* Instances of Applications for TLC. *)
EXTENDS Applications, TLC

CONSTANTS u1, u2
TwoUrls == {u1, u2}
OneUrl == {u1}
SymUrls == Permutations(TwoUrls)

Of(s, a, d) == [site |-> s, attempts |-> a, disturbances |-> d]
PassScenarios == {Of("linkedin", 1, 2), Of("linkedin", 2, 1), Of("seek", 2, 0), Of("seek", 1, 1)}
=============================================================================
