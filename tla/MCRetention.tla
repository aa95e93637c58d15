----------------------------- MODULE MCRetention -----------------------------
(* Constants for the runs of Retention. *)
EXTENDS Retention, TLC

CONSTANTS v1, v2, a

(* The two versions have the same bytes and share one artifact. *)
MCArtifact == v1 :> a @@ v2 :> a
MCLimits == {1}
MCTwoLimits == {1, 2}
MCSymmetry == Permutations(Tasks)
=============================================================================
