---------------------------- MODULE ExactlyOnce ----------------------------
(***************************************************************************)
(* What the webhook processor promises about paid checkouts, whatever the  *)
(* deliveries, crashes and retries: every checkout is credited at most     *)
(* once, and Stripe is told a checkout is handled only after its credits   *)
(* are on the row.                                                         *)
(***************************************************************************)
EXTENDS Naturals

CONSTANTS Checkouts,        \* paid top-up checkouts
          PackCredits       \* credits of a pack

VARIABLES credited,         \* checkouts whose credits were added
          acknowledged,     \* checkouts Stripe will not send again
          credits           \* top-up credits on the user's row

Init == credited = {} /\ acknowledged = {} /\ credits = 0

Credit(c) == /\ c \notin credited
             /\ credited' = credited \cup {c}
             /\ credits' = credits + PackCredits
             /\ UNCHANGED acknowledged

Acknowledge(c) == /\ c \in credited
                  /\ acknowledged' = acknowledged \cup {c}
                  /\ UNCHANGED <<credited, credits>>

Next == \E c \in Checkouts : Credit(c) \/ Acknowledge(c)

Spec == Init /\ [][Next]_<<credited, acknowledged, credits>>
=============================================================================
