---------------------------- MODULE MailedLinks ----------------------------
(***************************************************************************)
(* What the accounts promise of a link they e-mail: it is followed to its  *)
(* effect at most once, and only while it is good - it was not replaced by *)
(* a later one of the same request, has not lapsed, and its account was    *)
(* not deleted.  A link that changes the password or the address leaves no *)
(* session of the account behind.                                          *)
(***************************************************************************)
EXTENDS Naturals

CONSTANTS Links,            \* numbered as they are made
          Accounts

VARIABLES made,             \* links made so far
          good,             \* links that may still have their effect
          followed,         \* how often each had its effect
          ends,             \* the account whose sessions it ends, or none
          sessions          \* accounts with a session

vars == <<made, good, followed, ends, sessions>>

Init == /\ made = {} /\ good = {}
        /\ followed = [l \in Links |-> 0]
        /\ ends = [l \in Links |-> {}]
        /\ sessions \subseteq Accounts

\* A new link may replace earlier ones, and may come too late to be good.
Make == \E l \in Links \ made :
            /\ made' = made \cup {l}
            /\ good' \in SUBSET (good \cup {l})
            /\ \E owner \in SUBSET Accounts : ends' = [ends EXCEPT ![l] = owner]
            /\ UNCHANGED <<followed, sessions>>

Follow == \E l \in good :
            /\ followed' = [followed EXCEPT ![l] = @ + 1]
            /\ good' = good \ {l}
            /\ sessions' = sessions \ ends[l]
            /\ UNCHANGED <<made, ends>>

\* People sign in and out; links lapse, and go with a deleted account.
Otherwise == /\ sessions' \subseteq Accounts
             /\ good' \in SUBSET good
             /\ UNCHANGED <<made, followed, ends>>

Next == Make \/ Follow \/ Otherwise

Spec == Init /\ [][Next]_vars
=============================================================================
