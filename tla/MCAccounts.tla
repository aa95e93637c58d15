---------------------------- MODULE MCAccounts ----------------------------
(***************************************************************************)
(* Scenarios to model-check Accounts with.                                 *)
(***************************************************************************)
EXTENDS Accounts, TLC

CONSTANTS w1, w2,           \* goroutines
          home, work, other \* addresses

Owner(e, verified) ==
    [alive |-> TRUE, email |-> e, password |-> TRUE, google |-> FALSE,
     verified |-> verified, pending |-> "none", link |-> 0]

Made(requests) == [r \in Requests |-> IF r \in DOMAIN requests THEN requests[r] ELSE 0]

\* The owner forgets the password, asks once too often, and may delete the
\* account.
Recover ==
    [accounts |-> <<Owner(home, TRUE)>>, google |-> {}, asks |-> {"reset"},
     budget |-> Made("forget" :> 1 @@ "ask" :> 1 @@ "delete" :> 1),
     failures |-> 2, lapses |-> 1]

\* Somebody registers, asks once too often for a link to verify, and may delete
\* the account.
Join ==
    [accounts |-> <<>>, google |-> {}, asks |-> {"verify"},
     budget |-> Made("register" :> 1 @@ "ask" :> 1 @@ "delete" :> 1),
     failures |-> 1, lapses |-> 1]

\* Two changes of an address nobody verified, with a link to verify it.
Move ==
    [accounts |-> <<Owner(home, FALSE)>>, google |-> {}, asks |-> {},
     budget |-> Made("ask" :> 1 @@ "change" :> 2),
     failures |-> 1, lapses |-> 1]

\* Somebody registers while another account moves, perhaps to the same address.
Taken ==
    [accounts |-> <<Owner(home, TRUE)>>, google |-> {}, asks |-> {},
     budget |-> Made("change" :> 1 @@ "register" :> 1 @@ "login" :> 1),
     failures |-> 0, lapses |-> 0]

\* Sign-in with Google, under two addresses, beside a change of address.
Linked ==
    [accounts |-> <<Owner(home, FALSE)>>, google |-> {home, work}, asks |-> {},
     budget |-> Made("change" :> 1 @@ "google" :> 2),
     failures |-> 1, lapses |-> 0]

\* An account is deleted beside its owner's other requests.
Deleted ==
    [accounts |-> <<Owner(home, FALSE)>>, google |-> {home}, asks |-> {},
     budget |-> Made("change" :> 1 @@ "google" :> 1 @@ "delete" :> 1 @@ "ask" :> 1),
     failures |-> 0, lapses |-> 0]

\* Sessions beside a reset and a change of password.
Sessions ==
    [accounts |-> <<Owner(home, TRUE)>>, google |-> {}, asks |-> {},
     budget |-> Made("forget" :> 1 @@ "ask" :> 1 @@ "login" :> 1 @@ "refresh" :> 1
                     @@ "password" :> 1 @@ "logout" :> 1),
     failures |-> 0, lapses |-> 0]

MCScenarios == {Recover, Join, Move, Taken, Linked, Deleted, Sessions}
=============================================================================
