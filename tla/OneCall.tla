------------------------------ MODULE OneCall ------------------------------
(***************************************************************************)
(* What generation reuse promises for one content (user, task, model and   *)
(* messages): it is charged once, published once after that, and whoever   *)
(* gets an answer gets the published one.                                  *)
(***************************************************************************)
CONSTANTS Callers,          \* goroutines that ask for this content
          Charges,          \* possible charges: an operation, counted
          Answers,          \* what a provider may say
          NoAnswer

VARIABLES charged,          \* the charges made
          published,        \* the answer all callers share
          told              \* what callers were told: pairs of both

Init == charged = {} /\ published = NoAnswer /\ told = {}

Charge(x) == /\ charged = {}
             /\ charged' = {x}
             /\ UNCHANGED <<published, told>>

Publish(a) == /\ charged # {}
              /\ published = NoAnswer
              /\ published' = a
              /\ UNCHANGED <<charged, told>>

Tell(c) == /\ published # NoAnswer
           /\ told' = told \cup {<<c, published>>}
           /\ UNCHANGED <<charged, published>>

Next == \/ \E x \in Charges : Charge(x)
        \/ \E a \in Answers : Publish(a)
        \/ \E c \in Callers : Tell(c)

Spec == Init /\ [][Next]_<<charged, published, told>>
=============================================================================
