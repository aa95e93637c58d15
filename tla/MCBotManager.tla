---------------------------- MODULE MCBotManager ----------------------------
(* Instances of BotManager for TLC. *)
EXTENDS BotManager

CONSTANT s                  \* a submission beside the runs
OneSub == {s}
RunsTickOnce == [m \in Meters |-> IF m \in Subs THEN 1 ELSE 2]
RunsAndSubs == (1..MaxRuns) \cup Subs
=============================================================================
