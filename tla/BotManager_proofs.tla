------------------------- MODULE BotManager_proofs -------------------------
(***************************************************************************)
(* What holds of the bot manager's entry and its meters for any number of  *)
(* runs, submissions, requests and buckets.                                *)
(*                                                                         *)
(* Three arguments, over the same steps: who holds the run id and what is  *)
(* left to unregister; where the bot may be while its meter rests; and how *)
(* the buckets of a meter are numbered.                                    *)
(***************************************************************************)
EXTENDS BotManager, FiniteSetTheorems, TLAPS

Pcs == {"queued", "launch", "relaunch", "auth", "activate", "charge", "boundary",
        "waiting", "check", "job", "closing", "finish", "release", "gone"}
States == {"idle", "running", "user_action_required", "stopped", "error"}
MeterRecs == [err : {"none", "refused", "cancelled"}, stopped : BOOLEAN, ever : BOOLEAN,
              idx : Nat, tick : {"off", "on", "charge"}]
BotRecs == [run : 0..MaxRuns, pc : Pcs, back : {"boundary", "check", "relaunch"},
            state : States, stop : BOOLEAN, cancelled : BOOLEAN, pause : BOOLEAN,
            woken : BOOLEAN, asked : BOOLEAN]
EntryRecs == [status : {"idle", "running", "paused", "stopped", "error"},
              statusRun : Ids \cup {NoRun}, run : Ids \cup {NoRun}, refs : Nat]
SubRecs == [pc : {"idle", "held", "unregister", "done"}, run : Ids \cup {NoRun}]

Types ==
    /\ meter \in [Meters -> MeterRecs]
    /\ entry \in EntryRecs
    /\ bot \in BotRecs
    /\ tail \in [Runs -> {"none", "unregister"}]
    /\ sub \in [Subs -> SubRecs]
    /\ started \in 0..MaxRuns
    /\ bot.pc # "gone" => bot.run \in 1..started

-----------------------------------------------------------------------------
(* Who holds the run id. *)

\* The run ids that were given out: no other run will have one of them.
Given == (1..started) \cup {s \in Subs : sub[s].pc # "idle"}

Registry ==
    /\ RunHeld
    /\ entry.run = NoRun => entry.refs = 0
    /\ entry.run # NoRun => entry.run \in Given
    /\ sink \in {NoRun, logs.run}
    /\ \A r \in Runs : tail[r] = "unregister" => r \in 1..started /\ r # entry.run
    /\ \A s \in Subs : sub[s].pc \in {"held", "unregister"} => sub[s].run \in Given
    /\ \A s \in Subs : sub[s].pc = "unregister" => sub[s].run # entry.run

-----------------------------------------------------------------------------
(* Where the bot may be while its meter rests. *)

Metered(m) == meter[m].tick # "off" \/ ~Allowed(m) \/ bot.cancelled

Billing ==
    /\ bot.pc \in {"boundary", "job"} => Metered(bot.run)
    /\ bot.pc = "check" => Metered(bot.run) \/ bot.stop
    /\ bot.pc \in {"launch", "relaunch"} => Metered(bot.run) \/ ~meter[bot.run].ever
    /\ bot.pc = "queued" => ~meter[bot.run].ever
    /\ \A r \in Runs : r > started => ~meter[r].ever
    /\ bot.asked => bot.cancelled

-----------------------------------------------------------------------------
(* How buckets are numbered. *)

Pending(m) == meter[m].tick = "charge" \/ (bot.pc = "charge" /\ bot.run = m)

\* What was taken and is settled, or left to an orphan, has a smaller number
\* than the bucket that is being charged and those still to come.
Numbered(m) ==
    ~meter[m].stopped =>
        /\ Pending(m) => meter[m].idx > 0
        /\ \A i \in Nat : <<m, i>> \in billed \cup orphans =>
              i < IF Pending(m) THEN meter[m].idx - 1 ELSE meter[m].idx

Buckets ==
    /\ orphans \subseteq Meters \X Nat /\ billed \subseteq Meters \X Nat
    /\ IsFiniteSet(billed) /\ EveryIncrementBilled
    /\ billed \cap orphans = {}
    /\ \A m \in Meters : Numbered(m)
    /\ \A m \in Meters : meter[m].stopped => meter[m].tick = "off"
    /\ bot.pc = "charge" => meter[bot.run].tick = "off" /\ ~meter[bot.run].stopped
    /\ \A s \in Subs : sub[s].pc \in {"idle", "held"} =>
          /\ ~meter[s].stopped
          /\ meter[s].tick = "off" \/ meter[s].ever
          /\ meter[s].ever \/ ~Allowed(s) \/ meter[s].idx = 0

BotInv == Types /\ Registry /\ Billing /\ Buckets

-----------------------------------------------------------------------------
(* What every step leaves alone. *)

LEMMA Constants ==
    /\ MaxRuns \in Nat \ {0} /\ IsFiniteSet(Subs)
    /\ Runs \subseteq Meters /\ Subs \subseteq Meters
    /\ \A m \in Meters : m \in Runs \/ m \in Subs
    /\ \A r \in Runs : r \notin Subs /\ r # NoRun
    /\ \A s \in Subs : s # NoRun
  BY BotAssumption DEF Runs, NoRun

\* Of a meter one record changes at a time, unless none does.
OneMeter(m) == meter' = [meter EXCEPT ![m] = meter'[m]] /\ meter'[m] \in MeterRecs

LEMMA MeterOperations ==
    ASSUME Types, NEW m \in Meters,
           \/ CallActivate(m) \/ Activated(m) \/ (\E live \in BOOLEAN : ActivateFails(m, live))
           \/ (\E live \in BOOLEAN : Tick(m, live) \/ TickFails(m, live) \/ TickEnds(m, live))
           \/ TickCharged(m) \/ Deactivate(m) \/ StopMeter(m)
    PROVE  OneMeter(m)
<1>1. meter \in [Meters -> MeterRecs] /\ meter[m] \in MeterRecs
  BY DEF Types
<1>2. ASSUME NEW r \in MeterRecs, SetMeter(m, r) PROVE OneMeter(m)
  BY <1>1, <1>2 DEF SetMeter, OneMeter
<1>3. /\ [meter[m] EXCEPT !.idx = @ + 1, !.tick = "off"] \in MeterRecs
      /\ [meter[m] EXCEPT !.idx = @ + 1, !.tick = "charge"] \in MeterRecs
      /\ [meter[m] EXCEPT !.ever = TRUE, !.tick = "on"] \in MeterRecs
      /\ [meter[m] EXCEPT !.tick = "on"] \in MeterRecs
      /\ [meter[m] EXCEPT !.tick = "off"] \in MeterRecs
      /\ [[Fresh EXCEPT !.stopped = TRUE] EXCEPT !.tick = "off"] \in MeterRecs
      /\ \A err \in {"refused", "cancelled"} :
            /\ [meter[m] EXCEPT !.err = err] \in MeterRecs
            /\ [meter[m] EXCEPT !.err = err, !.tick = "off"] \in MeterRecs
  <2>1. Fresh \in MeterRecs
    BY DEF MeterRecs, Fresh
  <2>2. ASSUME NEW r \in MeterRecs
        PROVE  /\ [r EXCEPT !.idx = @ + 1, !.tick = "off"] \in MeterRecs
               /\ [r EXCEPT !.idx = @ + 1, !.tick = "charge"] \in MeterRecs
               /\ [r EXCEPT !.ever = TRUE, !.tick = "on"] \in MeterRecs
               /\ [r EXCEPT !.tick = "on"] \in MeterRecs
               /\ [r EXCEPT !.tick = "off"] \in MeterRecs
               /\ [r EXCEPT !.stopped = TRUE] \in MeterRecs
    <3>1. r.idx + 1 \in Nat
      BY DEF MeterRecs
    <3>2. [r EXCEPT !.idx = @ + 1] \in MeterRecs /\ [r EXCEPT !.ever = TRUE] \in MeterRecs
      BY <3>1 DEF MeterRecs
    <3>3. \A q \in MeterRecs : /\ [q EXCEPT !.tick = "off"] \in MeterRecs
                               /\ [q EXCEPT !.tick = "on"] \in MeterRecs
                               /\ [q EXCEPT !.tick = "charge"] \in MeterRecs
                               /\ [q EXCEPT !.stopped = TRUE] \in MeterRecs
      BY DEF MeterRecs
    <3> QED
      BY <3>2, <3>3
  <2>3. \A r \in MeterRecs, err \in {"refused", "cancelled"} :
          /\ [r EXCEPT !.err = err] \in MeterRecs
          /\ [r EXCEPT !.err = err, !.tick = "off"] \in MeterRecs
    BY DEF MeterRecs
  <2> HIDE DEF Fresh
  <2> QED
    BY <1>1, <2>1, <2>2, <2>3
<1>4. \A live \in BOOLEAN : Unpaid(live) \subseteq {"refused", "cancelled"}
  BY DEF Unpaid
<1>5. CASE CallActivate(m)
  BY <1>2, <1>3, <1>5 DEF CallActivate, TakeBucket
<1>6. CASE Activated(m)
  BY <1>2, <1>3, <1>6 DEF Activated
<1>7. CASE \E live \in BOOLEAN : ActivateFails(m, live)
  BY <1>2, <1>3, <1>4, <1>7 DEF ActivateFails
<1>8. CASE \E live \in BOOLEAN : Tick(m, live)
  BY <1>2, <1>3, <1>8 DEF Tick, TakeBucket
<1>9. CASE \E live \in BOOLEAN : TickFails(m, live)
  BY <1>2, <1>3, <1>4, <1>9 DEF TickFails
<1>10. CASE \E live \in BOOLEAN : TickEnds(m, live)
  BY <1>2, <1>3, <1>10 DEF TickEnds
<1>11. CASE TickCharged(m)
  BY <1>2, <1>3, <1>11 DEF TickCharged
<1>12. CASE Deactivate(m)
  BY <1>2, <1>3, <1>12 DEF Deactivate, Cut
<1>13. CASE StopMeter(m)
  BY <1>2, <1>3, <1>13 DEF StopMeter, Cut
<1> QED
  BY <1>5, <1>6, <1>7, <1>8, <1>9, <1>10, <1>11, <1>12, <1>13

LEMMA BotRecords ==
    ASSUME NEW b \in BotRecs
    PROVE  /\ \A at \in Pcs : [b EXCEPT !.pc = at] \in BotRecs
           /\ \A at \in {"boundary", "check", "relaunch"} : [b EXCEPT !.back = at] \in BotRecs
           /\ \A st \in States : [b EXCEPT !.state = st] \in BotRecs
           /\ \A v \in BOOLEAN : /\ [b EXCEPT !.stop = v] \in BotRecs
                                 /\ [b EXCEPT !.cancelled = v] \in BotRecs
                                 /\ [b EXCEPT !.pause = v] \in BotRecs
                                 /\ [b EXCEPT !.woken = v] \in BotRecs
                                 /\ [b EXCEPT !.asked = v] \in BotRecs
           /\ b.pc \in Pcs /\ b.back \in {"boundary", "check", "relaunch"} /\ b.state \in States
           /\ {b.stop, b.cancelled, b.pause, b.woken, b.asked} \subseteq BOOLEAN
<1>1. \A at \in Pcs : [b EXCEPT !.pc = at] \in BotRecs
  BY DEF BotRecs
<1>2. \A at \in {"boundary", "check", "relaunch"} : [b EXCEPT !.back = at] \in BotRecs
  BY DEF BotRecs
<1>3. \A st \in States : [b EXCEPT !.state = st] \in BotRecs
  BY DEF BotRecs
<1>4. \A v \in BOOLEAN : /\ [b EXCEPT !.stop = v] \in BotRecs
                         /\ [b EXCEPT !.cancelled = v] \in BotRecs
                         /\ [b EXCEPT !.pause = v] \in BotRecs
                         /\ [b EXCEPT !.woken = v] \in BotRecs
                         /\ [b EXCEPT !.asked = v] \in BotRecs
  BY DEF BotRecs
<1>5. /\ b.pc \in Pcs /\ b.back \in {"boundary", "check", "relaunch"} /\ b.state \in States
      /\ {b.stop, b.cancelled, b.pause, b.woken, b.asked} \subseteq BOOLEAN
  BY DEF BotRecs
<1> QED
  BY <1>1, <1>2, <1>3, <1>4, <1>5

LEMMA NewBots == \A r \in 0..MaxRuns : NewBot(r) \in BotRecs /\ NewBot(r).run = r
  BY DEF NewBot, BotRecs, Pcs, States

\* The bot's run stays what it is from its start to its release.
Going(b) == b \in BotRecs /\ b.run = bot.run

LEMMA GoingFacts ==
    ASSUME bot \in BotRecs
    PROVE  /\ Going(GiveUp) /\ Going(Refused)
           /\ GiveUp.pc \in {"closing", "finish"}
           /\ Refused.pc \in {"closing", "finish", "check"}
           /\ \A b \in {GiveUp, Refused} : b.cancelled = bot.cancelled /\ b.asked = bot.asked
<1>1. GiveUp \in BotRecs
  BY BotRecords DEF GiveUp, Pcs, States
<1>2. GiveUp.run = bot.run /\ GiveUp.pc \in {"closing", "finish"}
      /\ GiveUp.cancelled = bot.cancelled /\ GiveUp.asked = bot.asked
  BY DEF GiveUp, BotRecs
<1> HIDE DEF GiveUp
<1>3. CASE bot.back = "boundary"
  <2>1. Refused = [bot EXCEPT !.pc = "closing"]
    BY <1>3 DEF Refused
  <2>2. Refused \in BotRecs
    BY <2>1, BotRecords DEF Pcs
  <2> QED
    BY <1>1, <1>2, <2>1, <2>2 DEF Going, BotRecs
<1>4. CASE bot.back = "relaunch"
  <2>1. Refused = GiveUp
    BY <1>4 DEF Refused
  <2> QED
    BY <1>1, <1>2, <2>1 DEF Going
<1>5. CASE bot.back = "check"
  <2>1. Refused = [bot EXCEPT !.pc = "check", !.back = "boundary"]
    BY <1>5 DEF Refused
  <2>2. Refused \in BotRecs
    BY <2>1, BotRecords DEF Pcs
  <2> QED
    BY <1>1, <1>2, <2>1, <2>2 DEF Going, BotRecs
<1> QED
  BY <1>3, <1>4, <1>5 DEF BotRecs

BotMoves == \/ Begin \/ Launched \/ LaunchFails \/ AuthRequired \/ Refreshed \/ AuthEnds
            \/ Activate \/ ActivateCharged \/ Boundary \/ Wake \/ Check \/ Job
            \/ Closing \/ Finish

Kept(b) == Going(b) /\ b.cancelled = bot.cancelled /\ b.asked = bot.asked

LEMMA BotGoes ==
    ASSUME bot \in BotRecs, BotMoves
    PROVE  Kept(bot') /\ bot.pc # "gone" /\ bot'.pc # "gone"
<1>1. /\ Kept(GiveUp) /\ GiveUp.pc # "gone"
      /\ Kept(Refused) /\ Refused.pc # "gone"
  BY GoingFacts DEF Kept
<1> USE DEF Kept, Going, Pcs, States
<1> HIDE DEF GiveUp, Refused
<1>2. ASSUME NEW at \in Pcs, at # "gone", Go(at) PROVE Kept(bot') /\ bot'.pc # "gone"
  <2>1. bot' \in BotRecs
    BY <1>2, BotRecords DEF Go
  <2> QED
    BY <1>2, <2>1 DEF Go, BotRecs
<1>3. CASE Begin
  <2>1. bot' \in BotRecs
    BY <1>3, BotRecords DEF Begin
  <2> QED
    BY <1>3, <2>1 DEF Begin, BotRecs
<1>4. CASE Launched
  <2>1. bot' \in BotRecs
    BY <1>4, BotRecords DEF Launched
  <2> QED
    BY <1>4, <2>1 DEF Launched, BotRecs
<1>5. CASE LaunchFails
  <2>1. CASE bot' = GiveUp
    BY <1>1, <1>5, <2>1 DEF LaunchFails
  <2>2. CASE bot' = [bot EXCEPT !.pc = "closing", !.state = "error"]
    <3>1. bot' \in BotRecs
      BY <2>2, BotRecords
    <3> QED
      BY <1>5, <2>2, <3>1 DEF LaunchFails, BotRecs
  <2> QED
    BY <1>5, <2>1, <2>2 DEF LaunchFails
<1>6. CASE AuthRequired
  <2>1. bot' \in BotRecs
    BY <1>6, BotRecords DEF AuthRequired
  <2> QED
    BY <1>6, <2>1 DEF AuthRequired, BotRecs
<1>7. CASE Refreshed
  <2>1. bot' \in BotRecs
    BY <1>7, BotRecords DEF Refreshed, AfterAuth
  <2> QED
    BY <1>7, <2>1 DEF Refreshed, AfterAuth, BotRecs
<1>8. CASE AuthEnds
  BY <1>1, <1>8 DEF AuthEnds
<1>9. CASE Activate
  BY <1>1, <1>2, <1>9 DEF Activate
<1>10. CASE ActivateCharged
  <2>1. CASE bot' = [bot EXCEPT !.pc = bot.back, !.back = "boundary"]
    <3>1. bot' \in BotRecs
      BY <2>1, BotRecords
    <3> QED
      BY <1>10, <2>1, <3>1, BotRecords DEF ActivateCharged, BotRecs
  <2>2. CASE bot' = Refused
    BY <1>1, <1>10, <2>2 DEF ActivateCharged
  <2> QED
    BY <1>10, <2>1, <2>2 DEF ActivateCharged
<1>11. CASE Boundary
  <2>1. CASE bot' = [bot EXCEPT !.pc = "waiting"]
    BY <1>2, <1>11, <2>1 DEF Boundary, Go
  <2> QED
    BY <1>2, <1>11, <2>1 DEF Boundary
<1>12. CASE Wake
  <2>1. bot' \in BotRecs
    <3>1. CASE bot' = [bot EXCEPT !.pc = "activate", !.back = "check", !.woken = FALSE]
      BY <3>1, BotRecords
    <3>2. CASE bot' = [bot EXCEPT !.pc = "check", !.woken = FALSE]
      BY <3>2, BotRecords
    <3> QED
      BY <1>12, <3>1, <3>2 DEF Wake
  <2> QED
    BY <1>12, <2>1 DEF Wake, BotRecs
<1>13. CASE Check
  <2>1. CASE bot' = [bot EXCEPT !.pc = "closing", !.state = "error"]
    <3>1. bot' \in BotRecs
      BY <2>1, BotRecords
    <3> QED
      BY <1>13, <2>1, <3>1 DEF Check, BotRecs
  <2> QED
    BY <1>2, <1>13, <2>1 DEF Check
<1>14. CASE Job
  <2>1. CASE bot' = [bot EXCEPT !.pc = "boundary", !.stop = TRUE]
    <3>1. bot' \in BotRecs
      BY <2>1, BotRecords
    <3> QED
      BY <1>14, <2>1, <3>1 DEF Job, BotRecs
  <2> QED
    BY <1>2, <1>14, <2>1 DEF Job
<1>15. CASE Closing
  BY <1>2, <1>15 DEF Closing
<1>16. CASE Finish
  <2>1. bot' \in BotRecs
    BY <1>16, BotRecords DEF Finish
  <2> QED
    BY <1>16, <2>1 DEF Finish, BotRecs
<1> QED
  BY <1>3, <1>4, <1>5, <1>6, <1>7, <1>8, <1>9, <1>10, <1>11, <1>12, <1>13, <1>14, <1>15,
     <1>16 DEF BotMoves

LEMMA RequestGoes ==
    ASSUME bot \in BotRecs, PauseBot \/ ResumeBot \/ StopBot
    PROVE  /\ Going(bot') /\ bot'.pc = bot.pc
           /\ bot.cancelled => bot'.cancelled
           /\ (bot.asked => bot.cancelled) => (bot'.asked => bot'.cancelled)
           /\ bot.stop => bot'.stop
<1>1. bot' \in BotRecs
  <2>1. CASE PauseBot
    BY <2>1, BotRecords DEF PauseBot
  <2>2. CASE ResumeBot
    <3>1. PICK v \in BOOLEAN : bot' = [bot EXCEPT !.pause = FALSE, !.woken = v]
      BY <2>2, BotRecords DEF ResumeBot
    <3>2. [bot EXCEPT !.pause = FALSE] \in BotRecs
      BY BotRecords
    <3> QED
      BY <3>1, <3>2, BotRecords
  <2>3. CASE StopBot
    BY <2>3, BotRecords DEF StopBot
  <2> QED
    BY <2>1, <2>2, <2>3
<1>2. CASE PauseBot
  BY <1>1, <1>2 DEF PauseBot, BotRecs, Going
<1>3. CASE ResumeBot
  BY <1>1, <1>3 DEF ResumeBot, BotRecs, Going
<1>4. CASE StopBot
  BY <1>1, <1>4 DEF StopBot, BotRecs, Going
<1> QED
  BY <1>2, <1>3, <1>4

-----------------------------------------------------------------------------
(* Who holds the run id: the steps. *)

Held == Types /\ Registry
RunTypes == /\ entry \in EntryRecs /\ bot \in BotRecs /\ tail \in [Runs -> {"none", "unregister"}]
            /\ sub \in [Subs -> SubRecs] /\ started \in 0..MaxRuns
            /\ bot.pc # "gone" => bot.run \in 1..started

LEMMA HoldingFacts ==
    ASSUME Held
    PROVE  /\ IsFiniteSet(Holding) /\ Cardinality(Holding) \in Nat
           /\ Cardinality(Holding) = 0 <=> Holding = {}
<1>1. Holding \subseteq Subs /\ IsFiniteSet(Subs)
  BY Constants DEF Holding
<1>2. IsFiniteSet(Holding)
  BY <1>1, FS_Subset
<1> QED
  BY <1>2, FS_CardinalityType, FS_EmptySet

\* Of a step that leaves the run and its holders alone.
LEMMA RunRests ==
    ASSUME Held, bot' \in BotRecs, entry' \in EntryRecs,
           entry'.run = entry.run, entry'.refs = entry.refs, bot'.run = bot.run,
           bot'.pc = "gone" <=> bot.pc = "gone", UNCHANGED <<tail, sub, sinkVars, started>>
    PROVE  RunTypes' /\ Registry'
<1>1. RunTypes'
  BY DEF Held, Types, RunTypes
<1>2. Holding' = Holding
  BY DEF Holding
<1>3. RunHeld'
  BY <1>2 DEF Held, Registry, RunHeld, sinkVars
<1> QED
  BY <1>1, <1>3 DEF Held, Registry, Given, sinkVars

LEMMA StartHolds == ASSUME Held, Start PROVE RunTypes' /\ Registry'
<1> DEFINE r == started + 1
<1>1. /\ entry.run = NoRun /\ started < MaxRuns /\ started' = r /\ bot' = NewBot(r)
      /\ entry' = [status |-> "running", statusRun |-> r, run |-> r, refs |-> 1]
      /\ sink' = r /\ logs' = [run |-> r, of |-> {}] /\ UNCHANGED <<tail, sub>>
  BY DEF Start, MayStart, Register
<1>2. started \in 0..MaxRuns /\ r \in Runs /\ r \in 0..MaxRuns /\ r \in Ids /\ r # NoRun /\ r \notin Subs
  BY <1>1, Constants DEF Held, Types, Runs, Ids
<1>3. bot' \in BotRecs /\ bot'.run = r /\ bot'.pc = "queued"
  BY <1>1, <1>2, NewBots DEF NewBot
<1>4. RunTypes'
  BY <1>1, <1>2, <1>3 DEF RunTypes, Held, Types, EntryRecs, Runs
<1>5. entry.refs = 0 /\ Cardinality(Holding) = 0 /\ Holding = {}
  BY <1>1, HoldingFacts DEF Held, Registry, RunHeld
<1>6. Holding' = Holding
  BY <1>1 DEF Holding
<1>7. RunHeld'
  BY <1>1, <1>2, <1>3, <1>5, <1>6 DEF RunHeld
<1>8. Given \subseteq Given' /\ r \in Given' /\ r \notin Given
  BY <1>1, <1>2 DEF Given
<1> QED
  BY <1>1, <1>2, <1>4, <1>7, <1>8 DEF Held, Registry, Given

LEMMA LineHolds == ASSUME Held, NEW id \in Ids, Line(id) PROVE RunTypes' /\ Registry'
<1>1. /\ sink = id /\ logs' = [logs EXCEPT !.of = @ \cup {id}]
      /\ UNCHANGED <<entry, bot, tail, sub, sink, started>>
  BY DEF Line, StillCurrent, bounds
<1>2. id # NoRun
  BY Constants DEF Ids
<1>3. Holding' = Holding
  BY <1>1 DEF Holding
<1>4. RunTypes'
  BY <1>1 DEF RunTypes, Held, Types
<1> QED
  BY <1>1, <1>2, <1>3, <1>4 DEF Held, Registry, RunHeld, Given

LEMMA TailHolds == ASSUME Held, NEW r \in Runs, Tail(r) PROVE RunTypes' /\ Registry'
<1>1. /\ tail[r] = "unregister" /\ tail' = [tail EXCEPT ![r] = "none"]
      /\ sink' = (IF sink = r THEN NoRun ELSE sink) /\ UNCHANGED <<logs, entry, bot, sub, started>>
  BY DEF Tail, Unregister, bounds
<1>2. r # entry.run /\ r # NoRun
  BY <1>1, Constants DEF Held, Registry
<1>3. Holding' = Holding
  BY <1>1 DEF Holding
<1>4. RunTypes'
  BY <1>1 DEF RunTypes, Held, Types
<1>5. RunHeld'
  BY <1>1, <1>2, <1>3 DEF Held, Registry, RunHeld
<1> QED
  BY <1>1, <1>4, <1>5 DEF Held, Registry, Given, Types

LEMMA SubUnregisterHolds ==
    ASSUME Held, NEW s \in Subs, SubUnregister(s) PROVE RunTypes' /\ Registry'
<1>1. /\ sub[s].pc = "unregister" /\ sub' = [sub EXCEPT ![s] = [pc |-> "done", run |-> NoRun]]
      /\ sink' = (IF sink = sub[s].run THEN NoRun ELSE sink)
      /\ UNCHANGED <<logs, entry, bot, tail, started>>
  BY DEF SubUnregister, Unregister, bounds
<1>2. sub[s].run # entry.run
  BY <1>1 DEF Held, Registry
<1>3. RunTypes'
  BY <1>1 DEF RunTypes, Held, Types, SubRecs
<1>4. Holding' = Holding
  BY <1>1 DEF Holding, Held, Types
<1>5. RunHeld'
  <2>1. \A t \in Holding : sub'[t] = sub[t]
    BY <1>1 DEF Holding, Held, Types
  <2> QED
    BY <1>1, <1>2, <1>4, <2>1 DEF Held, Registry, RunHeld
<1>6. Given \subseteq Given'
  BY <1>1 DEF Given, Held, Types
<1> QED
  BY <1>1, <1>3, <1>5, <1>6 DEF Held, Registry, Types, Given

LEMMA SubAcquireHolds ==
    ASSUME Held, NEW s \in Subs, SubAcquire(s) PROVE RunTypes' /\ Registry'
<1>1. /\ sub[s].pc = "idle" /\ sub' = [sub EXCEPT ![s] = [pc |-> "held", run |-> Joined(s)]]
      /\ UNCHANGED <<bot, tail, started>>
  BY DEF SubAcquire, bounds
<1>2. s \in Ids /\ s # NoRun /\ Joined(s) \in Ids
  BY Constants DEF Held, Types, EntryRecs, Joined, Ids
<1>3. Holding' = Holding \cup {s} /\ s \notin Holding
  BY <1>1 DEF Holding, Held, Types
<1>4. Cardinality(Holding') = Cardinality(Holding) + 1
  BY <1>3, HoldingFacts, FS_AddElement
<1>5. \A t \in Subs \ {s} : sub'[t] = sub[t]
  BY <1>1 DEF Held, Types
<1>6. sub'[s] = [pc |-> "held", run |-> Joined(s)] /\ sub' \in [Subs -> SubRecs]
  BY <1>1, <1>2 DEF Held, Types, SubRecs
<1>7. Given \subseteq Given'
  BY <1>1, <1>5, <1>6 DEF Given
<1>8. s \in Given' /\ s \notin Given
  <2>1. s \notin 1..started
    BY Constants DEF Held, Types, Runs
  <2> QED
    BY <1>1, <1>6, <2>1 DEF Given
<1>9. CASE entry.run # NoRun
  <2>1. entry' = [entry EXCEPT !.refs = @ + 1] /\ UNCHANGED sinkVars /\ Joined(s) = entry.run
    BY <1>9 DEF SubAcquire, Acquire, Joined
  <2>2. /\ entry' \in EntryRecs /\ entry'.run = entry.run /\ entry'.refs = entry.refs + 1
        /\ entry.refs \in Nat
    BY <2>1 DEF Held, Types, EntryRecs
  <2>3. RunTypes'
    BY <1>1, <1>6, <2>2 DEF RunTypes, Held, Types
  <2>4. RunHeld'
    <3>1. entry'.refs = Cardinality(Holding') + (IF bot'.pc = "gone" THEN 0 ELSE 1)
      BY <1>1, <1>4, <2>2, HoldingFacts DEF Held, Registry, RunHeld
    <3>2. \A t \in Holding' : sub'[t].run = entry'.run
      BY <1>3, <1>5, <1>6, <2>1, <2>2 DEF Held, Registry, RunHeld, Holding
    <3> QED
      BY <1>1, <2>1, <2>2, <3>1, <3>2 DEF Held, Registry, RunHeld, sinkVars
  <2>5. Registry'
    <3>1. \A t \in Subs : sub'[t].pc \in {"held", "unregister"} => sub'[t].run \in Given'
      BY <1>5, <1>6, <1>7, <1>9, <2>1 DEF Held, Registry
    <3>2. \A t \in Subs : sub'[t].pc = "unregister" => sub'[t].run # entry'.run
      BY <1>5, <1>6, <2>2 DEF Held, Registry
    <3>3. entry'.run # NoRun => entry'.run \in Given'
      BY <1>7, <2>2 DEF Held, Registry
    <3>4. \A r \in Runs : tail'[r] = "unregister" => r \in 1..started' /\ r # entry'.run
      BY <1>1, <2>2 DEF Held, Registry
    <3> QED
      BY <1>9, <2>1, <2>2, <2>4, <3>1, <3>2, <3>3, <3>4 DEF Held, Registry, sinkVars
  <2> QED
    BY <2>3, <2>5
<1>10. CASE entry.run = NoRun
  <2>1. /\ entry' = [entry EXCEPT !.run = s, !.refs = 1, !.statusRun = s]
        /\ sink' = s /\ logs' = [run |-> s, of |-> {}] /\ Joined(s) = s
    BY <1>10 DEF SubAcquire, Acquire, Joined, Register
  <2>2. entry' \in EntryRecs /\ entry'.run = s /\ entry'.refs = 1
    BY <1>2, <2>1 DEF Held, Types, EntryRecs
  <2>3. RunTypes'
    BY <1>1, <1>6, <2>2 DEF RunTypes, Held, Types
  <2>4. Cardinality(Holding) = 0 /\ bot.pc = "gone" /\ Holding = {}
    BY <1>10, HoldingFacts DEF Held, Registry, RunHeld
  <2>5. RunHeld'
    <3>1. entry'.refs = Cardinality(Holding') + (IF bot'.pc = "gone" THEN 0 ELSE 1)
      BY <1>1, <1>4, <2>2, <2>4
    <3>2. \A t \in Holding' : sub'[t].run = entry'.run
      BY <1>3, <1>6, <2>1, <2>2, <2>4
    <3> QED
      BY <1>1, <2>1, <2>2, <2>4, <3>1, <3>2 DEF RunHeld
  <2>6. Registry'
    <3>1. \A t \in Subs : sub'[t].pc \in {"held", "unregister"} => sub'[t].run \in Given'
      BY <1>5, <1>6, <1>7, <1>8, <2>1 DEF Held, Registry
    <3>2. \A t \in Subs : sub'[t].pc = "unregister" => sub'[t].run # entry'.run
      BY <1>5, <1>6, <1>8, <2>2 DEF Held, Registry
    <3>3. \A r \in Runs : tail'[r] = "unregister" => r \in 1..started' /\ r # entry'.run
      BY <1>1, <2>2, Constants DEF Held, Registry
    <3> QED
      BY <1>2, <1>8, <2>1, <2>2, <2>5, <3>1, <3>2, <3>3 DEF Registry
  <2> QED
    BY <2>3, <2>6
<1> QED
  BY <1>9, <1>10

\* The last of those who hold a run lets go of it, or another one does.
LEMMA ReleaseFacts ==
    ASSUME Held, Release(entry.run), entry.run # NoRun, entry.refs # 0
    PROVE  /\ entry' \in EntryRecs /\ entry'.refs = entry.refs - 1
           /\ entry'.run = IF entry.refs = 1 THEN NoRun ELSE entry.run
           /\ Unregisters(entry.run) <=> entry.refs = 1
<1>1. entry \in EntryRecs /\ entry.refs \in Nat /\ entry.refs - 1 \in Nat
  BY DEF Held, Types, EntryRecs
<1>2. CASE entry.refs = 1
  <2>1. entry' = [entry EXCEPT !.run = NoRun, !.refs = 0,
                               !.statusRun = IF @ = entry.run THEN NoRun ELSE @]
    BY <1>2 DEF Release, LastRef
  <2>2. [entry EXCEPT !.run = NoRun, !.refs = 0] \in EntryRecs
    BY <1>1 DEF EntryRecs
  <2>3. \E r \in Ids \cup {NoRun} :
          entry' = [[entry EXCEPT !.run = NoRun, !.refs = 0] EXCEPT !.statusRun = r]
    BY <1>1, <2>1 DEF EntryRecs
  <2>4. entry' \in EntryRecs /\ entry'.refs = 0 /\ entry'.run = NoRun
    BY <2>2, <2>3 DEF EntryRecs
  <2> QED
    BY <1>2, <2>4 DEF Unregisters, LastRef
<1>3. CASE entry.refs # 1
  <2>1. entry' = [entry EXCEPT !.refs = @ - 1]
    BY <1>3 DEF Release, LastRef
  <2> QED
    BY <1>1, <1>3, <2>1 DEF EntryRecs, Unregisters, LastRef
<1> QED
  BY <1>2, <1>3

LEMMA SubEndsHolds ==
    ASSUME Held, NEW s \in Subs, SubEnds(s) PROVE RunTypes' /\ Registry'
<1>1. /\ sub[s].pc = "held" /\ Release(sub[s].run)
      /\ sub' = [sub EXCEPT ![s] = IF Unregisters(sub[s].run) THEN [@ EXCEPT !.pc = "unregister"]
                                    ELSE [pc |-> "done", run |-> NoRun]]
      /\ UNCHANGED <<bot, tail, sinkVars, started>>
  BY DEF SubEnds, bounds
<1>2. s \in Holding /\ sub[s].run = entry.run /\ entry.run \in Given /\ sub[s] \in SubRecs
  BY <1>1 DEF Held, Registry, RunHeld, Holding, Types
<1>3. entry.run # NoRun
  BY <1>2, Constants DEF Given, NoRun, Held, Types
<1>4. /\ Cardinality(Holding \ {s}) = Cardinality(Holding) - 1
      /\ Cardinality(Holding) \in Nat /\ Cardinality(Holding) # 0
      /\ IsFiniteSet(Holding \ {s})
  BY <1>2, HoldingFacts, FS_RemoveElement
<1>5. entry.refs = Cardinality(Holding) + (IF bot.pc = "gone" THEN 0 ELSE 1) /\ entry.refs # 0
  BY <1>4 DEF Held, Registry, RunHeld
<1>6. /\ entry' \in EntryRecs /\ entry'.refs = entry.refs - 1
      /\ entry'.run = IF entry.refs = 1 THEN NoRun ELSE entry.run
      /\ Unregisters(sub[s].run) <=> entry.refs = 1
  BY <1>1, <1>2, <1>3, <1>5, ReleaseFacts
<1>7. /\ \A t \in Subs \ {s} : sub'[t] = sub[t]
      /\ sub'[s].pc \in {"unregister", "done"}
      /\ sub'[s].pc = "unregister" => sub'[s].run = entry.run /\ entry.refs = 1
      /\ sub' \in [Subs -> SubRecs]
  <2>1. CASE entry.refs = 1
    BY <1>1, <1>2, <1>6, <2>1 DEF Held, Types, SubRecs
  <2>2. CASE entry.refs # 1
    BY <1>1, <1>2, <1>6, <2>2 DEF Held, Types, SubRecs
  <2> QED
    BY <2>1, <2>2
<1>8. Holding' = Holding \ {s}
  BY <1>7 DEF Holding
<1>9. RunTypes'
  BY <1>1, <1>6, <1>7 DEF RunTypes, Held, Types
<1>10. entry.refs = 1 => Holding' = {} /\ bot.pc = "gone"
  <2>1. entry.refs = 1 => Cardinality(Holding \ {s}) = 0 /\ bot.pc = "gone"
    BY <1>4, <1>5
  <2> QED
    BY <1>4, <1>8, <2>1, FS_EmptySet
<1>11. RunHeld'
  <2>1. entry'.refs = Cardinality(Holding') + (IF bot'.pc = "gone" THEN 0 ELSE 1)
    BY <1>1, <1>4, <1>5, <1>6, <1>8
  <2>2. \A t \in Holding' : sub'[t].run = entry'.run
    BY <1>6, <1>7, <1>8, <1>10 DEF Held, Registry, RunHeld, Holding
  <2>3. bot'.pc # "gone" => bot'.run = entry'.run
    BY <1>1, <1>6, <1>10 DEF Held, Registry, RunHeld
  <2> QED
    BY <1>1, <1>6, <2>1, <2>2, <2>3 DEF Held, Registry, RunHeld, sinkVars
<1>12. Given \subseteq Given'
  BY <1>1, <1>7 DEF Given
<1>13. Registry'
  <2>1. \A t \in Subs : sub'[t].pc \in {"held", "unregister"} => sub'[t].run \in Given'
    BY <1>2, <1>7, <1>12 DEF Held, Registry
  <2>2. \A t \in Subs : sub'[t].pc = "unregister" => sub'[t].run # entry'.run
    <3>1. \A t \in Subs : sub[t].pc = "unregister" => sub[t].run # NoRun
      BY Constants DEF Held, Registry, Given, NoRun, Types
    <3> QED
      BY <1>3, <1>6, <1>7, <3>1 DEF Held, Registry
  <2>3. entry'.run # NoRun => entry'.run \in Given'
    BY <1>6, <1>12 DEF Held, Registry
  <2>4. \A r \in Runs : tail'[r] = "unregister" => r \in 1..started' /\ r # entry'.run
    BY <1>1, <1>6, Constants DEF Held, Registry
  <2>5. entry'.run = NoRun => entry'.refs = 0
    BY <1>3, <1>6
  <2> QED
    BY <1>1, <1>11, <2>1, <2>2, <2>3, <2>4, <2>5 DEF Held, Registry, sinkVars
<1> QED
  BY <1>9, <1>13

LEMMA ReleaseBotHolds == ASSUME Held, ReleaseBot PROVE RunTypes' /\ Registry'
<1>1. /\ bot.pc = "release" /\ Release(bot.run)
      /\ bot' = [NewBot(bot.run) EXCEPT !.pc = "gone", !.pause = bot.pause]
      /\ tail' = [tail EXCEPT ![bot.run] = IF Unregisters(bot.run) THEN "unregister" ELSE "none"]
      /\ UNCHANGED <<sub, sinkVars, started>>
  BY DEF ReleaseBot, bounds
<1>2. bot.run = entry.run /\ bot.run \in 1..started /\ bot.run \in Runs /\ entry.run # NoRun
  <2>1. bot.run \in 1..started /\ started \in 0..MaxRuns
    BY <1>1 DEF Held, Types
  <2>2. bot.run \in Runs
    BY <2>1, Constants DEF Runs
  <2>3. bot.run = entry.run
    BY <1>1 DEF Held, Registry, RunHeld
  <2> QED
    BY <2>1, <2>2, <2>3, Constants
<1>3. entry.refs = Cardinality(Holding) + 1 /\ Cardinality(Holding) \in Nat
  BY <1>1, HoldingFacts DEF Held, Registry, RunHeld
<1>4. entry.refs # 0
  BY <1>3
<1>5. /\ entry' \in EntryRecs /\ entry'.refs = entry.refs - 1
      /\ entry'.run = IF entry.refs = 1 THEN NoRun ELSE entry.run
      /\ Unregisters(bot.run) <=> entry.refs = 1
  BY <1>1, <1>2, <1>4, ReleaseFacts
<1>6. bot' \in BotRecs /\ bot'.pc = "gone"
  <2>1. bot.pause \in BOOLEAN /\ bot.run \in 0..MaxRuns
    BY BotRecords DEF Held, Types, BotRecs
  <2>2. [NewBot(bot.run) EXCEPT !.pc = "gone"] \in BotRecs
    BY <2>1, NewBots, BotRecords DEF Pcs
  <2>3. [[NewBot(bot.run) EXCEPT !.pc = "gone"] EXCEPT !.pause = bot.pause] \in BotRecs
    BY <2>1, <2>2, BotRecords
  <2> QED
    BY <1>1, <2>3 DEF NewBot
<1>7. Holding' = Holding
  BY <1>1 DEF Holding
<1>8. RunTypes'
  BY <1>1, <1>5, <1>6 DEF RunTypes, Held, Types
<1>9. entry.refs = 1 => Holding = {}
  BY <1>3, HoldingFacts
<1>10. RunHeld'
  <2>1. entry'.refs = Cardinality(Holding') + (IF bot'.pc = "gone" THEN 0 ELSE 1)
    BY <1>3, <1>5, <1>6, <1>7
  <2>2. \A t \in Holding' : sub'[t].run = entry'.run
    BY <1>1, <1>5, <1>7, <1>9 DEF Held, Registry, RunHeld
  <2> QED
    BY <1>1, <1>5, <1>6, <2>1, <2>2 DEF Held, Registry, RunHeld, sinkVars
<1>11. Given \subseteq Given'
  BY <1>1 DEF Given
<1>12. Registry'
  <2>1. \A t \in Subs : sub'[t].pc \in {"held", "unregister"} => sub'[t].run \in Given'
    BY <1>1, <1>11 DEF Held, Registry
  <2>2. \A t \in Subs : sub'[t].pc = "unregister" => sub'[t].run # entry'.run
    <3>1. \A t \in Subs : sub[t].pc = "unregister" => sub[t].run # NoRun
      BY Constants DEF Held, Registry, Given, NoRun, Types
    <3> QED
      BY <1>1, <1>5, <3>1 DEF Held, Registry
  <2>3. entry'.run # NoRun => entry'.run \in Given'
    BY <1>5, <1>11 DEF Held, Registry
  <2>4. \A r \in Runs : tail'[r] = "unregister" => r \in 1..started' /\ r # entry'.run
    BY <1>1, <1>2, <1>5, Constants DEF Held, Registry, Types
  <2>5. entry'.run = NoRun => entry'.refs = 0
    BY <1>2, <1>5
  <2> QED
    BY <1>1, <1>10, <2>1, <2>2, <2>3, <2>4, <2>5 DEF Held, Registry, sinkVars
<1> QED
  BY <1>8, <1>12

LEMMA HeldKept == ASSUME Held, [Next]_vars PROVE RunTypes' /\ Registry'
<1>1. bot \in BotRecs /\ entry \in EntryRecs
  BY DEF Held, Types
<1>2. CASE BotMoves
  <2>1. /\ bot' \in BotRecs /\ bot'.run = bot.run /\ bot.pc # "gone" /\ bot'.pc # "gone"
    BY <1>1, <1>2, BotGoes DEF Kept, Going
  <2>2. CASE Finish
    <3>1. UNCHANGED <<tail, sub, sinkVars, started>>
      BY <2>2 DEF Finish, bounds
    <3>2. entry' = entry \/ \E last \in {"error", "stopped"} : entry' = [entry EXCEPT !.status = last]
      BY <2>2 DEF Finish
    <3>3. entry' \in EntryRecs /\ entry'.run = entry.run /\ entry'.refs = entry.refs
      BY <1>1, <3>2 DEF EntryRecs
    <3> QED
      BY <2>1, <3>1, <3>3, RunRests
  <2>3. CASE UNCHANGED others
    BY <1>1, <2>1, <2>3, RunRests DEF others, bounds
  <2> QED
    BY <1>2, <2>2, <2>3 DEF BotMoves, Begin, Launched, LaunchFails, AuthRequired, Refreshed,
         AuthEnds, Activate, ActivateCharged, Boundary, Wake, Check, Job, Closing
<1>3. CASE PauseBot \/ ResumeBot \/ StopBot
  <2>1. bot' \in BotRecs /\ bot'.run = bot.run /\ bot'.pc = bot.pc
    BY <1>1, <1>3, RequestGoes DEF Going
  <2>2. \E st \in {"paused", "running", "stopped"} : entry' = [entry EXCEPT !.status = st]
    BY <1>3 DEF PauseBot, ResumeBot, StopBot
  <2>3. entry' \in EntryRecs /\ entry'.run = entry.run /\ entry'.refs = entry.refs
    BY <1>1, <2>2 DEF EntryRecs
  <2>4. UNCHANGED <<tail, sub, sinkVars, started>>
    BY <1>3 DEF PauseBot, ResumeBot, StopBot, bounds
  <2> QED
    BY <2>1, <2>3, <2>4, RunRests
<1>4. CASE MeterStep \/ UNCHANGED vars \/ (\E k \in {"pause", "resume", "stop"} : Ask(k))
           \/ (\E s \in Subs : SubActivate(s))
  <2>1. UNCHANGED <<entry, bot, tail, sub, sinkVars, started>>
    BY <1>4 DEF MeterStep, vars, Ask, SubActivate, bounds
  <2> QED
    BY <1>1, <2>1, RunRests
<1>5. CASE Start \/ ReleaseBot \/ (\E r \in Runs : Tail(r)) \/ (\E id \in Ids : Line(id))
  BY <1>5, StartHolds, ReleaseBotHolds, TailHolds, LineHolds
<1>6. CASE \E s \in Subs : SubAcquire(s) \/ SubEnds(s) \/ SubUnregister(s)
  BY <1>6, SubAcquireHolds, SubEndsHolds, SubUnregisterHolds
<1> QED
  BY <1>2, <1>3, <1>4, <1>5, <1>6 DEF Next, BotStep, BotMoves, SubStep

-----------------------------------------------------------------------------
(* What an operation does to its meter. *)

\* The fields that are not named stay.
Same(m, fields) ==
    /\ "err" \in fields => meter'[m].err = meter[m].err
    /\ "stopped" \in fields => meter'[m].stopped = meter[m].stopped
    /\ "ever" \in fields => meter'[m].ever = meter[m].ever
    /\ "idx" \in fields => meter'[m].idx = meter[m].idx
    /\ "tick" \in fields => meter'[m].tick = meter[m].tick

LEMMA Operations ==
    ASSUME Types, NEW m \in Meters
    PROVE  /\ CallActivate(m) => /\ ~meter[m].stopped /\ Allowed(m)
                                 /\ Same(m, {"err", "stopped", "ever"})
                                 /\ meter'[m].idx = meter[m].idx + 1 /\ meter'[m].tick = "off"
           /\ Activated(m) => /\ Same(m, {"err", "stopped", "idx"})
                              /\ meter'[m].ever /\ meter'[m].tick = "on"
           /\ \A live \in BOOLEAN :
                /\ ActivateFails(m, live) => /\ Same(m, {"stopped", "ever", "idx", "tick"})
                                             /\ meter'[m].err # "none"
                /\ Tick(m, live) => /\ meter[m].tick = "on"
                                    /\ Same(m, {"err", "stopped", "ever"})
                                    /\ meter'[m].idx = meter[m].idx + 1 /\ meter'[m].tick = "charge"
                /\ TickFails(m, live) => /\ meter[m].tick = "charge"
                                         /\ Same(m, {"stopped", "ever", "idx"})
                                         /\ meter'[m].err # "none" /\ meter'[m].tick = "off"
                /\ TickEnds(m, live) => /\ meter[m].tick = "on" /\ (~live \/ ~Allowed(m))
                                        /\ Same(m, {"err", "stopped", "ever", "idx"})
                                        /\ meter'[m].tick = "off"
           /\ TickCharged(m) => /\ meter[m].tick = "charge"
                                /\ Same(m, {"err", "stopped", "ever", "idx"})
                                /\ meter'[m].tick = "on"
           /\ Deactivate(m) => /\ Same(m, {"err", "stopped", "ever", "idx"})
                               /\ meter'[m].tick = "off"
           /\ StopMeter(m) => /\ meter'[m].stopped /\ ~meter'[m].ever
                              /\ meter'[m].idx = 0 /\ meter'[m].tick = "off"
<1>1. meter \in [Meters -> MeterRecs] /\ meter[m] \in MeterRecs
  BY DEF Types
<1>2. ASSUME NEW r, SetMeter(m, r) PROVE meter'[m] = r
  BY <1>1, <1>2 DEF SetMeter
<1>3. CallActivate(m) => /\ ~meter[m].stopped /\ Allowed(m)
                         /\ Same(m, {"err", "stopped", "ever"})
                         /\ meter'[m].idx = meter[m].idx + 1 /\ meter'[m].tick = "off"
  BY <1>1, <1>2 DEF CallActivate, TakeBucket, Same, MeterRecs
<1>4. Activated(m) => /\ Same(m, {"err", "stopped", "idx"})
                      /\ meter'[m].ever /\ meter'[m].tick = "on"
  BY <1>1, <1>2 DEF Activated, Same, MeterRecs
<1>5. ASSUME NEW live \in BOOLEAN, ActivateFails(m, live)
      PROVE  Same(m, {"stopped", "ever", "idx", "tick"}) /\ meter'[m].err # "none"
  BY <1>1, <1>2, <1>5 DEF ActivateFails, Unpaid, Same, MeterRecs
<1>6. ASSUME NEW live \in BOOLEAN, Tick(m, live)
      PROVE  /\ meter[m].tick = "on" /\ Same(m, {"err", "stopped", "ever"})
             /\ meter'[m].idx = meter[m].idx + 1 /\ meter'[m].tick = "charge"
  BY <1>1, <1>2, <1>6 DEF Tick, TakeBucket, Same, MeterRecs
<1>7. ASSUME NEW live \in BOOLEAN, TickFails(m, live)
      PROVE  /\ meter[m].tick = "charge" /\ Same(m, {"stopped", "ever", "idx"})
             /\ meter'[m].err # "none" /\ meter'[m].tick = "off"
  BY <1>1, <1>2, <1>7 DEF TickFails, Unpaid, Same, MeterRecs
<1>8. ASSUME NEW live \in BOOLEAN, TickEnds(m, live)
      PROVE  /\ meter[m].tick = "on" /\ (~live \/ ~Allowed(m))
             /\ Same(m, {"err", "stopped", "ever", "idx"}) /\ meter'[m].tick = "off"
  BY <1>1, <1>2, <1>8 DEF TickEnds, Same, MeterRecs
<1>9. TickCharged(m) => /\ meter[m].tick = "charge"
                        /\ Same(m, {"err", "stopped", "ever", "idx"}) /\ meter'[m].tick = "on"
  BY <1>1, <1>2 DEF TickCharged, Same, MeterRecs
<1>10. Deactivate(m) => Same(m, {"err", "stopped", "ever", "idx"}) /\ meter'[m].tick = "off"
  BY <1>1, <1>2 DEF Deactivate, Cut, Same, MeterRecs
<1>11. StopMeter(m) => /\ meter'[m].stopped /\ ~meter'[m].ever
                       /\ meter'[m].idx = 0 /\ meter'[m].tick = "off"
  BY <1>1, <1>2 DEF StopMeter, Cut, Fresh
<1> QED
  BY <1>3, <1>4, <1>5, <1>6, <1>7, <1>8, <1>9, <1>10, <1>11

\* A submission's first charge, and an orphan's.
LEMMA SubActivated ==
    ASSUME Types, NEW s \in Subs, SubActivate(s)
    PROVE  /\ OneMeter(s) /\ Same(s, {"stopped"})
           /\ meter'[s].idx = 1
           /\ meter'[s].ever \/ meter'[s].err # "none"
           /\ meter'[s].tick = meter[s].tick \/ (meter'[s].ever /\ meter'[s].tick = "on")
<1>1. s \in Meters /\ meter \in [Meters -> MeterRecs] /\ meter[s] \in MeterRecs
  BY Constants DEF Types
<1>2. ASSUME NEW r \in MeterRecs, SetMeter(s, r) PROVE OneMeter(s) /\ meter'[s] = r
  BY <1>1, <1>2 DEF SetMeter, OneMeter
<1>3. CASE SetMeter(s, [meter[s] EXCEPT !.idx = 1, !.ever = TRUE, !.tick = "on"])
  <2>1. [meter[s] EXCEPT !.idx = 1] \in MeterRecs
    BY <1>1 DEF MeterRecs
  <2>2. [meter[s] EXCEPT !.idx = 1, !.ever = TRUE] \in MeterRecs
    BY <2>1 DEF MeterRecs
  <2>3. [meter[s] EXCEPT !.idx = 1, !.ever = TRUE, !.tick = "on"] \in MeterRecs
    BY <2>2 DEF MeterRecs
  <2>4. OneMeter(s) /\ meter'[s] = [meter[s] EXCEPT !.idx = 1, !.ever = TRUE, !.tick = "on"]
    BY <1>2, <1>3, <2>3
  <2> QED
    BY <1>1, <2>4 DEF Same, MeterRecs
<1>4. CASE SetMeter(s, [meter[s] EXCEPT !.idx = 1, !.err = "refused"])
  <2>1. [meter[s] EXCEPT !.idx = 1] \in MeterRecs
    BY <1>1 DEF MeterRecs
  <2>2. [meter[s] EXCEPT !.idx = 1, !.err = "refused"] \in MeterRecs
    BY <2>1 DEF MeterRecs
  <2>3. OneMeter(s) /\ meter'[s] = [meter[s] EXCEPT !.idx = 1, !.err = "refused"]
    BY <1>2, <1>4, <2>2
  <2> QED
    BY <1>1, <2>3 DEF Same, MeterRecs
<1> QED
  BY <1>3, <1>4 DEF SubActivate

LEMMA OrphanEnded ==
    ASSUME Types, NEW o \in orphans, o[1] \in Meters,
           \/ UNCHANGED meter
           \/ SetMeter(o[1], [meter[o[1]] EXCEPT !.err = IF meter[o[1]].stopped THEN @ ELSE "cancelled"])
    PROVE  /\ meter' \in [Meters -> MeterRecs]
           /\ \A m \in Meters : /\ Same(m, {"stopped", "ever", "idx", "tick"})
                                /\ ~Allowed(m) => meter'[m].err # "none"
<1>1. meter \in [Meters -> MeterRecs] /\ \A m \in Meters : meter[m] \in MeterRecs
  BY DEF Types
<1>2. CASE UNCHANGED meter
  BY <1>1, <1>2 DEF Same, Allowed
<1>3. CASE SetMeter(o[1], [meter[o[1]] EXCEPT !.err = IF meter[o[1]].stopped THEN @ ELSE "cancelled"])
  <2>1. PICK e \in {meter[o[1]].err, "cancelled"} : meter' = [meter EXCEPT ![o[1]] = [meter[o[1]] EXCEPT !.err = e]]
    BY <1>3 DEF SetMeter
  <2>2. [meter[o[1]] EXCEPT !.err = e] \in MeterRecs
    BY <1>1 DEF MeterRecs
  <2>3. meter' \in [Meters -> MeterRecs]
    BY <1>1, <2>1, <2>2
  <2>4. \A m \in Meters : meter'[m] = IF m = o[1] THEN [meter[o[1]] EXCEPT !.err = e] ELSE meter[m]
    BY <1>1, <2>1
  <2> QED
    BY <1>1, <2>1, <2>3, <2>4 DEF Same, Allowed, MeterRecs
<1> QED
  BY <1>2, <1>3

LEMMA BotMeter ==
    ASSUME Types, BotMoves
    PROVE  /\ bot.run \in Runs /\ bot.run \in Meters /\ bot.run \in 1..started
           /\ UNCHANGED meterVars \/ OneMeter(bot.run)
<1>1. bot \in BotRecs /\ bot.pc # "gone" /\ started \in 0..MaxRuns
  BY BotGoes DEF Types
<1>2. bot.run \in Runs /\ bot.run \in Meters /\ bot.run \in 1..started
  BY <1>1, Constants DEF Types, Runs
<1>3. \/ UNCHANGED meterVars \/ CallActivate(bot.run) \/ Activated(bot.run)
      \/ (\E live \in BOOLEAN : ActivateFails(bot.run, live))
      \/ Deactivate(bot.run) \/ StopMeter(bot.run)
  <2>1. CASE ActivateCharged
    <3>1. bot.cancelled \in BOOLEAN
      BY <1>1, BotRecords
    <3> QED
      BY <2>1, <3>1 DEF ActivateCharged, Live
  <2> QED
    BY <2>1 DEF BotMoves, Begin, Launched, LaunchFails, AuthRequired, Refreshed, AuthEnds,
         Activate, Boundary, Wake, Check, Job, Closing, Finish
<1> QED
  BY <1>2, <1>3, MeterOperations

\* Of no step but a first charge is a meter's time counted for the first time.
LEMMA Unstarted ==
    ASSUME Types, Billing, NEW m \in Meters, OneMeter(m), started' = started,
           m \in Subs \/ m \in 1..started \/ meter'[m].ever = meter[m].ever
    PROVE  \A r \in Runs : r > started' => ~meter'[r].ever
<1>1. \A r \in Runs \ {m} : meter'[r] = meter[r]
  BY Constants DEF OneMeter, Types
<1>2. started \in Nat /\ \A r \in Runs : r \in Nat /\ r \notin Subs
  BY Constants DEF Types, Runs
<1> QED
  BY <1>1, <1>2 DEF Billing

LEMMA BotBills == ASSUME Types, Billing, BotMoves PROVE Billing'
<1> DEFINE b == bot.run
<1>1. /\ b \in Runs /\ b \in Meters /\ b \in 1..started /\ bot'.run = b
      /\ bot'.cancelled = bot.cancelled /\ bot'.asked = bot.asked
      /\ started' = started /\ bot \in BotRecs /\ bot' \in BotRecs
  <2>1. started' = started
    BY DEF BotMoves, Begin, Launched, LaunchFails, AuthRequired, Refreshed, AuthEnds,
         Activate, ActivateCharged, Boundary, Wake, Check, Job, Closing, Finish, others, bounds
  <2> QED
    BY <2>1, BotMeter, BotGoes DEF Types, Kept, Going
<1>2. \A r \in Runs : r > started' => ~meter'[r].ever
  <2>1. CASE UNCHANGED meterVars
    BY <1>1, <2>1 DEF Billing, meterVars
  <2>2. CASE OneMeter(b)
    BY <1>1, <2>2, Unstarted
  <2> QED
    BY <2>1, <2>2, BotMeter
<1>3. bot'.asked => bot'.cancelled
  BY <1>1 DEF Billing
<1>4. /\ bot'.pc \in {"boundary", "job"} => Metered(b)'
      /\ bot'.pc = "check" => Metered(b)' \/ bot'.stop
      /\ bot'.pc \in {"launch", "relaunch"} => Metered(b)' \/ ~meter'[b].ever
      /\ bot'.pc # "queued"
  <2> USE DEF Metered, Allowed
  <2>1. CASE Begin
    BY <1>1, <2>1 DEF Begin, meterVars, Billing, BotRecs
  <2>2. CASE Launched
    BY <1>1, <2>2 DEF Launched, meterVars, Billing, BotRecs, Meter
  <2>3. CASE LaunchFails \/ AuthEnds
    <3>1. bot'.pc \in {"closing", "finish"}
      <4>1. GiveUp.pc \in {"closing", "finish"}
        BY <1>1, GoingFacts
      <4> HIDE DEF GiveUp
      <4> QED
        BY <1>1, <2>3, <4>1 DEF LaunchFails, AuthEnds, BotRecs
    <3> QED
      BY <3>1
  <2>4. CASE AuthRequired
    BY <1>1, <2>4 DEF AuthRequired, BotRecs
  <2>5. CASE Refreshed
    BY <1>1, <2>5 DEF Refreshed, AfterAuth, BotRecs, meterVars, Meter
  <2>6. CASE Activate
    <3>1. CASE Allowed(b)
      <4>1. bot'.pc = "charge"
        BY <1>1, <2>6, <3>1 DEF Activate, Go, BotRecs
      <4> QED
        BY <4>1
    <3>2. CASE ~Allowed(b)
      <4>1. bot' = Refused /\ meter' = meter
        BY <2>6, <3>2 DEF Activate, meterVars
      <4>2. bot'.pc \in {"closing", "finish", "check"}
        BY <1>1, <4>1, GoingFacts
      <4> QED
        BY <1>1, <3>2, <4>1, <4>2
    <3> QED
      BY <3>1, <3>2
  <2>7. CASE ActivateCharged
    <3>1. CASE Activated(b) /\ bot' = [bot EXCEPT !.pc = bot.back, !.back = "boundary"]
      <4>1. meter'[b].tick = "on"
        BY <1>1, <3>1, Operations
      <4>2. bot'.pc \in {"boundary", "check", "relaunch"}
        BY <1>1, <3>1 DEF BotRecs
      <4> QED
        BY <1>1, <4>1, <4>2
    <3>2. CASE ActivateFails(b, Live) /\ bot' = Refused
      <4>1. Live \in BOOLEAN
        BY <1>1, BotRecords DEF Live
      <4>2. meter'[b].err # "none"
        BY <1>1, <3>2, <4>1, Operations
      <4>3. bot'.pc \in {"closing", "finish", "check"}
        BY <1>1, <3>2, GoingFacts
      <4> QED
        BY <1>1, <4>2, <4>3
    <3> QED
      BY <2>7, <3>1, <3>2 DEF ActivateCharged
  <2>8. CASE Boundary
    <3>1. CASE bot.pause
      BY <1>1, <2>8, <3>1 DEF Boundary, BotRecs
    <3>2. CASE ~bot.pause
      BY <1>1, <2>8, <3>2 DEF Boundary, Go, BotRecs, meterVars, Billing
    <3> QED
      BY <3>1, <3>2
  <2>9. CASE Wake
    BY <1>1, <2>9 DEF Wake, Interrupts, BotRecs, meterVars
  <2>10. CASE Check
    BY <1>1, <2>10 DEF Check, Stopped, Go, BotRecs, meterVars, Billing
  <2>11. CASE Job
    BY <1>1, <2>11 DEF Job, Go, BotRecs, meterVars, Billing
  <2>12. CASE Closing \/ Finish
    BY <1>1, <2>12 DEF Closing, Finish, Go, BotRecs
  <2> QED
    BY <2>1, <2>2, <2>3, <2>4, <2>5, <2>6, <2>7, <2>8, <2>9, <2>10, <2>11, <2>12 DEF BotMoves
<1> QED
  BY <1>1, <1>2, <1>3, <1>4 DEF Billing

\* Of a step that leaves the bot where it is, and its meter as it was.
LEMMA MeterBills ==
    ASSUME Types, Billing, bot' = bot, started' = started,
           bot.pc # "gone" => /\ meter'[bot.run].ever = meter[bot.run].ever
                              /\ Metered(bot.run) => Metered(bot.run)',
           \A r \in Runs : r > started' => ~meter'[r].ever
    PROVE  Billing'
  BY DEF Billing, Metered, Types

LEMMA RequestBills ==
    ASSUME Types, Billing, PauseBot \/ ResumeBot \/ StopBot PROVE Billing'
<1>1. UNCHANGED <<meter, started>>
  BY DEF PauseBot, ResumeBot, StopBot, meterVars, bounds
<1>2. /\ bot'.run = bot.run /\ bot'.pc = bot.pc /\ (bot.cancelled => bot'.cancelled)
      /\ ((bot.asked => bot.cancelled) => (bot'.asked => bot'.cancelled)) /\ (bot.stop => bot'.stop)
  BY RequestGoes DEF Types, Going
<1> QED
  BY <1>1, <1>2 DEF Billing, Metered, Allowed

LEMMA StartBills == ASSUME Types, Billing, Start PROVE Billing'
<1> DEFINE r == started + 1
<1>1. /\ started < MaxRuns /\ started' = r /\ bot' = NewBot(r) /\ UNCHANGED meterVars
  BY DEF Start
<1>2. started \in 0..MaxRuns /\ r \in Runs /\ r \in Nat
  BY <1>1, Constants DEF Types, Runs
<1>3. bot'.run = r /\ bot'.pc = "queued" /\ bot'.asked = FALSE
  BY <1>1 DEF NewBot
<1>4. \A x \in Runs : x > started' => x > started
  BY <1>1, <1>2 DEF Runs
<1>5. r > started
  BY <1>2
<1> QED
  BY <1>1, <1>2, <1>3, <1>4, <1>5 DEF Billing, meterVars

\* The loops of the meters, and the submissions' use of theirs.
LEMMA LoopBills ==
    ASSUME BotInv, NEW m \in Meters,
           \/ Tick(m, LoopLive(m)) \/ TickCharged(m) \/ TickFails(m, LoopLive(m))
           \/ TickEnds(m, LoopLive(m)),
           UNCHANGED <<entry, bot, tail, sub, asks, sinkVars, bounds>>
    PROVE  Billing'
<1>1. Types /\ Billing /\ bot' = bot /\ started' = started
  BY DEF BotInv, bounds
<1>2. LoopLive(m) \in BOOLEAN
  BY DEF LoopLive
<1>3. OneMeter(m) /\ meter'[m].ever = meter[m].ever
  <2>1. OneMeter(m)
    BY <1>1, <1>2, MeterOperations
  <2>2. Same(m, {"err", "stopped", "ever"}) \/ Same(m, {"stopped", "ever", "idx"})
          \/ Same(m, {"err", "stopped", "ever", "idx"})
    BY <1>1, <1>2, Operations
  <2> QED
    BY <2>1, <2>2 DEF Same
<1>4. \A r \in Runs : r > started' => ~meter'[r].ever
  BY <1>1, <1>3, Unstarted
<1>5. ASSUME bot.pc # "gone"
      PROVE  /\ meter'[bot.run].ever = meter[bot.run].ever
             /\ Metered(bot.run) => Metered(bot.run)'
  <2>1. bot.run \in Runs /\ bot.run \in Meters /\ bot.run \notin Subs
    BY <1>1, <1>5, Constants DEF Types, Runs
  <2>2. CASE bot.run # m
    <3>1. meter'[bot.run] = meter[bot.run]
      BY <1>1, <1>3, <2>1, <2>2 DEF OneMeter, Types
    <3> QED
      BY <1>1, <3>1 DEF Metered, Allowed
  <2>3. CASE bot.run = m
    <3>1. CASE Tick(m, LoopLive(m)) \/ TickCharged(m)
      <4>1. meter'[m].tick # "off"
        BY <1>1, <1>2, <3>1, Operations
      <4> QED
        BY <1>1, <1>3, <2>3, <4>1 DEF Metered
    <3>2. CASE TickFails(m, LoopLive(m))
      <4>1. meter'[m].err # "none"
        BY <1>1, <1>2, <3>2, Operations
      <4> QED
        BY <1>1, <1>3, <2>3, <4>1 DEF Metered, Allowed
    <3>3. CASE TickEnds(m, LoopLive(m))
      <4>1. (~LoopLive(m) \/ ~Allowed(m)) /\ meter'[m].err = meter[m].err
        BY <1>1, <1>2, <3>3, Operations DEF Same
      <4>2. ~LoopLive(m) => bot.cancelled
        BY <2>1, <2>3 DEF LoopLive
      <4> QED
        BY <1>1, <1>3, <2>3, <4>1, <4>2 DEF Metered, Allowed
    <3> QED
      BY <3>1, <3>2, <3>3
  <2> QED
    BY <2>2, <2>3
<1> QED
  BY <1>1, <1>4, <1>5, MeterBills

LEMMA OrphanBills ==
    ASSUME BotInv, OrphanEnds, UNCHANGED <<entry, bot, tail, sub, asks, sinkVars, bounds>>
    PROVE  Billing' /\ meter' \in [Meters -> MeterRecs]
<1>1. Types /\ Billing /\ bot' = bot /\ started' = started /\ orphans \subseteq Meters \X Nat
  BY DEF BotInv, bounds, Buckets
<1>2. PICK o \in orphans :
        \/ UNCHANGED meter
        \/ SetMeter(o[1], [meter[o[1]] EXCEPT !.err = IF meter[o[1]].stopped THEN @ ELSE "cancelled"])
  BY DEF OrphanEnds
<1>3. o[1] \in Meters
  BY <1>1
<1>4. /\ meter' \in [Meters -> MeterRecs]
      /\ \A m \in Meters : /\ Same(m, {"stopped", "ever", "idx", "tick"})
                           /\ ~Allowed(m) => meter'[m].err # "none"
  BY <1>1, <1>2, <1>3, OrphanEnded
<1>5. \A m \in Meters : meter'[m].ever = meter[m].ever /\ meter'[m].tick = meter[m].tick
  BY <1>4 DEF Same
<1>6. \A r \in Runs : r > started' => ~meter'[r].ever
  BY <1>1, <1>5, Constants DEF Billing
<1>7. bot.pc # "gone" => bot.run \in Meters
  BY <1>1, Constants DEF Types, Runs
<1>8. bot.pc # "gone" => /\ meter'[bot.run].ever = meter[bot.run].ever
                         /\ Metered(bot.run) => Metered(bot.run)'
  BY <1>1, <1>4, <1>5, <1>7 DEF Metered, Allowed
<1> QED
  BY <1>1, <1>4, <1>6, <1>8, MeterBills

LEMMA SubBills ==
    ASSUME Types, Billing, NEW s \in Subs, SubActivate(s) \/ SubEnds(s)
    PROVE  Billing' /\ OneMeter(s)
<1>1. s \in Meters /\ bot' = bot /\ started' = started
  BY Constants DEF SubActivate, SubEnds, bounds
<1>2. OneMeter(s)
  BY <1>1, SubActivated, MeterOperations DEF SubEnds
<1>3. \A r \in Runs : r > started' => ~meter'[r].ever
  BY <1>1, <1>2, Unstarted
<1>4. bot.pc # "gone" => bot.run # s /\ bot.run \in Meters
  BY Constants DEF Types, Runs
<1>5. bot.pc # "gone" => meter'[bot.run] = meter[bot.run]
  BY <1>2, <1>4 DEF OneMeter, Types
<1> QED
  BY <1>1, <1>2, <1>3, <1>5, MeterBills DEF Metered, Allowed

LEMMA BillingKept == ASSUME BotInv, [Next]_vars PROVE Billing' /\ meter' \in [Meters -> MeterRecs]
<1>1. Types /\ Billing /\ meter \in [Meters -> MeterRecs]
  BY DEF BotInv, Types
<1>2. ASSUME NEW m \in Meters, OneMeter(m) PROVE meter' \in [Meters -> MeterRecs]
  BY <1>1, <1>2 DEF OneMeter
<1>3. CASE BotMoves
  <2>1. meter' \in [Meters -> MeterRecs]
    BY <1>1, <1>2, <1>3, BotMeter DEF meterVars
  <2> QED
    BY <1>1, <1>3, <2>1, BotBills
<1>4. CASE PauseBot \/ ResumeBot \/ StopBot
  BY <1>1, <1>4, RequestBills DEF PauseBot, ResumeBot, StopBot, meterVars
<1>5. CASE Start
  BY <1>1, <1>5, StartBills DEF Start, meterVars
<1>6. CASE ReleaseBot
  <2>1. bot'.pc = "gone" /\ ~bot'.asked /\ UNCHANGED <<meter, started>>
    BY <1>6 DEF ReleaseBot, NewBot, meterVars, bounds
  <2> QED
    BY <1>1, <2>1 DEF Billing
<1>7. CASE UNCHANGED vars \/ (\E k \in {"pause", "resume", "stop"} : Ask(k))
           \/ (\E r \in Runs : Tail(r)) \/ (\E id \in Ids : Line(id))
           \/ (\E s \in Subs : SubAcquire(s) \/ SubUnregister(s))
  <2>1. UNCHANGED <<meter, bot, started>>
    BY <1>7 DEF vars, Ask, Tail, Line, SubAcquire, SubUnregister, meterVars, bounds
  <2> QED
    BY <1>1, <2>1 DEF Billing, Metered, Allowed
<1>8. CASE \E s \in Subs : SubActivate(s) \/ SubEnds(s)
  BY <1>1, <1>2, <1>8, SubBills, Constants
<1>9. CASE MeterStep
  <2>1. CASE OrphanEnds
    BY <1>9, <2>1, OrphanBills DEF MeterStep
  <2>2. CASE \E m \in Meters : \/ Tick(m, LoopLive(m)) \/ TickCharged(m)
                             \/ TickFails(m, LoopLive(m)) \/ TickEnds(m, LoopLive(m))
    <3>1. PICK m \in Meters : \/ Tick(m, LoopLive(m)) \/ TickCharged(m)
                             \/ TickFails(m, LoopLive(m)) \/ TickEnds(m, LoopLive(m))
      BY <2>2
    <3>2. LoopLive(m) \in BOOLEAN
      BY DEF LoopLive
    <3>3. OneMeter(m)
      BY <1>1, <3>1, <3>2, MeterOperations
    <3> QED
      BY <1>2, <1>9, <3>1, <3>3, LoopBills DEF MeterStep
  <2> QED
    BY <1>9, <2>1, <2>2 DEF MeterStep
<1> QED
  BY <1>3, <1>4, <1>5, <1>6, <1>7, <1>8, <1>9 DEF Next, BotStep, BotMoves, SubStep

-----------------------------------------------------------------------------
(* How buckets are numbered: the steps. *)

Counted == /\ IsFiniteSet(billed) /\ EveryIncrementBilled
           /\ billed \subseteq Meters \X Nat /\ orphans \subseteq Meters \X Nat
           /\ billed \cap orphans = {}

\* The submissions that have not had their meter stopped.
SubBuckets ==
    \A s \in Subs : sub[s].pc \in {"idle", "held"} =>
        /\ ~meter[s].stopped
        /\ meter[s].tick = "off" \/ meter[s].ever
        /\ meter[s].ever \/ ~Allowed(s) \/ meter[s].idx = 0

LEMMA BucketsParts ==
    Buckets <=> /\ Counted /\ SubBuckets
                /\ \A m \in Meters : Numbered(m)
                /\ \A m \in Meters : meter[m].stopped => meter[m].tick = "off"
                /\ bot.pc = "charge" => meter[bot.run].tick = "off" /\ ~meter[bot.run].stopped
  BY DEF Buckets, Counted, SubBuckets

\* A bucket with a number of its own is paid for.
LEMMA PayCounts ==
    ASSUME Counted, NEW m \in Meters, NEW i \in Nat, <<m, i>> \notin billed, Pay(m, i),
           orphans' \subseteq orphans, <<m, i>> \notin orphans'
    PROVE  Counted' /\ billed' = billed \cup {<<m, i>>}
<1>1. billed' = billed \cup {<<m, i>>} /\ served' = served + 1
  BY DEF Pay, Key
<1>2. IsFiniteSet(billed') /\ Cardinality(billed') = Cardinality(billed) + 1
  BY <1>1, FS_AddElement DEF Counted
<1> QED
  BY <1>1, <1>2 DEF Counted, EveryIncrementBilled

\* The meters that a step does not touch.
LEMMA OthersNumbered ==
    ASSUME Types, Buckets, NEW m \in Meters, OneMeter(m),
           \A x \in Meters \ {m}, i \in Nat :
               <<x, i>> \in billed' \cup orphans' => <<x, i>> \in billed \cup orphans,
           bot.pc = "charge" /\ bot.run # m <=> bot'.pc = "charge" /\ bot'.run # m,
           bot.pc = "charge" => bot'.run = bot.run
    PROVE  /\ \A x \in Meters \ {m} : meter'[x] = meter[x]
           /\ \A x \in Meters \ {m} : Numbered(x)'
           /\ \A x \in Meters \ {m} : meter'[x].stopped => meter'[x].tick = "off"
<1>1. \A x \in Meters \ {m} : meter'[x] = meter[x]
  BY DEF OneMeter, Types
<1>2. ASSUME NEW x \in Meters \ {m} PROVE Numbered(x)'
  <2>1. Pending(x)' <=> Pending(x)
    BY <1>1, <1>2 DEF Pending
  <2> QED
    BY <1>1, <1>2, <2>1 DEF Buckets, Numbered
<1> QED
  BY <1>1, <1>2 DEF Buckets

\* Of a step that leaves the meters alone.
LEMMA BucketsRest ==
    ASSUME Types, Buckets, UNCHANGED meterVars,
           bot.pc = "charge" \/ bot'.pc = "charge" => bot'.pc = bot.pc /\ bot'.run = bot.run,
           \A s \in Subs : sub'[s].pc \in {"idle", "held"} => sub[s].pc \in {"idle", "held"}
    PROVE  Buckets'
<1>1. UNCHANGED <<meter, orphans, billed, served>>
  BY DEF meterVars
<1>2. Counted' /\ SubBuckets'
  BY <1>1, BucketsParts DEF Counted, SubBuckets, EveryIncrementBilled, Allowed
<1>3. ASSUME NEW m \in Meters PROVE Numbered(m)'
  <2>1. Pending(m)' <=> Pending(m)
    BY <1>1 DEF Pending
  <2> QED
    BY <1>1, <1>3, <2>1 DEF Buckets, Numbered
<1>4. bot'.pc = "charge" => meter'[bot'.run].tick = "off" /\ ~meter'[bot'.run].stopped
  BY <1>1 DEF Buckets
<1>5. \A m \in Meters : meter'[m].stopped => meter'[m].tick = "off"
  BY <1>1 DEF Buckets
<1> QED
  BY <1>2, <1>3, <1>4, <1>5 DEF Buckets, Counted, SubBuckets

LEMMA TakeNumbers == ASSUME Types, Buckets, Activate, Allowed(bot.run) PROVE Buckets'
<1> DEFINE b == bot.run
<1>1. /\ bot.pc = "activate" /\ CallActivate(b) /\ Go("charge")
      /\ UNCHANGED <<orphans, billed, served, sub>>
  BY DEF Activate, CallActivate, TakeBucket, others
<1>2. /\ bot' \in BotRecs /\ bot'.run = b /\ bot'.pc = "charge"
      /\ b \in Runs /\ b \in Meters /\ b \notin Subs
  BY <1>1, BotGoes, BotMeter, Constants DEF Types, Kept, Going, BotMoves, Go, BotRecs
<1>3. /\ OneMeter(b) /\ ~meter[b].stopped /\ ~meter'[b].stopped
      /\ meter'[b].idx = meter[b].idx + 1 /\ meter'[b].tick = "off" /\ meter[b].idx \in Nat
  BY <1>1, <1>2, MeterOperations, Operations DEF Same, Types, MeterRecs
<1>4. /\ \A x \in Meters \ {b} : meter'[x] = meter[x]
      /\ \A x \in Meters \ {b} : Numbered(x)'
      /\ \A x \in Meters \ {b} : meter'[x].stopped => meter'[x].tick = "off"
  BY <1>1, <1>2, <1>3, OthersNumbered
<1>5. Numbered(b)'
  <2>1. \A i \in Nat : <<b, i>> \in billed \cup orphans => i < meter[b].idx
    BY <1>2, <1>3 DEF Buckets, Numbered
  <2>2. Pending(b)' /\ meter'[b].idx - 1 = meter[b].idx /\ meter'[b].idx > 0
    BY <1>2, <1>3 DEF Pending
  <2> QED
    BY <1>1, <1>2, <1>3, <2>1, <2>2 DEF Numbered
<1>6. Counted' /\ SubBuckets'
  BY <1>1, <1>2, <1>4, BucketsParts, Constants
     DEF Counted, SubBuckets, EveryIncrementBilled, Allowed
<1> QED
  BY <1>2, <1>3, <1>4, <1>5, <1>6 DEF Buckets, Counted, SubBuckets

LEMMA ChargeNumbers == ASSUME Types, Buckets, ActivateCharged PROVE Buckets'
<1> DEFINE b == bot.run
<1>1. bot.pc = "charge" /\ UNCHANGED sub /\ Live \in BOOLEAN
  BY BotRecords DEF ActivateCharged, others, Live, Types
<1>2. /\ bot' \in BotRecs /\ bot'.run = b /\ bot'.pc # "charge"
      /\ b \in Runs /\ b \in Meters /\ b \notin Subs
  <2>1. bot' \in BotRecs /\ bot'.run = b /\ b \in Runs /\ b \in Meters /\ b \notin Subs
    BY BotGoes, BotMeter, Constants DEF Types, Kept, Going, BotMoves
  <2>2. CASE bot' = Refused
    <3>1. Refused.pc \in {"closing", "finish", "check"}
      BY GoingFacts DEF Types
    <3> QED
      BY <2>1, <2>2, <3>1
  <2>3. CASE bot' = [bot EXCEPT !.pc = bot.back, !.back = "boundary"]
    BY <2>1, <2>3 DEF Types, BotRecs
  <2> QED
    BY <2>1, <2>2, <2>3 DEF ActivateCharged
<1>3. /\ meter[b].tick = "off" /\ ~meter[b].stopped /\ meter[b].idx \in Nat /\ meter[b].idx > 0
      /\ \A i \in Nat : <<b, i>> \in billed \cup orphans => i < meter[b].idx - 1
  BY <1>1, <1>2 DEF Buckets, Numbered, Pending, Types, MeterRecs
<1>4. /\ OneMeter(b) /\ ~meter'[b].stopped /\ meter'[b].idx = meter[b].idx
      /\ meter'[b].tick # "charge"
  <2>1. CASE Activated(b)
    BY <1>2, <1>3, <2>1, MeterOperations, Operations DEF Same
  <2>2. CASE ActivateFails(b, Live)
    BY <1>1, <1>2, <1>3, <2>2, MeterOperations, Operations DEF Same
  <2> QED
    BY <2>1, <2>2 DEF ActivateCharged
<1>5. /\ Counted' /\ orphans' = orphans
      /\ billed' = billed \/ billed' = billed \cup {<<b, meter[b].idx - 1>>}
  <2>1. CASE Activated(b)
    <3>1. Pay(b, meter[b].idx - 1) /\ orphans' = orphans
      BY <2>1 DEF Activated
    <3>2. meter[b].idx - 1 \in Nat /\ <<b, meter[b].idx - 1>> \notin billed \cup orphans
      BY <1>3
    <3> QED
      BY <1>2, <3>1, <3>2, PayCounts, BucketsParts
  <2>2. CASE ActivateFails(b, Live)
    BY <2>2, BucketsParts DEF ActivateFails, Counted, EveryIncrementBilled
  <2> QED
    BY <2>1, <2>2 DEF ActivateCharged
<1>6. /\ \A x \in Meters \ {b} : meter'[x] = meter[x]
      /\ \A x \in Meters \ {b} : Numbered(x)'
      /\ \A x \in Meters \ {b} : meter'[x].stopped => meter'[x].tick = "off"
  BY <1>1, <1>2, <1>4, <1>5, OthersNumbered
<1>7. Numbered(b)'
  <2>1. \A i \in Nat : <<b, i>> \in billed' \cup orphans' => i < meter'[b].idx
    BY <1>3, <1>4, <1>5
  <2> QED
    BY <1>2, <1>4, <2>1 DEF Numbered, Pending
<1>8. SubBuckets'
  BY <1>1, <1>2, <1>6, BucketsParts, Constants DEF SubBuckets, Allowed
<1> QED
  BY <1>2, <1>4, <1>5, <1>6, <1>7, <1>8 DEF Buckets, Counted, SubBuckets

\* A loop's charge under way becomes an orphan.
LEMMA CutCounts ==
    ASSUME Types, Buckets, NEW m \in Meters, Deactivate(m) \/ StopMeter(m)
    PROVE  /\ Counted' /\ billed' = billed
           /\ orphans' = orphans \/ (/\ orphans' = orphans \cup {<<m, meter[m].idx - 1>>}
                                    /\ ~meter[m].stopped /\ Pending(m))
<1>1. /\ orphans' = orphans \cup (IF meter[m].tick = "charge" THEN {<<m, meter[m].idx - 1>>} ELSE {})
      /\ UNCHANGED <<billed, served>>
  BY DEF Deactivate, StopMeter, Cut
<1>2. CASE meter[m].tick # "charge"
  BY <1>1, <1>2, BucketsParts DEF Counted, EveryIncrementBilled
<1>3. CASE meter[m].tick = "charge"
  <2>1. Pending(m) /\ ~meter[m].stopped /\ meter[m].idx \in Nat
    BY <1>3 DEF Pending, Buckets, Types, MeterRecs
  <2>2. meter[m].idx - 1 \in Nat /\ <<m, meter[m].idx - 1>> \notin billed
    BY <2>1 DEF Buckets, Numbered
  <2> QED
    BY <1>1, <1>3, <2>1, <2>2, BucketsParts DEF Counted, EveryIncrementBilled
<1> QED
  BY <1>2, <1>3

LEMMA CutNumbers ==
    ASSUME Types, Buckets, NEW m \in Meters, Deactivate(m) \/ StopMeter(m),
           bot.pc # "charge" \/ bot.run # m,
           bot.pc = "charge" \/ bot'.pc = "charge" => bot'.pc = bot.pc /\ bot'.run = bot.run,
           \A s \in Subs : sub'[s].pc \in {"idle", "held"} => sub[s].pc \in {"idle", "held"},
           m \in Subs => sub'[m].pc \notin {"idle", "held"}
    PROVE  Buckets'
<1>1. /\ Counted' /\ billed' = billed
      /\ orphans' = orphans \/ (/\ orphans' = orphans \cup {<<m, meter[m].idx - 1>>}
                               /\ ~meter[m].stopped /\ Pending(m))
  BY CutCounts
<1>2. /\ OneMeter(m) /\ meter'[m].tick = "off" /\ meter[m].idx \in Nat
      /\ ~meter'[m].stopped => meter'[m].idx = meter[m].idx /\ ~meter[m].stopped
  BY MeterOperations, Operations DEF Same, Types, MeterRecs
<1>3. /\ \A x \in Meters \ {m} : meter'[x] = meter[x]
      /\ \A x \in Meters \ {m} : Numbered(x)'
      /\ \A x \in Meters \ {m} : meter'[x].stopped => meter'[x].tick = "off"
  BY <1>1, <1>2, OthersNumbered
<1>4. Numbered(m)'
  <2> SUFFICES ASSUME ~meter'[m].stopped PROVE Numbered(m)'
    BY DEF Numbered
  <2>1. ~Pending(m)'
    BY <1>2 DEF Pending
  <2>2. \A i \in Nat : <<m, i>> \in billed \cup orphans => i < meter[m].idx
    BY <1>2 DEF Buckets, Numbered
  <2>3. \A i \in Nat : <<m, i>> \in billed' \cup orphans' => i < meter[m].idx
    BY <1>1, <1>2, <2>2
  <2> QED
    BY <1>2, <2>1, <2>3 DEF Numbered
<1>5. SubBuckets'
  BY <1>3, BucketsParts, Constants DEF SubBuckets, Allowed
<1>6. bot'.pc = "charge" => meter'[bot'.run].tick = "off" /\ ~meter'[bot'.run].stopped
  <2>1. bot.pc = "charge" => bot.run \in Meters
    BY Constants DEF Types, Runs
  <2> QED
    BY <1>3, <2>1 DEF Buckets
<1> QED
  BY <1>1, <1>2, <1>3, <1>4, <1>5, <1>6 DEF Buckets, Counted, SubBuckets

\* A loop's step, when the bot is not charging for the same meter.
LEMMA LoopNumbers ==
    ASSUME Types, Buckets, NEW m \in Meters, NEW live \in BOOLEAN,
           Tick(m, live) \/ TickCharged(m) \/ TickFails(m, live) \/ TickEnds(m, live),
           UNCHANGED <<bot, sub>>
    PROVE  Buckets'
<1>1. /\ OneMeter(m) /\ meter[m].idx \in Nat /\ meter[m].tick # "off"
      /\ Same(m, {"stopped", "ever"})
  BY MeterOperations, Operations DEF Types, MeterRecs, Same
<1>2. ~meter[m].stopped /\ ~meter'[m].stopped /\ meter'[m].ever = meter[m].ever
  BY <1>1 DEF Buckets, Same
<1>3. bot.pc # "charge" \/ bot.run # m
  BY <1>1 DEF Buckets
<1>4. /\ Pending(m) <=> meter[m].tick = "charge"
      /\ Pending(m)' <=> meter'[m].tick = "charge"
  BY <1>3 DEF Pending
<1>5. /\ Pending(m) => meter[m].idx > 0
      /\ \A i \in Nat : <<m, i>> \in billed \cup orphans =>
            i < IF Pending(m) THEN meter[m].idx - 1 ELSE meter[m].idx
  BY <1>2 DEF Buckets, Numbered
<1>6. /\ Counted' /\ orphans' = orphans
      /\ \A x \in Meters \ {m}, i \in Nat : <<x, i>> \in billed' => <<x, i>> \in billed
      /\ Numbered(m)'
  <2>1. CASE Tick(m, live)
    <3>1. /\ meter'[m].idx = meter[m].idx + 1 /\ meter'[m].tick = "charge"
          /\ meter[m].tick = "on" /\ UNCHANGED <<orphans, billed, served>>
      BY <2>1, Operations DEF Tick, TakeBucket
    <3>2. Counted'
      BY <3>1, BucketsParts DEF Counted, EveryIncrementBilled
    <3>3. meter'[m].idx - 1 = meter[m].idx /\ meter'[m].idx > 0
      BY <1>1, <3>1
    <3>4. \A i \in Nat : <<m, i>> \in billed \cup orphans => i < meter[m].idx
      BY <1>4, <1>5, <3>1
    <3>5. Numbered(m)'
      BY <1>4, <3>1, <3>3, <3>4 DEF Numbered
    <3> QED
      BY <3>1, <3>2, <3>5
  <2>2. CASE TickCharged(m)
    <3>1. /\ Pay(m, meter[m].idx - 1) /\ orphans' = orphans /\ meter[m].tick = "charge"
          /\ meter'[m].idx = meter[m].idx /\ meter'[m].tick = "on"
      BY <2>2, Operations DEF TickCharged, Same
    <3>2. /\ meter[m].idx - 1 \in Nat
          /\ \A i \in Nat : <<m, i>> \in billed \cup orphans => i < meter[m].idx - 1
      BY <1>1, <1>4, <1>5, <3>1
    <3>3. <<m, meter[m].idx - 1>> \notin billed \cup orphans
      BY <3>2
    <3>4. Counted' /\ billed' = billed \cup {<<m, meter[m].idx - 1>>}
      BY <3>1, <3>2, <3>3, PayCounts, BucketsParts
    <3>5. \A i \in Nat : <<m, i>> \in billed' \cup orphans' => i < meter[m].idx
      BY <1>1, <3>1, <3>2, <3>4
    <3>6. Numbered(m)'
      BY <1>4, <3>1, <3>5 DEF Numbered
    <3> QED
      BY <3>1, <3>4, <3>6
  <2>3. CASE TickFails(m, live) \/ TickEnds(m, live)
    <3>1. /\ UNCHANGED <<orphans, billed, served>> /\ meter'[m].idx = meter[m].idx
          /\ meter'[m].tick = "off"
      BY <2>3, Operations DEF TickFails, TickEnds, Same
    <3>2. Counted'
      BY <3>1, BucketsParts DEF Counted, EveryIncrementBilled
    <3>3. \A i \in Nat : <<m, i>> \in billed \cup orphans => i < meter[m].idx
      BY <1>1, <1>5
    <3>4. Numbered(m)'
      BY <1>4, <3>1, <3>3 DEF Numbered
    <3> QED
      BY <3>1, <3>2, <3>4
  <2> QED
    BY <2>1, <2>2, <2>3
<1>7. /\ \A x \in Meters \ {m} : meter'[x] = meter[x]
      /\ \A x \in Meters \ {m} : Numbered(x)'
      /\ \A x \in Meters \ {m} : meter'[x].stopped => meter'[x].tick = "off"
  BY <1>1, <1>6, OthersNumbered
<1>8. SubBuckets'
  <2>1. ASSUME NEW s \in Subs, sub[s].pc \in {"idle", "held"}
        PROVE  /\ ~meter'[s].stopped
               /\ meter'[s].tick = "off" \/ meter'[s].ever
               /\ meter'[s].ever \/ meter'[s].err # "none" \/ meter'[s].idx = 0
    <3>1. CASE s = m
      BY <1>1, <1>2, <2>1, <3>1 DEF Buckets
    <3>2. CASE s # m
      BY <1>7, <2>1, <3>2, Constants DEF Buckets, Allowed
    <3> QED
      BY <3>1, <3>2
  <2> QED
    BY <2>1 DEF SubBuckets, Allowed
<1>9. bot'.pc = "charge" => meter'[bot'.run].tick = "off" /\ ~meter'[bot'.run].stopped
  <2>1. bot.pc = "charge" => bot.run \in Meters
    BY Constants DEF Types, Runs
  <2> QED
    BY <1>3, <1>7, <2>1 DEF Buckets
<1> QED
  BY <1>2, <1>6, <1>7, <1>8, <1>9 DEF Buckets, Counted, SubBuckets

LEMMA OrphanNumbers ==
    ASSUME BotInv, OrphanEnds, UNCHANGED <<bot, sub>> PROVE Buckets'
<1>1. Types /\ Buckets /\ orphans \subseteq Meters \X Nat /\ billed \cap orphans = {}
  BY DEF BotInv, Buckets
<1>2. PICK o \in orphans :
        /\ orphans' = orphans \ {o}
        /\ \/ Pay(o[1], o[2]) /\ UNCHANGED meter
           \/ /\ SetMeter(o[1], [meter[o[1]] EXCEPT !.err = IF meter[o[1]].stopped THEN @ ELSE "cancelled"])
              /\ UNCHANGED <<billed, served>>
  BY DEF OrphanEnds
<1>3. o[1] \in Meters /\ o[2] \in Nat /\ o = <<o[1], o[2]>>
  BY <1>1, <1>2
<1>4. \A m \in Meters : /\ Same(m, {"stopped", "ever", "idx", "tick"})
                        /\ ~Allowed(m) => meter'[m].err # "none"
  BY <1>1, <1>2, <1>3, OrphanEnded
<1>5. Counted' /\ billed' \cup orphans' \subseteq billed \cup orphans
  <2>1. CASE Pay(o[1], o[2])
    <3>1. <<o[1], o[2]>> \notin billed /\ <<o[1], o[2]>> \notin orphans'
          /\ orphans' \subseteq orphans
      BY <1>1, <1>2, <1>3
    <3>2. Counted' /\ billed' = billed \cup {o}
      BY <1>1, <1>3, <2>1, <3>1, PayCounts, BucketsParts
    <3> QED
      BY <1>2, <3>1, <3>2
  <2>2. CASE UNCHANGED <<billed, served>>
    BY <1>1, <1>2, <2>2, BucketsParts DEF Counted, EveryIncrementBilled
  <2> QED
    BY <1>2, <2>1, <2>2
<1>6. ASSUME NEW m \in Meters
      PROVE  /\ Numbered(m)' /\ (meter'[m].stopped => meter'[m].tick = "off")
             /\ meter'[m].tick = meter[m].tick /\ meter'[m].stopped = meter[m].stopped
             /\ meter'[m].ever = meter[m].ever /\ meter'[m].idx = meter[m].idx
  <2>1. /\ meter'[m].tick = meter[m].tick /\ meter'[m].stopped = meter[m].stopped
        /\ meter'[m].ever = meter[m].ever /\ meter'[m].idx = meter[m].idx
    <3>1. Same(m, {"stopped", "ever", "idx", "tick"})
      BY <1>4, <1>6
    <3> QED
      BY <3>1 DEF Same
  <2>2. Pending(m)' <=> Pending(m)
    BY <2>1 DEF Pending
  <2>3. Numbered(m)'
    BY <1>1, <1>5, <2>1, <2>2 DEF Buckets, Numbered
  <2> QED
    BY <1>1, <2>1, <2>3 DEF Buckets
<1>7. SubBuckets'
  <2>1. \A s \in Subs : ~Allowed(s) => meter'[s].err # "none"
    BY <1>4, Constants
  <2>2. SubBuckets
    BY <1>1, BucketsParts
  <2> QED
    BY <1>6, <2>1, <2>2, Constants DEF SubBuckets, Allowed
<1>8. bot'.pc = "charge" => meter'[bot'.run].tick = "off" /\ ~meter'[bot'.run].stopped
  <2>1. bot.pc = "charge" => bot.run \in Meters
    BY <1>1, Constants DEF Types, Runs
  <2> QED
    BY <1>1, <1>6, <2>1 DEF Buckets
<1> QED
  BY <1>5, <1>6, <1>7, <1>8 DEF Buckets, Counted, SubBuckets

\* A submission's first bucket is number 0, and nothing of its meter was billed.
LEMMA SubNumbers ==
    ASSUME Types, Buckets, NEW s \in Subs, SubActivate(s) PROVE Buckets'
<1>1. /\ sub[s].pc = "held" /\ ~meter[s].ever /\ Allowed(s) /\ UNCHANGED <<orphans, bot, sub>>
      /\ s \in Meters
      /\ Pay(s, 0) \/ UNCHANGED <<billed, served>>
  BY Constants DEF SubActivate
<1>2. meter[s].idx = 0 /\ ~meter[s].stopped /\ meter[s].tick = "off"
  BY <1>1 DEF Buckets
<1>3. /\ OneMeter(s) /\ meter'[s].idx = 1 /\ ~meter'[s].stopped
      /\ meter'[s].ever \/ meter'[s].err # "none"
      /\ meter'[s].tick = "off" \/ (meter'[s].ever /\ meter'[s].tick = "on")
  BY <1>2, SubActivated DEF Same
<1>4. bot.pc = "charge" => bot.run \in Runs /\ bot.run \in Meters /\ bot.run # s
  BY Constants DEF Types, Runs
<1>5. ~Pending(s) /\ ~Pending(s)'
  BY <1>1, <1>2, <1>3, <1>4 DEF Pending
<1>6. \A i \in Nat : <<s, i>> \notin billed \cup orphans
  BY <1>1, <1>2, <1>5 DEF Buckets, Numbered
<1>7. Counted' /\ (billed' = billed \/ billed' = billed \cup {<<s, 0>>})
  <2>1. CASE Pay(s, 0)
    <3>1. <<s, 0>> \notin billed /\ <<s, 0>> \notin orphans'
      BY <1>1, <1>6
    <3> QED
      BY <1>1, <2>1, <3>1, PayCounts, BucketsParts
  <2>2. CASE UNCHANGED <<billed, served>>
    BY <1>1, <2>2, BucketsParts DEF Counted, EveryIncrementBilled
  <2> QED
    BY <1>1, <2>1, <2>2
<1>8. /\ \A x \in Meters \ {s} : meter'[x] = meter[x]
      /\ \A x \in Meters \ {s} : Numbered(x)'
      /\ \A x \in Meters \ {s} : meter'[x].stopped => meter'[x].tick = "off"
  BY <1>1, <1>3, <1>7, OthersNumbered
<1>9. Numbered(s)'
  BY <1>1, <1>3, <1>5, <1>6, <1>7 DEF Numbered
<1>10. SubBuckets'
  <2>1. ASSUME NEW t \in Subs, sub[t].pc \in {"idle", "held"}
        PROVE  /\ ~meter'[t].stopped
               /\ meter'[t].tick = "off" \/ meter'[t].ever
               /\ meter'[t].ever \/ meter'[t].err # "none" \/ meter'[t].idx = 0
    <3>1. CASE t = s
      BY <1>3, <3>1
    <3>2. CASE t # s
      BY <1>8, <2>1, <3>2, Constants DEF Buckets, Allowed
    <3> QED
      BY <3>1, <3>2
  <2> QED
    BY <1>1, <2>1 DEF SubBuckets, Allowed
<1>11. bot'.pc = "charge" => meter'[bot'.run].tick = "off" /\ ~meter'[bot'.run].stopped
  BY <1>1, <1>4, <1>8 DEF Buckets
<1> QED
  BY <1>3, <1>7, <1>8, <1>9, <1>10, <1>11 DEF Buckets, Counted, SubBuckets

LEMMA BucketsKept == ASSUME BotInv, [Next]_vars PROVE Buckets'
<1>1. Types /\ Buckets /\ bot \in BotRecs
  BY DEF BotInv, Types
<1>2. CASE BotMoves
  <2>1. /\ bot'.run = bot.run /\ UNCHANGED sub
        /\ bot.run \in Meters /\ bot.run \in Runs /\ bot.run \notin Subs
    <3>1. UNCHANGED sub
      BY <1>2 DEF BotMoves, Begin, Launched, LaunchFails, AuthRequired, Refreshed, AuthEnds,
           Activate, ActivateCharged, Boundary, Wake, Check, Job, Closing, Finish, others
    <3> QED
      BY <1>1, <1>2, <3>1, BotGoes, BotMeter, Constants DEF Kept, Going
  <2>2. CASE ActivateCharged
    BY <1>1, <2>2, ChargeNumbers
  <2>3. CASE Activate
    <3>1. CASE Allowed(bot.run)
      BY <1>1, <2>3, <3>1, TakeNumbers
    <3>2. CASE ~Allowed(bot.run)
      <4>1. bot.pc = "activate" /\ bot' = Refused /\ UNCHANGED meterVars
        BY <2>3, <3>2 DEF Activate
      <4>2. bot'.pc # "charge"
        BY <1>1, <4>1, GoingFacts
      <4> QED
        BY <1>1, <2>1, <4>1, <4>2, BucketsRest
    <3> QED
      BY <3>1, <3>2
  <2>4. CASE LaunchFails \/ AuthEnds
    <3>1. bot'.pc # "charge" /\ bot.pc # "charge" /\ UNCHANGED meterVars
      <4>1. GiveUp.pc \in {"closing", "finish"}
        BY <1>1, GoingFacts
      <4> HIDE DEF GiveUp
      <4> QED
        BY <1>1, <2>4, <4>1 DEF LaunchFails, AuthEnds, BotRecs
    <3> QED
      BY <1>1, <2>1, <3>1, BucketsRest
  <2>5. CASE AuthRequired
    <3>1. Deactivate(bot.run) /\ bot.pc # "charge" /\ bot'.pc # "charge"
      BY <1>1, <2>5 DEF AuthRequired, BotRecs
    <3> QED
      BY <1>1, <2>1, <3>1, CutNumbers
  <2>6. CASE Boundary
    <3>1. bot.pc # "charge" /\ bot'.pc # "charge" /\ (Deactivate(bot.run) \/ UNCHANGED meterVars)
      BY <1>1, <2>6 DEF Boundary, Go, BotRecs
    <3> QED
      BY <1>1, <2>1, <3>1, CutNumbers, BucketsRest
  <2>7. CASE Closing
    <3>1. StopMeter(bot.run) /\ bot.pc # "charge" /\ bot'.pc # "charge"
      BY <1>1, <2>7 DEF Closing, Go, BotRecs
    <3> QED
      BY <1>1, <2>1, <3>1, CutNumbers
  <2>8. CASE Begin \/ Launched \/ Refreshed \/ Wake \/ Check \/ Job \/ Finish
    <3>1. UNCHANGED meterVars
      BY <2>8 DEF Begin, Launched, Refreshed, Wake, Check, Job, Finish
    <3>2. bot.pc # "charge"
      BY <2>8 DEF Begin, Launched, Refreshed, Wake, Check, Job, Finish
    <3>3. bot'.pc # "charge"
      <4>1. CASE Begin \/ Launched \/ Refreshed \/ Finish
        BY <1>1, <4>1 DEF Begin, Launched, Refreshed, AfterAuth, Finish, BotRecs
      <4>2. CASE Wake \/ Check \/ Job
        BY <1>1, <4>2 DEF Wake, Check, Job, Go, BotRecs
      <4> QED
        BY <2>8, <4>1, <4>2
    <3> QED
      BY <1>1, <2>1, <3>1, <3>2, <3>3, BucketsRest
  <2> QED
    BY <1>2, <2>2, <2>3, <2>4, <2>5, <2>6, <2>7, <2>8 DEF BotMoves
<1>3. CASE PauseBot \/ ResumeBot \/ StopBot
  <2>1. bot'.pc = bot.pc /\ bot'.run = bot.run
    BY <1>1, <1>3, RequestGoes DEF Going
  <2>2. UNCHANGED meterVars /\ UNCHANGED sub
    BY <1>3 DEF PauseBot, ResumeBot, StopBot
  <2> QED
    BY <1>1, <2>1, <2>2, BucketsRest
<1>4. CASE Start
  <2>1. UNCHANGED meterVars /\ UNCHANGED sub /\ bot'.pc = "queued"
    BY <1>4 DEF Start, NewBot
  <2>2. bot.pc = "gone"
    BY <1>4, HoldingFacts DEF Start, MayStart, BotInv, Held, Registry, RunHeld
  <2> QED
    BY <1>1, <2>1, <2>2, BucketsRest
<1>5. CASE ReleaseBot
  <2>1. UNCHANGED meterVars /\ UNCHANGED sub /\ bot'.pc = "gone" /\ bot.pc = "release"
    BY <1>5 DEF ReleaseBot, NewBot
  <2> QED
    BY <1>1, <2>1, BucketsRest
<1>6. CASE UNCHANGED vars \/ (\E k \in {"pause", "resume", "stop"} : Ask(k))
           \/ (\E r \in Runs : Tail(r)) \/ (\E id \in Ids : Line(id))
  <2>1. UNCHANGED meterVars /\ UNCHANGED <<bot, sub>>
    BY <1>6 DEF vars, Ask, Tail, Line
  <2> QED
    BY <1>1, <2>1, BucketsRest
<1>7. CASE \E s \in Subs : SubAcquire(s) \/ SubUnregister(s)
  <2>1. UNCHANGED meterVars /\ UNCHANGED bot
    BY <1>7 DEF SubAcquire, SubUnregister
  <2>2. \A s \in Subs : sub'[s].pc \in {"idle", "held"} => sub[s].pc \in {"idle", "held"}
    BY <1>1, <1>7 DEF SubAcquire, SubUnregister, Types
  <2> QED
    BY <1>1, <2>1, <2>2, BucketsRest
<1>8. CASE \E s \in Subs : SubEnds(s)
  <2>1. PICK s \in Subs : SubEnds(s)
    BY <1>8
  <2>2. StopMeter(s) /\ UNCHANGED bot /\ s \in Meters
    BY <2>1, Constants DEF SubEnds
  <2>3. /\ sub'[s].pc \notin {"idle", "held"}
        /\ \A t \in Subs \ {s} : sub'[t] = sub[t]
    <3>1. sub[s] \in SubRecs /\ \A t \in Subs \ {s} : sub'[t] = sub[t]
      BY <1>1, <2>1 DEF SubEnds, Types
    <3>2. sub'[s] = IF Unregisters(sub[s].run) THEN [sub[s] EXCEPT !.pc = "unregister"]
                    ELSE [pc |-> "done", run |-> NoRun]
      BY <1>1, <2>1 DEF SubEnds, Types
    <3> QED
      BY <3>1, <3>2 DEF SubRecs
  <2>4. bot.pc = "charge" => bot.run # s
    BY <1>1, Constants DEF Types, Runs
  <2> QED
    BY <1>1, <2>2, <2>3, <2>4, CutNumbers
<1>9. CASE \E s \in Subs : SubActivate(s)
  BY <1>1, <1>9, SubNumbers
<1>10. CASE MeterStep
  <2>1. UNCHANGED <<bot, sub>>
    BY <1>10 DEF MeterStep
  <2>2. \A m \in Meters : LoopLive(m) \in BOOLEAN
    BY DEF LoopLive
  <2> QED
    BY <1>1, <1>10, <2>1, <2>2, LoopNumbers, OrphanNumbers DEF MeterStep
<1> QED
  BY <1>2, <1>3, <1>4, <1>5, <1>6, <1>7, <1>8, <1>9, <1>10 DEF Next, BotStep, BotMoves, SubStep

-----------------------------------------------------------------------------
(* The theorems. *)

LEMMA InitBot == Init => BotInv
<1> SUFFICES ASSUME Init PROVE BotInv
  OBVIOUS
<1>1. /\ meter = [m \in Meters |-> Fresh] /\ orphans = {} /\ billed = {} /\ served = 0
      /\ entry = [status |-> "idle", statusRun |-> NoRun, run |-> NoRun, refs |-> 0]
      /\ bot = [NewBot(NoRun) EXCEPT !.pc = "gone"] /\ tail = [r \in Runs |-> "none"]
      /\ sub = [s \in Subs |-> [pc |-> "idle", run |-> NoRun]]
      /\ sink = NoRun /\ logs = [run |-> NoRun, of |-> {}] /\ started = 0
  BY DEF Init, MeterInit
<1>2. bot \in BotRecs /\ bot.pc = "gone" /\ bot.asked = FALSE
  <2>1. NewBot(NoRun) \in BotRecs
    BY NewBots, Constants DEF NoRun
  <2> QED
    BY <1>1, <2>1, BotRecords DEF Pcs, NewBot
<1>3. Fresh \in MeterRecs
  BY DEF Fresh, MeterRecs
<1>4. Types
  BY <1>1, <1>2, <1>3, Constants DEF Types, EntryRecs, SubRecs
<1>5. Holding = {} /\ Cardinality(Holding) = 0
  BY <1>1, FS_EmptySet DEF Holding
<1>6. Registry
  BY <1>1, <1>2, <1>5 DEF Registry, RunHeld
<1>7. Billing
  BY <1>1, <1>2, Constants DEF Billing, Fresh
<1>8. Buckets
  <2>1. Counted
    BY <1>1, FS_EmptySet DEF Counted, EveryIncrementBilled
  <2>2. SubBuckets
    BY <1>1, Constants DEF SubBuckets, Fresh
  <2>3. ASSUME NEW m \in Meters PROVE Numbered(m) /\ ~meter[m].stopped
    BY <1>1, <1>2 DEF Numbered, Pending, Fresh
  <2> QED
    BY <1>2, <2>1, <2>2, <2>3, BucketsParts
<1> QED
  BY <1>4, <1>6, <1>7, <1>8 DEF BotInv

LEMMA BotInvariant == Spec => []BotInv
<1>1. BotInv /\ [Next]_vars => BotInv'
  <2> SUFFICES ASSUME BotInv, [Next]_vars PROVE BotInv'
    OBVIOUS
  <2>1. RunTypes' /\ Registry'
    BY HeldKept DEF BotInv, Held
  <2>2. Billing' /\ meter' \in [Meters -> MeterRecs]
    BY BillingKept
  <2>3. Types'
    BY <2>1, <2>2 DEF Types, RunTypes
  <2> QED
    BY <2>1, <2>2, <2>3, BucketsKept DEF BotInv
<1> QED
  BY <1>1, InitBot, PTL DEF Spec

\* A run's id stays registered, and its log lines the ones that are shown, from
\* its first holder to its last, for any number of runs and of submissions that
\* join them (acquireRun, releaseRun, RunLogSink).
THEOREM RunStaysHeld == Spec => []RunHeld
<1>1. BotInv => RunHeld
  BY DEF BotInv, Registry
<1> QED
  BY <1>1, BotInvariant, PTL

\* The bot works on a job only while its meter's loop runs, has failed, or the
\* run was cancelled: neither a pause, nor a wait for a login, nor a reconnect
\* leads back to work with the meter at rest (waitIfPaused, seekRecoverAuth).
THEOREM WorkStaysMetered == Spec => []WorkIsMetered
<1>1. BotInv => WorkIsMetered
  BY DEF BotInv, Billing, WorkIsMetered, Metered, Meter
<1> QED
  BY <1>1, BotInvariant, PTL

\* Every increment that was taken for paid has an event of its own, although
\* charges commit after their loop was cancelled, and a meter is activated
\* again meanwhile (liveBrowserMeter, RecordBrowserIncrement).
THEOREM IncrementsAreBilled == Spec => []EveryIncrementBilled
<1>1. BotInv => EveryIncrementBilled
  BY DEF BotInv, Buckets
<1> QED
  BY <1>1, BotInvariant, PTL

\* Once a stop was asked for, the check before a job lets no further one start,
\* even when the stop came before the goroutine had begun and its flag was
\* reset: the cancelled context remains (Bot.Start, stopReason).
THEOREM StopStartsNoJob == Spec => NoJobAfterStop
<1>1. BotInv /\ [Next]_vars => [bot.asked /\ bot.pc = "check" => bot'.pc # "job"]_vars
  <2> SUFFICES ASSUME BotInv, [Next]_vars, bot.asked, bot.pc = "check", bot'.pc = "job"
               PROVE  UNCHANGED vars
    OBVIOUS
  <2>1. bot.cancelled /\ bot \in BotRecs
    BY DEF BotInv, Billing, Types
  <2>2. CASE Check
    <3>1. bot' = [bot EXCEPT !.pc = "closing"]
      BY <2>1, <2>2 DEF Check, Stopped, Go
    <3> QED
      BY <2>1, <3>1 DEF BotRecs
  <2>3. bot' # bot
    OBVIOUS
  <2>4. CASE BotMoves /\ ~Check
    BY <2>4 DEF BotMoves, Begin, Launched, LaunchFails, AuthRequired, Refreshed, AuthEnds,
       Activate, ActivateCharged, Boundary, Wake, Job, Closing, Finish
  <2>5. CASE PauseBot \/ ResumeBot \/ StopBot
    BY <2>1, <2>5, RequestGoes
  <2>6. CASE Start \/ ReleaseBot
    BY <2>6 DEF Start, ReleaseBot, NewBot
  <2> QED
    BY <2>2, <2>3, <2>4, <2>5, <2>6 DEF Next, BotStep, BotMoves, Ask, Tail, SubStep, SubAcquire,
       SubActivate, SubEnds, SubUnregister, MeterStep, Line, vars
<1> QED
  BY <1>1, BotInvariant, PTL DEF Spec, NoJobAfterStop
=============================================================================
