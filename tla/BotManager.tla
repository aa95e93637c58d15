------------------------------ MODULE BotManager ------------------------------
(***************************************************************************)
(* The bot manager's entry of one user: the run of a bot that requests     *)
(* start, pause, resume and stop, submissions that share its run id, the   *)
(* meter that bills both, and the sink that keeps the log lines of the     *)
(* current run.                                                            *)
(*                                                                         *)
(* The bot goroutine moves from job to job.  The pause and stop channels   *)
(* are flags; "woken" says that the channel a paused bot waits on was      *)
(* closed.  A request of a handler is two steps, since the handler reads   *)
(* Status before it calls Pause, Resume or Stop.                           *)
(***************************************************************************)
EXTENDS BrowserMeter

CONSTANTS Subs,             \* submissions (SubmitNow, SubmitSync)
          MaxRuns,          \* bound: runs started
          MaxCommands,      \* bound: requests to pause, resume or stop
          Platform          \* "linkedin" or "seek"

ASSUME BotAssumption == /\ MaxRuns \in Nat \ {0} /\ MaxCommands \in Nat
                        /\ Platform \in {"linkedin", "seek"}
                        /\ Meters = (1..MaxRuns) \cup Subs
                        /\ IsFiniteSet(Subs)
                        /\ Subs \cap (0..MaxRuns) = {}    \* every run id is new

NoRun == 0
Ids == Meters
Runs == 1..MaxRuns

VARIABLES entry,            \* status, and the run id with its references
          bot,              \* entry.bot and the goroutine that runs it
          tail,             \* what a goroutine has still to do after its release
          sub,              \* submissions: where they are and the run they hold
          asks,             \* requests that have passed their check
          sink,             \* the run whose lines are accepted
          logs,             \* bot_current_run and the runs of the stored lines
          started, commands

sinkVars == <<sink, logs>>
bounds == <<started, commands>>
vars == <<meterVars, entry, bot, tail, sub, asks, sinkVars, bounds>>

NewBot(r) == [run |-> r, pc |-> "queued", back |-> "boundary", state |-> "idle",
              stop |-> FALSE, cancelled |-> FALSE, pause |-> FALSE, woken |-> FALSE,
              asked |-> FALSE]

Init == /\ MeterInit
        /\ entry = [status |-> "idle", statusRun |-> NoRun, run |-> NoRun, refs |-> 0]
        /\ bot = [NewBot(NoRun) EXCEPT !.pc = "gone"]
        /\ tail = [r \in Runs |-> "none"]
        /\ sub = [s \in Subs |-> [pc |-> "idle", run |-> NoRun]]
        /\ asks = {}
        /\ sink = NoRun /\ logs = [run |-> NoRun, of |-> {}]
        /\ started = 0 /\ commands = 0

----------------------------------------------------------------------------
(* The log sink.  Register clears the user's lines and names the run in one *)
(* transaction; a line is checked and stored under the same mutex.          *)

Register(id) == /\ sink' = id
                /\ logs' = [run |-> id, of |-> {}]

Unregister(id) == /\ sink' = (IF sink = id THEN NoRun ELSE sink)
                  /\ UNCHANGED logs

StillCurrent(id) == sink = id

\* The check before the mutex only saves work: a line of any run that was ever
\* registered may come this far.
Line(id) ==
    /\ id \in 1..started \/ (id \in Subs /\ sub[id].pc # "idle")
    /\ StillCurrent(id)
    /\ logs' = [logs EXCEPT !.of = @ \cup {id}]
    /\ UNCHANGED <<meterVars, entry, bot, tail, sub, asks, sink, bounds>>

----------------------------------------------------------------------------
(* Start, and who holds the run id.                                         *)

MayStart == entry.status # "running" /\ entry.run = NoRun

Start ==
    /\ MayStart /\ started < MaxRuns
    /\ LET r == started + 1
       IN  /\ started' = r
           /\ Register(r)
           /\ entry' = [status |-> "running", statusRun |-> r, run |-> r, refs |-> 1]
           /\ bot' = NewBot(r)
    /\ UNCHANGED <<meterVars, tail, sub, asks, commands>>

\* acquireRun: join the run that is there, or register one.
Joined(id) == IF entry.run # NoRun THEN entry.run ELSE id
Acquire(id) ==
    IF entry.run # NoRun
      THEN entry' = [entry EXCEPT !.refs = @ + 1] /\ UNCHANGED sinkVars
      ELSE /\ entry' = [entry EXCEPT !.run = id, !.refs = 1, !.statusRun = id]
           /\ Register(id)

\* Mutant of LastRef: whoever lets go first ends the run.
LastRefAny == TRUE
LastRef == entry.refs = 1

\* releaseRun up to the end of its critical section.
Release(id) ==
    entry' = IF entry.run # id THEN entry
             ELSE IF LastRef
               THEN [entry EXCEPT !.run = NoRun, !.refs = 0,
                                  !.statusRun = IF @ = id THEN NoRun ELSE @]
               ELSE [entry EXCEPT !.refs = @ - 1]
Unregisters(id) == entry.run = id /\ LastRef

----------------------------------------------------------------------------
(* Requests.                                                                *)

StatusNow == IF bot.pause THEN "paused" ELSE entry.status

Ask(k) ==
    /\ commands < MaxCommands /\ k \notin asks
    /\ StatusNow \in CASE k = "pause" -> {"running"}
                       [] k = "resume" -> {"paused"}
                       [] k = "stop" -> {"running", "paused"}
    /\ asks' = asks \cup {k}
    /\ commands' = commands + 1
    /\ UNCHANGED <<meterVars, entry, bot, tail, sub, sinkVars, started>>

PauseBot ==
    /\ "pause" \in asks
    /\ asks' = asks \ {"pause"}
    /\ bot' = [bot EXCEPT !.pause = TRUE]
    /\ entry' = [entry EXCEPT !.status = "paused"]
    /\ UNCHANGED <<meterVars, tail, sub, sinkVars, bounds>>

ResumeBot ==
    /\ "resume" \in asks
    /\ asks' = asks \ {"resume"}
    /\ bot' = [bot EXCEPT !.pause = FALSE,
                          !.woken = @ \/ (bot.pause /\ bot.pc = "waiting" /\ ~bot.stop)]
    /\ entry' = [entry EXCEPT !.status = "running"]
    /\ UNCHANGED <<meterVars, tail, sub, sinkVars, bounds>>

\* Stop cancels the run's context, then closes the stop channel.
StopBot ==
    /\ "stop" \in asks
    /\ asks' = asks \ {"stop"}
    /\ bot' = [bot EXCEPT !.cancelled = TRUE, !.stop = TRUE, !.pause = FALSE, !.asked = TRUE]
    /\ entry' = [entry EXCEPT !.status = "stopped"]
    /\ UNCHANGED <<meterVars, tail, sub, sinkVars, bounds>>

----------------------------------------------------------------------------
(* The bot goroutine.                                                       *)

Meter == meter[bot.run]
Live == ~bot.cancelled
Go(at) == bot' = [bot EXCEPT !.pc = at]
others == <<entry, tail, sub, asks, sinkVars, bounds>>

\* Bot.Start makes a new stop channel: a stop before it lives on only in the
\* cancelled context.
Begin ==
    /\ bot.pc = "queued"
    /\ bot' = [bot EXCEPT !.pc = "launch", !.stop = FALSE, !.state = "running"]
    /\ UNCHANGED <<meterVars, others>>

Launched ==
    /\ bot.pc \in {"launch", "relaunch"}
    /\ bot' = [bot EXCEPT !.pc = IF Meter.ever THEN "boundary" ELSE "activate",
                          !.back = "boundary", !.state = "running"]
    /\ UNCHANGED <<meterVars, others>>

\* The first launch fails before the meter's Stop is deferred, and is an error
\* on Seek; a reconnect that fails only ends the run.
GiveUp == [bot EXCEPT !.pc = IF Meter.ever THEN "closing" ELSE "finish",
                      !.state = IF Platform = "seek" /\ ~Meter.ever THEN "error" ELSE @]

LaunchFails ==
    /\ bot.pc \in {"launch", "relaunch"}
    /\ \/ bot' = GiveUp
       \/ bot' = [bot EXCEPT !.pc = "closing", !.state = "error"]   \* not logged in
    /\ UNCHANGED <<meterVars, others>>

\* Seek wants the user to log in: billing rests while the bot waits for a new
\* session, for five minutes at most.
AuthRequired ==
    /\ Platform = "seek" /\ bot.pc = "launch"
    /\ bot' = [bot EXCEPT !.pc = "auth", !.state = "user_action_required"]
    /\ Deactivate(bot.run)
    /\ UNCHANGED <<others>>

\* Mutant of AfterAuth: billing is not taken up again.
AfterAuthUnbilled == "relaunch"
AfterAuth == IF Meter.ever THEN "activate" ELSE "relaunch"

Refreshed ==
    /\ bot.pc = "auth"
    /\ bot' = [bot EXCEPT !.pc = AfterAuth, !.back = "relaunch"]
    /\ UNCHANGED <<meterVars, others>>

AuthEnds ==
    /\ bot.pc = "auth"
    /\ bot' = GiveUp
    /\ UNCHANGED <<meterVars, others>>

\* What follows an activation that is refused: the first one ends the run, one
\* after a wait for a login fails the launch, and one after a pause is left to
\* the next look at the meter.
Refused == CASE bot.back = "boundary" -> [bot EXCEPT !.pc = "closing"]
             [] bot.back = "relaunch" -> GiveUp
             [] bot.back = "check" -> [bot EXCEPT !.pc = "check", !.back = "boundary"]

Activate ==
    /\ bot.pc = "activate"
    /\ IF Allowed(bot.run)
         THEN CallActivate(bot.run) /\ Go("charge")
         ELSE bot' = Refused /\ UNCHANGED meterVars
    /\ UNCHANGED <<others>>

ActivateCharged ==
    /\ bot.pc = "charge"
    /\ \/ Activated(bot.run) /\ bot' = [bot EXCEPT !.pc = bot.back, !.back = "boundary"]
       \/ ActivateFails(bot.run, Live) /\ bot' = Refused
    /\ UNCHANGED <<others>>

\* waitIfPaused
Boundary ==
    /\ bot.pc = "boundary"
    /\ IF bot.pause
         THEN bot' = [bot EXCEPT !.pc = "waiting"] /\ Deactivate(bot.run)
         ELSE Go("check") /\ UNCHANGED meterVars
    /\ UNCHANGED <<others>>

\* Mutant of Interrupts: a stop does not reach a paused bot.
InterruptsNever == FALSE
Interrupts == bot.stop \/ bot.cancelled

Wake ==
    /\ bot.pc = "waiting"
    /\ \/ bot.woken /\ bot' = [bot EXCEPT !.pc = "activate", !.back = "check", !.woken = FALSE]
       \/ Interrupts /\ bot' = [bot EXCEPT !.pc = "check", !.woken = FALSE]
    /\ UNCHANGED <<meterVars, others>>

\* stopReason and the other ends of a run: the limit of the day, an expired
\* session, no keyword left.
\* Mutant of Stopped: the context is not looked at.
StoppedByChannel == bot.stop
Stopped == bot.stop \/ bot.cancelled

Check ==
    /\ bot.pc = "check"
    /\ IF Stopped \/ ~Allowed(bot.run)
         THEN Go("closing")
         ELSE \/ \E at \in {"job", "closing"} : Go(at)
              \/ Platform = "seek" /\ bot' = [bot EXCEPT !.pc = "closing", !.state = "error"]
    /\ UNCHANGED <<meterVars, others>>

\* A job is done, too many of them failed (which closes the stop channel), or
\* the browser is gone.
Job ==
    /\ bot.pc = "job"
    /\ \/ Go("boundary")
       \/ Meter.idx < MaxBuckets[bot.run] /\ Go("launch")
       \/ bot' = [bot EXCEPT !.pc = "boundary", !.stop = TRUE]
    /\ UNCHANGED <<meterVars, others>>

Closing ==
    /\ bot.pc = "closing"
    /\ StopMeter(bot.run)
    /\ Go("finish")
    /\ UNCHANGED <<others>>

\* Bot.run's deferred state, then the manager's.
Finish ==
    /\ bot.pc = "finish"
    /\ LET last == IF bot.state = "error" THEN "error" ELSE "stopped"
       IN  /\ bot' = [bot EXCEPT !.pc = "release", !.state = last]
           /\ entry' = IF entry.statusRun = bot.run THEN [entry EXCEPT !.status = last] ELSE entry
    /\ UNCHANGED <<meterVars, tail, sub, asks, sinkVars, bounds>>

\* Of a bot that is gone only its pause channel is looked at again.
ReleaseBot ==
    /\ bot.pc = "release"
    /\ Release(bot.run)
    /\ bot' = [NewBot(bot.run) EXCEPT !.pc = "gone", !.pause = bot.pause]
    /\ tail' = [tail EXCEPT ![bot.run] = IF Unregisters(bot.run) THEN "unregister" ELSE "none"]
    /\ UNCHANGED <<meterVars, sub, asks, sinkVars, bounds>>

\* What is left to a goroutine whose run is released already.
Tail(r) ==
    /\ tail[r] = "unregister" /\ Unregister(r)
    /\ tail' = [tail EXCEPT ![r] = "none"]
    /\ UNCHANGED <<meterVars, entry, bot, sub, asks, bounds>>

BotStep == \/ Begin \/ Launched \/ LaunchFails \/ AuthRequired \/ Refreshed \/ AuthEnds
           \/ Activate \/ ActivateCharged \/ Boundary \/ Wake \/ Check \/ Job
           \/ Closing \/ Finish \/ ReleaseBot

----------------------------------------------------------------------------
(* A submission, as far as the run and the meter go.                        *)

SubAcquire(s) ==
    /\ sub[s].pc = "idle"
    /\ Acquire(s)
    /\ sub' = [sub EXCEPT ![s] = [pc |-> "held", run |-> Joined(s)]]
    /\ UNCHANGED <<meterVars, bot, tail, asks, bounds>>

\* Nobody else uses a submission's meter, so its first charge is one step.
SubActivate(s) ==
    /\ sub[s].pc = "held" /\ ~meter[s].ever /\ Allowed(s)
    /\ \/ /\ Pay(s, 0)
          /\ SetMeter(s, [meter[s] EXCEPT !.idx = 1, !.ever = TRUE, !.tick = "on"])
       \/ /\ SetMeter(s, [meter[s] EXCEPT !.idx = 1, !.err = "refused"])
          /\ UNCHANGED <<billed, served>>
    /\ UNCHANGED <<orphans, entry, bot, tail, sub, asks, sinkVars, bounds>>

\* The deferred calls of runSubmit, whatever the outcome.
SubEnds(s) ==
    /\ sub[s].pc = "held"
    /\ StopMeter(s)
    /\ Release(sub[s].run)
    /\ sub' = [sub EXCEPT ![s] = IF Unregisters(sub[s].run) THEN [@ EXCEPT !.pc = "unregister"]
                                    ELSE [pc |-> "done", run |-> NoRun]]
    /\ UNCHANGED <<bot, tail, asks, sinkVars, bounds>>

SubUnregister(s) ==
    /\ sub[s].pc = "unregister"
    /\ Unregister(sub[s].run)
    /\ sub' = [sub EXCEPT ![s] = [pc |-> "done", run |-> NoRun]]
    /\ UNCHANGED <<meterVars, entry, bot, tail, asks, bounds>>

SubStep(s) == SubAcquire(s) \/ SubActivate(s) \/ SubEnds(s) \/ SubUnregister(s)

----------------------------------------------------------------------------

\* The context of a meter's loop: a run's is cancelled by Stop, a submission's
\* lives as long as the server.
LoopLive(m) == m \in Subs \/ ~(bot.run = m /\ bot.cancelled)

MeterStep ==
    /\ \/ \E m \in Meters : \/ Tick(m, LoopLive(m)) \/ TickCharged(m)
                            \/ TickFails(m, LoopLive(m)) \/ TickEnds(m, LoopLive(m))
       \/ OrphanEnds
    /\ UNCHANGED <<entry, bot, tail, sub, asks, sinkVars, bounds>>

Next == \/ Start \/ PauseBot \/ ResumeBot \/ StopBot
        \/ \E k \in {"pause", "resume", "stop"} : Ask(k)
        \/ BotStep \/ \E r \in Runs : Tail(r)
        \/ \E s \in Subs : SubStep(s)
        \/ MeterStep
        \/ \E id \in Ids : Line(id)

Spec == Init /\ [][Next]_vars

\* Goroutines go on: a job, a page and a statement end, a wait for a login has
\* a deadline.  Nothing is asked of requests, ticks or log lines.
FairSpec == Spec /\ WF_vars(BotStep)

----------------------------------------------------------------------------
(* What should hold.                                                        *)

BotTypeOK ==
    /\ MeterTypeOK
    /\ entry \in [status : {"idle", "running", "paused", "stopped", "error"},
                  statusRun : Ids \cup {NoRun}, run : Ids \cup {NoRun},
                  refs : 0..(1 + Cardinality(Subs))]
    /\ bot.run \in 0..started
    /\ bot.pc \in {"queued", "launch", "relaunch", "auth", "activate", "charge", "boundary",
                   "waiting", "check", "job", "closing", "finish", "release", "gone"}
    /\ tail \in [Runs -> {"none", "unregister"}]
    /\ asks \subseteq {"pause", "resume", "stop"}
    /\ {sink, logs.run} \subseteq Ids \cup {NoRun}

\* Whoever works under a run id keeps it registered until the last of them is
\* done: a submission that joined a search goes on logging when the search ends,
\* the next run cannot wipe its lines, and a late line of an older run is not shown.
Holding == {s \in Subs : sub[s].pc = "held"}
RunHeld ==
    /\ entry.refs = Cardinality(Holding) + (IF bot.pc = "gone" THEN 0 ELSE 1)
    /\ \A s \in Holding : sub[s].run = entry.run
    /\ bot.pc # "gone" => bot.run = entry.run
    /\ entry.run # NoRun => sink = entry.run /\ logs.run = entry.run
    /\ logs.of \subseteq {logs.run}

\* The bot works on a job only while its time is metered, or after the meter
\* has failed or the run was cancelled, which ends it at the next boundary.
WorkIsMetered ==
    bot.pc = "job" => Meter.tick # "off" \/ ~Allowed(bot.run) \/ bot.cancelled

\* Once Stop was called the run starts no further job, even when the call came
\* before the goroutine had begun.
NoJobAfterStop == [][bot.asked /\ bot.pc = "check" => bot'.pc # "job"]_vars

\* A stop ends the run, wherever the bot is.
StopEndsRun == bot.asked ~> bot.pc = "gone"

=============================================================================
