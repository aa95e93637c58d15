----------------------------- MODULE BrowserMeter -----------------------------
(***************************************************************************)
(* The meter that charges a user's active browser time in buckets, ahead:  *)
(* one bucket when it is activated and one at every tick.  A charge is     *)
(* begun under the meter's mutex and committed outside of it, so a tick    *)
(* can be charging while the meter is deactivated, stopped or activated    *)
(* again: such a charge is an orphan, and its context is cancelled.        *)
(***************************************************************************)
EXTENDS Naturals, FiniteSets

CONSTANTS Meters,           \* one for each run and each submission
          MaxBuckets        \* bound: buckets taken when a loop may begin another

ASSUME MeterAssumption == MaxBuckets \in [Meters -> Nat]

VARIABLES meter,            \* what each meter knows
          orphans,          \* charges of loops that were cancelled meanwhile
          billed,           \* idempotency keys of resource_usage_events
          served            \* history: increments the code took for paid

meterVars == <<meter, orphans, billed, served>>

Fresh == [err |-> "none", stopped |-> FALSE, ever |-> FALSE, idx |-> 0, tick |-> "off"]

MeterInit == /\ meter = [m \in Meters |-> Fresh]
             /\ orphans = {} /\ billed = {} /\ served = 0

SetMeter(m, r) == meter' = [meter EXCEPT ![m] = r]

\* DestructiveActionAllowed: no charge was refused or failed so far.
Allowed(m) == meter[m].err = "none"

\* A meter has the run id its bot was configured with, whichever run its log
\* lines appear in.
\* Mutant of Key: the keys of all meters of a user look the same.
KeyOfUser(m, i) == <<0, i>>
Key(m, i) == <<m, i>>

(* BeforeBrowserIncrement, then RecordBrowserIncrement.  Whether credits and *)
(* statements suffice is left open; QuotaService says what a charge does.    *)
Pay(m, i) == /\ billed' = billed \cup {Key(m, i)}
             /\ served' = served + 1

\* A charge is refused (no credits, a statement that fails) or finds its
\* context cancelled.
Unpaid(live) == {"refused"} \cup (IF live THEN {} ELSE {"cancelled"})

\* The next bucket is taken under the mutex.
TakeBucket(m, tick) ==
    /\ SetMeter(m, [meter[m] EXCEPT !.idx = @ + 1, !.tick = tick])
    /\ UNCHANGED <<orphans, billed, served>>

(* Activate: refused at once, or a bucket is charged and the loop started.  *)
CallActivate(m) == /\ ~meter[m].stopped /\ Allowed(m)
                   /\ TakeBucket(m, "off")

Activated(m) ==
    /\ Pay(m, meter[m].idx - 1)
    /\ SetMeter(m, [meter[m] EXCEPT !.ever = TRUE, !.tick = "on"])
    /\ UNCHANGED orphans

ActivateFails(m, live) ==
    /\ \E err \in Unpaid(live) : SetMeter(m, [meter[m] EXCEPT !.err = err])
    /\ UNCHANGED <<orphans, billed, served>>

(* The loop of an active meter.                                             *)
Tick(m, live) ==
    /\ meter[m].tick = "on" /\ Allowed(m) /\ live
    /\ meter[m].idx < MaxBuckets[m]
    /\ TakeBucket(m, "charge")

TickCharged(m) ==
    /\ meter[m].tick = "charge"
    /\ Pay(m, meter[m].idx - 1)
    /\ SetMeter(m, [meter[m] EXCEPT !.tick = "on"])
    /\ UNCHANGED orphans

TickFails(m, live) ==
    /\ meter[m].tick = "charge"
    /\ \E err \in Unpaid(live) :
          SetMeter(m, [meter[m] EXCEPT !.err = err, !.tick = "off"])
    /\ UNCHANGED <<orphans, billed, served>>

\* The loop ends with its context, or finds an error at its next tick.
TickEnds(m, live) ==
    /\ meter[m].tick = "on" /\ (~live \/ ~Allowed(m))
    /\ SetMeter(m, [meter[m] EXCEPT !.tick = "off"])
    /\ UNCHANGED <<orphans, billed, served>>

\* An orphan commits after all, or records its cancelled context.
OrphanEnds == \E o \in orphans :
    /\ orphans' = orphans \ {o}
    /\ \/ Pay(o[1], o[2]) /\ UNCHANGED meter
       \/ /\ SetMeter(o[1], [meter[o[1]] EXCEPT !.err = IF meter[o[1]].stopped THEN @ ELSE "cancelled"])
          /\ UNCHANGED <<billed, served>>

\* Deactivate and Stop cancel the loop's context.
Cut(m, r) ==
    /\ orphans' = orphans \cup (IF meter[m].tick = "charge"
                                  THEN {<<m, meter[m].idx - 1>>} ELSE {})
    /\ SetMeter(m, [r EXCEPT !.tick = "off"])
    /\ UNCHANGED <<billed, served>>

Deactivate(m) == Cut(m, meter[m])

\* Nothing else of a stopped meter is read again.
StopMeter(m) == Cut(m, [Fresh EXCEPT !.stopped = TRUE])

MeterTypeOK ==
    /\ meter \in [Meters -> [err : {"none", "refused", "cancelled"},
                             stopped : BOOLEAN, ever : BOOLEAN,
                             idx : Nat, tick : {"off", "on", "charge"}]]
    /\ orphans \subseteq Meters \X Nat
    /\ billed \subseteq Meters \X Nat /\ served \in Nat

\* Every increment the code took for paid has an event of its own: neither a
\* second activation nor a submission beside a run reuses a key.
EveryIncrementBilled == Cardinality(billed) = served
=============================================================================
