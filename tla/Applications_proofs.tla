-------------------------- MODULE Applications_proofs --------------------------
(***************************************************************************)
(* On LinkedIn, for any number of attempts, pasted addresses, failing      *)
(* statements and crashes: a second attempt presses submit only when every *)
(* earlier press was confirmed, and no attempt that pressed is forgotten.  *)
(* On either site, every attempt ends, and no posting drops out of all     *)
(* lists.                                                                  *)
(*                                                                         *)
(* The argument: an attempt without a row never clicks, and one with a row *)
(* is seen by every other's check until it is finished.  So of the         *)
(* attempts past the check at most one has a row, and it found every       *)
(* attempt that had pressed submit confirmed.  A confirmed attempt stays   *)
(* confirmed: its own path writes the same outcome, and no other writes    *)
(* its row.  And every result that a path can record holds a statement     *)
(* that ends its attempt, with only statements on the tables before it.    *)
(* The argument for the lists is given where it begins, below.             *)
(***************************************************************************)
EXTENDS Applications, FiniteSetTheorems, SequenceTheorems, TLAPS

\* What a result may run: statements on the tables, and the end of an attempt.
Plain == [op : {"applied", "preserve", "count", "unpend", "unpendLink", "unqueue"}, arg : {"none"}]
         \cup [op : {"skip", "failure"}, arg : Reasons]
         \cup [op : {"pend", "keep"}, arg : BOOLEAN]
Ends(outcomes) == [op : {"finish", "finishNoJob"}, arg : outcomes]

ApplyModes == {"search", "retry", "queue", "approve", "url"}
Processes == [pc : PCs, mode : Modes, id : Ids, att : 0..MaxAttempts,
              plan : Seq(Plain \cup Ends(Outcomes))]

\* From the beginning of an attempt to its click, past the check, and after.
Begun == {"open", "guard", "fast", "evaluate", "check", "entry", "mark", "click"}
PastCheck == {"entry", "mark", "click"}
Clicked == {"confirm", "reconfirm"}

\* The outcomes that admit a click.
Honest(pg) == {"submission_unknown"} \cup (IF pg = "applied" THEN {"submitted_confirmed"} ELSE {})

SoundDB(d) ==
    /\ {"attempts", "queue"} \subseteq DOMAIN d
    /\ DOMAIN d.attempts = Attempts
    /\ d.queue \in [Ids -> {"no", "apply", "evaluate"}]

\* A plan that ends an attempt of the log in one way, which admits its click.
EndsHonestly(plan, e, pg) ==
    \E outcome \in Honest(pg) :
        plan \in Seq(Plain \cup Ends({outcome})) /\ e.outcome \in {"in_progress", outcome}

\* What a goroutine is at, by the log of attempts, the clicks so far and the page.
Fits(r, rows, clicks, pg, n) ==
    /\ r.att <= n /\ r.mode # "top"
    /\ r.pc = "looked" => r.mode \in {"search", "retry"}
    /\ r.pc \in Begun \cup Clicked => r.att # 0 /\ r.mode \in ApplyModes
    /\ r.pc \in Begun => /\ r.att \notin clicks
                         /\ rows[r.att].row => rows[r.att].outcome = "in_progress"
    /\ r.pc = "click" => rows[r.att].row
    /\ r.pc \in Clicked => rows[r.att].outcome = "in_progress"
    /\ r.pc = "reconfirm" => r.mode = "url" /\ pg = "applied"
    /\ r.pc = "write" => r.plan # <<>>
    /\ r.pc = "write" /\ r.att \in clicks => EndsHonestly(r.plan, rows[r.att], pg)

Types ==
    /\ scenario \in Scenarios /\ SoundDB(db)
    /\ todo \subseteq Ids \X {"apply", "evaluate"}
    /\ proc \in [Procs -> Processes]
    /\ started \in 0..MaxAttempts /\ page \in {"open", "applied"} /\ clicked \subseteq 1..started

Armed(r, rows) == r.pc \in PastCheck /\ rows[r.att].row
AllConfirmed(rows, clicks) == \A a \in clicks : rows[a].outcome = "submitted_confirmed"

Goroutines ==
    /\ \A p \in Procs : Fits(proc[p], db.attempts, clicked, page, started)
    /\ \A p, q \in Procs : p # q /\ proc[p].att = proc[q].att => proc[p].att = 0
    /\ \A p, q \in Procs : Armed(proc[p], db.attempts) /\ Armed(proc[q], db.attempts) => p = q
    /\ \A p \in Procs : Armed(proc[p], db.attempts) => AllConfirmed(db.attempts, clicked)

Log ==
    /\ \A a \in Attempts : a > started => ~db.attempts[a].row
    /\ \A a \in clicked :
          /\ db.attempts[a].row
          /\ db.attempts[a].outcome \in {"in_progress", "submission_unknown", "submitted_confirmed"}
          /\ db.attempts[a].outcome = "submitted_confirmed" => page = "applied"

ApplyInv == Types /\ Goroutines /\ Log

-----------------------------------------------------------------------------
(* The statements that record a result. *)

LEMMA Tuples ==
    ASSUME NEW A
    PROVE  /\ <<>> \in Seq(A)
           /\ \A x \in A : <<x>> \in Seq(A)
           /\ \A x, y \in A : <<x, y>> \in Seq(A)
           /\ \A x, y, z \in A : <<x, y, z>> \in Seq(A)
           /\ \A x, y, z, u, v \in A : <<x, y, z, u, v>> \in Seq(A)
           /\ \A q, t \in Seq(A) : q \o t \in Seq(A)
  OBVIOUS

LEMMA SeqMonotone ==
    ASSUME NEW A, NEW B, A \subseteq B
    PROVE  Seq(A) \subseteq Seq(B)
  <1> SUFFICES ASSUME NEW q \in Seq(A)  PROVE q \in Seq(B)
    OBVIOUS
  <1>1. PICK n \in Nat : q \in [1..n -> A]
    BY SeqDef
  <1>2. q \in [1..n -> B]
    BY <1>1
  <1> QED BY <1>2, SeqDef

LEMMA FirstAndRest ==
    ASSUME NEW A, NEW q \in Seq(A), q # <<>>
    PROVE  Head(q) \in A /\ Tail(q) \in Seq(A)
  OBVIOUS

LEMMA PlainStatements ==
    /\ \A op \in {"applied", "preserve", "count", "unpend", "unpendLink", "unqueue"} : Do(op) \in Plain
    /\ \A why \in Reasons : Failure(why) \in Plain /\ Skip(why) \in Plain
    /\ \A easy \in BOOLEAN : Pend(easy) \in Plain /\ S("keep", easy) \in Plain
  BY DEF Do, S, Failure, Skip, Pend, Plain

LEMMA EndStatements ==
    ASSUME NEW O, NEW outcome \in O
    PROVE  F(outcome) \in Ends(O) /\ NoJob(outcome) \in Ends(O)
  BY DEF F, NoJob, S, Ends

Errors == {"error", "quota", "blocked", "review", "external", "drift", "unknown", "already", "ok", "notShown"}

\* The outcome that ends an attempt of LinkedIn's, by how the application went.
EndOf(r) ==
    CASE r \in {"unknown", "drift", "notShown"} -> "submission_unknown"
      [] r = "ok"                               -> "submitted_confirmed"
      [] OTHER                                  -> "other"

\* Every branch of every caller ends the attempt with the same outcome
\* (linkedInReviewOutcome, recordApplyFailure, finishAttempt).
LEMMA PlansEnd ==
    ASSUME LinkedIn, NEW p \in Procs, proc[p].mode \in ApplyModes,
           NEW r \in Errors, r = "notShown" => proc[p].mode = "url"
    PROVE  Plan(p, r) \in Seq(Plain \cup Ends({EndOf(r)}))
<1> DEFINE T == Plain \cup Ends({EndOf(r)})
<1>1. F(EndOf(r)) \in T
  BY EndStatements
<1>2. /\ Do("applied") \in T /\ Do("preserve") \in T /\ Do("count") \in T /\ Do("unpend") \in T
      /\ Do("unpendLink") \in T /\ Do("unqueue") \in T
      /\ Failure("unknown") \in T /\ Failure("retryable") \in T /\ Skip("retryable") \in T
      /\ Pend(FALSE) \in T /\ S("keep", TRUE) \in T /\ S("keep", FALSE) \in T
  BY PlainStatements DEF Reasons
<1>3. r \notin Unsure
  BY DEF Unsure, Errors
<1>4. /\ r \in {"unknown", "drift", "notShown"} => EndOf(r) = "submission_unknown"
      /\ r = "ok" => EndOf(r) = "submitted_confirmed"
      /\ r \notin {"unknown", "drift", "notShown", "ok"} => EndOf(r) = "other"
  BY DEF EndOf
<1>5. r # "notShown" => Ended(r) = F("other") /\ (r \notin {"ok"} => Settled(r) = F("other"))
  BY <1>3 DEF Ended, Settled
<1>6. r = "ok" => Settled(r) = F("submitted_confirmed")
  BY DEF Settled
<1> DEFINE fin == F(EndOf(r))
<1> SUFFICES Plan(p, r) \in Seq(T)
  OBVIOUS
<1> HIDE DEF T
<1>7. ASSUME r \in Reviewed
      PROVE  \A unqueue \in {<<>>, <<Do("unqueue")>>} : ReviewPlan(r, unqueue) \in Seq(T)
  <2> SUFFICES ASSUME NEW unqueue \in {<<>>, <<Do("unqueue")>>}
               PROVE  ReviewPlan(r, unqueue) \in Seq(T)
    OBVIOUS
  <2>1. unqueue \in Seq(T)
    BY <1>2, Tuples
  <2>2. \A x \in T : <<x>> \o unqueue \o <<fin>> \in Seq(T)
    BY <1>1, <2>1, Tuples
  <2>3. CASE r \in {"unknown", "drift"}
    <3>1. ReviewPlan(r, unqueue) = <<Failure("unknown")>> \o unqueue \o <<fin>>
      BY <1>4, <2>3 DEF ReviewPlan
    <3> QED BY <1>2, <2>2, <3>1
  <2>4. CASE r = "review"
    <3>1. ReviewPlan(r, unqueue) = <<Failure("retryable")>> \o unqueue \o <<fin>>
      BY <1>4, <2>4 DEF ReviewPlan
    <3> QED BY <1>2, <2>2, <3>1
  <2>5. CASE r = "external"
    <3>1. ReviewPlan(r, unqueue) = <<Do("preserve")>> \o unqueue \o <<fin>>
      BY <1>4, <2>5 DEF ReviewPlan
    <3> QED BY <1>2, <2>2, <3>1
  <2> QED BY <1>7, <2>3, <2>4, <2>5 DEF Reviewed
<1>71. /\ \A x \in T : <<x>> \in Seq(T)
       /\ \A x, y \in T : <<x, y>> \in Seq(T)
       /\ \A x, y, z \in T : <<x, y, z>> \in Seq(T)
       /\ \A x, y, z, u, v \in T : <<x, y, z, u, v>> \in Seq(T)
       /\ \A q, t \in Seq(T) : q \o t \in Seq(T)
  BY Tuples
<1>8. r \in {"unknown", "review", "external", "drift"} <=> r \in Reviewed
  BY DEF Reviewed
<1>9. CASE proc[p].mode \in {"search", "retry"}
  <2>1. r # "notShown"
    BY <1>9
  <2>2. Plan(p, r) = EasyApplyPlan(r)
    BY <1>9 DEF Plan
  <2>3. CASE r \in Reviewed
    <3>1. EasyApplyPlan(r) = ReviewPlan(r, <<>>)
      BY <2>3 DEF EasyApplyPlan, Reviewed
    <3> QED BY <1>7, <2>2, <2>3, <3>1
  <2>4. CASE r \in {"ok", "already"}
    <3>1. EasyApplyPlan(r) = <<Do("applied"), fin>>
      BY <1>4, <1>5, <1>6, <1>8, <2>4 DEF EasyApplyPlan
    <3> QED BY <1>1, <1>2, <2>2, <3>1, <1>71
  <2>5. CASE r = "blocked"
    <3>1. EasyApplyPlan(r) = <<Pend(FALSE), fin>>
      BY <1>4, <1>8, <2>5 DEF EasyApplyPlan
    <3>2. \A x \in T : <<x, fin>> \in Seq(T)
      BY <1>1, <1>71
    <3>3. Pend(FALSE) \in T
      BY <1>2
    <3> QED BY <2>2, <3>1, <3>2, <3>3, Zenon
  <2>6. CASE r \in {"error", "quota"}
    <3>1. EasyApplyPlan(r) = <<Skip("retryable"), fin>>
      BY <1>4, <1>8, <2>6 DEF EasyApplyPlan
    <3> QED BY <1>1, <1>2, <2>2, <3>1, <1>71
  <2> QED BY <1>8, <2>1, <2>3, <2>4, <2>5, <2>6 DEF Errors
<1>10. CASE proc[p].mode = "queue"
  <2>1. r # "notShown"
    BY <1>10
  <2>2. Plan(p, r) = QueuePlan(r)
    BY <1>10 DEF Plan
  <2>3. <<Do("unqueue")>> \in Seq(T) /\ <<fin>> \in Seq(T)
    BY <1>1, <1>2, <1>71
  <2>4. CASE r \in Reviewed \ {"drift"}
    <3>1. QueuePlan(r) = ReviewPlan(r, <<Do("unqueue")>>)
      BY <2>4 DEF QueuePlan, Reviewed
    <3> QED BY <1>7, <2>2, <2>4, <3>1
  <2>5. CASE r = "drift"
    <3>1. QueuePlan(r) = <<Do("unqueue")>> \o <<Failure("unknown"), fin>>
      BY <1>4, <2>5 DEF QueuePlan
    <3>2. <<Failure("unknown"), fin>> \in Seq(T)
      BY <1>1, <1>2, <1>71
    <3> QED BY <2>2, <2>3, <3>1, <3>2, <1>71
  <2>6. CASE r = "already"
    <3>1. QueuePlan(r) = <<Do("unqueue")>> \o <<fin>>
      BY <1>4, <1>5, <1>8, <2>6 DEF QueuePlan
    <3> QED BY <2>2, <2>3, <3>1, <1>71
  <2>7. CASE r = "ok"
    <3>1. QueuePlan(r) = <<Do("applied")>> \o <<Do("unqueue")>> \o <<fin>>
      BY <1>4, <1>6, <1>8, <2>7 DEF QueuePlan
    <3>2. <<Do("applied")>> \in Seq(T)
      BY <1>2, <1>71
    <3>3. <<Do("applied")>> \o <<Do("unqueue")>> \in Seq(T)
      BY <2>3, <3>2, <1>71
    <3> QED BY <2>2, <2>3, <3>1, <3>3, <1>71
  <2>8. CASE r \in {"error", "quota", "blocked"}
    <3>1. QueuePlan(r) = <<Skip("retryable")>> \o <<Do("unqueue")>> \o <<fin>>
      BY <1>4, <1>5, <1>8, <2>8 DEF QueuePlan
    <3>2. <<Skip("retryable")>> \in Seq(T)
      BY <1>2, <1>71
    <3>3. <<Skip("retryable")>> \o <<Do("unqueue")>> \in Seq(T)
      BY <2>3, <3>2, <1>71
    <3> QED BY <2>2, <2>3, <3>1, <3>3, <1>71
  <2> QED BY <1>8, <2>1, <2>4, <2>5, <2>6, <2>7, <2>8 DEF Errors
<1>11. CASE proc[p].mode = "approve"
  <2>1. r # "notShown"
    BY <1>11
  <2>2. Plan(p, r) = ApprovePlan(r)
    BY <1>11 DEF Plan
  <2>3. CASE r \in Reviewed
    <3>1. ApprovePlan(r) = ReviewPlan(r, <<Do("unqueue")>>)
      BY <2>3 DEF ApprovePlan, Reviewed, TopMatchTexts
    <3> QED BY <1>7, <2>2, <2>3, <3>1
  <2>4. CASE r \in {"ok", "already"}
    <3>1. ApprovePlan(r) = <<Do("applied"), Do("unpendLink"), Do("unqueue"), fin, Do("unpend")>>
      BY <1>4, <1>5, <1>6, <1>8, <2>4 DEF ApprovePlan, TopMatchTexts
    <3> QED BY <1>1, <1>2, <2>2, <3>1, <1>71
  <2>5. CASE r = "quota"
    <3>1. ApprovePlan(r) = <<fin>>
      BY <1>4, <1>8, <2>5 DEF ApprovePlan, TopMatchTexts
    <3> QED BY <1>1, <2>2, <3>1, <1>71
  <2>6. CASE r = "blocked"
    <3>1. ApprovePlan(r) = <<S("keep", TRUE), Do("count"), fin>>
      BY <1>4, <1>8, <2>6 DEF ApprovePlan, TopMatchTexts
    <3>2. \A x \in T : <<x, Do("count"), fin>> \in Seq(T)
      BY <1>1, <1>2, <1>71
    <3>3. S("keep", TRUE) \in T
      BY <1>2
    <3> QED BY <2>2, <3>1, <3>2, <3>3, Zenon
  <2>7. CASE r = "error"
    <3>1. ApprovePlan(r) = <<Skip("retryable"), Do("count"), fin>>
      BY <1>4, <1>5, <1>8, <2>7 DEF ApprovePlan, TopMatchTexts
    <3> QED BY <1>1, <1>2, <2>2, <3>1, <1>71
  <2> QED BY <1>8, <2>1, <2>3, <2>4, <2>5, <2>6, <2>7 DEF Errors
<1>12. CASE proc[p].mode = "url"
  <2>1. Plan(p, r) = UrlPlan(r)
    BY <1>12 DEF Plan
  <2>2. <<fin>> \in Seq(T) /\ <<>> \in Seq(T)
    BY <1>1, Tuples
  <2>3. CASE r \in Reviewed
    <3>1. UrlPlan(r) = ReviewPlan(r, <<>>)
      BY <2>3 DEF UrlPlan, Reviewed, TopMatchTexts
    <3> QED BY <1>7, <2>1, <2>3, <3>1
  <2>4. CASE r \in {"ok", "already"}
    <3>1. UrlPlan(r) = <<Do("applied"), Do("unpendLink"), fin>>
      BY <1>4, <1>5, <1>6, <1>8, <2>4 DEF UrlPlan, TopMatchTexts
    <3> QED BY <1>1, <1>2, <2>1, <3>1, <1>71
  <2>5. CASE r \in {"quota", "notShown"}
    <3>1. UrlPlan(r) = <<fin>>
      BY <1>4, <1>8, <2>5 DEF UrlPlan, TopMatchTexts
    <3> QED BY <2>1, <2>2, <3>1
  <2>6. CASE r = "blocked"
    <3>1. UrlPlan(r) \in {<<>> \o <<fin>>, <<S("keep", FALSE)>> \o <<fin>>}
      BY <1>4, <1>8, <2>6 DEF UrlPlan, TopMatchTexts
    <3>2. S("keep", FALSE) \in T /\ \A x \in T : <<x>> \in Seq(T)
      BY <1>2, <1>71
    <3>3. <<S("keep", FALSE)>> \in Seq(T)
      BY <3>2, Zenon
    <3> QED BY <2>1, <2>2, <3>1, <3>3, <1>71
  <2>7. CASE r = "error"
    <3>1. UrlPlan(r) \in {<<>> \o <<fin>>, <<Skip("retryable")>> \o <<fin>>}
      BY <1>4, <1>5, <1>8, <2>7 DEF UrlPlan, TopMatchTexts
    <3>2. <<Skip("retryable")>> \in Seq(T)
      BY <1>2, <1>71
    <3> QED BY <2>1, <2>2, <3>1, <3>2, <1>71
  <2> QED BY <1>8, <2>3, <2>4, <2>5, <2>6, <2>7 DEF Errors
<1> QED BY <1>9, <1>10, <1>11, <1>12 DEF ApplyModes

-----------------------------------------------------------------------------
(* The tables. *)

\* Every statement keeps the tables in shape; a finish statement writes the row of
\* its own attempt and every other statement leaves the log of attempts alone.
LEMMA Statements ==
    ASSUME SoundDB(db), NEW p \in Procs, proc[p] \in Processes,
           NEW s \in Plain \cup Ends(Outcomes)
    PROVE  /\ SoundDB(Run(db, p, s))
           /\ s \in Plain => Run(db, p, s).attempts = db.attempts
           /\ \A a \in Attempts : a # proc[p].att => Run(db, p, s).attempts[a] = db.attempts[a]
           /\ s \notin Plain /\ proc[p].att # 0 =>
                 /\ Run(db, p, s).attempts[proc[p].att].row
                 /\ Run(db, p, s).attempts[proc[p].att].outcome = s.arg
<1> DEFINE d2 == Run(db, p, s)
<1> USE DEF SoundDB
<1>1. proc[p].id \in Ids /\ proc[p].att \in 0..MaxAttempts
  BY DEF Processes
<1>2. CASE s.op = "applied"
  <2>1. d2 = RecordApplied(db, proc[p].id)
    BY <1>2 DEF Run
  <2> QED BY <1>2, <2>1 DEF RecordApplied, Ends
<1>3. CASE s.op = "skip"
  <2>1. d2 = RecordSkipped(db, proc[p].id, s.arg)
    BY <1>3 DEF Run
  <2> QED BY <1>3, <2>1 DEF RecordSkipped, Ends
<1>4. CASE s.op = "failure"
  <2>1. d2 = RecordListingFailure(db, proc[p].id, s.arg)
    BY <1>4 DEF Run
  <2> QED BY <1>4, <2>1 DEF RecordListingFailure, Ends
<1>5. CASE s.op = "pend"
  <2>1. d2 = SavePendingReview(db, proc[p].id, s.arg)
    BY <1>5 DEF Run
  <2> QED BY <1>5, <2>1 DEF SavePendingReview, Ends
<1>6. CASE s.op = "preserve"
  <2>1. d2 = PreserveReview(db, proc[p].id)
    BY <1>6 DEF Run
  <2> QED BY <1>6, <2>1 DEF PreserveReview, Ends
<1>7. CASE s.op = "keep"
  <2>1. d2 = KeepInReview(db, proc[p].id, s.arg)
    BY <1>7 DEF Run
  <2> QED BY <1>7, <2>1 DEF KeepInReview, SavePendingReview, Ends
<1>8. CASE s.op = "count"
  <2>1. d2 = CountTry(db, proc[p].id)
    BY <1>8 DEF Run
  <2> QED BY <1>8, <2>1 DEF CountTry, Ends
<1>9. CASE s.op = "unpend"
  <2>1. d2 = RemoveReview(db, proc[p].id)
    BY <1>9 DEF Run
  <2> QED BY <1>9, <2>1 DEF RemoveReview, Ends
<1>10. CASE s.op = "unpendLink"
  <2>1. PICK link : d2 = RemoveByLink(db, link)
    BY <1>10 DEF Run
  <2> QED BY <1>10, <2>1 DEF RemoveByLink, Ends
<1>11. CASE s.op = "unqueue"
  <2>1. d2 = RemoveFromQueue(db, proc[p].id)
    BY <1>11 DEF Run
  <2> QED BY <1>1, <1>11, <2>1 DEF RemoveFromQueue, Ends
<1>12. CASE s.op \in {"finish", "finishNoJob"}
  <2>1. \E job, link : d2 = FinishAttempt(db, proc[p].att, job, link, s.arg)
    BY <1>12 DEF Run
  <2>2. PICK job, link : d2 = FinishAttempt(db, proc[p].att, job, link, s.arg)
    BY <2>1
  <2>3. s \notin Plain
    BY <1>12 DEF Plain
  <2>4. d2.attempts = [db.attempts EXCEPT ![proc[p].att] =
                          [row |-> TRUE, job |-> job, link |-> link, outcome |-> s.arg]]
    BY <2>2 DEF FinishAttempt
  <2>5. SoundDB(d2)
    BY <2>2 DEF FinishAttempt
  <2>6. proc[p].att # 0 => proc[p].att \in Attempts
    BY <1>1, MaxAttemptsAssumption DEF Attempts
  <2> QED BY <2>3, <2>4, <2>5, <2>6
<1>13. s.op \in {"applied", "preserve", "count", "unpend", "unpendLink", "unqueue", "skip", "failure",
                 "pend", "keep", "finish", "finishNoJob"}
  BY DEF Plain, Ends
<1> QED BY <1>2, <1>3, <1>4, <1>5, <1>6, <1>7, <1>8, <1>9, <1>10, <1>11, <1>12, <1>13

\* beginAttempt writes the row of its own attempt.
LEMMA Beginnings ==
    ASSUME SoundDB(db), NEW a \in Attempts, NEW job, NEW link
    PROVE  /\ SoundDB(BeginAttempt(db, a, job, link))
           /\ \A b \in Attempts : b # a => BeginAttempt(db, a, job, link).attempts[b] = db.attempts[b]
           /\ BeginAttempt(db, a, job, link).attempts[a].outcome = "in_progress"
<1> USE DEF SoundDB, BeginAttempt
<1>1. BeginAttempt(db, a, job, link).attempts =
        [db.attempts EXCEPT ![a] = [row |-> TRUE, job |-> job, link |-> link, outcome |-> "in_progress"]]
  OBVIOUS
<1>2. SoundDB(BeginAttempt(db, a, job, link))
  OBVIOUS
<1> QED BY <1>1, <1>2

\* What the user's handlers do to the tables leaves the log of attempts alone.
LEMMA OtherStatements ==
    ASSUME SoundDB(db), NEW id \in Ids
    PROVE  \A d2 \in {RecordSkipped(RemoveReview(db, id), id, "rejected"), RemoveReview(db, id),
                      RemoveReview(RecordApplied(db, id), id), ConsumeRetry(db, id),
                      [RecordApplied(db, id) EXCEPT !.skipped[id] = "no"],
                      [db EXCEPT !.queue[id] = "evaluate", !.skipped[id] = "no"],
                      [db EXCEPT !.applied = @ \ {id}], [db EXCEPT !.skipped[id] = "no"]} :
               SoundDB(d2) /\ d2.attempts = db.attempts
<1> USE DEF SoundDB
<1>1. LET d2 == RemoveReview(db, id) IN SoundDB(d2) /\ d2.attempts = db.attempts /\ DOMAIN d2 = DOMAIN db
  BY DEF RemoveReview
<1>2. LET d2 == RecordApplied(db, id) IN SoundDB(d2) /\ d2.attempts = db.attempts /\ DOMAIN d2 = DOMAIN db
  BY DEF RecordApplied
<1>3. LET d2 == RecordSkipped(RemoveReview(db, id), id, "rejected") IN SoundDB(d2) /\ d2.attempts = db.attempts
  BY <1>1 DEF RecordSkipped
<1>4. LET d2 == RemoveReview(RecordApplied(db, id), id) IN SoundDB(d2) /\ d2.attempts = db.attempts
  BY <1>2 DEF RemoveReview
<1>5. LET d2 == ConsumeRetry(db, id) IN SoundDB(d2) /\ d2.attempts = db.attempts
  BY DEF ConsumeRetry, RemoveFromQueue
<1>6. LET d2 == [RecordApplied(db, id) EXCEPT !.skipped[id] = "no"] IN SoundDB(d2) /\ d2.attempts = db.attempts
  BY <1>2
<1>7. LET d2 == [db EXCEPT !.queue[id] = "evaluate", !.skipped[id] = "no"]
      IN SoundDB(d2) /\ d2.attempts = db.attempts
  OBVIOUS
<1>8. LET d2 == [db EXCEPT !.applied = @ \ {id}] IN SoundDB(d2) /\ d2.attempts = db.attempts
  OBVIOUS
<1>9. LET d2 == [db EXCEPT !.skipped[id] = "no"] IN SoundDB(d2) /\ d2.attempts = db.attempts
  OBVIOUS
<1> QED BY <1>1, <1>3, <1>4, <1>5, <1>6, <1>7, <1>8, <1>9

-----------------------------------------------------------------------------
(* Steps of one goroutine. *)

LEMMA StaysHonest ==
    \A plan, e, pg, pg2 :
        EndsHonestly(plan, e, pg) /\ pg \in {"open", "applied"} /\ pg2 \in {pg, "applied"}
        => EndsHonestly(plan, e, pg2)
<1> SUFFICES ASSUME NEW plan, NEW e, NEW pg \in {"open", "applied"}, NEW pg2 \in {pg, "applied"},
                    EndsHonestly(plan, e, pg)
             PROVE  EndsHonestly(plan, e, pg2)
  OBVIOUS
<1>1. Honest(pg) \subseteq Honest(pg2)
  BY DEF Honest
<1> QED BY <1>1 DEF EndsHonestly

\* A goroutine is not disturbed by what leaves its own attempt's row alone.
LEMMA FitsStays ==
    \A r, rows, rows2, clicks, pg, pg2, n, n2 :
        /\ Fits(r, rows, clicks, pg, n)
        /\ r.att # 0 => rows2[r.att] = rows[r.att]
        /\ pg \in {"open", "applied"} /\ pg2 \in {pg, "applied"} /\ 0 \notin clicks
        /\ n \in Nat /\ n2 \in Nat /\ n <= n2 /\ r.att \in Nat
        => Fits(r, rows2, clicks, pg2, n2)
<1> SUFFICES ASSUME NEW r, NEW rows, NEW rows2, NEW clicks, NEW pg \in {"open", "applied"},
                    NEW pg2 \in {pg, "applied"}, 0 \notin clicks,
                    NEW n \in Nat, NEW n2 \in Nat, n <= n2, r.att \in Nat,
                    Fits(r, rows, clicks, pg, n),
                    r.att # 0 => rows2[r.att] = rows[r.att]
             PROVE  Fits(r, rows2, clicks, pg2, n2)
  OBVIOUS
<1>3. r.pc = "write" /\ r.att \in clicks => EndsHonestly(r.plan, rows2[r.att], pg2)
  BY StaysHonest DEF Fits
<1>4. r.pc \in Begun \cup Clicked => r.att # 0 /\ r.mode \in ApplyModes
  BY DEF Fits
<1>5. /\ r.pc \in Begun => r.att \notin clicks /\ (rows2[r.att].row => rows2[r.att].outcome = "in_progress")
      /\ r.pc \in Clicked => rows2[r.att].outcome = "in_progress"
  BY <1>4 DEF Fits
<1>6. /\ r.pc = "click" => rows2[r.att].row
      /\ r.pc = "reconfirm" => r.mode = "url" /\ pg2 = "applied"
  BY <1>4 DEF Fits, Begun
<1>7. /\ r.att <= n2 /\ r.mode # "top" /\ (r.pc = "looked" => r.mode \in {"search", "retry"})
      /\ r.pc = "write" => r.plan # <<>>
  BY DEF Fits
<1> QED BY <1>3, <1>4, <1>5, <1>6, <1>7 DEF Fits

LEMMA ArmedStays ==
    ASSUME NEW r, NEW rows, NEW rows2, r.pc \in Begun => r.att # 0,
           r.att # 0 => rows2[r.att] = rows[r.att]
    PROVE  Armed(r, rows2) => Armed(r, rows)
  BY DEF Armed, PastCheck, Begun

\* A step of p that touches no row of another goroutine's attempt, presses nothing
\* and leaves p fit, and past the check with a row only if no other one is.
LEMMA Moves ==
    ASSUME ApplyInv, LinkedIn, NEW p \in Procs, NEW r2 \in Processes,
           proc' = [proc EXCEPT ![p] = r2], scenario' = scenario, SoundDB(db'),
           todo' \subseteq Ids \X {"apply", "evaluate"}, clicked' = clicked, page' \in {page, "applied"},
           started' \in started..MaxAttempts,
           \A q \in Procs : q # p /\ proc[q].att # 0 =>
               r2.att # proc[q].att /\ db'.attempts[proc[q].att] = db.attempts[proc[q].att],
           Fits(r2, db'.attempts, clicked, page', started'),
           Armed(r2, db'.attempts) => AllConfirmed(db'.attempts, clicked)
                                      /\ \A q \in Procs : q # p => ~Armed(proc[q], db.attempts),
           \A a \in clicked : db.attempts[a].outcome = "submitted_confirmed"
                                 => db'.attempts[a].outcome = "submitted_confirmed",
           Log'
    PROVE  ApplyInv'
<1>1. /\ proc \in [Procs -> Processes] /\ started \in Nat /\ started' \in Nat /\ started <= started'
      /\ page \in {"open", "applied"} /\ clicked \subseteq 1..started /\ scenario \in Scenarios
      /\ MaxAttempts \in Nat /\ 0 \notin clicked
  BY MaxAttemptsAssumption DEF ApplyInv, Types
<1>2. Types'
  <2>1. clicked' \subseteq 1..started'
    BY <1>1
  <2>2. proc' \in [Procs -> Processes]
    BY <1>1
  <2>3. page' \in {"open", "applied"} /\ started' \in 0..MaxAttempts /\ scenario' \in Scenarios
    BY <1>1
  <2> QED BY <2>1, <2>2, <2>3 DEF Types
<1>3. ASSUME NEW q \in Procs, q # p
      PROVE  /\ proc'[q] = proc[q]
             /\ Fits(proc'[q], db'.attempts, clicked', page', started')
             /\ Armed(proc'[q], db'.attempts) => Armed(proc[q], db.attempts)
  <2>1. proc'[q] = proc[q]
    BY <1>1, <1>3
  <2>2. Fits(proc[q], db.attempts, clicked, page, started) /\ proc[q].att \in Nat
    BY <1>1 DEF ApplyInv, Goroutines, Processes
  <2>3. proc[q].att # 0 => db'.attempts[proc[q].att] = db.attempts[proc[q].att]
    BY <1>3
  <2>4. Fits(proc[q], db'.attempts, clicked, page', started')
    <3> DEFINE r == proc[q]
    <3> DEFINE rows == db.attempts
    <3> DEFINE rows2 == db'.attempts
    <3> DEFINE pg2 == page'
    <3> DEFINE n2 == started'
    <3>1. /\ page \in {"open", "applied"} /\ pg2 \in {page, "applied"} /\ started \in Nat /\ n2 \in Nat /\ started <= n2
          /\ r.att \in Nat /\ Fits(r, rows, clicked, page, started) /\ (r.att # 0 => rows2[r.att] = rows[r.att])
          /\ 0 \notin clicked
      BY <1>1, <2>2, <2>3
    <3> SUFFICES Fits(r, rows2, clicked, pg2, n2)
      OBVIOUS
    <3> HIDE DEF r, rows, rows2, pg2, n2
    <3> QED BY <3>1, FitsStays
  <2>5. proc[q].pc \in Begun => proc[q].att # 0
    BY <2>2 DEF Fits
  <2>6. Armed(proc[q], db'.attempts) => Armed(proc[q], db.attempts)
    BY <2>3, <2>5, ArmedStays
  <2> QED BY <2>1, <2>4, <2>6
<1>4. proc'[p] = r2
  BY <1>1
<1>5. \A q \in Procs : Fits(proc'[q], db'.attempts, clicked', page', started')
  BY <1>3, <1>4
<1>6. ASSUME NEW q \in Procs, NEW t \in Procs, q # t, proc'[q].att = proc'[t].att
      PROVE  proc'[q].att = 0
  <2>1. CASE q = p
    BY <1>3, <1>4, <1>6, <2>1
  <2>2. CASE t = p
    BY <1>3, <1>4, <1>6, <2>2
  <2>3. CASE q # p /\ t # p
    BY <1>3, <1>6, <2>3 DEF ApplyInv, Goroutines
  <2> QED BY <2>1, <2>2, <2>3
<1>7. ASSUME NEW q \in Procs, NEW t \in Procs, Armed(proc'[q], db'.attempts), Armed(proc'[t], db'.attempts)
      PROVE  q = t
  <2>1. CASE q = p
    BY <1>3, <1>4, <1>7, <2>1
  <2>2. CASE t = p
    BY <1>3, <1>4, <1>7, <2>2
  <2>3. CASE q # p /\ t # p
    BY <1>3, <1>7, <2>3 DEF ApplyInv, Goroutines
  <2> QED BY <2>1, <2>2, <2>3
<1>8. \A q \in Procs : Armed(proc'[q], db'.attempts) => AllConfirmed(db'.attempts, clicked')
  BY <1>3, <1>4 DEF ApplyInv, Goroutines, AllConfirmed
<1>9. Goroutines'
  BY <1>5, <1>6, <1>7, <1>8 DEF Goroutines
<1> QED BY <1>2, <1>9 DEF ApplyInv

\* A step that touches no attempt's row and presses nothing.
Quiet ==
    /\ scenario' = scenario /\ SoundDB(db') /\ db'.attempts = db.attempts
    /\ todo' \subseteq Ids \X {"apply", "evaluate"}
    /\ clicked' = clicked /\ started' = started /\ page' \in {page, "applied"}

LEMMA StillIsQuiet ==
    ASSUME ApplyInv, UNCHANGED <<Still, clicked>>, page' \in {page, "applied"}
    PROVE  Quiet
  BY DEF Still, env, Quiet, ApplyInv, Types, SoundDB

LEMMA Rests ==
    ASSUME ApplyInv, LinkedIn, NEW p \in Procs, NEW r2 \in Processes,
           proc' = [proc EXCEPT ![p] = r2], Quiet, r2.att \in {0, proc[p].att},
           Fits(r2, db.attempts, clicked, page', started),
           Armed(r2, db.attempts) =>
               \/ Armed(proc[p], db.attempts)
               \/ /\ AllConfirmed(db.attempts, clicked)
                  /\ \A q \in Procs : q # p => ~Armed(proc[q], db.attempts)
    PROVE  ApplyInv'
<1>1. started \in 0..MaxAttempts /\ MaxAttempts \in Nat
  BY MaxAttemptsAssumption DEF ApplyInv, Types
<1>2. started' \in started..MaxAttempts /\ started' = started
  BY <1>1 DEF Quiet
<1>3. \A q \in Procs : q # p /\ proc[q].att # 0 =>
         r2.att # proc[q].att /\ db'.attempts[proc[q].att] = db.attempts[proc[q].att]
  BY DEF Quiet, ApplyInv, Goroutines
<1>4. Fits(r2, db'.attempts, clicked, page', started')
  BY <1>2 DEF Quiet
<1>5. Armed(r2, db'.attempts) => AllConfirmed(db'.attempts, clicked)
                                 /\ \A q \in Procs : q # p => ~Armed(proc[q], db.attempts)
  BY DEF Quiet, ApplyInv, Goroutines
<1>6. Log'
  <2>1. \A a \in Attempts : a > started' => ~db'.attempts[a].row
    BY <1>2 DEF Quiet, ApplyInv, Log
  <2>2. \A a \in clicked' :
          /\ db'.attempts[a].row
          /\ db'.attempts[a].outcome \in {"in_progress", "submission_unknown", "submitted_confirmed"}
          /\ db'.attempts[a].outcome = "submitted_confirmed" => page' = "applied"
    BY DEF Quiet, ApplyInv, Log
  <2> QED BY <2>1, <2>2 DEF Log
<1>7. /\ \A a \in clicked : db.attempts[a].outcome = "submitted_confirmed"
                              => db'.attempts[a].outcome = "submitted_confirmed"
      /\ scenario' = scenario /\ SoundDB(db') /\ todo' \subseteq Ids \X {"apply", "evaluate"}
      /\ clicked' = clicked /\ page' \in {page, "applied"}
  BY DEF Quiet
<1> QED BY <1>2, <1>3, <1>4, <1>5, <1>6, <1>7, Moves

\* The goroutine of p, as the invariant has it.
LEMMA AtWorkFits ==
    ASSUME ApplyInv, NEW p \in Procs
    PROVE  /\ proc[p] \in Processes /\ Fits(proc[p], db.attempts, clicked, page, started)
           /\ proc \in [Procs -> Processes] /\ page \in {"open", "applied"}
           /\ started \in Nat /\ proc[p].att \in Nat /\ MaxAttempts \in Nat /\ 0 \notin clicked
<1>1. /\ proc \in [Procs -> Processes] /\ page \in {"open", "applied"}
      /\ started \in Nat /\ MaxAttempts \in Nat /\ 0 \notin clicked
  BY MaxAttemptsAssumption DEF ApplyInv, Types
<1>2. proc[p] \in Processes
  BY <1>1
<1>3. proc[p].att \in Nat
  BY <1>1, <1>2 DEF Processes
<1>4. Fits(proc[p], db.attempts, clicked, page, started)
  BY DEF ApplyInv, Goroutines
<1> QED BY <1>1, <1>2, <1>3, <1>4

\* One field of a goroutine changes.
LEMMA NewPc ==
    \A r \in Processes, x \in PCs : LET u == [r EXCEPT !.pc = x] IN
        u \in Processes /\ u.pc = x /\ u.mode = r.mode /\ u.id = r.id /\ u.att = r.att /\ u.plan = r.plan
  BY DEF Processes

LEMMA NewId ==
    \A r \in Processes, x \in Ids : LET u == [r EXCEPT !.id = x] IN
        u \in Processes /\ u.pc = r.pc /\ u.mode = r.mode /\ u.id = x /\ u.att = r.att /\ u.plan = r.plan
  BY DEF Processes

LEMMA NewAtt ==
    \A r \in Processes, x \in 0..MaxAttempts : LET u == [r EXCEPT !.att = x] IN
        u \in Processes /\ u.pc = r.pc /\ u.mode = r.mode /\ u.id = r.id /\ u.att = x /\ u.plan = r.plan
  BY DEF Processes

LEMMA NewPlan ==
    \A r \in Processes, x \in Seq(Plain \cup Ends(Outcomes)) : LET u == [r EXCEPT !.plan = x] IN
        u \in Processes /\ u.pc = r.pc /\ u.mode = r.mode /\ u.id = r.id /\ u.att = r.att /\ u.plan = x
  BY DEF Processes

LEMMA IdleIsIdle ==
    Idle \in Processes /\ Idle.att = 0 /\ Idle.pc = "idle" /\ Idle.mode = "none"
  <1>1. <<>> \in Seq(Plain \cup Ends(Outcomes)) /\ MaxAttempts \in Nat
    BY MaxAttemptsAssumption
  <1> QED BY <1>1 DEF Idle, Processes, PCs, Modes, Ids, Site

LEMMA Returns ==
    ASSUME ApplyInv, NEW p \in Procs
    PROVE  /\ Returned(p) \in Processes /\ Returned(p).att = 0
           /\ Returned(p).pc \in {"idle", "done", "next"} /\ Returned(p).mode # "top"
<1>1. proc[p] \in Processes /\ proc[p].mode # "top" /\ MaxAttempts \in Nat
  BY AtWorkFits DEF Fits
<1>2. <<>> \in Seq(Plain \cup Ends(Outcomes)) /\ Site \in Ids /\ 0 \in 0..MaxAttempts
      /\ {"done", "next"} \subseteq PCs
  BY <1>1 DEF Site, Ids, PCs
<1> DEFINE a == [proc[p] EXCEPT !.pc = "done"]
<1> DEFINE b == [a EXCEPT !.att = 0]
<1> DEFINE c == [b EXCEPT !.plan = <<>>]
<1>3. c \in Processes /\ c.att = 0 /\ c.pc = "done" /\ c.mode = proc[p].mode
  <2>1. a \in Processes /\ a.pc = "done" /\ a.mode = proc[p].mode
    BY <1>1, <1>2, NewPc
  <2> HIDE DEF a
  <2>2. b \in Processes /\ b.att = 0 /\ b.pc = "done" /\ b.mode = proc[p].mode
    BY <1>2, <2>1, NewAtt
  <2> HIDE DEF b
  <2> QED BY <1>2, <2>2, NewPlan
<1> DEFINE d == [proc[p] EXCEPT !.pc = "next"]
<1> DEFINE e == [d EXCEPT !.id = Site]
<1> DEFINE f == [e EXCEPT !.att = 0]
<1> DEFINE g == [f EXCEPT !.plan = <<>>]
<1>4. g \in Processes /\ g.att = 0 /\ g.pc = "next" /\ g.mode = proc[p].mode
  <2>1. d \in Processes /\ d.pc = "next" /\ d.mode = proc[p].mode
    BY <1>1, <1>2, NewPc
  <2> HIDE DEF d
  <2>2. e \in Processes /\ e.pc = "next" /\ e.mode = proc[p].mode
    BY <1>2, <2>1, NewId
  <2> HIDE DEF e
  <2>3. f \in Processes /\ f.att = 0 /\ f.pc = "next" /\ f.mode = proc[p].mode
    BY <1>2, <2>2, NewAtt
  <2> HIDE DEF f
  <2> QED BY <1>2, <2>3, NewPlan
<1>5. Returned(p) \in {Idle, c, g}
  BY DEF Returned
<1> HIDE DEF c, g
<1> QED BY <1>1, <1>3, <1>4, <1>5, IdleIsIdle

\* The result of p's work is recorded by a plan that admits a click, if there was one.
LEMMA Records ==
    ASSUME ApplyInv, LinkedIn, NEW p \in Procs, Quiet,
           NEW plan \in Seq(Plain \cup Ends(Outcomes)), Result(p, plan),
           proc[p].att \in clicked => EndsHonestly(plan, db.attempts[proc[p].att], page')
    PROVE  ApplyInv'
<1>1. /\ proc[p] \in Processes /\ proc[p].mode # "top" /\ proc[p].att <= started
      /\ started \in Nat /\ clicked \subseteq Nat \ {0}
  BY AtWorkFits DEF Fits, ApplyInv, Types
<1>2. CASE plan = <<>>
  <2> DEFINE r2 == Returned(p)
  <2>1. r2 \in Processes /\ r2.att = 0 /\ r2.pc \in {"idle", "done", "next"} /\ r2.mode # "top"
    BY Returns
  <2>2. proc' = [proc EXCEPT ![p] = r2]
    BY <1>2 DEF Result
  <2> HIDE DEF r2
  <2>3. Fits(r2, db.attempts, clicked, page', started) /\ ~Armed(r2, db.attempts)
    BY <1>1, <2>1 DEF Fits, Armed, PastCheck, Begun, Clicked
  <2> QED BY <2>1, <2>2, <2>3, Rests
<1>3. CASE plan # <<>>
  <2> DEFINE r2 == [proc[p] EXCEPT !.pc = "write", !.plan = plan]
  <2>1. r2 \in Processes /\ r2.att = proc[p].att /\ r2.pc = "write" /\ r2.mode = proc[p].mode /\ r2.plan = plan
    BY <1>1 DEF Processes, PCs
  <2>2. proc' = [proc EXCEPT ![p] = r2]
    BY <1>3 DEF Result
  <2> HIDE DEF r2
  <2>3. Fits(r2, db.attempts, clicked, page', started) /\ ~Armed(r2, db.attempts)
    BY <1>1, <1>3, <2>1 DEF Fits, Armed, PastCheck, Begun, Clicked
  <2> QED BY <2>1, <2>2, <2>3, Rests
<1> QED BY <1>2, <1>3

\* p goes on to pc2 with its attempt.
LEMMA Goes ==
    ASSUME ApplyInv, LinkedIn, NEW p \in Procs, NEW pc2 \in PCs, Quiet, Goto(p, pc2),
           \A r2 \in Processes :
               r2.pc = pc2 /\ r2.mode = proc[p].mode /\ r2.id = proc[p].id /\ r2.att = proc[p].att
               => /\ Fits(r2, db.attempts, clicked, page', started)
                  /\ Armed(r2, db.attempts) =>
                        \/ Armed(proc[p], db.attempts)
                        \/ /\ AllConfirmed(db.attempts, clicked)
                           /\ \A q \in Procs : q # p => ~Armed(proc[q], db.attempts)
    PROVE  ApplyInv'
<1> DEFINE r2 == [proc[p] EXCEPT !.pc = pc2]
<1>1. proc[p] \in Processes
  BY AtWorkFits
<1>2. r2 \in Processes /\ r2.pc = pc2 /\ r2.mode = proc[p].mode /\ r2.id = proc[p].id /\ r2.att = proc[p].att
  BY <1>1 DEF Processes
<1>3. proc' = [proc EXCEPT ![p] = r2]
  BY DEF Goto
<1> HIDE DEF r2
<1> QED BY <1>2, <1>3, Rests

LEMMA Unmoved ==
    ASSUME ApplyInv, LinkedIn, Quiet, proc' = proc
    PROVE  ApplyInv'
<1> DEFINE r2 == proc["bot"]
<1>1. "bot" \in Procs
  BY DEF Procs
<1>2. /\ r2 \in Processes /\ Fits(r2, db.attempts, clicked, page, started) /\ r2.att \in Nat
      /\ proc' = [proc EXCEPT !["bot"] = r2] /\ started \in Nat /\ page \in {"open", "applied"}
      /\ 0 \notin clicked
  BY <1>1, AtWorkFits
<1>3. started' = started /\ started' \in Nat /\ started <= started' /\ page' \in {page, "applied"}
  BY <1>2 DEF Quiet
<1>4. Armed(r2, db.attempts) => Armed(proc["bot"], db.attempts)
  OBVIOUS
<1>5. r2.att \in {0, proc["bot"].att}
  OBVIOUS
<1> HIDE DEF r2
<1>6. Fits(r2, db.attempts, clicked, page', started)
  BY <1>2, <1>3, FitsStays
<1> QED BY <1>1, <1>2, <1>3, <1>4, <1>5, <1>6, Rests

\* The outcome r of an application is recorded by whichever caller asked for it.
LEMMA OutcomesAdmit ==
    ASSUME ApplyInv, LinkedIn, NEW p \in Procs, proc[p].pc \in Begun \cup Clicked, Quiet,
           NEW r \in Errors, r = "notShown" => proc[p].mode = "url", Outcome(p, r),
           proc[p].att \in clicked =>
               EndOf(r) \in Honest(page') /\ db.attempts[proc[p].att].outcome = "in_progress"
    PROVE  ApplyInv'
<1>1. proc[p].mode \in ApplyModes
  BY AtWorkFits DEF Fits
<1> DEFINE plan == Plan(p, r)
<1>2. plan \in Seq(Plain \cup Ends({EndOf(r)}))
  BY <1>1, PlansEnd
<1>3. EndOf(r) \in Outcomes
  BY DEF EndOf, Outcomes, Errors
<1>4. plan \in Seq(Plain \cup Ends(Outcomes))
  <2>1. Plain \cup Ends({EndOf(r)}) \subseteq Plain \cup Ends(Outcomes)
    BY <1>3 DEF Ends
  <2> QED BY <1>2, <2>1, SeqMonotone
<1>5. proc[p].att \in clicked => EndsHonestly(plan, db.attempts[proc[p].att], page')
  BY <1>2 DEF EndsHonestly
<1>6. Result(p, plan)
  BY DEF Outcome
<1> HIDE DEF plan
<1> QED BY <1>4, <1>5, <1>6, Records

LEMMA BegunRecords ==
    ASSUME ApplyInv, LinkedIn, NEW p \in Procs, proc[p].pc \in Begun, Quiet,
           NEW r \in Errors \ {"notShown"}, Outcome(p, r)
    PROVE  ApplyInv'
<1>1. proc[p].att \notin clicked
  BY AtWorkFits DEF Fits
<1> QED BY <1>1, OutcomesAdmit

-----------------------------------------------------------------------------
(* The application itself: easyApply and its callers. *)

\* Whoever goes past the check sees no other attempt that may have gone out: every
\* attempt that pressed submit is confirmed, and none is past the check.
LEMMA CheckKeeps ==
    ASSUME ApplyInv, LinkedIn, NEW p \in Procs, Check(p)
    PROVE  ApplyInv'
<1>1. Quiet /\ proc[p].pc \in Begun
  BY StillIsQuiet DEF Check, Begun
<1>2. CASE UnresolvedSubmission(p)
  BY <1>1, <1>2, BegunRecords DEF Check, Errors
<1>3. CASE ~UnresolvedSubmission(p)
  <2>1. Goto(p, "entry") /\ "entry" \in PCs
    BY <1>3 DEF Check, PCs
  <2>2. /\ proc[p].att # 0 /\ proc[p].mode \in ApplyModes /\ proc[p].att \notin clicked
        /\ db.attempts[proc[p].att].row => db.attempts[proc[p].att].outcome = "in_progress"
        /\ proc[p].att <= started /\ proc[p].mode # "top" /\ page' = page /\ started' = started
    BY <1>1, AtWorkFits DEF Fits, Check, Still
  <2>3. \A a \in Attempts : a # proc[p].att /\ db.attempts[a].row => db.attempts[a].outcome \notin Unresolved
    BY <1>3 DEF UnresolvedSubmission, SamePosting, CanonicalID
  <2>4. clicked \subseteq Attempts
    BY MaxAttemptsAssumption DEF ApplyInv, Types, Attempts
  <2>5. AllConfirmed(db.attempts, clicked)
    BY <2>2, <2>3, <2>4 DEF ApplyInv, Log, Unresolved, AllConfirmed
  <2>6. ASSUME NEW q \in Procs, q # p
        PROVE  ~Armed(proc[q], db.attempts)
    <3>1. SUFFICES ASSUME Armed(proc[q], db.attempts)
                   PROVE  FALSE
      OBVIOUS
    <3>2. proc[q].att # 0 /\ proc[q].att \in 0..MaxAttempts /\ db.attempts[proc[q].att].row
          /\ db.attempts[proc[q].att].outcome = "in_progress"
      BY <3>1, AtWorkFits DEF Armed, PastCheck, Begun, Fits, Processes
    <3>3. proc[q].att # proc[p].att
      BY <2>2, <2>6 DEF ApplyInv, Goroutines
    <3>4. proc[q].att \in Attempts
      BY <3>2, MaxAttemptsAssumption DEF Attempts
    <3> QED BY <2>3, <3>2, <3>3, <3>4 DEF Unresolved
  <2>7. ASSUME NEW r2 \in Processes, r2.pc = "entry", r2.mode = proc[p].mode, r2.att = proc[p].att
        PROVE  Fits(r2, db.attempts, clicked, page', started)
    BY <2>2, <2>7 DEF Fits, Begun, Clicked
  <2> QED BY <1>1, <2>1, <2>5, <2>6, <2>7, Goes
<1> QED BY <1>2, <1>3

LEMMA EntryKeeps ==
    ASSUME ApplyInv, LinkedIn, NEW p \in Procs, Entry(p)
    PROVE  ApplyInv'
<1>1. Quiet /\ proc[p].pc \in Begun /\ proc[p].pc = "entry"
  BY StillIsQuiet DEF Entry, Begun
<1>2. CASE \E r \in {"already", "error", "quota", "blocked", "review", "external"} : Outcome(p, r)
  BY <1>1, <1>2, BegunRecords DEF Errors
<1>3. CASE Goto(p, "mark")
  <2>1. /\ proc[p].att # 0 /\ proc[p].mode \in ApplyModes /\ proc[p].att \notin clicked
        /\ db.attempts[proc[p].att].row => db.attempts[proc[p].att].outcome = "in_progress"
        /\ proc[p].att <= started /\ proc[p].mode # "top"
    BY <1>1, <1>3, AtWorkFits DEF Fits
  <2>2. ASSUME NEW r2 \in Processes, r2.pc = "mark", r2.mode = proc[p].mode, r2.att = proc[p].att
        PROVE  /\ Fits(r2, db.attempts, clicked, page', started)
               /\ Armed(r2, db.attempts) => Armed(proc[p], db.attempts)
    BY <1>1, <2>1, <2>2 DEF Fits, Begun, Clicked, Armed, PastCheck
  <2>3. "mark" \in PCs
    BY DEF PCs
  <2> QED BY <1>1, <1>3, <2>2, <2>3, Goes
<1> QED BY <1>2, <1>3 DEF Entry

LEMMA MarkDispatchKeeps ==
    ASSUME ApplyInv, LinkedIn, NEW p \in Procs, MarkDispatch(p)
    PROVE  ApplyInv'
<1>1. Quiet /\ proc[p].pc \in Begun /\ proc[p].pc = "mark"
  BY DEF MarkDispatch, Begun, Quiet, env, ApplyInv, Types, SoundDB
<1>2. CASE Outcome(p, "error")
  BY <1>1, <1>2, BegunRecords DEF Errors
<1>3. CASE MayDispatch(p) /\ Goto(p, "click")
  <2>1. /\ proc[p].att # 0 /\ proc[p].mode \in ApplyModes /\ proc[p].att \notin clicked
        /\ db.attempts[proc[p].att].row /\ db.attempts[proc[p].att].outcome = "in_progress"
        /\ proc[p].att <= started /\ proc[p].mode # "top"
    BY <1>1, <1>3, AtWorkFits DEF Fits, MayDispatch
  <2>2. ASSUME NEW r2 \in Processes, r2.pc = "click", r2.mode = proc[p].mode, r2.att = proc[p].att
        PROVE  /\ Fits(r2, db.attempts, clicked, page', started)
               /\ Armed(r2, db.attempts) => Armed(proc[p], db.attempts)
    BY <1>1, <2>1, <2>2 DEF Fits, Begun, Clicked, Armed, PastCheck
  <2>3. "click" \in PCs
    BY DEF PCs
  <2> QED BY <1>1, <1>3, <2>2, <2>3, Goes
<1> QED BY <1>2, <1>3 DEF MarkDispatch

\* A press of submit: the attempt has its row, and every earlier press is confirmed.
LEMMA Presses ==
    ASSUME ApplyInv, LinkedIn, NEW p \in Procs, proc[p].pc = "click", NEW r2 \in Processes,
           proc' = [proc EXCEPT ![p] = r2], UNCHANGED <<Still, page>>, clicked' = clicked \cup {proc[p].att},
           r2.att \in {0, proc[p].att}, ~Armed(r2, db.attempts),
           Fits(r2, db.attempts, clicked \cup {proc[p].att}, page, started)
    PROVE  ApplyInv'
<1> DEFINE a == proc[p].att
<1>1. /\ proc \in [Procs -> Processes] /\ a \in 1..started /\ started \in Nat /\ MaxAttempts \in Nat
      /\ db.attempts[a].row /\ db.attempts[a].outcome = "in_progress" /\ clicked \subseteq 1..started
      /\ Armed(proc[p], db.attempts) /\ started \in 0..MaxAttempts
  BY AtWorkFits DEF Fits, Begun, Armed, PastCheck, ApplyInv, Types
<1>2. clicked' = clicked \cup {a}
  OBVIOUS
<1>3. /\ scenario' = scenario /\ db' = db /\ todo' = todo /\ started' = started /\ page' = page
  BY DEF Still, env
<1>4. Types'
  BY <1>1, <1>2, <1>3 DEF Types, ApplyInv, SoundDB
<1>5. ASSUME NEW q \in Procs, q # p
      PROVE  /\ proc'[q] = proc[q] /\ Fits(proc[q], db.attempts, clicked \cup {a}, page, started)
             /\ ~Armed(proc[q], db.attempts)
  <2>1. proc'[q] = proc[q]
    BY <1>1, <1>5
  <2>2. proc[q] \in Processes /\ Fits(proc[q], db.attempts, clicked, page, started) /\ proc[q].att # a
    BY <1>1, <1>5, AtWorkFits DEF ApplyInv, Goroutines
  <2>3. ~Armed(proc[q], db.attempts)
    BY <1>1, <1>5 DEF ApplyInv, Goroutines
  <2> DEFINE b == proc[q].att
  <2> DEFINE more == clicked \cup {a}
  <2>4. b \in clicked <=> b \in more
    BY <2>2
  <2> HIDE DEF more
  <2>5. Fits(proc[q], db.attempts, more, page, started)
    BY <2>2, <2>4 DEF Fits
  <2> QED BY <2>1, <2>3, <2>5 DEF more
<1>6. proc'[p] = r2
  BY <1>1
<1>7. Goroutines'
  <2>1. \A q \in Procs : Fits(proc'[q], db'.attempts, clicked', page', started')
    BY <1>2, <1>3, <1>5, <1>6
  <2>2. \A q, t \in Procs : q # t /\ proc'[q].att = proc'[t].att => proc'[q].att = 0
    BY <1>5, <1>6 DEF ApplyInv, Goroutines
  <2>3. \A q \in Procs : ~Armed(proc'[q], db'.attempts)
    BY <1>3, <1>5, <1>6
  <2> QED BY <2>1, <2>2, <2>3 DEF Goroutines
<1>8. Log'
  <2>1. \A b \in Attempts : b > started' => ~db'.attempts[b].row
    BY <1>3 DEF ApplyInv, Log
  <2>2. \A b \in clicked' : b \in clicked \/ b = a
    BY <1>2
  <2> QED BY <1>1, <1>3, <2>1, <2>2 DEF ApplyInv, Log
<1> QED BY <1>4, <1>7, <1>8 DEF ApplyInv

LEMMA ClickKeeps ==
    ASSUME ApplyInv, LinkedIn, NEW p \in Procs, Click(p)
    PROVE  ApplyInv'
<1>1. /\ proc[p].pc \in Begun /\ proc[p].pc = "click" /\ UNCHANGED <<Still, page>>
      /\ proc[p] \in Processes /\ proc[p].mode \in ApplyModes /\ proc[p].att # 0 /\ proc[p].att <= started
      /\ proc[p].mode # "top" /\ ClickFailure = "unknown" /\ proc \in [Procs -> Processes]
      /\ db.attempts[proc[p].att].outcome = "in_progress"
  BY AtWorkFits DEF Click, Begun, Fits, ApplyModes, ClickFailure
<1>2. CASE clicked' = clicked /\ Outcome(p, "unknown")
  <2>1. Quiet
    BY <1>1, <1>2, StillIsQuiet DEF Still
  <2> QED BY <1>1, <1>2, <2>1, BegunRecords DEF Errors
<1>3. CASE clicked' = clicked \cup {proc[p].att} /\ Goto(p, "confirm")
  <2> DEFINE r2 == [proc[p] EXCEPT !.pc = "confirm"]
  <2>1. r2 \in Processes /\ r2.pc = "confirm" /\ r2.mode = proc[p].mode /\ r2.att = proc[p].att
    BY <1>1, NewPc DEF PCs
  <2>2. proc' = [proc EXCEPT ![p] = r2]
    BY <1>3 DEF Goto
  <2> HIDE DEF r2
  <2>3. Fits(r2, db.attempts, clicked \cup {proc[p].att}, page, started) /\ ~Armed(r2, db.attempts)
    BY <1>1, <2>1 DEF Fits, Begun, Clicked, Armed, PastCheck
  <2> QED BY <1>1, <1>3, <2>1, <2>2, <2>3, Presses
<1>4. CASE clicked' = clicked \cup {proc[p].att} /\ Outcome(p, "unknown")
  <2> DEFINE plan == Plan(p, "unknown")
  <2>1. plan \in Seq(Plain \cup Ends({"submission_unknown"}))
    <3>1. "unknown" \in Errors /\ EndOf("unknown") = "submission_unknown"
      BY DEF Errors, EndOf
    <3> QED BY <1>1, <3>1, PlansEnd
  <2>2. plan \in Seq(Plain \cup Ends(Outcomes)) /\ EndsHonestly(plan, db.attempts[proc[p].att], page)
    <3>1. Plain \cup Ends({"submission_unknown"}) \subseteq Plain \cup Ends(Outcomes)
      BY DEF Ends, Outcomes
    <3>2. "submission_unknown" \in Honest(page)
      BY DEF Honest
    <3>3. plan \in Seq(Plain \cup Ends(Outcomes))
      BY <2>1, <3>1, SeqMonotone
    <3>4. EndsHonestly(plan, db.attempts[proc[p].att], page)
      BY <1>1, <2>1, <3>2 DEF EndsHonestly
    <3> QED BY <3>3, <3>4
  <2>3. Result(p, plan)
    BY <1>4 DEF Outcome
  <2> HIDE DEF plan
  <2>4. CASE plan = <<>>
    <3> DEFINE r2 == Returned(p)
    <3>1. r2 \in Processes /\ r2.att = 0 /\ r2.pc \in {"idle", "done", "next"} /\ r2.mode # "top"
      BY Returns
    <3>2. proc' = [proc EXCEPT ![p] = r2]
      BY <2>3, <2>4 DEF Result
    <3> HIDE DEF r2
    <3>3. started \in Nat
      BY AtWorkFits
    <3>4. Fits(r2, db.attempts, clicked \cup {proc[p].att}, page, started) /\ ~Armed(r2, db.attempts)
      BY <1>1, <3>1, <3>3 DEF Fits, Armed, PastCheck, Begun, Clicked
    <3> QED BY <1>1, <1>4, <3>1, <3>2, <3>4, Presses
  <2>5. CASE plan # <<>>
    <3> DEFINE r1 == [proc[p] EXCEPT !.pc = "write"]
    <3> DEFINE r2 == [r1 EXCEPT !.plan = plan]
    <3>1. r1 \in Processes /\ r1.pc = "write" /\ r1.mode = proc[p].mode /\ r1.att = proc[p].att
      BY <1>1, NewPc DEF PCs
    <3>2. proc' = [proc EXCEPT ![p] = r2]
      BY <2>3, <2>5 DEF Result
    <3> HIDE DEF r1
    <3>3. r2 \in Processes /\ r2.pc = "write" /\ r2.mode = proc[p].mode /\ r2.att = proc[p].att /\ r2.plan = plan
      BY <2>2, <3>1, NewPlan
    <3> HIDE DEF r2
    <3>4. Fits(r2, db.attempts, clicked \cup {proc[p].att}, page, started) /\ ~Armed(r2, db.attempts)
      BY <1>1, <2>2, <2>5, <3>3 DEF Fits, Begun, Clicked, Armed, PastCheck
    <3> QED BY <1>1, <1>4, <3>2, <3>3, <3>4, Presses
  <2> QED BY <2>4, <2>5
<1> QED BY <1>1, <1>2, <1>3, <1>4 DEF Click

LEMMA ConfirmKeeps ==
    ASSUME ApplyInv, LinkedIn, NEW p \in Procs, Confirm(p)
    PROVE  ApplyInv'
<1>1. /\ proc[p].pc \in Clicked /\ proc[p].mode \in ApplyModes /\ proc[p].att # 0
      /\ proc[p].att <= started /\ proc[p].mode # "top" /\ proc[p].pc = "confirm"
      /\ db.attempts[proc[p].att].outcome = "in_progress"
  BY AtWorkFits DEF Confirm, Clicked, Fits
<1>2. /\ "ok" \in Errors /\ EndOf("ok") = "submitted_confirmed"
      /\ "drift" \in Errors /\ EndOf("drift") = "submission_unknown"
      /\ "unknown" \in Errors /\ EndOf("unknown") = "submission_unknown"
  BY DEF Errors, EndOf
<1>3. CASE page' = "applied" /\ proc[p].mode = "url" /\ Goto(p, "reconfirm")
  <2>1. Quiet
    BY <1>3, StillIsQuiet DEF Confirm
  <2>2. ASSUME NEW r2 \in Processes, r2.pc = "reconfirm", r2.mode = proc[p].mode, r2.att = proc[p].att
        PROVE  /\ Fits(r2, db.attempts, clicked, page', started)
               /\ Armed(r2, db.attempts) => Armed(proc[p], db.attempts)
    BY <1>1, <1>3, <2>2 DEF Fits, Begun, Clicked, Armed, PastCheck
  <2>3. "reconfirm" \in PCs
    BY DEF PCs
  <2> QED BY <1>3, <2>1, <2>2, <2>3, Goes
<1>4. CASE page' = "applied" /\ (Outcome(p, "ok") \/ Outcome(p, "drift"))
  <2>1. Quiet
    BY <1>4, StillIsQuiet DEF Confirm
  <2>2. {"submitted_confirmed", "submission_unknown"} \subseteq Honest(page')
    BY <1>4 DEF Honest
  <2> QED BY <1>1, <1>2, <1>4, <2>1, <2>2, OutcomesAdmit
<1>5. CASE page' = page /\ Outcome(p, "unknown")
  <2>1. Quiet
    BY <1>5, StillIsQuiet DEF Confirm
  <2>2. "submission_unknown" \in Honest(page')
    BY DEF Honest
  <2> QED BY <1>1, <1>2, <1>5, <2>1, <2>2, OutcomesAdmit
<1> QED BY <1>3, <1>4, <1>5 DEF Confirm

LEMMA ReconfirmKeeps ==
    ASSUME ApplyInv, LinkedIn, NEW p \in Procs, Reconfirm(p)
    PROVE  ApplyInv'
<1>1. /\ proc[p].pc \in Clicked /\ proc[p].mode = "url" /\ page = "applied" /\ page' = page
      /\ db.attempts[proc[p].att].outcome = "in_progress"
  BY AtWorkFits DEF Reconfirm, Clicked, Fits
<1>2. Quiet
  BY <1>1, StillIsQuiet DEF Reconfirm
<1>3. PICK r \in {"ok", "notShown", "drift"} : Outcome(p, r)
  BY DEF Reconfirm
<1>4. r \in Errors /\ EndOf(r) \in Honest(page')
  BY <1>1 DEF Errors, EndOf, Honest
<1> QED BY <1>1, <1>2, <1>3, <1>4, OutcomesAdmit

-----------------------------------------------------------------------------
(* An attempt begins, and its result is written statement by statement. *)

LEMMA BeginKeeps ==
    ASSUME ApplyInv, LinkedIn, NEW p \in Procs, NEW mode \in ApplyModes, NEW id \in Ids, NEW job,
           NEW pc \in {"open", "guard"}, Begin(p, mode, id, job, pc), scenario' = scenario,
           todo' \subseteq Ids \X {"apply", "evaluate"}, clicked' = clicked, page' = page
    PROVE  ApplyInv'
<1> DEFINE a == started + 1
<1> DEFINE r2 == [pc |-> pc, mode |-> mode, id |-> id, att |-> a, plan |-> <<>>]
<1>1. scenario \in [site : {"linkedin", "seek"}, attempts : 1 .. MaxAttempts, disturbances : Nat]
  BY ScenariosAssumption DEF ApplyInv, Types
<1>2. /\ started \in Nat /\ MaxAttempts \in Nat /\ a \in 1..MaxAttempts /\ started' = a
      /\ started <= MaxAttempts /\ SoundDB(db) /\ clicked \subseteq 1..started
  BY <1>1, MaxAttemptsAssumption DEF ApplyInv, Types, Begin
<1>3. a \in Attempts
  BY <1>2 DEF Attempts
<1>4. /\ SoundDB(db') /\ \A b \in Attempts : b # a => db'.attempts[b] = db.attempts[b]
      /\ db'.attempts[a].row => db'.attempts[a].outcome = "in_progress"
  <2>1. CASE db' = db
    <3>1. ~db.attempts[a].row
      BY <1>2, <1>3 DEF ApplyInv, Log
    <3> QED BY <1>2, <2>1, <3>1
  <2>2. CASE \E link : db' = BeginAttempt(db, a, job, link)
    BY <1>2, <1>3, <2>2, Beginnings
  <2> QED BY <2>1, <2>2 DEF Begin
<1>5. r2 \in Processes /\ r2.pc = pc /\ r2.mode = mode /\ r2.att = a
  <2>1. <<>> \in Seq(Plain \cup Ends(Outcomes))
    OBVIOUS
  <2>2. a \in 0..MaxAttempts /\ pc \in PCs /\ mode \in Modes
    BY <1>2 DEF PCs, Modes, ApplyModes
  <2> HIDE DEF a
  <2> QED BY <2>1, <2>2 DEF Processes
<1>6. proc' = [proc EXCEPT ![p] = r2]
  BY DEF Begin
<1> HIDE DEF r2
<1>7. \A q \in Procs : proc[q].att \in Nat /\ proc[q].att <= started
  BY AtWorkFits DEF Fits
<1>8. ASSUME NEW q \in Procs, q # p, proc[q].att # 0
      PROVE  r2.att # proc[q].att /\ db'.attempts[proc[q].att] = db.attempts[proc[q].att]
  <2>1. proc[q].att \in Attempts /\ proc[q].att # a
    BY <1>2, <1>7, <1>8 DEF Attempts
  <2> QED BY <1>4, <1>5, <2>1
<1>9. Fits(r2, db'.attempts, clicked, page', started')
  BY <1>2, <1>4, <1>5 DEF Fits, Begun, Clicked, ApplyModes
<1>10. ~Armed(r2, db'.attempts)
  BY <1>5 DEF Armed, PastCheck
<1>11. Log'
  <2>1. \A b \in Attempts : b > started' => b # a /\ b > started
    BY <1>2 DEF Attempts
  <2>2. \A b \in Attempts : b > started' => ~db'.attempts[b].row
    BY <1>4, <2>1 DEF ApplyInv, Log
  <2>3. \A b \in clicked : b \in Attempts /\ b # a
    BY <1>2 DEF Attempts
  <2> QED BY <1>4, <2>2, <2>3 DEF ApplyInv, Log
<1>12. started' \in started..MaxAttempts /\ page' \in {page, "applied"}
  BY <1>2
<1>13. \A b \in clicked : db'.attempts[b] = db.attempts[b]
  BY <1>2, <1>4 DEF Attempts
<1> HIDE DEF a
<1> QED BY <1>4, <1>5, <1>6, <1>8, <1>9, <1>10, <1>11, <1>12, <1>13, Moves

\* A statement succeeds or fails; the last one lets go of the goroutine.
LEMMA WriteKeeps ==
    ASSUME ApplyInv, LinkedIn, NEW p \in Procs, Write(p)
    PROVE  ApplyInv'
<1> DEFINE T == Plain \cup Ends(Outcomes)
<1> DEFINE s == Head(proc[p].plan)
<1> DEFINE rest == Tail(proc[p].plan)
<1> DEFINE r2 == IF rest = <<>> THEN Returned(p) ELSE [proc[p] EXCEPT !.plan = rest]
<1>1. /\ proc[p].pc = "write" /\ proc[p].plan # <<>> /\ proc[p] \in Processes /\ proc[p].plan \in Seq(T)
      /\ proc[p].att \in clicked => EndsHonestly(proc[p].plan, db.attempts[proc[p].att], page)
      /\ proc[p].att \in Nat /\ proc[p].att <= started /\ proc[p].mode # "top" /\ SoundDB(db)
      /\ started \in Nat /\ MaxAttempts \in Nat /\ started <= MaxAttempts /\ clicked \subseteq 1..started
  BY AtWorkFits DEF Write, Fits, Processes, ApplyInv, Types
<1>2. s \in T /\ rest \in Seq(T)
  BY <1>1, FirstAndRest
<1>3. ASSUME proc[p].att \in clicked
      PROVE  \E outcome \in Honest(page) :
                 /\ s \in Plain \cup Ends({outcome}) /\ rest \in Seq(Plain \cup Ends({outcome}))
                 /\ db.attempts[proc[p].att].outcome \in {"in_progress", outcome}
  <2>1. PICK outcome \in Honest(page) :
            /\ proc[p].plan \in Seq(Plain \cup Ends({outcome}))
            /\ db.attempts[proc[p].att].outcome \in {"in_progress", outcome}
    BY <1>1, <1>3 DEF EndsHonestly
  <2>2. s \in Plain \cup Ends({outcome}) /\ rest \in Seq(Plain \cup Ends({outcome}))
    BY <1>1, <2>1, FirstAndRest
  <2> QED BY <2>1, <2>2
<1>4. /\ proc' = [proc EXCEPT ![p] = r2] /\ scenario' = scenario /\ todo' = todo /\ page' = page
      /\ clicked' = clicked /\ started' = started /\ db' \in {Run(db, p, s), db}
  BY DEF Write, env
<1>5. /\ SoundDB(db')
      /\ \A a \in Attempts : a # proc[p].att => db'.attempts[a] = db.attempts[a]
      /\ proc[p].att # 0 =>
            \/ db'.attempts = db.attempts
            \/ /\ db'.attempts[proc[p].att].row /\ db'.attempts[proc[p].att].outcome = s.arg
               /\ s \notin Plain
  <2>1. CASE db' = db
    BY <1>1, <2>1
  <2>2. CASE db' = Run(db, p, s)
    <3> HIDE DEF s
    <3> QED BY <1>1, <1>2, <2>2, Statements
  <2> QED BY <1>4, <2>1, <2>2
<1>6. /\ r2 \in Processes /\ r2.att \in {0, proc[p].att} /\ r2.mode # "top"
      /\ r2.pc \in {"idle", "done", "next", "write"}
      /\ r2.pc = "write" => r2.plan = rest /\ rest # <<>>
  <2>1. CASE rest = <<>>
    <3>1. r2 = Returned(p)
      BY <2>1
    <3> QED BY <3>1, Returns
  <2>2. CASE rest # <<>>
    <3>1. r2 = [proc[p] EXCEPT !.plan = rest]
      BY <2>2
    <3>2. rest \in Seq(Plain \cup Ends(Outcomes))
      BY <1>2
    <3>3. proc[p] \in Processes /\ proc[p].pc = "write" /\ proc[p].mode # "top"
      BY <1>1
    <3> HIDE DEF rest, r2
    <3>4. r2 \in Processes /\ r2.pc = "write" /\ r2.mode # "top" /\ r2.att = proc[p].att /\ r2.plan = rest
      BY <3>1, <3>2, <3>3, NewPlan
    <3> QED BY <2>2, <3>4
  <2> QED BY <2>1, <2>2
<1> HIDE DEF r2, s, rest
<1>61. ASSUME proc[p].att \in clicked
       PROVE  /\ EndsHonestly(rest, db'.attempts[proc[p].att], page)
              /\ s \notin Plain => s.arg \in Honest(page)
              /\ db.attempts[proc[p].att].outcome = "submitted_confirmed"
                    => db'.attempts[proc[p].att].outcome = "submitted_confirmed"
  <2>1. PICK outcome \in Honest(page) :
            /\ s \in Plain \cup Ends({outcome}) /\ rest \in Seq(Plain \cup Ends({outcome}))
            /\ db.attempts[proc[p].att].outcome \in {"in_progress", outcome}
    BY <1>3, <1>61
  <2>2. s \notin Plain => s.arg = outcome
    BY <2>1 DEF Ends
  <2>3. proc[p].att # 0
    BY <1>1, <1>61
  <2>4. db'.attempts[proc[p].att].outcome \in {db.attempts[proc[p].att].outcome, outcome}
    BY <1>5, <2>2, <2>3
  <2>5. EndsHonestly(rest, db'.attempts[proc[p].att], page)
    BY <2>1, <2>4 DEF EndsHonestly
  <2>6. db.attempts[proc[p].att].outcome = "submitted_confirmed"
           => db'.attempts[proc[p].att].outcome = "submitted_confirmed"
    BY <2>1, <2>4
  <2> QED BY <2>1, <2>2, <2>5, <2>6
<1>7. Fits(r2, db'.attempts, clicked, page', started') /\ ~Armed(r2, db'.attempts)
  <2>1. r2.att <= started
    BY <1>1, <1>6
  <2>2. r2.pc = "write" /\ r2.att \in clicked => EndsHonestly(r2.plan, db'.attempts[r2.att], page)
    BY <1>1, <1>61, <1>6
  <2> QED BY <1>4, <1>6, <2>1, <2>2 DEF Fits, Begun, Clicked, Armed, PastCheck
<1>8. ASSUME NEW q \in Procs, q # p, proc[q].att # 0
      PROVE  r2.att # proc[q].att /\ db'.attempts[proc[q].att] = db.attempts[proc[q].att]
  <2>1. proc[q].att # proc[p].att
    BY <1>8 DEF ApplyInv, Goroutines
  <2>2. proc[q].att \in Attempts
    BY <1>1, <1>8, AtWorkFits DEF Processes, Attempts
  <2> QED BY <1>5, <1>6, <1>8, <2>1, <2>2
<1>9. Log'
  <2>1. \A a \in Attempts : a > started' => ~db'.attempts[a].row
    BY <1>1, <1>4, <1>5 DEF ApplyInv, Log, Attempts
  <2>2. ASSUME NEW a \in clicked
        PROVE  /\ db'.attempts[a].row
               /\ db'.attempts[a].outcome \in {"in_progress", "submission_unknown", "submitted_confirmed"}
               /\ db'.attempts[a].outcome = "submitted_confirmed" => page' = "applied"
    <3>1. /\ a \in Attempts /\ db.attempts[a].row
          /\ db.attempts[a].outcome \in {"in_progress", "submission_unknown", "submitted_confirmed"}
          /\ db.attempts[a].outcome = "submitted_confirmed" => page = "applied"
      BY <1>1 DEF ApplyInv, Log, Attempts
    <3>2. CASE db'.attempts[a] = db.attempts[a]
      BY <1>4, <3>1, <3>2
    <3>3. CASE a = proc[p].att /\ db'.attempts[a].row /\ db'.attempts[a].outcome = s.arg /\ s \notin Plain
      <4>1. s.arg \in Honest(page)
        BY <1>61, <3>3
      <4> QED BY <1>4, <3>3, <4>1 DEF Honest
    <3>4. a # 0
      BY <3>1 DEF Attempts
    <3> QED BY <1>5, <3>1, <3>2, <3>3, <3>4
  <2> QED BY <1>4, <2>1, <2>2 DEF ApplyInv, Log
<1>10. started' \in started..MaxAttempts /\ page' \in {page, "applied"} /\ todo' \subseteq Ids \X {"apply", "evaluate"}
  BY <1>1, <1>4 DEF ApplyInv, Types
<1>11. \A q \in Procs : q # p /\ proc[q].att # 0 =>
          r2.att # proc[q].att /\ db'.attempts[proc[q].att] = db.attempts[proc[q].att]
  BY <1>8
<1>12. /\ proc' = [proc EXCEPT ![p] = r2] /\ scenario' = scenario /\ clicked' = clicked
       /\ SoundDB(db') /\ r2 \in Processes
  BY <1>4, <1>5, <1>6
<1>13. \A a \in clicked : db.attempts[a].outcome = "submitted_confirmed"
                              => db'.attempts[a].outcome = "submitted_confirmed"
  BY <1>1, <1>5, <1>61 DEF Attempts
<1> HIDE DEF T
<1> QED BY <1>7, <1>9, <1>10, <1>11, <1>12, <1>13, Moves

-----------------------------------------------------------------------------
(* The bot's run. *)

LEMMA BotIsAProcess == "bot" \in Procs /\ "approver" \in Procs /\ "user" \in Procs /\ Urls \subseteq Procs
  BY DEF Procs

\* A goroutine starts anew, without an attempt.
LEMMA Anew ==
    ASSUME ApplyInv, LinkedIn, NEW p \in Procs, NEW pc \in PCs, NEW mode \in Modes, NEW id \in Ids,
           NEW plan \in Seq(Plain \cup Ends(Outcomes)),
           proc' = [proc EXCEPT ![p] = [pc |-> pc, mode |-> mode, id |-> id, att |-> 0, plan |-> plan]], Quiet,
           pc \notin Begun \cup Clicked, mode # "top", pc = "looked" => mode \in {"search", "retry"},
           pc = "write" => plan # <<>>
    PROVE  ApplyInv'
<1> DEFINE r2 == [pc |-> pc, mode |-> mode, id |-> id, att |-> 0, plan |-> plan]
<1>1. started \in Nat /\ MaxAttempts \in Nat /\ 0 \notin clicked
  BY BotIsAProcess, AtWorkFits DEF ApplyInv, Types
<1>2. r2 \in Processes /\ r2.pc = pc /\ r2.mode = mode /\ r2.att = 0 /\ r2.plan = plan
  BY <1>1 DEF Processes
<1>3. proc' = [proc EXCEPT ![p] = r2]
  OBVIOUS
<1> HIDE DEF r2
<1>4. Fits(r2, db.attempts, clicked, page', started) /\ ~Armed(r2, db.attempts)
  BY <1>1, <1>2 DEF Fits, Armed, PastCheck, Begun, Clicked
<1> QED BY <1>2, <1>3, <1>4, Rests

LEMMA AtTheQueue ==
    [Idle EXCEPT !.pc = "next", !.mode = "queue"] =
        [pc |-> "next", mode |-> "queue", id |-> Site, att |-> 0, plan |-> <<>>]
<1> DEFINE r1 == [Idle EXCEPT !.pc = "next"]
<1>1. r1 = [pc |-> "next", mode |-> "none", id |-> Site, att |-> 0, plan |-> <<>>]
  BY DEF Idle
<1> SUFFICES [r1 EXCEPT !.mode = "queue"] =
                 [pc |-> "next", mode |-> "queue", id |-> Site, att |-> 0, plan |-> <<>>]
  OBVIOUS
<1> HIDE DEF r1
<1> QED BY <1>1

\* The bot between two postings: nothing but its mode and its lists changes.
LEMMA BotStartKeeps ==
    ASSUME ApplyInv, LinkedIn, BotStart
    PROVE  ApplyInv'
<1>1. Rows \subseteq Ids \X {"apply", "evaluate"}
  BY DEF Rows, ApplyInv, Types, SoundDB
<1>2. Quiet
  BY <1>1 DEF BotStart, AtWork, env, Quiet, ApplyInv, Types, SoundDB
<1>3. proc' = [proc EXCEPT !["bot"] = [pc |-> "next", mode |-> "queue", id |-> Site, att |-> 0, plan |-> <<>>]]
  BY AtTheQueue DEF BotStart
<1>4. /\ "next" \in PCs /\ "queue" \in Modes /\ Site \in Ids /\ <<>> \in Seq(Plain \cup Ends(Outcomes))
      /\ "next" \notin Begun \cup Clicked
  BY MaxAttemptsAssumption DEF PCs, Modes, Site, Ids, Begun, Clicked
<1> QED BY <1>2, <1>3, <1>4, BotIsAProcess, Anew

LEMMA BotEndsKeeps ==
    ASSUME ApplyInv, LinkedIn, BotEnds
    PROVE  ApplyInv'
<1>2. Quiet
  BY DEF BotEnds, AtWork, env, Quiet, ApplyInv, Types, SoundDB
<1>3. proc' = [proc EXCEPT !["bot"] = [pc |-> "idle", mode |-> "none", id |-> Site, att |-> 0, plan |-> <<>>]]
  BY DEF BotEnds, Idle
<1>4. /\ "idle" \in PCs /\ "none" \in Modes /\ Site \in Ids /\ <<>> \in Seq(Plain \cup Ends(Outcomes))
      /\ "idle" \notin Begun \cup Clicked
  BY MaxAttemptsAssumption DEF PCs, Modes, Site, Ids, Begun, Clicked
<1> QED BY <1>2, <1>3, <1>4, BotIsAProcess, Anew

LEMMA NextPhaseKeeps ==
    ASSUME ApplyInv, LinkedIn, NextPhase
    PROVE  ApplyInv'
<1> DEFINE r2 == [proc["bot"] EXCEPT !.mode = "search"]
<1>1. proc' = [proc EXCEPT !["bot"] = r2] /\ Quiet /\ proc["bot"].pc = "next"
  BY DEF NextPhase, Bot, AtWork, env, Quiet, ApplyInv, Types, SoundDB
<1>2. proc["bot"] \in Processes /\ proc["bot"].att <= started
  BY BotIsAProcess, AtWorkFits DEF Fits
<1>3. r2 \in Processes /\ r2.pc = "next" /\ r2.mode = "search" /\ r2.att = proc["bot"].att
  BY <1>1, <1>2 DEF Processes, Modes
<1> HIDE DEF r2
<1>4. Fits(r2, db.attempts, clicked, page', started) /\ ~Armed(r2, db.attempts)
  BY <1>2, <1>3 DEF Fits, Armed, PastCheck, Begun, Clicked
<1> QED BY <1>1, <1>3, <1>4, BotIsAProcess, Rests

LEMMA SubmitQueuedKeeps ==
    ASSUME ApplyInv, LinkedIn, NEW id \in Ids, SubmitQueued(id)
    PROVE  ApplyInv'
<1>1. /\ scenario' = scenario /\ clicked' = clicked /\ page' = page
      /\ todo' \subseteq Ids \X {"apply", "evaluate"} /\ Begin("bot", "queue", id, {id}, "open")
  BY DEF SubmitQueued, AtWork, env, ApplyInv, Types
<1>2. "queue" \in ApplyModes
  BY DEF ApplyModes
<1> QED BY <1>1, <1>2, BotIsAProcess, BeginKeeps

LEMMA RetryEvaluationKeeps ==
    ASSUME ApplyInv, LinkedIn, NEW id \in Ids, RetryEvaluation(id)
    PROVE  ApplyInv'
<1>1. Quiet
  BY DEF RetryEvaluation, AtWork, env, Quiet, ApplyInv, Types, SoundDB
<1>2. CASE proc' = proc
  BY <1>1, <1>2, Unmoved
<1>3. CASE proc' = [proc EXCEPT !["bot"] = [pc |-> "looked", mode |-> "retry", id |-> id, att |-> 0, plan |-> <<>>]]
  <2>1. /\ "looked" \in PCs /\ "retry" \in Modes /\ <<>> \in Seq(Plain \cup Ends(Outcomes))
        /\ "looked" \notin Begun \cup Clicked
    BY DEF PCs, Modes, Begun, Clicked
  <2> QED BY <1>1, <1>3, <2>1, BotIsAProcess, Anew
<1> QED BY <1>2, <1>3 DEF RetryEvaluation, Idle

LEMMA SearchKeeps ==
    ASSUME ApplyInv, LinkedIn, Search
    PROVE  ApplyInv'
<1>1. Quiet /\ Goto("bot", "looked") /\ proc["bot"].mode = "search" /\ page' = page
  BY StillIsQuiet DEF Search, Bot
<1>2. proc["bot"].att <= started
  BY BotIsAProcess, AtWorkFits DEF Fits
<1>3. ASSUME NEW r2 \in Processes, r2.pc = "looked", r2.mode = proc["bot"].mode, r2.att = proc["bot"].att
      PROVE  Fits(r2, db.attempts, clicked, page', started) /\ ~Armed(r2, db.attempts)
  BY <1>1, <1>2, <1>3 DEF Fits, Armed, PastCheck, Begun, Clicked
<1>4. "looked" \in PCs
  BY DEF PCs
<1> QED BY <1>1, <1>3, <1>4, BotIsAProcess, Goes

\* A result of statements alone admits anything.
LEMMA PlainRecords ==
    ASSUME ApplyInv, LinkedIn, NEW p \in Procs, Quiet, NEW plan \in Seq(Plain), Result(p, plan)
    PROVE  ApplyInv'
<1>1. plan \in Seq(Plain \cup Ends(Outcomes)) /\ \A O : plan \in Seq(Plain \cup Ends(O))
  BY SeqMonotone
<1>2. ASSUME proc[p].att \in clicked
      PROVE  EndsHonestly(plan, db.attempts[proc[p].att], page')
  <2> DEFINE e == db.attempts[proc[p].att]
  <2>1. /\ e.outcome \in {"in_progress", "submission_unknown", "submitted_confirmed"}
        /\ e.outcome = "submitted_confirmed" => page = "applied"
    BY <1>2 DEF ApplyInv, Log
  <2>2. page' \in {page, "applied"}
    BY DEF Quiet
  <2>3. \E outcome \in Honest(page') : e.outcome \in {"in_progress", outcome}
    BY <2>1, <2>2 DEF Honest
  <2> HIDE DEF e
  <2>4. EndsHonestly(plan, e, page')
    BY <1>1, <2>3 DEF EndsHonestly
  <2> QED BY <2>4 DEF e
<1> QED BY <1>1, <1>2, Records

\* An attempt that begins no application may end in any way.
LEMMA EarlyRecords ==
    ASSUME ApplyInv, LinkedIn, NEW p \in Procs, Quiet, proc[p].pc \in Begun,
           NEW plan \in Seq(Plain \cup Ends(Outcomes)), Result(p, plan)
    PROVE  ApplyInv'
<1>1. proc[p].att \notin clicked
  BY AtWorkFits DEF Fits
<1> QED BY <1>1, Records

LEMMA JudgeKeeps ==
    ASSUME ApplyInv, LinkedIn, Judge
    PROVE  ApplyInv'
<1>1. Quiet
  BY StillIsQuiet DEF Judge
<1>2. /\ Skip("rejected") \in Plain /\ Failure("retryable") \in Plain
      /\ Pend(FALSE) \in Plain /\ Pend(TRUE) \in Plain
  BY PlainStatements DEF Reasons
<1>3. /\ <<>> \in Seq(Plain) /\ \A x \in Plain : <<x>> \in Seq(Plain)
  BY Tuples
<1>4. {<<>>, <<Skip("rejected")>>, <<Failure("retryable")>>, <<Pend(FALSE)>>, <<Pend(TRUE)>>} \subseteq Seq(Plain)
  BY <1>2, <1>3, Zenon
<1>5. \E plan \in Seq(Plain) : Result("bot", plan)
  BY <1>3, <1>4 DEF Judge
<1> QED BY <1>1, <1>5, BotIsAProcess, PlainRecords

LEMMA SubmitKeeps ==
    ASSUME ApplyInv, LinkedIn, Submit
    PROVE  ApplyInv'
<1>1. /\ scenario' = scenario /\ clicked' = clicked /\ page' = page
      /\ todo' \subseteq Ids \X {"apply", "evaluate"}
      /\ Begin("bot", proc["bot"].mode, proc["bot"].id, {proc["bot"].id}, "open")
  BY DEF Submit, AtWork, env, ApplyInv, Types, Bot
<1>2. proc["bot"].mode \in ApplyModes /\ proc["bot"].id \in Ids
  BY BotIsAProcess, AtWorkFits DEF Submit, Bot, Fits, ApplyModes, Processes
<1> DEFINE m == proc["bot"].mode
<1> DEFINE i == proc["bot"].id
<1>3. Begin("bot", m, i, {i}, "open") /\ m \in ApplyModes /\ i \in Ids
  BY <1>1, <1>2
<1> HIDE DEF m, i
<1> QED BY <1>1, <1>3, BotIsAProcess, BeginKeeps

\* Top Matches are submitted on Seek only: no such row is ever in the snapshot.
LEMMA RecheckTopMatchKeeps ==
    ASSUME ApplyInv, LinkedIn, NEW id \in Ids, RecheckTopMatch(id)
    PROVE  ApplyInv'
  BY DEF RecheckTopMatch, ApplyInv, Types

\* What every result that ends an attempt early is made of.
LEMMA EarlyPlans ==
    LET P == Seq(Plain \cup Ends(Outcomes)) IN
    /\ <<F("other")>> \in P /\ <<NoJob("other")>> \in P
    /\ <<Skip("retryable"), Do("unpend"), F("other")>> \in P
    /\ <<Failure("retryable"), F("other")>> \in P /\ <<Skip("rejected"), F("other")>> \in P
    /\ <<Pend(FALSE), F("other")>> \in P
    /\ <<Do("applied"), Do("unpendLink")>> \o <<NoJob("other")>> \in P /\ <<>> \o <<NoJob("other")>> \in P
    /\ <<Skip("rejected"), Do("unpend")>> \in P
<1> DEFINE T == Plain \cup Ends(Outcomes)
<1>1. /\ F("other") \in T /\ NoJob("other") \in T
      /\ Skip("retryable") \in T /\ Skip("rejected") \in T /\ Failure("retryable") \in T /\ Pend(FALSE) \in T
      /\ Do("unpend") \in T /\ Do("applied") \in T /\ Do("unpendLink") \in T
  BY PlainStatements, EndStatements DEF Reasons, Outcomes
<1> HIDE DEF T
<1>2. /\ <<>> \in Seq(T) /\ (\A x \in T : <<x>> \in Seq(T)) /\ (\A x, y \in T : <<x, y>> \in Seq(T))
      /\ (\A x, y, z \in T : <<x, y, z>> \in Seq(T)) /\ (\A q, t \in Seq(T) : q \o t \in Seq(T))
  BY Tuples
<1>3. /\ <<F("other")>> \in Seq(T) /\ <<NoJob("other")>> \in Seq(T)
      /\ <<Skip("retryable"), Do("unpend"), F("other")>> \in Seq(T)
      /\ <<Failure("retryable"), F("other")>> \in Seq(T) /\ <<Skip("rejected"), F("other")>> \in Seq(T)
      /\ <<Skip("rejected"), Do("unpend")>> \in Seq(T) /\ <<Do("applied"), Do("unpendLink")>> \in Seq(T)
  BY <1>1, <1>2
<1>4. <<Pend(FALSE), F("other")>> \in Seq(T)
  <2>1. \A x \in T : <<x, F("other")>> \in Seq(T)
    BY <1>1, <1>2
  <2>2. Pend(FALSE) \in T
    BY <1>1
  <2> QED BY <2>1, <2>2, Zenon
<1>5. <<Do("applied"), Do("unpendLink")>> \o <<NoJob("other")>> \in Seq(T) /\ <<>> \o <<NoJob("other")>> \in Seq(T)
  BY <1>2, <1>3
<1> QED BY <1>3, <1>4, <1>5 DEF T

\* From one stage before the check to another.
LEMMA GoesOn ==
    ASSUME ApplyInv, LinkedIn, NEW p \in Procs, Quiet, proc[p].pc \in Begun,
           NEW pc2 \in Begun \ PastCheck, Goto(p, pc2)
    PROVE  ApplyInv'
<1>1. /\ proc[p].att # 0 /\ proc[p].mode \in ApplyModes /\ proc[p].att \notin clicked
      /\ db.attempts[proc[p].att].row => db.attempts[proc[p].att].outcome = "in_progress"
      /\ proc[p].att <= started /\ proc[p].mode # "top"
  BY AtWorkFits DEF Fits
<1>2. ASSUME NEW r2 \in Processes, r2.pc = pc2, r2.mode = proc[p].mode, r2.att = proc[p].att
      PROVE  Fits(r2, db.attempts, clicked, page', started) /\ ~Armed(r2, db.attempts)
  BY <1>1, <1>2 DEF Fits, Begun, Clicked, Armed, PastCheck
<1>3. pc2 \in PCs
  BY DEF Begun, PCs
<1> QED BY <1>2, <1>3, Goes

LEMMA OpenPageKeeps ==
    ASSUME ApplyInv, LinkedIn, OpenPage
    PROVE  ApplyInv'
<1>1. Quiet /\ proc["bot"].pc \in Begun /\ "check" \in Begun \ PastCheck /\ Applying = "check"
  BY StillIsQuiet DEF OpenPage, Bot, Begun, PastCheck, Applying
<1>2. CASE Result("bot", <<F("other")>>)
  BY <1>1, <1>2, EarlyPlans, EarlyRecords, BotIsAProcess
<1>3. CASE Goto("bot", "check")
  BY <1>1, <1>3, GoesOn, BotIsAProcess
<1> QED BY <1>1, <1>2, <1>3 DEF OpenPage

LEMMA RetryDoneKeeps ==
    ASSUME ApplyInv, LinkedIn, RetryDone
    PROVE  ApplyInv'
<1>1. Quiet
  BY StillIsQuiet DEF RetryDone
<1>2. CASE proc' = [proc EXCEPT !["bot"] = [Idle EXCEPT !.pc = "next", !.mode = "queue"]]
  <2>1. /\ "next" \in PCs /\ "queue" \in Modes /\ Site \in Ids /\ <<>> \in Seq(Plain \cup Ends(Outcomes))
        /\ "next" \notin Begun \cup Clicked
    BY MaxAttemptsAssumption DEF PCs, Modes, Site, Ids, Begun, Clicked
  <2>2. proc' = [proc EXCEPT !["bot"] = [pc |-> "next", mode |-> "queue", id |-> Site, att |-> 0, plan |-> <<>>]]
    BY <1>2, AtTheQueue
  <2> QED BY <1>1, <2>1, <2>2, BotIsAProcess, Anew
<1>3. CASE Goto("bot", "consume")
  <2>1. proc["bot"].att <= started /\ proc["bot"].mode # "top"
    BY BotIsAProcess, AtWorkFits DEF Fits
  <2>2. ASSUME NEW r2 \in Processes, r2.pc = "consume", r2.mode = proc["bot"].mode, r2.att = proc["bot"].att
        PROVE  Fits(r2, db.attempts, clicked, page', started) /\ ~Armed(r2, db.attempts)
    BY <2>1, <2>2 DEF Fits, Begun, Clicked, Armed, PastCheck
  <2>3. "consume" \in PCs
    BY DEF PCs
  <2> QED BY <1>1, <1>3, <2>2, <2>3, BotIsAProcess, Goes
<1> QED BY <1>2, <1>3 DEF RetryDone

LEMMA ConsumeKeeps ==
    ASSUME ApplyInv, LinkedIn, Consume
    PROVE  ApplyInv'
<1>1. Bot.id \in Ids /\ SoundDB(db)
  BY BotIsAProcess, AtWorkFits DEF Bot, Processes, ApplyInv, Types
<1>2. SoundDB(db') /\ db'.attempts = db.attempts
  <2>1. CASE db' = ConsumeRetry(db, Bot.id)
    <3> DEFINE i == Bot.id
    <3>1. i \in Ids /\ db' = ConsumeRetry(db, i)
      BY <1>1, <2>1
    <3> HIDE DEF i
    <3> QED BY <1>1, <3>1, OtherStatements
  <2>2. CASE db' = db
    BY <1>1, <2>2
  <2> QED BY <2>1, <2>2 DEF Consume
<1>3. Quiet
  BY <1>2 DEF Consume, AtWork, env, Quiet, ApplyInv, Types
<1>4. /\ "next" \in PCs /\ "queue" \in Modes /\ Site \in Ids /\ <<>> \in Seq(Plain \cup Ends(Outcomes))
      /\ "next" \notin Begun \cup Clicked
  BY MaxAttemptsAssumption DEF PCs, Modes, Site, Ids, Begun, Clicked
<1>5. proc' = [proc EXCEPT !["bot"] = [pc |-> "next", mode |-> "queue", id |-> Site, att |-> 0, plan |-> <<>>]]
  BY AtTheQueue DEF Consume
<1> QED BY <1>3, <1>4, <1>5, BotIsAProcess, Anew

-----------------------------------------------------------------------------
(* Approvals, pasted addresses, the other handlers, the site and a crash. *)

LEMMA ApproveKeeps ==
    ASSUME ApplyInv, LinkedIn, NEW id \in Ids, Approve(id)
    PROVE  ApplyInv'
<1>1. /\ scenario' = scenario /\ clicked' = clicked /\ page' = page
      /\ todo' \subseteq Ids \X {"apply", "evaluate"} /\ Begin("approver", "approve", id, {id}, "open")
  BY DEF Approve, AtWork, env, ApplyInv, Types
<1>2. "approve" \in ApplyModes
  BY DEF ApplyModes
<1> QED BY <1>1, <1>2, BotIsAProcess, BeginKeeps

LEMMA OpenApprovedKeeps ==
    ASSUME ApplyInv, LinkedIn, OpenApproved
    PROVE  ApplyInv'
<1>1. Quiet /\ proc["approver"].pc \in Begun /\ "check" \in Begun \ PastCheck /\ Applying = "check"
  BY StillIsQuiet DEF OpenApproved, Begun, PastCheck, Applying
<1>2. CASE Result("approver", <<F("other")>>)
  BY <1>1, <1>2, EarlyPlans, EarlyRecords, BotIsAProcess
<1>3. CASE Result("approver", <<Skip("retryable"), Do("unpend"), F("other")>>)
  BY <1>1, <1>3, EarlyPlans, EarlyRecords, BotIsAProcess
<1>4. CASE Goto("approver", "check")
  BY <1>1, <1>4, GoesOn, BotIsAProcess
<1> QED BY <1>1, <1>2, <1>3, <1>4 DEF OpenApproved

LEMMA ApplyFromURLKeeps ==
    ASSUME ApplyInv, LinkedIn, NEW u \in Urls, ApplyFromURL(u)
    PROVE  ApplyInv'
<1> DEFINE id == started + 1
<1>1. /\ scenario' = scenario /\ clicked' = clicked /\ page' = page
      /\ todo' \subseteq Ids \X {"apply", "evaluate"} /\ Begin(u, "url", id, {}, "guard")
  BY DEF ApplyFromURL, AtWork, env, ApplyInv, Types
<1>2. id \in Ids
  <2>1. scenario.attempts \in 1..MaxAttempts
    BY ScenariosAssumption DEF ApplyInv, Types
  <2>2. started \in Nat /\ MaxAttempts \in Nat /\ started < scenario.attempts
    BY <1>1, MaxAttemptsAssumption DEF Begin, ApplyInv, Types
  <2> QED BY <2>1, <2>2 DEF Ids
<1>3. "url" \in ApplyModes /\ u \in Procs
  BY BotIsAProcess DEF ApplyModes
<1> HIDE DEF id
<1> QED BY <1>1, <1>2, <1>3, BeginKeeps

LEMMA UrlGuardKeeps ==
    ASSUME ApplyInv, LinkedIn, NEW u \in Urls, UrlGuard(u)
    PROVE  ApplyInv'
<1>1. Quiet /\ proc[u].pc \in Begun /\ "fast" \in Begun \ PastCheck /\ u \in Procs
  BY BotIsAProcess DEF UrlGuard, Begun, PastCheck, env, Quiet, ApplyInv, Types, SoundDB
<1>2. CASE Result(u, <<NoJob("other")>>)
  BY <1>1, <1>2, EarlyPlans, EarlyRecords
<1>3. CASE Goto(u, "fast")
  BY <1>1, <1>3, GoesOn
<1> QED BY <1>2, <1>3 DEF UrlGuard

LEMMA UrlFastKeeps ==
    ASSUME ApplyInv, LinkedIn, NEW u \in Urls, UrlFast(u)
    PROVE  ApplyInv'
<1>1. Quiet /\ proc[u].pc \in Begun /\ "open" \in Begun \ PastCheck /\ u \in Procs
  BY StillIsQuiet, BotIsAProcess DEF UrlFast, Begun, PastCheck
<1>2. CASE Result(u, <<NoJob("other")>>)
  BY <1>1, <1>2, EarlyPlans, EarlyRecords
<1>3. CASE Goto(u, "open")
  BY <1>1, <1>3, GoesOn
<1> QED BY <1>2, <1>3 DEF UrlFast

LEMMA UrlOpenKeeps ==
    ASSUME ApplyInv, LinkedIn, NEW u \in Urls, UrlOpen(u)
    PROVE  ApplyInv'
<1>1. Quiet /\ proc[u].pc \in Begun /\ "evaluate" \in Begun \ PastCheck /\ u \in Procs
  BY StillIsQuiet, BotIsAProcess DEF UrlOpen, Begun, PastCheck
<1>2. CASE Result(u, <<NoJob("other")>>)
  BY <1>1, <1>2, EarlyPlans, EarlyRecords
<1>3. CASE Goto(u, "evaluate")
  BY <1>1, <1>3, GoesOn
<1>4. CASE \E adopted \in {<<>>, <<Do("applied"), Do("unpendLink")>>} : Result(u, adopted \o <<NoJob("other")>>)
  BY <1>1, <1>4, EarlyPlans, EarlyRecords
<1>5. CASE proc' = [proc EXCEPT ![u].pc = "write", ![u].id = Site,
                                ![u].plan = <<Failure("retryable"), F("other")>>]
  <2> DEFINE plan == <<Failure("retryable"), F("other")>>
  <2> DEFINE r0 == [proc[u] EXCEPT !.pc = "write"]
  <2> DEFINE r1 == [r0 EXCEPT !.id = Site]
  <2> DEFINE r2 == [r1 EXCEPT !.plan = plan]
  <2>1. /\ proc[u] \in Processes /\ proc[u].att <= started /\ proc[u].att \notin clicked
        /\ proc[u].mode # "top" /\ proc \in [Procs -> Processes]
    BY <1>1, AtWorkFits DEF Fits
  <2>2. plan \in Seq(Plain \cup Ends(Outcomes)) /\ plan # <<>> /\ "write" \in PCs /\ Site \in Ids
    BY EarlyPlans, MaxAttemptsAssumption DEF PCs, Site, Ids
  <2> HIDE DEF plan
  <2>3. proc' = [proc EXCEPT ![u] = r2]
    BY <1>1, <1>5, <2>1 DEF plan
  <2>4. r0 \in Processes /\ r0.pc = "write" /\ r0.mode = proc[u].mode /\ r0.att = proc[u].att
    BY <2>1, <2>2, NewPc
  <2> HIDE DEF r0
  <2>5. r1 \in Processes /\ r1.pc = "write" /\ r1.mode = proc[u].mode /\ r1.att = proc[u].att
    BY <2>2, <2>4, NewId
  <2> HIDE DEF r1
  <2>6. /\ r2 \in Processes /\ r2.pc = "write" /\ r2.mode = proc[u].mode /\ r2.att = proc[u].att
        /\ r2.plan = plan
    BY <2>2, <2>5, NewPlan
  <2> HIDE DEF r2
  <2>7. Fits(r2, db.attempts, clicked, page', started) /\ ~Armed(r2, db.attempts)
    BY <2>1, <2>2, <2>6 DEF Fits, Begun, Clicked, Armed, PastCheck
  <2> QED BY <1>1, <2>3, <2>6, <2>7, Rests
<1> QED BY <1>2, <1>3, <1>4, <1>5 DEF UrlOpen

LEMMA UrlEvaluateKeeps ==
    ASSUME ApplyInv, LinkedIn, NEW u \in Urls, UrlEvaluate(u)
    PROVE  ApplyInv'
<1>1. Quiet /\ proc[u].pc \in Begun /\ "check" \in Begun \ PastCheck /\ Applying = "check" /\ u \in Procs
  BY StillIsQuiet, BotIsAProcess DEF UrlEvaluate, Begun, PastCheck, Applying
<1>2. CASE \E plan \in {<<F("other")>>, <<Failure("retryable"), F("other")>>, <<Skip("rejected"), F("other")>>} :
              Result(u, plan)
  BY <1>1, <1>2, EarlyPlans, EarlyRecords
<1>3. CASE Result(u, <<Pend(FALSE), F("other")>>)
  BY <1>1, <1>3, EarlyPlans, EarlyRecords
<1>4. CASE Goto(u, "check")
  BY <1>1, <1>4, GoesOn
<1> QED BY <1>1, <1>2, <1>3, <1>4 DEF UrlEvaluate

\* What the user does beside: the rows change, the log of attempts does not.
LEMMA HandlersKeep ==
    ASSUME ApplyInv, LinkedIn, NEW id \in Ids,
           DeletePendingReview(id) \/ MarkApplied(id) \/ RetryCannotApply(id) \/ LetGo(id)
    PROVE  ApplyInv'
<1>1. UNCHANGED <<Aside, proc>> /\ SoundDB(db)
  BY DEF DeletePendingReview, MarkApplied, RetryCannotApply, LetGo, ApplyInv, Types
<1>2. SoundDB(db') /\ db'.attempts = db.attempts
  <2>1. db' \in {RecordSkipped(RemoveReview(db, id), id, "rejected"), RemoveReview(db, id),
                 RemoveReview(RecordApplied(db, id), id), ConsumeRetry(db, id),
                 [RecordApplied(db, id) EXCEPT !.skipped[id] = "no"],
                 [db EXCEPT !.queue[id] = "evaluate", !.skipped[id] = "no"],
                 [db EXCEPT !.applied = @ \ {id}], [db EXCEPT !.skipped[id] = "no"]}
    <3>1. CASE DeletePendingReview(id)
      BY <3>1 DEF DeletePendingReview
    <3>2. CASE MarkApplied(id)
      BY <3>2 DEF MarkApplied
    <3>3. CASE RetryCannotApply(id)
      BY <3>3 DEF RetryCannotApply
    <3>4. CASE LetGo(id)
      BY <3>4 DEF LetGo
    <3> QED BY <3>1, <3>2, <3>3, <3>4
  <2> QED BY <1>1, <2>1, OtherStatements
<1>3. Quiet /\ proc' = proc
  BY <1>1, <1>2 DEF Aside, env, Quiet, ApplyInv, Types
<1> QED BY <1>3, Unmoved

LEMMA RejectKeeps ==
    ASSUME ApplyInv, LinkedIn, NEW id \in Ids, Reject(id)
    PROVE  ApplyInv'
<1> DEFINE plan == <<Skip("rejected"), Do("unpend")>>
<1>1. Quiet
  BY DEF Reject, Aside, env, Quiet, ApplyInv, Types, SoundDB
<1>2. /\ "write" \in PCs /\ "reject" \in Modes /\ plan \in Seq(Plain \cup Ends(Outcomes))
      /\ "write" \notin Begun \cup Clicked /\ plan # <<>>
  BY EarlyPlans DEF PCs, Modes, Begun, Clicked
<1> HIDE DEF plan
<1>3. proc' = [proc EXCEPT !["user"] = [pc |-> "write", mode |-> "reject", id |-> id, att |-> 0, plan |-> plan]]
  <2> DEFINE r0 == [Idle EXCEPT !.pc = "write"]
  <2> DEFINE r1 == [r0 EXCEPT !.mode = "reject"]
  <2> DEFINE r2 == [r1 EXCEPT !.id = id]
  <2> DEFINE r3 == [r2 EXCEPT !.plan = plan]
  <2>1. proc' = [proc EXCEPT !["user"] = r3]
    BY DEF Reject, plan
  <2>2. r0 = [pc |-> "write", mode |-> "none", id |-> Site, att |-> 0, plan |-> <<>>]
    BY DEF Idle
  <2> HIDE DEF r0
  <2>3. r1 = [pc |-> "write", mode |-> "reject", id |-> Site, att |-> 0, plan |-> <<>>]
    BY <2>2
  <2> HIDE DEF r1
  <2>4. r2 = [pc |-> "write", mode |-> "reject", id |-> id, att |-> 0, plan |-> <<>>]
    BY <2>3
  <2> HIDE DEF r2
  <2>5. r3 = [pc |-> "write", mode |-> "reject", id |-> id, att |-> 0, plan |-> plan]
    BY <2>4
  <2> HIDE DEF r3
  <2> QED BY <2>1, <2>5
<1> QED BY <1>1, <1>2, <1>3, BotIsAProcess, Anew

LEMMA SiteKeeps ==
    ASSUME ApplyInv, LinkedIn, SiteShowsApplied
    PROVE  ApplyInv'
<1>1. Quiet /\ proc' = proc
  BY StillIsQuiet DEF SiteShowsApplied
<1> QED BY <1>1, Unmoved

LEMMA CrashKeeps ==
    ASSUME ApplyInv, LinkedIn, Crash
    PROVE  ApplyInv'
<1>1. /\ scenario' = scenario /\ db' = db /\ page' = page /\ clicked' = clicked /\ started' = started
      /\ todo' = {} /\ proc' = [p \in Procs |-> Idle]
  BY DEF Crash, env
<1>2. Types'
  BY <1>1, IdleIsIdle DEF ApplyInv, Types, SoundDB
<1>3. \A p \in Procs : proc'[p] = Idle
  BY <1>1
<1>4. Fits(Idle, db'.attempts, clicked', page', started') /\ ~Armed(Idle, db'.attempts)
  <2>1. started' \in Nat
    BY <1>2, MaxAttemptsAssumption DEF Types
  <2> QED BY <2>1, IdleIsIdle DEF Fits, Armed, PastCheck, Begun, Clicked
<1>5. Goroutines'
  BY <1>3, <1>4, IdleIsIdle DEF Goroutines
<1>6. Log'
  BY <1>1 DEF ApplyInv, Log
<1> QED BY <1>2, <1>5, <1>6 DEF ApplyInv

-----------------------------------------------------------------------------
(* The theorems. *)

LEMMA LinkedInStays ==
    ASSUME [Next]_vars, scenario \in Scenarios
    PROVE  scenario' = scenario
<1> USE DEF env, Still, AtWork, Aside
<1>1. CASE UNCHANGED vars
  BY <1>1 DEF vars
<1>2. CASE BotStep
  BY <1>2 DEF BotStep, BotStart, BotEnds, NextPhase, Search, Judge, Submit, OpenPage, RetryDone, Consume,
              SubmitQueued, RetryEvaluation, RecheckTopMatch
<1>3. CASE OpenApproved \/ Handlers \/ SiteShowsApplied \/ Crash
  BY <1>3 DEF OpenApproved, Handlers, Approve, Reject, DeletePendingReview, MarkApplied, RetryCannotApply,
              LetGo, SiteShowsApplied, Crash
<1>4. CASE \E p \in Procs : Applier(p)
  BY <1>4 DEF Applier, Write, Check, Entry, SilentSubmit, MarkDispatch, Click, Confirm, Reconfirm
<1>5. CASE \E u \in Urls : UrlStep(u)
  BY <1>5 DEF UrlStep, ApplyFromURL, UrlGuard, UrlFast, UrlOpen, UrlEvaluate
<1> QED BY <1>1, <1>2, <1>3, <1>4, <1>5 DEF Next

\* Whoever is about to press has the posting open in a tab of its own.
Loaded == \A p \in Procs : proc[p].pc \in {"mark", "click"} => p \in openTabs

LEMMA OneLoads ==
    ASSUME Loaded, proc \in [Procs -> Processes], NEW p \in Procs, NEW r2,
           proc' = [proc EXCEPT ![p] = r2], openTabs \ {p} \subseteq openTabs',
           r2.pc \in {"mark", "click"} => p \in openTabs'
    PROVE  Loaded'
  BY DEF Loaded

LEMMA ResultLoads ==
    ASSUME ApplyInv, Loaded, NEW p \in Procs, NEW plan, Result(p, plan), openTabs \ {p} \subseteq openTabs'
    PROVE  Loaded'
<1>1. proc \in [Procs -> Processes] /\ proc[p] \in Processes
  BY AtWorkFits
<1>2. CASE plan = <<>>
  <2>1. proc' = [proc EXCEPT ![p] = Returned(p)] /\ Returned(p).pc \in {"idle", "done", "next"}
    BY <1>2, Returns DEF Result
  <2> QED BY <1>1, <2>1, OneLoads
<1>3. CASE plan # <<>>
  <2> DEFINE r2 == [proc[p] EXCEPT !.pc = "write", !.plan = plan]
  <2>1. proc' = [proc EXCEPT ![p] = r2] /\ r2.pc = "write"
    BY <1>1, <1>3 DEF Result, Processes
  <2> HIDE DEF r2
  <2> QED BY <1>1, <2>1, OneLoads
<1> QED BY <1>2, <1>3

LEMMA GotoLoads ==
    ASSUME ApplyInv, Loaded, NEW p \in Procs, NEW pc2, Goto(p, pc2), openTabs \ {p} \subseteq openTabs',
           pc2 \in {"mark", "click"} => p \in openTabs'
    PROVE  Loaded'
<1> DEFINE r2 == [proc[p] EXCEPT !.pc = pc2]
<1>1. proc \in [Procs -> Processes] /\ proc[p] \in Processes
  BY AtWorkFits
<1>2. proc' = [proc EXCEPT ![p] = r2] /\ r2.pc = pc2
  BY <1>1 DEF Goto, Processes
<1> HIDE DEF r2
<1> QED BY <1>1, <1>2, OneLoads

\* Only entering the form leads to a press, and it asks for the tab; a tab is lost
\* when its own goroutine loads again or ends, and in a crash.
LEMMA LoadedStays ==
    ASSUME ApplyInv, LinkedIn, Loaded, [Next]_vars
    PROVE  Loaded'
<1> USE BotIsAProcess
<1>1. proc \in [Procs -> Processes] /\ \A p \in Procs : proc[p] \in Processes
  BY AtWorkFits
<1>2. CASE UNCHANGED vars
  BY <1>2 DEF vars, Loaded
<1>3. CASE BotStep
  <2>1. CASE Judge \/ OpenPage
    <3>1. openTabs \ {"bot"} \subseteq openTabs'
      BY <2>1 DEF Judge, OpenPage, Loads
    <3>2. (\E plan : Result("bot", plan)) \/ Goto("bot", "check")
      BY <2>1 DEF Judge, OpenPage, Applying
    <3> QED BY <3>1, <3>2, ResultLoads, GotoLoads
  <2>2. CASE Search \/ RetryDone
    <3>1. openTabs \ {"bot"} \subseteq openTabs'
      BY <2>2 DEF Search, RetryDone, Loads
    <3>2. \/ Goto("bot", "looked") \/ Goto("bot", "consume")
          \/ proc' = [proc EXCEPT !["bot"] = [Idle EXCEPT !.pc = "next", !.mode = "queue"]]
      BY <2>2 DEF Search, RetryDone
    <3>3. proc' = [proc EXCEPT !["bot"] = [Idle EXCEPT !.pc = "next", !.mode = "queue"]] => Loaded'
      BY <1>1, <3>1, OneLoads, AtTheQueue
    <3> QED BY <3>1, <3>2, <3>3, GotoLoads
  <2>3. CASE BotStart \/ BotEnds \/ Consume
    <3>1. openTabs' = openTabs
      BY <2>3 DEF BotStart, BotEnds, Consume
    <3>2. \/ proc' = [proc EXCEPT !["bot"] = Idle]
          \/ proc' = [proc EXCEPT !["bot"] = [Idle EXCEPT !.pc = "next", !.mode = "queue"]]
      BY <2>3 DEF BotStart, BotEnds, Consume
    <3> QED BY <1>1, <3>1, <3>2, OneLoads, AtTheQueue, IdleIsIdle
  <2>4. CASE NextPhase
    <3> DEFINE r2 == [proc["bot"] EXCEPT !.mode = "search"]
    <3>1. proc' = [proc EXCEPT !["bot"] = r2] /\ r2.pc = "next" /\ openTabs' = openTabs
      BY <1>1, <2>4 DEF NextPhase, Bot, Processes
    <3> HIDE DEF r2
    <3> QED BY <1>1, <3>1, OneLoads
  <2>5. CASE Submit \/ \E id \in Ids : SubmitQueued(id)
    <3>1. openTabs' = openTabs /\ \E mode, id, job : Begin("bot", mode, id, job, "open")
      BY <2>5 DEF Submit, SubmitQueued
    <3> QED BY <1>1, <3>1, OneLoads DEF Begin
  <2>6. ASSUME NEW id \in Ids, RetryEvaluation(id)
        PROVE  Loaded'
    <3>1. openTabs \ {"bot"} \subseteq openTabs'
      BY <2>6 DEF RetryEvaluation, Loads
    <3>2. CASE proc' = proc /\ openTabs' = openTabs
      BY <3>2 DEF Loaded
    <3>3. CASE proc' = [proc EXCEPT !["bot"] =
                            [pc |-> "looked", mode |-> "retry", id |-> id, att |-> 0, plan |-> <<>>]]
      BY <1>1, <3>1, <3>3, OneLoads
    <3> QED BY <2>6, <3>2, <3>3 DEF RetryEvaluation, Idle
  <2>7. ~(\E id \in Ids : RecheckTopMatch(id))
    BY DEF RecheckTopMatch, ApplyInv, Types
  <2> QED BY <1>3, <2>1, <2>2, <2>3, <2>4, <2>5, <2>6, <2>7 DEF BotStep
<1>4. CASE OpenApproved
  <2>1. openTabs \ {"approver"} \subseteq openTabs'
    BY <1>4 DEF OpenApproved, Loads
  <2>2. (\E plan : Result("approver", plan)) \/ Goto("approver", "check")
    BY <1>4 DEF OpenApproved, Applying
  <2> QED BY <2>1, <2>2, ResultLoads, GotoLoads
<1>5. CASE SiteShowsApplied
  BY <1>5 DEF SiteShowsApplied, Loaded
<1>6. CASE Crash
  <2>1. \A p \in Procs : proc'[p] = Idle
    BY <1>6 DEF Crash
  <2> QED BY <2>1, IdleIsIdle DEF Loaded
<1>7. ASSUME NEW id \in Ids, Approve(id) \/ Reject(id) \/ DeletePendingReview(id)
                              \/ MarkApplied(id) \/ RetryCannotApply(id) \/ LetGo(id)
      PROVE  Loaded'
  <2>1. CASE Approve(id)
    <3>1. openTabs' = openTabs /\ Begin("approver", "approve", id, {id}, "open")
      BY <2>1 DEF Approve
    <3> QED BY <1>1, <3>1, OneLoads DEF Begin
  <2>2. CASE Reject(id)
    <3> DEFINE plan == <<Skip("rejected"), Do("unpend")>>
    <3> DEFINE r2 == [Idle EXCEPT !.pc = "write", !.mode = "reject", !.id = id, !.plan = plan]
    <3>1. proc' = [proc EXCEPT !["user"] = r2] /\ openTabs' = openTabs
      BY <2>2 DEF Reject, Aside
    <3>2. r2.pc = "write"
      <4> HIDE DEF plan
      <4> QED BY DEF Idle
    <3> HIDE DEF r2
    <3> QED BY <1>1, <3>1, <3>2, OneLoads
  <2>3. CASE DeletePendingReview(id) \/ MarkApplied(id) \/ RetryCannotApply(id) \/ LetGo(id)
    BY <2>3 DEF DeletePendingReview, MarkApplied, RetryCannotApply, LetGo, Aside, Loaded
  <2> QED BY <1>7, <2>1, <2>2, <2>3
<1>8. ASSUME NEW p \in Procs, Applier(p)
      PROVE  Loaded'
  <2>1. CASE Write(p)
    <3> DEFINE rest == Tail(proc[p].plan)
    <3> DEFINE r2 == IF rest = <<>> THEN Returned(p) ELSE [proc[p] EXCEPT !.plan = rest]
    <3>1. proc' = [proc EXCEPT ![p] = r2] /\ openTabs \ {p} \subseteq openTabs' /\ proc[p].pc = "write"
      BY <2>1 DEF Write
    <3>2. r2.pc \in {"idle", "done", "next", "write"}
      <4>1. CASE rest = <<>>
        BY <4>1, Returns
      <4>2. CASE rest # <<>>
        <5>1. r2 = [proc[p] EXCEPT !.plan = rest]
          BY <4>2
        <5> HIDE DEF r2, rest
        <5> QED BY <1>1, <3>1, <5>1 DEF Processes
      <4> QED BY <4>1, <4>2
    <3> HIDE DEF r2, rest
    <3> QED BY <1>1, <3>1, <3>2, OneLoads
  <2>2. CASE Check(p) \/ Entry(p) \/ MarkDispatch(p) \/ Click(p) \/ Confirm(p) \/ Reconfirm(p)
    <3>1. openTabs' = openTabs
      BY <2>2 DEF Check, Entry, MarkDispatch, Click, Confirm, Reconfirm
    <3>2. \/ \E plan : Result(p, plan)
          \/ \E pc2 : Goto(p, pc2) /\ (pc2 \in {"mark", "click"} => p \in openTabs)
      <4>1. \A r : Outcome(p, r) => \E plan : Result(p, plan)
        BY DEF Outcome
      <4>2. CASE Check(p)
        BY <4>1, <4>2 DEF Check
      <4>3. CASE Entry(p)
        BY <4>1, <4>3 DEF Entry
      <4>4. CASE MarkDispatch(p)
        BY <4>1, <4>4 DEF MarkDispatch, Loaded
      <4>5. CASE Click(p)
        BY <4>1, <4>5 DEF Click
      <4>6. CASE Confirm(p)
        BY <4>1, <4>6 DEF Confirm
      <4>7. CASE Reconfirm(p)
        BY <4>1, <4>7 DEF Reconfirm
      <4> QED BY <2>2, <4>2, <4>3, <4>4, <4>5, <4>6, <4>7
    <3>3. openTabs \ {p} \subseteq openTabs'
      BY <3>1
    <3> QED BY <3>1, <3>2, <3>3, ResultLoads, GotoLoads
  <2>3. ~SilentSubmit(p)
    BY DEF SilentSubmit
  <2> QED BY <1>8, <2>1, <2>2, <2>3 DEF Applier
<1>9. ASSUME NEW u \in Urls, UrlStep(u)
      PROVE  Loaded'
  <2>1. openTabs \ {u} \subseteq openTabs'
    BY <1>9 DEF UrlStep, ApplyFromURL, UrlGuard, UrlFast, UrlOpen, UrlEvaluate, Loads
  <2>2. CASE ApplyFromURL(u)
    <3>1. \E id : Begin(u, "url", id, {}, "guard")
      BY <2>2 DEF ApplyFromURL
    <3> QED BY <1>1, <2>1, <3>1, OneLoads DEF Begin
  <2>3. CASE UrlGuard(u) \/ UrlFast(u) \/ UrlEvaluate(u)
    <3>1. (\E plan : Result(u, plan)) \/ Goto(u, "fast") \/ Goto(u, "open") \/ Goto(u, "check")
      BY <2>3 DEF UrlGuard, UrlFast, UrlEvaluate, Applying
    <3> QED BY <2>1, <3>1, ResultLoads, GotoLoads
  <2>4. CASE UrlOpen(u)
    <3> DEFINE early == [proc[u] EXCEPT !.pc = "write", !.id = Site,
                                        !.plan = <<Failure("retryable"), F("other")>>]
    <3>1. \/ \E plan : Result(u, plan)
          \/ Goto(u, "evaluate")
          \/ proc' = [proc EXCEPT ![u].pc = "write", ![u].id = Site,
                                  ![u].plan = <<Failure("retryable"), F("other")>>]
      BY <2>4 DEF UrlOpen
    <3>2. CASE proc' = [proc EXCEPT ![u].pc = "write", ![u].id = Site,
                                    ![u].plan = <<Failure("retryable"), F("other")>>]
      <4>1. proc' = [proc EXCEPT ![u] = early]
        BY <1>1, <3>2
      <4>2. early.pc = "write"
        <5> DEFINE plan == <<Failure("retryable"), F("other")>>
        <5> HIDE DEF plan
        <5>1. [proc[u] EXCEPT !.pc = "write", !.id = Site, !.plan = plan].pc = "write"
          BY <1>1 DEF Processes
        <5> QED BY <5>1 DEF plan
      <4> HIDE DEF early
      <4> QED BY <1>1, <2>1, <4>1, <4>2, OneLoads
    <3> QED BY <2>1, <3>1, <3>2, ResultLoads, GotoLoads
  <2> QED BY <1>9, <2>2, <2>3, <2>4 DEF UrlStep
<1> QED BY <1>2, <1>3, <1>4, <1>5, <1>6, <1>7, <1>8, <1>9 DEF Next, Handlers

\* On LinkedIn nothing is pressed but by a click.
LEMMA OnlyClicksPress ==
    ASSUME [Next]_vars, LinkedIn, clicked' # clicked
    PROVE  \E p \in Procs : Click(p)
<1> USE DEF Still, AtWork, Aside
<1>1. ~UNCHANGED vars
  BY DEF vars
<1>2. ~BotStep
  BY DEF BotStep, BotStart, BotEnds, NextPhase, Search, Judge, Submit, OpenPage, RetryDone, Consume,
         SubmitQueued, RetryEvaluation, RecheckTopMatch
<1>3. ~(OpenApproved \/ Handlers \/ SiteShowsApplied \/ Crash)
  BY DEF OpenApproved, Handlers, Approve, Reject, DeletePendingReview, MarkApplied, RetryCannotApply,
         LetGo, SiteShowsApplied, Crash
<1>4. ~(\E u \in Urls : UrlStep(u))
  BY DEF UrlStep, ApplyFromURL, UrlGuard, UrlFast, UrlOpen, UrlEvaluate
<1>5. \A p \in Procs : ~(Write(p) \/ Check(p) \/ Entry(p) \/ SilentSubmit(p) \/ MarkDispatch(p)
                          \/ Confirm(p) \/ Reconfirm(p))
  BY DEF Write, Check, Entry, SilentSubmit, MarkDispatch, Confirm, Reconfirm
<1> QED BY <1>1, <1>2, <1>3, <1>4, <1>5 DEF Next, Applier

\* Seek's site may take an application at any time: nothing is claimed of it.
ApplicationsInv == scenario \in Scenarios /\ (LinkedIn => ApplyInv /\ Loaded)

LEMMA ApplicationsInit ==
    ASSUME Init
    PROVE  ApplicationsInv
<1>1. SoundDB(db) /\ \A a \in Attempts : ~db.attempts[a].row
  <2>1. PICK q \in {"no", "apply"} : db = [EmptyDB EXCEPT !.queue[Site] = q]
    BY DEF Init
  <2>2. db.attempts = [a \in Attempts |-> None] /\ {"attempts", "queue"} \subseteq DOMAIN db
    BY <2>1 DEF EmptyDB
  <2>3. db.queue \in [Ids -> {"no", "apply", "evaluate"}]
    BY <2>1 DEF EmptyDB
  <2> QED BY <2>2, <2>3 DEF SoundDB, None
<1>2. Types
  BY <1>1, IdleIsIdle, MaxAttemptsAssumption DEF Init, Types
<1>3. \A p \in Procs : proc[p] = Idle
  BY DEF Init
<1>4. Fits(Idle, db.attempts, clicked, page, started) /\ ~Armed(Idle, db.attempts)
  BY IdleIsIdle DEF Init, Fits, Armed, PastCheck, Begun, Clicked
<1>5. Goroutines
  BY <1>3, <1>4, IdleIsIdle DEF Goroutines
<1>6. Log
  BY <1>1 DEF Init, Log
<1>7. Loaded
  BY <1>3, IdleIsIdle DEF Loaded
<1> QED BY <1>2, <1>5, <1>6, <1>7 DEF ApplicationsInv, ApplyInv, Types

LEMMA ApplicationsStep ==
    ASSUME ApplicationsInv, [Next]_vars
    PROVE  ApplicationsInv'
<1>1. scenario' = scenario /\ scenario \in Scenarios
  BY LinkedInStays DEF ApplicationsInv
<1> SUFFICES ASSUME LinkedIn, ApplyInv, Loaded
             PROVE  ApplyInv'
  BY <1>1, LoadedStays DEF ApplicationsInv, LinkedIn
<1>2. CASE UNCHANGED vars
  <2>1. Quiet /\ proc' = proc
    BY <1>2 DEF vars, Quiet, ApplyInv, Types
  <2> QED BY <2>1, Unmoved
<1>3. CASE BotStep
  BY <1>3, BotStartKeeps, BotEndsKeeps, NextPhaseKeeps, SearchKeeps, JudgeKeeps, SubmitKeeps, OpenPageKeeps,
     RetryDoneKeeps, ConsumeKeeps, SubmitQueuedKeeps, RetryEvaluationKeeps, RecheckTopMatchKeeps DEF BotStep
<1>4. CASE Handlers
  BY <1>4, ApproveKeeps, RejectKeeps, HandlersKeep DEF Handlers
<1>5. CASE OpenApproved \/ SiteShowsApplied \/ Crash
  BY <1>5, OpenApprovedKeeps, SiteKeeps, CrashKeeps
<1>6. ASSUME NEW p \in Procs, Applier(p)
      PROVE  ApplyInv'
  <2>1. ~SilentSubmit(p)
    BY DEF SilentSubmit
  <2> QED BY <1>6, <2>1, WriteKeeps, CheckKeeps, EntryKeeps, MarkDispatchKeeps, ClickKeeps, ConfirmKeeps,
             ReconfirmKeeps DEF Applier
<1>7. ASSUME NEW u \in Urls, UrlStep(u)
      PROVE  ApplyInv'
  BY <1>7, ApplyFromURLKeeps, UrlGuardKeeps, UrlFastKeeps, UrlOpenKeeps, UrlEvaluateKeeps DEF UrlStep
<1> QED BY <1>2, <1>3, <1>4, <1>5, <1>6, <1>7 DEF Next

LEMMA ApplicationsInvariant == Spec => []ApplicationsInv
  BY ApplicationsInit, ApplicationsStep, PTL DEF Spec

\* On LinkedIn, for any number of attempts and pasted addresses, crashes and failed
\* statements: an attempt presses submit after another only when every earlier press was
\* confirmed and the page shows it, and only from a tab that was loaded before it did
\* (unresolvedSubmission, markAttemptSubmitDispatch and every caller of easyApply).
THEOREM SecondClicksAreStale == Spec => SecondClickIsStale
<1> DEFINE Fine == LinkedIn /\ clicked' # clicked /\ clicked # {} =>
                      /\ page = "applied" /\ \A a \in clicked : db.attempts[a].outcome = "submitted_confirmed"
                      /\ \E p \in openTabs : clicked' = clicked \cup {proc[p].att}
<1>1. ASSUME ApplicationsInv, [Next]_vars
      PROVE  Fine
  <2> SUFFICES ASSUME LinkedIn, clicked' # clicked, clicked # {}
               PROVE  /\ page = "applied" /\ \A a \in clicked : db.attempts[a].outcome = "submitted_confirmed"
                      /\ \E p \in openTabs : clicked' = clicked \cup {proc[p].att}
    OBVIOUS
  <2>1. ApplyInv /\ Loaded
    BY <1>1 DEF ApplicationsInv
  <2>2. PICK p \in Procs : Click(p)
    BY <1>1, OnlyClicksPress
  <2>3. proc[p].pc = "click" /\ p \in openTabs /\ clicked' = clicked \cup {proc[p].att}
    BY <2>1, <2>2 DEF Click, Loaded
  <2>4. Armed(proc[p], db.attempts)
    BY <2>1, <2>3, AtWorkFits DEF Armed, PastCheck, Fits
  <2>5. \A a \in clicked : db.attempts[a].outcome = "submitted_confirmed"
    BY <2>1, <2>4 DEF ApplyInv, Goroutines, AllConfirmed
  <2>6. page = "applied"
    BY <2>1, <2>5 DEF ApplyInv, Log
  <2> QED BY <2>3, <2>5, <2>6
<1>2. Spec => [][Fine]_vars
  BY <1>1, ApplicationsInvariant, PTL DEF Spec
<1> QED BY <1>2 DEF SecondClickIsStale

\* An attempt that pressed LinkedIn's submit has its row, and the row says that it is
\* under way, unknown or confirmed: no caller records it as an ordinary failure
\* (linkedInReviewOutcome, recordApplyFailure, queueApplyOutcome and finishAttempt).
THEOREM NoClickIsForgotten == Spec => []ClickIsKnown
<1>1. ASSUME ApplicationsInv
      PROVE  ClickIsKnown
  BY <1>1 DEF ApplicationsInv, ApplyInv, Log, ClickIsKnown
<1> QED BY <1>1, ApplicationsInvariant, PTL

-----------------------------------------------------------------------------
(* Every path ends its attempt, on either site. *)

\* What a result may run when it ends its attempt, and the results that do.
Final == Plain \cup Ends(Outcomes \ {"in_progress"})
FinalPlans == {q \in Seq(Final) : \E k \in DOMAIN q : q[k] \notin Plain}

\* From the beginning of an attempt to its end.
Busy(r) == r.pc \in Begun \cup Clicked \/ (r.pc = "write" /\ r.plan \in FinalPlans)

Planned(r) ==
    /\ r \in Processes /\ r.plan \in Seq(Final)
    /\ r.pc = "write" => r.plan # <<>>
    /\ r.pc = "looked" => r.mode \in {"search", "retry"}
    /\ r.pc \in Begun \cup Clicked => r.mode \in ApplyModes \cup {"top"}

InProgress(a) == db.attempts[a].row /\ db.attempts[a].outcome = "in_progress"

SettleInv ==
    /\ scenario \in Scenarios /\ SoundDB(db)
    /\ started \in Nat /\ started <= MaxAttempts /\ faults \in Nat
    /\ proc \in [Procs -> Processes] /\ \A p \in Procs : Planned(proc[p])
    /\ faults = 0 => \A a \in Attempts :
           InProgress(a) => \E p \in Procs : proc[p].att = a /\ Busy(proc[p])

\* Nothing but rows of the tables changes.
Calm == /\ scenario' = scenario /\ SoundDB(db') /\ db'.attempts = db.attempts
        /\ started' = started /\ faults' \in {faults, faults + 1}

\* What makes a result one that ends its attempt.
LEMMA FinalTuples ==
    /\ \A e \in Final \ Plain : <<e>> \in FinalPlans
    /\ \A x \in Final, e \in Final \ Plain : <<x, e>> \in FinalPlans
    /\ \A x, y \in Final, e \in Final \ Plain : <<x, y, e>> \in FinalPlans
    /\ \A x, y, z, u \in Final, e \in Final \ Plain : <<x, y, z, e, u>> \in FinalPlans
<1> DEFINE T == Final
<1>1. /\ \A x \in T : <<x>> \in Seq(T)
      /\ \A x, y \in T : <<x, y>> \in Seq(T)
      /\ \A x, y, z \in T : <<x, y, z>> \in Seq(T)
      /\ \A x, y, z, u, v \in T : <<x, y, z, u, v>> \in Seq(T)
  BY Tuples
<1>2. ASSUME NEW e \in Final \ Plain  PROVE <<e>> \in FinalPlans
  <2>1. 1 \in DOMAIN <<e>> /\ <<e>>[1] \notin Plain
    OBVIOUS
  <2> QED BY <1>1, <2>1 DEF FinalPlans
<1>3. ASSUME NEW x \in Final, NEW e \in Final \ Plain  PROVE <<x, e>> \in FinalPlans
  <2>1. 2 \in DOMAIN <<x, e>> /\ <<x, e>>[2] \notin Plain
    OBVIOUS
  <2> QED BY <1>1, <2>1 DEF FinalPlans
<1>4. ASSUME NEW x \in Final, NEW y \in Final, NEW e \in Final \ Plain  PROVE <<x, y, e>> \in FinalPlans
  <2>1. 3 \in DOMAIN <<x, y, e>> /\ <<x, y, e>>[3] \notin Plain
    OBVIOUS
  <2> QED BY <1>1, <2>1 DEF FinalPlans
<1>5. ASSUME NEW x \in Final, NEW y \in Final, NEW z \in Final, NEW u \in Final, NEW e \in Final \ Plain
      PROVE  <<x, y, z, e, u>> \in FinalPlans
  <2>1. 4 \in DOMAIN <<x, y, z, e, u>> /\ <<x, y, z, e, u>>[4] \notin Plain
    OBVIOUS
  <2> QED BY <1>1, <2>1 DEF FinalPlans
<1> QED BY <1>2, <1>3, <1>4, <1>5

LEMMA FinalJoined ==
    \A q \in Seq(Final), t \in FinalPlans : q \o t \in FinalPlans /\ t \o q \in FinalPlans
<1> SUFFICES ASSUME NEW q \in Seq(Final), NEW t \in FinalPlans
             PROVE  q \o t \in FinalPlans /\ t \o q \in FinalPlans
  OBVIOUS
<1>1. t \in Seq(Final) /\ \E k \in DOMAIN t : t[k] \notin Plain
  BY DEF FinalPlans
<1>2. PICK k \in 1..Len(t) : t[k] \notin Plain
  BY <1>1, LenProperties
<1>3. q \o t \in Seq(Final) /\ t \o q \in Seq(Final)
  BY <1>1
<1>4. (t \o q)[k] = t[k] /\ k \in 1..Len(t \o q)
  BY <1>1, <1>2, ConcatProperties, LenProperties
<1>5. (q \o t)[Len(q) + k] = t[k] /\ Len(q) + k \in 1..Len(q \o t)
  BY <1>1, <1>2, ConcatProperties, LenProperties
<1>6. DOMAIN (q \o t) = 1..Len(q \o t) /\ DOMAIN (t \o q) = 1..Len(t \o q)
  BY <1>3, LenProperties
<1> QED BY <1>2, <1>3, <1>4, <1>5, <1>6 DEF FinalPlans

LEMMA FinalTail ==
    \A q \in FinalPlans : q # <<>> /\ (Head(q) \in Plain => Tail(q) \in FinalPlans)
<1> SUFFICES ASSUME NEW q \in FinalPlans
             PROVE  q # <<>> /\ (Head(q) \in Plain => Tail(q) \in FinalPlans)
  OBVIOUS
<1>1. q \in Seq(Final)
  BY DEF FinalPlans
<1>2. PICK k \in 1..Len(q) : q[k] \notin Plain
  BY <1>1, LenProperties DEF FinalPlans
<1>3. q # <<>>
  BY <1>2
<1>4. ASSUME Head(q) \in Plain  PROVE Tail(q) \in FinalPlans
  <2>1. q[1] \in Plain
    BY <1>1, <1>3, <1>4
  <2>2. k # 1 /\ k \in Nat /\ Len(q) \in Nat
    BY <1>1, <1>2, <2>1, LenProperties
  <2>3. Tail(q) \in Seq(Final) /\ Len(Tail(q)) = Len(q) - 1 /\ k - 1 \in 1..Len(Tail(q))
    BY <1>1, <1>2, <1>3, <2>2
  <2>4. Tail(q)[k - 1] = q[k]
    BY <1>1, <1>2, <1>3, <2>2, <2>3
  <2>5. DOMAIN Tail(q) = 1..Len(Tail(q))
    BY <2>3, LenProperties
  <2> QED BY <1>2, <2>3, <2>4, <2>5 DEF FinalPlans
<1> QED BY <1>3, <1>4

LEMMA FinalStatements ==
    /\ Plain \subseteq Final /\ Final \subseteq Plain \cup Ends(Outcomes)
    /\ \A o \in Outcomes \ {"in_progress"} : F(o) \in Final \ Plain /\ NoJob(o) \in Final \ Plain
    /\ \A s \in Final \ Plain : s.arg # "in_progress"
    /\ "other" \in Outcomes \ {"in_progress"} /\ "submission_unknown" \in Outcomes \ {"in_progress"}
    /\ "submitted_confirmed" \in Outcomes \ {"in_progress"}
BY DEF Final, Ends, Plain, F, NoJob, S, Outcomes

\* Every branch of every caller ends the attempt: LinkedIn's and Seek's alike.
LEMMA EveryPlanEnds ==
    ASSUME NEW p \in Procs, proc[p].mode \in ApplyModes \cup {"top"}, NEW r \in Errors \cup Unsure
    PROVE  Plan(p, r) \in FinalPlans
<1> DEFINE E == Final \ Plain
<1>1. Ended(r) \in E /\ Settled(r) \in E /\ F("other") \in E /\ F("submission_unknown") \in E
  BY FinalStatements DEF Ended, Settled
<1>2. /\ Do("applied") \in Final /\ Do("preserve") \in Final /\ Do("count") \in Final /\ Do("unpend") \in Final
      /\ Do("unpendLink") \in Final /\ Do("unqueue") \in Final
      /\ Failure("unknown") \in Final /\ Failure("retryable") \in Final /\ Skip("retryable") \in Final
  BY PlainStatements, FinalStatements DEF Reasons
<1>3. Pend(FALSE) \in Final /\ S("keep", TRUE) \in Final /\ S("keep", FALSE) \in Final
  BY PlainStatements, FinalStatements
<1>4. SkipOrMatch(r) \in Final
  BY <1>2, <1>3, Zenon DEF SkipOrMatch
<1> HIDE DEF E
<1>5. /\ \A e \in E : <<e>> \in FinalPlans
      /\ \A x \in Final, e \in E : <<x, e>> \in FinalPlans
      /\ \A x, y \in Final, e \in E : <<x, y, e>> \in FinalPlans
      /\ \A x, y, z, u \in Final, e \in E : <<x, y, z, e, u>> \in FinalPlans
      /\ \A q \in Seq(Final), t \in FinalPlans : q \o t \in FinalPlans /\ t \o q \in FinalPlans
      /\ <<>> \in Seq(Final) /\ \A x \in Final : <<x>> \in Seq(Final)
      /\ \A q, t \in Seq(Final) : q \o t \in Seq(Final)
  BY FinalTuples, FinalJoined, Tuples DEF E
<1>6. ASSUME r \in Reviewed, NEW unqueue \in Seq(Final)  PROVE ReviewPlan(r, unqueue) \in FinalPlans
  <2>1. \A x \in Final, e \in E : <<x>> \o unqueue \o <<e>> \in FinalPlans
    BY <1>5, <1>6
  <2>2. CASE r \in {"unknown", "drift"}
    <3>1. ReviewPlan(r, unqueue) = <<Failure("unknown")>> \o unqueue \o <<F("submission_unknown")>>
      BY <2>2 DEF ReviewPlan
    <3> QED BY <1>1, <1>2, <2>1, <3>1
  <2>3. CASE r = "review"
    <3>1. ReviewPlan(r, unqueue) = <<Failure("retryable")>> \o unqueue \o <<F("other")>>
      BY <2>3 DEF ReviewPlan
    <3> QED BY <1>1, <1>2, <2>1, <3>1
  <2>4. CASE r = "external"
    <3>1. ReviewPlan(r, unqueue) = <<Do("preserve")>> \o unqueue \o <<F("other")>>
      BY <2>4 DEF ReviewPlan
    <3> QED BY <1>1, <1>2, <2>1, <3>1
  <2> QED BY <1>6, <2>2, <2>3, <2>4 DEF Reviewed
<1>7. <<Do("unqueue")>> \in Seq(Final) /\ <<>> \in Seq(Final)
  BY <1>2, <1>5
<1>8. SeekPlan(r) \in FinalPlans
  <2>1. SeekPlan(r) \in {<<Do("applied"), Settled(r)>>, <<SkipOrMatch(r), Ended(r)>>,
                         <<Pend(FALSE), F("other")>>, <<Skip("retryable"), F("other")>>}
    BY Zenon DEF SeekPlan
  <2>2. <<Pend(FALSE), F("other")>> \in FinalPlans
    BY <1>1, <1>3, <1>5, Zenon
  <2>3. <<SkipOrMatch(r), Ended(r)>> \in FinalPlans
    BY <1>1, <1>4, <1>5, Zenon
  <2>4. <<Do("applied"), Settled(r)>> \in FinalPlans /\ <<Skip("retryable"), F("other")>> \in FinalPlans
    BY <1>1, <1>2, <1>5, Zenon
  <2> QED BY <2>1, <2>2, <2>3, <2>4, Zenon
<1>9. EasyApplyPlan(r) \in FinalPlans
  <2>1. \/ r \in Reviewed /\ EasyApplyPlan(r) = ReviewPlan(r, <<>>)
        \/ EasyApplyPlan(r) \in {<<Do("applied"), Settled(r)>>, <<Pend(FALSE), F("other")>>,
                                 <<Skip("retryable"), F("other")>>}
    <3>1. CASE r \in Reviewed
      <4>1. EasyApplyPlan(r) = ReviewPlan(r, <<>>)
        BY <3>1 DEF EasyApplyPlan, Reviewed
      <4> QED BY <3>1, <4>1
    <3>2. CASE r \in {"ok", "already"}
      <4>1. EasyApplyPlan(r) = <<Do("applied"), Settled(r)>>
        BY <3>2 DEF EasyApplyPlan, Reviewed
      <4> QED BY <4>1
    <3>3. CASE r = "blocked"
      <4>1. EasyApplyPlan(r) = <<Pend(FALSE), F("other")>>
        BY <3>3 DEF EasyApplyPlan, Reviewed
      <4> QED BY <4>1
    <3>4. CASE r \notin Reviewed \cup {"ok", "already", "blocked"}
      <4>1. EasyApplyPlan(r) = <<Skip("retryable"), F("other")>>
        BY <3>4 DEF EasyApplyPlan
      <4> QED BY <4>1
    <3> QED BY <3>1, <3>2, <3>3, <3>4
  <2>2. <<Pend(FALSE), F("other")>> \in FinalPlans
    BY <1>1, <1>3, <1>5, Zenon
  <2>3. <<Do("applied"), Settled(r)>> \in FinalPlans /\ <<Skip("retryable"), F("other")>> \in FinalPlans
    BY <1>1, <1>2, <1>5, Zenon
  <2> QED BY <1>6, <1>7, <2>1, <2>2, <2>3, Zenon
<1>10. TopMatchPlan(r) \in FinalPlans
  <2>1. TopMatchPlan(r) \in {SeekPlan(r) \o <<Do("count")>>, SeekPlan(r) \o <<Do("unpend")>>}
    BY DEF TopMatchPlan
  <2>2. <<Do("count")>> \in Seq(Final) /\ <<Do("unpend")>> \in Seq(Final)
    BY <1>2, <1>5
  <2> QED BY <1>5, <1>8, <2>1, <2>2, Zenon
<1>11. QueuePlan(r) \in FinalPlans
  <2> DEFINE q == <<Do("unqueue")>>
  <2>1. q \in Seq(Final)
    BY <1>7
  <2>2. \/ r \in Reviewed /\ QueuePlan(r) = ReviewPlan(r, q)
        \/ QueuePlan(r) = q \o <<Failure("unknown"), F("submission_unknown")>>
        \/ QueuePlan(r) = q \o <<Settled(r)>>
        \/ QueuePlan(r) = <<Do("applied")>> \o q \o <<Settled(r)>>
        \/ QueuePlan(r) = <<Skip("retryable")>> \o q \o <<Ended(r)>>
        \/ QueuePlan(r) = <<SkipOrMatch(r)>> \o q \o <<Ended(r)>>
    BY DEF QueuePlan, Reviewed
  <2> HIDE DEF q
  <2>3. \A x \in Final, e \in E : <<x>> \o q \o <<e>> \in FinalPlans
    BY <1>5, <2>1
  <2>4. q \o <<Failure("unknown"), F("submission_unknown")>> \in FinalPlans /\ q \o <<Settled(r)>> \in FinalPlans
    BY <1>1, <1>2, <1>5, <2>1
  <2>5. <<SkipOrMatch(r)>> \o q \o <<Ended(r)>> \in FinalPlans
    BY <1>1, <1>4, <2>3, Zenon
  <2>6. /\ <<Do("applied")>> \o q \o <<Settled(r)>> \in FinalPlans
        /\ <<Skip("retryable")>> \o q \o <<Ended(r)>> \in FinalPlans
    BY <1>1, <1>2, <2>3, Zenon
  <2> QED BY <1>6, <2>1, <2>2, <2>4, <2>5, <2>6, Zenon
<1>12. ApprovePlan(r) \in FinalPlans
  <2>1. \/ r \in Reviewed /\ ApprovePlan(r) = ReviewPlan(r, <<Do("unqueue")>>)
        \/ ApprovePlan(r) = <<Do("applied"), Do("unpendLink"), Do("unqueue"), Settled(r), Do("unpend")>>
        \/ ApprovePlan(r) = <<F("other")>>
        \/ ApprovePlan(r) = <<S("keep", TRUE), Do("count"), F("other")>>
        \/ ApprovePlan(r) = <<Skip("retryable"), Do("count"), Ended(r)>>
    <3>1. CASE r \in Reviewed
      <4>1. ApprovePlan(r) = ReviewPlan(r, <<Do("unqueue")>>)
        BY <3>1 DEF ApprovePlan, Reviewed, TopMatchTexts
      <4> QED BY <3>1, <4>1
    <3>2. CASE r \in {"ok", "already"}
      BY <3>2 DEF ApprovePlan, Reviewed, TopMatchTexts
    <3>3. CASE r = "quota"
      BY <3>3 DEF ApprovePlan, Reviewed, TopMatchTexts
    <3>4. CASE r \in TopMatchTexts
      BY <3>4 DEF ApprovePlan, Reviewed, TopMatchTexts
    <3>5. CASE r \notin Reviewed \cup {"ok", "already", "quota"} \cup TopMatchTexts
      BY <3>5 DEF ApprovePlan
    <3> QED BY <3>1, <3>2, <3>3, <3>4, <3>5
  <2>2. <<S("keep", TRUE), Do("count"), F("other")>> \in FinalPlans
    BY <1>1, <1>2, <1>3, <1>5, Zenon
  <2>3. /\ <<Do("applied"), Do("unpendLink"), Do("unqueue"), Settled(r), Do("unpend")>> \in FinalPlans
        /\ <<F("other")>> \in FinalPlans /\ <<Skip("retryable"), Do("count"), Ended(r)>> \in FinalPlans
    BY <1>1, <1>2, <1>5, Zenon
  <2> QED BY <1>6, <1>7, <2>1, <2>2, <2>3, Zenon
<1>13. UrlPlan(r) \in FinalPlans
  <2>1. \/ r \in Reviewed /\ UrlPlan(r) = ReviewPlan(r, <<>>)
        \/ UrlPlan(r) = <<Do("applied"), Do("unpendLink"), Settled(r)>>
        \/ UrlPlan(r) = <<F("other")>>
        \/ UrlPlan(r) = <<F("submission_unknown")>>
        \/ UrlPlan(r) = <<>> \o <<F("other")>>
        \/ UrlPlan(r) = <<S("keep", FALSE)>> \o <<F("other")>>
        \/ UrlPlan(r) = <<>> \o <<Ended(r)>>
        \/ UrlPlan(r) = <<Skip("retryable")>> \o <<Ended(r)>>
    <3>1. CASE r \in Reviewed
      <4>1. UrlPlan(r) = ReviewPlan(r, <<>>)
        BY <3>1 DEF UrlPlan, Reviewed, TopMatchTexts
      <4> QED BY <3>1, <4>1
    <3>2. CASE r \in {"ok", "already"}
      BY <3>2 DEF UrlPlan, Reviewed, TopMatchTexts
    <3>5. CASE r \in {"quota", "notShown"}
      BY <3>5 DEF UrlPlan, Reviewed, TopMatchTexts
    <3>3. CASE r \in TopMatchTexts
      BY <3>3 DEF UrlPlan, Reviewed, TopMatchTexts
    <3>4. CASE r \notin Reviewed \cup {"ok", "already", "quota", "notShown"} \cup TopMatchTexts
      BY <3>4 DEF UrlPlan
    <3> QED BY <3>1, <3>2, <3>3, <3>4, <3>5
  <2>2. <<S("keep", FALSE)>> \o <<F("other")>> \in FinalPlans
    BY <1>1, <1>3, <1>5, Zenon
  <2>3. /\ <<>> \o <<F("other")>> \in FinalPlans /\ <<>> \o <<Ended(r)>> \in FinalPlans
        /\ <<Skip("retryable")>> \o <<Ended(r)>> \in FinalPlans
    BY <1>1, <1>2, <1>5, Zenon
  <2>4. /\ <<Do("applied"), Do("unpendLink"), Settled(r)>> \in FinalPlans
        /\ <<F("other")>> \in FinalPlans /\ <<F("submission_unknown")>> \in FinalPlans
    BY <1>1, <1>2, <1>5, Zenon
  <2> QED BY <1>6, <1>7, <2>1, <2>2, <2>3, <2>4, Zenon
<1>14. Plan(p, r) \in {EasyApplyPlan(r), SeekPlan(r), TopMatchPlan(r), QueuePlan(r), ApprovePlan(r), UrlPlan(r)}
  BY DEF Plan, ApplyModes
<1> QED BY <1>8, <1>9, <1>10, <1>11, <1>12, <1>13, <1>14, Zenon

\* What becomes of the attempts in progress: p's step leaves them to a goroutine.
LEMMA Hands ==
    \A p \in Procs : \A r2 :
        /\ SettleInv /\ Planned(r2) /\ proc' = [proc EXCEPT ![p] = r2]
        /\ scenario' = scenario /\ SoundDB(db') /\ started' \in Nat /\ started' <= MaxAttempts
        /\ faults' \in {faults, faults + 1}
        /\ faults' = 0 => \A a \in Attempts :
               db'.attempts[a].row /\ db'.attempts[a].outcome = "in_progress" =>
                   \/ r2.att = a /\ Busy(r2)
                   \/ InProgress(a) /\ ~(proc[p].att = a /\ Busy(proc[p]))
        => SettleInv'
<1> SUFFICES ASSUME NEW p \in Procs, NEW r2, SettleInv, Planned(r2), proc' = [proc EXCEPT ![p] = r2],
                    scenario' = scenario, SoundDB(db'), started' \in Nat, started' <= MaxAttempts,
                    faults' \in {faults, faults + 1},
                    faults' = 0 => \A a \in Attempts :
                        db'.attempts[a].row /\ db'.attempts[a].outcome = "in_progress" =>
                            \/ r2.att = a /\ Busy(r2)
                            \/ InProgress(a) /\ ~(proc[p].att = a /\ Busy(proc[p]))
             PROVE  SettleInv'
  OBVIOUS
<1>1. /\ proc'[p] = r2 /\ \A q \in Procs : q # p => proc'[q] = proc[q]
      /\ proc' \in [Procs -> Processes] /\ faults \in Nat /\ faults' \in Nat
      /\ faults' = 0 => faults = 0
  BY DEF SettleInv, Planned
<1>2. \A q \in Procs : Planned(proc'[q])
  BY <1>1 DEF SettleInv
<1>3. ASSUME faults' = 0, NEW a \in Attempts, db'.attempts[a].row, db'.attempts[a].outcome = "in_progress"
      PROVE  \E q \in Procs : proc'[q].att = a /\ Busy(proc'[q])
  <2>1. CASE r2.att = a /\ Busy(r2)
    BY <1>1, <2>1
  <2>2. CASE InProgress(a) /\ ~(proc[p].att = a /\ Busy(proc[p]))
    <3>1. PICK q \in Procs : proc[q].att = a /\ Busy(proc[q])
      BY <1>1, <1>3, <2>2 DEF SettleInv
    <3>2. q # p
      BY <2>2, <3>1
    <3> QED BY <1>1, <3>1, <3>2
  <2> QED BY <1>3, <2>1, <2>2
<1> QED BY <1>1, <1>2, <1>3 DEF SettleInv, InProgress, Planned, Busy

\* A step that leaves the log alone, and p working on its attempt if it was.
LEMMA Keeps ==
    \A p \in Procs : \A r2 :
        /\ SettleInv /\ Calm /\ Planned(r2) /\ proc' = [proc EXCEPT ![p] = r2]
        /\ Busy(proc[p]) => Busy(r2) /\ r2.att = proc[p].att
        => SettleInv'
<1> SUFFICES ASSUME NEW p \in Procs, NEW r2, SettleInv, Calm, Planned(r2), proc' = [proc EXCEPT ![p] = r2],
                    Busy(proc[p]) => Busy(r2) /\ r2.att = proc[p].att
             PROVE  SettleInv'
  OBVIOUS
<1>1. /\ scenario' = scenario /\ SoundDB(db') /\ started' \in Nat /\ started' <= MaxAttempts
      /\ faults' \in {faults, faults + 1}
  BY DEF Calm, SettleInv
<1>2. \A a \in Attempts :
          db'.attempts[a].row /\ db'.attempts[a].outcome = "in_progress" =>
              \/ r2.att = a /\ Busy(r2)
              \/ InProgress(a) /\ ~(proc[p].att = a /\ Busy(proc[p]))
  BY DEF Calm, InProgress
<1> QED BY <1>1, <1>2, Hands

LEMMA Stays ==
    ASSUME SettleInv, Calm, proc' = proc
    PROVE  SettleInv'
<1> DEFINE r2 == proc["bot"]
<1>1. /\ "bot" \in Procs /\ Planned(r2) /\ proc' = [proc EXCEPT !["bot"] = r2]
      /\ (Busy(proc["bot"]) => Busy(r2) /\ r2.att = proc["bot"].att)
  BY BotIsAProcess DEF SettleInv
<1> HIDE DEF r2
<1> QED BY <1>1, Keeps

\* What leaves the tables, the log and the bounds alone.
LEMMA StillIsCalm ==
    ASSUME SettleInv
    PROVE  UNCHANGED Still => Calm
BY DEF Still, env, Calm, SettleInv, SoundDB

\* p records a result that ends its attempt.
LEMMA Finishes ==
    \A p \in Procs, plan \in FinalPlans :
        SettleInv /\ Calm /\ Result(p, plan) => SettleInv'
<1> SUFFICES ASSUME NEW p \in Procs, NEW plan \in FinalPlans, SettleInv, Calm, Result(p, plan)
             PROVE  SettleInv'
  OBVIOUS
<1>1. plan # <<>> /\ plan \in Seq(Final)
  BY FinalTail DEF FinalPlans
<1>2. plan \in Seq(Plain \cup Ends(Outcomes))
  BY <1>1, FinalStatements, SeqMonotone
<1> DEFINE r1 == [proc[p] EXCEPT !.pc = "write"]
<1> DEFINE r2 == [r1 EXCEPT !.plan = plan]
<1>3. proc' = [proc EXCEPT ![p] = r2]
  BY <1>1 DEF Result, SettleInv, Processes
<1>4. proc[p] \in Processes /\ "write" \in PCs
  BY DEF SettleInv, PCs
<1>5. r1 \in Processes /\ r1.pc = "write" /\ r1.att = proc[p].att
  BY <1>4, NewPc
<1> HIDE DEF r1
<1>6. r2 \in Processes /\ r2.pc = "write" /\ r2.att = proc[p].att /\ r2.plan = plan
  BY <1>2, <1>5, NewPlan
<1> HIDE DEF r2
<1>7. Planned(r2) /\ Busy(r2)
  BY <1>1, <1>6 DEF Planned, Busy, Begun, Clicked
<1> QED BY <1>3, <1>6, <1>7, Keeps

\* p goes from one stage of its attempt to another.
LEMMA Advances ==
    \A p \in Procs, pc2 \in Begun \cup Clicked :
        SettleInv /\ Calm /\ proc[p].pc \in Begun \cup Clicked /\ Goto(p, pc2) => SettleInv'
<1> SUFFICES ASSUME NEW p \in Procs, NEW pc2 \in Begun \cup Clicked, SettleInv, Calm,
                    proc[p].pc \in Begun \cup Clicked, Goto(p, pc2)
             PROVE  SettleInv'
  OBVIOUS
<1> DEFINE r2 == [proc[p] EXCEPT !.pc = pc2]
<1>1. proc' = [proc EXCEPT ![p] = r2]
  BY DEF Goto
<1>2. proc[p] \in Processes /\ Planned(proc[p]) /\ pc2 \in PCs
  BY DEF SettleInv, Begun, Clicked, PCs
<1>3. r2 \in Processes /\ r2.pc = pc2 /\ r2.mode = proc[p].mode /\ r2.att = proc[p].att /\ r2.plan = proc[p].plan
  BY <1>2, NewPc
<1> HIDE DEF r2
<1>4. Planned(r2) /\ Busy(r2)
  BY <1>2, <1>3 DEF Planned, Busy, Begun, Clicked
<1> QED BY <1>1, <1>3, <1>4, Keeps

\* Of a goroutine that has no attempt nothing is asked.
LEMMA Idles ==
    \A p \in Procs : \A r2 :
        /\ SettleInv /\ Calm /\ Planned(r2) /\ proc' = [proc EXCEPT ![p] = r2]
        /\ proc[p].pc \in PCs \ (Begun \cup Clicked \cup {"write"})
        => SettleInv'
<1>1. \A r : r.pc \in PCs \ (Begun \cup Clicked \cup {"write"}) => ~Busy(r)
  BY DEF Busy
<1> QED BY <1>1, Keeps

\* A goroutine starts anew.
LEMMA Fresh ==
    \A pc \in PCs \ (Begun \cup Clicked \cup {"write"}), mode \in Modes, id \in Ids :
        (pc = "looked" => mode \in {"search", "retry"}) =>
            Planned([pc |-> pc, mode |-> mode, id |-> id, att |-> 0, plan |-> <<>>])
<1>1. <<>> \in Seq(Plain \cup Ends(Outcomes)) /\ <<>> \in Seq(Final) /\ 0 \in 0..MaxAttempts
  BY MaxAttemptsAssumption
<1> QED BY <1>1 DEF Planned, Processes

\* Where p goes when its result is recorded.
LEMMA PlannedReturn ==
    ASSUME NEW p \in Procs, Planned(proc[p])
    PROVE  Planned(Returned(p)) /\ ~Busy(Returned(p))
<1>1. proc[p] \in Processes /\ MaxAttempts \in Nat
  BY MaxAttemptsAssumption DEF Planned
<1>2. <<>> \in Seq(Plain \cup Ends(Outcomes)) /\ Site \in Ids /\ 0 \in 0..MaxAttempts
      /\ {"done", "next"} \subseteq PCs /\ <<>> \in Seq(Final)
  BY <1>1 DEF Site, Ids, PCs
<1>3. \A r : r \in Processes /\ r.pc \in {"idle", "done", "next"} /\ r.plan = <<>> => Planned(r) /\ ~Busy(r)
  BY <1>2 DEF Planned, Busy, Begun, Clicked
<1> DEFINE a == [proc[p] EXCEPT !.pc = "done"]
<1> DEFINE b == [a EXCEPT !.att = 0]
<1> DEFINE c == [b EXCEPT !.plan = <<>>]
<1>4. c \in Processes /\ c.pc = "done" /\ c.plan = <<>>
  <2>1. a \in Processes /\ a.pc = "done"
    BY <1>1, <1>2, NewPc
  <2> HIDE DEF a
  <2>2. b \in Processes /\ b.pc = "done"
    BY <1>2, <2>1, NewAtt
  <2> HIDE DEF b
  <2> QED BY <1>2, <2>2, NewPlan
<1> DEFINE d == [proc[p] EXCEPT !.pc = "next"]
<1> DEFINE e == [d EXCEPT !.id = Site]
<1> DEFINE f == [e EXCEPT !.att = 0]
<1> DEFINE g == [f EXCEPT !.plan = <<>>]
<1>5. g \in Processes /\ g.pc = "next" /\ g.plan = <<>>
  <2>1. d \in Processes /\ d.pc = "next"
    BY <1>1, <1>2, NewPc
  <2> HIDE DEF d
  <2>2. e \in Processes /\ e.pc = "next"
    BY <1>2, <2>1, NewId
  <2> HIDE DEF e
  <2>3. f \in Processes /\ f.pc = "next"
    BY <1>2, <2>2, NewAtt
  <2> HIDE DEF f
  <2> QED BY <1>2, <2>3, NewPlan
<1>6. Returned(p) \in {Idle, c, g}
  BY DEF Returned
<1> HIDE DEF c, g
<1>7. Idle \in Processes /\ Idle.pc = "idle" /\ Idle.plan = <<>>
  BY IdleIsIdle DEF Idle
<1> QED BY <1>3, <1>4, <1>5, <1>6, <1>7

\* A posting without an attempt is recorded.
LEMMA Reports ==
    \A p \in Procs, plan \in Seq(Plain) :
        SettleInv /\ Calm /\ Result(p, plan) /\ proc[p].pc \in PCs \ (Begun \cup Clicked \cup {"write"}) => SettleInv'
<1> SUFFICES ASSUME NEW p \in Procs, NEW plan \in Seq(Plain), SettleInv, Calm, Result(p, plan),
                    proc[p].pc \in PCs \ (Begun \cup Clicked \cup {"write"})
             PROVE  SettleInv'
  OBVIOUS
<1>1. plan \in Seq(Plain \cup Ends(Outcomes)) /\ plan \in Seq(Final)
  BY FinalStatements, SeqMonotone
<1>2. CASE plan = <<>>
  <2> DEFINE r2 == Returned(p)
  <2>1. proc' = [proc EXCEPT ![p] = r2] /\ Planned(r2)
    BY <1>2, PlannedReturn DEF Result, SettleInv
  <2> HIDE DEF r2
  <2> QED BY <2>1, Idles
<1>3. CASE plan # <<>>
  <2> DEFINE r1 == [proc[p] EXCEPT !.pc = "write"]
  <2> DEFINE r2 == [r1 EXCEPT !.plan = plan]
  <2>1. proc' = [proc EXCEPT ![p] = r2]
    BY <1>3 DEF Result, SettleInv, Processes
  <2>2. proc[p] \in Processes /\ "write" \in PCs
    BY DEF SettleInv, PCs
  <2>3. r1 \in Processes /\ r1.pc = "write"
    BY <2>2, NewPc
  <2> HIDE DEF r1
  <2>4. r2 \in Processes /\ r2.pc = "write" /\ r2.plan = plan
    BY <1>1, <2>3, NewPlan
  <2> HIDE DEF r2
  <2>5. Planned(r2)
    BY <1>1, <1>3, <2>4 DEF Planned, Begun, Clicked
  <2> QED BY <2>1, <2>5, Idles
<1> QED BY <1>2, <1>3

\* An attempt begins: its goroutine is the one that works on it.
LEMMA Begins ==
    \A p \in Procs, mode \in ApplyModes \cup {"top"}, id \in Ids, pc \in {"open", "guard"} : \A job :
        /\ SettleInv /\ Begin(p, mode, id, job, pc) /\ scenario' = scenario
        /\ proc[p].pc \in PCs \ (Begun \cup Clicked \cup {"write"})
        => SettleInv'
<1> SUFFICES ASSUME NEW p \in Procs, NEW mode \in ApplyModes \cup {"top"}, NEW id \in Ids,
                    NEW pc \in {"open", "guard"}, NEW job, SettleInv, Begin(p, mode, id, job, pc),
                    scenario' = scenario, proc[p].pc \in PCs \ (Begun \cup Clicked \cup {"write"})
             PROVE  SettleInv'
  OBVIOUS
<1> DEFINE a == started + 1
<1> DEFINE r2 == [pc |-> pc, mode |-> mode, id |-> id, att |-> a, plan |-> <<>>]
<1>1. scenario \in [site : {"linkedin", "seek"}, attempts : 1 .. MaxAttempts, disturbances : Nat]
  BY ScenariosAssumption DEF SettleInv
<1>2. /\ started \in Nat /\ MaxAttempts \in Nat /\ a \in 1..MaxAttempts /\ started' = a
      /\ started <= MaxAttempts /\ SoundDB(db) /\ faults \in Nat
  BY <1>1, MaxAttemptsAssumption DEF SettleInv, Begin
<1>3. a \in Attempts
  BY <1>2 DEF Attempts
<1>4. /\ SoundDB(db') /\ faults' \in {faults, faults + 1}
      /\ \A b \in Attempts : b # a => db'.attempts[b] = db.attempts[b]
  <2>1. CASE db' = db /\ faults' = faults + 1
    BY <1>2, <2>1
  <2>2. CASE (\E link : db' = BeginAttempt(db, a, job, link)) /\ faults' = faults
    BY <1>2, <1>3, <2>2, Beginnings
  <2> QED BY <2>1, <2>2 DEF Begin, Fault
<1>5. r2 \in Processes /\ r2.pc = pc /\ r2.mode = mode /\ r2.att = a /\ r2.plan = <<>>
  <2>1. <<>> \in Seq(Plain \cup Ends(Outcomes))
    OBVIOUS
  <2>2. a \in 0..MaxAttempts /\ pc \in PCs /\ mode \in Modes
    BY <1>2 DEF PCs, Modes, ApplyModes
  <2> HIDE DEF a
  <2> QED BY <2>1, <2>2 DEF Processes
<1>6. proc' = [proc EXCEPT ![p] = r2]
  BY DEF Begin
<1> HIDE DEF r2
<1>7. Planned(r2) /\ Busy(r2) /\ ~Busy(proc[p])
  BY <1>5 DEF Planned, Busy, Begun, Clicked
<1>8. \A b \in Attempts :
          db'.attempts[b].row /\ db'.attempts[b].outcome = "in_progress" =>
              \/ r2.att = b /\ Busy(r2)
              \/ InProgress(b) /\ ~(proc[p].att = b /\ Busy(proc[p]))
  BY <1>4, <1>5, <1>7 DEF InProgress
<1>9. started' \in Nat /\ started' <= MaxAttempts
  BY <1>2
<1> HIDE DEF a
<1> QED BY <1>4, <1>6, <1>7, <1>8, <1>9, Hands

\* A statement of a result: the one that ends the attempt says how it ended, and
\* the ones before it leave it to be ended.
LEMMA WriteSettles ==
    ASSUME SettleInv, NEW p \in Procs, Write(p)
    PROVE  SettleInv'
<1> DEFINE s == Head(proc[p].plan)
<1> DEFINE rest == Tail(proc[p].plan)
<1> DEFINE r2 == IF rest = <<>> THEN Returned(p) ELSE [proc[p] EXCEPT !.plan = rest]
<1>1. /\ proc[p].pc = "write" /\ proc[p].plan # <<>> /\ proc[p] \in Processes /\ proc[p].plan \in Seq(Final)
      /\ Planned(proc[p]) /\ SoundDB(db) /\ faults \in Nat /\ started \in Nat /\ started <= MaxAttempts
  BY DEF Write, SettleInv, Planned
<1>2. s \in Final /\ rest \in Seq(Final)
  BY <1>1, FirstAndRest
<1>3. s \in Plain \cup Ends(Outcomes) /\ rest \in Seq(Plain \cup Ends(Outcomes))
  BY <1>2, FinalStatements, SeqMonotone
<1>4. proc[p].plan \in FinalPlans /\ s \in Plain => rest \in FinalPlans /\ rest # <<>>
  BY FinalTail
<1>5. /\ proc' = [proc EXCEPT ![p] = r2] /\ scenario' = scenario /\ started' = started
      /\ \/ db' = Run(db, p, s) /\ faults' = faults
         \/ db' = db /\ faults' = faults + 1
  BY DEF Write, env, Fault
<1>6. Planned(r2) /\ (rest # <<>> => r2.att = proc[p].att /\ r2.pc = "write" /\ r2.plan = rest)
  <2>1. CASE rest = <<>>
    <3>1. r2 = Returned(p)
      BY <2>1
    <3> QED BY <1>1, <2>1, <3>1, PlannedReturn
  <2>2. CASE rest # <<>>
    <3>1. r2 = [proc[p] EXCEPT !.plan = rest]
      BY <2>2
    <3> HIDE DEF rest, r2
    <3>2. r2 \in Processes /\ r2.pc = "write" /\ r2.att = proc[p].att /\ r2.plan = rest
      BY <1>1, <1>3, <3>1, NewPlan
    <3> QED BY <1>2, <2>2, <3>2 DEF Planned, Begun, Clicked
  <2> QED BY <2>1, <2>2
<1> HIDE DEF s, rest, r2
<1>7. /\ SoundDB(db') /\ faults' \in {faults, faults + 1}
      /\ \A a \in Attempts : a # proc[p].att => db'.attempts[a] = db.attempts[a]
  <2>1. CASE db' = db
    BY <1>1, <1>5, <2>1
  <2>2. CASE db' = Run(db, p, s)
    BY <1>1, <1>3, <1>5, <2>2, Statements
  <2> QED BY <1>5, <2>1, <2>2
<1>8. ASSUME faults' = 0, NEW a \in Attempts, db'.attempts[a].row, db'.attempts[a].outcome = "in_progress"
      PROVE  \/ r2.att = a /\ Busy(r2)
             \/ InProgress(a) /\ ~(proc[p].att = a /\ Busy(proc[p]))
  <2>1. CASE a # proc[p].att
    BY <1>7, <1>8, <2>1 DEF InProgress
  <2>2. CASE a = proc[p].att
    <3>1. db' = Run(db, p, s)
      BY <1>1, <1>5, <1>8
    <3>2. a # 0
      BY DEF Attempts
    <3>3. s \in Plain
      <4>1. SUFFICES ASSUME s \notin Plain
                     PROVE  FALSE
        OBVIOUS
      <4>2. db'.attempts[a].outcome = s.arg
        BY <1>1, <1>3, <2>2, <3>1, <3>2, <4>1, Statements
      <4> QED BY <1>2, <1>8, <4>1, <4>2, FinalStatements
    <3>4. InProgress(a)
      BY <1>1, <1>3, <1>8, <3>1, <3>3, Statements DEF InProgress
    <3>5. CASE Busy(proc[p])
      <4>1. proc[p].plan \in FinalPlans
        BY <1>1, <3>5 DEF Busy, Begun, Clicked
      <4>2. rest \in FinalPlans /\ rest # <<>>
        BY <1>4, <3>3, <4>1
      <4> QED BY <1>6, <2>2, <4>2 DEF Busy
    <3> QED BY <3>4, <3>5
  <2> QED BY <2>1, <2>2
<1> QED BY <1>1, <1>5, <1>6, <1>7, <1>8, Hands

\* An application that went some way has a result that ends the attempt.
LEMMA OutcomeSettles ==
    \A p \in Procs, r \in Errors \cup Unsure :
        SettleInv /\ Calm /\ proc[p].pc \in Begun \cup Clicked /\ Outcome(p, r) => SettleInv'
<1> SUFFICES ASSUME NEW p \in Procs, NEW r \in Errors \cup Unsure, SettleInv, Calm,
                    proc[p].pc \in Begun \cup Clicked, Outcome(p, r)
             PROVE  SettleInv'
  OBVIOUS
<1> DEFINE plan == Plan(p, r)
<1>1. proc[p].mode \in ApplyModes \cup {"top"}
  BY DEF SettleInv, Planned
<1>2. plan \in FinalPlans /\ Result(p, plan)
  BY <1>1, EveryPlanEnds DEF Outcome
<1> HIDE DEF plan
<1> QED BY <1>2, Finishes

LEMMA ApplyingSettles ==
    ASSUME SettleInv, NEW p \in Procs,
           \/ Check(p) \/ Entry(p) \/ SilentSubmit(p) \/ MarkDispatch(p)
           \/ Click(p) \/ Confirm(p) \/ Reconfirm(p)
    PROVE  SettleInv'
<1>1. proc[p].pc \in Begun \cup Clicked
  BY DEF Check, Entry, SilentSubmit, MarkDispatch, Click, Confirm, Reconfirm, Begun, Clicked
<1>2. Calm
  <2>1. CASE MarkDispatch(p)
    BY <2>1 DEF MarkDispatch, Fault, env, Calm, SettleInv, SoundDB
  <2>2. CASE ~MarkDispatch(p)
    <3>1. UNCHANGED Still
      BY <2>2 DEF Check, Entry, SilentSubmit, Click, Confirm, Reconfirm
    <3> QED BY <3>1, StillIsCalm
  <2> QED BY <2>1, <2>2
<1>3. \/ \E r \in Errors \cup Unsure : Outcome(p, r)
      \/ \E pc2 \in Begun \cup Clicked : Goto(p, pc2)
  <2> USE DEF Errors, Unsure, Begun, Clicked
  <2>1. CASE Check(p)
    BY <2>1 DEF Check
  <2>2. CASE Entry(p)
    BY <2>2 DEF Entry
  <2>3. CASE SilentSubmit(p)
    BY <2>3 DEF SilentSubmit
  <2>4. CASE MarkDispatch(p)
    BY <2>4 DEF MarkDispatch
  <2>5. CASE Click(p)
    BY <2>5 DEF Click, ClickFailure
  <2>6. CASE Confirm(p)
    BY <2>6 DEF Confirm
  <2>7. CASE Reconfirm(p)
    BY <2>7 DEF Reconfirm
  <2> QED BY <2>1, <2>2, <2>3, <2>4, <2>5, <2>6, <2>7
<1> QED BY <1>1, <1>2, <1>3, OutcomeSettles, Advances

\* An attempt that begins no application ends as well.
LEMMA EarlyEnds ==
    /\ <<F("other")>> \in FinalPlans /\ <<NoJob("other")>> \in FinalPlans
    /\ <<Skip("retryable"), Do("unpend"), F("other")>> \in FinalPlans
    /\ <<Failure("retryable"), F("other")>> \in FinalPlans /\ <<Skip("rejected"), F("other")>> \in FinalPlans
    /\ <<Pend(FALSE), F("other")>> \in FinalPlans
    /\ <<Do("applied"), Do("unpendLink")>> \o <<NoJob("other")>> \in FinalPlans
    /\ <<>> \o <<NoJob("other")>> \in FinalPlans
    /\ <<Skip("retryable"), F("other")>> \o <<>> \in FinalPlans
    /\ <<Skip("retryable"), F("other")>> \o <<Do("unpend")>> \in FinalPlans
    /\ <<Skip("rejected"), Do("unpend")>> \in Seq(Final)
<1> DEFINE E == Final \ Plain
<1>1. /\ F("other") \in E /\ NoJob("other") \in E
      /\ Skip("retryable") \in Final /\ Skip("rejected") \in Final /\ Failure("retryable") \in Final
      /\ Pend(FALSE) \in Final /\ Do("unpend") \in Final /\ Do("applied") \in Final /\ Do("unpendLink") \in Final
  BY PlainStatements, FinalStatements DEF Reasons
<1> HIDE DEF E
<1>2. /\ \A e \in E : <<e>> \in FinalPlans
      /\ \A x \in Final, e \in E : <<x, e>> \in FinalPlans
      /\ \A x, y \in Final, e \in E : <<x, y, e>> \in FinalPlans
      /\ \A q \in Seq(Final), t \in FinalPlans : q \o t \in FinalPlans /\ t \o q \in FinalPlans
      /\ <<>> \in Seq(Final) /\ (\A x \in Final : <<x>> \in Seq(Final))
      /\ \A x, y \in Final : <<x, y>> \in Seq(Final)
  BY FinalTuples, FinalJoined, Tuples DEF E
<1>3. /\ <<F("other")>> \in FinalPlans /\ <<NoJob("other")>> \in FinalPlans
      /\ <<Skip("retryable"), Do("unpend"), F("other")>> \in FinalPlans
      /\ <<Failure("retryable"), F("other")>> \in FinalPlans /\ <<Skip("rejected"), F("other")>> \in FinalPlans
      /\ <<Skip("retryable"), F("other")>> \in FinalPlans
  BY <1>1, <1>2, Zenon
<1>4. <<Pend(FALSE), F("other")>> \in FinalPlans
  BY <1>1, <1>2, Zenon
<1>5. /\ <<Do("applied"), Do("unpendLink")>> \in Seq(Final) /\ <<Do("unpend")>> \in Seq(Final)
      /\ <<Skip("rejected"), Do("unpend")>> \in Seq(Final) /\ <<>> \in Seq(Final)
  BY <1>1, <1>2, Zenon
<1> QED BY <1>2, <1>3, <1>4, <1>5

LEMMA BotSettles ==
    ASSUME SettleInv, BotStep
    PROVE  SettleInv'
<1> DEFINE Free == PCs \ (Begun \cup Clicked \cup {"write"})
<1>1. /\ Bot \in Processes /\ Planned(Bot) /\ proc["bot"] = Bot /\ "bot" \in Procs /\ SoundDB(db)
      /\ Site \in Ids
  BY BotIsAProcess, MaxAttemptsAssumption DEF Bot, SettleInv, Planned, Site, Ids
<1>2. {"idle", "next", "looked", "done", "consume"} \subseteq Free /\ "open" \in Begun
  BY DEF PCs, Begun, Clicked
<1> HIDE DEF Free
<1>3. Planned([Idle EXCEPT !.pc = "next", !.mode = "queue"]) /\ Planned(Idle)
  BY <1>1, <1>2, AtTheQueue, Fresh DEF Free, Idle, Modes
<1>4. CASE BotStart \/ BotEnds
  <2>1. Calm
    BY <1>4 DEF BotStart, BotEnds, AtWork, env, Calm, SettleInv, SoundDB
  <2> QED BY <1>1, <1>2, <1>3, <1>4, <2>1, Idles DEF BotStart, BotEnds, Free
<1>5. CASE NextPhase
  <2>1. Calm /\ Bot.pc = "next"
    BY <1>5 DEF NextPhase, AtWork, env, Calm, SettleInv, SoundDB
  <2>2. PICK m \in {"top", "search"} : proc' = [proc EXCEPT !["bot"].mode = m]
    BY <1>5 DEF NextPhase
  <2> DEFINE r2 == [proc["bot"] EXCEPT !.mode = m]
  <2>3. proc' = [proc EXCEPT !["bot"] = r2]
    BY <2>2
  <2>4. r2 \in Processes /\ r2.pc = "next" /\ r2.plan = Bot.plan
    BY <1>1, <2>1 DEF Processes, Modes
  <2> HIDE DEF r2
  <2>5. Planned(r2)
    BY <1>1, <2>4 DEF Planned, Begun, Clicked
  <2> QED BY <1>1, <1>2, <2>1, <2>3, <2>5, Idles DEF Free
<1>6. CASE Search
  <2> DEFINE r2 == [proc["bot"] EXCEPT !.pc = "looked"]
  <2>1. Calm /\ Bot.pc = "next" /\ Bot.mode = "search" /\ proc' = [proc EXCEPT !["bot"] = r2]
    BY <1>6, StillIsCalm DEF Search, Goto
  <2>2. "looked" \in PCs
    BY DEF PCs
  <2>3. r2 \in Processes /\ r2.pc = "looked" /\ r2.mode = Bot.mode /\ r2.plan = Bot.plan
    BY <1>1, <2>2, NewPc
  <2> HIDE DEF r2
  <2>4. Planned(r2)
    BY <1>1, <2>1, <2>3 DEF Planned, Begun, Clicked
  <2> QED BY <1>1, <1>2, <2>1, <2>4, Idles DEF Free
<1>7. CASE Judge
  <2>1. Calm /\ Bot.pc = "looked"
    BY <1>7, StillIsCalm DEF Judge
  <2>2. /\ Skip("rejected") \in Plain /\ Failure("retryable") \in Plain
        /\ Pend(FALSE) \in Plain /\ Pend(TRUE) \in Plain /\ Do("applied") \in Plain
    BY PlainStatements DEF Reasons
  <2>3. <<>> \in Seq(Plain) /\ \A x \in Plain : <<x>> \in Seq(Plain)
    BY Tuples
  <2>4. /\ {<<>>, <<Skip("rejected")>>, <<Failure("retryable")>>, <<Pend(FALSE)>>, <<Pend(TRUE)>>} \subseteq Seq(Plain)
        /\ <<Do("applied")>> \in Seq(Plain)
    BY <2>2, <2>3, Zenon
  <2>5. \E plan \in Seq(Plain) : Result("bot", plan)
    BY <1>7, <2>3, <2>4 DEF Judge
  <2> QED BY <1>1, <1>2, <2>1, <2>5, Reports DEF Free
<1>8. CASE Submit
  <2> DEFINE m == Bot.mode
  <2> DEFINE i == Bot.id
  <2>1. Begin("bot", m, i, {i}, "open") /\ scenario' = scenario /\ Bot.pc = "looked"
    BY <1>8 DEF Submit, AtWork, env
  <2>2. m \in ApplyModes \cup {"top"} /\ i \in Ids
    BY <1>1, <2>1 DEF Planned, Processes, ApplyModes
  <2> HIDE DEF m, i
  <2> QED BY <1>1, <1>2, <2>1, <2>2, Begins DEF Free
<1>9. CASE OpenPage
  <2>1. Calm /\ Bot.pc = "open" /\ Applying \in Begun
    BY <1>9, StillIsCalm DEF OpenPage, Applying, Begun
  <2>2. \/ \E plan \in FinalPlans : Result("bot", plan)
        \/ Goto("bot", Applying)
    <3>1. CASE Result("bot", <<F("other")>>)
      BY <3>1, EarlyEnds
    <3>2. CASE Result("bot", <<Skip("retryable"), F("other")>> \o (IF Bot.mode = "top" THEN <<Do("unpend")>> ELSE <<>>))
      <4>1. CASE Bot.mode = "top"
        <5>1. Result("bot", <<Skip("retryable"), F("other")>> \o <<Do("unpend")>>)
          BY <3>2, <4>1
        <5> QED BY <5>1, EarlyEnds
      <4>2. CASE Bot.mode # "top"
        <5>1. Result("bot", <<Skip("retryable"), F("other")>> \o <<>>)
          BY <3>2, <4>2
        <5> QED BY <5>1, EarlyEnds
      <4> QED BY <4>1, <4>2
    <3> QED BY <1>9, <3>1, <3>2 DEF OpenPage
  <2> QED BY <1>1, <1>2, <2>1, <2>2, Finishes, Advances
<1>10. CASE RetryDone
  <2>1. Calm /\ Bot.pc = "done"
    BY <1>10, StillIsCalm DEF RetryDone
  <2>2. CASE proc' = [proc EXCEPT !["bot"] = [Idle EXCEPT !.pc = "next", !.mode = "queue"]]
    BY <1>1, <1>2, <1>3, <2>1, <2>2, Idles DEF Free
  <2>3. CASE Goto("bot", "consume")
    <3> DEFINE r2 == [proc["bot"] EXCEPT !.pc = "consume"]
    <3>1. proc' = [proc EXCEPT !["bot"] = r2] /\ "consume" \in PCs
      BY <2>3 DEF Goto, PCs
    <3>2. r2 \in Processes /\ r2.pc = "consume" /\ r2.mode = Bot.mode /\ r2.plan = Bot.plan
      BY <1>1, <3>1, NewPc
    <3> HIDE DEF r2
    <3>3. Planned(r2)
      BY <1>1, <3>2 DEF Planned, Begun, Clicked
    <3> QED BY <1>1, <1>2, <2>1, <3>1, <3>3, Idles DEF Free
  <2> QED BY <1>10, <2>2, <2>3 DEF RetryDone
<1>11. CASE Consume
  <2>1. SoundDB(db') /\ db'.attempts = db.attempts
    <3> DEFINE i == Bot.id
    <3>1. i \in Ids /\ db' \in {ConsumeRetry(db, i), db}
      BY <1>1, <1>11 DEF Consume, Processes
    <3> HIDE DEF i
    <3>2. SoundDB(ConsumeRetry(db, i)) /\ ConsumeRetry(db, i).attempts = db.attempts
      BY <1>1, <3>1, OtherStatements
    <3> QED BY <1>1, <3>1, <3>2
  <2>2. Calm /\ Bot.pc = "consume"
    BY <1>11, <2>1 DEF Consume, Fault, AtWork, env, Calm, SettleInv
  <2> QED BY <1>1, <1>2, <1>3, <1>11, <2>2, Idles DEF Consume, Free
<1>12. ASSUME NEW id \in Ids, SubmitQueued(id)
       PROVE  SettleInv'
  <2>1. Begin("bot", "queue", id, {id}, "open") /\ scenario' = scenario /\ Bot.pc = "next"
    BY <1>12 DEF SubmitQueued, AtWork, env
  <2>2. "queue" \in ApplyModes
    BY DEF ApplyModes
  <2> QED BY <1>1, <1>2, <2>1, <2>2, Begins DEF Free
<1>13. ASSUME NEW id \in Ids, RetryEvaluation(id)
       PROVE  SettleInv'
  <2>1. Calm /\ Bot.pc = "next"
    BY <1>13 DEF RetryEvaluation, AtWork, env, Calm, SettleInv, SoundDB
  <2>2. CASE proc' = proc
    BY <2>1, <2>2, Stays
  <2>3. CASE proc' = [proc EXCEPT !["bot"] = [Idle EXCEPT !.pc = "looked", !.mode = "retry", !.id = id]]
    <3> DEFINE r0 == [Idle EXCEPT !.pc = "looked"]
    <3> DEFINE r1 == [r0 EXCEPT !.mode = "retry"]
    <3> DEFINE r2 == [r1 EXCEPT !.id = id]
    <3>1. proc' = [proc EXCEPT !["bot"] = r2]
      BY <2>3
    <3>2. r0 = [pc |-> "looked", mode |-> "none", id |-> Site, att |-> 0, plan |-> <<>>]
      BY DEF Idle
    <3> HIDE DEF r0
    <3>3. r1 = [pc |-> "looked", mode |-> "retry", id |-> Site, att |-> 0, plan |-> <<>>]
      BY <3>2
    <3> HIDE DEF r1
    <3>4. r2 = [pc |-> "looked", mode |-> "retry", id |-> id, att |-> 0, plan |-> <<>>]
      BY <3>3
    <3> HIDE DEF r2
    <3>5. Planned(r2)
      BY <1>2, <3>4, Fresh DEF Free, Modes
    <3> QED BY <1>1, <1>2, <2>1, <3>1, <3>5, Idles DEF Free
  <2> QED BY <1>13, <2>2, <2>3 DEF RetryEvaluation
<1>14. ASSUME NEW id \in Ids, RecheckTopMatch(id)
       PROVE  SettleInv'
  <2>1. Bot.pc = "next" /\ scenario' = scenario
    BY <1>14 DEF RecheckTopMatch, AtWork, env
  <2>2. CASE Begin("bot", "top", id, {id}, "open")
    BY <1>1, <1>2, <2>1, <2>2, Begins DEF Free
  <2>3. CASE /\ \E plan \in {<<>>, <<Do("count")>>} :
                   proc' = [proc EXCEPT !["bot"] = IF plan = <<>> THEN @ ELSE [@ EXCEPT !.pc = "write", !.id = id, !.plan = plan]]
             /\ UNCHANGED <<db, started, faults>>
    <3>1. Calm
      BY <1>14, <2>3 DEF RecheckTopMatch, AtWork, env, Calm, SettleInv, SoundDB
    <3>2. PICK plan \in {<<>>, <<Do("count")>>} :
             proc' = [proc EXCEPT !["bot"] = IF plan = <<>> THEN @ ELSE [@ EXCEPT !.pc = "write", !.id = id, !.plan = plan]]
      BY <2>3
    <3>3. CASE plan = <<>>
      <4>1. proc' = proc
        BY <1>1, <3>2, <3>3 DEF SettleInv
      <4> QED BY <3>1, <4>1, Stays
    <3>4. CASE plan # <<>>
      <4> DEFINE r0 == [proc["bot"] EXCEPT !.pc = "write"]
      <4> DEFINE r1 == [r0 EXCEPT !.id = id]
      <4> DEFINE r2 == [r1 EXCEPT !.plan = plan]
      <4>1. proc' = [proc EXCEPT !["bot"] = r2] /\ "write" \in PCs
        BY <1>1, <3>2, <3>4 DEF SettleInv, PCs
      <4>2. plan \in Seq(Final) /\ plan \in Seq(Plain \cup Ends(Outcomes))
        <5>1. Do("count") \in Plain
          BY PlainStatements
        <5>2. <<Do("count")>> \in Seq(Plain)
          BY <5>1, Tuples
        <5> QED BY <3>2, <3>4, <5>2, FinalStatements, SeqMonotone
      <4>3. r0 \in Processes /\ r0.pc = "write"
        BY <1>1, <4>1, NewPc
      <4> HIDE DEF r0
      <4>4. r1 \in Processes /\ r1.pc = "write"
        BY <4>3, NewId
      <4> HIDE DEF r1
      <4>5. r2 \in Processes /\ r2.pc = "write" /\ r2.plan = plan
        BY <4>2, <4>4, NewPlan
      <4> HIDE DEF r2
      <4>6. Planned(r2)
        BY <3>4, <4>2, <4>5 DEF Planned, Begun, Clicked
      <4> QED BY <1>1, <1>2, <2>1, <3>1, <4>1, <4>6, Idles DEF Free
    <3> QED BY <3>3, <3>4
  <2> QED BY <1>14, <2>2, <2>3 DEF RecheckTopMatch
<1> QED BY <1>4, <1>5, <1>6, <1>7, <1>8, <1>9, <1>10, <1>11, <1>12, <1>13, <1>14 DEF BotStep

LEMMA OpenApprovedSettles ==
    ASSUME SettleInv, OpenApproved
    PROVE  SettleInv'
<1>1. Calm /\ proc["approver"].pc = "open" /\ "approver" \in Procs /\ Applying \in Begun /\ "open" \in Begun
  BY StillIsCalm, BotIsAProcess DEF OpenApproved, Applying, Begun
<1>2. (\E plan \in FinalPlans : Result("approver", plan)) \/ Goto("approver", Applying)
  BY EarlyEnds DEF OpenApproved
<1> QED BY <1>1, <1>2, Finishes, Advances

LEMMA UrlSettles ==
    ASSUME SettleInv, NEW u \in Urls, UrlStep(u)
    PROVE  SettleInv'
<1>1. u \in Procs /\ {"open", "guard", "fast", "evaluate"} \subseteq Begun /\ Applying \in Begun
  BY BotIsAProcess DEF Begun, Applying
<1>2. CASE ApplyFromURL(u)
  <2> DEFINE id == started + 1
  <2>1. Begin(u, "url", id, {}, "guard") /\ scenario' = scenario /\ proc[u].pc = "idle"
    BY <1>2 DEF ApplyFromURL, AtWork, env
  <2>2. id \in Ids
    <3>1. scenario.attempts \in 1..MaxAttempts
      BY ScenariosAssumption DEF SettleInv
    <3>2. started \in Nat /\ MaxAttempts \in Nat /\ started < scenario.attempts
      BY <2>1, MaxAttemptsAssumption DEF Begin, SettleInv
    <3> QED BY <3>1, <3>2 DEF Ids
  <2>3. "url" \in ApplyModes /\ "idle" \in PCs \ (Begun \cup Clicked \cup {"write"})
    BY DEF ApplyModes, PCs, Begun, Clicked
  <2> HIDE DEF id
  <2> QED BY <1>1, <2>1, <2>2, <2>3, Begins
<1>3. CASE UrlGuard(u)
  <2>1. Calm /\ proc[u].pc = "guard"
    BY <1>3 DEF UrlGuard, env, Calm, SettleInv, SoundDB
  <2>2. (\E plan \in FinalPlans : Result(u, plan)) \/ Goto(u, "fast")
    BY <1>3, EarlyEnds DEF UrlGuard
  <2> QED BY <1>1, <2>1, <2>2, Finishes, Advances
<1>4. CASE UrlFast(u)
  <2>1. Calm /\ proc[u].pc = "fast"
    BY <1>4, StillIsCalm DEF UrlFast
  <2>2. (\E plan \in FinalPlans : Result(u, plan)) \/ Goto(u, "open")
    BY <1>4, EarlyEnds DEF UrlFast
  <2> QED BY <1>1, <2>1, <2>2, Finishes, Advances
<1>5. CASE UrlOpen(u)
  <2>1. Calm /\ proc[u].pc = "open"
    BY <1>5, StillIsCalm DEF UrlOpen
  <2>2. CASE (\E plan \in FinalPlans : Result(u, plan)) \/ Goto(u, "evaluate")
    BY <1>1, <2>1, <2>2, Finishes, Advances
  <2>3. CASE proc' = [proc EXCEPT ![u].pc = "write", ![u].id = Site,
                                  ![u].plan = <<Failure("retryable"), F("other")>>]
    <3> DEFINE plan == <<Failure("retryable"), F("other")>>
    <3> DEFINE r0 == [proc[u] EXCEPT !.pc = "write"]
    <3> DEFINE r1 == [r0 EXCEPT !.id = Site]
    <3> DEFINE r2 == [r1 EXCEPT !.plan = plan]
    <3>1. proc[u] \in Processes /\ proc \in [Procs -> Processes]
      BY <1>1 DEF SettleInv
    <3>2. /\ plan \in FinalPlans /\ plan \in Seq(Plain \cup Ends(Outcomes)) /\ plan # <<>>
          /\ "write" \in PCs /\ Site \in Ids
      BY EarlyEnds, EarlyPlans, MaxAttemptsAssumption DEF PCs, Site, Ids
    <3> HIDE DEF plan
    <3>3. proc' = [proc EXCEPT ![u] = r2]
      BY <1>1, <2>3, <3>1 DEF plan
    <3>4. r0 \in Processes /\ r0.pc = "write" /\ r0.att = proc[u].att
      BY <3>1, <3>2, NewPc
    <3> HIDE DEF r0
    <3>5. r1 \in Processes /\ r1.pc = "write" /\ r1.att = proc[u].att
      BY <3>2, <3>4, NewId
    <3> HIDE DEF r1
    <3>6. r2 \in Processes /\ r2.pc = "write" /\ r2.att = proc[u].att /\ r2.plan = plan
      BY <3>2, <3>5, NewPlan
    <3> HIDE DEF r2
    <3>7. Planned(r2) /\ Busy(r2)
      BY <3>2, <3>6 DEF Planned, Busy, Begun, Clicked, FinalPlans
    <3> QED BY <1>1, <2>1, <3>3, <3>6, <3>7, Keeps
  <2>4. CASE Result(u, (IF Tracked THEN <<>> ELSE <<Do("applied"), Do("unpendLink")>>) \o <<NoJob("other")>>)
    BY <1>1, <2>1, <2>4, EarlyEnds, Finishes
  <2> QED BY <1>5, <2>2, <2>3, <2>4, EarlyEnds DEF UrlOpen
<1>6. CASE UrlEvaluate(u)
  <2>1. Calm /\ proc[u].pc = "evaluate"
    BY <1>6, StillIsCalm DEF UrlEvaluate
  <2>2. (\E plan \in FinalPlans : Result(u, plan)) \/ Goto(u, Applying)
    BY <1>6, EarlyEnds DEF UrlEvaluate
  <2> QED BY <1>1, <2>1, <2>2, Finishes, Advances
<1> QED BY <1>2, <1>3, <1>4, <1>5, <1>6 DEF UrlStep

LEMMA HandlersSettle ==
    ASSUME SettleInv, Handlers
    PROVE  SettleInv'
<1> USE BotIsAProcess
<1>1. PICK id \in Ids : \/ Approve(id) \/ Reject(id) \/ DeletePendingReview(id)
                        \/ MarkApplied(id) \/ RetryCannotApply(id) \/ LetGo(id)
  BY DEF Handlers
<1>2. "idle" \in PCs \ (Begun \cup Clicked \cup {"write"}) /\ SoundDB(db)
  BY DEF PCs, Begun, Clicked, SettleInv
<1>3. CASE Approve(id)
  <2>1. /\ Begin("approver", "approve", id, {id}, "open") /\ scenario' = scenario
        /\ proc["approver"].pc = "idle" /\ "approve" \in ApplyModes
    BY <1>3 DEF Approve, AtWork, env, ApplyModes
  <2> QED BY <1>2, <2>1, Begins
<1>4. CASE Reject(id)
  <2> DEFINE plan == <<Skip("rejected"), Do("unpend")>>
  <2> DEFINE r0 == [Idle EXCEPT !.pc = "write"]
  <2> DEFINE r1 == [r0 EXCEPT !.mode = "reject"]
  <2> DEFINE r2 == [r1 EXCEPT !.id = id]
  <2> DEFINE r3 == [r2 EXCEPT !.plan = plan]
  <2>1. Calm /\ proc["user"].pc = "idle"
    BY <1>4 DEF Reject, Aside, env, Calm, SettleInv, SoundDB
  <2>2. proc' = [proc EXCEPT !["user"] = r3] /\ "write" \in PCs /\ "reject" \in Modes
    BY <1>4 DEF Reject, PCs, Modes
  <2>3. plan # <<>> /\ plan \in Seq(Final) /\ plan \in Seq(Plain \cup Ends(Outcomes))
    BY EarlyEnds, EarlyPlans
  <2> HIDE DEF plan
  <2>4. r0 = [pc |-> "write", mode |-> "none", id |-> Site, att |-> 0, plan |-> <<>>]
    BY DEF Idle
  <2> HIDE DEF r0
  <2>5. r1 = [pc |-> "write", mode |-> "reject", id |-> Site, att |-> 0, plan |-> <<>>]
    BY <2>4
  <2> HIDE DEF r1
  <2>6. r2 = [pc |-> "write", mode |-> "reject", id |-> id, att |-> 0, plan |-> <<>>]
    BY <2>5
  <2> HIDE DEF r2
  <2>7. r3 = [pc |-> "write", mode |-> "reject", id |-> id, att |-> 0, plan |-> plan]
    BY <2>6
  <2> HIDE DEF r3
  <2>8. Planned(r3)
    BY <2>2, <2>3, <2>7, MaxAttemptsAssumption DEF Planned, Processes, Begun, Clicked
  <2> QED BY <1>2, <2>1, <2>2, <2>8, Idles
<1>5. CASE DeletePendingReview(id) \/ MarkApplied(id) \/ RetryCannotApply(id) \/ LetGo(id)
  <2>1. db' \in {RecordSkipped(RemoveReview(db, id), id, "rejected"), RemoveReview(db, id),
                 RemoveReview(RecordApplied(db, id), id), ConsumeRetry(db, id),
                 [RecordApplied(db, id) EXCEPT !.skipped[id] = "no"],
                 [db EXCEPT !.queue[id] = "evaluate", !.skipped[id] = "no"],
                 [db EXCEPT !.applied = @ \ {id}], [db EXCEPT !.skipped[id] = "no"]}
    <3>1. CASE DeletePendingReview(id)
      BY <3>1 DEF DeletePendingReview
    <3>2. CASE MarkApplied(id)
      BY <3>2 DEF MarkApplied
    <3>3. CASE RetryCannotApply(id)
      BY <3>3 DEF RetryCannotApply
    <3>4. CASE LetGo(id)
      BY <3>4 DEF LetGo
    <3> QED BY <1>5, <3>1, <3>2, <3>3, <3>4
  <2>2. SoundDB(db') /\ db'.attempts = db.attempts
    BY <1>2, <2>1, OtherStatements
  <2>3. Calm /\ proc' = proc
    BY <1>5, <2>2 DEF DeletePendingReview, MarkApplied, RetryCannotApply, LetGo, Aside, env, Calm, SettleInv
  <2> QED BY <2>3, Stays
<1> QED BY <1>1, <1>3, <1>4, <1>5

\* A crash ends every goroutine and leaves its attempt as it was: a fault.
LEMMA CrashSettles ==
    ASSUME SettleInv, Crash
    PROVE  SettleInv'
<1>1. /\ scenario' = scenario /\ db' = db /\ started' = started /\ faults' = faults + 1
      /\ proc' = [p \in Procs |-> Idle] /\ faults \in Nat
  BY DEF Crash, Fault, env, SettleInv
<1>2. Idle \in Processes /\ Planned(Idle)
  BY IdleIsIdle, Fresh, MaxAttemptsAssumption DEF Idle, Planned, PCs, Modes, Site, Ids, Begun, Clicked
<1>3. faults' \in Nat /\ faults' # 0
  BY <1>1
<1>4. proc' \in [Procs -> Processes] /\ \A p \in Procs : Planned(proc'[p])
  BY <1>1, <1>2
<1> QED BY <1>1, <1>3, <1>4 DEF SettleInv, SoundDB, Planned

LEMMA SettleInit ==
    ASSUME Init
    PROVE  SettleInv
<1>1. SoundDB(db) /\ \A a \in Attempts : ~db.attempts[a].row
  <2>1. PICK q \in {"no", "apply"} : db = [EmptyDB EXCEPT !.queue[Site] = q]
    BY DEF Init
  <2>2. db.attempts = [a \in Attempts |-> None] /\ {"attempts", "queue"} \subseteq DOMAIN db
    BY <2>1 DEF EmptyDB
  <2>3. db.queue \in [Ids -> {"no", "apply", "evaluate"}]
    BY <2>1 DEF EmptyDB
  <2> QED BY <2>2, <2>3 DEF SoundDB, None
<1>2. Idle \in Processes /\ Planned(Idle)
  BY IdleIsIdle, MaxAttemptsAssumption DEF Idle, Planned, Begun, Clicked
<1>3. scenario \in Scenarios /\ started = 0 /\ faults = 0 /\ proc = [p \in Procs |-> Idle]
  BY DEF Init
<1>4. proc \in [Procs -> Processes] /\ \A p \in Procs : Planned(proc[p])
  BY <1>2, <1>3
<1> QED BY <1>1, <1>3, <1>4, MaxAttemptsAssumption DEF SettleInv, InProgress

LEMMA SettleStep ==
    ASSUME SettleInv, [Next]_vars
    PROVE  SettleInv'
<1>1. CASE UNCHANGED vars
  <2>1. Calm /\ proc' = proc
    BY <1>1 DEF vars, Calm, SettleInv
  <2> QED BY <2>1, Stays
<1>2. CASE SiteShowsApplied
  <2>1. Calm /\ proc' = proc
    BY <1>2, StillIsCalm DEF SiteShowsApplied
  <2> QED BY <2>1, Stays
<1>3. ASSUME NEW p \in Procs, Applier(p)
      PROVE  SettleInv'
  BY <1>3, WriteSettles, ApplyingSettles DEF Applier
<1> QED BY <1>1, <1>2, <1>3, BotSettles, OpenApprovedSettles, HandlersSettle, CrashSettles, UrlSettles DEF Next

\* Every path ends its attempt, on LinkedIn and on Seek, for any number of attempts:
\* an attempt in progress has a goroutine that is working on it or about to record
\* how it ended, unless the server crashed or a statement failed (every caller of
\* easyApply and seekApply up to its finishAttempt).
THEOREM EveryAttemptSettles == Spec => []AttemptsSettle
<1>1. ASSUME SettleInv
      PROVE  AttemptsSettle
  <2>1. \A r : Busy(r) => r.pc # "idle"
    BY DEF Busy, Begun, Clicked
  <2> QED BY <1>1, <2>1 DEF SettleInv, AttemptsSettle, InProgress
<1> QED BY <1>1, SettleInit, SettleStep, PTL DEF Spec

-----------------------------------------------------------------------------
(* No posting is forgotten, on either site.

   Every statement that takes the posting out of a list, or ends its attempt,
   needs it to be recorded elsewhere: how firmly depends on who runs it (Wants).
   Every result a path can record gives its statements what they need before
   they run, or begins when the tables have it (Backed).  What one goroutine
   counts on the statements of the others leave in the tables (Firm, Loose),
   because those statements find what they need. *)

\* The statements that end an attempt.
Closing == Ends(Outcomes \ {"in_progress"})

\* How firmly the posting is in the tables, by id.
Recorded(d, i) == d.applied # {} \/ d.skipped[i] # "no"
InTables(d, i) == Recorded(d, i) \/ InReview(d, i)
Unknown(d) == \E a \in Attempts : d.attempts[a].row /\ d.attempts[a].outcome = "submission_unknown"
Filed(d, i) == Recorded(d, i) \/ d.queue[i] # "no" \/ Unknown(d)
Kept(d, i) == Filed(d, i) \/ InReview(d, i)
Holds(level, d, i) ==
    /\ level = "applied" => d.applied # {}
    /\ level = "record" => Recorded(d, i)
    /\ level = "tables" => InTables(d, i)
    /\ level = "filed" => Filed(d, i)
    /\ level = "kept" => Kept(d, i)

\* What a goroutine counts on while it applies, and what a statement of its result
\* needs so that the posting stays in some list; open: the attempt ends after it.
Stands(site, m) ==
    CASE m \in {"retry", "queue", "top"} -> "kept"
      [] m = "approve"                   -> IF site = "linkedin" THEN "tables" ELSE "kept"
      [] OTHER                           -> "nothing"
FromQueue(site, pg, m) == site = "linkedin" /\ pg = "applied" /\ m = "queue"
UnpendWants(m, open) ==
    IF m = "top" THEN "filed" ELSE IF m = "reject" \/ (m = "approve" /\ open) THEN "record" ELSE "applied"
UnqueueWants(site, pg, m, open) ==
    IF open /\ FromQueue(site, pg, m) THEN "nothing"
    ELSE IF open /\ (m = "queue" \/ (m = "approve" /\ site = "linkedin")) THEN "tables" ELSE "applied"
EndWants(site, pg, m, s) ==
    IF s.arg = "submission_unknown" \/ FromQueue(site, pg, m) THEN "nothing" ELSE Stands(site, m)
Wants(site, pg, m, s, open) ==
    CASE s.op = "unpend"     -> UnpendWants(m, open)
      [] s.op = "unpendLink" -> "applied"
      [] s.op = "unqueue"    -> UnqueueWants(site, pg, m, open)
      [] s.op \in {"finish", "finishNoJob"} -> EndWants(site, pg, m, s)
      [] OTHER               -> "nothing"
Gives(s) ==
    CASE s.op = "applied"                      -> {"nothing", "applied", "record", "tables", "filed", "kept"}
      [] s.op \in {"skip", "failure"}          -> {"nothing", "record", "tables", "filed", "kept"}
      [] s.op \in {"pend", "keep", "preserve"} -> {"nothing", "tables", "kept"}
      [] s.op \in {"finish", "finishNoJob"}    -> IF s.arg = "submission_unknown" THEN {"nothing", "filed", "kept"} ELSE {"nothing"}
      [] OTHER                                 -> {"nothing"}

\* A result q ends its attempt after its k-th statement.  Every statement of it finds
\* what it needs, in the tables d or given by a statement before it.
EndsAfter(q, k) == \E l \in (k + 1) .. Len(q) : q[l] \in Closing
Need(site, pg, m, q, k) == Wants(site, pg, m, q[k], EndsAfter(q, k))
Backed(site, pg, m, i, q, d) ==
    /\ \A k \in 1 .. Len(q) :
          \/ Holds(Need(site, pg, m, q, k), d, i)
          \/ \E j \in 1 .. (k - 1) : Need(site, pg, m, q, k) \in Gives(q[j])
    /\ \A k, l \in 1 .. Len(q) : q[k] \in Closing /\ q[l] \in Closing => k = l
Supported(site, pg, r, d) ==
    /\ r.pc \in Begun \cup Clicked \cup {"looked"} => Holds(Stands(site, r.mode), d, r.id)
    /\ r.pc = "write" => Backed(site, pg, r.mode, r.id, r.plan, d)

\* Who has an attempt under way, and the row of it.
Open(r) == r.pc \in Begun \cup Clicked \/ (r.pc = "write" /\ \E k \in 1 .. Len(r.plan) : r.plan[k] \in Closing)
Owns(r, d) ==
    /\ r.att # 0 /\ d.attempts[r.att].row /\ d.attempts[r.att].outcome = "in_progress"
    /\ r.mode # "url" => d.attempts[r.att].job = {r.id}

\* What each goroutine may be at, and why.
RoleOf(p) == CASE p = "bot"      -> {"search", "retry", "queue", "top"}
               [] p = "approver" -> {"approve"}
               [] p = "user"     -> {"reject"}
               [] OTHER          -> {"url"}
Cast(site, p, r, n) ==
    /\ r.pc # "idle" => r.mode \in RoleOf(p)
    /\ r.mode = "top" => site # "linkedin"
    /\ r.pc = "check" => site = "linkedin"
    /\ r.pc = "reconfirm" => r.mode = "url"
    /\ p = "user" /\ r.pc = "write" => r.plan \in {<<Skip("rejected"), Do("unpend")>>, <<Do("unpend")>>}
    /\ r.att \in 0 .. n

\* The tables, as far as the lists go.
Listable(d) ==
    /\ {"applied", "skipped", "pending"} \subseteq DOMAIN d
    /\ d.skipped \in [Ids -> Reasons \cup {"no"}] /\ d.pending \in [Ids -> Reviews \cup {None}]

\* The rows that the run still has to process: one for an id, and none for the id whose
\* queued application it is making.
Kinds == {"apply", "evaluate", "top"}
Snapshot(site, rows, r) ==
    /\ rows \subseteq Ids \X Kinds
    /\ \A i \in Ids, k, l \in Kinds : <<i, k>> \in rows /\ <<i, l>> \in rows => k = l
    /\ r.mode = "queue" /\ Open(r) => \A k \in Kinds : <<r.id, k>> \notin rows
    /\ site = "linkedin" => \A i \in Ids : <<i, "top">> \notin rows

\* What everyone counts on, as long as nothing failed, was let go of or overtaken.
Orderly == faults = 0 /\ ~cleared /\ ~overtaken
Promises ==
    /\ \A p \in Procs : Supported(scenario.site, page, proc[p], db) /\ (Open(proc[p]) => Owns(proc[p], db))
    /\ Bot.pc = "consume" => InTables(db, Bot.id)
    /\ \A x \in todo : Kept(db, x[1])

\* The inductive invariant: the promises, and what they rest on.
NoteInv ==
    /\ Listable(db)
    /\ \A p \in Procs : Cast(scenario.site, p, proc[p], started)
    /\ \A p, q \in Procs : p # q /\ proc[p].att = proc[q].att => proc[p].att = 0
    /\ \A a \in Attempts : a > started => ~db.attempts[a].row
    /\ Snapshot(scenario.site, todo, Bot)
    /\ Orderly => Promises

\* What a statement s of a goroutine at id i and attempt a makes of the tables d.
Effect(s, d, d2, i, a) ==
    /\ Listable(d2)
    /\ d.applied # {} => d2.applied # {}
    /\ \A j \in Ids : d.skipped[j] # "no" => d2.skipped[j] # "no"
    /\ \A j \in Ids : s.op # "unqueue" \/ j # i => d2.queue[j] = d.queue[j]
    /\ \A j \in Ids : s.op # "unpendLink" /\ (s.op # "unpend" \/ j # i) /\ InReview(d, j) => InReview(d2, j)
    /\ s.op = "applied" => d2.applied # {}
    /\ s.op \in {"skip", "failure"} => d2.skipped[i] # "no"
    /\ s.op \in {"pend", "keep", "preserve"} => InReview(d2, i)
    /\ s.op \notin {"finish", "finishNoJob"} => d2.attempts = d.attempts
    /\ s.op \in {"finish", "finishNoJob"} =>
          /\ d2.applied = d.applied /\ d2.skipped = d.skipped /\ d2.pending = d.pending /\ d2.queue = d.queue
          /\ DOMAIN d2.attempts = DOMAIN d.attempts
          /\ \A b \in Attempts : b # a => d2.attempts[b] = d.attempts[b]
          /\ a \in Attempts => d2.attempts[a].row /\ d2.attempts[a].outcome = s.arg

\* The rows of jobs_pending_review, as records.
LEMMA ReviewRecords ==
    /\ \A easy \in BOOLEAN : Review(easy) \in Reviews /\ Review(easy).row
    /\ \A e \in Reviews : e.row /\ [e EXCEPT !.easy = FALSE] \in Reviews /\ [e EXCEPT !.easy = FALSE].row
    /\ \A e \in Reviews : e.tries < MaxTries =>
          [e EXCEPT !.tries = e.tries + 1] \in Reviews /\ [e EXCEPT !.tries = e.tries + 1].row
    /\ ~None.row
<1>1. ASSUME NEW easy \in BOOLEAN  PROVE Review(easy) \in Reviews /\ Review(easy).row
  BY DEF Review, Reviews, MaxTries
<1>2. ASSUME NEW e \in Reviews  PROVE e.row
  BY DEF Reviews
<1>3. ASSUME NEW e \in Reviews  PROVE [e EXCEPT !.easy = FALSE] \in Reviews
  BY DEF Reviews
<1>4. ASSUME NEW e \in Reviews, e.tries < MaxTries  PROVE [e EXCEPT !.tries = e.tries + 1] \in Reviews
  <2> DEFINE n == e.tries + 1
  <2>1. n \in 0..MaxTries
    BY <1>4 DEF Reviews, MaxTries
  <2> HIDE DEF n
  <2>2. [e EXCEPT !.tries = n] \in Reviews
    BY <2>1 DEF Reviews
  <2> QED BY <2>2 DEF n
<1> QED BY <1>1, <1>2, <1>3, <1>4 DEF None

\* What each statement does to the tables.
LEMMA Effects ==
    ASSUME SoundDB(db), Listable(db), NEW p \in Procs, proc[p] \in Processes, NEW s \in Final
    PROVE  Effect(s, db, Run(db, p, s), proc[p].id, proc[p].att)
<1> DEFINE d2 == Run(db, p, s)
<1> DEFINE i == proc[p].id
<1>1. i \in Ids /\ proc[p].att \in 0..MaxAttempts
  BY DEF Processes
<1>2. /\ s.op \in {"applied", "preserve", "count", "unpend", "unpendLink", "unqueue", "skip", "failure",
                   "pend", "keep", "finish", "finishNoJob"}
      /\ s.op \in {"skip", "failure"} => s.arg \in Reasons
      /\ s.op \in {"pend", "keep"} => s.arg \in BOOLEAN
  BY DEF Final, Plain, Ends
<1>3. "no" \notin Reasons
  BY DEF Reasons
<1> USE DEF SoundDB, Listable
<1>4. CASE s.op = "applied"
  <2>1. d2 = RecordApplied(db, i)
    BY <1>4 DEF Run
  <2> QED BY <1>4, <2>1 DEF RecordApplied, Effect, InReview
<1>5. CASE s.op = "skip"
  <2>1. d2 = RecordSkipped(db, i, s.arg)
    BY <1>5 DEF Run
  <2> HIDE DEF i
  <2> QED BY <1>1, <1>2, <1>3, <1>5, <2>1 DEF RecordSkipped, Effect, InReview, i
<1>6. CASE s.op = "failure"
  <2>1. d2 = RecordListingFailure(db, i, s.arg)
    BY <1>6 DEF Run
  <2> QED BY <1>1, <1>2, <1>3, <1>6, <2>1 DEF RecordListingFailure, Effect, InReview
<1>7. CASE s.op = "pend"
  <2>1. d2 = SavePendingReview(db, i, s.arg)
    BY <1>7 DEF Run
  <2> QED BY <1>1, <1>2, <1>7, <2>1, ReviewRecords DEF SavePendingReview, Effect, InReview
<1>8. CASE s.op = "preserve"
  <2>1. d2 = PreserveReview(db, i)
    BY <1>8 DEF Run
  <2>2. PICK e \in Reviews : e.row /\ d2 = [db EXCEPT !.pending[i] = e]
    BY <1>1, <2>1, ReviewRecords DEF PreserveReview
  <2> QED BY <1>1, <1>8, <2>2 DEF Effect, InReview
<1>9. CASE s.op = "keep"
  <2>1. d2 = KeepInReview(db, i, s.arg)
    BY <1>9 DEF Run
  <2>2. CASE InReview(db, i)
    BY <1>9, <2>1, <2>2 DEF KeepInReview, Effect
  <2>3. CASE ~InReview(db, i)
    <3>1. d2 = [db EXCEPT !.pending[i] = Review(s.arg)]
      BY <2>1, <2>3 DEF KeepInReview, SavePendingReview
    <3> QED BY <1>1, <1>2, <1>9, <3>1, ReviewRecords DEF Effect, InReview
  <2> QED BY <2>2, <2>3
<1>10. CASE s.op = "count"
  <2>1. d2 = CountTry(db, i)
    BY <1>10 DEF Run
  <2> DEFINE r == db.pending[i]
  <2>2. CASE InReview(db, i) /\ r.tries < MaxTries
    <3> DEFINE r2 == [r EXCEPT !.tries = r.tries + 1]
    <3>1. r \in Reviews
      BY <1>1, <2>2, ReviewRecords DEF InReview
    <3>2. r2 \in Reviews /\ r2.row
      BY <2>2, <3>1, ReviewRecords
    <3>3. d2 = [db EXCEPT !.pending[i] = r2]
      BY <2>1, <2>2 DEF CountTry
    <3> HIDE DEF r2, d2, i
    <3> QED BY <1>1, <1>10, <3>2, <3>3 DEF Effect, InReview, i, d2
  <2>3. CASE ~(InReview(db, i) /\ r.tries < MaxTries)
    <3>1. d2 = db
      BY <2>1, <2>3 DEF CountTry
    <3> QED BY <1>10, <3>1 DEF Effect
  <2> QED BY <2>2, <2>3
<1>11. CASE s.op = "unpend"
  <2>1. d2 = RemoveReview(db, i)
    BY <1>11 DEF Run
  <2> QED BY <1>1, <1>11, <2>1 DEF RemoveReview, Effect, InReview
<1>12. CASE s.op = "unpendLink"
  <2>1. PICK link : d2 = RemoveByLink(db, link)
    BY <1>12 DEF Run
  <2> QED BY <1>12, <2>1 DEF RemoveByLink, Effect, InReview
<1>13. CASE s.op = "unqueue"
  <2>1. d2 = RemoveFromQueue(db, i)
    BY <1>13 DEF Run
  <2> QED BY <1>1, <1>13, <2>1 DEF RemoveFromQueue, Effect, InReview
<1>14. CASE s.op \in {"finish", "finishNoJob"}
  <2>1. \E job, link : d2 = FinishAttempt(db, proc[p].att, job, link, s.arg)
    BY <1>14 DEF Run
  <2>2. PICK job, link : d2 = FinishAttempt(db, proc[p].att, job, link, s.arg)
    BY <2>1
  <2> QED BY <1>14, <2>2 DEF FinishAttempt, Effect, InReview
<1> QED BY <1>2, <1>4, <1>5, <1>6, <1>7, <1>8, <1>9, <1>10, <1>11, <1>12, <1>13, <1>14

-----------------------------------------------------------------------------
(* What a step leaves of the tables. *)

Levels == {"nothing", "applied", "record", "tables", "filed", "kept"}

\* A step of anyone but the run keeps all that another may count on; the run's
\* may take the posting out of the queue.
Firm(site, d, d2) ==
    /\ d.applied # {} => d2.applied # {}
    /\ \A j \in Ids : Recorded(d, j) => Recorded(d2, j)
    /\ \A j \in Ids : InTables(d, j) => InTables(d2, j)
    /\ \A j \in Ids : Kept(d, j) => Kept(d2, j)
    /\ site # "linkedin" => \A j \in Ids : Filed(d, j) => Filed(d2, j)
Loose(site, d, d2) ==
    /\ d.applied # {} => d2.applied # {}
    /\ \A j \in Ids : Recorded(d, j) => Recorded(d2, j)
    /\ site = "linkedin" => \A j \in Ids : InTables(d, j) => InTables(d2, j)
    /\ site # "linkedin" => \A j \in Ids : Kept(d, j) => Kept(d2, j)

\* The run keeps at least what anyone does.
LEMMA FirmIsLoose == \A site, d, d2 : Firm(site, d, d2) => Loose(site, d, d2)
  BY DEF Firm, Loose

\* What a firm step leaves holds as it did.
LEMMA FirmHolds ==
    \A site, d, d2, level, i :
        /\ Firm(site, d, d2) /\ i \in Ids /\ Holds(level, d, i)
        /\ level = "filed" => site # "linkedin"
        => Holds(level, d2, i)
  BY DEF Firm, Holds

\* What is written gives what later statements need.
LEMMA GivenHolds ==
    \A s \in Final, i \in Ids, level \in Levels : \A d, d2, a :
        /\ Effect(s, d, d2, i, a) /\ level \in Gives(s)
        /\ s.op \in {"finish", "finishNoJob"} => a \in Attempts
        => Holds(level, d2, i)
<1> SUFFICES ASSUME NEW s \in Final, NEW d, NEW d2, NEW i \in Ids, NEW a, NEW level \in Levels,
                    Effect(s, d, d2, i, a), level \in Gives(s),
                    s.op \in {"finish", "finishNoJob"} => a \in Attempts
             PROVE  Holds(level, d2, i)
  OBVIOUS
<1> USE DEF Holds, Kept, Filed, InTables, Recorded
<1>1. CASE s.op = "applied"
  BY <1>1 DEF Effect
<1>2. CASE s.op \in {"skip", "failure"}
  <2>1. level # "applied"
    BY <1>2 DEF Gives
  <2> QED BY <1>2, <2>1 DEF Effect
<1>3. CASE s.op \in {"pend", "keep", "preserve"}
  <2>1. Gives(s) = {"nothing", "tables", "kept"}
    BY <1>3 DEF Gives
  <2> QED BY <1>3, <2>1 DEF Effect
<1>4. CASE s.op \notin {"applied", "skip", "failure", "pend", "keep", "preserve"}
  <2>1. CASE s.op \in {"finish", "finishNoJob"} /\ s.arg = "submission_unknown"
    <3>1. Gives(s) = {"nothing", "filed", "kept"}
      BY <1>4, <2>1 DEF Gives
    <3>2. Unknown(d2)
      BY <2>1 DEF Effect, Unknown
    <3> QED BY <3>1, <3>2
  <2>2. CASE ~(s.op \in {"finish", "finishNoJob"} /\ s.arg = "submission_unknown")
    <3>1. Gives(s) = {"nothing"}
      BY <1>4, <2>2 DEF Gives
    <3> QED BY <3>1
  <2> QED BY <2>1, <2>2
<1> QED BY <1>1, <1>2, <1>3, <1>4

\* A statement whose need is met: what it leaves, by who runs it.
Aftermath(site, pg, m, s, open, i, d, d2) ==
    \/ Firm(site, d, d2)
    \/ /\ m = "queue" /\ s.op = "unqueue" /\ open /\ Loose(site, d, d2)
       /\ \A j \in Ids : InTables(d, j) => InTables(d2, j)
       /\ \A j \in Ids : Kept(d, j) => Kept(d2, j) \/ (FromQueue(site, pg, m) /\ j = i)
       /\ Kept(d2, i) \/ FromQueue(site, pg, m)
    \/ /\ m = "top" /\ s.op = "unpend" /\ Filed(d2, i)
       /\ d.applied # {} => d2.applied # {}
       /\ \A j \in Ids : Recorded(d, j) => Recorded(d2, j)
       /\ \A j \in Ids : Filed(d, j) => Filed(d2, j)
       /\ \A j \in Ids : Kept(d, j) => Kept(d2, j)

\* A statement whose need is met forgets nothing that anyone counts on.
LEMMA NeedMet ==
    \A site \in {"linkedin", "seek"}, m \in Modes, open \in BOOLEAN, s \in Final, i \in Ids : \A pg, d, d2, a :
        /\ Effect(s, d, d2, i, a) /\ Holds(Wants(site, pg, m, s, open), d, i)
        /\ s.op \in {"finish", "finishNoJob"} => d.attempts[a].outcome # "submission_unknown"
        => Aftermath(site, pg, m, s, open, i, d, d2)
<1> SUFFICES ASSUME NEW site \in {"linkedin", "seek"}, NEW pg, NEW m \in Modes, NEW open \in BOOLEAN,
                    NEW s \in Final, NEW d, NEW d2, NEW i \in Ids, NEW a, Effect(s, d, d2, i, a),
                    Holds(Wants(site, pg, m, s, open), d, i),
                    s.op \in {"finish", "finishNoJob"} => d.attempts[a].outcome # "submission_unknown"
             PROVE  Aftermath(site, pg, m, s, open, i, d, d2)
  OBVIOUS
<1> DEFINE w == Wants(site, pg, m, s, open)
<1>1. Unknown(d) => Unknown(d2)
  <2>1. CASE s.op \in {"finish", "finishNoJob"}
    BY <2>1 DEF Effect, Unknown
  <2>2. CASE s.op \notin {"finish", "finishNoJob"}
    BY <2>2 DEF Effect, Unknown
  <2> QED BY <2>1, <2>2
<1>2. /\ d.applied # {} => d2.applied # {}
      /\ \A j \in Ids : Recorded(d, j) => Recorded(d2, j)
  BY DEF Effect, Recorded
<1>3. CASE s.op \notin {"unpend", "unpendLink", "unqueue"}
  <2>1. /\ \A j \in Ids : d2.queue[j] = d.queue[j]
        /\ \A j \in Ids : InReview(d, j) => InReview(d2, j)
    BY <1>3 DEF Effect
  <2>2. Firm(site, d, d2)
    BY <1>1, <1>2, <2>1 DEF Firm, InTables, Filed, Kept
  <2> QED BY <2>2 DEF Aftermath
<1>4. CASE w = "applied"
  <2>1. \A j \in Ids : Recorded(d2, j)
    BY <1>2, <1>4 DEF Holds, Recorded
  <2>2. Firm(site, d, d2)
    BY <1>2, <2>1 DEF Firm, InTables, Filed, Kept
  <2> QED BY <2>2 DEF Aftermath
<1>5. CASE w # "applied" /\ s.op = "unpend"
  <2>1. /\ \A j \in Ids : d2.queue[j] = d.queue[j]
        /\ \A j \in Ids : j # i /\ InReview(d, j) => InReview(d2, j)
    BY <1>5 DEF Effect
  <2>2. (m = "top" /\ w = "filed") \/ w = "record"
    <3>1. w = UnpendWants(m, open)
      BY <1>5 DEF Wants
    <3> QED BY <1>5, <3>1 DEF UnpendWants
  <2>3. \A j \in Ids : Filed(d, j) => Filed(d2, j)
    BY <1>1, <1>2, <2>1 DEF Filed
  <2>4. CASE m = "top" /\ w = "filed"
    <3>1. Filed(d2, i)
      BY <2>3, <2>4 DEF Holds
    <3>2. \A j \in Ids : Kept(d, j) => Kept(d2, j)
      BY <2>1, <2>3, <3>1 DEF Kept
    <3> QED BY <1>2, <1>5, <2>3, <2>4, <3>1, <3>2 DEF Aftermath
  <2>5. CASE w = "record"
    <3>1. Recorded(d2, i)
      BY <1>2, <2>5 DEF Holds
    <3>2. Firm(site, d, d2)
      BY <1>2, <2>1, <2>3, <3>1 DEF Firm, InTables, Kept, Filed
    <3> QED BY <3>2 DEF Aftermath
  <2> QED BY <2>2, <2>4, <2>5
<1>6. CASE w # "applied" /\ s.op = "unqueue"
  <2>1. /\ \A j \in Ids : j # i => d2.queue[j] = d.queue[j]
        /\ \A j \in Ids : InReview(d, j) => InReview(d2, j)
    BY <1>6 DEF Effect
  <2>2. open /\ \/ w = "nothing" /\ FromQueue(site, pg, m)
                \/ w = "tables" /\ (m = "queue" \/ (m = "approve" /\ site = "linkedin"))
    <3>1. w = UnqueueWants(site, pg, m, open)
      BY <1>6 DEF Wants
    <3> HIDE DEF w
    <3> QED BY <1>6, <3>1 DEF UnqueueWants
  <2>3. \A j \in Ids : InTables(d, j) => InTables(d2, j)
    BY <1>2, <2>1 DEF InTables
  <2>4. \A j \in Ids : j # i /\ Kept(d, j) => Kept(d2, j)
    BY <1>1, <1>2, <2>1 DEF Kept, Filed
  <2>5. CASE w = "nothing" /\ FromQueue(site, pg, m)
    <3>1. m = "queue" /\ site = "linkedin"
      BY <2>5 DEF FromQueue
    <3>2. Loose(site, d, d2)
      BY <1>2, <2>3, <3>1 DEF Loose
    <3> QED BY <1>6, <2>2, <2>3, <2>4, <2>5, <3>1, <3>2 DEF Aftermath
  <2>6. CASE w = "tables" /\ (m = "queue" \/ (m = "approve" /\ site = "linkedin"))
    <3>1. InTables(d2, i)
      BY <2>3, <2>6 DEF Holds
    <3>2. Kept(d2, i) /\ \A j \in Ids : Kept(d, j) => Kept(d2, j)
      BY <2>4, <3>1 DEF InTables, Kept, Filed
    <3>3. CASE m = "queue"
      <4>1. Loose(site, d, d2)
        BY <1>2, <2>3, <3>2 DEF Loose
      <4> QED BY <1>6, <2>2, <2>3, <3>2, <3>3, <4>1 DEF Aftermath
    <3>4. CASE m = "approve" /\ site = "linkedin"
      <4>1. Firm(site, d, d2)
        BY <1>2, <2>3, <3>2, <3>4 DEF Firm
      <4> QED BY <4>1 DEF Aftermath
    <3> QED BY <2>6, <3>3, <3>4
  <2> QED BY <2>2, <2>5, <2>6
<1>7. s.op = "unpendLink" => w = "applied"
  BY DEF Wants
<1> QED BY <1>3, <1>4, <1>5, <1>6, <1>7

\* Who needs which level, and when.
Apt(w, site, pg, m, s, open) ==
    /\ w \in Levels
    /\ w = "filed" => m = "top"
    /\ w = "tables" => m = "queue" \/ site = "linkedin"
    /\ w = "tables" => m # "top" /\ (open \/ s.op \in {"finish", "finishNoJob"})
    /\ w = "record" => m = "reject" \/ open
    /\ w = "kept" /\ site = "linkedin" => m \in {"retry", "queue", "top"}
    /\ w = "kept" => ~FromQueue(site, pg, m)

\* Every statement needs one level, which its author can rely on.
LEMMA WantsFacts ==
    \A site \in {"linkedin", "seek"}, m \in Modes, open \in BOOLEAN, s \in Final : \A pg :
        Apt(Wants(site, pg, m, s, open), site, pg, m, s, open)
<1> SUFFICES ASSUME NEW site \in {"linkedin", "seek"}, NEW m \in Modes, NEW open \in BOOLEAN, NEW s \in Final, NEW pg
             PROVE  Apt(Wants(site, pg, m, s, open), site, pg, m, s, open)
  OBVIOUS
<1> DEFINE w == Wants(site, pg, m, s, open)
<1>1. /\ Stands(site, m) \in {"nothing", "kept", "tables"}
      /\ Stands(site, m) = "tables" => m = "approve" /\ site = "linkedin"
      /\ Stands(site, m) = "kept" /\ site = "linkedin" => m \in {"retry", "queue", "top"}
  BY DEF Stands
<1>2. CASE s.op = "unpend"
  <2>1. w = UnpendWants(m, open)
    BY <1>2 DEF Wants
  <2> QED BY <2>1 DEF UnpendWants, Levels, Apt
<1>3. CASE s.op = "unqueue"
  <2>1. w = UnqueueWants(site, pg, m, open)
    BY <1>3 DEF Wants
  <2> QED BY <2>1 DEF UnqueueWants, Levels, Apt
<1>4. CASE s.op \in {"finish", "finishNoJob"}
  <2>1. w = EndWants(site, pg, m, s)
    BY <1>4 DEF Wants
  <2> QED BY <1>1, <1>4, <2>1 DEF EndWants, Levels, Apt
<1>5. CASE s.op \notin {"unpend", "unqueue", "finish", "finishNoJob"}
  <2>1. w \in {"applied", "nothing"}
    BY <1>5 DEF Wants
  <2> QED BY <2>1 DEF Levels, Apt
<1> QED BY <1>2, <1>3, <1>4, <1>5

\* The rest of a result, statement by statement.
LEMMA TailNeeds ==
    \A A : \A q \in Seq(A) : q # <<>> =>
        /\ Head(q) = q[1] /\ Len(q) \in Nat /\ Len(q) >= 1 /\ Len(Tail(q)) = Len(q) - 1
        /\ \A k \in 1..Len(Tail(q)) : Tail(q)[k] = q[k + 1] /\ k + 1 \in 1..Len(q)
        /\ \A k \in 1..Len(Tail(q)) : EndsAfter(Tail(q), k) <=> EndsAfter(q, k + 1)
<1> SUFFICES ASSUME NEW A, NEW q \in Seq(A), q # <<>>
             PROVE  /\ Head(q) = q[1] /\ Len(q) \in Nat /\ Len(q) >= 1 /\ Len(Tail(q)) = Len(q) - 1
                    /\ \A k \in 1..Len(Tail(q)) : Tail(q)[k] = q[k + 1] /\ k + 1 \in 1..Len(q)
                    /\ \A k \in 1..Len(Tail(q)) : EndsAfter(Tail(q), k) <=> EndsAfter(q, k + 1)
  OBVIOUS
<1> DEFINE t == Tail(q)
<1> DEFINE n == Len(q)
<1>1. Head(q) = q[1] /\ n \in Nat /\ n >= 1 /\ Len(t) = n - 1 /\ \A k \in 1..Len(t) : t[k] = q[k + 1]
  OBVIOUS
<1> HIDE DEF t, n
<1>2. \A k \in 1..Len(t) : k + 1 \in 1..n
  BY <1>1
<1>3. ASSUME NEW k \in 1..Len(t)
      PROVE  EndsAfter(t, k) <=> EndsAfter(q, k + 1)
  <2>1. ASSUME EndsAfter(t, k)  PROVE EndsAfter(q, k + 1)
    <3>1. PICK l \in (k + 1)..Len(t) : t[l] \in Closing
      BY <2>1 DEF EndsAfter
    <3>2. l \in 1..Len(t) /\ l + 1 \in (k + 1 + 1)..n
      BY <1>1, <3>1
    <3>3. q[l + 1] \in Closing
      BY <1>1, <3>1, <3>2
    <3> QED BY <3>2, <3>3 DEF EndsAfter, n
  <2>2. ASSUME EndsAfter(q, k + 1)  PROVE EndsAfter(t, k)
    <3>1. PICK l \in (k + 1 + 1)..n : q[l] \in Closing
      BY <2>2 DEF EndsAfter, n
    <3>2. l - 1 \in (k + 1)..Len(t) /\ l - 1 \in 1..Len(t) /\ (l - 1) + 1 = l
      BY <1>1, <3>1
    <3>3. t[l - 1] \in Closing
      BY <1>1, <3>1, <3>2
    <3> QED BY <3>2, <3>3 DEF EndsAfter
  <2> QED BY <2>1, <2>2
<1> QED BY <1>1, <1>2, <1>3 DEF t, n

\* A statement that ends an attempt ends one that is open.
EndsOpen(s, a, d) ==
    s.op \in {"finish", "finishNoJob"} => a \in Attempts /\ d.attempts[a].outcome # "submission_unknown"

\* When a goroutine has run a statement, the rest of its result is as well backed.
LEMMA TailBacked ==
    \A site \in {"linkedin", "seek"}, m \in Modes, q \in Seq(Final), i \in Ids : \A pg, d, d2, a :
        /\ q # <<>> /\ Effect(Head(q), d, d2, i, a) /\ Backed(site, pg, m, i, q, d)
        /\ m = "top" => site # "linkedin"
        /\ EndsOpen(Head(q), a, d)
        => /\ Backed(site, pg, m, i, Tail(q), d2)
           /\ Aftermath(site, pg, m, Head(q), EndsAfter(q, 1), i, d, d2)
<1> SUFFICES ASSUME NEW site \in {"linkedin", "seek"}, NEW m \in Modes, NEW q \in Seq(Final), NEW i \in Ids,
                    NEW pg, NEW d, NEW d2, NEW a,
                    q # <<>>, Effect(Head(q), d, d2, i, a), Backed(site, pg, m, i, q, d),
                    m = "top" => site # "linkedin",
                    EndsOpen(Head(q), a, d)
             PROVE  /\ Backed(site, pg, m, i, Tail(q), d2)
                    /\ Aftermath(site, pg, m, Head(q), EndsAfter(q, 1), i, d, d2)
  OBVIOUS
<1> DEFINE s == Head(q)
<1> DEFINE t == Tail(q)
<1> DEFINE n == Len(q)
<1>1. /\ s = q[1] /\ n \in Nat /\ n >= 1 /\ Len(t) = n - 1 /\ s \in Final
      /\ \A k \in 1..Len(t) : t[k] = q[k + 1] /\ k + 1 \in 1..n
      /\ \A k \in 1..Len(t) : EndsAfter(t, k) <=> EndsAfter(q, k + 1)
  BY TailNeeds, FirstAndRest
<1>2. \A k \in 1..n : q[k] \in Final
  BY <1>1
<1>3. /\ \A k \in 1..n : \/ Holds(Need(site, pg, m, q, k), d, i)
                         \/ \E j \in 1..(k - 1) : Need(site, pg, m, q, k) \in Gives(q[j])
      /\ \A k, l \in 1..n : q[k] \in Closing /\ q[l] \in Closing => k = l
  BY DEF Backed
<1> HIDE DEF s, t, n
<1>4. Holds(Wants(site, pg, m, s, EndsAfter(q, 1)), d, i)
  <2>1. Holds(Need(site, pg, m, q, 1), d, i)
    BY <1>1, <1>3
  <2> QED BY <1>1, <2>1 DEF Need
<1>5. Aftermath(site, pg, m, s, EndsAfter(q, 1), i, d, d2)
  <2>1. EndsAfter(q, 1) \in BOOLEAN
    BY DEF EndsAfter
  <2> QED BY <1>1, <1>4, <2>1, NeedMet DEF s, EndsOpen
<1>6. ASSUME NEW k \in 1..Len(t)
      PROVE  \/ Holds(Need(site, pg, m, t, k), d2, i)
             \/ \E j \in 1..(k - 1) : Need(site, pg, m, t, k) \in Gives(t[j])
  <2> DEFINE w == Need(site, pg, m, t, k)
  <2>1. k + 1 \in 1..n /\ t[k] = q[k + 1] /\ t[k] \in Final /\ (EndsAfter(t, k) <=> EndsAfter(q, k + 1))
    BY <1>1, <1>2
  <2>2. EndsAfter(t, k) = EndsAfter(q, k + 1)
    BY <2>1 DEF EndsAfter
  <2>3. w = Need(site, pg, m, q, k + 1)
    BY <2>1, <2>2 DEF Need
  <2>4. /\ w \in Levels /\ (w = "filed" => m = "top") /\ (w = "tables" => m # "top")
        /\ w = "kept" => ~FromQueue(site, pg, m)
    <3>1. EndsAfter(t, k) \in BOOLEAN
      BY DEF EndsAfter
    <3> QED BY <2>1, <3>1, WantsFacts DEF Need, Apt
  <2> HIDE DEF w
  <2>5. CASE Holds(w, d, i)
    <3>1. CASE Firm(site, d, d2)
      BY <2>4, <2>5, <3>1, FirmHolds DEF w
    <3>2. CASE /\ m = "queue" /\ Loose(site, d, d2)
               /\ \A j \in Ids : InTables(d, j) => InTables(d2, j)
               /\ Kept(d2, i) \/ FromQueue(site, pg, m)
      <4>1. Holds(w, d2, i)
        BY <2>4, <2>5, <3>2 DEF Holds, Levels, Loose
      <4> QED BY <4>1 DEF w
    <3>3. CASE /\ m = "top" /\ Filed(d2, i)
               /\ d.applied # {} => d2.applied # {}
               /\ \A j \in Ids : Recorded(d, j) => Recorded(d2, j)
      <4>1. Kept(d2, i)
        BY <3>3 DEF Kept
      <4>2. Holds(w, d2, i)
        BY <2>4, <2>5, <3>3, <4>1 DEF Holds, Levels
      <4> QED BY <4>2 DEF w
    <3> QED BY <1>5, <3>1, <3>2, <3>3 DEF Aftermath
  <2>6. ASSUME NEW j \in 1..k, w \in Gives(q[j])
        PROVE  \/ Holds(w, d2, i)
               \/ \E l \in 1..(k - 1) : w \in Gives(t[l])
    <3>1. CASE j = 1
      <4>1. w \in Gives(s)
        BY <1>1, <2>6, <3>1
      <4> QED BY <1>1, <2>4, <4>1, GivenHolds DEF s, EndsOpen
    <3>2. CASE j # 1
      <4>1. j - 1 \in 1..(k - 1) /\ j - 1 \in 1..Len(t) /\ (j - 1) + 1 = j
        BY <1>1, <3>2
      <4>2. t[j - 1] = q[j]
        BY <1>1, <4>1
      <4> QED BY <2>6, <4>1, <4>2
    <3> QED BY <3>1, <3>2
  <2>7. (k + 1) - 1 = k
    OBVIOUS
  <2>8. Holds(w, d, i) \/ \E j \in 1..k : w \in Gives(q[j])
    BY <1>3, <2>1, <2>3, <2>7
  <2> QED BY <2>5, <2>6, <2>8 DEF w
<1>7. ASSUME NEW k \in 1..Len(t), NEW l \in 1..Len(t), t[k] \in Closing, t[l] \in Closing
      PROVE  k = l
  <2>1. k + 1 = l + 1
    BY <1>1, <1>3, <1>7
  <2> QED BY <2>1
<1>8. Backed(site, pg, m, i, t, d2)
  BY <1>6, <1>7 DEF Backed
<1> QED BY <1>5, <1>8 DEF s, t

\* What is still needed when the page has come to say applied: no more than before.
LEMMA NeedsFade ==
    \A site \in {"linkedin", "seek"}, m \in Modes, open \in BOOLEAN, s \in Final : \A pg, pg2 :
        (pg = "applied" => pg2 = "applied") =>
            Wants(site, pg2, m, s, open) \in {"nothing", Wants(site, pg, m, s, open)}
<1> SUFFICES ASSUME NEW site \in {"linkedin", "seek"}, NEW m \in Modes, NEW open \in BOOLEAN, NEW s \in Final,
                    NEW pg, NEW pg2, pg = "applied" => pg2 = "applied"
             PROVE  Wants(site, pg2, m, s, open) \in {"nothing", Wants(site, pg, m, s, open)}
  OBVIOUS
<1>1. FromQueue(site, pg, m) => FromQueue(site, pg2, m)
  BY DEF FromQueue
<1>2. CASE s.op = "unqueue"
  <2>1. \A x : Wants(site, x, m, s, open) = UnqueueWants(site, x, m, open)
    BY <1>2 DEF Wants
  <2> QED BY <1>1, <2>1 DEF UnqueueWants
<1>3. CASE s.op \in {"finish", "finishNoJob"}
  <2>1. \A x : Wants(site, x, m, s, open) = EndWants(site, x, m, s)
    BY <1>3 DEF Wants
  <2> QED BY <1>1, <2>1 DEF EndWants
<1>4. CASE s.op \notin {"unqueue", "finish", "finishNoJob"}
  BY <1>4 DEF Wants
<1> QED BY <1>2, <1>3, <1>4

\* A step that keeps what a result still needs.
KeepsNeeds(site, pg, m, i, q, d, d2) ==
    \A k \in 1..Len(q) : Holds(Need(site, pg, m, q, k), d, i) =>
        \/ Holds(Need(site, pg, m, q, k), d2, i)
        \/ \E j \in 1..(k - 1) : Need(site, pg, m, q, k) \in Gives(q[j])

\* A result stays backed while the levels it may need stay.
LEMMA BackedStays ==
    \A site \in {"linkedin", "seek"}, m \in Modes, q \in Seq(Final) : \A i, pg, pg2, d, d2 :
        /\ Backed(site, pg, m, i, q, d) /\ (pg = "applied" => pg2 = "applied")
        /\ KeepsNeeds(site, pg, m, i, q, d, d2)
        => Backed(site, pg2, m, i, q, d2)
<1> SUFFICES ASSUME NEW site \in {"linkedin", "seek"}, NEW m \in Modes, NEW q \in Seq(Final),
                    NEW i, NEW pg, NEW pg2, NEW d, NEW d2,
                    Backed(site, pg, m, i, q, d), pg = "applied" => pg2 = "applied",
                    KeepsNeeds(site, pg, m, i, q, d, d2)
             PROVE  Backed(site, pg2, m, i, q, d2)
  OBVIOUS
<1>1. ASSUME NEW k \in 1..Len(q)
      PROVE  \/ Holds(Need(site, pg2, m, q, k), d2, i)
             \/ \E j \in 1..(k - 1) : Need(site, pg2, m, q, k) \in Gives(q[j])
  <2>1. q[k] \in Final /\ EndsAfter(q, k) \in BOOLEAN
    BY DEF EndsAfter
  <2>2. Need(site, pg2, m, q, k) \in {"nothing", Need(site, pg, m, q, k)}
    BY <2>1, NeedsFade DEF Need
  <2>3. Holds("nothing", d2, i)
    BY DEF Holds
  <2>4. \/ Holds(Need(site, pg, m, q, k), d2, i)
        \/ \E j \in 1..(k - 1) : Need(site, pg, m, q, k) \in Gives(q[j])
    BY DEF Backed, KeepsNeeds
  <2> QED BY <2>2, <2>3, <2>4
<1> QED BY <1>1 DEF Backed

\* What a goroutine counts on stays while another one makes its step.
LEMMA OthersStand ==
    \A site \in {"linkedin", "seek"} : \A p, pg, pg2, r, n, d, d2 :
        /\ Supported(site, pg, r, d) /\ Cast(site, p, r, n) /\ Planned(r) /\ (pg = "applied" => pg2 = "applied")
        /\ Firm(site, d, d2) \/ (p # "bot" /\ Loose(site, d, d2))
        => Supported(site, pg2, r, d2)
<1> SUFFICES ASSUME NEW site \in {"linkedin", "seek"}, NEW p, NEW pg, NEW pg2, NEW r, NEW n, NEW d, NEW d2,
                    Supported(site, pg, r, d), Cast(site, p, r, n), Planned(r), pg = "applied" => pg2 = "applied",
                    Firm(site, d, d2) \/ (p # "bot" /\ Loose(site, d, d2))
             PROVE  Supported(site, pg2, r, d2)
  OBVIOUS
<1>1. r.mode \in Modes /\ r.id \in Ids /\ r.plan \in Seq(Final)
  BY DEF Planned, Processes
<1>2. p # "bot" /\ r.pc # "idle" => r.mode \in {"approve", "reject", "url"}
  BY DEF Cast, RoleOf
<1>3. ASSUME NEW w \in Levels, Holds(w, d, r.id), r.pc # "idle",
             w = "filed" => r.mode = "top",
             w = "tables" => r.mode = "queue" \/ site = "linkedin",
             w = "kept" /\ site = "linkedin" => r.mode \in {"retry", "queue", "top"}
      PROVE  Holds(w, d2, r.id)
  <2>1. CASE Firm(site, d, d2)
    <3>1. w = "filed" => site # "linkedin"
      BY <1>3 DEF Cast
    <3> QED BY <1>1, <1>3, <2>1, <3>1, FirmHolds
  <2>2. CASE p # "bot" /\ Loose(site, d, d2)
    BY <1>1, <1>2, <1>3, <2>2 DEF Levels, Holds, Loose
  <2> QED BY <2>1, <2>2
<1>4. ASSUME r.pc \in Begun \cup Clicked \cup {"looked"}
      PROVE  Holds(Stands(site, r.mode), d2, r.id)
  <2>1. /\ Stands(site, r.mode) \in {"nothing", "kept", "tables"}
        /\ Stands(site, r.mode) = "tables" => site = "linkedin"
        /\ Stands(site, r.mode) = "kept" /\ site = "linkedin" => r.mode \in {"retry", "queue", "top"}
    BY DEF Stands
  <2>2. r.pc # "idle" /\ Holds(Stands(site, r.mode), d, r.id)
    BY <1>4 DEF Supported, Begun, Clicked
  <2> HIDE DEF Supported
  <2> QED BY <1>3, <2>1, <2>2 DEF Levels
<1>5. ASSUME r.pc = "write"
      PROVE  Backed(site, pg2, r.mode, r.id, r.plan, d2)
  <2>1. ASSUME NEW k \in 1..Len(r.plan), Holds(Need(site, pg, r.mode, r.plan, k), d, r.id)
        PROVE  Holds(Need(site, pg, r.mode, r.plan, k), d2, r.id)
    <3> DEFINE w == Need(site, pg, r.mode, r.plan, k)
    <3>1. r.plan[k] \in Final /\ EndsAfter(r.plan, k) \in BOOLEAN
      BY <1>1 DEF EndsAfter
    <3>2. /\ w \in Levels
          /\ w = "filed" => r.mode = "top"
          /\ w = "tables" => r.mode = "queue" \/ site = "linkedin"
          /\ w = "kept" /\ site = "linkedin" => r.mode \in {"retry", "queue", "top"}
      BY <1>1, <3>1, WantsFacts DEF Need, Apt
    <3> HIDE DEF w
    <3> QED BY <1>3, <1>5, <2>1, <3>2 DEF w
  <2>2. Backed(site, pg, r.mode, r.id, r.plan, d)
    BY <1>5 DEF Supported
  <2>3. KeepsNeeds(site, pg, r.mode, r.id, r.plan, d, d2)
    BY <2>1 DEF KeepsNeeds
  <2> QED BY <1>1, <2>2, <2>3, BackedStays
<1> QED BY <1>4, <1>5 DEF Supported

-----------------------------------------------------------------------------
(* Steps: what p does next, and what the others find. *)

\* Only p moves.
Others(p) == \A q \in Procs : q # p => proc'[q] = proc[q]
\* Of the attempts only p's own changes, or one begins.
Untouched(p, d2) == \A a \in Attempts : a <= started /\ a # proc[p].att => d2.attempts[a] = db.attempts[a]

\* p goes on as r, and its step leaves d2.
Promised(site, pg, r, d2) == Supported(site, pg, r, d2) /\ (Open(r) => Owns(r, d2))
Leaves(p, site, d, d2, rows, rows2) ==
    IF p = "bot" THEN Loose(site, d, d2) /\ \A x \in rows2 : Kept(d2, x[1])
    ELSE Firm(site, d, d2) /\ rows2 = rows

\* A scenario is one of one site.
LEMMA SiteIsOne == SettleInv => scenario.site \in {"linkedin", "seek"}
  BY ScenariosAssumption DEF SettleInv

\* A step of p that keeps its promises, and leaves those of the others, keeps them all.
LEMMA StepKeeps ==
    ASSUME NoteInv, SettleInv, SettleInv', NEW p \in Procs, Others(p),
           scenario' = scenario, page = "applied" => page' = "applied", started' \in {started, started + 1},
           Listable(db'), Cast(scenario.site, p, proc'[p], started'),
           proc'[p].att \in {0, proc[p].att} \/ (proc'[p].att = started' /\ started' = started + 1),
           \A a \in Attempts : a > started' => ~db'.attempts[a].row,
           Snapshot(scenario.site, todo', proc'["bot"]),
           Orderly' => Orderly,
           Orderly' => /\ Promised(scenario.site, page', proc'[p], db') /\ Untouched(p, db')
                       /\ Leaves(p, scenario.site, db, db', todo, todo')
                       /\ p = "bot" /\ proc'[p].pc = "consume" => InTables(db', proc'[p].id)
    PROVE  NoteInv'
<1> DEFINE site == scenario.site
<1>1. /\ site \in {"linkedin", "seek"} /\ scenario'.site = site /\ "bot" \in Procs
      /\ started \in Nat /\ started' \in Nat /\ started' >= started /\ started <= MaxAttempts
  BY SiteIsOne, BotIsAProcess DEF SettleInv
<1>2. \A q \in Procs : /\ Planned(proc[q]) /\ Cast(site, q, proc[q], started)
                       /\ proc[q].att \in 0..started
  BY DEF SettleInv, NoteInv, Cast
<1>3. \A q \in Procs : q # p => proc'[q] = proc[q]
  BY DEF Others
<1>4. \A q \in Procs : Cast(site, q, proc'[q], started')
  <2> SUFFICES ASSUME NEW q \in Procs, q # p
               PROVE  Cast(site, q, proc'[q], started')
    OBVIOUS
  <2>1. Cast(site, q, proc[q], started) /\ proc'[q] = proc[q] /\ proc[q].att \in 0..started'
    BY <1>1, <1>2, <1>3
  <2> QED BY <2>1 DEF Cast
<1>5. ASSUME NEW q \in Procs, NEW q2 \in Procs, q # q2, proc'[q].att = proc'[q2].att
      PROVE  proc'[q].att = 0
  <2>1. \A q3 \in Procs : q3 # p /\ proc[q3].att = proc[p].att => proc[q3].att = 0
    BY DEF NoteInv
  <2>2. \A q3 \in Procs : q3 # p /\ proc'[q3].att = proc'[p].att => proc'[q3].att = 0
    <3> SUFFICES ASSUME NEW q3 \in Procs, q3 # p, proc'[q3].att = proc'[p].att
                 PROVE  proc'[q3].att = 0
      OBVIOUS
    <3>1. proc'[q3] = proc[q3] /\ proc[q3].att \in 0..started
      BY <1>2, <1>3
    <3>2. proc'[p].att # started + 1
      BY <1>1, <3>1
    <3> QED BY <2>1, <3>1, <3>2
  <2>3. CASE q = p
    BY <1>5, <2>2, <2>3
  <2>4. CASE q2 = p
    BY <1>5, <2>2, <2>4
  <2>5. CASE q # p /\ q2 # p
    <3>1. proc'[q] = proc[q] /\ proc'[q2] = proc[q2]
      BY <1>3, <2>5
    <3> QED BY <1>5, <3>1 DEF NoteInv
  <2> QED BY <2>3, <2>4, <2>5
<1>6. Orderly' => Promises'
  <2> SUFFICES ASSUME Orderly'  PROVE Promises'
    OBVIOUS
  <2>1. /\ Promises /\ Promised(site, page', proc'[p], db') /\ Untouched(p, db')
        /\ Leaves(p, site, db, db', todo, todo')
        /\ p = "bot" /\ proc'[p].pc = "consume" => InTables(db', proc'[p].id)
    BY DEF NoteInv
  <2>2. Firm(site, db, db') \/ (p = "bot" /\ Loose(site, db, db'))
    BY <2>1 DEF Leaves
  <2>3. ASSUME NEW q \in Procs
        PROVE  Supported(site, page', proc'[q], db') /\ (Open(proc'[q]) => Owns(proc'[q], db'))
    <3>1. CASE q = p
      BY <2>1, <3>1 DEF Promised
    <3>2. CASE q # p
      <4>1. proc'[q] = proc[q] /\ Supported(site, page, proc[q], db) /\ (Open(proc[q]) => Owns(proc[q], db))
        BY <1>3, <2>1, <3>2 DEF Promises
      <4>2. Firm(site, db, db') \/ (q # "bot" /\ Loose(site, db, db'))
        BY <2>2, <3>2
      <4>3. Supported(site, page', proc[q], db')
        BY <1>1, <1>2, <4>1, <4>2, OthersStand
      <4>4. ASSUME Open(proc[q])  PROVE Owns(proc[q], db')
        <5>1. Owns(proc[q], db) /\ proc[q].att \in 0..started /\ proc[q].att # 0
          BY <1>2, <4>1, <4>4 DEF Owns
        <5>2. proc[q].att # proc[p].att
          BY <3>2, <5>1 DEF NoteInv
        <5>3. proc[q].att \in Attempts /\ proc[q].att <= started
          BY <1>1, <5>1, MaxAttemptsAssumption DEF Attempts
        <5>4. db'.attempts[proc[q].att] = db.attempts[proc[q].att]
          BY <2>1, <5>2, <5>3 DEF Untouched
        <5> QED BY <5>1, <5>4 DEF Owns
      <4> QED BY <4>1, <4>3, <4>4
    <3> QED BY <3>1, <3>2
  <2>4. ASSUME proc'["bot"].pc = "consume"  PROVE InTables(db', proc'["bot"].id)
    <3>1. CASE p = "bot"
      BY <2>1, <2>4, <3>1
    <3>2. CASE p # "bot"
      <4>1. proc'["bot"] = proc["bot"] /\ Firm(site, db, db')
        BY <1>1, <1>3, <2>2, <3>2
      <4>2. InTables(db, proc["bot"].id) /\ proc["bot"].id \in Ids
        BY <1>1, <1>2, <2>1, <2>4, <4>1 DEF Promises, Bot, Planned, Processes
      <4> QED BY <4>1, <4>2 DEF Firm
    <3> QED BY <3>1, <3>2
  <2>5. ASSUME NEW x \in todo'  PROVE Kept(db', x[1])
    <3>1. CASE p = "bot"
      BY <2>1, <2>5, <3>1 DEF Leaves
    <3>2. CASE p # "bot"
      <4>1. Firm(site, db, db') /\ x \in todo
        BY <2>1, <2>5, <3>2 DEF Leaves
      <4>2. Kept(db, x[1]) /\ x[1] \in Ids
        BY <2>1, <4>1 DEF Promises, NoteInv, Snapshot
      <4> QED BY <4>1, <4>2 DEF Firm
    <3> QED BY <3>1, <3>2
  <2> QED BY <1>1, <2>3, <2>4, <2>5 DEF Promises, Bot
<1> QED BY <1>1, <1>4, <1>5, <1>6 DEF NoteInv, Bot

-----------------------------------------------------------------------------
(* Results: every statement finds what it needs. *)

\* The statements that put the posting into a table, and those that record it for good.
Adds == {s \in Final : s.op \in {"applied", "skip", "failure", "pend", "keep", "preserve"}}
Lasting == {s \in Final : s.op \in {"applied", "skip", "failure"}}

\* The parts of a statement.
LEMMA Ops ==
    /\ \A x : Do(x).op = x /\ Skip(x).op = "skip" /\ Failure(x).op = "failure" /\ Pend(x).op = "pend"
    /\ \A x, y : S(x, y).op = x /\ S(x, y).arg = y
    /\ \A x : F(x).op = "finish" /\ F(x).arg = x /\ NoJob(x).op = "finishNoJob" /\ NoJob(x).arg = x
BY DEF Do, Skip, Failure, Pend, S, F, NoJob

\* The statements that end an attempt.
LEMMA ClosingStatements ==
    /\ Closing \subseteq Final
    /\ \A s \in Final : s \in Closing <=> s.op \in {"finish", "finishNoJob"}
    /\ \A o \in Outcomes \ {"in_progress"} : F(o) \in Closing /\ NoJob(o) \in Closing
<1>1. Closing \subseteq Final /\ \A s \in Closing : s.op \in {"finish", "finishNoJob"}
  BY DEF Closing, Final, Ends
<1>2. ASSUME NEW s \in Plain  PROVE s.op \notin {"finish", "finishNoJob"}
  BY DEF Plain
<1>3. \A s \in Final : s \in Plain \/ s \in Closing
  BY DEF Final, Closing
<1>4. \A o \in Outcomes \ {"in_progress"} : F(o) \in Closing /\ NoJob(o) \in Closing
  BY EndStatements DEF Closing
<1> QED BY <1>1, <1>2, <1>3, <1>4

\* What the statements that put the posting into a table give, and need nothing for.
LEMMA AddsGive ==
    /\ Lasting \subseteq Adds /\ Adds \subseteq Final /\ \A s \in Adds : s \notin Closing
    /\ \A s \in Adds : {"nothing", "tables", "kept"} \subseteq Gives(s)
    /\ \A s \in Lasting : {"nothing", "record", "tables", "filed", "kept"} \subseteq Gives(s)
    /\ \A s \in Adds : \A site, pg, m, open : Wants(site, pg, m, s, open) = "nothing"
<1>1. Lasting \subseteq Adds /\ Adds \subseteq Final
  BY DEF Lasting, Adds
<1>2. \A s \in Adds : s \notin Closing
  BY ClosingStatements DEF Adds
<1>3. ASSUME NEW s \in Adds
      PROVE  /\ {"nothing", "tables", "kept"} \subseteq Gives(s)
             /\ s \in Lasting => {"nothing", "record", "tables", "filed", "kept"} \subseteq Gives(s)
  <2>1. CASE s.op = "applied"
    BY <2>1 DEF Gives
  <2>2. CASE s.op \in {"skip", "failure"}
    BY <2>2 DEF Gives
  <2>3. CASE s.op \in {"pend", "keep", "preserve"}
    <3>1. s \notin Lasting
      BY <2>3 DEF Lasting
    <3> QED BY <2>3, <3>1 DEF Gives
  <2> QED BY <2>1, <2>2, <2>3 DEF Adds
<1>4. ASSUME NEW s \in Adds, NEW site, NEW pg, NEW m, NEW open
      PROVE  Wants(site, pg, m, s, open) = "nothing"
  <2>1. s.op \notin {"unpend", "unpendLink", "unqueue", "finish", "finishNoJob"}
    BY DEF Adds
  <2> QED BY <2>1 DEF Wants
<1> QED BY <1>1, <1>2, <1>3, <1>4

\* Ending an attempt needs at most what the goroutine stands on.
LEMMA EndNeeds ==
    \A s \in Closing : \A site, pg, m, open :
        Wants(site, pg, m, s, open) \in {"nothing", Stands(site, m)} \cap {"nothing", "tables", "kept"}
<1> SUFFICES ASSUME NEW s \in Closing, NEW site, NEW pg, NEW m, NEW open
             PROVE  Wants(site, pg, m, s, open) \in {"nothing", Stands(site, m)} \cap {"nothing", "tables", "kept"}
  OBVIOUS
<1>1. s.op \in {"finish", "finishNoJob"}
  BY ClosingStatements
<1>2. Stands(site, m) \in {"nothing", "tables", "kept"}
  BY DEF Stands
<1>3. Wants(site, pg, m, s, open) = EndWants(site, pg, m, s)
  BY <1>1 DEF Wants
<1> QED BY <1>2, <1>3 DEF EndWants

\* The lowest level asks for nothing.
LEMMA HoldsNothing == \A d, i : Holds("nothing", d, i)
BY DEF Holds

\* Results of one, two and three statements.
LEMMA BackedOne ==
    \A a \in Final : \A site, pg, m, i, d :
        Holds(Wants(site, pg, m, a, FALSE), d, i) => Backed(site, pg, m, i, <<a>>, d)
<1> SUFFICES ASSUME NEW a \in Final, NEW site, NEW pg, NEW m, NEW i, NEW d, Holds(Wants(site, pg, m, a, FALSE), d, i)
             PROVE  Backed(site, pg, m, i, <<a>>, d)
  OBVIOUS
<1> DEFINE q == <<a>>
<1>1. Len(q) = 1 /\ q[1] = a
  OBVIOUS
<1> HIDE DEF q
<1>2. EndsAfter(q, 1) = FALSE
  BY <1>1 DEF EndsAfter
<1>3. Need(site, pg, m, q, 1) = Wants(site, pg, m, a, FALSE)
  BY <1>1, <1>2 DEF Need
<1>4. \A k, l \in 1..1 : k = l /\ k = 1
  OBVIOUS
<1>5. Backed(site, pg, m, i, q, d)
  BY <1>1, <1>3, <1>4 DEF Backed
<1> QED BY <1>5 DEF q

\* Two statements, the first of which is followed by an end or not (o).
TwoMeet(site, pg, m, i, d, a, b, o) ==
    /\ a \notin Closing /\ (o <=> b \in Closing) /\ Holds(Wants(site, pg, m, a, o), d, i)
    /\ Holds(Wants(site, pg, m, b, FALSE), d, i) \/ Wants(site, pg, m, b, FALSE) \in Gives(a)

\* They make a result that is backed.
LEMMA BackedTwo ==
    \A a, b \in Final, o \in BOOLEAN : \A site, pg, m, i, d :
        TwoMeet(site, pg, m, i, d, a, b, o) => Backed(site, pg, m, i, <<a, b>>, d)
<1> SUFFICES ASSUME NEW a \in Final, NEW b \in Final, NEW o \in BOOLEAN, NEW site, NEW pg, NEW m, NEW i, NEW d,
                    TwoMeet(site, pg, m, i, d, a, b, o)
             PROVE  Backed(site, pg, m, i, <<a, b>>, d)
  OBVIOUS
<1> USE DEF TwoMeet
<1> DEFINE q == <<a, b>>
<1>1. Len(q) = 2 /\ q[1] = a /\ q[2] = b
  OBVIOUS
<1> HIDE DEF q
<1>2. EndsAfter(q, 1) = o /\ EndsAfter(q, 2) = FALSE
  <2>1. (1 + 1)..2 = {2} /\ (2 + 1)..2 = {}
    OBVIOUS
  <2> QED BY <1>1, <2>1 DEF EndsAfter
<1>3. /\ Need(site, pg, m, q, 1) = Wants(site, pg, m, a, o)
      /\ Need(site, pg, m, q, 2) = Wants(site, pg, m, b, FALSE)
  BY <1>1, <1>2 DEF Need
<1>4. 1..2 = {1, 2} /\ 1 \in 1..(2 - 1)
  OBVIOUS
<1>5. Backed(site, pg, m, i, q, d)
  BY <1>1, <1>3, <1>4 DEF Backed
<1> QED BY <1>5 DEF q

\* Three statements, by which of them an end follows.
ThreeMeet(site, pg, m, i, d, a, b, c, o, o2) ==
    /\ a \notin Closing /\ (o2 <=> c \in Closing) /\ (o <=> (b \in Closing \/ c \in Closing))
    /\ ~(b \in Closing /\ c \in Closing) /\ Holds(Wants(site, pg, m, a, o), d, i)
    /\ Holds(Wants(site, pg, m, b, o2), d, i) \/ Wants(site, pg, m, b, o2) \in Gives(a)
    /\ \/ Holds(Wants(site, pg, m, c, FALSE), d, i)
       \/ Wants(site, pg, m, c, FALSE) \in Gives(a)
       \/ Wants(site, pg, m, c, FALSE) \in Gives(b)

\* They make a result that is backed.
LEMMA BackedThree ==
    \A a, b, c \in Final, o, o2 \in BOOLEAN : \A site, pg, m, i, d :
        ThreeMeet(site, pg, m, i, d, a, b, c, o, o2) => Backed(site, pg, m, i, <<a, b, c>>, d)
<1> SUFFICES ASSUME NEW a \in Final, NEW b \in Final, NEW c \in Final, NEW o \in BOOLEAN, NEW o2 \in BOOLEAN,
                    NEW site, NEW pg, NEW m, NEW i, NEW d, ThreeMeet(site, pg, m, i, d, a, b, c, o, o2)
             PROVE  Backed(site, pg, m, i, <<a, b, c>>, d)
  OBVIOUS
<1> USE DEF ThreeMeet
<1> DEFINE q == <<a, b, c>>
<1>1. Len(q) = 3 /\ q[1] = a /\ q[2] = b /\ q[3] = c
  OBVIOUS
<1> HIDE DEF q
<1>2. EndsAfter(q, 1) = o /\ EndsAfter(q, 2) = o2 /\ EndsAfter(q, 3) = FALSE
  <2>1. (1 + 1)..3 = {2, 3} /\ (2 + 1)..3 = {3} /\ (3 + 1)..3 = {}
    OBVIOUS
  <2> QED BY <1>1, <2>1 DEF EndsAfter
<1>3. /\ Need(site, pg, m, q, 1) = Wants(site, pg, m, a, o)
      /\ Need(site, pg, m, q, 2) = Wants(site, pg, m, b, o2)
      /\ Need(site, pg, m, q, 3) = Wants(site, pg, m, c, FALSE)
  BY <1>1, <1>2 DEF Need
<1>4. 1..3 = {1, 2, 3} /\ 1 \in 1..(2 - 1) /\ 1 \in 1..(3 - 1) /\ 2 \in 1..(3 - 1)
  OBVIOUS
<1>5. Backed(site, pg, m, i, q, d)
  BY <1>1, <1>3, <1>4 DEF Backed
<1> QED BY <1>5 DEF q

\* A posting that is in jobs_applied is in no other need.
LEMMA BackedApplied ==
    \A site \in {"linkedin", "seek"}, m \in Modes, q \in Seq(Final) : \A pg, i, d :
        /\ q # <<>> /\ q[1].op = "applied"
        /\ \A k, l \in 1..Len(q) : q[k] \in Closing /\ q[l] \in Closing => k = l
        => Backed(site, pg, m, i, q, d)
<1> SUFFICES ASSUME NEW site \in {"linkedin", "seek"}, NEW m \in Modes, NEW q \in Seq(Final), NEW pg, NEW i, NEW d,
                    q # <<>>, q[1].op = "applied",
                    \A k, l \in 1..Len(q) : q[k] \in Closing /\ q[l] \in Closing => k = l
             PROVE  Backed(site, pg, m, i, q, d)
  OBVIOUS
<1>1. Len(q) \in Nat /\ Len(q) >= 1 /\ \A k \in 1..Len(q) : q[k] \in Final
  OBVIOUS
<1>2. Gives(q[1]) = Levels
  BY DEF Gives, Levels
<1>3. ASSUME NEW k \in 1..Len(q)
      PROVE  \/ Holds(Need(site, pg, m, q, k), d, i)
             \/ \E j \in 1..(k - 1) : Need(site, pg, m, q, k) \in Gives(q[j])
  <2>1. CASE k = 1
    <3>1. q[1] \in Adds
      BY <1>1 DEF Adds
    <3>2. Need(site, pg, m, q, k) = "nothing"
      BY <2>1, <3>1, AddsGive DEF Need
    <3> QED BY <3>2, HoldsNothing
  <2>2. CASE k # 1
    <3>1. 1 \in 1..(k - 1)
      BY <1>1, <2>2
    <3>2. EndsAfter(q, k) \in BOOLEAN
      BY DEF EndsAfter
    <3>3. Need(site, pg, m, q, k) \in Levels
      BY <1>1, <3>2, WantsFacts DEF Need, Apt
    <3> QED BY <1>2, <3>1, <3>3
  <2> QED BY <2>1, <2>2
<1> QED BY <1>3 DEF Backed

\* What the remaining statements need.
LEMMA OtherNeeds ==
    /\ {Do("count"), Do("unqueue"), Do("unpend"), Do("unpendLink"), Do("applied")} \subseteq Final \ Closing
    /\ Do("applied").op = "applied"
    /\ \A site, pg, m, open : /\ Wants(site, pg, m, Do("count"), open) = "nothing"
                              /\ Wants(site, pg, m, Do("unqueue"), open) = UnqueueWants(site, pg, m, open)
                              /\ Wants(site, pg, m, Do("unpend"), open) = UnpendWants(m, open)
<1>1. /\ Do("count").op = "count" /\ Do("unqueue").op = "unqueue" /\ Do("unpend").op = "unpend"
      /\ Do("unpendLink").op = "unpendLink" /\ Do("applied").op = "applied"
  BY Ops
<1>2. {Do("count"), Do("unqueue"), Do("unpend"), Do("unpendLink"), Do("applied")} \subseteq Final
  BY PlainStatements, FinalStatements
<1>3. ASSUME NEW site, NEW pg, NEW m, NEW open
      PROVE  /\ Wants(site, pg, m, Do("count"), open) = "nothing"
             /\ Wants(site, pg, m, Do("unqueue"), open) = UnqueueWants(site, pg, m, open)
             /\ Wants(site, pg, m, Do("unpend"), open) = UnpendWants(m, open)
  BY <1>1 DEF Wants
<1> QED BY <1>1, <1>2, <1>3, ClosingStatements

\* The results that end an attempt, and those that need no end.
LEMMA PairsBacked ==
    \A a \in Adds, f \in Closing : \A site, pg, m, i, d :
        /\ Backed(site, pg, m, i, <<a, f>>, d)
        /\ Backed(site, pg, m, i, <<a>>, d)
        /\ Backed(site, pg, m, i, <<Do("count")>>, d)
        /\ Holds(Stands(site, m), d, i) => Backed(site, pg, m, i, <<f>>, d)
        /\ FromQueue(site, pg, m) => Backed(site, pg, m, i, <<Do("unqueue"), f>>, d)
        /\ m = "reject" /\ a \in Lasting => Backed(site, pg, m, i, <<a, Do("unpend")>>, d)
<1> SUFFICES ASSUME NEW a \in Adds, NEW f \in Closing, NEW site, NEW pg, NEW m, NEW i, NEW d
             PROVE  /\ Backed(site, pg, m, i, <<a, f>>, d)
                    /\ Backed(site, pg, m, i, <<a>>, d)
                    /\ Backed(site, pg, m, i, <<Do("count")>>, d)
                    /\ Holds(Stands(site, m), d, i) => Backed(site, pg, m, i, <<f>>, d)
                    /\ FromQueue(site, pg, m) => Backed(site, pg, m, i, <<Do("unqueue"), f>>, d)
                    /\ m = "reject" /\ a \in Lasting => Backed(site, pg, m, i, <<a, Do("unpend")>>, d)
  BY Zenon
<1>1. a \in Final \ Closing /\ f \in Final /\ {"nothing", "tables", "kept"} \subseteq Gives(a)
  BY AddsGive, ClosingStatements
<1>2. \A o \in BOOLEAN : Holds(Wants(site, pg, m, a, o), d, i) /\ Holds(Wants(site, pg, m, Do("count"), o), d, i)
  BY AddsGive, OtherNeeds, HoldsNothing
<1>3. Wants(site, pg, m, f, FALSE) \in {"nothing", Stands(site, m)} \cap {"nothing", "tables", "kept"}
  BY EndNeeds
<1>4. Backed(site, pg, m, i, <<a, f>>, d)
  <2>1. TwoMeet(site, pg, m, i, d, a, f, TRUE)
    BY <1>1, <1>2, <1>3 DEF TwoMeet
  <2> QED BY <1>1, <2>1, BackedTwo
<1>5. Backed(site, pg, m, i, <<a>>, d) /\ Backed(site, pg, m, i, <<Do("count")>>, d)
  BY <1>1, <1>2, BackedOne, OtherNeeds
<1>6. ASSUME Holds(Stands(site, m), d, i)  PROVE Backed(site, pg, m, i, <<f>>, d)
  <2>1. Holds(Wants(site, pg, m, f, FALSE), d, i)
    BY <1>3, <1>6, HoldsNothing
  <2> QED BY <1>1, <2>1, BackedOne
<1>7. ASSUME FromQueue(site, pg, m)  PROVE Backed(site, pg, m, i, <<Do("unqueue"), f>>, d)
  <2>1. Wants(site, pg, m, Do("unqueue"), TRUE) = "nothing"
    BY <1>7, OtherNeeds DEF UnqueueWants
  <2>2. Wants(site, pg, m, f, FALSE) = "nothing"
    <3>1. Wants(site, pg, m, f, FALSE) = EndWants(site, pg, m, f)
      BY ClosingStatements DEF Wants
    <3> QED BY <1>7, <3>1 DEF EndWants
  <2>3. TwoMeet(site, pg, m, i, d, Do("unqueue"), f, TRUE)
    BY <2>1, <2>2, HoldsNothing, OtherNeeds DEF TwoMeet
  <2> QED BY <1>1, <2>3, OtherNeeds, BackedTwo
<1>8. ASSUME m = "reject", a \in Lasting  PROVE Backed(site, pg, m, i, <<a, Do("unpend")>>, d)
  <2>1. Wants(site, pg, m, Do("unpend"), FALSE) = "record"
    BY <1>8, OtherNeeds DEF UnpendWants
  <2>2. "record" \in Gives(a)
    BY <1>8, AddsGive
  <2>3. TwoMeet(site, pg, m, i, d, a, Do("unpend"), FALSE)
    BY <1>1, <1>2, <2>1, <2>2, OtherNeeds DEF TwoMeet
  <2> QED BY <1>1, <2>3, OtherNeeds, BackedTwo
<1> QED BY <1>4, <1>5, <1>6, <1>7, <1>8

\* The results of three statements that the code runs.
LEMMA TriplesBacked ==
    \A a \in Adds, f \in Closing : \A site, pg, m, i, d :
        /\ Backed(site, pg, m, i, <<a, Do("count"), f>>, d)
        /\ Backed(site, pg, m, i, <<a, f, Do("count")>>, d)
        /\ m = "queue" \/ (m = "approve" /\ site = "linkedin") => Backed(site, pg, m, i, <<a, Do("unqueue"), f>>, d)
        /\ FromQueue(site, pg, m) => Backed(site, pg, m, i, <<Do("unqueue"), a, f>>, d)
        /\ m = "approve" /\ a \in Lasting => Backed(site, pg, m, i, <<a, Do("unpend"), f>>, d)
        /\ m = "top" /\ (a \in Lasting \/ f.arg = "submission_unknown")
              => Backed(site, pg, m, i, <<a, f, Do("unpend")>>, d)
<1> SUFFICES ASSUME NEW a \in Adds, NEW f \in Closing, NEW site, NEW pg, NEW m, NEW i, NEW d
             PROVE  /\ Backed(site, pg, m, i, <<a, Do("count"), f>>, d)
                    /\ Backed(site, pg, m, i, <<a, f, Do("count")>>, d)
                    /\ m = "queue" \/ (m = "approve" /\ site = "linkedin")
                          => Backed(site, pg, m, i, <<a, Do("unqueue"), f>>, d)
                    /\ FromQueue(site, pg, m) => Backed(site, pg, m, i, <<Do("unqueue"), a, f>>, d)
                    /\ m = "approve" /\ a \in Lasting => Backed(site, pg, m, i, <<a, Do("unpend"), f>>, d)
                    /\ m = "top" /\ (a \in Lasting \/ f.arg = "submission_unknown")
                          => Backed(site, pg, m, i, <<a, f, Do("unpend")>>, d)
  OBVIOUS
<1>1. a \in Final \ Closing /\ f \in Final /\ {"nothing", "tables", "kept"} \subseteq Gives(a)
  BY AddsGive, ClosingStatements
<1>2. \A o \in BOOLEAN : Holds(Wants(site, pg, m, a, o), d, i) /\ Holds(Wants(site, pg, m, Do("count"), o), d, i)
  BY AddsGive, OtherNeeds, HoldsNothing
<1>3. \A o \in BOOLEAN : Wants(site, pg, m, f, o) \in {"nothing", "tables", "kept"}
  BY EndNeeds
<1>4. Backed(site, pg, m, i, <<a, Do("count"), f>>, d) /\ Backed(site, pg, m, i, <<a, f, Do("count")>>, d)
  <2>1. ThreeMeet(site, pg, m, i, d, a, Do("count"), f, TRUE, TRUE)
    BY <1>1, <1>2, <1>3, OtherNeeds DEF ThreeMeet
  <2>2. ThreeMeet(site, pg, m, i, d, a, f, Do("count"), TRUE, FALSE)
    BY <1>1, <1>2, <1>3, OtherNeeds DEF ThreeMeet
  <2> QED BY <1>1, <2>1, <2>2, BackedThree, OtherNeeds
<1>5. ASSUME m = "queue" \/ (m = "approve" /\ site = "linkedin")
      PROVE  Backed(site, pg, m, i, <<a, Do("unqueue"), f>>, d)
  <2>1. Wants(site, pg, m, Do("unqueue"), TRUE) \in {"nothing", "tables"}
    BY <1>5, OtherNeeds, Zenon DEF UnqueueWants
  <2>2. ThreeMeet(site, pg, m, i, d, a, Do("unqueue"), f, TRUE, TRUE)
    BY <1>1, <1>2, <1>3, <2>1, OtherNeeds DEF ThreeMeet
  <2> QED BY <1>1, <2>2, BackedThree, OtherNeeds
<1>6. ASSUME FromQueue(site, pg, m)  PROVE Backed(site, pg, m, i, <<Do("unqueue"), a, f>>, d)
  <2>1. Wants(site, pg, m, Do("unqueue"), TRUE) = "nothing"
    BY <1>6, OtherNeeds DEF UnqueueWants
  <2>2. ThreeMeet(site, pg, m, i, d, Do("unqueue"), a, f, TRUE, TRUE)
    BY <1>1, <1>2, <1>3, <2>1, HoldsNothing, OtherNeeds DEF ThreeMeet
  <2> QED BY <1>1, <2>2, BackedThree, OtherNeeds
<1>7. ASSUME m = "approve", a \in Lasting  PROVE Backed(site, pg, m, i, <<a, Do("unpend"), f>>, d)
  <2>1. Wants(site, pg, m, Do("unpend"), TRUE) = "record" /\ "record" \in Gives(a)
    BY <1>7, OtherNeeds, AddsGive DEF UnpendWants
  <2>2. ThreeMeet(site, pg, m, i, d, a, Do("unpend"), f, TRUE, TRUE)
    BY <1>1, <1>2, <1>3, <2>1, OtherNeeds DEF ThreeMeet
  <2> QED BY <1>1, <2>2, BackedThree, OtherNeeds
<1>8. ASSUME m = "top", a \in Lasting \/ f.arg = "submission_unknown"
      PROVE  Backed(site, pg, m, i, <<a, f, Do("unpend")>>, d)
  <2>1. Wants(site, pg, m, Do("unpend"), FALSE) = "filed"
    BY <1>8, OtherNeeds DEF UnpendWants
  <2>2. "filed" \in Gives(a) \/ "filed" \in Gives(f)
    <3>1. CASE a \in Lasting
      BY <3>1, AddsGive
    <3>2. CASE f.arg = "submission_unknown"
      <4>1. Gives(f) = {"nothing", "filed", "kept"}
        BY <3>2, ClosingStatements DEF Gives
      <4> QED BY <4>1
    <3> QED BY <1>8, <3>1, <3>2
  <2>3. ThreeMeet(site, pg, m, i, d, a, f, Do("unpend"), TRUE, FALSE)
    BY <1>1, <1>2, <1>3, <2>1, <2>2, OtherNeeds DEF ThreeMeet
  <2> QED BY <1>1, <2>3, BackedThree, OtherNeeds
<1> QED BY <1>4, <1>5, <1>6, <1>7, <1>8

\* Once the application is recorded, nothing that follows forgets it.
LEMMA AppliedBacked ==
    \A site \in {"linkedin", "seek"}, m \in Modes, f \in Closing : \A pg, i, d :
        /\ Backed(site, pg, m, i, <<Do("applied"), Do("unpendLink"), f>>, d)
        /\ Backed(site, pg, m, i, <<Do("applied"), Do("unpendLink"), Do("unqueue"), f, Do("unpend")>>, d)
<1> SUFFICES ASSUME NEW site \in {"linkedin", "seek"}, NEW m \in Modes, NEW f \in Closing, NEW pg, NEW i, NEW d
             PROVE  /\ Backed(site, pg, m, i, <<Do("applied"), Do("unpendLink"), f>>, d)
                    /\ Backed(site, pg, m, i, <<Do("applied"), Do("unpendLink"), Do("unqueue"), f, Do("unpend")>>, d)
  OBVIOUS
<1>1. f \in Final
  BY ClosingStatements
<1> DEFINE q == <<Do("applied"), Do("unpendLink"), f>>
<1> DEFINE t == <<Do("applied"), Do("unpendLink"), Do("unqueue"), f, Do("unpend")>>
<1>2. q \in Seq(Final) /\ t \in Seq(Final)
  BY <1>1, OtherNeeds, Tuples
<1>3. /\ Len(q) = 3 /\ q[1] = Do("applied") /\ q[2] = Do("unpendLink")
      /\ Len(t) = 5 /\ t[1] = Do("applied") /\ t[2] = Do("unpendLink") /\ t[3] = Do("unqueue") /\ t[5] = Do("unpend")
  OBVIOUS
<1> HIDE DEF q, t
<1>4. 1..3 = {1, 2, 3} /\ 1..5 = {1, 2, 3, 4, 5} /\ q # <<>> /\ t # <<>>
  BY <1>3
<1>5. /\ \A k, l \in 1..Len(q) : q[k] \in Closing /\ q[l] \in Closing => k = l
      /\ \A k, l \in 1..Len(t) : t[k] \in Closing /\ t[l] \in Closing => k = l
  BY <1>3, <1>4, OtherNeeds
<1>6. Backed(site, pg, m, i, q, d) /\ Backed(site, pg, m, i, t, d)
  BY <1>2, <1>3, <1>4, <1>5, OtherNeeds, BackedApplied
<1> QED BY <1>6 DEF q, t

\* Short sequences put together, of one set and of any.
LEMMA Joined ==
    ASSUME NEW A, NEW x \in A, NEW y \in A, NEW z \in A
    PROVE  <<x>> \o <<y>> = <<x, y>> /\ <<x>> \o <<y, z>> = <<x, y, z>> /\ <<x, y>> \o <<z>> = <<x, y, z>>
<1>1. /\ <<x>> \o <<y>> \in Seq(A) /\ <<x>> \o <<y, z>> \in Seq(A) /\ <<x, y>> \o <<z>> \in Seq(A)
      /\ <<x, y>> \in Seq(A) /\ <<x, y, z>> \in Seq(A)
  OBVIOUS
<1>2. /\ Len(<<x>> \o <<y>>) = 2 /\ Len(<<x, y>>) = 2 /\ Len(<<x, y, z>>) = 3
      /\ Len(<<x>> \o <<y, z>>) = 3 /\ Len(<<x, y>> \o <<z>>) = 3
  OBVIOUS
<1>3. \A k \in 1..2 : (<<x>> \o <<y>>)[k] = <<x, y>>[k]
  OBVIOUS
<1>4. \A k \in 1..3 : (<<x>> \o <<y, z>>)[k] = <<x, y, z>>[k]
  OBVIOUS
<1>5. \A k \in 1..3 : (<<x, y>> \o <<z>>)[k] = <<x, y, z>>[k]
  OBVIOUS
<1> QED BY <1>1, <1>2, <1>3, <1>4, <1>5, SeqEqual, Zenon

\* The same for any elements.
LEMMA Joins ==
    \A x, y, z : /\ <<>> \o <<x>> = <<x>> /\ <<x>> \o <<y>> = <<x, y>> /\ <<x>> \o <<>> \o <<y>> = <<x, y>>
                 /\ <<x>> \o <<y>> \o <<z>> = <<x, y, z>> /\ <<x, y>> \o <<z>> = <<x, y, z>>
                 /\ <<x>> \o <<y, z>> = <<x, y, z>> /\ <<x, y>> \o <<>> = <<x, y>>
<1> SUFFICES ASSUME NEW x, NEW y, NEW z
             PROVE  /\ <<>> \o <<x>> = <<x>> /\ <<x>> \o <<y>> = <<x, y>> /\ <<x>> \o <<>> \o <<y>> = <<x, y>>
                    /\ <<x>> \o <<y>> \o <<z>> = <<x, y, z>> /\ <<x, y>> \o <<z>> = <<x, y, z>>
                    /\ <<x>> \o <<y, z>> = <<x, y, z>> /\ <<x, y>> \o <<>> = <<x, y>>
  BY Zenon
<1> DEFINE A == {x, y, z}
<1>1. x \in A /\ y \in A /\ z \in A
  OBVIOUS
<1> HIDE DEF A
<1>2. <<x>> \in Seq(A) /\ <<x, y>> \in Seq(A)
  BY <1>1
<1>3. <<>> \o <<x>> = <<x>> /\ <<x>> \o <<>> = <<x>> /\ <<x, y>> \o <<>> = <<x, y>>
  BY <1>2, ConcatEmptySeq
<1>4. <<x>> \o <<y>> = <<x, y>> /\ <<x, y>> \o <<z>> = <<x, y, z>> /\ <<x>> \o <<y, z>> = <<x, y, z>>
  BY <1>1, Joined
<1> QED BY <1>3, <1>4

\* The statements that the results are made of.
LEMMA StatementsOfResults ==
    /\ {Do("applied"), Skip("retryable"), Skip("rejected"), Failure("retryable"), Failure("unknown")} \subseteq Lasting
    /\ Do("preserve") \in Adds /\ Pend(FALSE) \in Adds /\ Pend(TRUE) \in Adds
    /\ S("keep", TRUE) \in Adds /\ S("keep", FALSE) \in Adds
    /\ F("other") \in Closing /\ F("submission_unknown") \in Closing /\ NoJob("other") \in Closing
    /\ \A r : Ended(r) \in Closing /\ Settled(r) \in Closing /\ SkipOrMatch(r) \in Adds
    /\ \A r : r \notin Unsure => (r \in TopMatchTexts => r = "blocked")
    /\ \A r : r \notin TopMatchTexts => SkipOrMatch(r) \in Lasting
    /\ \A r \in Unsure : Ended(r).arg = "submission_unknown"
<1>1. /\ Do("applied").op = "applied" /\ Do("preserve").op = "preserve"
      /\ \A x : Skip(x).op = "skip" /\ Failure(x).op = "failure" /\ Pend(x).op = "pend" /\ S("keep", x).op = "keep"
  BY Ops
<1>2. /\ Do("applied") \in Final /\ Do("preserve") \in Final
      /\ \A x \in Reasons : Skip(x) \in Final /\ Failure(x) \in Final
      /\ \A x \in BOOLEAN : Pend(x) \in Final /\ S("keep", x) \in Final
  BY PlainStatements, FinalStatements
<1>3. {"retryable", "rejected", "unknown"} \subseteq Reasons
  BY DEF Reasons
<1>4. {Do("applied"), Skip("retryable"), Skip("rejected"), Failure("retryable"), Failure("unknown")} \subseteq Lasting
  BY <1>1, <1>2, <1>3 DEF Lasting
<1>5. Do("preserve") \in Adds
  BY <1>1, <1>2 DEF Adds
<1>6. \A x \in BOOLEAN : Pend(x) \in Adds /\ S("keep", x) \in Adds
  BY <1>1, <1>2, Zenon DEF Adds
<1>7. Skip("retryable") \in Adds
  BY <1>4, AddsGive
<1>8. \A r : SkipOrMatch(r) \in Adds
  BY <1>6, <1>7, Zenon DEF SkipOrMatch
<1>9. \A r : r \notin TopMatchTexts => SkipOrMatch(r) \in Lasting
  <2> SUFFICES ASSUME NEW r, r \notin TopMatchTexts  PROVE SkipOrMatch(r) \in Lasting
    OBVIOUS
  <2>1. SkipOrMatch(r) = Skip("retryable")
    BY DEF SkipOrMatch
  <2> QED BY <1>4, <2>1
<1>10. /\ F("other") \in Closing /\ F("submission_unknown") \in Closing /\ NoJob("other") \in Closing
       /\ F("submitted_confirmed") \in Closing
  BY ClosingStatements, FinalStatements
<1>11. \A r : Ended(r) \in Closing /\ Settled(r) \in Closing
  BY <1>10 DEF Ended, Settled
<1>12. \A r \in Unsure : Ended(r).arg = "submission_unknown"
  BY Ops DEF Ended
<1>13. \A r : r \notin Unsure => (r \in TopMatchTexts => r = "blocked")
  BY DEF Unsure, TopMatchTexts
<1> QED BY <1>4, <1>5, <1>6, <1>8, <1>9, <1>10, <1>11, <1>12, <1>13

\* How an application can have gone, for whom and on which site.
Admits(site, pg, m, r) ==
    /\ r \in Errors \cup Unsure
    /\ r \in {"already", "drift"} /\ m = "queue" => FromQueue(site, pg, m)
    /\ r \in Reviewed /\ m = "approve" => site = "linkedin"

\* Whatever way an application goes, its result is backed.
LEMMA OutcomeBacked ==
    ASSUME SettleInv
    PROVE  \A p \in Procs, m \in ApplyModes \cup {"top"} : \A pg, r, i, d :
               /\ proc[p].mode = m /\ Admits(scenario.site, pg, m, r) /\ Holds(Stands(scenario.site, m), d, i)
               => /\ Plan(p, r) \in Seq(Final) /\ Plan(p, r) # <<>>
                  /\ Backed(scenario.site, pg, m, i, Plan(p, r), d)
<1> SUFFICES ASSUME NEW p \in Procs, NEW m \in ApplyModes \cup {"top"}, NEW pg, NEW r, NEW i, NEW d,
                    proc[p].mode = m, Admits(scenario.site, pg, m, r), Holds(Stands(scenario.site, m), d, i)
             PROVE  /\ Plan(p, r) \in Seq(Final) /\ Plan(p, r) # <<>>
                    /\ Backed(scenario.site, pg, m, i, Plan(p, r), d)
  OBVIOUS
<1> DEFINE site == scenario.site
<1>1. /\ site \in {"linkedin", "seek"} /\ r \in Errors \cup Unsure /\ m \in Modes
      /\ (LinkedIn <=> site = "linkedin")
  BY SiteIsOne DEF Admits, ApplyModes, Modes, LinkedIn
<1>2. Plan(p, r) \in FinalPlans
  BY <1>1, EveryPlanEnds
<1>3. Plan(p, r) \in Seq(Final) /\ Plan(p, r) # <<>>
  BY <1>2, FinalTail DEF FinalPlans
<1> DEFINE B(q) == Backed(site, pg, m, i, q, d)
<1>4. /\ \A a \in Adds, f \in Closing : B(<<a, f>>) /\ B(<<a, Do("count"), f>>) /\ B(<<a, f, Do("count")>>)
      /\ \A f \in Closing : B(<<f>>) /\ B(<<Do("applied"), Do("unpendLink"), f>>)
      /\ \A f \in Closing : B(<<Do("applied"), Do("unpendLink"), Do("unqueue"), f, Do("unpend")>>)
      /\ \A a \in Adds, f \in Closing :
            m = "queue" \/ (m = "approve" /\ site = "linkedin") => B(<<a, Do("unqueue"), f>>)
      /\ FromQueue(site, pg, m) => \A a \in Adds, f \in Closing : B(<<Do("unqueue"), f>>) /\ B(<<Do("unqueue"), a, f>>)
      /\ m = "top" => \A a \in Adds, f \in Closing :
            a \in Lasting \/ f.arg = "submission_unknown" => B(<<a, f, Do("unpend")>>)
  <2>1. Adds # {}
    BY StatementsOfResults
  <2> QED BY <1>1, <2>1, PairsBacked, TriplesBacked, AppliedBacked
<1> HIDE DEF B
<1>5. /\ {Do("applied"), Skip("retryable"), Failure("retryable"), Failure("unknown"), Do("preserve")} \subseteq Adds
      /\ Pend(FALSE) \in Adds /\ S("keep", TRUE) \in Adds /\ S("keep", FALSE) \in Adds
      /\ SkipOrMatch(r) \in Adds
      /\ F("other") \in Closing /\ F("submission_unknown") \in Closing /\ Ended(r) \in Closing /\ Settled(r) \in Closing
  BY StatementsOfResults, AddsGive
<1>6. ASSUME r \in Reviewed
      PROVE  /\ B(ReviewPlan(r, <<>>))
             /\ m = "queue" \/ (m = "approve" /\ site = "linkedin") => B(ReviewPlan(r, <<Do("unqueue")>>))
  <2>1. PICK a \in Adds, f \in Closing : \A unqueue : ReviewPlan(r, unqueue) = <<a>> \o unqueue \o <<f>>
    <3>1. CASE r \in {"unknown", "drift"}
      <4>1. \A unqueue : ReviewPlan(r, unqueue) = <<Failure("unknown")>> \o unqueue \o <<F("submission_unknown")>>
        BY <3>1 DEF ReviewPlan
      <4> QED BY <1>5, <4>1
    <3>2. CASE r = "review"
      <4>1. \A unqueue : ReviewPlan(r, unqueue) = <<Failure("retryable")>> \o unqueue \o <<F("other")>>
        BY <3>2 DEF ReviewPlan
      <4> QED BY <1>5, <4>1
    <3>3. CASE r = "external"
      <4>1. \A unqueue : ReviewPlan(r, unqueue) = <<Do("preserve")>> \o unqueue \o <<F("other")>>
        BY <3>3 DEF ReviewPlan
      <4> QED BY <1>5, <4>1
    <3> QED BY <1>6, <3>1, <3>2, <3>3 DEF Reviewed
  <2>2. ReviewPlan(r, <<>>) = <<a, f>> /\ ReviewPlan(r, <<Do("unqueue")>>) = <<a, Do("unqueue"), f>>
    <3>1. <<a>> \o <<>> \o <<f>> = <<a, f>> /\ <<a>> \o <<Do("unqueue")>> \o <<f>> = <<a, Do("unqueue"), f>>
      <4> DEFINE u == Do("unqueue")
      <4> HIDE DEF u
      <4>1. <<a>> \o <<>> \o <<f>> = <<a, f>>
        BY Joins, ZenonT(30)
      <4>2. <<a>> \o <<u>> \o <<f>> = <<a, u, f>>
        BY Joins, ZenonT(30)
      <4> QED BY <4>1, <4>2 DEF u
    <3>2. ReviewPlan(r, <<>>) = <<a>> \o <<>> \o <<f>>
      BY <2>1, Zenon
    <3>3. ReviewPlan(r, <<Do("unqueue")>>) = <<a>> \o <<Do("unqueue")>> \o <<f>>
      BY <2>1, Zenon
    <3> QED BY <3>1, <3>2, <3>3, Zenon
  <2> QED BY <1>4, <2>2
<1>7. B(EasyApplyPlan(r))
  <2>1. \/ r \in Reviewed /\ EasyApplyPlan(r) = ReviewPlan(r, <<>>)
        \/ EasyApplyPlan(r) = <<Do("applied"), Settled(r)>>
        \/ EasyApplyPlan(r) = <<Pend(FALSE), F("other")>>
        \/ EasyApplyPlan(r) = <<Skip("retryable"), F("other")>>
    <3>1. CASE r \in Reviewed
      <4>1. EasyApplyPlan(r) = ReviewPlan(r, <<>>)
        BY <3>1 DEF EasyApplyPlan, Reviewed
      <4> QED BY <3>1, <4>1
    <3>2. CASE r \in {"ok", "already"}
      BY <3>2 DEF EasyApplyPlan, Reviewed
    <3>3. CASE r = "blocked"
      BY <3>3 DEF EasyApplyPlan, Reviewed
    <3>4. CASE r \notin Reviewed \cup {"ok", "already", "blocked"}
      BY <3>4 DEF EasyApplyPlan
    <3> QED BY <3>1, <3>2, <3>3, <3>4
  <2>2. B(<<Do("applied"), Settled(r)>>) /\ B(<<Skip("retryable"), F("other")>>)
    BY <1>4, <1>5, Zenon
  <2>3. B(<<Pend(FALSE), F("other")>>)
    BY <1>4, <1>5, Zenon
  <2> QED BY <1>6, <2>1, <2>2, <2>3, Zenon
<1>8. B(SeekPlan(r)) /\ (m = "top" => B(TopMatchPlan(r)))
  <2>1. PICK a \in Adds, f \in Closing :
            /\ SeekPlan(r) = <<a, f>>
            /\ r = "blocked" \/ a \in Lasting \/ f.arg = "submission_unknown"
    <3>1. CASE r = "ok"
      <4>1. SeekPlan(r) = <<Do("applied"), Settled(r)>>
        BY <3>1 DEF SeekPlan, Unsure
      <4> QED BY <1>5, <4>1, StatementsOfResults
    <3>2. CASE r \in Unsure
      <4>1. SeekPlan(r) = <<SkipOrMatch(r), Ended(r)>>
        BY <3>2, Zenon DEF SeekPlan, Unsure
      <4>2. Ended(r).arg = "submission_unknown"
        BY <3>2, StatementsOfResults
      <4> QED BY <1>5, <4>1, <4>2, Zenon
    <3>3. CASE r = "blocked"
      <4>1. SeekPlan(r) = <<Pend(FALSE), F("other")>>
        BY <3>3 DEF SeekPlan, Unsure
      <4> QED BY <1>5, <3>3, <4>1, Zenon
    <3>4. CASE r \notin Unsure \cup {"ok", "blocked"}
      <4>1. SeekPlan(r) = <<Skip("retryable"), F("other")>>
        BY <3>4 DEF SeekPlan
      <4> QED BY <1>5, <4>1, StatementsOfResults
    <3> QED BY <3>1, <3>2, <3>3, <3>4
  <2>2. TopMatchPlan(r) = IF r = "blocked" THEN <<a, f, Do("count")>> ELSE <<a, f, Do("unpend")>>
    BY <2>1, Joins DEF TopMatchPlan
  <2> QED BY <1>4, <2>1, <2>2
<1>9. ASSUME m = "queue"  PROVE B(QueuePlan(r))
  <2> DEFINE u == Do("unqueue")
  <2>1. \/ r \in Reviewed /\ QueuePlan(r) = ReviewPlan(r, <<u>>)
        \/ r = "drift" /\ QueuePlan(r) = <<u, Failure("unknown"), F("submission_unknown")>>
        \/ r = "already" /\ QueuePlan(r) = <<u, Settled(r)>>
        \/ QueuePlan(r) = <<Do("applied"), u, Settled(r)>>
        \/ QueuePlan(r) = <<Skip("retryable"), u, Ended(r)>>
        \/ QueuePlan(r) = <<SkipOrMatch(r), u, Ended(r)>>
    <3>1. CASE r = "drift"
      <4>1. QueuePlan(r) = <<u>> \o <<Failure("unknown"), F("submission_unknown")>>
        BY <3>1 DEF QueuePlan
      <4> QED BY <3>1, <4>1, Joins
    <3>2. CASE r \in Reviewed \ {"drift"}
      <4>1. QueuePlan(r) = ReviewPlan(r, <<u>>)
        BY <3>2 DEF QueuePlan, Reviewed
      <4> QED BY <3>2, <4>1
    <3>3. CASE r = "already"
      <4>1. QueuePlan(r) = <<u>> \o <<Settled(r)>>
        BY <3>3 DEF QueuePlan, Reviewed
      <4> QED BY <3>3, <4>1, Joins
    <3>4. CASE r = "ok"
      <4>1. QueuePlan(r) = <<Do("applied")>> \o <<u>> \o <<Settled(r)>>
        BY <3>4 DEF QueuePlan, Reviewed
      <4> QED BY <4>1, Joins
    <3>5. CASE r \notin Reviewed \cup {"already", "ok"}
      <4>1. \/ QueuePlan(r) = <<Skip("retryable")>> \o <<u>> \o <<Ended(r)>>
            \/ QueuePlan(r) = <<SkipOrMatch(r)>> \o <<u>> \o <<Ended(r)>>
        BY <3>5 DEF QueuePlan, Reviewed
      <4> QED BY <4>1, Joins
    <3> QED BY <3>1, <3>2, <3>3, <3>4, <3>5
  <2>2. r \in {"drift", "already"} => FromQueue(site, pg, m)
    BY <1>9 DEF Admits
  <2>3. B(<<SkipOrMatch(r), u, Ended(r)>>)
    BY <1>4, <1>5, <1>9, Zenon
  <2>4. B(<<Do("applied"), u, Settled(r)>>) /\ B(<<Skip("retryable"), u, Ended(r)>>)
    BY <1>4, <1>5, <1>9
  <2>5. r \in {"drift", "already"} => B(<<u, Failure("unknown"), F("submission_unknown")>>) /\ B(<<u, Settled(r)>>)
    BY <1>4, <1>5, <2>2
  <2> HIDE DEF u
  <2>6. r \in Reviewed => B(ReviewPlan(r, <<u>>))
    BY <1>6, <1>9 DEF u
  <2> QED BY <2>1, <2>3, <2>4, <2>5, <2>6, Zenon
<1>10. ASSUME m = "approve"  PROVE B(ApprovePlan(r))
  <2>1. \/ r \in Reviewed /\ ApprovePlan(r) = ReviewPlan(r, <<Do("unqueue")>>)
        \/ ApprovePlan(r) = <<Do("applied"), Do("unpendLink"), Do("unqueue"), Settled(r), Do("unpend")>>
        \/ ApprovePlan(r) = <<F("other")>>
        \/ ApprovePlan(r) = <<S("keep", TRUE), Do("count"), F("other")>>
        \/ ApprovePlan(r) = <<Skip("retryable"), Do("count"), Ended(r)>>
    <3>1. CASE r \in Reviewed
      <4>1. ApprovePlan(r) = ReviewPlan(r, <<Do("unqueue")>>)
        BY <3>1 DEF ApprovePlan, Reviewed, TopMatchTexts
      <4> QED BY <3>1, <4>1
    <3>2. CASE r \in {"ok", "already"}
      BY <3>2 DEF ApprovePlan, Reviewed, TopMatchTexts
    <3>3. CASE r = "quota"
      BY <3>3 DEF ApprovePlan, Reviewed, TopMatchTexts
    <3>4. CASE r \in TopMatchTexts
      BY <3>4 DEF ApprovePlan, Reviewed, TopMatchTexts
    <3>5. CASE r \notin Reviewed \cup {"ok", "already", "quota"} \cup TopMatchTexts
      BY <3>5 DEF ApprovePlan
    <3> QED BY <3>1, <3>2, <3>3, <3>4, <3>5
  <2>2. r \in Reviewed => B(ReviewPlan(r, <<Do("unqueue")>>))
    BY <1>6, <1>10 DEF Admits
  <2>3. B(<<S("keep", TRUE), Do("count"), F("other")>>)
    BY <1>4, <1>5, Zenon
  <2>4. /\ B(<<Do("applied"), Do("unpendLink"), Do("unqueue"), Settled(r), Do("unpend")>>)
        /\ B(<<F("other")>>) /\ B(<<Skip("retryable"), Do("count"), Ended(r)>>)
    BY <1>4, <1>5, Zenon
  <2> QED BY <2>1, <2>2, <2>3, <2>4, Zenon
<1>11. B(UrlPlan(r))
  <2>1. \/ r \in Reviewed /\ UrlPlan(r) = ReviewPlan(r, <<>>)
        \/ UrlPlan(r) = <<Do("applied"), Do("unpendLink"), Settled(r)>>
        \/ UrlPlan(r) = <<F("other")>>
        \/ UrlPlan(r) = <<F("submission_unknown")>>
        \/ UrlPlan(r) = <<>> \o <<F("other")>>
        \/ UrlPlan(r) = <<S("keep", FALSE)>> \o <<F("other")>>
        \/ UrlPlan(r) = <<>> \o <<Ended(r)>>
        \/ UrlPlan(r) = <<Skip("retryable")>> \o <<Ended(r)>>
    <3>1. CASE r \in Reviewed
      <4>1. UrlPlan(r) = ReviewPlan(r, <<>>)
        BY <3>1 DEF UrlPlan, Reviewed, TopMatchTexts
      <4> QED BY <3>1, <4>1
    <3>2. CASE r \in {"ok", "already"}
      BY <3>2 DEF UrlPlan, Reviewed, TopMatchTexts
    <3>5. CASE r \in {"quota", "notShown"}
      BY <3>5 DEF UrlPlan, Reviewed, TopMatchTexts
    <3>3. CASE r \in TopMatchTexts
      BY <3>3 DEF UrlPlan, Reviewed, TopMatchTexts
    <3>4. CASE r \notin Reviewed \cup {"ok", "already", "quota", "notShown"} \cup TopMatchTexts
      BY <3>4 DEF UrlPlan
    <3> QED BY <3>1, <3>2, <3>3, <3>4, <3>5
  <2>2. B(<<S("keep", FALSE)>> \o <<F("other")>>)
    <3>1. B(<<S("keep", FALSE), F("other")>>)
      BY <1>4, <1>5, Zenon
    <3> QED BY <3>1, Joins, Zenon
  <2>3. B(<<>> \o <<F("other")>>) /\ B(<<>> \o <<Ended(r)>>) /\ B(<<Skip("retryable")>> \o <<Ended(r)>>)
    <3>1. B(<<F("other")>>) /\ B(<<Ended(r)>>) /\ B(<<Skip("retryable"), Ended(r)>>)
      BY <1>4, <1>5, Zenon
    <3>2. /\ <<>> \o <<F("other")>> = <<F("other")>> /\ <<>> \o <<Ended(r)>> = <<Ended(r)>>
          /\ <<Skip("retryable")>> \o <<Ended(r)>> = <<Skip("retryable"), Ended(r)>>
      BY Joins, Zenon
    <3> QED BY <3>1, <3>2, Zenon
  <2>4. /\ B(<<Do("applied"), Do("unpendLink"), Settled(r)>>)
        /\ B(<<F("other")>>) /\ B(<<F("submission_unknown")>>)
    BY <1>4, <1>5, Zenon
  <2> QED BY <1>6, <2>1, <2>2, <2>3, <2>4, Zenon
<1>12. Plan(p, r) = CASE m \in {"search", "retry"} -> IF LinkedIn THEN EasyApplyPlan(r) ELSE SeekPlan(r)
                      [] m = "top"                 -> TopMatchPlan(r)
                      [] m = "queue"               -> QueuePlan(r)
                      [] m = "approve"             -> ApprovePlan(r)
                      [] m = "url"                 -> UrlPlan(r)
  BY DEF Plan
<1>13. B(Plan(p, r))
  BY <1>7, <1>8, <1>9, <1>10, <1>11, <1>12 DEF ApplyModes
<1> QED BY <1>3, <1>13 DEF B

-----------------------------------------------------------------------------
(* What p is at after a step. *)

\* The same work.
Same(r, r2) == r2.mode = r.mode /\ r2.id = r.id /\ r2.att = r.att

\* Going on with the same work.
LEMMA GotoIs ==
    \A p \in Procs : \A pc2 :
        SettleInv /\ Goto(p, pc2) => Others(p) /\ proc'[p].pc = pc2 /\ Same(proc[p], proc'[p])
<1> SUFFICES ASSUME NEW p \in Procs, NEW pc2, SettleInv, Goto(p, pc2)
             PROVE  Others(p) /\ proc'[p].pc = pc2 /\ Same(proc[p], proc'[p])
  OBVIOUS
<1>1. proc \in [Procs -> Processes] /\ proc[p] \in Processes
  BY DEF SettleInv
<1> DEFINE r2 == [proc[p] EXCEPT !.pc = pc2]
<1>2. proc' = [proc EXCEPT ![p] = r2]
  BY DEF Goto
<1>3. r2.pc = pc2 /\ Same(proc[p], r2)
  BY <1>1 DEF Processes, Same
<1> HIDE DEF r2
<1> QED BY <1>1, <1>2, <1>3 DEF Others

\* Recording a result, or having none to record.
LEMMA ResultIs ==
    \A p \in Procs, plan \in Seq(Final) :
        SettleInv /\ Result(p, plan) =>
            /\ Others(p)
            /\ plan = <<>> => proc'[p] = Returned(p)
            /\ plan # <<>> => proc'[p].pc = "write" /\ proc'[p].plan = plan /\ Same(proc[p], proc'[p])
<1> SUFFICES ASSUME NEW p \in Procs, NEW plan \in Seq(Final), SettleInv, Result(p, plan)
             PROVE  /\ Others(p)
                    /\ plan = <<>> => proc'[p] = Returned(p)
                    /\ plan # <<>> => proc'[p].pc = "write" /\ proc'[p].plan = plan /\ Same(proc[p], proc'[p])
  OBVIOUS
<1>1. proc \in [Procs -> Processes] /\ proc[p] \in Processes
  BY DEF SettleInv
<1>2. CASE plan = <<>>
  <2> DEFINE r2 == Returned(p)
  <2>1. proc' = [proc EXCEPT ![p] = r2]
    BY <1>2 DEF Result
  <2> HIDE DEF r2
  <2> QED BY <1>1, <1>2, <2>1 DEF Others, r2
<1>3. CASE plan # <<>>
  <2> DEFINE r2 == [proc[p] EXCEPT !.pc = "write", !.plan = plan]
  <2>1. proc' = [proc EXCEPT ![p] = r2]
    BY <1>1, <1>3 DEF Result, Processes
  <2>2. r2.pc = "write" /\ r2.plan = plan /\ Same(proc[p], r2)
    BY <1>1 DEF Processes, Same
  <2> HIDE DEF r2
  <2> QED BY <1>1, <1>3, <2>1, <2>2 DEF Others
<1> QED BY <1>2, <1>3

\* Where a goroutine returns to.
LEMMA ReturnedIs ==
    \A p \in Procs : proc[p] \in Processes =>
        /\ Returned(p).att = 0 /\ Returned(p).pc \in {"idle", "done", "next"}
        /\ p # "bot" => Returned(p) = Idle
        /\ p = "bot" => /\ Returned(p).mode = proc[p].mode
                        /\ Returned(p).pc = IF proc[p].mode = "retry" THEN "done" ELSE "next"
<1> SUFFICES ASSUME NEW p \in Procs, proc[p] \in Processes
             PROVE  /\ Returned(p).att = 0 /\ Returned(p).pc \in {"idle", "done", "next"}
                    /\ p # "bot" => Returned(p) = Idle
                    /\ p = "bot" => /\ Returned(p).mode = proc[p].mode
                                    /\ Returned(p).pc = IF proc[p].mode = "retry" THEN "done" ELSE "next"
  OBVIOUS
<1>1. CASE p # "bot"
  <2>1. Returned(p) = Idle
    BY <1>1 DEF Returned
  <2> QED BY <1>1, <2>1, IdleIsIdle
<1>2. CASE p = "bot" /\ proc[p].mode = "retry"
  <2>1. Returned(p) = [proc[p] EXCEPT !.pc = "done", !.att = 0, !.plan = <<>>]
    BY <1>2 DEF Returned
  <2> QED BY <1>2, <2>1 DEF Processes
<1>3. CASE p = "bot" /\ proc[p].mode # "retry"
  <2>1. Returned(p) = [proc[p] EXCEPT !.pc = "next", !.id = Site, !.att = 0, !.plan = <<>>]
    BY <1>3 DEF Returned
  <2> QED BY <1>3, <2>1 DEF Processes
<1> QED BY <1>1, <1>2, <1>3

\* A goroutine that works on nothing needs and owes nothing.
LEMMA AtEase ==
    \A r : r.pc \notin Begun \cup Clicked \cup {"write", "looked"} =>
        ~Open(r) /\ \A site, pg, d : Supported(site, pg, r, d)
BY DEF Open, Supported

\* No change is firm.
LEMMA FirmItself == \A site, d : Firm(site, d, d)
BY DEF Firm

\* The attempt goes on with its work.
Inherits(r, r2) == Open(r) /\ r2.att = r.att /\ r2.mode = r.mode /\ (r2.id = r.id \/ r.mode = "url")

\* A step that leaves the tables and the log alone.
LEMMA TablesStay ==
    ASSUME NoteInv, SettleInv, SettleInv', NEW p \in Procs, Others(p),
           scenario' = scenario, page = "applied" => page' = "applied", db' = db, todo' = todo, started' = started,
           faults' \in {faults, faults + 1}, cleared' = cleared, overtaken' = overtaken,
           Cast(scenario.site, p, proc'[p], started), proc'[p].att \in {0, proc[p].att},
           Open(proc'[p]) => Inherits(proc[p], proc'[p]),
           Orderly' => Supported(scenario.site, page', proc'[p], db),
           p = "bot" /\ proc'[p].pc = "consume" => InTables(db, proc'[p].id)
    PROVE  NoteInv'
<1>1. Orderly' => Orderly
  BY DEF Orderly, SettleInv
<1>2. \A a \in Attempts : a > started' => ~db'.attempts[a].row
  BY DEF NoteInv
<1>3. Listable(db')
  BY DEF NoteInv
<1>4. Snapshot(scenario.site, todo', proc'["bot"])
  <2>1. CASE p # "bot"
    <3>1. proc'["bot"] = proc["bot"]
      BY <2>1, BotIsAProcess DEF Others
    <3> QED BY <3>1 DEF NoteInv, Bot
  <2>2. CASE p = "bot"
    <3>1. Snapshot(scenario.site, todo, proc["bot"])
      BY DEF NoteInv, Bot
    <3>2. proc'["bot"].mode = "queue" /\ Open(proc'["bot"]) =>
              proc["bot"].mode = "queue" /\ Open(proc["bot"]) /\ proc'["bot"].id = proc["bot"].id
      BY <2>2 DEF Inherits
    <3> QED BY <3>1, <3>2 DEF Snapshot
  <2> QED BY <2>1, <2>2
<1>5. ASSUME Orderly'
      PROVE  /\ Promised(scenario.site, page', proc'[p], db') /\ Untouched(p, db')
             /\ Leaves(p, scenario.site, db, db', todo, todo')
             /\ p = "bot" /\ proc'[p].pc = "consume" => InTables(db', proc'[p].id)
  <2>1. Promises
    BY <1>1, <1>5 DEF NoteInv
  <2>2. Open(proc'[p]) => Owns(proc'[p], db)
    <3>1. Open(proc[p]) => Owns(proc[p], db)
      BY <2>1 DEF Promises
    <3> QED BY <3>1 DEF Inherits, Owns
  <2>3. Untouched(p, db')
    BY DEF Untouched
  <2>4. Leaves(p, scenario.site, db, db', todo, todo')
    BY <2>1, FirmItself, FirmIsLoose DEF Leaves, Promises
  <2> QED BY <1>5, <2>2, <2>3, <2>4 DEF Promised
<1> QED BY <1>1, <1>2, <1>3, <1>4, <1>5, StepKeeps

-----------------------------------------------------------------------------
(* An application on its way. *)

\* Who applies, and what it stands on.
LEMMA ModesOfWork ==
    ASSUME NoteInv, SettleInv, NEW p \in Procs, proc[p].pc \in Begun \cup Clicked
    PROVE  /\ proc[p].mode \in ApplyModes \cup {"top"} /\ proc[p].pc # "idle" /\ Open(proc[p])
           /\ Cast(scenario.site, p, proc[p], started)
           /\ Orderly => Holds(Stands(scenario.site, proc[p].mode), db, proc[p].id)
BY DEF NoteInv, SettleInv, Planned, Begun, Clicked, Open, Promises, Supported

\* The part of the user: whoever else goes on does so in its own role.
LEMMA CastGoesOn ==
    \A site, p, r, r2, n :
        /\ Cast(site, p, r, n) /\ r.pc # "idle" /\ r2.mode = r.mode /\ r2.att = r.att
        /\ r2.pc = "check" => site = "linkedin"
        /\ r2.pc = "reconfirm" => r.mode = "url"
        /\ p # "user"
        => Cast(site, p, r2, n)
BY DEF Cast

\* p passes on to pc2 with its attempt.
LEMMA GoesOnKeeps ==
    \A p \in Procs, pc2 \in Begun \cup Clicked :
        /\ NoteInv /\ SettleInv /\ SettleInv' /\ proc[p].pc \in Begun \cup Clicked /\ Goto(p, pc2)
        /\ scenario' = scenario /\ (page = "applied" => page' = "applied") /\ db' = db /\ todo' = todo
        /\ started' = started /\ faults' \in {faults, faults + 1} /\ cleared' = cleared /\ overtaken' = overtaken
        /\ pc2 = "check" => scenario.site = "linkedin"
        /\ pc2 = "reconfirm" => proc[p].mode = "url"
        => NoteInv'
<1> SUFFICES ASSUME NEW p \in Procs, NEW pc2 \in Begun \cup Clicked,
                    NoteInv, SettleInv, SettleInv', proc[p].pc \in Begun \cup Clicked, Goto(p, pc2),
                    scenario' = scenario, page = "applied" => page' = "applied", db' = db, todo' = todo,
                    started' = started, faults' \in {faults, faults + 1}, cleared' = cleared, overtaken' = overtaken,
                    pc2 = "check" => scenario.site = "linkedin", pc2 = "reconfirm" => proc[p].mode = "url"
             PROVE  NoteInv'
  OBVIOUS
<1>1. Others(p) /\ proc'[p].pc = pc2 /\ Same(proc[p], proc'[p])
  BY GotoIs
<1>2. /\ proc[p].mode \in ApplyModes \cup {"top"} /\ Open(proc[p]) /\ Cast(scenario.site, p, proc[p], started)
      /\ Orderly => Holds(Stands(scenario.site, proc[p].mode), db, proc[p].id)
      /\ proc[p].pc # "idle"
  BY ModesOfWork
<1>3. p # "user"
  BY <1>2 DEF Cast, RoleOf, ApplyModes
<1>4. Cast(scenario.site, p, proc'[p], started)
  BY <1>1, <1>2, <1>3, CastGoesOn DEF Same
<1>5. Open(proc'[p]) => Inherits(proc[p], proc'[p])
  BY <1>1, <1>2 DEF Inherits, Same
<1>6. Orderly' => Supported(scenario.site, page', proc'[p], db)
  <2>1. Orderly' => Orderly
    BY DEF Orderly, SettleInv
  <2>2. pc2 # "write"
    BY DEF Begun, Clicked
  <2> QED BY <1>1, <1>2, <2>1, <2>2 DEF Supported, Same
<1>7. proc'[p].att \in {0, proc[p].att} /\ proc'[p].pc # "consume"
  BY <1>1 DEF Same, Begun, Clicked
<1> QED BY <1>1, <1>4, <1>5, <1>6, <1>7, TablesStay

\* p records a result, which needs nothing that is not there.
LEMMA RecordsKeep ==
    \A p \in Procs, plan \in Seq(Final) :
        /\ NoteInv /\ SettleInv /\ SettleInv' /\ proc[p].pc \in Begun \cup Clicked /\ Result(p, plan) /\ plan # <<>>
        /\ scenario' = scenario /\ (page = "applied" => page' = "applied") /\ db' = db /\ todo' = todo
        /\ started' = started /\ faults' \in {faults, faults + 1} /\ cleared' = cleared /\ overtaken' = overtaken
        /\ Orderly => Backed(scenario.site, page', proc[p].mode, proc[p].id, plan, db)
        => NoteInv'
<1> SUFFICES ASSUME NEW p \in Procs, NEW plan \in Seq(Final),
                    NoteInv, SettleInv, SettleInv', proc[p].pc \in Begun \cup Clicked, Result(p, plan), plan # <<>>,
                    scenario' = scenario, page = "applied" => page' = "applied", db' = db, todo' = todo,
                    started' = started, faults' \in {faults, faults + 1}, cleared' = cleared, overtaken' = overtaken,
                    Orderly => Backed(scenario.site, page', proc[p].mode, proc[p].id, plan, db)
             PROVE  NoteInv'
  OBVIOUS
<1>1. Others(p) /\ proc'[p].pc = "write" /\ proc'[p].plan = plan /\ Same(proc[p], proc'[p])
  BY ResultIs
<1>2. /\ proc[p].mode \in ApplyModes \cup {"top"} /\ Open(proc[p]) /\ Cast(scenario.site, p, proc[p], started)
      /\ proc[p].pc # "idle"
  BY ModesOfWork
<1>3. p # "user"
  BY <1>2 DEF Cast, RoleOf, ApplyModes
<1>4. Cast(scenario.site, p, proc'[p], started)
  BY <1>1, <1>2, <1>3, CastGoesOn DEF Same
<1>5. Open(proc'[p]) => Inherits(proc[p], proc'[p])
  BY <1>1, <1>2 DEF Inherits, Same
<1>6. Orderly' => Supported(scenario.site, page', proc'[p], db)
  <2>1. Orderly' => Orderly
    BY DEF Orderly, SettleInv
  <2>2. "write" \notin Begun \cup Clicked \cup {"looked"}
    BY DEF Begun, Clicked
  <2> QED BY <1>1, <2>1, <2>2 DEF Supported, Same
<1>7. proc'[p].att \in {0, proc[p].att} /\ proc'[p].pc # "consume"
  BY <1>1 DEF Same
<1> QED BY <1>1, <1>4, <1>5, <1>6, <1>7, TablesStay

\* p is through, and goes on to record how.
LEMMA OutcomeKeeps ==
    \A p \in Procs : \A r :
        /\ NoteInv /\ SettleInv /\ SettleInv' /\ proc[p].pc \in Begun \cup Clicked /\ Outcome(p, r)
        /\ scenario' = scenario /\ (page = "applied" => page' = "applied") /\ db' = db /\ todo' = todo
        /\ started' = started /\ faults' \in {faults, faults + 1} /\ cleared' = cleared /\ overtaken' = overtaken
        /\ Admits(scenario.site, page', proc[p].mode, r)
        => NoteInv'
<1> SUFFICES ASSUME NEW p \in Procs, NEW r,
                    NoteInv, SettleInv, SettleInv', proc[p].pc \in Begun \cup Clicked, Outcome(p, r),
                    scenario' = scenario, page = "applied" => page' = "applied", db' = db, todo' = todo,
                    started' = started, faults' \in {faults, faults + 1}, cleared' = cleared, overtaken' = overtaken,
                    Admits(scenario.site, page', proc[p].mode, r)
             PROVE  NoteInv'
  OBVIOUS
<1> DEFINE plan == Plan(p, r)
<1>1. /\ proc[p].mode \in ApplyModes \cup {"top"} /\ Result(p, plan)
      /\ Orderly => Holds(Stands(scenario.site, proc[p].mode), db, proc[p].id)
  BY ModesOfWork DEF Outcome
<1>2. plan \in Seq(Final) /\ plan # <<>>
  <2>1. r \in Errors \cup Unsure
    BY DEF Admits
  <2>2. plan \in FinalPlans
    BY <1>1, <2>1, EveryPlanEnds
  <2> QED BY <2>2, FinalTail DEF FinalPlans
<1>3. Orderly => Backed(scenario.site, page', proc[p].mode, proc[p].id, plan, db)
  BY <1>1, OutcomeBacked
<1> HIDE DEF plan
<1> QED BY <1>1, <1>2, <1>3, RecordsKeep

\* Every step of easyApply and seekApply.
LEMMA ApplyingKeeps ==
    ASSUME NoteInv, SettleInv, SettleInv', NEW p \in Procs,
           \/ Check(p) \/ Entry(p) \/ SilentSubmit(p) \/ MarkDispatch(p)
           \/ Click(p) \/ Confirm(p) \/ Reconfirm(p)
    PROVE  NoteInv'
<1>1. proc[p].pc \in Begun \cup Clicked
  BY DEF Check, Entry, SilentSubmit, MarkDispatch, Click, Confirm, Reconfirm, Begun, Clicked
<1>2. /\ scenario' = scenario /\ db' = db /\ todo' = todo /\ started' = started /\ faults' \in {faults, faults + 1}
      /\ cleared' = cleared /\ overtaken' = overtaken
  <2>1. CASE MarkDispatch(p)
    BY <2>1 DEF MarkDispatch, Fault, env
  <2>2. CASE ~MarkDispatch(p)
    <3>1. UNCHANGED Still
      BY <2>2 DEF Check, Entry, SilentSubmit, Click, Confirm, Reconfirm
    <3> QED BY <3>1 DEF Still, env
  <2> QED BY <2>1, <2>2
<1>3. page = "applied" => page' = "applied"
  BY DEF Check, Entry, SilentSubmit, MarkDispatch, Click, Confirm, Reconfirm
<1>4. /\ Cast(scenario.site, p, proc[p], started) /\ (LinkedIn <=> scenario.site = "linkedin")
      /\ scenario.site \in {"linkedin", "seek"}
  BY <1>1, ModesOfWork, SiteIsOne DEF LinkedIn
<1> DEFINE site == scenario.site
<1> DEFINE m == proc[p].mode
<1>5. \/ \E r : Admits(site, page', m, r) /\ Outcome(p, r)
      \/ \E pc2 \in (Begun \cup Clicked) \ {"check"} : Goto(p, pc2) /\ (pc2 = "reconfirm" => m = "url")
  <2>0. /\ \A r \in Errors \cup Unsure : \A pg : r \notin Reviewed \cup {"already"} => Admits(site, pg, m, r)
        /\ \A r \in Reviewed \ {"drift"} : \A pg : site = "linkedin" => Admits(site, pg, m, r)
        /\ \A pg : site = "linkedin" /\ (m = "queue" => pg = "applied") =>
              Admits(site, pg, m, "already") /\ Admits(site, pg, m, "drift")
    BY DEF Admits, Reviewed, FromQueue, Errors, Unsure
  <2>1. CASE Check(p)
    <3>1. site = "linkedin"
      BY <1>4, <2>1 DEF Check, Cast
    <3>2. Admits(site, page', m, "unknown")
      BY <2>0, <3>1 DEF Reviewed
    <3> QED BY <2>1, <3>2 DEF Check, Begun
  <2>2. CASE Entry(p)
    <3>1. CASE LinkedIn /\ page = "applied" /\ Outcome(p, "already")
      <4>1. Admits(site, page', m, "already")
        BY <1>3, <1>4, <2>0, <3>1
      <4> QED BY <3>1, <4>1
    <3>2. CASE \E r \in {"error", "quota", "blocked"} : Outcome(p, r)
      <4>1. \A r \in {"error", "quota", "blocked"} : Admits(site, page', m, r)
        BY <2>0 DEF Errors, Reviewed
      <4> QED BY <3>2, <4>1
    <3>3. CASE LinkedIn /\ \E r \in {"review", "external"} : Outcome(p, r)
      <4>1. \A r \in {"review", "external"} : Admits(site, page', m, r)
        BY <1>4, <2>0, <3>3 DEF Reviewed
      <4> QED BY <3>3, <4>1
    <3>4. CASE Goto(p, IF LinkedIn THEN "mark" ELSE "click")
      BY <3>4 DEF Begun
    <3> QED BY <2>2, <3>1, <3>2, <3>3, <3>4 DEF Entry
  <2>3. CASE SilentSubmit(p)
    <3>1. Admits(site, page', m, "ok") /\ Admits(site, page', m, "error")
      BY <2>0 DEF Errors, Reviewed
    <3> QED BY <2>3, <3>1 DEF SilentSubmit
  <2>4. CASE MarkDispatch(p)
    <3>1. Admits(site, page', m, "error")
      BY <2>0 DEF Errors, Reviewed
    <3> QED BY <2>4, <3>1 DEF MarkDispatch, Begun
  <2>5. CASE Click(p)
    <3>1. Admits(site, page', m, ClickFailure)
      BY <1>4, <2>0 DEF Errors, Reviewed, ClickFailure
    <3> QED BY <2>5, <3>1 DEF Click, Clicked
  <2>6. CASE Confirm(p)
    <3>1. /\ Admits(site, page', m, "ok") /\ Admits(site, page', m, "unconfirmed")
          /\ Admits(site, page', m, "unconfirmedBlocked")
      BY <2>0 DEF Errors, Unsure, Reviewed
    <3>2. LinkedIn => Admits(site, page', m, "unknown")
      BY <1>4, <2>0 DEF Reviewed
    <3>3. LinkedIn /\ page' = "applied" => Admits(site, page', m, "drift")
      BY <1>4, <2>0
    <3> QED BY <2>6, <3>1, <3>2, <3>3 DEF Confirm, Clicked
  <2>7. CASE Reconfirm(p)
    <3>1. Admits(site, page', m, "ok") /\ Admits(site, page', m, "notShown")
      BY <2>0 DEF Errors, Reviewed
    <3>2. m = "url"
      BY <1>4, <2>7 DEF Reconfirm, Cast
    <3>3. LinkedIn => Admits(site, page', m, "drift")
      BY <1>4, <2>0, <3>2
    <3> QED BY <2>7, <3>1, <3>3 DEF Reconfirm
  <2> QED BY <2>1, <2>2, <2>3, <2>4, <2>5, <2>6, <2>7
<1>6. CASE \E r : Admits(site, page', m, r) /\ Outcome(p, r)
  BY <1>1, <1>2, <1>3, <1>6, OutcomeKeeps
<1>7. CASE \E pc2 \in (Begun \cup Clicked) \ {"check"} : Goto(p, pc2) /\ (pc2 = "reconfirm" => m = "url")
  BY <1>1, <1>2, <1>3, <1>7, GoesOnKeeps
<1> QED BY <1>5, <1>6, <1>7

-----------------------------------------------------------------------------
(* The beginning of an attempt, and the statements of its result. *)

\* A beginning takes nothing away, and its attempt's row is its own.
LEMMA BeginningKeeps ==
    ASSUME SettleInv, NoteInv, NEW a, a = started + 1, a \in Attempts, NEW job, NEW link
    PROVE  LET d2 == BeginAttempt(db, a, job, link) IN
           /\ Listable(d2) /\ \A site : Firm(site, db, d2)
           /\ \A b \in Attempts : b # a => d2.attempts[b] = db.attempts[b]
           /\ d2.attempts[a].row /\ d2.attempts[a].outcome = "in_progress" /\ d2.attempts[a].job = job
<1> DEFINE d2 == BeginAttempt(db, a, job, link)
<1>1. SoundDB(db) /\ Listable(db) /\ ~db.attempts[a].row
  BY DEF SettleInv, NoteInv
<1>2. d2.attempts = [db.attempts EXCEPT ![a] = [row |-> TRUE, job |-> job, link |-> link, outcome |-> "in_progress"]]
  BY <1>1 DEF BeginAttempt, SoundDB
<1>3. d2.applied = db.applied /\ d2.skipped = db.skipped /\ d2.pending = db.pending /\ d2.queue = db.queue
  BY <1>1 DEF BeginAttempt, SoundDB, Listable
<1>4. Listable(d2)
  BY <1>1 DEF BeginAttempt, Listable
<1>5. /\ \A b \in Attempts : b # a => d2.attempts[b] = db.attempts[b]
      /\ d2.attempts[a].row /\ d2.attempts[a].outcome = "in_progress" /\ d2.attempts[a].job = job
  BY <1>1, <1>2 DEF SoundDB
<1> HIDE DEF d2
<1>6. Unknown(db) => Unknown(d2)
  BY <1>1, <1>5 DEF Unknown
<1>7. \A site : Firm(site, db, d2)
  BY <1>3, <1>6 DEF Firm, Recorded, InTables, InReview, Filed, Kept
<1> QED BY <1>4, <1>5, <1>7 DEF d2

\* What p is about to begin.
Starts(p, mode, id, job) ==
    /\ p # "user" /\ mode \in RoleOf(p) /\ (mode = "top" => scenario.site # "linkedin")
    /\ mode # "url" => job = {id}
    /\ todo' \subseteq todo /\ (p # "bot" => todo' = todo)
    /\ mode = "queue" => \A k \in Kinds : <<id, k>> \notin todo'
    /\ Orderly => Holds(Stands(scenario.site, mode), db, id)

\* The beginning of an attempt by anyone who stands on what it needs.
LEMMA BeginsKeep ==
    \A p \in Procs, mode \in ApplyModes \cup {"top"}, id \in Ids, pc \in {"open", "guard"} : \A job :
        /\ NoteInv /\ SettleInv /\ SettleInv' /\ Begin(p, mode, id, job, pc) /\ Starts(p, mode, id, job)
        /\ scenario' = scenario /\ page' = page /\ cleared' = cleared /\ overtaken' = overtaken
        => NoteInv'
<1> SUFFICES ASSUME NEW p \in Procs, NEW mode \in ApplyModes \cup {"top"}, NEW id \in Ids,
                    NEW pc \in {"open", "guard"}, NEW job, NoteInv, SettleInv, SettleInv',
                    Begin(p, mode, id, job, pc), Starts(p, mode, id, job),
                    scenario' = scenario, page' = page, cleared' = cleared, overtaken' = overtaken
             PROVE  NoteInv'
  OBVIOUS
<1> DEFINE a == started + 1
<1> DEFINE r2 == [pc |-> pc, mode |-> mode, id |-> id, att |-> a, plan |-> <<>>]
<1> DEFINE site == scenario.site
<1>1. /\ started \in Nat /\ started' = a /\ a \in Attempts /\ faults \in Nat
      /\ proc \in [Procs -> Processes] /\ proc' = [proc EXCEPT ![p] = r2]
  <2>1. scenario.attempts \in 1..MaxAttempts
    BY ScenariosAssumption DEF SettleInv
  <2> QED BY <2>1, MaxAttemptsAssumption DEF SettleInv, Begin, Attempts
<1>2. Others(p) /\ proc'[p] = r2
  BY <1>1 DEF Others
<1>3. r2.pc = pc /\ r2.mode = mode /\ r2.id = id /\ r2.att = a
  OBVIOUS
<1> HIDE DEF r2
<1>4. Cast(site, p, r2, started')
  BY <1>1, <1>3 DEF Cast, Starts
<1>5. Listable(db') /\ \A b \in Attempts : b > started' => ~db'.attempts[b].row
  <2>0. Listable(db) /\ \A b \in Attempts : b > started' => ~db.attempts[b].row /\ b # a
    BY <1>1 DEF NoteInv, Attempts
  <2>1. CASE db' = db
    BY <2>0, <2>1
  <2>2. ASSUME NEW link, db' = BeginAttempt(db, a, job, link)
        PROVE  Listable(db') /\ \A b \in Attempts : b > started' => ~db'.attempts[b].row
    BY <1>1, <2>0, <2>2, BeginningKeeps
  <2>3. db' = db \/ \E link : db' = BeginAttempt(db, a, job, link)
    BY DEF Begin
  <2> QED BY <2>1, <2>2, <2>3
<1>6. Snapshot(scenario.site, todo', proc'["bot"])
  <2>1. Snapshot(scenario.site, todo, proc["bot"])
    BY DEF NoteInv, Bot
  <2>2. CASE p # "bot"
    <3>1. proc'["bot"] = proc["bot"] /\ todo' = todo
      BY <1>2, <2>2, BotIsAProcess DEF Others, Starts
    <3> QED BY <2>1, <3>1
  <2>3. CASE p = "bot"
    <3>1. proc'["bot"] = r2 /\ todo' \subseteq todo
      BY <1>2, <2>3 DEF Starts
    <3>2. r2.mode = "queue" => \A k \in Kinds : <<r2.id, k>> \notin todo'
      BY <1>3 DEF Starts
    <3>3. /\ todo' \subseteq Ids \X Kinds
          /\ \A i \in Ids, k, l \in Kinds : <<i, k>> \in todo' /\ <<i, l>> \in todo' => k = l
          /\ scenario.site = "linkedin" => \A i \in Ids : <<i, "top">> \notin todo'
      BY <2>1, <3>1 DEF Snapshot
    <3> QED BY <3>1, <3>2, <3>3 DEF Snapshot
  <2> QED BY <2>2, <2>3
<1>7. Orderly' => Orderly
  BY DEF Begin, Fault, Orderly, SettleInv
<1>8. ASSUME Orderly'
      PROVE  /\ Promised(site, page', proc'[p], db') /\ Untouched(p, db')
             /\ Leaves(p, site, db, db', todo, todo')
             /\ p = "bot" /\ proc'[p].pc = "consume" => InTables(db', proc'[p].id)
  <2>1. PICK link : db' = BeginAttempt(db, a, job, link)
    BY <1>1, <1>8 DEF Begin, Fault, Orderly
  <2>2. /\ \A x : Firm(x, db, db')
        /\ \A b \in Attempts : b # a => db'.attempts[b] = db.attempts[b]
        /\ db'.attempts[a].row /\ db'.attempts[a].outcome = "in_progress" /\ db'.attempts[a].job = job
    BY <1>1, <2>1, BeginningKeeps
  <2>3. Promises /\ Holds(Stands(site, mode), db, id)
    BY <1>7, <1>8 DEF NoteInv, Starts
  <2>4. Holds(Stands(site, mode), db', id)
    <3>1. Stands(site, mode) # "filed"
      BY DEF Stands
    <3> QED BY <2>2, <2>3, <3>1, FirmHolds
  <2>5. Promised(site, page', r2, db')
    <3>1. Supported(site, page', r2, db')
      BY <1>3, <2>4 DEF Supported
    <3>2. Owns(r2, db')
      BY <1>1, <1>3, <2>2 DEF Owns, Starts, Attempts
    <3> QED BY <3>1, <3>2 DEF Promised
  <2>6. Untouched(p, db')
    BY <1>1, <2>2 DEF Untouched
  <2>7. Leaves(p, site, db, db', todo, todo')
    <3>1. \A x \in todo : Kept(db', x[1])
      BY <2>2, <2>3 DEF Promises, Firm, NoteInv, Snapshot
    <3> QED BY <2>2, <3>1, FirmIsLoose DEF Leaves, Starts
  <2> QED BY <1>2, <1>3, <2>5, <2>6, <2>7
<1>9. page = "applied" => page' = "applied"
  OBVIOUS
<1> HIDE DEF a
<1> QED BY <1>1, <1>2, <1>3, <1>4, <1>5, <1>6, <1>7, <1>8, <1>9, StepKeeps DEF a

\* The rest of one statement, and of two.
LEMMA ShortTails == \A x, y : Tail(<<x>>) = <<>> /\ Tail(<<x, y>>) = <<y>>
<1> SUFFICES ASSUME NEW x, NEW y  PROVE Tail(<<x>>) = <<>> /\ Tail(<<x, y>>) = <<y>>
  BY Zenon
<1> DEFINE A == {x, y}
<1>1. x \in A /\ y \in A
  OBVIOUS
<1> HIDE DEF A
<1>2. <<x>> \in Seq(A) /\ <<x, y>> \in Seq(A) /\ <<y>> \in Seq(A)
  BY <1>1
<1>3. Tail(<<x>>) \in Seq(A) /\ Len(Tail(<<x>>)) = 0
  BY <1>2
<1>4. Tail(<<x, y>>) \in Seq(A) /\ Len(Tail(<<x, y>>)) = 1 /\ Tail(<<x, y>>)[1] = y
  BY <1>2
<1>5. Len(<<y>>) = 1 /\ <<y>>[1] = y
  OBVIOUS
<1>6. \A k \in 1..1 : Tail(<<x, y>>)[k] = <<y>>[k]
  BY <1>4, <1>5
<1>7. Tail(<<x, y>>) = <<y>>
  BY <1>2, <1>4, <1>5, <1>6, SeqEqual
<1> QED BY <1>3, <1>7

\* p has run a statement of its result: where it is then.
LEMMA WrittenIs ==
    ASSUME SettleInv, NEW p \in Procs, Write(p)
    PROVE  /\ Others(p) /\ proc[p].plan # <<>> /\ proc[p].plan \in Seq(Final)
           /\ Tail(proc[p].plan) = <<>> => proc'[p] = Returned(p)
           /\ Tail(proc[p].plan) # <<>> =>
                 /\ proc'[p].pc = "write" /\ proc'[p].plan = Tail(proc[p].plan) /\ Same(proc[p], proc'[p])
<1> DEFINE rest == Tail(proc[p].plan)
<1>1. /\ proc \in [Procs -> Processes] /\ proc[p] \in Processes /\ proc[p].pc = "write"
      /\ proc[p].plan # <<>> /\ proc[p].plan \in Seq(Final)
  BY DEF SettleInv, Planned, Write
<1>2. CASE rest = <<>>
  <2> DEFINE r2 == Returned(p)
  <2>1. proc' = [proc EXCEPT ![p] = r2]
    BY <1>2 DEF Write
  <2> HIDE DEF r2
  <2> QED BY <1>1, <1>2, <2>1 DEF Others, r2
<1>3. CASE rest # <<>>
  <2> DEFINE r2 == [proc[p] EXCEPT !.plan = rest]
  <2>1. proc' = [proc EXCEPT ![p] = r2]
    BY <1>3 DEF Write
  <2>2. r2.pc = "write" /\ r2.plan = rest /\ Same(proc[p], r2)
    BY <1>1 DEF Processes, Same
  <2> HIDE DEF r2
  <2> QED BY <1>1, <1>3, <2>1, <2>2 DEF Others
<1> QED BY <1>2, <1>3

\* Whether the attempt is still open after the statement, and what was open before.
LEMMA StillOpen ==
    \A q \in Seq(Final) : q # <<>> =>
        /\ (\E k \in 1..Len(Tail(q)) : Tail(q)[k] \in Closing) => EndsAfter(q, 1)
        /\ EndsAfter(q, 1) => \E k \in 1..Len(q) : q[k] \in Closing
        /\ Head(q) \in Closing => \E k \in 1..Len(q) : q[k] \in Closing
        /\ (\A k, l \in 1..Len(q) : q[k] \in Closing /\ q[l] \in Closing => k = l) /\ EndsAfter(q, 1)
              => Head(q) \notin Closing
<1> SUFFICES ASSUME NEW q \in Seq(Final), q # <<>>
             PROVE  /\ (\E k \in 1..Len(Tail(q)) : Tail(q)[k] \in Closing) => EndsAfter(q, 1)
                    /\ EndsAfter(q, 1) => \E k \in 1..Len(q) : q[k] \in Closing
                    /\ Head(q) \in Closing => \E k \in 1..Len(q) : q[k] \in Closing
                    /\ (\A k, l \in 1..Len(q) : q[k] \in Closing /\ q[l] \in Closing => k = l) /\ EndsAfter(q, 1)
                          => Head(q) \notin Closing
  OBVIOUS
<1> DEFINE t == Tail(q)
<1> DEFINE n == Len(q)
<1>1. n \in Nat /\ n >= 1 /\ Head(q) = q[1] /\ Len(t) = n - 1 /\ \A k \in 1..Len(t) : t[k] = q[k + 1] /\ k + 1 \in 1..n
  BY TailNeeds
<1> HIDE DEF t, n
<1>2. ASSUME NEW k \in 1..Len(t), t[k] \in Closing  PROVE EndsAfter(q, 1)
  <2>1. k + 1 \in (1 + 1)..n /\ q[k + 1] \in Closing
    BY <1>1, <1>2
  <2> QED BY <2>1 DEF EndsAfter, n
<1>3. ASSUME EndsAfter(q, 1)  PROVE \E k \in 2..n : q[k] \in Closing
  BY <1>3 DEF EndsAfter, n
<1>4. 1 \in 1..n /\ \A k \in 2..n : k \in 1..n /\ k # 1
  BY <1>1
<1> QED BY <1>1, <1>2, <1>3, <1>4 DEF t, n

\* A statement of a result, or its failure.
LEMMA StatementKeeps ==
    ASSUME NoteInv, SettleInv, SettleInv', NEW p \in Procs, Write(p)
    PROVE  NoteInv'
<1> DEFINE q == proc[p].plan
<1> DEFINE s == Head(q)
<1> DEFINE site == scenario.site
<1> DEFINE m == proc[p].mode
<1> DEFINE i == proc[p].id
<1> DEFINE a == proc[p].att
<1>1. /\ Others(p) /\ q # <<>> /\ q \in Seq(Final)
      /\ Tail(q) = <<>> => proc'[p] = Returned(p)
      /\ Tail(q) # <<>> => proc'[p].pc = "write" /\ proc'[p].plan = Tail(q) /\ Same(proc[p], proc'[p])
  BY WrittenIs
<1>2. /\ proc[p].pc = "write" /\ proc[p] \in Processes /\ m \in Modes /\ i \in Ids /\ a \in 0..MaxAttempts
      /\ SoundDB(db) /\ Listable(db) /\ site \in {"linkedin", "seek"} /\ s \in Final
      /\ Cast(site, p, proc[p], started) /\ started \in Nat /\ faults \in Nat
  BY <1>1, SiteIsOne, FirstAndRest DEF SettleInv, NoteInv, Processes, Write
<1>3. /\ scenario' = scenario /\ page' = page /\ todo' = todo /\ started' = started
      /\ cleared' = cleared /\ overtaken' = overtaken
      /\ \/ db' = Run(db, p, s) /\ faults' = faults
         \/ db' = db /\ faults' = faults + 1
  BY DEF Write, env, Fault
<1>4. /\ Returned(p).att = 0 /\ Returned(p).pc \in {"idle", "done", "next"} /\ (p # "bot" => Returned(p) = Idle)
      /\ p = "bot" => Returned(p).mode = m
  BY <1>2, ReturnedIs
<1> HIDE DEF q, s, site, m, i, a
<1>5. db' = Run(db, p, s) => Effect(s, db, db', i, a)
  BY <1>2, Effects DEF i, a
<1>6. Listable(db') /\ \A b \in Attempts : b # a => db'.attempts[b] = db.attempts[b]
  <2>1. CASE db' = db
    BY <1>2, <2>1
  <2>2. CASE db' = Run(db, p, s)
    BY <1>5, <2>2 DEF Effect
  <2> QED BY <1>3, <2>1, <2>2
<1>7. \A b \in Attempts : b > started' => ~db'.attempts[b].row
  <2>1. a \in 0..started
    BY <1>2 DEF Cast, a
  <2>2. \A b \in Attempts : b > started => b # a
    BY <1>2, <2>1 DEF Attempts
  <2> QED BY <1>3, <1>6, <2>2 DEF NoteInv
<1>8. Cast(site, p, proc'[p], started')
  <2>1. CASE Tail(q) # <<>> /\ p # "user"
    <3>1. proc[p].pc # "idle" /\ proc'[p].pc \notin {"check", "reconfirm"}
      BY <1>1, <1>2, <2>1
    <3>2. proc'[p].mode = proc[p].mode /\ proc'[p].att = proc[p].att
      BY <1>1, <2>1 DEF Same
    <3> QED BY <1>2, <1>3, <2>1, <3>1, <3>2 DEF Cast
  <2>2. CASE Tail(q) # <<>> /\ p = "user"
    <3>1. q \in {<<Skip("rejected"), Do("unpend")>>, <<Do("unpend")>>}
      BY <1>2, <2>2 DEF Cast, q
    <3>2. Tail(q) = <<Do("unpend")>>
      <4>1. CASE q = <<Skip("rejected"), Do("unpend")>>
        BY <4>1, ShortTails, Zenon
      <4>2. CASE q = <<Do("unpend")>>
        BY <2>2, <4>2, ShortTails, Zenon
      <4> QED BY <3>1, <4>1, <4>2
    <3>3. /\ proc'[p].pc = "write" /\ proc'[p].mode = proc[p].mode /\ proc'[p].att = proc[p].att
          /\ proc'[p].plan = <<Do("unpend")>>
      BY <1>1, <2>2, <3>2 DEF Same
    <3> QED BY <1>2, <1>3, <3>3 DEF Cast
  <2>3. CASE Tail(q) = <<>>
    <3>1. proc'[p] = Returned(p) /\ 0 \in 0..started
      BY <1>1, <1>2, <2>3
    <3>2. Cast(site, p, Returned(p), started)
      <4>1. CASE p = "bot"
        BY <1>2, <1>4, <3>1, <4>1 DEF Cast, m
      <4>2. CASE p # "bot"
        BY <1>4, <3>1, <4>2, IdleIsIdle DEF Cast
      <4> QED BY <4>1, <4>2
    <3> QED BY <1>3, <3>1, <3>2
  <2> QED BY <2>1, <2>2, <2>3
<1>9. proc'[p].att \in {0, proc[p].att} /\ proc'[p].pc \in {"write", "idle", "done", "next"}
  BY <1>1, <1>4 DEF Same
<1>10. Open(proc'[p]) => /\ Tail(q) # <<>> /\ EndsAfter(q, 1) /\ Open(proc[p])
                         /\ Same(proc[p], proc'[p])
  <2>1. SUFFICES ASSUME Open(proc'[p])
                 PROVE  Tail(q) # <<>> /\ EndsAfter(q, 1) /\ Open(proc[p]) /\ Same(proc[p], proc'[p])
    OBVIOUS
  <2>2. proc'[p].pc = "write" /\ \E k \in 1..Len(proc'[p].plan) : proc'[p].plan[k] \in Closing
    BY <1>9, <2>1 DEF Open, Begun, Clicked
  <2>3. Tail(q) # <<>>
    BY <1>1, <1>4, <2>2
  <2>4. EndsAfter(q, 1)
    BY <1>1, <2>2, <2>3, StillOpen
  <2>5. Open(proc[p])
    BY <1>1, <1>2, <2>4, StillOpen DEF Open, q
  <2> QED BY <1>1, <2>3, <2>4, <2>5
<1>11. Snapshot(scenario.site, todo', proc'["bot"])
  <2>1. Snapshot(scenario.site, todo, proc["bot"])
    BY DEF NoteInv, Bot
  <2>2. CASE p # "bot"
    <3>1. proc'["bot"] = proc["bot"]
      BY <1>1, <2>2, BotIsAProcess DEF Others
    <3> QED BY <1>3, <2>1, <3>1
  <2>3. CASE p = "bot"
    BY <1>3, <1>10, <2>1, <2>3 DEF Snapshot, Same
  <2> QED BY <2>2, <2>3
<1>12. Orderly' => Orderly
  BY <1>2, <1>3 DEF Orderly
<1>13. ASSUME Orderly'
       PROVE  /\ Promised(site, page', proc'[p], db') /\ Untouched(p, db')
              /\ Leaves(p, site, db, db', todo, todo')
              /\ p = "bot" /\ proc'[p].pc = "consume" => InTables(db', proc'[p].id)
  <2>1. /\ Promises /\ Effect(s, db, db', i, a)
        /\ Backed(site, page, m, i, q, db) /\ (Open(proc[p]) => Owns(proc[p], db))
    <3>1. Promises
      BY <1>12, <1>13 DEF NoteInv
    <3>2. faults' # faults + 1
      BY <1>2, <1>13 DEF Orderly
    <3>3. Supported(site, page, proc[p], db) /\ (Open(proc[p]) => Owns(proc[p], db))
      BY <3>1 DEF Promises, site
    <3> QED BY <1>2, <1>3, <1>5, <3>1, <3>2, <3>3 DEF Supported, m, i, q
  <2>2. EndsOpen(s, a, db)
    <3>1. SUFFICES ASSUME s.op \in {"finish", "finishNoJob"}
                   PROVE  a \in Attempts /\ db.attempts[a].outcome # "submission_unknown"
      BY DEF EndsOpen
    <3>2. s \in Closing
      BY <1>2, <3>1, ClosingStatements
    <3>3. Open(proc[p])
      BY <1>1, <1>2, <3>2, StillOpen DEF Open, q, s
    <3>4. a # 0 /\ db.attempts[a].outcome = "in_progress"
      BY <2>1, <3>3 DEF Owns, a
    <3> QED BY <1>2, <3>4, MaxAttemptsAssumption DEF Attempts
  <2>3. m = "top" => site # "linkedin"
    BY <1>2 DEF Cast, m
  <2>4. /\ Backed(site, page, m, i, Tail(q), db')
        /\ Aftermath(site, page, m, s, EndsAfter(q, 1), i, db, db')
    BY <1>1, <1>2, <2>1, <2>2, <2>3, TailBacked DEF s
  <2>5. Supported(site, page', proc'[p], db')
    <3>1. CASE Tail(q) = <<>>
      <4>1. proc'[p].pc \in {"idle", "done", "next"}
        BY <1>1, <1>4, <3>1
      <4> QED BY <4>1, AtEase DEF Begun, Clicked
    <3>2. CASE Tail(q) # <<>>
      <4>1. proc'[p].pc \notin Begun \cup Clicked \cup {"looked"}
        BY <1>1, <3>2 DEF Begun, Clicked
      <4> QED BY <1>1, <1>3, <2>4, <3>2, <4>1 DEF Supported, Same, m, i
    <3> QED BY <3>1, <3>2
  <2>6. Open(proc'[p]) => Owns(proc'[p], db')
    <3>1. SUFFICES ASSUME Open(proc'[p])  PROVE Owns(proc'[p], db')
      OBVIOUS
    <3>2. EndsAfter(q, 1) /\ Same(proc[p], proc'[p]) /\ Owns(proc[p], db)
      BY <1>10, <2>1, <3>1
    <3>3. s \notin Closing
      BY <1>1, <2>1, <3>2, StillOpen DEF Backed, s
    <3>4. db'.attempts = db.attempts
      BY <1>2, <2>1, <3>3, ClosingStatements DEF Effect
    <3> QED BY <3>2, <3>4 DEF Owns, Same
  <2>7. Untouched(p, db')
    BY <1>6 DEF Untouched, a
  <2>8. Leaves(p, site, db, db', todo, todo')
    <3>1. \A x \in todo : x[1] \in Ids /\ x[2] \in Kinds /\ x = <<x[1], x[2]>> /\ Kept(db, x[1])
      BY <2>1 DEF Promises, NoteInv, Snapshot
    <3>2. CASE Firm(site, db, db')
      <4>1. \A x \in todo : Kept(db', x[1])
        BY <3>1, <3>2 DEF Firm
      <4> QED BY <1>3, <3>2, <4>1, FirmIsLoose DEF Leaves
    <3>3. CASE /\ m = "queue" /\ EndsAfter(q, 1) /\ Loose(site, db, db')
               /\ \A j \in Ids : Kept(db, j) => Kept(db', j) \/ (FromQueue(site, page, m) /\ j = i)
      <4>1. p = "bot"
        BY <1>2, <3>3 DEF Cast, RoleOf, m
      <4>2. Open(proc[p])
        BY <1>1, <1>2, <3>3, StillOpen DEF Open, q
      <4>3. \A x \in todo : x[1] # i
        BY <3>1, <3>3, <4>1, <4>2 DEF NoteInv, Snapshot, Bot, m, i
      <4> QED BY <1>3, <3>1, <3>3, <4>1, <4>3 DEF Leaves
    <3>4. CASE /\ m = "top"
               /\ db.applied # {} => db'.applied # {}
               /\ \A j \in Ids : Recorded(db, j) => Recorded(db', j)
               /\ \A j \in Ids : Kept(db, j) => Kept(db', j)
      <4>1. p = "bot"
        BY <1>2, <3>4 DEF Cast, RoleOf, m
      <4>2. Loose(site, db, db')
        BY <2>3, <3>4 DEF Loose
      <4> QED BY <1>3, <3>1, <3>4, <4>1, <4>2 DEF Leaves
    <3> QED BY <2>4, <3>2, <3>3, <3>4 DEF Aftermath
  <2> QED BY <1>9, <2>5, <2>6, <2>7, <2>8 DEF Promised
<1>14. page = "applied" => page' = "applied"
  BY <1>3
<1> QED BY <1>1, <1>3, <1>6, <1>7, <1>8, <1>9, <1>11, <1>12, <1>13, <1>14, StepKeeps DEF site

-----------------------------------------------------------------------------
(* The beginning, and the user's handlers. *)

\* At first nothing is promised.
LEMMA NoteInit ==
    ASSUME Init
    PROVE  NoteInv
<1>1. PICK x \in {"no", "apply"} : db = [EmptyDB EXCEPT !.queue[Site] = x]
  BY DEF Init
<1>2. Listable(db)
  <2>1. db.skipped = [i \in Ids |-> "no"] /\ db.pending = [i \in Ids |-> None]
        /\ {"applied", "skipped", "pending"} \subseteq DOMAIN db
    BY <1>1 DEF EmptyDB
  <2> QED BY <2>1 DEF Listable
<1>3. \A a \in Attempts : ~db.attempts[a].row
  BY <1>1 DEF EmptyDB, None
<1>4. proc = [p \in Procs |-> Idle] /\ todo = {} /\ started = 0
  BY DEF Init
<1>5. Idle.pc = "idle" /\ Idle.att = 0 /\ Idle.mode = "none"
  BY DEF Idle
<1>6. \A p \in Procs : proc[p] = Idle
  BY <1>4
<1>7. \A site, p : Cast(site, p, Idle, started)
  BY <1>4, <1>5 DEF Cast
<1>8. \A site, pg, d : Supported(site, pg, Idle, d) /\ ~Open(Idle)
  BY <1>5, AtEase DEF Begun, Clicked
<1>9. Snapshot(scenario.site, todo, Bot)
  BY <1>4, <1>5, <1>6, BotIsAProcess DEF Snapshot, Bot
<1>10. Promises
  BY <1>4, <1>5, <1>6, <1>8, BotIsAProcess DEF Promises, Bot
<1> QED BY <1>2, <1>3, <1>5, <1>6, <1>7, <1>9, <1>10 DEF NoteInv

\* A handler that runs no goroutine.
Handled ==
    /\ proc' = proc /\ todo' = todo /\ started' = started /\ scenario' = scenario
    /\ page = "applied" => page' = "applied"
    /\ faults' = faults /\ db'.attempts = db.attempts /\ Listable(db')

\* A handler that leaves what the goroutines count on.
LEMMA HandledKeeps ==
    ASSUME NoteInv, SettleInv, SettleInv', Handled, Orderly' => Orderly,
           Orderly' => Firm(scenario.site, db, db')
    PROVE  NoteInv'
<1> DEFINE p == "user"
<1> DEFINE site == scenario.site
<1>1. p \in Procs /\ Others(p) /\ proc'[p] = proc[p] /\ "bot" # p
  BY DEF Procs, Others, Handled
<1>2. Cast(site, p, proc[p], started) /\ Planned(proc[p]) /\ site \in {"linkedin", "seek"}
  BY <1>1, SiteIsOne DEF NoteInv, SettleInv
<1>3. Snapshot(scenario.site, todo', proc'["bot"])
  BY DEF NoteInv, Bot, Handled
<1>4. \A a \in Attempts : a > started' => ~db'.attempts[a].row
  BY DEF NoteInv, Handled
<1> HIDE DEF p
<1>5. ASSUME Orderly'
      PROVE  Promised(site, page', proc'[p], db') /\ Untouched(p, db') /\ Leaves(p, site, db, db', todo, todo')
  <2>1. Promises /\ Firm(site, db, db')
    BY <1>5 DEF NoteInv
  <2>2. Supported(site, page, proc[p], db) /\ (Open(proc[p]) => Owns(proc[p], db))
    BY <1>1, <2>1 DEF Promises
  <2>3. Supported(site, page', proc[p], db')
    BY <1>2, <2>1, <2>2, OthersStand DEF Handled
  <2>4. Open(proc[p]) => Owns(proc[p], db')
    BY <2>2 DEF Owns, Handled
  <2>5. Untouched(p, db') /\ Leaves(p, site, db, db', todo, todo')
    BY <1>1, <2>1 DEF Untouched, Leaves, Handled
  <2> QED BY <1>1, <2>3, <2>4, <2>5 DEF Promised
<1> QED BY <1>1, <1>2, <1>3, <1>4, <1>5, StepKeeps DEF Handled

\* An application recorded is as good as every list.
LEMMA AllRecorded ==
    \A site, d, d2 : d2.applied # {} => Firm(site, d, d2)
  BY DEF Firm, Recorded, InTables, Filed, Kept

\* Deleting, adopting and letting go.
LEMMA RemovalsKeep ==
    ASSUME NoteInv, SettleInv, SettleInv', NEW id \in Ids,
           DeletePendingReview(id) \/ MarkApplied(id) \/ LetGo(id)
    PROVE  NoteInv'
<1>0. SoundDB(db) /\ Listable(db) /\ "no" \notin Reasons /\ "rejected" \in Reasons
  BY DEF SettleInv, NoteInv, Reasons
<1> USE DEF SoundDB, Listable
<1>1. CASE DeletePendingReview(id)
  <2> DEFINE d1 == RemoveReview(db, id)
  <2>1. /\ {"attempts", "queue", "applied", "skipped", "pending"} \subseteq DOMAIN d1
        /\ d1.applied = db.applied /\ d1.skipped = db.skipped /\ d1.queue = db.queue /\ d1.attempts = db.attempts
        /\ d1.pending \in [Ids -> Reviews \cup {None}]
        /\ \A j \in Ids : j # id => d1.pending[j] = db.pending[j]
    BY <1>0 DEF RemoveReview
  <2> HIDE DEF d1
  <2>2. db' = RecordSkipped(d1, id, "rejected")
    BY <1>1 DEF DeletePendingReview, d1
  <2>3. /\ {"attempts", "queue", "applied", "skipped", "pending"} \subseteq DOMAIN db'
        /\ db'.applied = db.applied /\ db'.queue = db.queue /\ db'.attempts = db.attempts
        /\ db'.pending = d1.pending /\ db'.skipped \in [Ids -> Reasons \cup {"no"}]
        /\ \A j \in Ids : db.skipped[j] # "no" => db'.skipped[j] # "no"
        /\ db'.skipped[id] # "no"
    BY <1>0, <2>1, <2>2 DEF RecordSkipped
  <2>4. Handled /\ (Orderly' => Orderly)
    BY <1>0, <1>1, <2>1, <2>3 DEF Handled, DeletePendingReview, Aside, env, Orderly
  <2>5. \A j \in Ids : /\ Recorded(db, j) => Recorded(db', j)
                       /\ InReview(db, j) => Recorded(db', j) \/ InReview(db', j)
    BY <2>1, <2>3 DEF Recorded, InReview
  <2>6. Unknown(db) <=> Unknown(db')
    BY <2>3 DEF Unknown
  <2>7. Firm(scenario.site, db, db')
    BY <2>3, <2>5, <2>6 DEF Firm, InTables, Filed, Kept
  <2> QED BY <2>4, <2>7, HandledKeeps
<1>2. CASE MarkApplied(id)
  <2> DEFINE d1 == RecordApplied(db, id)
  <2>1. /\ {"attempts", "queue", "applied", "skipped", "pending"} \subseteq DOMAIN d1
        /\ id \in d1.applied /\ d1.skipped = db.skipped /\ d1.pending = db.pending /\ d1.attempts = db.attempts
    BY <1>0 DEF RecordApplied
  <2> HIDE DEF d1
  <2>2. db' = RemoveReview(d1, id) \/ db' = [d1 EXCEPT !.skipped[id] = "no"]
    BY <1>2 DEF MarkApplied, d1
  <2>3. db'.applied # {} /\ db'.attempts = db.attempts /\ Listable(db')
    BY <1>0, <2>1, <2>2 DEF RemoveReview
  <2>4. Handled /\ (Orderly' => Orderly)
    BY <1>2, <2>3 DEF Handled, MarkApplied, Aside, env, Orderly
  <2> QED BY <2>3, <2>4, AllRecorded, HandledKeeps
<1>3. CASE LetGo(id)
  <2>1. \/ db' = [db EXCEPT !.applied = @ \ {id}] \/ db' = [db EXCEPT !.skipped[id] = "no"]
        \/ db' = RemoveReview(db, id)
    BY <1>3 DEF LetGo
  <2>2. Listable(db') /\ db'.attempts = db.attempts
    BY <1>0, <2>1 DEF RemoveReview
  <2>3. Handled /\ ~Orderly'
    BY <1>3, <2>2 DEF Handled, LetGo, Aside, env, Orderly
  <2> QED BY <2>3, HandledKeeps
<1> QED BY <1>1, <1>2, <1>3

\* The page changes nothing but what an unqueue needs.
LEMMA PageKeeps ==
    ASSUME NoteInv, SettleInv, SettleInv', SiteShowsApplied
    PROVE  NoteInv'
<1>1. UNCHANGED <<Still, proc>> /\ page' = "applied" /\ Listable(db)
  BY DEF NoteInv, SiteShowsApplied
<1>2. db' = db /\ todo' = todo /\ started' = started /\ scenario' = scenario /\ faults' = faults
      /\ cleared' = cleared /\ overtaken' = overtaken /\ proc' = proc
  BY <1>1 DEF Still, env
<1>3. Handled /\ (Orderly' => Orderly)
  BY <1>1, <1>2 DEF Handled, Orderly
<1> QED BY <1>2, <1>3, FirmItself, HandledKeeps

\* Only who ends an attempt, or a rejection, needs more than a list that has the posting.
LEMMA WhoNeedsTables ==
    \A site \in {"linkedin", "seek"}, m \in Modes, open \in BOOLEAN, s \in Final : \A pg :
        Wants(site, pg, m, s, open) \in {"record", "tables"} =>
            /\ m \in {"queue", "approve", "reject"}
            /\ m # "reject" => open \/ s \in Closing
            /\ m = "reject" => Wants(site, pg, m, s, open) = "record"
<1> SUFFICES ASSUME NEW site \in {"linkedin", "seek"}, NEW m \in Modes, NEW open \in BOOLEAN, NEW s \in Final, NEW pg,
                    Wants(site, pg, m, s, open) \in {"record", "tables"}
             PROVE  /\ m \in {"queue", "approve", "reject"}
                    /\ m # "reject" => open \/ s \in Closing
                    /\ m = "reject" => Wants(site, pg, m, s, open) = "record"
  OBVIOUS
<1> DEFINE w == Wants(site, pg, m, s, open)
<1>1. CASE s.op = "unpend"
  <2>1. w = UnpendWants(m, open)
    BY <1>1 DEF Wants
  <2> QED BY <2>1 DEF UnpendWants
<1>2. CASE s.op = "unqueue"
  <2>1. w = UnqueueWants(site, pg, m, open)
    BY <1>2 DEF Wants
  <2> QED BY <2>1 DEF UnqueueWants
<1>3. CASE s.op \in {"finish", "finishNoJob"}
  <2>1. w = EndWants(site, pg, m, s) /\ s \in Closing
    BY <1>3, ClosingStatements DEF Wants
  <2>2. m = "approve"
    BY <2>1 DEF EndWants, Stands
  <2> QED BY <2>1, <2>2
<1>4. CASE s.op \notin {"unpend", "unqueue", "finish", "finishNoJob"}
  BY <1>4 DEF Wants
<1> QED BY <1>1, <1>2, <1>3, <1>4

\* A Cannot Apply entry becomes a request: what stays.
LEMMA RequestStays ==
    ASSUME SoundDB(db), Listable(db), NEW id \in Ids, RetryCannotApply(id)
    PROVE  /\ Listable(db') /\ db'.attempts = db.attempts
           /\ db.applied # {} => db'.applied # {}
           /\ \A j \in Ids : /\ Filed(db, j) => Filed(db', j)
                             /\ Kept(db, j) => Kept(db', j)
                             /\ j # id /\ Recorded(db, j) => Recorded(db', j)
                             /\ j # id /\ InTables(db, j) => InTables(db', j)
<1>1. db' = [db EXCEPT !.queue[id] = "evaluate", !.skipped[id] = "no"]
  BY DEF RetryCannotApply
<1>2. /\ {"attempts", "queue", "applied", "skipped", "pending"} \subseteq DOMAIN db'
      /\ db'.applied = db.applied /\ db'.pending = db.pending /\ db'.attempts = db.attempts
      /\ db'.queue = [db.queue EXCEPT ![id] = "evaluate"] /\ db'.skipped = [db.skipped EXCEPT ![id] = "no"]
  BY <1>1 DEF SoundDB, Listable
<1>3. db'.queue[id] = "evaluate" /\ \A j \in Ids : j # id => db'.queue[j] = db.queue[j] /\ db'.skipped[j] = db.skipped[j]
  BY <1>2 DEF SoundDB, Listable
<1>4. Listable(db')
  BY <1>2 DEF Listable
<1>5. \A j \in Ids : j # id => (Recorded(db, j) <=> Recorded(db', j))
  BY <1>2, <1>3 DEF Recorded
<1>6. \A j \in Ids : InReview(db, j) <=> InReview(db', j)
  BY <1>2 DEF InReview
<1>7. Unknown(db) <=> Unknown(db')
  BY <1>2 DEF Unknown
<1>8. \A j \in Ids : Filed(db, j) => Filed(db', j)
  <2> SUFFICES ASSUME NEW j \in Ids, Filed(db, j)  PROVE Filed(db', j)
    OBVIOUS
  <2>1. CASE j = id
    BY <1>3, <2>1 DEF Filed
  <2>2. CASE j # id
    BY <1>3, <1>5, <1>7, <2>2 DEF Filed
  <2> QED BY <2>1, <2>2
<1> QED BY <1>2, <1>4, <1>5, <1>6, <1>8 DEF Kept, InTables

\* The same row as a level: it may fall short only as a record of that id.
LEMMA LevelStays ==
    ASSUME SoundDB(db), Listable(db), NEW id \in Ids, RetryCannotApply(id)
    PROVE  \A w \in Levels, i \in Ids :
               Holds(w, db, i) /\ (w \in {"record", "tables"} => i # id) => Holds(w, db', i)
BY RequestStays DEF Holds, Levels

\* Who works on an attempt for that very id stops the request.
LEMMA RetryWaits ==
    ASSUME NEW id \in Ids, NEW r \in Processes, Owns(r, db), r.mode # "url", r.id = id
    PROVE  ~MayRetry(id)
<1>1. r.att \in Attempts /\ id \in db.attempts[r.att].job
  BY MaxAttemptsAssumption DEF Owns, Processes, Attempts
<1> QED BY <1>1 DEF Owns, MayRetry, RetryUnsafe, Unresolved

\* A request may overtake a retry or a rejection only where the history says so.
LEMMA RequestKeeps ==
    ASSUME NoteInv, SettleInv, SettleInv', NEW id \in Ids, RetryCannotApply(id)
    PROVE  NoteInv'
<1> DEFINE site == scenario.site
<1>1. SoundDB(db) /\ Listable(db) /\ site \in {"linkedin", "seek"} /\ MayRetry(id)
  BY SiteIsOne DEF SettleInv, NoteInv, RetryCannotApply
<1>2. /\ scenario' = scenario /\ todo' = todo /\ page' = page /\ started' = started /\ faults' = faults
      /\ proc' = proc /\ cleared' = cleared /\ overtaken' = (overtaken \/ ReliedOn(id))
  BY DEF RetryCannotApply, Aside, env
<1>3. /\ Listable(db') /\ db'.attempts = db.attempts
      /\ \A j \in Ids : Kept(db, j) => Kept(db', j)
  BY <1>1, RequestStays
<1>4. ASSUME Orderly'  PROVE Promises'
  <2>1. Promises /\ ~ReliedOn(id)
    BY <1>2, <1>4 DEF NoteInv, Orderly
  <2>2. \A w \in Levels, i \in Ids :
            Holds(w, db, i) /\ (w \in {"record", "tables"} => i # id) => Holds(w, db', i)
    BY <1>1, LevelStays
  <2>3. ASSUME NEW q \in Procs
        PROVE  Supported(site, page, proc[q], db') /\ (Open(proc[q]) => Owns(proc[q], db'))
    <3> DEFINE r == proc[q]
    <3>1. Supported(site, page, r, db) /\ (Open(r) => Owns(r, db)) /\ Cast(site, q, r, started) /\ Planned(r)
      BY <2>1 DEF Promises, NoteInv, SettleInv
    <3>2. r \in Processes /\ r.mode \in Modes /\ r.id \in Ids /\ r.plan \in Seq(Final)
      BY <3>1 DEF Planned, Processes
    <3> HIDE DEF r
    <3>3. Open(r) /\ r.mode # "url" => r.id # id
      BY <1>1, <3>1, <3>2, RetryWaits
    <3>4. Open(r) => Owns(r, db')
      BY <1>3, <3>1 DEF Owns
    <3>5. ASSUME r.pc \in Begun \cup Clicked \cup {"looked"}
          PROVE  Holds(Stands(site, r.mode), db', r.id)
      <4>1. /\ Stands(site, r.mode) \in {"nothing", "kept", "tables"}
            /\ Stands(site, r.mode) = "tables" => r.mode = "approve"
        BY DEF Stands
      <4>2. Holds(Stands(site, r.mode), db, r.id)
        BY <3>1, <3>5 DEF Supported
      <4>3. Stands(site, r.mode) = "tables" => r.id # id
        <5>1. r.pc = "looked" => r.mode \in {"search", "retry"}
          BY <3>1 DEF Planned
        <5> QED BY <3>3, <3>5, <4>1, <5>1 DEF Open
      <4> QED BY <2>2, <3>2, <4>1, <4>2, <4>3 DEF Levels
    <3>6. ASSUME r.pc = "write"
          PROVE  Backed(site, page, r.mode, r.id, r.plan, db')
      <4>1. Backed(site, page, r.mode, r.id, r.plan, db)
        BY <3>1, <3>6 DEF Supported
      <4>2. ASSUME NEW k \in 1..Len(r.plan), Holds(Need(site, page, r.mode, r.plan, k), db, r.id)
            PROVE  \/ Holds(Need(site, page, r.mode, r.plan, k), db', r.id)
                   \/ \E j \in 1..(k - 1) : Need(site, page, r.mode, r.plan, k) \in Gives(r.plan[j])
        <5> DEFINE w == Need(site, page, r.mode, r.plan, k)
        <5>1. r.plan[k] \in Final /\ EndsAfter(r.plan, k) \in BOOLEAN
          BY <3>2 DEF EndsAfter
        <5>2. /\ w \in Levels
              /\ w \in {"record", "tables"} =>
                     /\ r.mode \in {"queue", "approve", "reject"}
                     /\ r.mode # "reject" => EndsAfter(r.plan, k) \/ r.plan[k] \in Closing
                     /\ r.mode = "reject" => w = "record"
          <6>1. w = Wants(site, page, r.mode, r.plan[k], EndsAfter(r.plan, k))
            BY DEF Need
          <6>2. w \in Levels
            BY <1>1, <3>2, <5>1, <6>1, WantsFacts DEF Apt
          <6> HIDE DEF w
          <6> QED BY <1>1, <3>2, <5>1, <6>1, <6>2, WhoNeedsTables
        <5>3. (EndsAfter(r.plan, k) \/ r.plan[k] \in Closing) => Open(r)
          <6>1. \A l \in (k + 1)..Len(r.plan) : l \in 1..Len(r.plan)
            BY <3>2
          <6> QED BY <3>6, <6>1 DEF EndsAfter, Open
        <5> HIDE DEF w
        <5>4. CASE w \in {"record", "tables"} => r.id # id
          BY <2>2, <3>2, <4>2, <5>2, <5>4 DEF w
        <5>5. CASE w \in {"record", "tables"} /\ r.id = id
          <6>1. r.mode = "reject" /\ w = "record"
            BY <3>3, <5>2, <5>3, <5>5
          <6>2. q = "user"
            BY <3>1, <3>6, <6>1 DEF Cast, RoleOf
          <6>3. r.plan # <<Do("unpend")>>
            BY <2>1, <5>5, <6>2 DEF ReliedOn, r
          <6>4. r.plan = <<Skip("rejected"), Do("unpend")>>
            BY <3>1, <3>6, <6>2, <6>3, Zenon DEF Cast
          <6>5. Len(r.plan) = 2 /\ r.plan[1] = Skip("rejected") /\ r.plan[2] = Do("unpend")
            BY <6>4
          <6>6. k # 1
            <7>1. Skip("rejected").op = "skip"
              BY DEF Skip, S
            <7>2. Need(site, page, r.mode, r.plan, 1) = "nothing"
              BY <6>5, <7>1 DEF Need, Wants
            <7> QED BY <6>1, <7>2 DEF w
          <6>7. 1 \in 1..(k - 1)
            BY <6>5, <6>6
          <6>8. w \in Gives(r.plan[1])
            BY <6>1, <6>5 DEF Gives, Skip, S
          <6> QED BY <6>7, <6>8 DEF w
        <5> QED BY <5>4, <5>5
      <4>3. KeepsNeeds(site, page, r.mode, r.id, r.plan, db, db')
        BY <4>2 DEF KeepsNeeds
      <4> QED BY <1>1, <3>2, <4>1, <4>3, BackedStays
    <3> QED BY <3>4, <3>5, <3>6 DEF Supported, r
  <2>4. Bot.pc = "consume" => InTables(db', Bot.id)
    <3>1. Bot.pc = "consume" => Bot.id # id /\ InTables(db, Bot.id)
      BY <2>1 DEF ReliedOn, Promises
    <3>2. Bot.id \in Ids
      BY BotIsAProcess DEF Bot, SettleInv, Processes
    <3> QED BY <1>1, <3>1, <3>2, RequestStays
  <2>5. \A x \in todo : Kept(db', x[1])
    BY <1>3, <2>1 DEF Promises, NoteInv, Snapshot
  <2> QED BY <1>2, <2>3, <2>4, <2>5 DEF Promises, Bot
<1> QED BY <1>2, <1>3, <1>4 DEF NoteInv, Bot

\* After a crash nothing is promised.
LEMMA CrashIsNoted ==
    ASSUME NoteInv, SettleInv, Crash
    PROVE  NoteInv'
<1>1. /\ scenario' = scenario /\ db' = db /\ started' = started /\ faults' = faults + 1
      /\ proc' = [p \in Procs |-> Idle] /\ faults \in Nat /\ todo' = {}
  BY DEF Crash, Fault, env, SettleInv
<1>2. ~Orderly'
  BY <1>1 DEF Orderly
<1>3. Idle.pc = "idle" /\ Idle.att = 0 /\ Idle.mode = "none" /\ started \in Nat
  BY DEF Idle, SettleInv
<1>4. \A p \in Procs : proc'[p] = Idle
  BY <1>1
<1>5. \A site, p : Cast(site, p, Idle, started)
  BY <1>3 DEF Cast
<1>6. ~Open(Idle)
  BY <1>3, AtEase DEF Begun, Clicked
<1>7. Snapshot(scenario.site, todo', proc'["bot"])
  BY <1>1, <1>4, <1>6, BotIsAProcess DEF Snapshot
<1> QED BY <1>1, <1>2, <1>3, <1>4, <1>5, <1>7 DEF NoteInv, Bot

-----------------------------------------------------------------------------
(* The bot's run. *)

\* The run goes on to something that is not an attempt.
LEMMA RunGoesOn ==
    ASSUME NoteInv, SettleInv, SettleInv', Others("bot"),
           scenario' = scenario, page' = page, db' = db, started' = started, faults' = faults,
           cleared' = cleared, overtaken' = overtaken,
           Cast(scenario.site, "bot", proc'["bot"], started), proc'["bot"].att \in {0, proc["bot"].att},
           ~Open(proc'["bot"]), Snapshot(scenario.site, todo', proc'["bot"]),
           Orderly => /\ Supported(scenario.site, page, proc'["bot"], db)
                      /\ proc'["bot"].pc = "consume" => InTables(db, proc'["bot"].id)
                      /\ \A x \in todo' : Kept(db, x[1])
    PROVE  NoteInv'
<1>1. Orderly' => Orderly
  BY DEF Orderly
<1>2. Listable(db') /\ \A a \in Attempts : a > started' => ~db'.attempts[a].row
  BY DEF NoteInv
<1>3. ASSUME Orderly'
      PROVE  /\ Promised(scenario.site, page', proc'["bot"], db') /\ Untouched("bot", db')
             /\ Leaves("bot", scenario.site, db, db', todo, todo')
             /\ "bot" = "bot" /\ proc'["bot"].pc = "consume" => InTables(db', proc'["bot"].id)
  <2>1. Orderly
    BY <1>1, <1>3
  <2>2. Promised(scenario.site, page', proc'["bot"], db') /\ Untouched("bot", db')
    BY <2>1 DEF Promised, Untouched
  <2>3. Leaves("bot", scenario.site, db, db', todo, todo')
    BY <2>1, FirmItself, FirmIsLoose DEF Leaves
  <2> QED BY <2>1, <2>2, <2>3
<1>4. "bot" \in Procs /\ (page = "applied" => page' = "applied") /\ started' \in {started, started + 1}
  BY BotIsAProcess
<1> QED BY <1>1, <1>2, <1>3, <1>4, StepKeeps

\* Where the run is between two postings, and what its lists are.
AtRest(r) == r.pc \in {"idle", "next", "done"}
LEMMA RestKeeps ==
    ASSUME NoteInv, SettleInv, SettleInv', Others("bot"), AtRest(proc'["bot"]),
           scenario' = scenario, page' = page, db' = db, started' = started, faults' = faults,
           cleared' = cleared, overtaken' = overtaken,
           proc'["bot"].mode \in RoleOf("bot") \cup {"none"}, proc'["bot"].mode = "none" => proc'["bot"].pc = "idle",
           proc'["bot"].mode = "top" => scenario.site # "linkedin",
           proc'["bot"].att \in {0, proc["bot"].att},
           todo' \subseteq Ids \X Kinds,
           \A i \in Ids, k, l \in Kinds : <<i, k>> \in todo' /\ <<i, l>> \in todo' => k = l,
           scenario.site = "linkedin" => \A i \in Ids : <<i, "top">> \notin todo',
           Orderly => \A x \in todo' : Kept(db, x[1])
    PROVE  NoteInv'
<1> DEFINE r2 == proc'["bot"]
<1>1. r2.pc \notin Begun \cup Clicked \cup {"write", "looked", "consume", "check", "reconfirm"}
  BY DEF AtRest, Begun, Clicked
<1>2. ~Open(r2) /\ \A site, pg, d : Supported(site, pg, r2, d)
  BY <1>1, AtEase
<1>3. r2.att \in 0..started
  <2>1. proc["bot"].att \in 0..started /\ started \in Nat
    BY BotIsAProcess DEF NoteInv, SettleInv, Cast
  <2> QED BY <2>1
<1>4. Cast(scenario.site, "bot", r2, started)
  BY <1>1, <1>3 DEF Cast
<1>5. Snapshot(scenario.site, todo', r2)
  BY <1>2 DEF Snapshot
<1> QED BY <1>1, <1>2, <1>4, <1>5, RunGoesOn

\* The run at its queue.
LEMMA QueueMode ==
    /\ [Idle EXCEPT !.pc = "next", !.mode = "queue"].pc = "next"
    /\ [Idle EXCEPT !.pc = "next", !.mode = "queue"].mode = "queue"
    /\ [Idle EXCEPT !.pc = "next", !.mode = "queue"].att = 0
  BY AtTheQueue

\* A step of the run, as a whole record.
LEMMA BotIs ==
    \A r : SettleInv /\ proc' = [proc EXCEPT !["bot"] = r] => Others("bot") /\ proc'["bot"] = r
  BY BotIsAProcess DEF SettleInv, Others

\* What the lists of the run are, and that they go on naming listed postings.
LEMMA ListsOfTheRun ==
    ASSUME NoteInv, SettleInv
    PROVE  /\ todo \subseteq Ids \X Kinds
           /\ \A i \in Ids, k, l \in Kinds : <<i, k>> \in todo /\ <<i, l>> \in todo => k = l
           /\ scenario.site = "linkedin" => \A i \in Ids : <<i, "top">> \notin todo
           /\ Orderly => \A x \in todo : Kept(db, x[1])
           /\ Bot \in Processes /\ Cast(scenario.site, "bot", Bot, started) /\ Planned(Bot)
           /\ Orderly => Supported(scenario.site, page, Bot, db)
           /\ proc["bot"] = Bot /\ proc \in [Procs -> Processes]
  BY BotIsAProcess DEF NoteInv, SettleInv, Snapshot, Promises, Bot

\* The start of the run, its end, and its phases.
LEMMA PhasesNoted ==
    ASSUME NoteInv, SettleInv, SettleInv', BotStart \/ BotEnds \/ NextPhase
    PROVE  NoteInv'
<1> USE ListsOfTheRun, BotIs
<1>0. /\ scenario' = scenario /\ page' = page /\ db' = db /\ started' = started /\ faults' = faults
      /\ cleared' = cleared /\ overtaken' = overtaken
  BY DEF BotStart, BotEnds, NextPhase, AtWork, env
<1>1. CASE BotStart
  <2> DEFINE r2 == [Idle EXCEPT !.pc = "next", !.mode = "queue"]
  <2>1. proc' = [proc EXCEPT !["bot"] = r2] /\ todo' = Rows
    BY <1>1 DEF BotStart
  <2>2. r2.pc = "next" /\ r2.mode = "queue" /\ r2.att = 0
    BY QueueMode
  <2> HIDE DEF r2
  <2>3. Others("bot") /\ proc'["bot"] = r2
    BY <2>1
  <2>4. SoundDB(db) /\ Listable(db)
    BY DEF SettleInv, NoteInv
  <2>5. \A x \in Rows : \E i \in Ids : x = <<i, db.queue[i]>> /\ db.queue[i] \in {"apply", "evaluate"}
    BY <2>4 DEF Rows, SoundDB
  <2>6. \A x \in Rows : x \in Ids \X Kinds /\ x[1] \in Ids /\ x[2] # "top" /\ x[2] = db.queue[x[1]] /\ db.queue[x[1]] # "no"
    BY <2>5 DEF Kinds
  <2>7. \A x \in Rows : Kept(db, x[1])
    BY <2>6 DEF Kept, Filed
  <2>8. \A i \in Ids, k \in Kinds : <<i, k>> \in Rows => k = db.queue[i] /\ k # "top"
    BY <2>6
  <2> QED BY <1>0, <2>1, <2>2, <2>3, <2>6, <2>7, <2>8, RestKeeps DEF AtRest, RoleOf, Kinds
<1>2. CASE BotEnds
  <2>1. Others("bot") /\ proc'["bot"] = Idle /\ todo' = {}
    BY <1>2 DEF BotEnds
  <2> QED BY <1>0, <2>1, IdleIsIdle, RestKeeps DEF AtRest
<1>3. CASE NextPhase
  <2>1. PICK m \in {"top", "search"} : /\ proc' = [proc EXCEPT !["bot"].mode = m]
                                       /\ m = "top" => scenario.site # "linkedin" /\ todo' = TopMatches
                                       /\ m = "search" => todo' = {}
    BY <1>3 DEF NextPhase, LinkedIn
  <2> DEFINE r2 == [proc["bot"] EXCEPT !.mode = m]
  <2>2. proc' = [proc EXCEPT !["bot"] = r2]
    BY <2>1
  <2>3. r2.pc = "next" /\ r2.mode = m /\ r2.att = proc["bot"].att
    BY <1>3 DEF NextPhase, Processes
  <2> HIDE DEF r2
  <2>4. Others("bot") /\ proc'["bot"] = r2
    BY <2>2
  <2>5. \A x \in TopMatches : \E i \in Ids : x = <<i, "top">> /\ InReview(db, i)
    BY DEF TopMatches
  <2>6. \A x \in TopMatches : x \in Ids \X Kinds /\ x[2] = "top" /\ Kept(db, x[1])
    BY <2>5 DEF Kinds, Kept
  <2>7. \A i \in Ids, k \in Kinds : <<i, k>> \in TopMatches => k = "top"
    BY <2>6
  <2>8. todo' \subseteq TopMatches
    BY <2>1
  <2>9. todo' \subseteq Ids \X Kinds /\ (scenario.site = "linkedin" => todo' = {})
    BY <2>1, <2>6, <2>8
  <2>10. /\ \A i \in Ids, k, l \in Kinds : <<i, k>> \in todo' /\ <<i, l>> \in todo' => k = l
         /\ scenario.site = "linkedin" => \A i \in Ids : <<i, "top">> \notin todo'
         /\ \A x \in todo' : Kept(db, x[1])
    BY <2>6, <2>7, <2>8, <2>9
  <2>11. AtRest(r2) /\ r2.mode \in RoleOf("bot") /\ r2.mode # "none"
    BY <2>3 DEF AtRest, RoleOf
  <2>12. r2.mode = "top" => scenario.site # "linkedin"
    BY <2>1, <2>3
  <2> QED BY <1>0, <2>3, <2>4, <2>9, <2>10, <2>11, <2>12, RestKeeps
<1> QED BY <1>1, <1>2, <1>3

\* A retry is taken up, or left to the record that makes it unsafe.
LEMMA RetryNoted ==
    ASSUME NoteInv, SettleInv, SettleInv', NEW id \in Ids, RetryEvaluation(id)
    PROVE  NoteInv'
<1> USE ListsOfTheRun, BotIs
<1>0. /\ scenario' = scenario /\ page' = page /\ db' = db /\ started' = started /\ faults' = faults
      /\ cleared' = cleared /\ overtaken' = overtaken /\ todo' \subseteq todo /\ <<id, "evaluate">> \in todo
  BY Zenon DEF RetryEvaluation, AtWork, env
<1>1. CASE proc' = proc
  <2>1. Others("bot") /\ proc'["bot"] = Bot /\ Bot.pc = "next"
    BY <1>1, Zenon DEF Others, RetryEvaluation
  <2>2. Bot.mode \in RoleOf("bot") /\ (Bot.mode = "top" => scenario.site # "linkedin")
    BY <2>1 DEF Cast
  <2> QED BY <1>0, <2>1, <2>2, RestKeeps DEF AtRest, RoleOf
<1>2. CASE proc' = [proc EXCEPT !["bot"] = [Idle EXCEPT !.pc = "looked", !.mode = "retry", !.id = id]]
  <2> DEFINE r0 == [Idle EXCEPT !.pc = "looked"]
  <2> DEFINE r1 == [r0 EXCEPT !.mode = "retry"]
  <2> DEFINE r2 == [r1 EXCEPT !.id = id]
  <2>1. proc' = [proc EXCEPT !["bot"] = r2]
    BY <1>2
  <2>2. r0 = [pc |-> "looked", mode |-> "none", id |-> Site, att |-> 0, plan |-> <<>>]
    BY DEF Idle
  <2> HIDE DEF r0
  <2>3. r1 = [pc |-> "looked", mode |-> "retry", id |-> Site, att |-> 0, plan |-> <<>>]
    BY <2>2
  <2> HIDE DEF r1
  <2>4. r2.pc = "looked" /\ r2.mode = "retry" /\ r2.id = id /\ r2.att = 0
    BY <2>3
  <2> HIDE DEF r2
  <2>5. Others("bot") /\ proc'["bot"] = r2
    BY <2>1
  <2>6. ~Open(r2)
    BY <2>4 DEF Open, Begun, Clicked
  <2>7. Cast(scenario.site, "bot", r2, started)
    BY <2>4 DEF Cast, RoleOf, SettleInv
  <2>8. Orderly => Supported(scenario.site, page, r2, db)
    <3>1. Orderly => Kept(db, id)
      BY <1>0
    <3>2. Stands(scenario.site, "retry") = "kept" /\ (Kept(db, id) => Holds("kept", db, id))
      BY DEF Stands, Holds
    <3> QED BY <2>4, <3>1, <3>2 DEF Supported
  <2>9. Snapshot(scenario.site, todo', r2)
    BY <1>0, <2>6 DEF Snapshot
  <2> QED BY <1>0, <2>4, <2>5, <2>6, <2>7, <2>8, <2>9, RunGoesOn
<1> QED BY <1>1, <1>2, Zenon DEF RetryEvaluation

\* The search and the judgement of a posting.
LEMMA SearchNoted ==
    ASSUME NoteInv, SettleInv, SettleInv', Search \/ Judge
    PROVE  NoteInv'
<1> USE ListsOfTheRun, BotIsAProcess
<1>0. /\ scenario' = scenario /\ page' = page /\ db' = db /\ started' = started /\ faults' = faults
      /\ cleared' = cleared /\ overtaken' = overtaken /\ todo' = todo
  BY DEF Search, Judge, Still, env
<1>1. CASE Search
  <2>1. Others("bot") /\ proc'["bot"].pc = "looked" /\ Same(Bot, proc'["bot"]) /\ Bot.mode = "search" /\ Bot.pc = "next"
    BY <1>1, GotoIs DEF Search
  <2>2. ~Open(proc'["bot"])
    BY <2>1 DEF Open, Begun, Clicked
  <2>3. Cast(scenario.site, "bot", proc'["bot"], started)
    BY <2>1 DEF Cast, Same
  <2>4. Supported(scenario.site, page, proc'["bot"], db)
    BY <2>1 DEF Supported, Same, Stands, Holds
  <2>5. Snapshot(scenario.site, todo', proc'["bot"])
    BY <1>0, <2>2 DEF Snapshot
  <2>6. proc'["bot"].att \in {0, proc["bot"].att} /\ proc'["bot"].pc # "consume"
    BY <2>1 DEF Same
  <2> QED BY <1>0, <2>1, <2>2, <2>3, <2>4, <2>5, <2>6, RunGoesOn
<1>2. CASE Judge
  <2>1. Bot.pc = "looked" /\ (Result("bot", <<>>) \/ \E a \in Adds : Result("bot", <<a>>))
    <3>1. {Skip("rejected"), Failure("retryable"), Pend(FALSE), Pend(TRUE), Do("applied")} \subseteq Final
      BY PlainStatements, FinalStatements DEF Reasons
    <3>2. \A s \in Final : s.op \in {"applied", "skip", "failure", "pend"} => s \in Adds
      BY DEF Adds
    <3>3. /\ Skip("rejected").op = "skip" /\ Failure("retryable").op = "failure" /\ Do("applied").op = "applied"
          /\ Pend(FALSE).op = "pend" /\ Pend(TRUE).op = "pend"
      BY Ops
    <3>4. Skip("rejected") \in Adds /\ Failure("retryable") \in Adds /\ Do("applied") \in Adds
      BY <3>1, <3>2, <3>3
    <3>5. Pend(FALSE) \in Adds /\ Pend(TRUE) \in Adds
      BY <3>1, <3>2, <3>3
    <3> QED BY <1>2, <3>4, <3>5 DEF Judge
  <2>2. Bot.mode \in {"search", "retry"} /\ Bot.mode \in RoleOf("bot")
    BY <2>1 DEF Planned, Cast
  <2>3. CASE Result("bot", <<>>)
    <3>1. Others("bot") /\ proc'["bot"] = Returned("bot")
      BY <2>3, ResultIs, Tuples
    <3>2. /\ AtRest(proc'["bot"]) /\ proc'["bot"].mode = Bot.mode /\ proc'["bot"].att = 0
      BY <3>1, ReturnedIs DEF AtRest
    <3> QED BY <1>0, <2>2, <3>1, <3>2, RestKeeps
  <2>4. ASSUME NEW a \in Adds, Result("bot", <<a>>)  PROVE NoteInv'
    <3> DEFINE plan == <<a>>
    <3> DEFINE r2 == proc'["bot"]
    <3>1. plan \in Seq(Final) /\ plan # <<>> /\ Len(plan) = 1 /\ plan[1] = a /\ a \notin Closing
      BY AddsGive
    <3>2. Backed(scenario.site, page, Bot.mode, Bot.id, plan, db)
      <4>1. PICK f : f \in Closing
        BY ClosingStatements DEF Outcomes
      <4> QED BY <4>1, PairsBacked
    <3> HIDE DEF plan
    <3>3. Others("bot") /\ r2.pc = "write" /\ r2.plan = plan /\ Same(Bot, r2)
      BY <2>4, <3>1, ResultIs DEF plan
    <3>4. ~Open(r2)
      <4>1. \A k \in 1..Len(plan) : plan[k] \notin Closing
        BY <3>1
      <4> QED BY <3>3, <4>1 DEF Open, Begun, Clicked
    <3>5. Cast(scenario.site, "bot", r2, started)
      BY <2>1, <2>2, <3>3 DEF Cast, Same
    <3>6. Supported(scenario.site, page, r2, db)
      BY <3>2, <3>3 DEF Supported, Same, Begun, Clicked
    <3>7. Snapshot(scenario.site, todo', r2)
      BY <1>0, <3>4 DEF Snapshot
    <3>8. r2.att \in {0, proc["bot"].att} /\ r2.pc # "consume"
      BY <3>3 DEF Same
    <3> QED BY <1>0, <3>3, <3>4, <3>5, <3>6, <3>7, <3>8, RunGoesOn
  <2> QED BY <2>1, <2>3, <2>4
<1> QED BY <1>1, <1>2

\* A top match is looked at once more, without an application.
LEMMA RecheckWithoutFormNoted ==
    ASSUME NoteInv, SettleInv, SettleInv', NEW id \in Ids, RecheckTopMatch(id), UNCHANGED <<db, started, faults>>,
           \E plan \in {<<>>, <<Do("count")>>} :
               proc' = [proc EXCEPT !["bot"] = IF plan = <<>> THEN @ ELSE [@ EXCEPT !.pc = "write", !.id = id, !.plan = plan]]
    PROVE  NoteInv'
<1> USE ListsOfTheRun, BotIs
<1>0. /\ scenario' = scenario /\ page' = page /\ db' = db /\ started' = started /\ faults' = faults
      /\ cleared' = cleared /\ overtaken' = overtaken /\ todo' \subseteq todo /\ Bot.pc = "next"
  BY DEF RecheckTopMatch, AtWork, env
<1>1. PICK plan \in {<<>>, <<Do("count")>>} :
          proc' = [proc EXCEPT !["bot"] = IF plan = <<>> THEN @ ELSE [@ EXCEPT !.pc = "write", !.id = id, !.plan = plan]]
  OBVIOUS
<1>2. Bot.mode \in RoleOf("bot") /\ (Bot.mode = "top" => scenario.site # "linkedin")
  BY <1>0 DEF Cast
<1>3. CASE plan = <<>>
  <2>1. proc' = proc
    BY <1>1, <1>3
  <2>2. Others("bot") /\ proc'["bot"] = Bot
    BY <2>1 DEF Others
  <2> QED BY <1>0, <1>2, <2>2, RestKeeps DEF AtRest, RoleOf
<1>4. CASE plan # <<>>
  <2> DEFINE r0 == [proc["bot"] EXCEPT !.pc = "write"]
  <2> DEFINE r1 == [r0 EXCEPT !.id = id]
  <2> DEFINE r2 == [r1 EXCEPT !.plan = plan]
  <2>1. proc' = [proc EXCEPT !["bot"] = r2] /\ "write" \in PCs /\ plan = <<Do("count")>>
    BY <1>1, <1>4 DEF PCs
  <2>2. plan \in Seq(Plain \cup Ends(Outcomes)) /\ Len(plan) = 1 /\ plan[1] = Do("count") /\ Do("count") \notin Closing
    <3>1. Do("count") \in Plain
      BY PlainStatements
    <3>2. <<Do("count")>> \in Seq(Plain)
      BY <3>1, Tuples
    <3> QED BY <2>1, <3>2, SeqMonotone, OtherNeeds
  <2>3. r0 \in Processes /\ r0.pc = "write" /\ r0.mode = Bot.mode /\ r0.att = Bot.att
    BY <2>1, NewPc DEF Processes
  <2> HIDE DEF r0
  <2>4. r1 \in Processes /\ r1.pc = "write" /\ r1.mode = Bot.mode /\ r1.att = Bot.att /\ r1.id = id
    BY <2>3, NewId DEF Processes
  <2> HIDE DEF r1
  <2>5. r2.pc = "write" /\ r2.plan = plan /\ r2.mode = Bot.mode /\ r2.att = Bot.att /\ r2.id = id
    BY <2>2, <2>4 DEF Processes
  <2> HIDE DEF r2
  <2>6. Others("bot") /\ proc'["bot"] = r2
    BY <2>1
  <2>7. ~Open(r2)
    <3>1. \A k \in 1..Len(plan) : plan[k] \notin Closing
      BY <2>2
    <3> QED BY <2>5, <3>1 DEF Open, Begun, Clicked
  <2>8. Cast(scenario.site, "bot", r2, started)
    BY <1>0, <1>2, <2>5 DEF Cast
  <2>9. Supported(scenario.site, page, r2, db)
    <3>1. PICK a, f : a \in Adds /\ f \in Closing
      <4>1. Skip("rejected") \in Final
        BY PlainStatements, FinalStatements DEF Reasons
      <4>2. Skip("rejected") \in Adds
        BY <4>1, Ops DEF Adds
      <4>3. F("other") \in Closing
        BY ClosingStatements DEF Outcomes
      <4> QED BY <4>2, <4>3
    <3>2. Backed(scenario.site, page, r2.mode, r2.id, plan, db)
      BY <2>1, <3>1, PairsBacked
    <3> QED BY <2>5, <3>2 DEF Supported, Begun, Clicked
  <2>10. Snapshot(scenario.site, todo', r2)
    BY <1>0, <2>7 DEF Snapshot
  <2> QED BY <1>0, <2>5, <2>6, <2>7, <2>8, <2>9, <2>10, RunGoesOn
<1> QED BY <1>3, <1>4

\* A retry is done: read, and then deleted.
LEMMA RetryDoneNoted ==
    ASSUME NoteInv, SettleInv, SettleInv', RetryDone
    PROVE  NoteInv'
<1> USE ListsOfTheRun, BotIs, BotIsAProcess
<1>0. /\ scenario' = scenario /\ page' = page /\ db' = db /\ started' = started /\ faults' = faults
      /\ cleared' = cleared /\ overtaken' = overtaken /\ todo' = todo /\ Bot.pc = "done"
  BY Zenon DEF RetryDone, Still, env
<1>1. CASE proc' = [proc EXCEPT !["bot"] = [Idle EXCEPT !.pc = "next", !.mode = "queue"]]
  <2> DEFINE r2 == [Idle EXCEPT !.pc = "next", !.mode = "queue"]
  <2>1. r2.pc = "next" /\ r2.mode = "queue" /\ r2.att = 0
    BY QueueMode
  <2>2. proc' = [proc EXCEPT !["bot"] = r2]
    BY <1>1
  <2> HIDE DEF r2
  <2>3. Others("bot") /\ proc'["bot"] = r2
    BY <2>2
  <2> QED BY <1>0, <2>1, <2>3, RestKeeps DEF AtRest, RoleOf
<1>2. CASE Goto("bot", "consume") /\ InTables(db, Bot.id)
  <2>1. Others("bot") /\ proc'["bot"].pc = "consume" /\ Same(Bot, proc'["bot"])
    BY <1>2, GotoIs
  <2>2. ~Open(proc'["bot"]) /\ \A site, pg, d : Supported(site, pg, proc'["bot"], d)
    BY <2>1, AtEase DEF Begun, Clicked
  <2>3. Cast(scenario.site, "bot", proc'["bot"], started)
    BY <1>0, <2>1 DEF Cast, Same
  <2>4. Snapshot(scenario.site, todo', proc'["bot"])
    BY <1>0, <2>2 DEF Snapshot
  <2>5. proc'["bot"].att \in {0, proc["bot"].att} /\ proc'["bot"].id = Bot.id
    BY <2>1 DEF Same
  <2> QED BY <1>0, <1>2, <2>1, <2>2, <2>3, <2>4, <2>5, RunGoesOn
<1>3. Goto("bot", "consume") => InTables(db, Bot.id)
  <2>1. ASSUME Goto("bot", "consume")
        PROVE  (\E i \in db.applied : i = Bot.id \/ LinkOf(i) = LinkOf(Bot.id)) \/ db.skipped[Bot.id] # "no" \/ InReview(db, Bot.id)
    <3>1. proc'["bot"].pc = "consume"
      BY <2>1, GotoIs
    <3>2. proc' # [proc EXCEPT !["bot"] = [Idle EXCEPT !.pc = "next", !.mode = "queue"]]
      BY <3>1, QueueMode
    <3> QED BY <3>2, Zenon DEF RetryDone
  <2> QED BY <2>1 DEF InTables, Recorded
<1> QED BY <1>1, <1>2, <1>3, Zenon DEF RetryDone

\* A retry is consumed: the record that was read is still there.
LEMMA ConsumeNoted ==
    ASSUME NoteInv, SettleInv, SettleInv', Consume
    PROVE  NoteInv'
<1> USE ListsOfTheRun, BotIs, BotIsAProcess
<1> DEFINE i == Bot.id
<1> DEFINE r2 == [Idle EXCEPT !.pc = "next", !.mode = "queue"]
<1>0. /\ scenario' = scenario /\ page' = page /\ started' = started
      /\ cleared' = cleared /\ overtaken' = overtaken /\ todo' = todo /\ Bot.pc = "consume"
      /\ \/ db' = ConsumeRetry(db, i) /\ faults' = faults
         \/ db' = db /\ faults' = faults + 1
      /\ proc' = [proc EXCEPT !["bot"] = r2]
  BY DEF Consume, Fault, AtWork, env
<1>1. r2.pc = "next" /\ r2.mode = "queue" /\ r2.att = 0
  BY QueueMode
<1> HIDE DEF r2
<1>2. Others("bot") /\ proc'["bot"] = r2
  BY <1>0
<1>3. SoundDB(db) /\ Listable(db) /\ faults \in Nat /\ started \in Nat /\ i \in Ids
  BY DEF SettleInv, NoteInv, Processes
<1> HIDE DEF i
<1>4. /\ Listable(db') /\ db'.attempts = db.attempts
      /\ db'.applied = db.applied /\ db'.skipped = db.skipped /\ db'.pending = db.pending
      /\ \A j \in Ids : j # i => db'.queue[j] = db.queue[j]
  BY <1>0, <1>3 DEF SoundDB, Listable, ConsumeRetry, RemoveFromQueue
<1>5. /\ \A j \in Ids : (Recorded(db, j) <=> Recorded(db', j)) /\ (InReview(db, j) <=> InReview(db', j))
      /\ Unknown(db) <=> Unknown(db')
  BY <1>4 DEF Recorded, InReview, Unknown
<1>6. \A j \in Ids : InTables(db, j) <=> InTables(db', j)
  BY <1>5 DEF InTables
<1>7. InTables(db, i) => \A j \in Ids : Kept(db, j) => Kept(db', j)
  <2>1. \A j \in Ids : j # i /\ Kept(db, j) => Kept(db', j)
    BY <1>4, <1>5 DEF Kept, Filed
  <2>2. InTables(db', i) => Kept(db', i)
    BY DEF InTables, Kept, Filed
  <2> QED BY <1>3, <1>6, <2>1, <2>2
<1>8. Orderly' => Orderly /\ db' = ConsumeRetry(db, i)
  BY <1>0, <1>3 DEF Orderly
<1>9. ~Open(r2) /\ \A site, pg, d : Supported(site, pg, r2, d)
  BY <1>1, AtEase DEF Begun, Clicked
<1>10. Cast(scenario.site, "bot", r2, started) /\ Snapshot(scenario.site, todo, r2)
  BY <1>1, <1>3, <1>9 DEF Cast, RoleOf, Snapshot
<1>11. ASSUME Orderly'
       PROVE  /\ Promised(scenario.site, page', r2, db') /\ Untouched("bot", db')
              /\ Leaves("bot", scenario.site, db, db', todo, todo')
  <2>1. Orderly /\ InTables(db, i)
    BY <1>0, <1>8, <1>11 DEF NoteInv, Promises, i
  <2>2. \A x \in todo : Kept(db', x[1])
    BY <1>7, <2>1
  <2>3. Loose(scenario.site, db, db')
    BY <1>4, <1>5, <1>6, <1>7, <2>1 DEF Loose
  <2> QED BY <1>0, <1>4, <1>9, <2>2, <2>3 DEF Promised, Untouched, Leaves
<1>12. \A a \in Attempts : a > started' => ~db'.attempts[a].row
  BY <1>0, <1>4 DEF NoteInv
<1> QED BY <1>0, <1>1, <1>2, <1>4, <1>8, <1>10, <1>11, <1>12, StepKeeps

\* The run begins an attempt: on a posting that is listed, unless the search found it.
LEMMA SubmitNoted ==
    ASSUME NoteInv, SettleInv, SettleInv', Submit
    PROVE  NoteInv'
<1> USE ListsOfTheRun, BotIsAProcess
<1> DEFINE m == Bot.mode
<1> DEFINE i == Bot.id
<1>1. /\ Begin("bot", m, i, {i}, "open") /\ Bot.pc = "looked"
      /\ scenario' = scenario /\ page' = page /\ cleared' = cleared /\ overtaken' = overtaken /\ todo' = todo
  BY DEF Submit, AtWork, env
<1>2. m \in {"search", "retry"} /\ m \in ApplyModes \cup {"top"} /\ i \in Ids /\ m \in RoleOf("bot")
  BY <1>1 DEF Planned, Processes, ApplyModes, Cast
<1>3. Orderly => Holds(Stands(scenario.site, m), db, i)
  BY <1>1 DEF Supported
<1> HIDE DEF m, i
<1>4. Starts("bot", m, i, {i})
  BY <1>1, <1>2, <1>3 DEF Starts
<1> QED BY <1>1, <1>2, <1>4, BeginsKeep

\* A queued application begins.
LEMMA SubmitQueuedNoted ==
    ASSUME NoteInv, SettleInv, SettleInv', NEW id \in Ids, SubmitQueued(id)
    PROVE  NoteInv'
<1> USE ListsOfTheRun, BotIsAProcess
<1>1. /\ Begin("bot", "queue", id, {id}, "open") /\ todo' = todo \ {<<id, "apply">>} /\ <<id, "apply">> \in todo
      /\ scenario' = scenario /\ page' = page /\ cleared' = cleared /\ overtaken' = overtaken
  BY DEF SubmitQueued, AtWork, env
<1>2. Orderly => Holds(Stands(scenario.site, "queue"), db, id)
  <2>1. Orderly => Kept(db, id)
    BY <1>1
  <2> QED BY <2>1 DEF Stands, Holds
<1>3. \A k \in Kinds : <<id, k>> \notin todo'
  <2>1. \A k \in Kinds : <<id, k>> \in todo => k = "apply"
    BY <1>1 DEF Kinds
  <2> QED BY <1>1, <2>1
<1>4. Starts("bot", "queue", id, {id})
  BY <1>1, <1>2, <1>3 DEF Starts, RoleOf
<1> QED BY <1>1, <1>4, BeginsKeep DEF ApplyModes

\* A Top Match is tried again.
LEMMA RecheckNoted ==
    ASSUME NoteInv, SettleInv, SettleInv', NEW id \in Ids, RecheckTopMatch(id)
    PROVE  NoteInv'
<1> USE ListsOfTheRun, BotIsAProcess
<1>1. CASE Begin("bot", "top", id, {id}, "open")
  <2>1. /\ todo' = todo \ {<<id, "top">>} /\ <<id, "top">> \in todo
        /\ scenario' = scenario /\ page' = page /\ cleared' = cleared /\ overtaken' = overtaken
    BY DEF RecheckTopMatch, AtWork, env
  <2>2. Orderly => Holds(Stands(scenario.site, "top"), db, id)
    <3>1. Orderly => Kept(db, id)
      BY <2>1
    <3> QED BY <3>1 DEF Stands, Holds
  <2>3. scenario.site # "linkedin"
    BY <2>1
  <2>4. Starts("bot", "top", id, {id})
    BY <2>1, <2>2, <2>3 DEF Starts, RoleOf
  <2> QED BY <1>1, <2>1, <2>4, BeginsKeep
<1>2. CASE ~Begin("bot", "top", id, {id}, "open")
  BY <1>2, RecheckWithoutFormNoted, Zenon DEF RecheckTopMatch
<1> QED BY <1>1, <1>2

\* What p can count on while it works, and the closing statement of an early end.
LEMMA EarlyClosings ==
    /\ F("other") \in Closing /\ NoJob("other") \in Closing
    /\ {Skip("retryable"), Skip("rejected"), Failure("retryable")} \subseteq Lasting
    /\ Pend(FALSE) \in Adds /\ Lasting \subseteq Adds
<1>1. {Skip("retryable"), Skip("rejected"), Failure("retryable")} \subseteq Final /\ Pend(FALSE) \in Final
  BY PlainStatements, FinalStatements DEF Reasons
<1>2. /\ Skip("rejected").op = "skip" /\ Skip("retryable").op = "skip" /\ Failure("retryable").op = "failure"
      /\ Pend(FALSE).op = "pend"
  BY Ops
<1>3. F("other") \in Closing /\ NoJob("other") \in Closing
  BY ClosingStatements DEF Outcomes
<1>4. Pend(FALSE) \in Adds
  BY <1>1, <1>2 DEF Adds
<1>5. {Skip("retryable"), Skip("rejected"), Failure("retryable")} \subseteq Lasting
  BY <1>1, <1>2 DEF Lasting
<1> QED BY <1>3, <1>4, <1>5, AddsGive

\* p goes on with its attempt, or records its end.
Proceeds(p, pc2) == Goto(p, pc2) /\ pc2 \in Begun /\ (pc2 = "check" => LinkedIn)
Enters(p, plan) ==
    /\ Result(p, plan) /\ plan \in FinalPlans
    /\ Orderly => Backed(scenario.site, page, proc[p].mode, proc[p].id, plan, db)
Quiescent ==
    /\ scenario' = scenario /\ page' = page /\ db' = db /\ todo' = todo /\ started' = started /\ faults' = faults
    /\ cleared' = cleared /\ overtaken' = overtaken

\* A goroutine on its way to the form.
LEMMA PreparingKeeps ==
    ASSUME NoteInv, SettleInv, SettleInv', NEW p \in Procs, proc[p].pc \in Begun, Quiescent,
           (\E pc2 : Proceeds(p, pc2)) \/ \E plan : Enters(p, plan)
    PROVE  NoteInv'
<1>1. ASSUME NEW pc2, Proceeds(p, pc2)  PROVE NoteInv'
  <2>1. pc2 \in Begun /\ pc2 # "reconfirm" /\ (pc2 = "check" => scenario.site = "linkedin") /\ Goto(p, pc2)
    BY <1>1 DEF Proceeds, LinkedIn, Begun
  <2> QED BY <2>1, GoesOnKeeps DEF Quiescent
<1>2. ASSUME NEW plan, Enters(p, plan)  PROVE NoteInv'
  <2>1. plan \in Seq(Final) /\ plan # <<>>
    BY <1>2, FinalTail DEF FinalPlans, Enters
  <2> QED BY <1>2, <2>1, RecordsKeep DEF Quiescent, Enters
<1> QED BY <1>1, <1>2

\* The page of the posting opens or not.
LEMMA OpenPageNoted ==
    ASSUME NoteInv, SettleInv, SettleInv', OpenPage
    PROVE  NoteInv'
<1>1. /\ Bot.pc = "open" /\ proc["bot"] = Bot /\ "bot" \in Procs /\ Bot.pc \in Begun /\ Quiescent
  BY BotIsAProcess DEF OpenPage, Still, env, Begun, Bot, Quiescent
<1>2. Orderly => Holds(Stands(scenario.site, Bot.mode), db, Bot.id)
  BY <1>1, ModesOfWork
<1>3. \A a \in Adds, f \in Closing :
          /\ Backed(scenario.site, page, Bot.mode, Bot.id, <<a, f>>, db)
          /\ Orderly => Backed(scenario.site, page, Bot.mode, Bot.id, <<f>>, db)
          /\ Bot.mode = "top" /\ a \in Lasting
                => Backed(scenario.site, page, Bot.mode, Bot.id, <<a, f, Do("unpend")>>, db)
  BY <1>2, PairsBacked, TriplesBacked
<1>4. CASE Result("bot", <<F("other")>>)
  <2>1. Enters("bot", <<F("other")>>)
    BY <1>1, <1>3, <1>4, EarlyEnds, EarlyClosings DEF Enters
  <2> QED BY <1>1, <2>1, PreparingKeeps
<1>5. CASE Result("bot", <<Skip("retryable"), F("other")>> \o (IF Bot.mode = "top" THEN <<Do("unpend")>> ELSE <<>>))
  <2> DEFINE a == Skip("retryable")
  <2> DEFINE f == F("other")
  <2> DEFINE u == Do("unpend")
  <2>0. a \in Adds /\ a \in Lasting /\ f \in Closing
    BY EarlyClosings
  <2>1. <<a, f>> \o <<u>> \in FinalPlans /\ <<a, f>> \o <<>> \in FinalPlans
    BY EarlyEnds
  <2>2. Bot.mode = "top" => Result("bot", <<a, f>> \o <<u>>)
    BY <1>5
  <2>3. Bot.mode # "top" => Result("bot", <<a, f>> \o <<>>)
    BY <1>5
  <2>4. /\ Bot.mode = "top" => Backed(scenario.site, page, Bot.mode, Bot.id, <<a, f, u>>, db)
        /\ Backed(scenario.site, page, Bot.mode, Bot.id, <<a, f>>, db)
    BY <1>3, <2>0
  <2> HIDE DEF a, f, u
  <2>5. <<a, f>> \o <<u>> = <<a, f, u>>
    BY Joins
  <2>6. <<a, f>> \o <<>> = <<a, f>>
    BY Joins
  <2>7. \E plan : Enters("bot", plan)
    BY <1>1, <2>1, <2>2, <2>3, <2>4, <2>5, <2>6 DEF Enters
  <2> QED BY <1>1, <2>7, PreparingKeeps
<1>6. CASE Goto("bot", Applying)
  <2>1. Proceeds("bot", Applying)
    BY <1>6 DEF Proceeds, Applying, Begun
  <2> QED BY <1>1, <2>1, PreparingKeeps
<1> QED BY <1>4, <1>5, <1>6 DEF OpenPage

\* Every step of the run.
LEMMA RunKeeps ==
    ASSUME NoteInv, SettleInv, SettleInv', BotStep
    PROVE  NoteInv'
BY PhasesNoted, RetryNoted, SearchNoted, RetryDoneNoted, ConsumeNoted, SubmitNoted,
   SubmitQueuedNoted, RecheckNoted, OpenPageNoted
   DEF BotStep

-----------------------------------------------------------------------------
(* Approvals, applications from an address, and rejections. *)

\* An approval begins, and opens the page.
LEMMA ApprovalKeeps ==
    ASSUME NoteInv, SettleInv, SettleInv', OpenApproved \/ \E id \in Ids : Approve(id)
    PROVE  NoteInv'
<1> DEFINE p == "approver"
<1> USE BotIsAProcess
<1>1. ASSUME NEW id \in Ids, Approve(id)  PROVE NoteInv'
  <2>1. /\ Begin(p, "approve", id, {id}, "open") /\ InReview(db, id) /\ todo' = todo
        /\ scenario' = scenario /\ page' = page /\ cleared' = cleared /\ overtaken' = overtaken
    BY <1>1 DEF Approve, AtWork, env
  <2>2. Holds(Stands(scenario.site, "approve"), db, id)
    BY <2>1 DEF Stands, Holds, InTables, Kept
  <2>3. Starts(p, "approve", id, {id})
    BY <2>1, <2>2 DEF Starts, RoleOf
  <2>4. "approve" \in ApplyModes \cup {"top"} /\ p \in Procs
    BY DEF ApplyModes
  <2> HIDE DEF p
  <2> QED BY <2>1, <2>3, <2>4, BeginsKeep
<1>2. ASSUME OpenApproved  PROVE NoteInv'
  <2>1. proc[p].pc \in Begun /\ Quiescent /\ p \in Procs
    BY <1>2 DEF OpenApproved, Still, env, Begun, Quiescent
  <2>2. proc[p].mode = "approve" /\ (Orderly => Holds(Stands(scenario.site, "approve"), db, proc[p].id))
    <3>1. Cast(scenario.site, p, proc[p], started) /\ proc[p].pc # "idle"
          /\ (Orderly => Holds(Stands(scenario.site, proc[p].mode), db, proc[p].id))
      BY <2>1, ModesOfWork
    <3>2. proc[p].mode = "approve"
      BY <3>1 DEF Cast, RoleOf
    <3> QED BY <3>1, <3>2
  <2> DEFINE a == Skip("retryable")
  <2> DEFINE f == F("other")
  <2> DEFINE u == Do("unpend")
  <2>3. a \in Adds /\ a \in Lasting /\ f \in Closing
    BY EarlyClosings
  <2>4. <<f>> \in FinalPlans /\ <<a, u, f>> \in FinalPlans
    BY EarlyEnds
  <2>5. Result(p, <<f>>) \/ Result(p, <<a, u, f>>) \/ Goto(p, Applying)
    BY <1>2 DEF OpenApproved
  <2>6. /\ Orderly => Backed(scenario.site, page, proc[p].mode, proc[p].id, <<f>>, db)
        /\ Backed(scenario.site, page, proc[p].mode, proc[p].id, <<a, u, f>>, db)
    BY <2>2, <2>3, PairsBacked, TriplesBacked
  <2>7. Goto(p, Applying) => Proceeds(p, Applying)
    BY DEF Proceeds, Applying, Begun
  <2> HIDE DEF a, f, u, p
  <2>8. (\E pc2 : Proceeds(p, pc2)) \/ \E plan : Enters(p, plan)
    BY <2>4, <2>5, <2>6, <2>7 DEF Enters
  <2> QED BY <2>1, <2>8, PreparingKeeps
<1> QED BY <1>1, <1>2

\* Every step of an application from an address, up to the form.
LEMMA UrlKeeps ==
    ASSUME NoteInv, SettleInv, SettleInv', NEW u \in Urls, UrlStep(u)
    PROVE  NoteInv'
<1> DEFINE site == scenario.site
<1>0. u \in Procs /\ u # "bot" /\ u # "user" /\ RoleOf(u) = {"url"}
  BY UrlsAssumption DEF RoleOf, Procs
<1>1. CASE ApplyFromURL(u)
  <2> DEFINE id == started + 1
  <2>1. /\ Begin(u, "url", id, {}, "guard") /\ todo' = todo
        /\ scenario' = scenario /\ page' = page /\ cleared' = cleared /\ overtaken' = overtaken
    BY <1>1 DEF ApplyFromURL, AtWork, env
  <2>2. id \in Ids
    <3>1. scenario.attempts \in 1..MaxAttempts
      BY ScenariosAssumption DEF SettleInv
    <3>2. started \in Nat /\ MaxAttempts \in Nat /\ started < scenario.attempts
      BY <2>1, MaxAttemptsAssumption DEF Begin, SettleInv
    <3> QED BY <3>1, <3>2 DEF Ids
  <2> HIDE DEF id
  <2>3. Starts(u, "url", id, {})
    BY <1>0, <2>1 DEF Starts, Stands, Holds
  <2> QED BY <1>0, <2>1, <2>2, <2>3, BeginsKeep DEF ApplyModes
<1>2. ASSUME ~ApplyFromURL(u)  PROVE NoteInv'
  <2>1. proc[u].pc \in Begun /\ Quiescent /\ proc[u].pc \in {"guard", "fast", "open", "evaluate"}
    BY <1>2 DEF UrlStep, UrlGuard, UrlFast, UrlOpen, UrlEvaluate, Still, env, Begun, Quiescent
  <2>2. /\ proc[u].mode = "url" /\ Open(proc[u]) /\ Cast(site, u, proc[u], started)
    BY <1>0, <2>1, ModesOfWork DEF Cast
  <2>3. \A i : Holds(Stands(site, proc[u].mode), db, i)
    BY <2>2 DEF Stands, Holds
  <2> DEFINE k == NoJob("other")
  <2> DEFINE f == F("other")
  <2> DEFINE a1 == Do("applied")
  <2> DEFINE a2 == Do("unpendLink")
  <2> DEFINE Early == {<<k>>, <<>> \o <<k>>, <<a1, a2>> \o <<k>>, <<f>>,
                       <<Failure("retryable"), f>>, <<Skip("rejected"), f>>, <<Pend(FALSE), f>>}
  <2>4. k \in Closing /\ f \in Closing /\ Failure("retryable") \in Adds /\ Skip("rejected") \in Adds /\ Pend(FALSE) \in Adds
    BY EarlyClosings
  <2>5. /\ <<k>> \in FinalPlans /\ <<>> \o <<k>> \in FinalPlans /\ <<a1, a2>> \o <<k>> \in FinalPlans /\ <<f>> \in FinalPlans
        /\ <<Failure("retryable"), f>> \in FinalPlans /\ <<Skip("rejected"), f>> \in FinalPlans
        /\ <<Pend(FALSE), f>> \in FinalPlans
    BY EarlyEnds
  <2>6. \A i : /\ Backed(site, page, "url", i, <<k>>, db) /\ Backed(site, page, "url", i, <<f>>, db)
               /\ Backed(site, page, "url", i, <<Failure("retryable"), f>>, db)
               /\ Backed(site, page, "url", i, <<Skip("rejected"), f>>, db)
               /\ Backed(site, page, "url", i, <<Pend(FALSE), f>>, db)
    BY <2>2, <2>3, <2>4, PairsBacked
  <2>7. \A i : Backed(site, page, "url", i, <<a1, a2, k>>, db)
    BY <2>4, SiteIsOne, AppliedBacked DEF Modes
  <2>8. \/ \E plan \in {<<k>>, <<>> \o <<k>>, <<a1, a2>> \o <<k>>, <<f>>} : Result(u, plan)
        \/ Result(u, <<Failure("retryable"), f>>) \/ Result(u, <<Skip("rejected"), f>>) \/ Result(u, <<Pend(FALSE), f>>)
        \/ \E pc2 : Proceeds(u, pc2)
        \/ proc' = [proc EXCEPT ![u].pc = "write", ![u].id = Site, ![u].plan = <<Failure("retryable"), f>>]
    <3>1. Goto(u, "fast") \/ Goto(u, "open") \/ Goto(u, "evaluate") \/ Goto(u, Applying) => \E pc2 : Proceeds(u, pc2)
      BY DEF Proceeds, Applying, Begun
    <3>2. CASE UrlGuard(u)
      BY <3>1, <3>2 DEF UrlGuard
    <3>3. CASE UrlFast(u)
      BY <3>1, <3>3 DEF UrlFast
    <3>4. CASE UrlOpen(u)
      <4>1. CASE Result(u, (IF Tracked THEN <<>> ELSE <<a1, a2>>) \o <<k>>)
        <5>1. CASE Tracked
          BY <4>1, <5>1
        <5>2. CASE ~Tracked
          BY <4>1, <5>2
        <5> QED BY <5>1, <5>2
      <4> QED BY <3>1, <3>4, <4>1 DEF UrlOpen
    <3>5. CASE UrlEvaluate(u)
      BY <3>1, <3>5 DEF UrlEvaluate
    <3> QED BY <1>2, <3>2, <3>3, <3>4, <3>5 DEF UrlStep
  <2>9. CASE \E pc2 : Proceeds(u, pc2)
    BY <1>0, <2>1, <2>9, PreparingKeeps
  <2>10. CASE proc' = [proc EXCEPT ![u].pc = "write", ![u].id = Site, ![u].plan = <<Failure("retryable"), f>>]
    <3> DEFINE plan == <<Failure("retryable"), f>>
    <3> DEFINE r0 == [proc[u] EXCEPT !.pc = "write"]
    <3> DEFINE r1 == [r0 EXCEPT !.id = Site]
    <3> DEFINE r2 == [r1 EXCEPT !.plan = plan]
    <3>1. proc[u] \in Processes /\ proc \in [Procs -> Processes]
      BY <1>0 DEF SettleInv
    <3>2. "write" \in PCs /\ Site \in Ids /\ plan \in Seq(Plain \cup Ends(Outcomes))
      BY MaxAttemptsAssumption, EarlyPlans DEF PCs, Site, Ids
    <3>3. Backed(site, page, "url", Site, plan, db)
      BY <2>6
    <3> HIDE DEF plan
    <3>4. proc' = [proc EXCEPT ![u] = r2]
      BY <1>0, <2>10, <3>1 DEF plan
    <3>5. r0 \in Processes /\ r0.pc = "write" /\ r0.mode = "url" /\ r0.att = proc[u].att
      BY <2>2, <3>1, <3>2, NewPc DEF Processes
    <3> HIDE DEF r0
    <3>6. r1 \in Processes /\ r1.pc = "write" /\ r1.mode = "url" /\ r1.att = proc[u].att /\ r1.id = Site
      BY <3>2, <3>5, NewId DEF Processes
    <3> HIDE DEF r1
    <3>7. r2.pc = "write" /\ r2.mode = "url" /\ r2.att = proc[u].att /\ r2.id = Site /\ r2.plan = plan
      BY <3>2, <3>6 DEF Processes
    <3> HIDE DEF r2
    <3>8. Others(u) /\ proc'[u] = r2
      BY <1>0, <3>1, <3>4 DEF Others
    <3>9. Cast(site, u, r2, started)
      BY <1>0, <2>2, <3>7 DEF Cast
    <3>10. Open(r2) => Inherits(proc[u], r2)
      BY <2>2, <3>7 DEF Inherits
    <3>11. Supported(site, page, r2, db)
      BY <3>3, <3>7 DEF Supported, Begun, Clicked
    <3> QED BY <1>0, <2>1, <3>7, <3>8, <3>9, <3>10, <3>11, TablesStay DEF Quiescent
  <2>11. ASSUME NEW plan, Result(u, plan), plan \in FinalPlans, Backed(site, page, "url", proc[u].id, plan, db)
         PROVE  NoteInv'
    <3>1. Enters(u, plan)
      BY <2>2, <2>11 DEF Enters
    <3> QED BY <1>0, <2>1, <3>1, PreparingKeeps
  <2>12. <<>> \o <<k>> = <<k>>
    <3> HIDE DEF k
    <3> QED BY Joins
  <2>13. <<a1, a2>> \o <<k>> = <<a1, a2, k>>
    <3> HIDE DEF k, a1, a2
    <3> QED BY Joins
  <2>14. /\ Backed(site, page, "url", proc[u].id, <<>> \o <<k>>, db)
         /\ Backed(site, page, "url", proc[u].id, <<a1, a2>> \o <<k>>, db)
    <3> HIDE DEF k, f, a1, a2
    <3> QED BY <2>6, <2>7, <2>12, <2>13
  <2>15. CASE \E plan \in {<<k>>, <<>> \o <<k>>, <<a1, a2>> \o <<k>>, <<f>>} : Result(u, plan)
    <3> HIDE DEF k, f, a1, a2
    <3> QED BY <2>5, <2>6, <2>11, <2>14, <2>15
  <2>16. CASE Result(u, <<Failure("retryable"), f>>) \/ Result(u, <<Skip("rejected"), f>>) \/ Result(u, <<Pend(FALSE), f>>)
    <3> DEFINE s1 == Failure("retryable")
    <3> DEFINE s2 == Skip("rejected")
    <3> DEFINE s3 == Pend(FALSE)
    <3>1. Result(u, <<s1, f>>) \/ Result(u, <<s2, f>>) \/ Result(u, <<s3, f>>)
      BY <2>16
    <3>2. /\ <<s1, f>> \in FinalPlans /\ Backed(site, page, "url", proc[u].id, <<s1, f>>, db)
          /\ <<s2, f>> \in FinalPlans /\ Backed(site, page, "url", proc[u].id, <<s2, f>>, db)
          /\ <<s3, f>> \in FinalPlans /\ Backed(site, page, "url", proc[u].id, <<s3, f>>, db)
      BY <2>5, <2>6, Zenon
    <3> HIDE DEF f, s1, s2, s3
    <3> QED BY <2>11, <3>1, <3>2
  <2> QED BY <2>8, <2>9, <2>10, <2>15, <2>16
<1> QED BY <1>1, <1>2

\* A rejection has its record before its review goes.
LEMMA RejectionKeeps ==
    ASSUME NoteInv, SettleInv, SettleInv', NEW id \in Ids, Reject(id)
    PROVE  NoteInv'
<1> DEFINE plan == <<Skip("rejected"), Do("unpend")>>
<1> DEFINE r0 == [Idle EXCEPT !.pc = "write"]
<1> DEFINE r1 == [r0 EXCEPT !.mode = "reject"]
<1> DEFINE r2 == [r1 EXCEPT !.id = id]
<1> DEFINE r3 == [r2 EXCEPT !.plan = plan]
<1>1. /\ proc' = [proc EXCEPT !["user"] = r3]
      /\ scenario' = scenario /\ page' = page /\ db' = db /\ todo' = todo /\ started' = started /\ faults' = faults
      /\ cleared' = cleared /\ overtaken' = overtaken
  BY DEF Reject, Aside, env
<1>2. plan \in {<<Skip("rejected"), Do("unpend")>>, <<Do("unpend")>>}
  BY Zenon
<1>3. Len(plan) = 2 /\ plan[1] = Skip("rejected") /\ plan[2] = Do("unpend")
  OBVIOUS
<1>4. Skip("rejected") \in Lasting /\ F("other") \in Closing /\ Skip("rejected") \in Adds
  BY EarlyClosings
<1>5. Backed(scenario.site, page, "reject", id, plan, db)
  BY <1>4, PairsBacked
<1> HIDE DEF plan
<1>6. \A k \in 1..Len(plan) : plan[k] \notin Closing
  <2>1. Skip("rejected") \notin Closing /\ Do("unpend") \notin Closing
    BY <1>4, AddsGive, OtherNeeds
  <2>2. \A k \in 1..Len(plan) : k = 1 \/ k = 2
    BY <1>3
  <2> QED BY <1>3, <2>1, <2>2
<1>7. r0 = [pc |-> "write", mode |-> "none", id |-> Site, att |-> 0, plan |-> <<>>]
  BY DEF Idle
<1> HIDE DEF r0
<1>8. r1 = [pc |-> "write", mode |-> "reject", id |-> Site, att |-> 0, plan |-> <<>>]
  BY <1>7
<1> HIDE DEF r1
<1>9. r2 = [pc |-> "write", mode |-> "reject", id |-> id, att |-> 0, plan |-> <<>>]
  BY <1>8
<1> HIDE DEF r2
<1>10. r3.pc = "write" /\ r3.mode = "reject" /\ r3.id = id /\ r3.att = 0 /\ r3.plan = plan
  BY <1>9
<1> HIDE DEF r3
<1>11. "user" \in Procs /\ Others("user") /\ proc'["user"] = r3
  BY <1>1, BotIsAProcess DEF Others, SettleInv
<1>12. ~Open(r3)
  BY <1>6, <1>10 DEF Open, Begun, Clicked
<1>13. Cast(scenario.site, "user", r3, started)
  <2>1. "reject" \in RoleOf("user") /\ 0 \in 0..started
    BY DEF RoleOf, SettleInv
  <2> QED BY <1>2, <1>10, <2>1 DEF Cast
<1>14. Supported(scenario.site, page, r3, db)
  BY <1>5, <1>10 DEF Supported, Begun, Clicked
<1> QED BY <1>1, <1>10, <1>11, <1>12, <1>13, <1>14, TablesStay

-----------------------------------------------------------------------------
(* Every step keeps the invariant, and none forgets the posting. *)

\* Every step keeps the invariant.
LEMMA NoteStep ==
    ASSUME NoteInv, SettleInv, SettleInv', [Next]_vars
    PROVE  NoteInv'
<1>1. CASE UNCHANGED vars
  <2>1. /\ proc' = proc /\ todo' = todo /\ started' = started /\ scenario' = scenario /\ page' = page
        /\ faults' = faults /\ db' = db /\ cleared' = cleared /\ overtaken' = overtaken
    BY <1>1 DEF vars
  <2>2. Handled /\ (Orderly' => Orderly) /\ Firm(scenario.site, db, db')
    BY <2>1, FirmItself DEF Handled, NoteInv, Orderly
  <2> QED BY <2>2, HandledKeeps
<1>2. ASSUME NEW p \in Procs, Applier(p)  PROVE NoteInv'
  <2>1. CASE Write(p)
    BY <2>1, StatementKeeps
  <2>2. CASE \/ Check(p) \/ Entry(p) \/ SilentSubmit(p) \/ MarkDispatch(p)
             \/ Click(p) \/ Confirm(p) \/ Reconfirm(p)
    BY <2>2, ApplyingKeeps
  <2> QED BY <1>2, <2>1, <2>2 DEF Applier
<1>3. CASE Handlers
  <2>1. PICK id \in Ids : \/ Approve(id) \/ Reject(id) \/ DeletePendingReview(id)
                          \/ MarkApplied(id) \/ RetryCannotApply(id) \/ LetGo(id)
    BY <1>3 DEF Handlers
  <2>2. CASE DeletePendingReview(id) \/ MarkApplied(id) \/ LetGo(id)
    BY <2>2, RemovalsKeep
  <2>3. CASE RetryCannotApply(id)
    BY <2>3, RequestKeeps
  <2>4. CASE Approve(id)
    BY <2>4, ApprovalKeeps
  <2>5. CASE Reject(id)
    BY <2>5, RejectionKeeps
  <2> QED BY <2>1, <2>2, <2>3, <2>4, <2>5
<1>4. ASSUME NEW u \in Urls, UrlStep(u)  PROVE NoteInv'
  BY <1>4, UrlKeeps
<1>5. CASE OpenApproved
  BY <1>5, ApprovalKeeps
<1>6. CASE BotStep
  BY <1>6, RunKeeps
<1>7. CASE SiteShowsApplied
  BY <1>7, PageKeeps
<1>8. CASE Crash
  BY <1>8, CrashIsNoted
<1> QED BY <1>1, <1>2, <1>3, <1>4, <1>5, <1>6, <1>7, <1>8 DEF Next

\* Which lists have the posting, by the rows of the tables.
LEMMA ListedIs ==
    \A d : Listable(d) => (Listed(d) <=> \E i \in Ids : InTables(d, i) \/ d.queue[i] # "no")
<1> SUFFICES ASSUME NEW d, Listable(d)
             PROVE  Listed(d) <=> \E i \in Ids : InTables(d, i) \/ d.queue[i] # "no"
  OBVIOUS
<1>1. \A i \in Ids : d.skipped[i] # "no" <=> i \in SkippedPage(d) \cup CannotApplyPage(d)
  BY DEF Listable, SkippedPage, CannotApplyPage, InCannotApply, Reasons
<1>2. \A i \in Ids : InReview(d, i) => i \in ReviewPage(d) \cup TopMatchesPage(d) \/ d.skipped[i] # "no"
  BY DEF ReviewPage, TopMatchesPage
<1>3. ReviewPage(d) \subseteq {i \in Ids : InReview(d, i)} /\ TopMatchesPage(d) \subseteq {i \in Ids : InReview(d, i)}
  BY DEF ReviewPage, TopMatchesPage
<1>4. SkippedPage(d) \subseteq Ids /\ CannotApplyPage(d) \subseteq Ids /\ Site \in Ids
  BY MaxAttemptsAssumption DEF SkippedPage, CannotApplyPage, Site, Ids
<1>5. ASSUME Listed(d)
      PROVE  \E i \in Ids : InTables(d, i) \/ d.queue[i] # "no"
  BY <1>1, <1>3, <1>4, <1>5 DEF Listed, AppliedPage, InTables, Recorded
<1>6. ASSUME NEW i \in Ids, InTables(d, i) \/ d.queue[i] # "no"
      PROVE  Listed(d)
  BY <1>1, <1>2, <1>6 DEF Listed, AppliedPage, InTables, Recorded
<1> QED BY <1>5, <1>6

\* What is kept is in some list, or its attempt is unresolved.
LEMMA KeptIsAccounted ==
    \A d, i : Listable(d) /\ i \in Ids /\ Kept(d, i) => Listed(d) \/ Unknown(d)
BY ListedIs DEF Kept, Filed, InTables

\* So is an attempt of unknown outcome.
LEMMA UnknownIsAccounted == \A d : Unknown(d) => Accounted(d)
BY DEF Unknown, Accounted, OpenAttempt, Unresolved

\* A statement of a result in an orderly run: what it needed, and what it leaves.
LEMMA StatementLeaves ==
    ASSUME NoteInv, SettleInv, Orderly, NEW p \in Procs, Write(p), db' # db
    PROVE  LET q == proc[p].plan
               s == Head(q)
           IN /\ s \in Final /\ Effect(s, db, db', proc[p].id, proc[p].att)
              /\ Holds(Wants(scenario.site, page, proc[p].mode, s, EndsAfter(q, 1)), db, proc[p].id)
              /\ Aftermath(scenario.site, page, proc[p].mode, s, EndsAfter(q, 1), proc[p].id, db, db')
              /\ proc'[p] # proc[p]
<1> DEFINE q == proc[p].plan
<1> DEFINE s == Head(q)
<1> DEFINE site == scenario.site
<1> DEFINE m == proc[p].mode
<1> DEFINE i == proc[p].id
<1> DEFINE a == proc[p].att
<1>1. /\ q # <<>> /\ q \in Seq(Final)
      /\ Tail(q) = <<>> => proc'[p] = Returned(p)
      /\ Tail(q) # <<>> => proc'[p].pc = "write" /\ proc'[p].plan = Tail(q)
  BY WrittenIs
<1>2. /\ proc[p].pc = "write" /\ proc[p] \in Processes /\ m \in Modes /\ i \in Ids /\ a \in 0..MaxAttempts
      /\ SoundDB(db) /\ Listable(db) /\ site \in {"linkedin", "seek"} /\ s \in Final
      /\ Cast(site, p, proc[p], started) /\ db' = Run(db, p, s)
  BY <1>1, SiteIsOne, FirstAndRest DEF SettleInv, NoteInv, Processes, Write
<1>3. Backed(site, page, m, i, q, db) /\ (Open(proc[p]) => Owns(proc[p], db))
  BY <1>2 DEF NoteInv, Promises, Supported
<1>4. Returned(p).pc # "write"
  BY <1>2, ReturnedIs
<1> HIDE DEF q, s, site, m, i, a
<1>5. Effect(s, db, db', i, a)
  BY <1>2, Effects DEF i, a
<1>6. EndsOpen(s, a, db)
  <2>1. SUFFICES ASSUME s.op \in {"finish", "finishNoJob"}
                 PROVE  a \in Attempts /\ db.attempts[a].outcome # "submission_unknown"
    BY DEF EndsOpen
  <2>2. s \in Closing
    BY <1>2, <2>1, ClosingStatements
  <2>3. Open(proc[p])
    BY <1>1, <1>2, <2>2, StillOpen DEF Open, q, s
  <2>4. a # 0 /\ db.attempts[a].outcome = "in_progress"
    BY <1>3, <2>3 DEF Owns, a
  <2> QED BY <1>2, <2>4, MaxAttemptsAssumption DEF Attempts
<1>7. Aftermath(site, page, m, s, EndsAfter(q, 1), i, db, db')
  <2>1. m = "top" => site # "linkedin"
    BY <1>2 DEF Cast, m
  <2> QED BY <1>1, <1>2, <1>3, <1>5, <1>6, <2>1, TailBacked DEF s
<1>8. Holds(Wants(site, page, m, s, EndsAfter(q, 1)), db, i)
  <2>1. s = q[1] /\ 1 \in 1..Len(q)
    BY <1>1, TailNeeds DEF s
  <2>2. Holds(Need(site, page, m, q, 1), db, i)
    BY <1>3, <2>1 DEF Backed
  <2> QED BY <2>1, <2>2 DEF Need
<1>9. proc'[p] # proc[p]
  <2>1. CASE Tail(q) = <<>>
    BY <1>1, <1>2, <1>4, <2>1
  <2>2. CASE Tail(q) # <<>>
    <3>1. Len(Tail(q)) # Len(q)
      BY <1>1, TailNeeds
    <3> QED BY <1>1, <2>2, <3>1 DEF q
  <2> QED BY <2>1, <2>2
<1> QED BY <1>2, <1>5, <1>7, <1>8, <1>9 DEF q, s, site, m, i, a

\* A statement that ends an attempt leaves the lists, and the log of the others.
LEMMA EndsOnlyItsOwn ==
    ASSUME NoteInv, SettleInv, NEW s \in Closing, NEW i, NEW a, Effect(s, db, db', i, a),
           Accounted(db), ~Accounted(db')
    PROVE  s.arg # "submission_unknown" \/ a \notin Attempts
<1>1. s.op \in {"finish", "finishNoJob"}
  BY ClosingStatements
<1>2. a \in Attempts => db'.attempts[a].row /\ db'.attempts[a].outcome = s.arg
  BY <1>1 DEF Effect
<1> QED BY <1>2, UnknownIsAccounted DEF Unknown

\* A statement drops only what no list had, or what the page says is applied to.
LEMMA StatementForgets ==
    ASSUME NoteInv, SettleInv, Orderly, NEW p \in Procs, Write(p), Accounted(db), ~Accounted(db')
    PROVE  Dropped \/ AlreadyApplied
<1> DEFINE s == Head(proc[p].plan)
<1> DEFINE open == EndsAfter(proc[p].plan, 1)
<1> DEFINE site == scenario.site
<1> DEFINE m == proc[p].mode
<1> DEFINE i == proc[p].id
<1> DEFINE a == proc[p].att
<1>1. db' # db
  OBVIOUS
<1>2. /\ s \in Final /\ Effect(s, db, db', i, a) /\ Holds(Wants(site, page, m, s, open), db, i)
      /\ Aftermath(site, page, m, s, open, i, db, db') /\ proc'[p] # proc[p]
  BY <1>1, StatementLeaves
<1>3. /\ i \in Ids /\ Listable(db) /\ Listable(db') /\ Cast(site, p, proc[p], started) /\ proc[p].pc = "write"
      /\ site \in {"linkedin", "seek"} /\ proc[p].plan # <<>> /\ proc[p].plan \in Seq(Final)
  BY <1>2, WrittenIs, SiteIsOne DEF SettleInv, NoteInv, Planned, Processes, Effect, Write
<1>4. m \in RoleOf(p) /\ (m \in {"queue", "top"} => p = "bot")
  BY <1>3 DEF Cast, RoleOf
<1> HIDE DEF s, open, site, m, i, a
<1>5. \A j \in Ids : ~Kept(db', j)
  BY <1>3, KeptIsAccounted, UnknownIsAccounted DEF Accounted
<1>6. FromQueue(site, page, m) => AlreadyApplied
  BY <1>2, <1>4 DEF FromQueue, AlreadyApplied, LinkedIn, Bot, site, m
<1>7. CASE ~Firm(site, db, db')
  BY <1>2, <1>3, <1>5, <1>6, <1>7 DEF Aftermath, Kept
<1>8. CASE Firm(site, db, db')
  <2>1. \A j \in Ids : ~Kept(db, j)
    BY <1>5, <1>8 DEF Firm
  <2>2. ~Listed(db) /\ ~Unknown(db)
    <3>1. ~Listed(db)
      BY <1>3, <2>1, ListedIs DEF Kept, Filed, InTables
    <3>2. Site \in Ids
      BY MaxAttemptsAssumption DEF Site, Ids
    <3> QED BY <2>1, <3>1, <3>2 DEF Kept, Filed
  <2>3. PICK b \in Attempts : db.attempts[b].row /\ db.attempts[b].outcome \in Unresolved
    BY <2>2 DEF Accounted, OpenAttempt
  <2>4. db'.attempts[b] # db.attempts[b]
    BY <2>3 DEF Accounted, OpenAttempt
  <2>5. s \in Closing /\ b = a
    <3>1. s.op \in {"finish", "finishNoJob"}
      BY <1>2, <2>4 DEF Effect
    <3> QED BY <1>2, <2>4, <3>1, ClosingStatements DEF Effect
  <2>6. s.op \in {"finish", "finishNoJob"} /\ s.arg # "submission_unknown"
    BY <1>2, <2>3, <2>5, ClosingStatements, EndsOnlyItsOwn
  <2>7. Wants(site, page, m, s, open) = EndWants(site, page, m, s)
    BY <2>6 DEF Wants
  <2>8. CASE FromQueue(site, page, m)
    BY <1>6, <2>8
  <2>9. CASE ~FromQueue(site, page, m)
    <3>1. Holds(Stands(site, m), db, i)
      BY <1>2, <2>6, <2>7, <2>9 DEF EndWants
    <3>2. m \notin {"retry", "queue", "top", "approve"}
      BY <1>3, <2>1, <3>1 DEF Stands, Holds, InTables, Kept, Filed
    <3>3. m # "reject"
      <4>1. SUFFICES ASSUME m = "reject"  PROVE FALSE
        OBVIOUS
      <4>2. p = "user"
        BY <1>4, <4>1 DEF RoleOf
      <4>3. proc[p].plan \in {<<Skip("rejected"), Do("unpend")>>, <<Do("unpend")>>}
        BY <1>3, <4>2 DEF Cast
      <4>4. s = Skip("rejected") \/ s = Do("unpend")
        BY <4>3 DEF s
      <4> QED BY <2>6, <4>4, Ops
    <3>4. m \in {"search", "url"}
      BY <1>4, <3>2, <3>3 DEF RoleOf
    <3> QED BY <1>2, <2>2, <3>4 DEF Dropped, m
  <2> QED BY <2>8, <2>9
<1> QED BY <1>7, <1>8

\* An attempt that begins is an unresolved one.
LEMMA BeginningIsAccounted ==
    ASSUME NoteInv, SettleInv, NEW p, NEW mode, NEW id, NEW job, NEW pc, Begin(p, mode, id, job, pc), Accounted(db)
    PROVE  Accounted(db')
<1>1. PICK link : db' = BeginAttempt(db, started + 1, job, link) \/ db' = db
  BY DEF Begin
<1>2. started + 1 \in Attempts
  <2>1. scenario.attempts \in 1..MaxAttempts
    BY ScenariosAssumption DEF SettleInv
  <2> QED BY <2>1, MaxAttemptsAssumption DEF Begin, SettleInv, Attempts
<1>3. CASE db' = BeginAttempt(db, started + 1, job, link)
  <2>1. db'.attempts[started + 1].row /\ db'.attempts[started + 1].outcome = "in_progress"
    BY <1>2, <1>3, BeginningKeeps
  <2> QED BY <1>2, <2>1 DEF Accounted, OpenAttempt, Unresolved
<1>4. CASE db' = db
  BY <1>4
<1> QED BY <1>1, <1>3, <1>4

\* The handlers, unless the user lets go.
LEMMA HandlersForgetNothing ==
    ASSUME NoteInv, SettleInv, NoteInv', NEW id \in Ids, ~cleared', Accounted(db),
           \/ Approve(id) \/ Reject(id) \/ DeletePendingReview(id)
           \/ MarkApplied(id) \/ RetryCannotApply(id) \/ LetGo(id)
    PROVE  Accounted(db')
<1>0. SoundDB(db) /\ Listable(db) /\ Listable(db')
  BY DEF SettleInv, NoteInv
<1>1. CASE Approve(id)
  BY <1>1, BeginningIsAccounted DEF Approve
<1>2. CASE Reject(id)
  BY <1>2 DEF Reject
<1>3. CASE DeletePendingReview(id)
  <2> DEFINE d1 == RemoveReview(db, id)
  <2>1. "skipped" \in DOMAIN d1 /\ d1.skipped = db.skipped
    BY <1>0 DEF RemoveReview, Listable
  <2> HIDE DEF d1
  <2>2. db' = RecordSkipped(d1, id, "rejected")
    BY <1>3 DEF DeletePendingReview, d1
  <2>3. db'.skipped[id] # "no"
    BY <1>0, <2>1, <2>2 DEF RecordSkipped, Listable
  <2> QED BY <1>0, <2>3, ListedIs DEF Accounted, InTables, Recorded
<1>4. CASE MarkApplied(id)
  <2> DEFINE d1 == RecordApplied(db, id)
  <2>1. {"applied", "skipped", "pending"} \subseteq DOMAIN d1 /\ id \in d1.applied
    BY <1>0 DEF RecordApplied, Listable
  <2> HIDE DEF d1
  <2>2. db' = RemoveReview(d1, id) \/ db' = [d1 EXCEPT !.skipped[id] = "no"]
    BY <1>4 DEF MarkApplied, d1
  <2>3. db'.applied # {}
    BY <2>1, <2>2 DEF RemoveReview
  <2> QED BY <2>3 DEF Accounted, Listed, AppliedPage
<1>5. CASE RetryCannotApply(id)
  <2>1. db' = [db EXCEPT !.queue[id] = "evaluate", !.skipped[id] = "no"]
    BY <1>5 DEF RetryCannotApply
  <2>2. db'.queue[id] = "evaluate"
    BY <1>0, <2>1 DEF SoundDB
  <2> QED BY <2>2 DEF Accounted, Listed
<1>6. CASE LetGo(id)
  BY <1>6 DEF LetGo
<1> QED BY <1>1, <1>2, <1>3, <1>4, <1>5, <1>6

\* The run, between its results.
LEMMA RunForgetsNothing ==
    ASSUME NoteInv, SettleInv, NoteInv', Orderly, BotStep, Accounted(db)
    PROVE  Accounted(db')
<1>1. CASE Consume
  <2>1. db' = ConsumeRetry(db, Bot.id) \/ db' = db
    BY <1>1 DEF Consume
  <2>2. InTables(db, Bot.id) /\ Bot.id \in Ids /\ SoundDB(db) /\ Listable(db) /\ Listable(db')
    BY <1>1, BotIsAProcess DEF Consume, NoteInv, SettleInv, Promises, Planned, Processes, Bot
  <2>3. db'.applied = db.applied /\ db'.skipped = db.skipped /\ db'.pending = db.pending
    BY <2>1, <2>2 DEF ConsumeRetry, RemoveFromQueue, SoundDB, Listable
  <2>4. InTables(db', Bot.id)
    BY <2>2, <2>3 DEF InTables, Recorded, InReview
  <2> QED BY <2>2, <2>4, ListedIs DEF Accounted
<1>2. CASE Submit
  BY <1>2, BeginningIsAccounted DEF Submit
<1>3. ASSUME NEW id \in Ids, SubmitQueued(id) \/ RetryEvaluation(id) \/ RecheckTopMatch(id)
      PROVE  Accounted(db')
  <2>1. CASE SubmitQueued(id)
    BY <2>1, BeginningIsAccounted DEF SubmitQueued
  <2>2. CASE RetryEvaluation(id)
    BY <2>2, Zenon DEF RetryEvaluation
  <2>3. CASE RecheckTopMatch(id)
    BY <2>3, BeginningIsAccounted DEF RecheckTopMatch
  <2> QED BY <1>3, <2>1, <2>2, <2>3
<1>4. CASE BotStart \/ BotEnds \/ NextPhase
  BY <1>4 DEF BotStart, BotEnds, NextPhase
<1>5. CASE Search \/ Judge \/ OpenPage \/ RetryDone
  BY <1>5, Zenon DEF Search, Judge, OpenPage, RetryDone, Still
<1> QED BY <1>1, <1>2, <1>3, <1>4, <1>5 DEF BotStep

\* No step of an orderly behaviour forgets the posting.
LEMMA NothingIsForgotten ==
    ASSUME NoteInv, SettleInv, NoteInv', [Next]_vars, Accounted(db), ~Accounted(db'),
           ~cleared, ~cleared', ~(faults > 0), ~overtaken
    PROVE  Dropped \/ AlreadyApplied
<1>1. Orderly
  <2>1. faults \in Nat
    BY DEF SettleInv
  <2> QED BY <2>1 DEF Orderly
<1>2. db' # db
  OBVIOUS
<1>3. ~UNCHANGED vars /\ ~SiteShowsApplied /\ ~Crash /\ ~OpenApproved
  BY <1>2 DEF vars, SiteShowsApplied, Crash, OpenApproved, Still
<1>4. ~BotStep
  BY <1>1, RunForgetsNothing
<1>5. ~Handlers
  BY HandlersForgetNothing DEF Handlers
<1>6. ASSUME NEW u \in Urls  PROVE ~UrlStep(u)
  <2>1. ~ApplyFromURL(u)
    BY BeginningIsAccounted DEF ApplyFromURL
  <2>2. UrlGuard(u) \/ UrlFast(u) \/ UrlOpen(u) \/ UrlEvaluate(u) => db' = db
    BY DEF UrlGuard, UrlFast, UrlOpen, UrlEvaluate, Still
  <2> QED BY <1>2, <2>1, <2>2 DEF UrlStep
<1>7. PICK p \in Procs : Applier(p)
  BY <1>3, <1>4, <1>5, <1>6 DEF Next
<1>8. Write(p)
  <2>1. Check(p) \/ Entry(p) \/ SilentSubmit(p) \/ Click(p) \/ Confirm(p) \/ Reconfirm(p) => db' = db
    BY DEF Check, Entry, SilentSubmit, Click, Confirm, Reconfirm, Still
  <2>2. MarkDispatch(p) => db' = db
    BY DEF MarkDispatch
  <2> QED BY <1>2, <1>7, <2>1, <2>2 DEF Applier
<1> QED BY <1>1, <1>8, StatementForgets

\* Whatever list or attempt had the posting, some list or attempt has it after every step,
\* on either site, for any number of attempts, requests and handlers in any order, unless
\* the user let go of it, a statement failed or a retry overtook a record that another
\* request relied on (the order of the statements in processApprovedQueue, runSubmit,
\* submitSeekApplication, ApplyFromURL, processEvaluationRetry and the review handlers).
THEOREM NoPostingIsForgotten == Spec => NothingForgotten
<1> DEFINE Excused == cleared \/ cleared' \/ faults > 0 \/ overtaken \/ Dropped \/ AlreadyApplied
<1> DEFINE Inv == SettleInv /\ NoteInv
<1>1. Init => Inv
  BY SettleInit, NoteInit
<1>2. Inv /\ [Next]_vars => Inv'
  BY SettleStep, NoteStep
<1>3. Inv /\ Inv' /\ [Next]_vars => [Accounted(db) /\ ~Accounted(db') => Excused]_vars
  BY NothingIsForgotten
<1> QED BY <1>1, <1>2, <1>3, PTL DEF Spec, NothingForgotten
=============================================================================
