------------------------------ MODULE Retention ------------------------------
(***************************************************************************)
(* The documents of one user's applications and their clean-up             *)
(* (internal/retention), with the submissions, document writes and HTTP    *)
(* handlers that change the same rows and files.  A step is one SQL        *)
(* statement or transaction, one file or blob operation, or one critical   *)
(* section of the coordinator.                                             *)
(*                                                                         *)
(* An application has one document here: the résumé and the cover letter   *)
(* go through the same code, each with its own path and version.  A path   *)
(* belongs to one job (exports are written under the job's directory), so  *)
(* "the file of j" stands for it.                                          *)
(***************************************************************************)
EXTENDS ActivityCoordinator, Sequences

CONSTANTS Jobs,
          Versions,      \* document content versions that may come to be
          Artifact,      \* the stored PDF of a version; equal bytes share one
          NoVersion,
          Limits,        \* values of the retention policy
          MaxPasses,     \* maxReconcilePasses
          MaxRequests,   \* bound: task operations and handler calls
          MaxReconciles, \* bound: clean-ups started
          MaxFaults,     \* bound: statements or file operations that fail
          MaxRestarts    \* bound: process restarts

ASSUME RetentionAssumption ==
    /\ Jobs # {} /\ Versions # {}
    /\ NoVersion \notin Versions
    /\ Limits \subseteq Nat
    /\ MaxPasses \in Nat \ {0}

VARIABLES applied,     \* jobs_applied, newest first
          pending,     \* jobs_pending_review: a function on the jobs listed
          default,     \* user_document_defaults
          versions,    \* document_content_versions
          linked,      \* versions with a row in document_version_artifact_refs
          ready,       \* versions that are reconstructible
          evictedAt,   \* document_render_artifacts with evicted_at set
          files,       \* the jobs whose exported file exists
          blobs,       \* stored artifacts
          limit,       \* document_retention_defaults
          task,        \* what each task is doing
          run,         \* what each evictor is doing
          requests, reconciles, faults, restarts

storage == <<applied, pending, default, versions, linked, ready, evictedAt,
             files, blobs>>
counters == <<requests, reconciles, faults, restarts>>
retentionVars == <<coordinatorVars, storage, limit, task, run, counters>>

(* What a row says of its document: whether a path is recorded, and the    *)
(* version it was made from.                                               *)
Doc == [path : BOOLEAN, ver : Versions \union {NoVersion}]
NoDoc == [path |-> FALSE, ver |-> NoVersion]

AppliedJobs == {applied[i].job : i \in DOMAIN applied}

(* Rows are kept in the order of applied_at; an insert is the newest, and  *)
(* INSERT OR IGNORE leaves a row that is there alone.                      *)
InsertApplied(j, d) ==
    IF j \in AppliedJobs THEN applied
    ELSE <<[job |-> j, doc |-> d]>> \o applied

DeletePending(j) == [k \in DOMAIN pending \ {j} |-> pending[k]]
PutPending(j, d) == [k \in DOMAIN pending \union {j} |->
                        IF k = j THEN d ELSE pending[k]]

Fail == /\ faults < MaxFaults
        /\ faults' = faults + 1
NoFail == UNCHANGED faults

Requested == /\ requests < MaxRequests
             /\ requests' = requests + 1

(* The stored bytes of a version can be had: from its blob or by rendering *)
(* it again.                                                               *)
Readable(v) == v \in ready \/ (v \in linked /\ Artifact[v] \in blobs)
-----------------------------------------------------------------------------
(* Tasks: submissions, preparation for review, and document writes.        *)

(* fresh: the version was rendered by this task; hold: the documents could *)
(* not be made, and the form is not submitted.                             *)
Idle == [pc |-> "idle", op |-> "none", job |-> CHOOSE j \in Jobs : TRUE,
         doc |-> NoDoc, fresh |-> FALSE, hold |-> FALSE]

Become(t, r) == task' = [task EXCEPT ![t] = r]

OnHold(t) == Become(t, [task[t] EXCEPT !.pc = "unnest", !.doc = NoDoc,
                                       !.fresh = FALSE, !.hold = TRUE])

Goto(t, pc) == Become(t, [task[t] EXCEPT !.pc = pc])

(* The request is read before the guard is asked for: an approval submits  *)
(* the documents frozen in it, a preparation makes them.                   *)
Request(t, op, j, d) ==
    /\ task[t].pc = "idle"
    /\ CallBeginWork(t)
    /\ Become(t, [Idle EXCEPT !.pc = "enter", !.op = op, !.job = j, !.doc = d])
    /\ Requested
    /\ UNCHANGED <<storage, limit, run, reconciles, faults, restarts>>

(* ReadyForSubmit: the pack has its file, or uses what the job site has. *)
Approve(t) == \E j \in DOMAIN pending :
    /\ pending[j].path \/ pending[j] = NoDoc
    /\ Request(t, "approve", j, pending[j])

Prepare(t) == \E j \in DOMAIN pending :
    Request(t, "prepare", j, [path |-> FALSE, ver |-> pending[j].ver])

(* The bot applies to a job it has not seen in either table. *)
AutoApply(t) == \E j \in Jobs \ (AppliedJobs \union DOMAIN pending) :
    Request(t, "auto", j, NoDoc)

SetDefault(t) == \E v \in linked :
    Request(t, "default", Idle.job, [path |-> FALSE, ver |-> v])

Entered(t) ==
    /\ task[t].pc = "enter"
    /\ BeginWork(t)
    /\ Goto(t, CASE task[t].op = "approve" -> "apply"
                 [] task[t].op = "default" -> "default"
                 [] OTHER -> "materialize")
    /\ UNCHANGED <<storage, limit, run, counters>>

(* BeginWork returns the context's error; nothing was done. *)
NotEntered(t) ==
    /\ task[t].pc = "enter"
    /\ AbandonBeginWork(t)
    /\ Become(t, Idle)
    /\ UNCHANGED <<storage, limit, run, counters>>

WriteDefault(t) ==
    /\ task[t].pc = "default"
    /\ default' = task[t].doc.ver
    /\ Goto(t, "leave")
    /\ UNCHANGED <<coordinatorVars, applied, pending, versions, linked, ready,
                   evictedAt, files, blobs, limit, run, counters>>
-----------------------------------------------------------------------------
(* MaterializeApplicationDocs takes a guard of its own inside the one the  *)
(* application holds, as saving and reading a version do inside it.        *)
Materialize(t) ==
    /\ task[t].pc = "materialize"
    /\ CallBeginWork(t)
    /\ Goto(t, "nested")
    /\ UNCHANGED <<storage, limit, run, counters>>

(* The policy resolves to the résumé on the job site or to a saved         *)
(* version, ...                                                            *)
ChooseVersion(t) ==
    /\ task[t].pc = "nested"
    /\ BeginWork(t)
    /\ \/ Become(t, [task[t] EXCEPT !.pc = "unnest", !.doc = NoDoc])
       \/ \E v \in linked :
            /\ task[t].doc.ver \in {NoVersion, v}
            /\ Become(t, [task[t] EXCEPT !.pc = "export", !.doc.ver = v])
    /\ UNCHANGED <<storage, limit, run, counters>>

(* ... or to a new version, which is saved and rendered now. *)
SaveVersion(t) ==
    /\ task[t].pc = "nested"
    /\ BeginWork(t)
    /\ \E v \in Versions \ versions :
         /\ versions' = versions \union {v}
         /\ Become(t, [task[t] EXCEPT !.pc = "put", !.doc.ver = v, !.fresh = TRUE])
    /\ UNCHANGED <<applied, pending, default, linked, ready, evictedAt, files,
                   blobs, limit, run, counters>>

PutBlob(t) ==
    /\ task[t].pc = "put"
    /\ blobs' = blobs \union {Artifact[task[t].doc.ver]}
    /\ Goto(t, "link")
    /\ UNCHANGED <<coordinatorVars, applied, pending, default, versions, linked,
                   ready, evictedAt, files, limit, run, counters>>

(* Billing the render or linking it fails: the version is deleted and the  *)
(* document is on hold.                                                    *)
LinkFails(t) ==
    /\ task[t].pc = "link"
    /\ Fail
    /\ versions' = versions \ {task[t].doc.ver}
    /\ OnHold(t)
    /\ UNCHANGED <<coordinatorVars, applied, pending, default, linked, ready,
                   evictedAt, files, blobs, limit, run, requests, reconciles, restarts>>

(* The render is billed and linked, which clears the eviction mark. *)
LinkArtifact(t) ==
    /\ task[t].pc = "link"
    /\ linked' = linked \union {task[t].doc.ver}
    /\ evictedAt' = evictedAt \ {Artifact[task[t].doc.ver]}
    /\ Goto(t, "ready")
    /\ UNCHANGED <<coordinatorVars, applied, pending, default, versions, ready,
                   files, blobs, limit, run, counters>>

(* MarkVersionReady; its failure is not fatal. *)
MarkReady(t) ==
    /\ task[t].pc = "ready"
    /\ \/ ready' = ready \union {task[t].doc.ver} /\ NoFail
       \/ Fail /\ UNCHANGED ready
    /\ Goto(t, "export")
    /\ UNCHANGED <<coordinatorVars, applied, pending, default, versions, linked,
                   evictedAt, files, blobs, limit, run, requests, reconciles, restarts>>

(* The version's bytes are written under the job's directory, or the       *)
(* document is on hold.                                                    *)
Export(t) ==
    /\ task[t].pc = "export"
    /\ \/ /\ Readable(task[t].doc.ver)
          /\ files' = files \union {task[t].job}
          /\ Become(t, [task[t] EXCEPT !.pc = "unnest", !.doc.path = TRUE])
          /\ NoFail
       \/ /\ Readable(task[t].doc.ver) => Fail
          /\ ~Readable(task[t].doc.ver) => NoFail
          /\ OnHold(t)
          /\ UNCHANGED files
    /\ UNCHANGED <<coordinatorVars, applied, pending, default, versions, linked,
                   ready, evictedAt, blobs, limit, run, requests, reconciles, restarts>>

Unnest(t) ==
    /\ task[t].pc = "unnest"
    /\ EndWork(t)
    /\ Goto(t, "apply")
    /\ UNCHANGED <<storage, limit, run, counters>>
-----------------------------------------------------------------------------
(* The form was submitted, or was found submitted already. *)
Submitted(t) ==
    /\ task[t].pc = "apply"
    /\ task[t].op \in {"approve", "auto"}
    /\ ~task[t].hold
    /\ Goto(t, "insert")
    /\ UNCHANGED <<coordinatorVars, storage, limit, run, counters>>

(* The form could not be submitted.  Either leaves a job on an employer's  *)
(* own site in the review list; an approval else writes the documents it   *)
(* has back into the row, inserting it when it is gone; the bot lists the  *)
(* job without documents; other errors leave everything as it is.          *)
NotSubmitted(t) ==
    /\ task[t].pc = "apply"
    /\ LET j == task[t].job
           d == task[t].doc
           kept == IF j \in DOMAIN pending THEN pending[j] ELSE NoDoc
       IN pending' \in
            CASE task[t].op = "approve" ->
                    {pending, PutPending(j, kept),
                     PutPending(j, [path |-> d.path \/ kept.path,
                                    ver |-> IF d.ver # NoVersion
                                            THEN d.ver ELSE kept.ver])}
              [] task[t].op = "auto" ->
                    {pending, PutPending(j, kept), PutPending(j, NoDoc)}
              [] OTHER -> {pending}
    /\ Goto(t, "leave")
    /\ UNCHANGED <<coordinatorVars, applied, default, versions, linked, ready,
                   evictedAt, files, blobs, limit, run, counters>>

(* PrepareReviewDocuments writes what it made into the row, if it is there. *)
Prepared(t) ==
    /\ task[t].pc = "apply"
    /\ task[t].op = "prepare"
    /\ pending' = IF task[t].job \in DOMAIN pending
                  THEN PutPending(task[t].job, task[t].doc) ELSE pending
    /\ Goto(t, "leave")
    /\ UNCHANGED <<coordinatorVars, applied, default, versions, linked, ready,
                   evictedAt, files, blobs, limit, run, counters>>

(* The application is published: one insert, then for an approval one      *)
(* delete; a failure of either is logged and the submission goes on.  The  *)
(* handler deletes once more when it is told of the success: HandlerStep.  *)
PublishApplied(t) ==
    /\ task[t].pc = "insert"
    /\ \/ applied' = InsertApplied(task[t].job, task[t].doc) /\ NoFail
       \/ Fail /\ UNCHANGED applied
    /\ Goto(t, IF task[t].op = "approve" THEN "delete" ELSE "leave")
    /\ UNCHANGED <<coordinatorVars, pending, default, versions, linked, ready,
                   evictedAt, files, blobs, limit, run, requests, reconciles, restarts>>

PublishPending(t) ==
    /\ task[t].pc = "delete"
    /\ \/ pending' = DeletePending(task[t].job) /\ NoFail
       \/ Fail /\ UNCHANGED pending
    /\ Goto(t, "leave")
    /\ UNCHANGED <<coordinatorVars, applied, default, versions, linked, ready,
                   evictedAt, files, blobs, limit, run, requests, reconciles, restarts>>

Leave(t) ==
    /\ task[t].pc = "leave"
    /\ EndWork(t)
    /\ Become(t, Idle)
    /\ UNCHANGED <<storage, limit, run, counters>>

TaskStep(t) ==
    \/ Approve(t) \/ Prepare(t) \/ AutoApply(t) \/ SetDefault(t)
    \/ Entered(t) \/ NotEntered(t) \/ WriteDefault(t)
    \/ Materialize(t) \/ ChooseVersion(t) \/ SaveVersion(t) \/ PutBlob(t)
    \/ LinkArtifact(t) \/ LinkFails(t)
    \/ MarkReady(t) \/ Export(t) \/ Unnest(t)
    \/ Submitted(t) \/ NotSubmitted(t) \/ Prepared(t)
    \/ PublishApplied(t) \/ PublishPending(t) \/ Leave(t)
-----------------------------------------------------------------------------
(* Handlers that take no guard: the user marks a listed job as applied,    *)
(* removes it from the list, picks other documents for it, or deletes an   *)
(* application; the administrator changes the limit.                       *)
Handlers ==
    \/ /\ \E j \in DOMAIN pending :
            /\ applied' = InsertApplied(j, NoDoc)
            /\ pending' = DeletePending(j)
       /\ UNCHANGED limit
    \/ /\ \E j \in DOMAIN pending : pending' = DeletePending(j)
       /\ UNCHANGED <<applied, limit>>
    \/ /\ \E j \in DOMAIN pending, v \in linked \union {NoVersion} :
            pending' = PutPending(j, [path |-> FALSE, ver |-> v])
       /\ UNCHANGED <<applied, limit>>
    \/ /\ \E i \in DOMAIN applied :
            applied' = SubSeq(applied, 1, i - 1) \o SubSeq(applied, i + 1, Len(applied))
       /\ UNCHANGED <<pending, limit>>
    \/ /\ limit' \in Limits
       /\ UNCHANGED <<applied, pending>>

HandlerStep ==
    /\ Handlers
    /\ Requested
    /\ UNCHANGED <<coordinatorVars, default, versions, linked, ready, evictedAt,
                   files, blobs, task, run, reconciles, faults, restarts>>
-----------------------------------------------------------------------------
(* Clean-up.                                                               *)

Resting == [pc |-> "idle", pass |-> 0, limit |-> 0, rows |-> <<>>,
            paths |-> {}, vers |-> {}, ready |-> {}, evictable |-> {},
            keys |-> {}, busy |-> FALSE, err |-> FALSE]

Latest(n) == {applied[i] : i \in {k \in DOMAIN applied : k <= n}}
Beyond(n) == SubSeq(applied, n + 1, Len(applied))

(* The parts of the protection index: jobs whose file, and versions whose  *)
(* blob, must stay.  Two statements of buildProtectionIndex read them.     *)
LatestPaths(n) == {r.job : r \in {s \in Latest(n) : s.doc.path}}
LatestVersions(n) == {r.doc.ver : r \in Latest(n)}

ListedPaths == {j \in DOMAIN pending : pending[j].path}
ListedVersions == {pending[j].ver : j \in DOMAIN pending} \union {default}

(* Mutant of ProtectedBlobs: one that cannot be rendered again is not kept.  *)
CollectedBlobs(vers) == {Artifact[v] : v \in vers \intersect linked}

(* Blobs the index protects: those of the versions it collected, and those *)
(* of every version that cannot be rendered again.                         *)
ProtectedBlobs(vers) == {Artifact[v] : v \in (vers \intersect linked) \union (linked \ ready)}

(* exportEvictAllowed *)
Allowed(e, r) ==
    /\ r.doc.path
    /\ r.job \notin run[e].paths
    /\ r.doc.ver \in run[e].ready

Turn(e, r) == run' = [run EXCEPT ![e] = r]
GotoPass(e, pc) == Turn(e, [run[e] EXCEPT !.pc = pc])
FailPass(e) == Turn(e, [run[e] EXCEPT !.pc = "end", !.err = TRUE])

(* A reconcile makes up to MaxPasses passes; the administrator's run and   *)
(* the one a batch asks for make one.                                      *)
StartReconcile(e) ==
    /\ run[e].pc = "idle"
    /\ reconciles < MaxReconciles
    /\ reconciles' = reconciles + 1
    /\ CallEviction(e)
    /\ \E first \in {1, MaxPasses} :
          Turn(e, [run[e] EXCEPT !.pc = "enter", !.pass = first])
    /\ UNCHANGED <<storage, limit, task, requests, faults, restarts>>

EnterPass(e) ==
    /\ run[e].pc = "enter"
    /\ Evict(e)
    /\ GotoPass(e, "scan")
    /\ UNCHANGED <<storage, limit, task, counters>>

(* The clean-up's context ends while it waits. *)
AbandonPass(e) ==
    /\ run[e].pc = "enter"
    /\ AbandonEviction(e)
    /\ Turn(e, Resting)
    /\ UNCHANGED <<storage, limit, task, counters>>

(* collectCandidates: rows beyond the limit whose document may go. *)
Candidates(n) ==
    SelectSeq(Beyond(n), LAMBDA r :
        /\ r.doc.path
        /\ r.job \notin LatestPaths(n) \union ListedPaths
        /\ r.doc.ver \in ready)

(* The limit, the first index, the versions and the candidates are read. A *)
(* failed read ends the pass.                                              *)
Scan(e) ==
    /\ run[e].pc = "scan"
    /\ \/ /\ Turn(e, [run[e] EXCEPT !.pc = "next",
                                    !.limit = limit,
                                    !.rows = Candidates(limit),
                                    !.ready = ready,
                                    !.evictable = {v \in ready \intersect linked :
                                                     Artifact[v] \notin evictedAt},
                                    !.busy = Candidates(limit) # <<>>])
          /\ NoFail
       \/ Fail /\ FailPass(e)
    /\ UNCHANGED <<coordinatorVars, storage, limit, task, requests, reconciles, restarts>>

NextRow(e) == Turn(e, [run[e] EXCEPT !.pc = "next", !.rows = Tail(@)])

(* Every candidate is checked against an index of its own, read now: first *)
(* the applications (a failed read passes the candidate over), ...         *)
IndexLatest(e) ==
    /\ run[e].pc = "next"
    /\ \/ /\ Turn(e, [run[e] EXCEPT !.pc = "listed",
                                    !.paths = LatestPaths(run[e].limit),
                                    !.vers = LatestVersions(run[e].limit)])
          /\ NoFail
       \/ /\ Fail
          /\ IF run[e].rows = <<>> THEN FailPass(e) ELSE NextRow(e)
    /\ UNCHANGED <<coordinatorVars, storage, limit, task, requests, reconciles, restarts>>

(* ... then the review list and the default.  After the last candidate the *)
(* index serves the blobs: those of evictable versions that nothing        *)
(* refers to.                                                              *)
IndexListed(e) ==
    /\ run[e].pc = "listed"
    /\ LET paths == run[e].paths \union ListedPaths
           vers == run[e].vers \union ListedVersions
           orphans == {Artifact[v] : v \in run[e].evictable \ vers}
       IN IF run[e].rows = <<>>
          THEN Turn(e, [run[e] EXCEPT !.pc = "blobs",
                                      !.keys = orphans \ ProtectedBlobs(vers)])
          ELSE Turn(e, [run[e] EXCEPT !.pc = "remove", !.paths = paths])
    /\ UNCHANGED <<coordinatorVars, storage, limit, task, counters>>

PassOver(e) ==
    /\ run[e].pc = "remove"
    /\ ~Allowed(e, Head(run[e].rows))
    /\ NextRow(e)
    /\ UNCHANGED <<coordinatorVars, storage, limit, task, counters>>

(* evictOneExport: the file goes first, and one that is gone already is no *)
(* error; a failure leaves the row for a later pass.                       *)
RemoveFile(e) ==
    /\ run[e].pc = "remove"
    /\ Allowed(e, Head(run[e].rows))
    /\ \/ files' = files \ {Head(run[e].rows).job} /\ GotoPass(e, "persist") /\ NoFail
       \/ Fail /\ NextRow(e) /\ UNCHANGED files
    /\ UNCHANGED <<coordinatorVars, applied, pending, default, versions, linked,
                   ready, evictedAt, blobs, limit, task, requests, reconciles, restarts>>

(* Then the row is told, if it is still there. *)
PersistRow(e) ==
    /\ run[e].pc = "persist"
    /\ \/ /\ applied' = [i \in DOMAIN applied |->
                           IF applied[i].job = Head(run[e].rows).job
                           THEN [applied[i] EXCEPT !.doc.path = FALSE]
                           ELSE applied[i]]
          /\ NoFail
       \/ Fail /\ UNCHANGED applied
    /\ NextRow(e)
    /\ UNCHANGED <<coordinatorVars, pending, default, versions, linked, ready,
                   evictedAt, files, blobs, limit, task, requests, reconciles, restarts>>

(* evictOrphanArtifactBlobs goes through the keys in order: a blob that     *)
(* cannot be removed is reported at the end, a mark that cannot be written *)
(* ends the pass.                                                          *)
Key(e) == CHOOSE a \in run[e].keys : TRUE

RemoveBlob(e) ==
    /\ run[e].pc = "blobs"
    /\ run[e].keys # {}
    /\ \/ blobs' = blobs \ {Key(e)} /\ GotoPass(e, "mark") /\ NoFail
       \/ /\ Fail
          /\ Turn(e, [run[e] EXCEPT !.keys = @ \ {Key(e)}, !.err = TRUE])
          /\ UNCHANGED blobs
    /\ UNCHANGED <<coordinatorVars, applied, pending, default, versions, linked,
                   ready, evictedAt, files, limit, task, requests, reconciles, restarts>>

MarkEvicted(e) ==
    /\ run[e].pc = "mark"
    /\ \/ /\ evictedAt' = evictedAt \union {Key(e)}
          /\ Turn(e, [run[e] EXCEPT !.pc = "blobs", !.keys = @ \ {Key(e)},
                                    !.busy = TRUE])
          /\ NoFail
       \/ /\ Fail
          /\ FailPass(e)
          /\ UNCHANGED evictedAt
    /\ UNCHANGED <<coordinatorVars, applied, pending, default, versions, linked,
                   ready, files, blobs, limit, task, requests, reconciles, restarts>>

(* The pass is over and the guard is given up.  Another pass follows while *)
(* the last one found something to do and reported no error.               *)
Clean(e) == ~run[e].err /\ ~run[e].busy

EndPass(e) ==
    /\ \/ run[e].pc = "end"
       \/ run[e].pc = "blobs" /\ run[e].keys = {}
    /\ EndEviction(e)
    /\ IF run[e].err \/ Clean(e) \/ run[e].pass = MaxPasses
       THEN Turn(e, Resting)
       ELSE Turn(e, [Resting EXCEPT !.pc = "again", !.pass = run[e].pass + 1])
    /\ UNCHANGED <<storage, limit, task, counters>>

NextPass(e) ==
    /\ run[e].pc = "again"
    /\ CallEviction(e)
    /\ GotoPass(e, "enter")
    /\ UNCHANGED <<storage, limit, task, counters>>

PassStep(e) ==
    \/ EnterPass(e) \/ AbandonPass(e) \/ Scan(e) \/ IndexLatest(e)
    \/ IndexListed(e) \/ PassOver(e) \/ RemoveFile(e) \/ PersistRow(e)
    \/ RemoveBlob(e) \/ MarkEvicted(e) \/ EndPass(e) \/ NextPass(e)
-----------------------------------------------------------------------------
(* The process stops and starts again: files and rows stay. *)
RestartProcess ==
    /\ restarts < MaxRestarts
    /\ restarts' = restarts + 1
    /\ Restart
    /\ task' = [t \in Tasks |-> Idle]
    /\ run' = [e \in Evictors |-> Resting]
    /\ UNCHANGED <<storage, limit, requests, reconciles, faults>>

(* One application is recorded, with its file and the version it was made  *)
(* from; its review row may still be there, as after a delete that failed. *)
(* The other jobs wait for review.                                         *)
RetentionInit ==
    /\ CoordinatorInit
    /\ LET j == CHOOSE k \in Jobs : TRUE
           v == CHOOSE w \in Versions : TRUE
       IN /\ applied = <<[job |-> j, doc |-> [path |-> TRUE, ver |-> v]]>>
          /\ pending \in {[k \in Jobs \ {j} |-> NoDoc],
                         [k \in Jobs |-> IF k = j THEN applied[1].doc ELSE NoDoc]}
          /\ versions = {v}
          /\ files = {j}
          /\ blobs = {Artifact[v]}
    /\ linked = versions
    /\ ready \in {{}, versions}
    /\ default = NoVersion
    /\ evictedAt = {}
    /\ limit \in Limits
    /\ task = [t \in Tasks |-> Idle]
    /\ run = [e \in Evictors |-> Resting]
    /\ requests = 0 /\ reconciles = 0 /\ faults = 0 /\ restarts = 0

RetentionNext ==
    \/ \E t \in Tasks : TaskStep(t)
    \/ \E e \in Evictors : StartReconcile(e) \/ PassStep(e)
    \/ HandlerStep
    \/ RestartProcess

RetentionSpec == RetentionInit /\ [][RetentionNext]_retentionVars

(* A goroutine that is past its guard or polling for it goes on; a clean-up *)
(* goes on, and gives up waiting when its context ends.                     *)
RetentionFairSpec ==
    /\ RetentionSpec
    /\ \A t \in Tasks :
          WF_retentionVars(TaskStep(t) /\ task[t].pc # "idle" /\ ~NotEntered(t))
    /\ \A e \in Evictors : WF_retentionVars(PassStep(e))
-----------------------------------------------------------------------------
RetentionTypeOK ==
    /\ CoordinatorTypeOK
    /\ applied \in Seq([job : Jobs, doc : Doc])
    /\ DOMAIN pending \subseteq Jobs /\ \A j \in DOMAIN pending : pending[j] \in Doc
    /\ default \in Versions \union {NoVersion}
    /\ ready \subseteq versions /\ linked \subseteq versions
    /\ files \subseteq Jobs
    /\ evictedAt \union blobs \subseteq {Artifact[v] : v \in Versions}

(* No clean-up, failure or restart costs a user a document: the version of *)
(* a recorded application, of a listed one and of the default can be read, *)
(* from its blob or rendered again.                                        *)
DocumentsSurvive ==
    LET referenced == LatestVersions(Len(applied)) \union ListedVersions
    IN \A v \in referenced \ {NoVersion} : Readable(v)

(* A document made under a guard is there until the guard ends: the file   *)
(* that the form uploads, and the blob of a version that no row refers to  *)
(* yet.                                                                    *)
InFlightKept ==
    \A t \in Tasks :
        task[t].fresh /\ task[t].pc \in {"unnest", "apply", "insert", "delete", "leave"} =>
            /\ task[t].job \in files
            /\ Artifact[task[t].doc.ver] \in blobs

(* BeginWork returns: submissions and document writes are held back only   *)
(* while an eviction runs.                                                 *)
BeginReturns == \A t \in Tasks : t \in beginning ~> t \notin beginning
=============================================================================
