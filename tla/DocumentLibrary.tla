-------------------------- MODULE DocumentLibrary --------------------------
(* A user's documents: saving a version (row, PDF, charge, link), uploading a   *)
(* file, choosing a default and deleting a document, statement by statement and *)
(* side by side.  Requests that work on documents run in slots.  The contents   *)
(* of a version and the flags that only say a default looks outdated are left   *)
(* out; eviction is the module Retention's.                                     *)
EXTENDS Naturals, Sequences, FiniteSets

CONSTANTS
    Slots,                   \* requests at work at the same time
    MaxFaults                \* bound: statements that fail, and crashes

ASSUME LibraryAssumption == MaxFaults \in Nat

VARIABLES
    documents,               \* user_documents, oldest first
    versions,                \* document_content_versions, oldest first
    defaults,                \* user_document_defaults
    charged,                 \* idempotency keys of recorded renders
    task,                    \* what each slot works on
    requests,                \* bound: requests that the user may still make
    faults                   \* counted for MaxFaults

library == <<documents, versions, defaults, charged, task, requests, faults>>

Kinds == {"resume", "cover", "original"}
DefaultKinds == {"resume", "cover"}

\* A version is named by its position, as a tuple; a file exported from it has its name.
NoVersion == <<>>
VersionIds == {<<i>> : i \in 1 .. Len(versions)}
Version(v) == versions[v[1]]
\* The key under which a Generate request that the client repeats is charged.
GeneratedKey(kind) == IF kind = "resume" THEN <<0, 0>> ELSE <<0, 0, 0>>

NewDocument(kind) == [kind |-> kind, deleted |-> FALSE]
\* A version row: reconstructible is its flag, file that it has an artifact or original, and alive that it exists.
NewVersion(d, n, kind, key) ==
    [doc |-> d, number |-> n, kind |-> kind, key |-> key, reconstructible |-> FALSE, file |-> FALSE, alive |-> TRUE]

NoTask == [pc |-> "idle", kind |-> "resume", doc |-> 0, number |-> 0, version |-> NoVersion, key |-> NoVersion, for |-> "user"]

-----------------------------------------------------------------------------
\* Reads.

Alive(v) == v \in VersionIds /\ Version(v).alive
Deleted(d) == documents[d].deleted
Stored(v) == Version(v).file
Reproducible(v) == Version(v).reconstructible
\* PDFBytes and OriginalBytes: the file, or else what the snapshots reproduce.
Readable(v) == Alive(v) /\ (Stored(v) \/ Reproducible(v))
\* ValidateVersionKind; no version at all is valid.
ValidVersion(v, kind) ==
    v = NoVersion
        \/ /\ Alive(v)
           /\ ~Deleted(Version(v).doc)
           /\ documents[Version(v).doc].kind \in (IF kind = "resume" THEN {"resume", "original"} ELSE {kind})
Numbers(d) == {versions[i].number : i \in {j \in 1 .. Len(versions) : versions[j].doc = d /\ versions[j].alive}}
NextNumber(d) == IF Numbers(d) = {} THEN 1 ELSE 1 + CHOOSE n \in Numbers(d) : \A k \in Numbers(d) : k <= n

-----------------------------------------------------------------------------
\* Steps.

MayFail == faults < MaxFaults
Fault == MayFail /\ faults' = faults + 1
NoFault == UNCHANGED faults
Asks == requests > 0 /\ requests' = requests - 1
Set(s, t) == task' = [task EXCEPT ![s] = t]
Goto(s, pc) == Set(s, [task[s] EXCEPT !.pc = pc])

\* BeforeRender lets a save start (or refuses it, with nothing to undo); then
\* ensureDocument finds or makes the document, and the next number is read.
BeginsSave(s, kind, d, key, for) ==
    LET new == d = 0
        doc == IF new THEN Len(documents) + 1 ELSE d
    IN /\ ~new => ~Deleted(d)
       /\ documents' = IF new THEN Append(documents, NewDocument(kind)) ELSE documents
       /\ Set(s, [NoTask EXCEPT !.pc = "insert", !.kind = kind, !.doc = doc, !.key = key, !.for = for,
                                !.number = IF new THEN 1 ELSE NextNumber(d)])

Documents(kind) == {d \in DOMAIN documents : documents[d].kind = kind}

\* From the profile, edited, or improved: a document of its own, or one version more.
SaveResume(s) == \E d \in {0} \cup Documents("resume") : BeginsSave(s, "resume", d, NoVersion, "user")
SaveCover(s) == \E d \in {0} \cup Documents("cover") : BeginsSave(s, "cover", d, NoVersion, "user")
\* Generate and GenerateTailored, and GenerateCoverLetter, charge the client's key.
GenerateResume(s) == BeginsSave(s, "resume", 0, GeneratedKey("resume"), "user")
GenerateCover(s) == BeginsSave(s, "cover", 0, GeneratedKey("cover"), "user")
Upload(s) == BeginsSave(s, "original", 0, NoVersion, "user")

Save(s) ==
    /\ task[s].pc = "idle" /\ Asks /\ NoFault
    /\ SaveResume(s) \/ SaveCover(s) \/ GenerateResume(s) \/ GenerateCover(s) \/ Upload(s)
    /\ UNCHANGED <<versions, defaults, charged>>

\* What a save ends with: ok, content without a PDF, or nothing.
EndsSave(s, result) == Set(s, IF task[s].for = "user" THEN NoTask ELSE [task[s] EXCEPT !.pc = result])

\* Mutant of Inserted: the row claims that its PDF can be reproduced.
InsertedReady(s) == [NewVersion(task[s].doc, task[s].number, task[s].kind, task[s].key) EXCEPT !.reconstructible = TRUE]
Inserted(s) == NewVersion(task[s].doc, task[s].number, task[s].kind, task[s].key)

\* The row is written unless the document is deleted or its number taken.
InsertVersion(s) ==
    LET v == <<Len(versions) + 1>>
        key == IF task[s].key = NoVersion THEN v ELSE task[s].key
    IN /\ task[s].pc = "insert"
       /\ ~Deleted(task[s].doc) /\ task[s].number \notin Numbers(task[s].doc)
       /\ versions' = Append(versions, [Inserted(s) EXCEPT !.key = key])
       /\ Set(s, [task[s] EXCEPT !.version = v, !.key = key,
                                 !.pc = IF task[s].kind = "original" THEN "original" ELSE "render"])
       /\ NoFault /\ UNCHANGED <<documents, defaults, charged, requests>>
InsertFails(s) ==
    /\ task[s].pc = "insert"
    /\ IF Deleted(task[s].doc) \/ task[s].number \in Numbers(task[s].doc) THEN NoFault ELSE Fault
    /\ EndsSave(s, "failed")
    /\ UNCHANGED <<documents, versions, defaults, charged, requests>>

\* The original's own row; without it the version stays and has no file.
StoreOriginal(s) ==
    /\ task[s].pc = "original"
    /\ \/ NoFault /\ versions' = [versions EXCEPT ![task[s].version[1]].file = TRUE]
       \/ Fault /\ UNCHANGED versions
    /\ EndsSave(s, "ok")
    /\ UNCHANGED <<documents, defaults, charged, requests>>

\* Rendering and storing the blob; a failure keeps the content.
Render(s) ==
    /\ task[s].pc = "render"
    /\ \/ NoFault /\ Goto(s, "charge")
       \/ Fault /\ EndsSave(s, "failed")
    /\ UNCHANGED <<documents, versions, defaults, charged, requests>>

\* A key that is known is charged already.
Recorded(key) == charged \cup {key}
\* RecordRender, one transaction with the burn.
Charge(s) ==
    /\ task[s].pc = "charge"
    /\ \/ NoFault /\ charged' = Recorded(task[s].key) /\ Goto(s, "link")
       \/ Fault /\ UNCHANGED charged /\ Goto(s, "clean")
    /\ UNCHANGED <<documents, versions, defaults, requests>>

Link(s) ==
    /\ task[s].pc = "link"
    /\ \/ NoFault /\ versions' = [versions EXCEPT ![task[s].version[1]].file = TRUE] /\ Goto(s, "ready")
       \/ Fault /\ UNCHANGED versions /\ Goto(s, "clean")
    /\ UNCHANGED <<documents, defaults, charged, requests>>

\* MarkVersionReady, whose failure is ignored.
Ready(s) ==
    /\ task[s].pc = "ready"
    /\ \/ NoFault /\ versions' = [versions EXCEPT ![task[s].version[1]].reconstructible = TRUE]
       \/ Fault /\ UNCHANGED versions
    /\ EndsSave(s, "ok")
    /\ UNCHANGED <<documents, defaults, charged, requests>>

\* DeleteVersion, whose failure is ignored too; a default's version is referenced and stays.
Clean(s) ==
    LET v == task[s].version IN
    /\ task[s].pc = "clean"
    /\ \/ NoFault /\ versions' = [versions EXCEPT ![v[1]].alive = \E k \in DefaultKinds : defaults[k] = v]
       \/ Fault /\ UNCHANGED versions
    /\ EndsSave(s, "failed")
    /\ UNCHANGED <<documents, defaults, charged, requests>>

SaveStep(s) ==
    InsertVersion(s) \/ InsertFails(s) \/ StoreOriginal(s) \/ Render(s) \/ Charge(s) \/ Link(s) \/ Ready(s) \/ Clean(s)

-----------------------------------------------------------------------------
\* Defaults and deletion.

\* SetDefault validates the version first.
SetDefault(s) ==
    /\ task[s].pc = "idle" /\ Asks /\ NoFault
    /\ \E kind \in DefaultKinds : \E v \in VersionIds :
          ValidVersion(v, kind) /\ Set(s, [NoTask EXCEPT !.pc = "default", !.kind = kind, !.version = v])
    /\ UNCHANGED <<documents, versions, defaults, charged>>

\* The insert looks again: the document may be deleted, and the version gone.
StillListed(v) == Alive(v) /\ ~Deleted(Version(v).doc)
WriteDefault(s) ==
    /\ task[s].pc = "default"
    /\ defaults' = IF StillListed(task[s].version) THEN [defaults EXCEPT ![task[s].kind] = task[s].version] ELSE defaults
    /\ Set(s, NoTask)
    /\ NoFault /\ UNCHANGED <<documents, versions, charged, requests>>

\* DeleteDocument: one transaction; the versions stay, and can still be read.
DeleteDocument ==
    /\ Asks /\ NoFault
    /\ \E d \in DOMAIN documents :
          /\ documents' = [documents EXCEPT ![d].deleted = TRUE]
          /\ defaults' = [k \in DefaultKinds |->
                            IF defaults[k] # NoVersion /\ Version(defaults[k]).doc = d THEN NoVersion ELSE defaults[k]]
    /\ UNCHANGED <<versions, charged, task>>

LibraryStep ==
    \/ \E s \in Slots : Save(s) \/ SaveStep(s) \/ SetDefault(s) \/ WriteDefault(s)
    \/ DeleteDocument

-----------------------------------------------------------------------------
\* What can be read as a PDF has been charged: a failed or unfinished save is no
\* way to a render that nobody pays (saveResumeVersionLocked, resumeBillAndLink).
RenderIsPaid ==
    \A i \in 1 .. Len(versions) :
        Readable(<<i>>) /\ versions[i].kind # "original" => versions[i].key \in charged

=============================================================================
