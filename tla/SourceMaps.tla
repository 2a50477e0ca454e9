----------------------------- MODULE SourceMaps -----------------------------
(***************************************************************************)
(* Source maps of one project: CI jobs that begin, fill and finish an      *)
(* upload (apps/web source-maps/upload.ts), workers that validate it under *)
(* a lease (worker source-maps/uploads.ts), the retention process that     *)
(* deletes uploads, orphan files and releases, and the events that read a  *)
(* release's version and then its maps (source-maps/resolve.ts).           *)
(*                                                                         *)
(* A manifest is a release with its set of artifacts; its hash is unique,  *)
(* so there is at most one upload row for it.  A content stands for a      *)
(* (debugId, path, sha256), its place for the first two, of which an       *)
(* upload has each once.  The project is not in the trash.                 *)
(* A file is named by the begin that minted it and its content.  Row locks *)
(* make each statement atomic; the two advisory locks are explicit.        *)
(***************************************************************************)
EXTENDS Integers, FiniteSets

CONSTANTS
    Manifests,
    Contents,
    Places,
    Releases,
    ArtifactsOf,        \* [Manifests -> SUBSET Contents]
    ReleaseOf,          \* [Manifests -> Releases]
    PlaceOf,            \* [Contents -> Places]
    Events,
    EventRelease,       \* [Events -> Releases]
    EventMap,           \* [Events -> Contents]: the map its frames need
    Clients,            \* CI jobs and their repetitions
    Validators,         \* source map loops of the event workers
    AttemptLimit,       \* 3 in the code
    MaxBegins,          \* bound of the model: begins that reserve anything
    MaxLosses,          \* bound of the model: files lost with their volume
    None

ASSUME SourceMapsAssumption ==
    /\ ArtifactsOf \in [Manifests -> (SUBSET Contents) \ {{}}]
    /\ ReleaseOf \in [Manifests -> Releases]
    /\ PlaceOf \in [Contents -> Places]
    /\ \A m \in Manifests : \A x, y \in ArtifactsOf[m] : PlaceOf[x] = PlaceOf[y] => x = y
    /\ EventRelease \in [Events -> Releases]
    /\ EventMap \in [Events -> Contents]
    /\ {AttemptLimit, MaxBegins, MaxLosses} \subseteq Nat
    /\ None \notin Clients
    /\ None \notin [state : {"missing", "pending", "ready", "failed", "removed"}, version : Nat]

VARIABLES
    upload,             \* source_map_upload with its source_artifact rows
    rel,                \* release rows
    files,              \* SOURCE_MAP_DIR
    lock,               \* holder of pg_advisory_xact_lock(73104621)
    client,             \* the transaction a CI job is in
    job,                \* the upload a validator works on
    pass,               \* the retention process between its statements
    event,              \* the inbox row or the error_event of an event
    \* bookkeeping
    begins,             \* begins so far; names rows and files
    lost                \* files the volume lost while rows named them

vars == <<upload, rel, files, lock, client, job, pass, event, begins, lost>>
ci == <<lock, client, begins>>

Init ==
    /\ upload = [m \in Manifests |-> None]
    /\ rel = [r \in Releases |-> None]
    /\ files = {}
    /\ lock = None
    /\ client = [c \in Clients |-> None]
    /\ job = [v \in Validators |-> None]
    /\ pass = None
    /\ event = [e \in Events |-> None]
    /\ begins = 0
    /\ lost = {}

-----------------------------------------------------------------------------

Rows == {m \in Manifests : upload[m] # None}
RowsOf(r) == {m \in Rows : ReleaseOf[m] = r}
ReadyOf(r) == {m \in RowsOf(r) : upload[m].status = "ready"}
Artifacts(m) == {upload[m].art[c] : c \in ArtifactsOf[m]}
Referenced == {a.file : a \in UNION {Artifacts(m) : m \in Rows}}

\* Mutant: the installation's advisory lock is not taken.
MutLockFree == TRUE

LockFree == lock = None

\* release.upsert: of its columns only the dates change in a row that exists.
Upserted(r) == IF rel[r] = None THEN [state |-> "missing", version |-> 0] ELSE rel[r]

\* updateMany where sourceMapsVersion = 0.
Awaiting(x) == IF x.version = 0 THEN [x EXCEPT !.state = "pending"] ELSE x

-----------------------------------------------------------------------------
(* beginUpload: one transaction under the lock 73104621.                   *)

Missing(m) ==
    {c \in ArtifactsOf[m] : ~(upload[m].art[c].uploaded /\ upload[m].art[c].file \in files)}

\* Rows of the same debugId and path, then of the same content.
SamePlace(c) ==
    UNION {{d \in ArtifactsOf[m] : PlaceOf[d] = PlaceOf[c]} : m \in Rows}
Matches(c) == {upload[m].art[c] : m \in {x \in Rows : c \in ArtifactsOf[x]}}

Conflict(m) == \E c \in ArtifactsOf[m] : SamePlace(c) \ {c} # {}

\* What a new artifact row may hold: a match is reused, whichever comes first.
Prepared(c, n) ==
    IF Matches(c) = {} THEN {[file |-> <<n, c>>, uploaded |-> FALSE]}
    ELSE {[file |-> a.file, uploaded |-> a.uploaded /\ a.file \in files] : a \in Matches(c)}

Plans(m, n) ==
    {p \in [ArtifactsOf[m] -> UNION {Prepared(c, n) : c \in ArtifactsOf[m]}] :
        \A c \in ArtifactsOf[m] : p[c] \in Prepared(c, n)}

\* An upload known and not failed is reset where files are missing.
BeginAgain(c, m) ==
    /\ client[c] = None
    /\ LockFree
    /\ begins < MaxBegins
    /\ upload[m] # None
    /\ upload[m].status # "failed"
    /\ Missing(m) # {}
    /\ lock' = c
    /\ begins' = begins + 1
    /\ client' = [client EXCEPT ![c] =
            [op |-> "reset", m |-> m, id |-> upload[m].id, missing |-> Missing(m)]]
    /\ UNCHANGED <<upload, rel, files, job, pass, event, lost>>

BeginNew(c, m) ==
    /\ client[c] = None
    /\ LockFree
    /\ begins < MaxBegins
    /\ upload[m] = None
    /\ ~Conflict(m)
    /\ lock' = c
    /\ begins' = begins + 1
    /\ \E plan \in Plans(m, begins + 1) :
        client' = [client EXCEPT ![c] =
            [op |-> "create", m |-> m, id |-> begins + 1, art |-> plan]]
    /\ UNCHANGED <<upload, rel, files, job, pass, event, lost>>

\* The row may have left meanwhile (the transaction fails) or be ready.
CommitReset(c) ==
    /\ client[c] # None /\ client[c].op = "reset"
    /\ LET b == client[c]
           row == upload[b.m]
       IN IF row # None /\ row.id = b.id
          THEN upload' = [upload EXCEPT ![b.m] = [row EXCEPT
                  !.status = "receiving", !.attempts = 0,
                  !.art = [x \in ArtifactsOf[b.m] |->
                      IF x \in b.missing THEN [row.art[x] EXCEPT !.uploaded = FALSE]
                                         ELSE row.art[x]]]]
          ELSE UNCHANGED upload
    /\ lock' = None
    /\ client' = [client EXCEPT ![c] = None]
    /\ UNCHANGED <<rel, files, job, pass, event, begins, lost>>

CommitNew(c) ==
    /\ client[c] # None /\ client[c].op = "create"
    /\ LET b == client[c]
           r == ReleaseOf[b.m]
       IN /\ upload' = [upload EXCEPT ![b.m] =
                [id |-> b.id, status |-> "receiving", attempts |-> 0, owner |-> None,
                 leased |-> FALSE, art |-> b.art]]
          /\ rel' = [rel EXCEPT ![r] = Awaiting(Upserted(r))]
    /\ lock' = None
    /\ client' = [client EXCEPT ![c] = None]
    /\ UNCHANGED <<files, job, pass, event, begins, lost>>

\* Quota, disk reserve, the 15 s timeout, or the death of the process.
AbortBegin(c) ==
    /\ client[c] # None /\ client[c].op \in {"reset", "create"}
    /\ lock' = None
    /\ client' = [client EXCEPT ![c] = None]
    /\ UNCHANGED <<upload, rel, files, job, pass, event, begins, lost>>

-----------------------------------------------------------------------------
(* uploadArtifact: a transaction under the shared lock of its upload.      *)

StartPut(c, m, x) ==
    /\ client[c] = None
    /\ upload[m] # None
    /\ upload[m].status = "receiving"
    /\ x \in ArtifactsOf[m]
    /\ client' = [client EXCEPT ![c] =
            [op |-> "put", m |-> m, id |-> upload[m].id, content |-> x,
             file |-> upload[m].art[x].file]]
    /\ UNCHANGED <<upload, rel, files, lock, job, pass, event, begins, lost>>

\* store.write renames the file into place, whatever became of the row.
WriteFile(c) ==
    /\ client[c] # None /\ client[c].op = "put"
    /\ files' = files \cup {client[c].file}
    /\ lost' = lost \ {client[c].file}
    /\ client' = [client EXCEPT ![c].op = "wrote"]
    /\ UNCHANGED <<upload, rel, lock, job, pass, event, begins>>

CommitPut(c) ==
    /\ client[c] # None /\ client[c].op = "wrote"
    /\ LET p == client[c] IN
       upload' = IF upload[p.m] # None /\ upload[p.m].id = p.id
                 THEN [upload EXCEPT ![p.m].art[p.content].uploaded = TRUE]
                 ELSE upload
    /\ client' = [client EXCEPT ![c] = None]
    /\ UNCHANGED <<rel, files, lock, job, pass, event, begins, lost>>

\* Disk reserve, timeout or death, before or after the file is in place.
AbortPut(c) ==
    /\ client[c] # None /\ client[c].op \in {"put", "wrote"}
    /\ client' = [client EXCEPT ![c] = None]
    /\ UNCHANGED <<upload, rel, files, lock, job, pass, event, begins, lost>>

-----------------------------------------------------------------------------
(* finishUpload: the exclusive lock of the upload waits for its writers.   *)

Complete(m) == \A a \in Artifacts(m) : a.uploaded

Writers(m) ==
    {c \in Clients : /\ client[c] # None
                     /\ client[c].op \in {"put", "wrote"}
                     /\ client[c].id = upload[m].id}

FinishUpload(m) ==
    /\ upload[m] # None
    /\ Writers(m) = {}
    /\ Complete(m)
    /\ upload[m].status = "receiving"
    /\ upload' = [upload EXCEPT ![m].status = "pending"]
    /\ UNCHANGED <<rel, files, ci, job, pass, event, lost>>

-----------------------------------------------------------------------------
(* validateOneUpload.                                                      *)

\* The bound on attempts is the model's: a validator may die again and again.
ClaimUpload(v, m) ==
    /\ job[v] = None
    /\ upload[m] # None
    /\ \/ upload[m].status = "pending"
       \/ upload[m].status = "validating" /\ ~upload[m].leased
    /\ upload[m].attempts <= AttemptLimit
    /\ upload' = [upload EXCEPT ![m] = [@ EXCEPT
            !.status = "validating", !.attempts = upload[m].attempts + 1, !.owner = v,
            !.leased = TRUE]]
    /\ job' = [job EXCEPT ![v] =
            [m |-> m, attempts |-> upload[m].attempts + 1, art |-> Artifacts(m), valid |-> None]]
    /\ UNCHANGED <<rel, files, ci, pass, event, lost>>

\* Mutant: neither token nor status is compared.
MutOwnsAny(v) == upload[job[v].m] # None

\* id, leaseToken and status = 'validating': a token is minted by one claim.
Owns(v) ==
    LET m == job[v].m IN
    upload[m] # None /\ upload[m].status = "validating" /\ upload[m].owner = v

\* The fence, then the files as parseStoredMap finds them; the parser may refuse.
CheckUpload(v) ==
    /\ job[v] # None /\ job[v].valid = None
    /\ IF job[v].attempts > AttemptLimit
       THEN job' = [job EXCEPT ![v].valid = FALSE] /\ UNCHANGED upload
       ELSE IF ~Owns(v)
       THEN job' = [job EXCEPT ![v] = None] /\ UNCHANGED upload
       ELSE /\ upload' = [upload EXCEPT ![job[v].m].leased = TRUE]
            /\ \E valid \in IF \A a \in job[v].art : a.uploaded /\ a.file \in files
                            THEN BOOLEAN ELSE {FALSE} :
                job' = [job EXCEPT ![v].valid = valid]
    /\ UNCHANGED <<rel, files, ci, pass, event, lost>>

\* Mutant: a failed upload marks the release, published or not.
MutRejected(x) == [x EXCEPT !.state = "failed"]

Rejected(x) == IF x.version = 0 THEN [x EXCEPT !.state = "failed"] ELSE x

Published(x) == [x EXCEPT !.state = "ready", !.version = @ + 1]

Verdict(v) ==
    /\ job[v] # None /\ job[v].valid # None
    /\ LET m == job[v].m
           r == ReleaseOf[m]
       IN IF ~Owns(v)
          THEN UNCHANGED <<upload, rel>>
          ELSE /\ upload' = [upload EXCEPT ![m] = [@ EXCEPT
                    !.status = IF job[v].valid THEN "ready" ELSE "failed",
                    !.owner = None, !.leased = FALSE]]
               /\ IF job[v].valid
                  THEN rel[r] # None /\ rel' = [rel EXCEPT ![r] = Published(@)]
                  ELSE rel' = [rel EXCEPT ![r] = IF @ = None THEN None ELSE Rejected(@)]
    /\ job' = [job EXCEPT ![v] = None]
    /\ UNCHANGED <<files, ci, pass, event, lost>>

\* The process dies, or its database call throws.
AbandonUpload(v) ==
    /\ job[v] # None
    /\ job' = [job EXCEPT ![v] = None]
    /\ UNCHANGED <<upload, rel, files, ci, pass, event, lost>>

Heartbeat(v) ==
    /\ job[v] # None
    /\ Owns(v)
    /\ upload' = [upload EXCEPT ![job[v].m].leased = TRUE]
    /\ UNCHANGED <<rel, files, ci, job, pass, event, lost>>

ExpireLease(m) ==
    /\ upload[m] # None /\ upload[m].leased
    /\ upload' = [upload EXCEPT ![m].leased = FALSE]
    /\ UNCHANGED <<rel, files, ci, job, pass, event, lost>>

-----------------------------------------------------------------------------
(* Events of the releases, as far as maps are concerned.                   *)

Waiting(r) == {e \in Events : event[e] # None /\ EventRelease[e] = r /\ event[e].phase = "queued"}
Stored(r) == {e \in Events : event[e] # None /\ EventRelease[e] = r /\ event[e].phase = "stored"}

AdmitEvent(e) ==
    /\ event[e] = None
    /\ event' = [event EXCEPT ![e] =
            [phase |-> "queued", seen |-> 0, state |-> "missing", reading |-> None]]
    /\ UNCHANGED <<upload, rel, files, ci, job, pass, lost>>

Version(r) == IF rel[r] = None THEN 0 ELSE rel[r].version

\* resolveFrames reads the version first; reprocessing picks events behind it.
ReadVersion(e) ==
    /\ event[e] # None
    /\ event[e].reading = None
    /\ event[e].phase = "stored" => event[e].seen < Version(EventRelease[e])
    /\ event' = [event EXCEPT ![e].reading = Version(EventRelease[e])]
    /\ UNCHANGED <<upload, rel, files, ci, job, pass, lost>>

\* The ready maps the frames of an event may be read from.
Candidates(e) == {upload[m].art[EventMap[e]] :
    m \in {x \in ReadyOf(EventRelease[e]) : EventMap[e] \in ArtifactsOf[x]}}

\* Frames restored before stay; without a version no map is looked up.
Outcomes(e) ==
    IF event[e].state = "complete" THEN {"complete"}
    ELSE IF event[e].reading = 0 \/ Candidates(e) = {} THEN {"missing"}
    ELSE {"failed"} \cup (IF \E a \in Candidates(e) : a.file \in files THEN {"complete"} ELSE {})

\* Mutant: the version is read after the maps.
MutSeenVersion(e) == Version(EventRelease[e])

SeenVersion(e) == event[e].reading

\* The final transaction: a job's event touches its release, reprocessing not.
StoreEvent(e) ==
    LET r == EventRelease[e] IN
    /\ event[e] # None
    /\ event[e].reading # None
    /\ \E state \in Outcomes(e) :
        event' = [event EXCEPT ![e] =
            [phase |-> "stored", seen |-> SeenVersion(e), state |-> state, reading |-> None]]
    /\ rel' = IF event[e].phase = "queued" THEN [rel EXCEPT ![r] = Upserted(r)] ELSE rel
    /\ UNCHANGED <<upload, files, ci, job, pass, lost>>

\* A failed attempt; the row waits for another.
AbandonEvent(e) ==
    /\ event[e] # None
    /\ event[e].reading # None
    /\ event' = [event EXCEPT ![e].reading = None]
    /\ UNCHANGED <<upload, rel, files, ci, job, pass, lost>>

\* The last attempt failed, or retention removed the stored event.
DropEvent(e) ==
    /\ event[e] # None
    /\ event' = [event EXCEPT ![e] = None]
    /\ UNCHANGED <<upload, rel, files, ci, job, pass, lost>>

RegisterRelease(r) ==
    /\ rel' = [rel EXCEPT ![r] = Upserted(r)]
    /\ UNCHANGED <<upload, files, ci, job, pass, event, lost>>

-----------------------------------------------------------------------------
(* retainSourceMaps and retainReleases, in their one process.              *)

\* The condition of the DELETE, for a row of that many days: updated a day ago,
\* or begun 30 or 60 days ago.  Every row gets there, so no clock is kept; a
\* lease in force was renewed within the minute.
Expired(m, days) ==
    LET r == ReleaseOf[m] IN
    \/ upload[m].status \in {"receiving", "failed", "pending"}
    \/ upload[m].status = "validating" /\ ~upload[m].leased
    \/ /\ upload[m].status = "ready" /\ days >= 30
       /\ days >= 60 \/ {e \in Stored(r) : EventMap[e] \in ArtifactsOf[m]} = {}
       /\ Waiting(r) = {}

\* DELETE ... RETURNING: the condition is evaluated again with the statement.
RetainUpload(m) ==
    /\ pass = None
    /\ upload[m] # None
    /\ \E days \in {1, 30, 60} : Expired(m, days)
    /\ upload' = [upload EXCEPT ![m] = None]
    /\ pass' = IF upload[m].status = "ready"
               THEN [op |-> "count", rel |-> ReleaseOf[m]] ELSE None
    /\ UNCHANGED <<rel, files, ci, job, event, lost>>

CountReady ==
    /\ pass # None /\ pass.op = "count"
    /\ pass' = IF ReadyOf(pass.rel) = {} THEN [pass EXCEPT !.op = "mark"] ELSE None
    /\ UNCHANGED <<upload, rel, files, ci, job, event, lost>>

MarkRemoved ==
    /\ pass # None /\ pass.op = "mark"
    /\ rel' = [rel EXCEPT ![pass.rel] = IF @ = None THEN None ELSE [@ EXCEPT !.state = "removed"]]
    /\ pass' = None
    /\ UNCHANGED <<upload, files, ci, job, event, lost>>

\* Files without a row, as many as the batch has.  A file written during the
\* pass is left to the next one, which may come at any time.
SweepOrphans ==
    /\ pass = None
    /\ LockFree
    /\ \E gone \in SUBSET (files \ Referenced) : files' = files \ gone
    /\ UNCHANGED <<upload, rel, ci, job, pass, event, lost>>

\* The process dies or a statement throws; the next pass starts over.
StopPass ==
    /\ pass # None
    /\ pass' = None
    /\ UNCHANGED <<upload, rel, files, ci, job, event, lost>>

\* 90 days without activity, by when issue_history no longer names it either.
RetainRelease(r) ==
    /\ pass = None
    /\ rel[r] # None
    /\ Stored(r) \cup Waiting(r) = {}
    /\ RowsOf(r) = {}
    /\ rel' = [rel EXCEPT ![r] = None]
    /\ UNCHANGED <<upload, files, ci, job, pass, event, lost>>

-----------------------------------------------------------------------------
(* The volume.                                                             *)

\* A database restored without its volume.
LoseFile(f) ==
    /\ Cardinality(lost) < MaxLosses
    /\ f \in files
    /\ files' = files \ {f}
    /\ lost' = lost \cup {f}
    /\ UNCHANGED <<upload, rel, ci, job, pass, event>>

-----------------------------------------------------------------------------

JobStep ==
    \E c \in Clients :
        \/ \E m \in Manifests : BeginAgain(c, m) \/ BeginNew(c, m)
        \/ CommitReset(c) \/ CommitNew(c) \/ AbortBegin(c)
        \/ \E m \in Manifests, x \in Contents : StartPut(c, m, x)
        \/ WriteFile(c) \/ CommitPut(c) \/ AbortPut(c)

ValidatorStep ==
    \E v \in Validators :
        \/ \E m \in Manifests : ClaimUpload(v, m)
        \/ CheckUpload(v) \/ Verdict(v) \/ AbandonUpload(v) \/ Heartbeat(v)

EventStep ==
    \E e \in Events :
        AdmitEvent(e) \/ ReadVersion(e) \/ StoreEvent(e) \/ AbandonEvent(e) \/ DropEvent(e)

RetentionStep ==
    \/ CountReady \/ MarkRemoved \/ SweepOrphans \/ StopPass
    \/ \E m \in Manifests : RetainUpload(m)
    \/ \E r \in Releases : RetainRelease(r)

Next ==
    \/ JobStep
    \/ \E m \in Manifests : FinishUpload(m)
    \/ ValidatorStep
    \/ EventStep
    \/ \E r \in Releases : RegisterRelease(r)
    \/ RetentionStep
    \/ \E m \in Manifests : ExpireLease(m)
    \/ \E f \in files : LoseFile(f)

Spec == Init /\ [][Next]_vars

-----------------------------------------------------------------------------
(* Properties.                                                             *)

Files == (1..MaxBegins) \X Contents
Artifact == [file : Files, uploaded : BOOLEAN]
UploadRow(m) ==
    [id : 1..MaxBegins, status : {"receiving", "pending", "validating", "ready", "failed"},
     attempts : 0..AttemptLimit + 1, owner : Validators \cup {None}, leased : BOOLEAN,
     art : [ArtifactsOf[m] -> Artifact]]
ReleaseRow ==
    [state : {"missing", "pending", "ready", "failed", "removed"},
     version : 0..MaxBegins]
EventRow ==
    [phase : {"queued", "stored"}, seen : 0..MaxBegins,
     state : {"missing", "failed", "complete"}, reading : 0..MaxBegins \cup {None}]

\* Every variable has its type; the lock is held by the begin in flight; and a
\* version counts at most one publication for each begin.
TypeOK ==
    /\ DOMAIN upload = Manifests
    /\ \A m \in Rows : upload[m] \in UploadRow(m)
    /\ rel \in [Releases -> ReleaseRow \cup {None}]
    /\ files \subseteq Files
    /\ lock \in Clients \cup {None}
    /\ \A c \in Clients :
        /\ client[c] # None =>
            client[c].op \in {"reset", "create", "put", "wrote"} /\ client[c].m \in Manifests
        /\ lock = c <=> client[c] # None /\ client[c].op \in {"reset", "create"}
    /\ \A v \in Validators : job[v] # None => job[v].valid \in BOOLEAN \cup {None}
    /\ pass \in [op : {"count", "mark"}, rel : Releases] \cup {None}
    /\ DOMAIN event = Events
    /\ \A e \in Events : event[e] # None => event[e] \in EventRow
    /\ begins \in 0..MaxBegins
    /\ lost \subseteq Files

\* An upload past finishUpload has every file it names, except for what the
\* volume itself lost: no sweep of orphans, no reuse of another upload's file
\* and no put still running leaves it short.
SubmittedHasFiles ==
    \A m \in Rows : upload[m].status \in {"pending", "validating", "ready"} =>
        \A a \in Artifacts(m) : a.uploaded /\ a.file \in files \cup lost

\* Artifact rows of one debugId and path have one content and share one file,
\* so frames find a single candidate and a file is stored once.
OneFilePerPlace ==
    \A m, n \in Rows : \A c \in ArtifactsOf[m], d \in ArtifactsOf[n] :
        PlaceOf[c] = PlaceOf[d] => c = d /\ upload[m].art[c].file = upload[n].art[d].file

\* Uploads are whole: each has its files, and no two differ about one place.
UploadsAreWhole == SubmittedHasFiles /\ OneFilePerPlace

\* While an upload exists so does its release, and a release with a ready
\* upload never goes back to missing, pending or failed, whatever later
\* uploads, verdicts and retention do.
PublishedWithRelease ==
    \A m \in Rows :
        LET x == rel[ReleaseOf[m]] IN
        /\ x # None
        /\ upload[m].status = "ready" => x.version > 0 /\ x.state \in {"ready", "removed"}

\* A stored event without source context, for which a ready map exists, is
\* behind its release's version: reprocessing will still look at it.
NoMissedMaps ==
    \A e \in Events :
        /\ event[e] # None /\ event[e].phase = "stored"
        /\ event[e].state = "missing" /\ Candidates(e) # {}
        => event[e].seen < Version(EventRelease[e])

\* A verdict stands: a published or rejected upload is only reset by a begin
\* that found files missing, or deleted; no validator turns it over.
VerdictStands ==
    [][\A m \in Manifests :
        /\ upload[m] # None /\ upload[m].status \in {"ready", "failed"}
        /\ upload'[m] # None
        => \/ upload'[m].status = upload[m].status
           \/ upload'[m].status = "receiving"]_vars

=============================================================================
