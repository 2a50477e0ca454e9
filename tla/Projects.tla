------------------------------- MODULE Projects -------------------------------
(***************************************************************************)
(* Projects, their ingestion keys and upload tokens, the trust in GitLab   *)
(* jobs, and the requests of CI that rely on any of them (apps/web/src/    *)
(* server: projects.ts, ingestion-keys.ts, source-maps/ authorization.ts,  *)
(* gitlab.ts, policy.ts, tokens.ts, upload.ts, releases/register.ts), with *)
(* the purge of expired projects by the worker.                            *)
(*                                                                         *)
(* Changes by an Owner hold the workspace row (module Team) and are steps, *)
(* but for the restoration, which races with the purge: it holds the row   *)
(* of the project from its check to its commit.  A request of CI checks    *)
(* its credential, reads a body, checks again and then writes, in steps of *)
(* their own.  A job is what GitLab signed about it; its build is the      *)
(* release of its commit and the asset prefix of its id.                   *)
(***************************************************************************)
EXTENDS Integers, FiniteSets

CONSTANTS
    Projects, Slugs,
    Bindings,           \* entries of GITLAB_CI_TRUST, each with its release prefix
    ProjectOf,          \* [Bindings -> Projects]
    Repository,         \* [Bindings -> repositories]
    Forks,              \* repositories an Owner may trust
    Jobs,
    Claims,             \* [Jobs -> what the identity of the job says]
    Clients,            \* requests of CI
    Recovery,           \* 7 days in the code
    Grace,              \* 24 hours
    TokenLife,          \* 90 days
    KeyLimit,           \* 10: working ingestion keys, and working upload tokens
    Batches,            \* batches that the data of a project takes to delete
    MaxNow, MaxKeys, MaxTokens, MaxUploads, MaxChanges, \* bounds of the model
    None

ASSUME ProjectsAssumption ==
    /\ None \notin Nat \cup Projects \cup Jobs \cup {"restore", "purge"}
    /\ {Recovery, Grace, TokenLife, MaxNow, MaxKeys, MaxTokens, MaxUploads, MaxChanges,
        Batches} \subseteq Nat
    /\ KeyLimit \in Nat \ {0}
    /\ ProjectOf \in [Bindings -> Projects]
    /\ DOMAIN Repository = Bindings
    /\ DOMAIN Claims = Jobs

VARIABLES
    now,
    trust,              \* the binding of each project in the web's configuration
    project,            \* project rows
    data,               \* batches left of the project's events, issues, uploads, ...
    holder,             \* who holds the project row FOR UPDATE
    restoring,          \* the restoration between its check and its commit
    keys,               \* project_ingestion_key rows
    tokens,             \* source_map_token rows
    policy,             \* source_map_policy rows
    uploads,            \* source_map_upload rows: the build each is for
    request,            \* requests of CI
    \* bookkeeping
    purged,             \* projects that are gone
    minted,             \* keys and tokens so far
    changes,            \* changes by Owners so far
    allowed             \* forks an Owner trusted, with the binding at that time

rows == <<project, data, purged>>
locks == <<holder, restoring>>
secrets == <<keys, tokens, minted>>
consent == <<policy, allowed>>
ci == <<uploads, request>>
vars == <<now, trust, rows, locks, secrets, consent, ci, changes>>

Init ==
    /\ now = 0
    /\ trust = [p \in Projects |-> None]
    /\ project = [p \in Projects |-> None]
    /\ data = [p \in Projects |-> 0]
    /\ holder = [p \in Projects |-> None]
    /\ restoring = None
    /\ keys = [p \in Projects |-> {}]
    /\ tokens = [p \in Projects |-> {}]
    /\ policy = [p \in Projects |-> None]
    /\ uploads = {}
    /\ request = [c \in Clients |-> None]
    /\ purged = {}
    /\ minted = [keys |-> 0, tokens |-> 0]
    /\ allowed = {}
    /\ changes = 0

Exists == {p \in Projects : project[p] # None}
Live == {p \in Exists : project[p].deletedAt = None}
Trash == Exists \ Live
PurgeAt(p) == project[p].deletedAt + Recovery

\* A change by an Owner (ownerTransaction): no restoration is under way, which
\* would hold the workspace row, too.
Workspace ==
    /\ restoring = None
    /\ changes < MaxChanges
    /\ changes' = changes + 1
Free(p) == holder[p] = None

-----------------------------------------------------------------------------
(* Projects (projects.ts)                                                  *)

Taken(s) == \E p \in Exists : project[p].slug = s

NewKey == [id |-> minted.keys + 1, expires |-> None, revoked |-> FALSE, replaced |-> None]

CreateProject(p, s) ==
    /\ Workspace
    /\ p \notin Exists \cup purged
    /\ ~Taken(s)
    /\ minted.keys < MaxKeys
    /\ project' = [project EXCEPT ![p] = [slug |-> s, deletedAt |-> None]]
    /\ data' = [data EXCEPT ![p] = Batches]
    /\ keys' = [keys EXCEPT ![p] = {NewKey}]
    /\ minted' = [minted EXCEPT !.keys = @ + 1]
    /\ UNCHANGED <<now, trust, purged, locks, tokens, consent, ci>>

UpdateProject(p, s) ==
    /\ Workspace
    /\ p \in Live
    /\ Free(p)
    /\ ~\E q \in Exists \ {p} : project[q].slug = s
    /\ project' = [project EXCEPT ![p].slug = s]
    /\ UNCHANGED <<now, trust, data, purged, locks, secrets, consent, ci>>

DeleteProject(p) ==
    /\ Workspace
    /\ p \in Live
    /\ Free(p)
    /\ project' = [project EXCEPT ![p].deletedAt = now]
    /\ UNCHANGED <<now, trust, data, purged, locks, secrets, consent, ci>>

\* Mutant: the row is read without a lock.
MutHeld(p) == holder

Held(p) == [holder EXCEPT ![p] = "restore"]

Recoverable(p) == p \in Trash /\ now < PurgeAt(p)

RestoreCheck(p) ==
    /\ Workspace
    /\ Free(p)
    /\ Recoverable(p)
    /\ holder' = Held(p)
    /\ restoring' = p
    /\ UNCHANGED <<now, trust, rows, secrets, consent, ci>>

RestoreProject(p) ==
    /\ restoring = p
    /\ p \in Trash
    /\ holder' = [holder EXCEPT ![p] = None]
    /\ restoring' = None
    /\ project' = [project EXCEPT ![p].deletedAt = None]
    /\ UNCHANGED <<now, trust, data, purged, secrets, consent, ci, changes>>

-----------------------------------------------------------------------------
(* purge_deleted_project_batch: one transaction, oldest project first,     *)
(* skipping those whose row is locked.                                     *)

Expired(p) == p \in Trash /\ PurgeAt(p) <= now

\* Mutant: only projects that have rows are looked for.
MutPurgeable == {p \in Projects : Expired(p) /\ Free(p) /\ data[p] > 0}

Purgeable == {p \in Projects : Expired(p) /\ Free(p)}

PurgeLock(p) ==
    /\ p \in Purgeable
    /\ \A q \in Purgeable : project[p].deletedAt <= project[q].deletedAt
    /\ \A q \in Projects : holder[q] # "purge"
    /\ holder' = [holder EXCEPT ![p] = "purge"]
    /\ UNCHANGED <<restoring, now, trust, rows, secrets, consent, ci, changes>>

PurgeBatch(p) ==
    /\ holder[p] = "purge"
    /\ holder' = [holder EXCEPT ![p] = None]
    /\ IF data[p] > 0
       THEN /\ data' = [data EXCEPT ![p] = @ - 1]
            /\ UNCHANGED <<project, purged, keys, tokens, policy>>
       ELSE /\ project' = [project EXCEPT ![p] = None]
            /\ purged' = purged \cup {p}
            /\ keys' = [keys EXCEPT ![p] = {}]
            /\ tokens' = [tokens EXCEPT ![p] = {}]
            /\ policy' = [policy EXCEPT ![p] = None]
            /\ UNCHANGED data
    /\ uploads' = {u \in uploads : u.project # p}
    /\ UNCHANGED <<now, trust, restoring, minted, allowed, request, changes>>

\* The process dies, or the transaction of the restoration fails.
Unlock(p) ==
    /\ ~Free(p)
    /\ holder' = [holder EXCEPT ![p] = None]
    /\ restoring' = IF holder[p] = "restore" THEN None ELSE restoring
    /\ UNCHANGED <<now, trust, rows, secrets, consent, ci, changes>>

-----------------------------------------------------------------------------
(* Ingestion keys (ingestion-keys.ts) and upload tokens (tokens.ts)        *)

Unexpired(k) == k.expires = None \/ k.expires > now
Working(k) == ~k.revoked /\ Unexpired(k)

\* Mutant: a replaced key ends at once.
MutCutOff(k) ==
    IF ~k.revoked /\ (k.expires = None \/ k.expires > now + Grace)
    THEN [k EXCEPT !.expires = now, !.replaced = IF @ = None THEN now ELSE @] ELSE k

\* The key a rotation leaves behind: it works for 24 hours, or less if it had less.
Replaced(k) ==
    IF ~k.revoked /\ (k.expires = None \/ k.expires > now + Grace)
    THEN [k EXCEPT !.expires = now + Grace, !.replaced = IF @ = None THEN now ELSE @] ELSE k

BelowLimit(all) == Cardinality({k \in all : Working(k)}) < KeyLimit

RotateIngestionKey(p, revokeImmediately) ==
    /\ Workspace
    /\ p \in Live
    /\ minted.keys < MaxKeys
    /\ revokeImmediately \/ BelowLimit(keys[p])
    /\ keys' = [keys EXCEPT ![p] =
            {IF revokeImmediately THEN [k EXCEPT !.revoked = TRUE] ELSE Replaced(k) : k \in @}
                \cup {NewKey}]
    /\ minted' = [minted EXCEPT !.keys = @ + 1]
    /\ UNCHANGED <<now, trust, rows, locks, tokens, consent, ci>>

Revoked(all, k) == (all \ {k}) \cup {[k EXCEPT !.revoked = TRUE]}

RevokeIngestionKey(p, k) ==
    /\ Workspace
    /\ p \in Live
    /\ k \in keys[p]
    /\ keys' = [keys EXCEPT ![p] = Revoked(@, k)]
    /\ UNCHANGED <<now, trust, rows, locks, tokens, minted, consent, ci>>

CreateSourceMapToken(p) ==
    /\ Workspace
    /\ p \in Live
    /\ trust[p] = None
    /\ BelowLimit(tokens[p])
    /\ minted.tokens < MaxTokens
    /\ tokens' = [tokens EXCEPT ![p] = @ \cup
            {[id |-> minted.tokens + 1, expires |-> now + TokenLife, revoked |-> FALSE]}]
    /\ minted' = [minted EXCEPT !.tokens = @ + 1]
    /\ UNCHANGED <<now, trust, rows, locks, keys, consent, ci>>

RevokeSourceMapToken(p, t) ==
    /\ Workspace
    /\ p \in Live
    /\ t \in tokens[p]
    /\ tokens' = [tokens EXCEPT ![p] = Revoked(@, t)]
    /\ UNCHANGED <<now, trust, rows, locks, keys, minted, consent, ci>>

-----------------------------------------------------------------------------
(* Trust in GitLab (policy.ts, gitlab.ts)                                  *)

UpdateSourceMapPolicy(p, preview, sources) ==
    /\ Workspace
    /\ p \in Live
    /\ trust[p] # None
    /\ Repository[trust[p]] \notin sources
    /\ policy' = [policy EXCEPT ![p] = [binding |-> trust[p], preview |-> preview, sources |-> sources]]
    /\ allowed' = allowed \cup {<<p, trust[p], s>> : s \in sources}
    /\ UNCHANGED <<now, trust, rows, locks, secrets, ci>>

DefaultPolicy == [preview |-> FALSE, sources |-> {}]

\* Mutant: what an Owner allowed outlives the binding it was allowed for.
MutEffectivePolicy(p) == IF policy[p] # None THEN policy[p] ELSE DefaultPolicy

EffectivePolicy(p) ==
    IF policy[p] # None /\ policy[p].binding = trust[p] THEN policy[p] ELSE DefaultPolicy

\* Who runs the job and whose pipeline definition it follows (gitlab.ts:154-206).
Identified(p, j) ==
    LET main == Repository[trust[p]]
        c == Claims[j]
        primary == c.id = main /\ c.path = main
        forkInPrimary == ~primary /\ c.event = "merge_request_event" /\ c.job = main
        sourceConfig == c.config = c.path
        parentConfig == forkInPrimary /\ c.config \in {None, main}
    IN /\ c.id = main <=> c.path = main
       /\ c.job # None => c.job = c.path \/ forkInPrimary
       /\ sourceConfig \/ parentConfig

Primary(p, j) == Claims[j].id = Repository[trust[p]]

\* The environment it may name (gitlab.ts:208-232).
Placed(p, j) ==
    LET c == Claims[j]
    IN \/ /\ c.environment = "production"
          /\ Primary(p, j)
          /\ c.event # "merge_request_event"
          /\ c.release
       \/ /\ c.environment = "preview"
          /\ c.branch
          /\ Primary(p, j) \/ c.event = "merge_request_event"

\* The answer of "ci context": "denied", "skip" without a build, or the build
\* with or without maps.
Context(p, j) ==
    IF ~(trust[p] # None /\ Identified(p, j) /\ Placed(p, j) /\ p \in Live) THEN "denied"
    ELSE IF ~(Primary(p, j) \/ Claims[j].path \in EffectivePolicy(p).sources) THEN "skip"
    ELSE IF Claims[j].environment = "production" \/ EffectivePolicy(p).preview THEN "maps"
    ELSE "build"

Build(p, j) == [binding |-> trust[p], job |-> j]

-----------------------------------------------------------------------------
(* Requests of CI: the routes under api/v1/projects/[id].                  *)

TokenWorks(p, id) == p \in Live /\ \E t \in tokens[p] : t.id = id /\ Working(t)

\* authorizeUpload for "maps" or "release".
Authorized(p, cred, operation) ==
    IF cred.job # None
    THEN Context(p, cred.job) \in (IF operation = "release" THEN {"build", "maps"} ELSE {"maps"})
    ELSE trust[p] = None /\ TokenWorks(p, cred.token)

ReleaseScope(p, build, cred) ==
    cred.job = None \/
        /\ build.binding = trust[p]
        /\ \A f \in {"sha", "environment", "review"} : Claims[build.job][f] = Claims[cred.job][f]

UploadScope(p, build, cred) == cred.job = None \/ build = Build(p, cred.job)

InScope(p, op, build, cred) ==
    IF op = "release" THEN ReleaseScope(p, build, cred) ELSE UploadScope(p, build, cred)

\* What the route itself asks for (routes under api/v1/projects/[id]).
FirstCheck(op) == "maps"

\* Every request begins with authorizeUpload; a put finds its row before its body.
Present(c, op, p, cred, build) ==
    /\ request[c] = None
    /\ Authorized(p, cred, FirstCheck(op))
    /\ op \in {"put", "finish"} => [project |-> p, build |-> build] \in uploads
    /\ op \in {"put", "finish"} => UploadScope(p, build, cred)
    /\ request' = [request EXCEPT ![c] =
            [op |-> op, project |-> p, cred |-> cred, build |-> build, late |-> FALSE, spent |-> FALSE,
             stage |-> IF op = "finish" THEN "permitted" ELSE "reading"]]
    /\ UNCHANGED <<now, trust, rows, locks, secrets, consent, uploads, changes>>

\* A token that no longer works, an identity past its hour: neither comes back.
Dead(r) ==
    IF r.cred.job # None THEN r.spent
    ELSE ~\E t \in tokens[r.project] : t.id = r.cred.token /\ Working(t)

IdentityExpires(c) ==
    /\ request[c] # None /\ request[c].cred.job # None
    /\ request' = [request EXCEPT ![c].spent = TRUE]
    /\ UNCHANGED <<now, trust, rows, locks, secrets, consent, uploads, changes>>

ReadBody(c) ==
    /\ request[c] # None /\ request[c].stage = "reading"
    /\ request' = [request EXCEPT ![c].stage = "read", ![c].late = Dead(request[c])]
    /\ UNCHANGED <<now, trust, rows, locks, secrets, consent, uploads, changes>>

\* Mutant: what was checked before the body was read is not checked again.
MutStillAuthorized(r) == TRUE

StillAuthorized(r) ==
    /\ Authorized(r.project, r.cred, IF r.op = "release" THEN "release" ELSE "maps")
    /\ ~r.spent

AuthorizeAgain(c) ==
    /\ request[c] # None /\ request[c].stage = "read"
    /\ LET r == request[c]
       IN request' = [request EXCEPT ![c] =
            IF StillAuthorized(r) /\ InScope(r.project, r.op, r.build, r.cred)
            THEN [r EXCEPT !.stage = "permitted"] ELSE None]
    /\ UNCHANGED <<now, trust, rows, locks, secrets, consent, uploads, changes>>

\* The transaction: begin and register want the project enabled and hold its
\* row, put and finish want the upload to be there still.
Land(c) ==
    /\ request[c] # None /\ request[c].stage = "permitted"
    /\ LET r == request[c]
           row == [project |-> r.project, build |-> r.build]
       IN /\ r.op \in {"begin", "release"} => r.project \in Live /\ Free(r.project)
          /\ r.op \in {"put", "finish"} => row \in uploads
          /\ uploads' = IF r.op = "begin" THEN uploads \cup {row} ELSE uploads
          /\ Cardinality(uploads') <= MaxUploads
    /\ request' = [request EXCEPT ![c] = None]
    /\ UNCHANGED <<now, trust, rows, locks, secrets, consent, changes>>

Fail(c) ==
    /\ request[c] # None
    /\ request' = [request EXCEPT ![c] = None]
    /\ UNCHANGED <<now, trust, rows, locks, secrets, consent, uploads, changes>>

\* The operator changes GITLAB_CI_TRUST and starts the web again.
Restart(p, b) ==
    /\ trust[p] # b
    /\ b # None => ProjectOf[b] = p
    /\ restoring # p
    /\ trust' = [trust EXCEPT ![p] = b]
    /\ request' = [c \in Clients |-> None]
    /\ UNCHANGED <<now, rows, locks, secrets, consent, uploads, changes>>

\* retainSourceMaps (module SourceMaps).
RetainUpload(u) ==
    /\ uploads' = uploads \ {u}
    /\ UNCHANGED <<now, trust, rows, locks, secrets, consent, request, changes>>

Tick ==
    /\ now < MaxNow
    /\ now' = now + 1
    /\ UNCHANGED <<trust, rows, locks, secrets, consent, ci, changes>>

Credentials(p) ==
    {[job |-> j, token |-> None] : j \in Jobs} \cup {[job |-> None, token |-> t.id] : t \in tokens[p]}

OwnerStep(p) ==
    \/ \E s \in Slugs : CreateProject(p, s) \/ UpdateProject(p, s)
    \/ DeleteProject(p) \/ RestoreCheck(p) \/ RestoreProject(p)
    \/ \E revokeImmediately \in BOOLEAN : RotateIngestionKey(p, revokeImmediately)
    \/ \E k \in keys[p] : RevokeIngestionKey(p, k)
    \/ CreateSourceMapToken(p)
    \/ \E t \in tokens[p] : RevokeSourceMapToken(p, t)
    \/ \E preview \in BOOLEAN, sources \in SUBSET Forks : UpdateSourceMapPolicy(p, preview, sources)

RequestStep(c) ==
    \/ /\ request[c] = None
       /\ \E op \in {"begin", "put", "finish", "release"}, p \in Live :
            \E cred \in {x \in Credentials(p) : Authorized(p, x, FirstCheck(op))} :
                \E b \in Bindings, j \in Jobs : Present(c, op, p, cred, [binding |-> b, job |-> j])
    \/ IdentityExpires(c) \/ ReadBody(c) \/ AuthorizeAgain(c) \/ Land(c) \/ Fail(c)

Next ==
    \/ \E p \in Projects : OwnerStep(p) \/ PurgeLock(p) \/ PurgeBatch(p) \/ Unlock(p)
    \/ \E p \in Projects, b \in Bindings \cup {None} : Restart(p, b)
    \/ \E c \in Clients : RequestStep(c)
    \/ \E u \in uploads : RetainUpload(u)
    \/ Tick

Spec == Init /\ [][Next]_vars

\* The worker's retention loop goes on, and a pass that got its row does not
\* fail forever.
FairSpec ==
    /\ Spec
    /\ WF_vars(Tick)
    /\ \A p \in Projects : WF_vars(PurgeLock(p)) /\ SF_vars(PurgeBatch(p)) /\ WF_vars(Unlock(p))

-----------------------------------------------------------------------------
(* Properties *)

Moments == 0 .. MaxNow + Grace + TokenLife

\* Rows have the values their columns may have, and slugs are unique.
TypeOK ==
    /\ now \in 0 .. MaxNow
    /\ \A p \in Projects :
        /\ trust[p] \in Bindings \cup {None}
        /\ data[p] \in 0 .. Batches
        /\ holder[p] \in {None, "restore", "purge"}
        /\ \A k \in keys[p] : k.expires \in Moments \cup {None} /\ k.revoked \in BOOLEAN
        /\ \A t \in tokens[p] : t.expires \in Moments /\ t.revoked \in BOOLEAN
    /\ \A p \in Exists : project[p].slug \in Slugs /\ project[p].deletedAt \in Moments \cup {None}
    /\ \A p, q \in Exists : project[p].slug = project[q].slug => p = q
    /\ purged \cap Exists = {}
    /\ \A u \in uploads : u.project \in Projects

\* A project that was restored has lost nothing to the purge: the worker deletes
\* in batches, and only once a restoration is refused (projects.ts:141-152).
RestoredIsWhole == \A p \in Live : data[p] = Batches

\* A key that was replaced is refused 24 hours later, however often the keys are
\* rotated meanwhile (ingestion-keys.ts:52-59).
ReplacedKeysEnd ==
    \A p \in Projects : \A k \in keys[p] :
        k.replaced # None /\ Working(k) => now < k.replaced + Grace

\* A rotation cuts no sender off: a key works until it is revoked or until 24
\* hours after it was first replaced.
GraceIsKept ==
    [][\A p \in Projects : \A k \in keys[p] : Working(k) =>
        \A after \in keys'[p] : after.id = k.id =>
            \/ Working(after)' \/ after.revoked
            \/ after.replaced # None /\ now' >= after.replaced + Grace]_vars

\* Requests that have nothing left to do but to write.
Writing == {c \in Clients : request[c] # None /\ request[c].stage = "permitted"}

\* Nothing is written for a credential that was revoked or had expired by the
\* time the body of the request was read (upload.ts:284, register.ts:15).
NothingAfterRevocation == \A c \in Writing : ~request[c].late

\* A job registers as production only what a protected ref of the bound
\* repository built, and writes maps only for its own build.
KeepsToItsBuild(c) ==
    request[c].cred.job # None =>
        LET r == request[c]
            built == Claims[r.build.job]
            self == Claims[r.cred.job]
        IN /\ r.build.binding = trust[r.project]
           /\ r.op # "release" => r.build.job = r.cred.job
           /\ built.environment = "production" =>
                self.release /\ self.path = Repository[trust[r.project]]
                    /\ self.event # "merge_request_event" /\ self.sha = built.sha

\* What CI writes comes from the bound repository, from a fork an Owner trusted
\* for this very binding, or, without a binding, from a token; and no job writes
\* under the name of a build that is not its own.
WrittenByTrusted ==
    \A c \in Writing :
        LET r == request[c]
            bound == trust[r.project]
        IN /\ KeepsToItsBuild(c)
           /\ IF r.cred.job = None THEN bound = None
              ELSE \/ Claims[r.cred.job].path = Repository[bound]
                   \/ <<r.project, bound, Claims[r.cred.job].path>> \in allowed

\* The trash is emptied: a project past its recovery is gone in the end, unless
\* the restoration that was under way when its time came succeeds.
PurgeEnds == \A p \in Projects : Expired(p) ~> p \in purged \cup Live

=============================================================================
