-------------------------------- MODULE Deploy --------------------------------
(***************************************************************************)
(* The production controller, deploy/getexception.py: install, update,      *)
(* rollback, backup, smoke and image cleanup on one host.  Its state is     *)
(* spread over files (releases/, the link `current`, state.json, the        *)
(* journal pending.json, .env, setup-token), containers and the database    *)
(* volumes, and the controller may die between any two of its commands:     *)
(* the file lock is then released and everything else stays.                *)
(*                                                                         *)
(* Every docker command may fail with or without its effect.  Where a       *)
(* journal entry is written just before a command the two are one action:   *)
(* dying between them leaves the same files and containers as the command   *)
(* failing without effect.                                                  *)
(***************************************************************************)
EXTENDS Naturals, FiniteSets

CONSTANTS
    Releases,        \* verified releases (release.json of each)
    SchemaOf,        \* schemaVersion
    Supports,        \* rollbackFromSchemaVersions: schemas a release can run on
    RuntimeOf,       \* databaseRuntime, which names the database volume
    Legacy, Alpine,  \* the two database runtimes
    MaxWrites,       \* bound: writes the installation accepts
    None

Runtimes == {Legacy, Alpine}

Phases == {"database", "database-backup", "database-restore", "migration", "start", "rollback"}

Contents == [schema : Nat, rows : Nat]
States == [current : Releases, previous : Releases \union {None}, dns : BOOLEAN]
Journals == [previous : Releases \union {None}, target : Releases, phase : Phases]

ASSUME ReleasesAssumption ==
    /\ None \notin Releases \union Contents \union States \union Journals
    /\ Legacy # Alpine
    /\ SchemaOf \in [Releases -> Nat]
    /\ Supports \in [Releases -> SUBSET Nat]
    /\ \A r \in Releases : SchemaOf[r] \in Supports[r]
    /\ RuntimeOf \in [Releases -> Runtimes]
    /\ MaxWrites \in Nat

VARIABLES
    releases,   \* releases/<sha>: fetched and verified
    current,    \* the link `current`
    state,      \* state.json
    pending,    \* pending.json, the journal
    env,        \* .env: the setup token its SETUP_TOKEN_HASH belongs to
    token,      \* setup-token
    dump,       \* the newest backups/*.dump
    images,     \* releases whose images are on the host
    apps,       \* the release whose web, ingest and workers run
    caddy,      \* the release whose proxy runs: the public door
    postgres,   \* the release whose PostgreSQL container runs
    volume,     \* database volume of each runtime
    accepted,   \* writes acknowledged to anyone so far
    owner,      \* /setup was completed
    op          \* the invocation that holds runtime/operation.lock

files == <<releases, current, state, pending, env, token, dump>>
settings == <<env, token, owner>>
host == <<images, apps, caddy, postgres, volume>>
vars == <<files, host, accepted, owner, op>>

NoOp == [pc |-> "idle"]
EmptyVolume == [schema |-> 0, rows |-> 0]

MaxOf(a, b) == IF a < b THEN b ELSE a
Database == volume[RuntimeOf[postgres]]

Init ==
    /\ releases = {} /\ current = None /\ state = None /\ pending = None
    /\ env = None /\ token = None /\ dump = None
    /\ images = {} /\ apps = None /\ caddy = None /\ postgres = None
    /\ volume = [rt \in Runtimes |-> None]
    /\ accepted = 0 /\ owner = FALSE
    /\ op = NoOp

-----------------------------------------------------------------------------
(* One invocation at a time: `locked` fails at once when the lock is held.  *)

Go(pc) == op' = [op EXCEPT !.pc = pc]
Give(step) == op' = step
Fail == op' = NoOp

At(pc) == op.pc = pc

\* The process is killed or the host restarts: the lock goes, the files stay.
Crash ==
    /\ op # NoOp
    /\ Fail
    /\ UNCHANGED <<files, host, accepted, owner>>

\* main: `install` or `update` of a release.
Begin(r, first, start, defer, probe) ==
    /\ op = NoOp
    /\ pending = None
    /\ first \/ current # None
    /\ defer => first /\ start /\ ~probe
    /\ Give([pc |-> "fetch", target |-> r, first |-> first, start |-> start,
             defer |-> defer, probe |-> probe, old |-> None, moving |-> FALSE,
             counts |-> 0, up |-> None, goal |-> "deploy"])
    /\ UNCHANGED <<files, host, accepted, owner>>

\* fetch_release: download, checksum, attestation, then one rename.
Fetch ==
    /\ At("fetch")
    /\ \/ releases' = releases \union {op.target} /\ Go("configure")
       \/ UNCHANGED releases /\ Fail
    /\ UNCHANGED <<current, state, pending, settings, dump, host, accepted>>

\* configure keeps an existing .env; otherwise it writes the setup token,
\* the one left by an earlier attempt if there is one, and then .env.
OtherToken == IF token = 1 THEN 2 ELSE 1

\* Mutant: every attempt makes a new token, and .env keeps the hash of the first.
MutWriteToken ==
    /\ At("configure")
    /\ token' = OtherToken
    /\ IF env # None THEN Go("launch") ELSE Go("env")
    /\ UNCHANGED <<releases, current, state, pending, env, dump, host, accepted, owner>>

WriteToken ==
    /\ At("configure")
    /\ IF env # None
       THEN UNCHANGED token /\ Go("launch")
       ELSE token' = (IF token # None THEN token ELSE OtherToken) /\ Go("env")
    /\ UNCHANGED <<releases, current, state, pending, env, dump, host, accepted, owner>>

WriteEnv ==
    /\ At("env")
    /\ env' = token
    /\ Go("launch")
    /\ UNCHANGED <<releases, current, state, pending, token, dump, host, accepted, owner>>

\* --skip-start stops here, pointing `current` at the release if nothing does.
Launch ==
    /\ At("launch")
    /\ IF op.start
       THEN Go("check") /\ UNCHANGED current
       ELSE Fail /\ current' = IF current = None THEN op.target ELSE current
    /\ UNCHANGED <<releases, state, pending, settings, dump, host, accepted>>

-----------------------------------------------------------------------------
(* deploy, up to the journal: nothing that runs is touched.                 *)

RunningRelease == IF state # None THEN current ELSE None

\* With the ingest domain still pending, the old release is probed first.
CheckDeploy ==
    /\ At("check")
    /\ LET old == RunningRelease IN
       \/ /\ op.defer => op.first /\ old = None /\ ~op.probe
          /\ op.first \/ old # None
          /\ Give([op EXCEPT !.pc = "pull", !.old = old])
       \/ Fail
    /\ UNCHANGED <<files, host, accepted, owner>>

Pull ==
    /\ At("pull")
    /\ \/ images' = images \union {op.target} /\ Go("preflight")
       \/ UNCHANGED images /\ Fail
    /\ UNCHANGED <<files, apps, caddy, postgres, volume, accepted, owner>>

\* A new runtime gets a volume of its own: one that exists is refused.
MovesDatabase(old, target) ==
    old # None /\ RuntimeOf[old] # RuntimeOf[target]

Preflight ==
    /\ At("preflight")
    /\ LET moving == MovesDatabase(op.old, op.target) IN
       \/ /\ moving => /\ RuntimeOf[op.old] = Legacy
                       /\ volume[RuntimeOf[op.target]] = None
                       /\ postgres # None
          /\ Give([op EXCEPT !.pc = "validate", !.moving = moving])
       \/ Fail
    /\ UNCHANGED <<files, host, accepted, owner>>

\* `compose run caddy validate` may create every declared volume.
Touched(rt) ==
    IF volume[rt] = None THEN [volume EXCEPT ![rt] = EmptyVolume] ELSE volume

Validate ==
    /\ At("validate")
    /\ volume' \in {volume, Touched(RuntimeOf[op.target])}
    /\ Go(IF op.old = None THEN "stop" ELSE "backup") \/ Fail
    /\ UNCHANGED <<files, images, apps, caddy, postgres, accepted, owner>>

\* The backup before anything stops; services keep accepting writes.
BackUpFirst ==
    /\ At("backup")
    /\ \/ postgres # None /\ dump' = Database /\ Go("stop")
       \/ UNCHANGED dump /\ Fail
    /\ UNCHANGED <<releases, current, state, pending, settings, host, accepted>>

-----------------------------------------------------------------------------
(* deploy, under the journal.                                               *)

Journal(phase) == [previous |-> op.old, target |-> op.target, phase |-> phase]

\* `compose stop` ended well, or failed having stopped some services.
Stopped == apps' = None /\ caddy' = None
PartlyStopped == apps' \in {apps, None} /\ caddy' \in {caddy, None}

\* Mutant: the old release goes on serving while its database is moved.
MutStop ==
    /\ At("stop")
    /\ pending' = Journal("database")
    /\ Go(IF op.moving THEN "dump" ELSE "database")
    /\ UNCHANGED <<releases, current, state, settings, dump, host, accepted>>

Stop ==
    /\ At("stop")
    /\ pending' = Journal("database")
    /\ IF op.old = None
       THEN UNCHANGED <<apps, caddy>> /\ Go("database")
       ELSE \/ Stopped /\ Go(IF op.moving THEN "dump" ELSE "database")
            \/ PartlyStopped /\ Fail
    /\ UNCHANGED <<releases, current, state, settings, dump, images, postgres, volume, accepted>>

\* The dump that is moved is taken after every writer has stopped.
FinalDump ==
    /\ At("dump")
    /\ pending' = Journal("database-backup")
    /\ \/ /\ postgres # None
          /\ dump' = Database
          /\ Give([op EXCEPT !.pc = "database", !.counts = Database.rows])
       \/ UNCHANGED dump /\ Fail
    /\ UNCHANGED <<releases, current, state, settings, host, accepted>>

\* PostgreSQL is replaced by the target's; its volume is created if missing.
StartDatabase ==
    /\ At("database")
    /\ pending' = IF op.moving THEN Journal("database-restore") ELSE pending
    /\ \/ /\ postgres' = op.target
          /\ volume' = Touched(RuntimeOf[op.target])
          /\ Go(IF op.moving THEN "restore" ELSE "migrate")
       \/ /\ postgres' \in {postgres, None, op.target}
          /\ volume' \in {volume, Touched(RuntimeOf[op.target])}
          /\ postgres' = op.target => volume' = Touched(RuntimeOf[op.target])
          /\ Fail
    /\ UNCHANGED <<releases, current, state, settings, dump, images, apps, caddy, accepted>>

\* pg_restore in one transaction, then the row counts must be the old ones.
Restore ==
    /\ At("restore")
    /\ \/ /\ volume' = [volume EXCEPT ![RuntimeOf[op.target]] = dump]
          /\ IF dump.rows = op.counts THEN Go("migrate") ELSE Fail
       \/ UNCHANGED volume /\ Fail
    /\ UNCHANGED <<files, images, apps, caddy, postgres, accepted, owner>>

\* `prisma migrate deploy`: migrations are only ever added; a failure may leave
\* some of them applied, and services stay stopped.
Migrate ==
    /\ At("migrate")
    /\ pending' = Journal("migration")
    /\ LET rt == RuntimeOf[op.target]
           reached == MaxOf(volume[rt].schema, SchemaOf[op.target])
       IN  \/ /\ volume' = [volume EXCEPT ![rt].schema = reached]
              /\ Give([op EXCEPT !.pc = "services", !.up = op.target])
           \/ /\ \E s \in volume[rt].schema..reached :
                    volume' = [volume EXCEPT ![rt].schema = s]
              /\ Fail
    /\ UNCHANGED <<releases, current, state, settings, dump, images, apps, caddy, postgres, accepted>>

-----------------------------------------------------------------------------
(* ready: the services, the proxy, the probes; used for the new release,    *)
(* for the old one after a failure, and by rollback.                        *)

\* What a start that failed leads to.
NotReady == IF op.goal = "deploy" THEN Go("undo") ELSE Fail

StartServices ==
    /\ At("services")
    /\ pending' = IF op.goal = "deploy" THEN Journal("start") ELSE pending
    /\ \/ apps' = op.up /\ Go("proxy")
       \/ apps' \in {apps, op.up} /\ NotReady
    /\ UNCHANGED <<releases, current, state, settings, dump, images, caddy, postgres, volume, accepted>>

StartProxy ==
    /\ At("proxy")
    /\ \/ caddy' = op.up /\ Go("smoke")
       \/ caddy' \in {caddy, op.up} /\ NotReady
    /\ UNCHANGED <<files, images, apps, postgres, volume, accepted, owner>>

\* smoke, and ingestion_smoke when it is required.
Smoke ==
    /\ At("smoke")
    /\ \/ Go(IF op.goal = "undo" THEN "unlink" ELSE "switch")
       \/ NotReady
    /\ UNCHANGED <<files, host, accepted, owner>>

CanReturn(old, target) == SchemaOf[target] \in Supports[old]

\* Mutant: the journal goes before the old release runs again.
MutUndo ==
    /\ At("undo")
    /\ op.old # None /\ ~op.moving /\ CanReturn(op.old, op.target)
    /\ Stopped
    /\ pending' = None
    /\ Give([op EXCEPT !.pc = "services", !.up = op.old, !.goal = "undo"])
    /\ UNCHANGED <<releases, current, state, settings, dump, images, postgres, volume, accepted>>

\* Automatic rollback: only to a release that supports the target's schema, and
\* never across database runtimes.
Undo ==
    /\ At("undo")
    /\ IF op.old # None /\ ~op.moving /\ CanReturn(op.old, op.target)
       THEN \/ /\ Stopped
               /\ Give([op EXCEPT !.pc = "services", !.up = op.old, !.goal = "undo"])
            \/ PartlyStopped /\ Fail
       ELSE UNCHANGED <<apps, caddy>> /\ Fail
    /\ UNCHANGED <<files, images, postgres, volume, accepted, owner>>

Switch ==
    /\ At("switch")
    /\ current' = op.target
    /\ Go("record")
    /\ UNCHANGED <<releases, state, pending, settings, dump, host, accepted>>

\* Redeploying the running release keeps the previous one.
Record ==
    /\ At("record")
    /\ state' = [current |-> op.target,
                 previous |-> IF op.goal = "deploy" /\ op.old = op.target
                              THEN state.previous ELSE op.old,
                 dns |-> op.defer]
    /\ Go("unlink")
    /\ UNCHANGED <<releases, current, pending, settings, dump, host, accepted>>

Unlink ==
    /\ At("unlink")
    /\ pending' = None
    /\ IF op.goal = "deploy" THEN Go("token") ELSE Fail
    /\ UNCHANGED <<releases, current, state, settings, dump, host, accepted>>

\* The local token is removed once the database has its owner.
DropToken ==
    /\ At("token")
    /\ \/ token' = (IF owner THEN None ELSE token) /\ Go("prune")
       \/ UNCHANGED token /\ Fail
    /\ UNCHANGED <<releases, current, state, pending, env, dump, host, accepted, owner>>

-----------------------------------------------------------------------------
(* rollback, backup, smoke and prune-images.                                *)

Rollback ==
    /\ op = NoOp
    /\ pending = None /\ state # None /\ current # None
    /\ LET target == state.previous IN
       /\ target # None
       /\ RuntimeOf[current] = RuntimeOf[target]
       /\ SchemaOf[current] \in Supports[target]
       /\ pending' = [previous |-> current, target |-> target, phase |-> "rollback"]
       /\ \/ /\ Stopped
             /\ Give([pc |-> "services", target |-> target, first |-> FALSE, start |-> TRUE,
                      defer |-> FALSE, probe |-> FALSE, old |-> current, moving |-> FALSE,
                      counts |-> 0, up |-> target, goal |-> "rollback"])
          \/ PartlyStopped /\ Fail
    /\ UNCHANGED <<releases, current, state, settings, dump, images, postgres, volume, accepted>>

Backup ==
    /\ op = NoOp
    /\ current # None /\ postgres # None
    /\ dump' = Database
    /\ UNCHANGED <<releases, current, state, pending, settings, host, accepted, op>>

\* The smoke command, when it passes, ends the wait for the ingest domain.
SmokePassed ==
    /\ op = NoOp
    /\ current # None /\ state # None
    /\ caddy # None /\ apps # None
    /\ state' = [state EXCEPT !.dns = FALSE]
    /\ UNCHANGED <<releases, current, pending, settings, dump, host, accepted, op>>

\* Images of the current and previous releases and of every container stay.
Protected == {state.current, state.previous, apps, caddy, postgres} \ {None}

\* Cleanup stops at the first image it cannot remove.
Pruned ==
    /\ pending = None /\ state # None /\ current = state.current
    /\ state.previous # None => state.previous \in releases
    /\ Protected \subseteq images
    /\ \E gone \in SUBSET (images \ Protected) : images' = images \ gone

PruneAfterDeploy ==
    /\ At("prune")
    /\ Pruned \/ UNCHANGED images
    /\ Fail
    /\ UNCHANGED <<files, apps, caddy, postgres, volume, accepted, owner>>

PruneImages ==
    /\ op = NoOp
    /\ Pruned
    /\ UNCHANGED <<files, apps, caddy, postgres, volume, accepted, owner, op>>

-----------------------------------------------------------------------------
(* The installation's users and its operator.                               *)

\* A write is acknowledged while the public door, the services and PostgreSQL run.
AcceptWrite ==
    /\ apps # None /\ caddy # None /\ postgres # None
    /\ accepted < MaxWrites
    /\ accepted' = accepted + 1
    /\ volume' = [volume EXCEPT ![RuntimeOf[postgres]].rows = @ + 1]
    /\ UNCHANGED <<files, images, apps, caddy, postgres, owner, op>>

\* /setup with the token of the host, once; within 24 hours, which Accounts models.
CreateOwner ==
    /\ apps # None /\ caddy # None /\ postgres # None
    /\ token # None /\ token = env
    /\ ~owner
    /\ owner' = TRUE
    /\ UNCHANGED <<files, host, accepted, op>>

\* The recovery guide: the operator brings the previous release back where the
\* schema it finds is supported and, across runtimes, the old volume still has
\* every write; then archives the journal.
OperatorReturns ==
    /\ op = NoOp
    /\ pending # None /\ pending.previous # None
    /\ LET old == pending.previous
           kept == volume[RuntimeOf[old]]
       IN  /\ kept # None /\ kept.rows = accepted /\ kept.schema \in Supports[old]
           /\ apps' = old /\ caddy' = old /\ postgres' = old
           /\ images' = images \union {old}
           /\ current' = old
           /\ state' = IF state.current = old THEN state
                       ELSE [current |-> old, previous |-> None, dns |-> FALSE]
           /\ pending' = None
    /\ UNCHANGED <<releases, env, token, dump, volume, accepted, owner, op>>

Deploying ==
    \/ \E r \in Releases, first, start, defer, probe \in BOOLEAN : Begin(r, first, start, defer, probe)
    \/ Fetch \/ WriteToken \/ WriteEnv \/ Launch
    \/ CheckDeploy \/ Pull \/ Preflight \/ Validate \/ BackUpFirst
    \/ Stop \/ FinalDump \/ StartDatabase \/ Restore \/ Migrate
    \/ StartServices \/ StartProxy \/ Smoke \/ Undo
    \/ Switch \/ Record \/ Unlink \/ DropToken \/ PruneAfterDeploy
    \/ Rollback \/ Backup \/ SmokePassed \/ PruneImages

Unattended == Deploying \/ Crash \/ AcceptWrite \/ CreateOwner

Next == Unattended \/ OperatorReturns

Spec == Init /\ [][Next]_vars

\* The controller left to itself: an unfinished operation stays unfinished.
UnattendedSpec == Init /\ [][Unattended]_vars

-----------------------------------------------------------------------------
(* Properties.                                                              *)

\* Values each variable can take.
TypeOK ==
    /\ releases \subseteq Releases
    /\ images \subseteq Releases
    /\ {current, apps, caddy, postgres} \subseteq Releases \union {None}
    /\ state \in States \union {None}
    /\ pending \in Journals \union {None}
    /\ volume \in [Runtimes -> Contents \union {None}]
    /\ dump \in Contents \union {None}
    /\ accepted \in Nat
    /\ owner \in BOOLEAN

\* Whichever release runs, through updates, failures, crashes, rollbacks and the
\* move to a new database runtime, it runs on a database with every write that
\* was ever acknowledged: getexception.py's "must not lose new writes".
AcceptedWritesSurvive ==
    apps # None /\ postgres # None => Database # None /\ Database.rows = accepted

\* Without a journal an installed host is settled, wherever the controller may
\* have died: state.json, the link and the containers name one release, and the
\* previous one, if any, is still there with its images to roll back to.
NoJournalMeansSettled ==
    pending = None /\ state # None =>
        /\ state.current = current /\ apps = current /\ caddy = current
        /\ postgres # None
        /\ {state.current, state.previous} \ {None} \subseteq releases \intersect images

\* Until the owner exists the setup token on the host is the one whose hash the
\* installation was configured with, so /setup can be completed.
OwnerCanBeCreated == env # None /\ ~owner => token = env

\* "The previous release does not support the current database schema": rollback
\* starts a release only on a database whose schema that release supports.
RollbackOnSupportedSchema ==
    op # NoOp /\ op.goal = "rollback" /\ apps = op.target =>
        Database.schema \in Supports[op.target]

=============================================================================
