------------------------------ MODULE DeployProofs ------------------------------
(***************************************************************************)
(* Theorems about Deploy, for any releases, schemas, database runtimes and *)
(* number of writes.  The invariant says what the host looks like before   *)
(* every command of the controller, because it may die there.              *)
(*                                                                         *)
(* The second half is about Build, the CI job that deploys an application, *)
(* for any files, batches and number of attempts.  JobInv is inductive.    *)
(***************************************************************************)
EXTENDS Deploy, Build, FiniteSetTheorems, TLAPS

Early == {"fetch", "configure", "env", "launch", "check", "pull", "preflight", "validate",
          "backup", "stop"}
Moving == {"dump", "database", "restore", "migrate"}
Starting == {"services", "proxy", "smoke", "undo", "switch", "record", "unlink"}
Last == {"token", "prune"}
Chosen == {"preflight", "validate", "backup", "stop"}

OpFields == {"pc", "target", "old", "moving", "counts", "up", "goal", "defer"}

\* What an invocation knows.
OpShape ==
    /\ "pc" \in DOMAIN op
    /\ op.pc \in {"idle"} \union Early \union Moving \union Starting \union Last
    /\ op.pc # "idle" =>
          /\ OpFields \subseteq DOMAIN op
          /\ op.target \in Releases
          /\ op.old \in Releases \union {None}
          /\ op.goal \in {"deploy", "undo", "rollback"}
          /\ op.defer \in BOOLEAN
          /\ op.pc \in Early \union Moving => op.goal = "deploy"

\* The database of a runtime has every write.
Full(rt) == volume[rt] # None /\ volume[rt].rows = accepted

Good == postgres # None /\ Full(RuntimeOf[postgres])

\* Nothing was ever served.
NeverServed ==
    /\ accepted = 0 /\ apps = None
    /\ \A rt \in Runtimes : volume[rt] # None => volume[rt].rows = 0

Settled ==
    /\ current # None /\ state.current = current
    /\ apps = current /\ caddy = current
    /\ Good /\ RuntimeOf[postgres] = RuntimeOf[current]

Kept == releases \cap images

\* Without a journal the host is fresh or settled; a journal names the release
\* that can be brought back.
FilesInv ==
    /\ pending = None => IF state = None THEN NeverServed ELSE Settled
    /\ pending # None /\ pending.previous # None => state # None /\ pending.previous \in releases
    /\ state # None => {state.current, state.previous} \ {None} \subseteq Kept

OldInv == op.old # None => state # None /\ op.old = current /\ state.current = op.old

\* While the services are down nothing is written, and what the target's
\* database is made of is complete.
MoveInv ==
    /\ apps = None /\ pending # None /\ op.target \in Kept
    /\ op.moving = MovesDatabase(op.old, op.target)
    /\ OldInv
    /\ op.pc = "dump" => op.moving /\ Good /\ RuntimeOf[postgres] = RuntimeOf[op.old]
    /\ op.pc = "database" =>
          IF op.moving
          THEN dump # None /\ dump.rows = accepted /\ op.counts = accepted
          ELSE IF volume[RuntimeOf[op.target]] = None THEN accepted = 0
               ELSE volume[RuntimeOf[op.target]].rows = accepted
    /\ op.pc = "restore" =>
          op.moving /\ dump # None /\ dump.rows = accepted /\ postgres = op.target
    /\ op.pc = "migrate" => postgres = op.target /\ Good

\* While a release is started the database it is started on is complete.
StartInv ==
    /\ pending # None /\ Good
    /\ op.up \in Kept /\ op.up \in Releases /\ RuntimeOf[postgres] = RuntimeOf[op.up]
    /\ op.up = IF op.goal = "undo" THEN op.old ELSE op.target
    /\ op.goal = "deploy" => op.moving = MovesDatabase(op.old, op.target)
    /\ op.goal # "deploy" => op.old # None
    /\ op.old # None => op.old \in Kept /\ state # None
    /\ op.pc \in {"services", "proxy", "smoke", "undo", "switch"} => OldInv
    /\ op.pc = "undo" => op.goal = "deploy"
    /\ op.pc \in {"switch", "record"} => op.goal # "undo"
    /\ op.pc \in {"proxy", "smoke", "switch", "record", "unlink"} => apps = op.up
    /\ op.pc \in {"smoke", "switch", "record", "unlink"} => caddy = op.up
    /\ op.pc = "record" => current = op.target
    /\ op.pc = "unlink" => state # None /\ current = op.up /\ state.current = op.up
    /\ op.goal = "undo" /\ op.pc \in {"services", "proxy", "smoke"} => current = op.up

EarlyInv ==
    /\ pending = None
    /\ op.pc # "fetch" => op.target \in releases
    /\ op.pc \in Chosen => op.target \in images
    /\ op.pc \in Chosen \union {"pull"} => op.old = RunningRelease
    /\ op.pc \in {"validate", "backup", "stop"} => op.moving = MovesDatabase(op.old, op.target)

DeployInv ==
    /\ OpShape /\ TypeOK
    /\ AcceptedWritesSurvive
    /\ FilesInv
    /\ op.pc \in Early => EarlyInv
    /\ op.pc \in Moving => MoveInv
    /\ op.pc \in Starting => StartInv
    /\ op.pc \in Last => pending = None

-----------------------------------------------------------------------------

\* Each command of the controller keeps the invariant.  The definitions every
\* step expands are used throughout; the invariant's own only where they are cited.
USE ReleasesAssumption
    DEF Go, Give, Fail, At, NoOp, files, settings, host, Database, EmptyVolume, Touched, Stopped,
        PartlyStopped, NotReady, MaxOf, Pruned, Protected, CanReturn, MovesDatabase,
        RunningRelease, Early, Moving, Starting, Last, Chosen, OpFields, Runtimes, Contents

(* Commands that change one thing.                                          *)

USE DEF DeployInv, OpShape, TypeOK, States, AcceptedWritesSurvive, FilesInv, Full, Good, NeverServed,
        Settled, Kept, OldInv, EarlyInv, MoveInv, StartInv

LEMMA InitHolds == Init => DeployInv
<1> SUFFICES ASSUME Init PROVE DeployInv
  OBVIOUS
<1>1. volume \in [Runtimes -> Contents \union {None}]
  BY DEF Init
<1>2. TypeOK
  BY <1>1 DEF Init
<1>3. QED
  BY <1>2 DEF Init

LEMMA BeginKeeps ==
    ASSUME DeployInv, NEW r \in Releases, NEW first, NEW start, NEW defer \in BOOLEAN, NEW probe,
           Begin(r, first, start, defer, probe)
    PROVE  DeployInv'
  BY DEF Begin

LEMMA CrashKeeps == ASSUME DeployInv, Crash PROVE DeployInv'
  BY DEF Crash

LEMMA FetchKeeps == ASSUME DeployInv, Fetch PROVE DeployInv'
  BY DEF Fetch

LEMMA WriteTokenKeeps == ASSUME DeployInv, WriteToken PROVE DeployInv'
  BY DEF WriteToken

LEMMA WriteEnvKeeps == ASSUME DeployInv, WriteEnv PROVE DeployInv'
  BY DEF WriteEnv

LEMMA LaunchKeeps == ASSUME DeployInv, Launch PROVE DeployInv'
  BY DEF Launch

LEMMA PullKeeps == ASSUME DeployInv, Pull PROVE DeployInv'
  BY DEF Pull

LEMMA ValidateKeeps == ASSUME DeployInv, Validate PROVE DeployInv'
  BY DEF Validate

LEMMA BackUpFirstKeeps == ASSUME DeployInv, BackUpFirst PROVE DeployInv'
  BY DEF BackUpFirst

LEMMA RestoreKeeps == ASSUME DeployInv, Restore PROVE DeployInv'
  BY DEF Restore

LEMMA StartProxyKeeps == ASSUME DeployInv, StartProxy PROVE DeployInv'
  BY DEF StartProxy

LEMMA SmokeKeeps == ASSUME DeployInv, Smoke PROVE DeployInv'
  BY DEF Smoke

LEMMA SwitchKeeps == ASSUME DeployInv, Switch PROVE DeployInv'
  BY DEF Switch

LEMMA UnlinkKeeps == ASSUME DeployInv, Unlink PROVE DeployInv'
  BY DEF Unlink

LEMMA DropTokenKeeps == ASSUME DeployInv, DropToken PROVE DeployInv'
  BY DEF DropToken

LEMMA PruneAfterDeployKeeps == ASSUME DeployInv, PruneAfterDeploy PROVE DeployInv'
  BY DEF PruneAfterDeploy

LEMMA BackupKeeps == ASSUME DeployInv, Backup PROVE DeployInv'
  BY DEF Backup

LEMMA SmokePassedKeeps == ASSUME DeployInv, SmokePassed PROVE DeployInv'
  BY ZenonT(60) DEF SmokePassed

LEMMA PruneImagesKeeps == ASSUME DeployInv, PruneImages PROVE DeployInv'
  BY DEF PruneImages

LEMMA AcceptWriteKeeps == ASSUME DeployInv, AcceptWrite PROVE DeployInv'
<1>1. OpShape' /\ TypeOK' /\ AcceptedWritesSurvive'
  BY DEF AcceptWrite
<1>2. FilesInv' /\ (op'.pc \in Early => EarlyInv') /\ (op'.pc \in Last => pending' = None)
  BY DEF AcceptWrite
<1>3. (op'.pc \in Moving => MoveInv') /\ (op'.pc \in Starting => StartInv')
  BY DEF AcceptWrite
<1>4. QED
  BY ONLY <1>1, <1>2, <1>3 DEF DeployInv

LEMMA CreateOwnerKeeps == ASSUME DeployInv, CreateOwner PROVE DeployInv'
  BY DEF CreateOwner

LEMMA StutterKeeps == ASSUME DeployInv, UNCHANGED vars PROVE DeployInv'
  BY DEF vars

HIDE DEF DeployInv, OpShape, TypeOK, States, AcceptedWritesSurvive, FilesInv, Full, Good, NeverServed,
        Settled, Kept, OldInv, EarlyInv, MoveInv, StartInv

(* What an invocation knows after it learned two things at once.            *)

LEMMA WithOld ==
    ASSUME OpFields \subseteq DOMAIN op, NEW x, NEW y
    PROVE  LET q == [op EXCEPT !.pc = x, !.old = y] IN
           /\ OpFields \subseteq DOMAIN q /\ q.pc = x
           /\ q.target = op.target /\ q.old = y /\ q.moving = op.moving
           /\ q.counts = op.counts /\ q.up = op.up /\ q.goal = op.goal /\ q.defer = op.defer
  OBVIOUS

LEMMA WithMoving ==
    ASSUME OpFields \subseteq DOMAIN op, NEW x, NEW y
    PROVE  LET q == [op EXCEPT !.pc = x, !.moving = y] IN
           /\ OpFields \subseteq DOMAIN q /\ q.pc = x
           /\ q.target = op.target /\ q.old = op.old /\ q.moving = y
           /\ q.counts = op.counts /\ q.up = op.up /\ q.goal = op.goal /\ q.defer = op.defer
  OBVIOUS

LEMMA WithCounts ==
    ASSUME OpFields \subseteq DOMAIN op, NEW x, NEW y
    PROVE  LET q == [op EXCEPT !.pc = x, !.counts = y] IN
           /\ OpFields \subseteq DOMAIN q /\ q.pc = x
           /\ q.target = op.target /\ q.old = op.old /\ q.moving = op.moving
           /\ q.counts = y /\ q.up = op.up /\ q.goal = op.goal /\ q.defer = op.defer
  OBVIOUS

LEMMA WithUp ==
    ASSUME OpFields \subseteq DOMAIN op, NEW x, NEW y
    PROVE  LET q == [op EXCEPT !.pc = x, !.up = y] IN
           /\ OpFields \subseteq DOMAIN q /\ q.pc = x
           /\ q.target = op.target /\ q.old = op.old /\ q.moving = op.moving
           /\ q.counts = op.counts /\ q.up = y /\ q.goal = op.goal /\ q.defer = op.defer
  OBVIOUS

LEMMA WithUpGoal ==
    ASSUME OpFields \subseteq DOMAIN op, NEW x, NEW y, NEW z
    PROVE  LET q == [op EXCEPT !.pc = x, !.up = y, !.goal = z] IN
           /\ OpFields \subseteq DOMAIN q /\ q.pc = x
           /\ q.target = op.target /\ q.old = op.old /\ q.moving = op.moving
           /\ q.counts = op.counts /\ q.up = y /\ q.goal = z /\ q.defer = op.defer
  OBVIOUS

\* The journal a phase writes.
LEMMA JournalIs ==
    ASSUME op.old \in Releases \union {None}, op.target \in Releases, NEW ph \in Phases
    PROVE  Journal(ph) \in Journals /\ Journal(ph) # None /\ Journal(ph).previous = op.old
  BY DEF Journals, Journal

(* Commands that decide, write the journal or the state.                    *)

LEMMA CheckDeployKeeps == ASSUME DeployInv, CheckDeploy PROVE DeployInv'
<1> DEFINE q == [op EXCEPT !.pc = "pull", !.old = RunningRelease]
<1>1. OpFields \subseteq DOMAIN op /\ op.target \in Releases /\ op.old \in Releases \union {None}
  BY DEF CheckDeploy, DeployInv, OpShape
<1>2. op' = q \/ op' = [pc |-> "idle"]
  BY DEF CheckDeploy
<1>3. CASE op' = [pc |-> "idle"]
  BY <1>1, <1>3
     DEF CheckDeploy, DeployInv, OpShape, TypeOK, States, AcceptedWritesSurvive, FilesInv,
         Full, Good, NeverServed, Settled, Kept, OldInv, EarlyInv, MoveInv, StartInv
<1>4. CASE op' = q
  <2>1. /\ OpFields \subseteq DOMAIN q /\ q.pc = "pull"
        /\ q.target = op.target /\ q.old = RunningRelease /\ q.moving = op.moving
        /\ q.counts = op.counts /\ q.up = op.up /\ q.goal = op.goal /\ q.defer = op.defer
    BY <1>4, <1>1, WithOld, WithMoving, WithCounts, WithUp, WithUpGoal
  <2> HIDE DEF q
  <2>2. QED
    BY <1>1, <1>4, <2>1
       DEF CheckDeploy, DeployInv, OpShape, TypeOK, States, AcceptedWritesSurvive, FilesInv,
           Full, Good, NeverServed, Settled, Kept, OldInv, EarlyInv, MoveInv, StartInv
<1>5. QED
  BY <1>2, <1>3, <1>4

LEMMA PreflightKeeps == ASSUME DeployInv, Preflight PROVE DeployInv'
<1> DEFINE q == [op EXCEPT !.pc = "validate", !.moving = MovesDatabase(op.old, op.target)]
<1>1. OpFields \subseteq DOMAIN op /\ op.target \in Releases /\ op.old \in Releases \union {None}
  BY DEF Preflight, DeployInv, OpShape
<1>2. op' = q \/ op' = [pc |-> "idle"]
  BY DEF Preflight
<1>3. CASE op' = [pc |-> "idle"]
  BY <1>1, <1>3
     DEF Preflight, DeployInv, OpShape, TypeOK, States, AcceptedWritesSurvive, FilesInv, Full,
         Good, NeverServed, Settled, Kept, OldInv, EarlyInv, MoveInv, StartInv
<1>4. CASE op' = q
  <2>1. /\ OpFields \subseteq DOMAIN q /\ q.pc = "validate"
        /\ q.target = op.target /\ q.old = op.old /\ q.moving = MovesDatabase(op.old, op.target)
        /\ q.counts = op.counts /\ q.up = op.up /\ q.goal = op.goal /\ q.defer = op.defer
    BY <1>4, <1>1, WithOld, WithMoving, WithCounts, WithUp, WithUpGoal
  <2> HIDE DEF q
  <2>2. QED
    BY <1>1, <1>4, <2>1
       DEF Preflight, DeployInv, OpShape, TypeOK, States, AcceptedWritesSurvive, FilesInv,
           Full, Good, NeverServed, Settled, Kept, OldInv, EarlyInv, MoveInv, StartInv
<1>5. QED
  BY <1>2, <1>3, <1>4

LEMMA StopKeeps == ASSUME DeployInv, Stop PROVE DeployInv'
<1>1. /\ OpFields \subseteq DOMAIN op /\ op.target \in Releases /\ op.old \in Releases \union {None}
      /\ op.pc = "stop" /\ op.goal = "deploy"
  BY DEF Stop, DeployInv, OpShape
<1>2. /\ Journal("database") \in Journals /\ Journal("database") # None
      /\ Journal("database").previous = op.old
  <2>1. "database" \in Phases
    BY DEF Phases
  <2>2. QED
    BY <1>1, <2>1, JournalIs
<1>4. /\ pending' \in Journals \union {None}
      /\ (pending' # None /\ pending'.previous = op.old)
  BY <1>1, <1>2 DEF Stop, DeployInv, TypeOK
<1>10. /\ op.target \in Kept /\ op.moving = MovesDatabase(op.old, op.target)
       /\ OldInv /\ (op.old # None => Good /\ RuntimeOf[postgres] = RuntimeOf[op.old])
       /\ (op.old = None => apps = None /\ accepted = 0 /\ state = None)
       /\ (op.old = None => \A rt \in Runtimes : volume[rt] # None => volume[rt].rows = 0)
  BY <1>1
     DEF DeployInv, OpShape, TypeOK, States, AcceptedWritesSurvive, FilesInv, Full, Good,
         NeverServed, Settled, Kept, OldInv, EarlyInv, MoveInv, StartInv
<1>11. \/ op' = NoOp
       \/ /\ apps' = None /\ caddy' \in {caddy, None}
          /\ op' = [op EXCEPT !.pc = IF op.moving THEN "dump" ELSE "database"]
  BY <1>10
     DEF Stop, DeployInv, OpShape, TypeOK, States, AcceptedWritesSurvive, FilesInv, Full, Good,
         NeverServed, Settled, Kept, OldInv, EarlyInv, MoveInv, StartInv
<1>12. /\ UNCHANGED <<releases, current, state, settings, dump, images, postgres, volume, accepted>>
       /\ apps' \in {apps, None} /\ caddy' \in {caddy, None}
  BY <1>10
     DEF Stop, DeployInv, OpShape, TypeOK, States, AcceptedWritesSurvive, FilesInv, Full, Good,
         NeverServed, Settled, Kept, OldInv, EarlyInv, MoveInv, StartInv
<1>13. TypeOK' /\ FilesInv' /\ AcceptedWritesSurvive'
  BY <1>1, <1>4, <1>10, <1>12
     DEF DeployInv, OpShape, TypeOK, States, AcceptedWritesSurvive, FilesInv, Full, Good,
         NeverServed, Settled, Kept, OldInv, EarlyInv, MoveInv, StartInv
<1>14. CASE op' = NoOp
  BY <1>13, <1>14 DEF DeployInv, OpShape
<1>15. CASE op' # NoOp
  <2>1. /\ OpFields \subseteq DOMAIN op' /\ op'.pc = IF op.moving THEN "dump" ELSE "database"
        /\ op'.target = op.target /\ op'.old = op.old /\ op'.moving = op.moving
        /\ op'.goal = op.goal /\ op'.defer = op.defer
    BY <1>1, <1>11, <1>15
  <2>2. OpShape'
    BY <1>1, <2>1 DEF DeployInv, OpShape
  <2>3. MoveInv'
    BY ZenonT(60), <1>1, <1>4, <1>10, <1>11, <1>12, <1>15, <2>1
       DEF DeployInv, OpShape, TypeOK, States, AcceptedWritesSurvive, FilesInv, Full, Good,
           NeverServed, Settled, Kept, OldInv, EarlyInv, MoveInv, StartInv
  <2>4. QED
    BY <1>13, <2>1, <2>2, <2>3 DEF DeployInv
<1>9. QED
  BY <1>14, <1>15

LEMMA FinalDumpKeeps == ASSUME DeployInv, FinalDump PROVE DeployInv'
<1> DEFINE q == [op EXCEPT !.pc = "database", !.counts = Database.rows]
<1>1. /\ OpFields \subseteq DOMAIN op /\ op.target \in Releases /\ op.old \in Releases \union {None}
      /\ op.pc # "idle" /\ op.goal \in {"deploy", "undo", "rollback"}
  BY DEF FinalDump, DeployInv, OpShape
<1>2. /\ Journal("database-backup") \in Journals /\ Journal("database-backup") # None
      /\ Journal("database-backup").previous = op.old
  <2>1. "database-backup" \in Phases
    BY DEF Phases
  <2>2. QED
    BY <1>1, <2>1, JournalIs
<1>3. pending' = Journal("database-backup")
  BY DEF FinalDump
<1>4. /\ pending' \in Journals \union {None}
      /\ (pending' # None /\ pending'.previous = op.old)
  BY <1>1, <1>2, <1>3 DEF DeployInv, TypeOK
<1>5. op' = q \/ op' = [pc |-> "idle"]
  BY DEF FinalDump
<1>6. /\ OpFields \subseteq DOMAIN q /\ q.pc = "database"
      /\ q.target = op.target /\ q.old = op.old /\ q.moving = op.moving
      /\ q.counts = Database.rows /\ q.up = op.up /\ q.goal = op.goal /\ q.defer = op.defer
  BY <1>1, WithCounts, WithUp
<1> HIDE DEF q
<1>7. CASE op' = q
  BY <1>1, <1>4, <1>6, <1>7
     DEF FinalDump, DeployInv, OpShape, TypeOK, States, AcceptedWritesSurvive, FilesInv, Full,
         Good, NeverServed, Settled, Kept, OldInv, EarlyInv, MoveInv, StartInv
<1>8. CASE op' = [pc |-> "idle"]
  BY <1>1, <1>4, <1>8
     DEF FinalDump, DeployInv, OpShape, TypeOK, States, AcceptedWritesSurvive, FilesInv, Full,
         Good, NeverServed, Settled, Kept, OldInv, EarlyInv, MoveInv, StartInv
<1>9. QED
  BY <1>5, <1>7, <1>8

LEMMA StartDatabaseKeeps == ASSUME DeployInv, StartDatabase PROVE DeployInv'
<1>1. /\ OpFields \subseteq DOMAIN op /\ op.target \in Releases /\ op.old \in Releases \union {None}
      /\ op.pc # "idle" /\ op.goal \in {"deploy", "undo", "rollback"}
  BY DEF StartDatabase, DeployInv, OpShape
<1>2. /\ Journal("database-restore") \in Journals /\ Journal("database-restore") # None
      /\ Journal("database-restore").previous = op.old
  <2>1. "database-restore" \in Phases
    BY DEF Phases
  <2>2. QED
    BY <1>1, <2>1, JournalIs
<1>3. pending' = Journal("database-restore") \/ pending' = pending
  BY DEF StartDatabase
<1>4. /\ pending' \in Journals \union {None}
      /\ (pending' # None /\ pending'.previous = op.old) \/ pending' = pending
  BY <1>1, <1>2, <1>3 DEF DeployInv, TypeOK
<1>5. QED
  BY <1>1, <1>4
     DEF StartDatabase, DeployInv, OpShape, TypeOK, States, AcceptedWritesSurvive, FilesInv,
         Full, Good, NeverServed, Settled, Kept, OldInv, EarlyInv, MoveInv, StartInv

LEMMA MigrateKeeps == ASSUME DeployInv, Migrate PROVE DeployInv'
<1> DEFINE q == [op EXCEPT !.pc = "services", !.up = op.target]
<1>1. /\ OpFields \subseteq DOMAIN op /\ op.target \in Releases /\ op.old \in Releases \union {None}
      /\ op.pc # "idle" /\ op.goal \in {"deploy", "undo", "rollback"}
  BY DEF Migrate, DeployInv, OpShape
<1>2. /\ Journal("migration") \in Journals /\ Journal("migration") # None
      /\ Journal("migration").previous = op.old
  <2>1. "migration" \in Phases
    BY DEF Phases
  <2>2. QED
    BY <1>1, <2>1, JournalIs
<1>3. pending' = Journal("migration")
  BY DEF Migrate
<1>4. /\ pending' \in Journals \union {None}
      /\ (pending' # None /\ pending'.previous = op.old)
  BY <1>1, <1>2, <1>3 DEF DeployInv, TypeOK
<1>5. op' = q \/ op' = [pc |-> "idle"]
  BY DEF Migrate
<1>6. /\ OpFields \subseteq DOMAIN q /\ q.pc = "services"
      /\ q.target = op.target /\ q.old = op.old /\ q.moving = op.moving
      /\ q.counts = op.counts /\ q.up = op.target /\ q.goal = op.goal /\ q.defer = op.defer
  BY <1>1, WithCounts, WithUp
<1> HIDE DEF q
<1>7. CASE op' = q
  BY <1>1, <1>4, <1>6, <1>7
     DEF Migrate, DeployInv, OpShape, TypeOK, States, AcceptedWritesSurvive, FilesInv, Full,
         Good, NeverServed, Settled, Kept, OldInv, EarlyInv, MoveInv, StartInv
<1>8. CASE op' = [pc |-> "idle"]
  BY <1>1, <1>4, <1>8
     DEF Migrate, DeployInv, OpShape, TypeOK, States, AcceptedWritesSurvive, FilesInv, Full,
         Good, NeverServed, Settled, Kept, OldInv, EarlyInv, MoveInv, StartInv
<1>9. QED
  BY <1>5, <1>7, <1>8

LEMMA StartServicesKeeps == ASSUME DeployInv, StartServices PROVE DeployInv'
<1>1. /\ OpFields \subseteq DOMAIN op /\ op.target \in Releases /\ op.old \in Releases \union {None}
      /\ op.pc # "idle" /\ op.goal \in {"deploy", "undo", "rollback"}
  BY DEF StartServices, DeployInv, OpShape
<1>2. /\ Journal("start") \in Journals /\ Journal("start") # None
      /\ Journal("start").previous = op.old
  <2>1. "start" \in Phases
    BY DEF Phases
  <2>2. QED
    BY <1>1, <2>1, JournalIs
<1>3. pending' = Journal("start") \/ pending' = pending
  BY DEF StartServices
<1>4. /\ pending' \in Journals \union {None}
      /\ (pending' # None /\ pending'.previous = op.old) \/ pending' = pending
  BY <1>1, <1>2, <1>3 DEF DeployInv, TypeOK
<1>5. QED
  BY <1>1, <1>4
     DEF StartServices, DeployInv, OpShape, TypeOK, States, AcceptedWritesSurvive, FilesInv,
         Full, Good, NeverServed, Settled, Kept, OldInv, EarlyInv, MoveInv, StartInv

LEMMA UndoKeeps == ASSUME DeployInv, Undo PROVE DeployInv'
<1> DEFINE q == [op EXCEPT !.pc = "services", !.up = op.old, !.goal = "undo"]
<1>1. /\ OpFields \subseteq DOMAIN op /\ op.target \in Releases /\ op.old \in Releases \union {None}
      /\ op.pc = "undo" /\ op.goal = "deploy"
  BY DEF Undo, DeployInv, OpShape, StartInv
<1>2. (op' = q /\ op.old # None) \/ op' = [pc |-> "idle"]
  BY DEF Undo
<1>3. CASE op' = [pc |-> "idle"]
  BY <1>1, <1>3
     DEF Undo, DeployInv, OpShape, TypeOK, States, AcceptedWritesSurvive, FilesInv, Full, Good,
         NeverServed, Settled, Kept, OldInv, EarlyInv, MoveInv, StartInv
<1>4. CASE op' = q /\ op.old # None
  <2>1. /\ OpFields \subseteq DOMAIN q /\ q.pc = "services"
        /\ q.target = op.target /\ q.old = op.old /\ q.moving = op.moving
        /\ q.counts = op.counts /\ q.up = op.old /\ q.goal = "undo" /\ q.defer = op.defer
    BY <1>4, <1>1, WithUpGoal
  <2> HIDE DEF q
  <2>2. /\ UNCHANGED <<files, images, postgres, volume, accepted, owner>>
        /\ apps' = None /\ caddy' = None /\ ~op.moving
    BY <1>4, <2>1 DEF Undo
  <2>3. /\ OpShape' /\ TypeOK' /\ AcceptedWritesSurvive'
    BY <1>1, <1>4, <2>1, <2>2
       DEF DeployInv, OpShape, TypeOK, States, AcceptedWritesSurvive, FilesInv, Full, Good,
           NeverServed, Settled, Kept, OldInv, EarlyInv, MoveInv, StartInv
  <2>4. FilesInv'
    BY <1>1, <1>4, <2>1, <2>2
       DEF DeployInv, OpShape, TypeOK, States, AcceptedWritesSurvive, FilesInv, Full, Good,
           NeverServed, Settled, Kept, OldInv, EarlyInv, MoveInv, StartInv
  <2>5. StartInv'
    BY ZenonT(60), <1>1, <1>4, <2>1, <2>2
       DEF DeployInv, OpShape, TypeOK, States, AcceptedWritesSurvive, FilesInv, Full, Good,
           NeverServed, Settled, Kept, OldInv, EarlyInv, MoveInv, StartInv
  <2>6. QED
    BY <1>4, <2>1, <2>3, <2>4, <2>5 DEF DeployInv
<1>5. QED
  BY <1>2, <1>3, <1>4

LEMMA RecordKeeps == ASSUME DeployInv, Record PROVE DeployInv'
<1> DEFINE last == IF op.goal = "deploy" /\ op.old = op.target THEN state.previous ELSE op.old
<1>1. /\ OpFields \subseteq DOMAIN op /\ op.target \in Releases /\ op.old \in Releases \union {None}
      /\ op.defer \in BOOLEAN /\ op.pc = "record" /\ op.goal \in {"deploy", "rollback"}
  BY DEF Record, DeployInv, OpShape, StartInv
<1>2. last \in Releases \union {None} /\ {op.target, last} \ {None} \subseteq Kept
  BY <1>1
     DEF DeployInv, OpShape, TypeOK, States, AcceptedWritesSurvive, FilesInv, Full, Good,
         NeverServed, Settled, Kept, OldInv, EarlyInv, MoveInv, StartInv
<1>3. state' = [current |-> op.target, previous |-> last, dns |-> op.defer]
  BY DEF Record
<1>4. state' \in States /\ state' # None /\ state'.current = op.target /\ state'.previous = last
  BY <1>1, <1>2, <1>3 DEF States
<1> HIDE DEF last
<1>5. QED
  BY <1>1, <1>2, <1>4
     DEF Record, DeployInv, OpShape, TypeOK, States, AcceptedWritesSurvive, FilesInv, Full,
         Good, NeverServed, Settled, Kept, OldInv, EarlyInv, MoveInv, StartInv

LEMMA RollbackKeeps == ASSUME DeployInv, Rollback PROVE DeployInv'
<1> DEFINE to == state.previous
<1>1. /\ op = NoOp /\ pending = None /\ state # None /\ current # None
      /\ to # None /\ RuntimeOf[current] = RuntimeOf[to]
      /\ apps' \in {apps, None} /\ caddy' \in {caddy, None}
      /\ UNCHANGED <<releases, current, state, settings, dump, images, postgres, volume, accepted>>
  BY DEF Rollback, DeployInv, FilesInv, Settled
<1>2. /\ to \in Releases /\ current \in Releases /\ to \in Kept /\ current \in Kept
      /\ Good /\ RuntimeOf[postgres] = RuntimeOf[current] /\ state.current = current
  BY <1>1
     DEF DeployInv, OpShape, TypeOK, States, AcceptedWritesSurvive, FilesInv, Full, Good,
         NeverServed, Settled, Kept, OldInv, EarlyInv, MoveInv, StartInv
<1>3. pending' = [previous |-> current, target |-> to, phase |-> "rollback"]
  BY DEF Rollback
<1>4. pending' \in Journals /\ pending' # None /\ pending'.previous = current
  <2>1. "rollback" \in Phases
    BY DEF Phases
  <2>2. QED
    BY <1>2, <1>3, <2>1 DEF Journals
<1>5. TypeOK' /\ FilesInv' /\ AcceptedWritesSurvive'
  BY <1>1, <1>2, <1>4
     DEF DeployInv, OpShape, TypeOK, States, AcceptedWritesSurvive, FilesInv, Full, Good,
         NeverServed, Settled, Kept, OldInv, EarlyInv, MoveInv, StartInv
<1>6. CASE op' = NoOp
  BY <1>5, <1>6 DEF DeployInv, OpShape
<1>7. CASE op' # NoOp
  <2>1. /\ apps' = None /\ caddy' = None
        /\ op' = [pc |-> "services", target |-> to, first |-> FALSE, start |-> TRUE,
                  defer |-> FALSE, probe |-> FALSE, old |-> current, moving |-> FALSE,
                  counts |-> 0, up |-> to, goal |-> "rollback"]
    BY <1>7 DEF Rollback
  <2>2. /\ OpFields \subseteq DOMAIN op' /\ op'.pc = "services"
        /\ op'.target = to /\ op'.old = current /\ op'.up = to
        /\ op'.goal = "rollback" /\ op'.defer = FALSE
    BY <2>1
  <2> HIDE DEF to
  <2>3. OpShape'
    BY <1>2, <2>2 DEF OpShape
  <2>4. StartInv'
    BY <1>1, <1>2, <1>4, <2>1, <2>2
       DEF DeployInv, OpShape, TypeOK, States, AcceptedWritesSurvive, FilesInv, Full, Good,
           NeverServed, Settled, Kept, OldInv, EarlyInv, MoveInv, StartInv
  <2>5. QED
    BY <1>5, <2>2, <2>3, <2>4 DEF DeployInv
<1>8. QED
  BY <1>6, <1>7

LEMMA OperatorReturnsKeeps == ASSUME DeployInv, OperatorReturns PROVE DeployInv'
<1> DEFINE back == pending.previous
<1> DEFINE fresh == [current |-> back, previous |-> None, dns |-> FALSE]
<1>1. /\ op = NoOp /\ pending # None /\ back # None
      /\ volume[RuntimeOf[back]] # None /\ volume[RuntimeOf[back]].rows = accepted
      /\ apps' = back /\ caddy' = back /\ postgres' = back /\ current' = back
      /\ images' = images \union {back} /\ pending' = None
      /\ state' = IF state.current = back THEN state ELSE fresh
      /\ UNCHANGED <<releases, env, token, dump, volume, accepted, owner, op>>
  BY DEF OperatorReturns
<1>2. back \in Releases /\ back \in releases /\ state # None /\ state \in States
  BY <1>1 DEF DeployInv, TypeOK, FilesInv, Journals
<1>3. fresh \in States /\ fresh # None /\ fresh.current = back /\ fresh.previous = None
  <2>1. fresh \in States
    BY <1>2 DEF States
  <2>2. fresh # None
    BY <2>1
  <2>3. fresh.current = back /\ fresh.previous = None
    OBVIOUS
  <2>4. QED
    BY <2>1, <2>2, <2>3
<1> HIDE DEF fresh
<1>4. /\ state' \in States /\ state' # None /\ state'.current = back
      /\ state'.previous \in {state.previous, None}
  BY <1>1, <1>2, <1>3
<1> HIDE DEF back
<1>5. TypeOK' /\ AcceptedWritesSurvive'
  BY <1>1, <1>2, <1>4
     DEF DeployInv, OpShape, TypeOK, States, AcceptedWritesSurvive, FilesInv, Full, Good,
         NeverServed, Settled, Kept, OldInv, EarlyInv, MoveInv, StartInv
<1>6. Settled'
  BY <1>1, <1>2, <1>4
     DEF DeployInv, OpShape, TypeOK, States, AcceptedWritesSurvive, FilesInv, Full, Good,
         NeverServed, Settled, Kept, OldInv, EarlyInv, MoveInv, StartInv
<1>7. FilesInv'
  BY <1>1, <1>2, <1>4, <1>6 DEF DeployInv, FilesInv, Kept
<1>8. QED
  BY <1>1, <1>5, <1>7 DEF DeployInv, OpShape

-----------------------------------------------------------------------------

\* Every step, of the controller, its users or its operator, keeps the invariant.
LEMMA StepKeeps == DeployInv /\ [Next]_vars => DeployInv'
<1>1. ASSUME DeployInv, Next PROVE DeployInv'
  BY <1>1, BeginKeeps, FetchKeeps, WriteTokenKeeps, WriteEnvKeeps, LaunchKeeps, CheckDeployKeeps,
         PullKeeps, PreflightKeeps, ValidateKeeps, BackUpFirstKeeps, StopKeeps, FinalDumpKeeps,
         StartDatabaseKeeps, RestoreKeeps, MigrateKeeps, StartServicesKeeps, StartProxyKeeps,
         SmokeKeeps, UndoKeeps, SwitchKeeps, RecordKeeps, UnlinkKeeps, DropTokenKeeps,
         PruneAfterDeployKeeps, RollbackKeeps, BackupKeeps, SmokePassedKeeps, PruneImagesKeeps,
         CrashKeeps, AcceptWriteKeeps, CreateOwnerKeeps, OperatorReturnsKeeps
     DEF Next, Unattended, Deploying
<1>2. QED
  BY <1>1, StutterKeeps

\* Before every command of the controller, and wherever it dies, the host is as
\* DeployInv says.
THEOREM HostInvariant == Spec => []DeployInv
<1>1. Init => DeployInv
  BY InitHolds
<1>2. DeployInv /\ [Next]_vars => DeployInv'
  BY StepKeeps
<1>3. QED
  BY <1>1, <1>2, PTL DEF Spec

\* Every file, container and volume holds what its kind can.
THEOREM TypesHold == Spec => []TypeOK
<1>1. DeployInv => TypeOK
  BY DEF DeployInv
<1>2. QED
  BY <1>1, HostInvariant, PTL

\* deploy, rollback and the recovery guide: whichever release runs, after any
\* update, failure, crash or move of the database, it runs on a database with
\* every write that was ever acknowledged.
THEOREM WritesSurvive == Spec => []AcceptedWritesSurvive
<1>1. DeployInv => AcceptedWritesSurvive
  BY DEF DeployInv
<1>2. QED
  BY <1>1, HostInvariant, PTL

\* deploy and rollback unlink pending.json last: an installed host without a
\* journal runs one release throughout, and can still go back to the previous.
THEOREM HostIsSettled == Spec => []NoJournalMeansSettled
<1>1. DeployInv => NoJournalMeansSettled
  BY DEF DeployInv, FilesInv, Settled, Good, Kept, NoJournalMeansSettled
<1>2. QED
  BY <1>1, HostInvariant, PTL

\* configure reuses the token an earlier attempt left, and .env keeps its hash:
\* until the owner exists /setup can be completed, whenever the controller dies.
THEOREM SetupStaysPossible == Spec => []OwnerCanBeCreated
<1>1. Init => OwnerCanBeCreated
  BY DEF Init, OwnerCanBeCreated
<1>2. ASSUME OwnerCanBeCreated, [Next]_vars PROVE OwnerCanBeCreated'
  <2>1. CASE UNCHANGED settings
    BY <1>2, <2>1 DEF OwnerCanBeCreated
  <2>2. CASE WriteToken
    BY <1>2, <2>2 DEF OwnerCanBeCreated, WriteToken
  <2>3. CASE WriteEnv
    BY <1>2, <2>3 DEF OwnerCanBeCreated, WriteEnv
  <2>4. CASE DropToken
    BY <1>2, <2>4 DEF OwnerCanBeCreated, DropToken
  <2>5. CASE CreateOwner
    BY <1>2, <2>5 DEF OwnerCanBeCreated, CreateOwner
  <2>6. QED
    BY <1>2, <2>1, <2>2, <2>3, <2>4, <2>5
       DEF vars, Next, Unattended, Deploying, Begin, Fetch, Launch, CheckDeploy, Pull, Preflight,
              Validate, BackUpFirst, Stop, FinalDump, StartDatabase, Restore, Migrate,
              StartServices, StartProxy, Smoke, Undo, Switch, Record, Unlink, PruneAfterDeploy,
              Rollback, Backup, SmokePassed, PruneImages, Crash, AcceptWrite, OperatorReturns
<1>3. QED
  BY <1>1, <1>2, PTL DEF Spec

-----------------------------------------------------------------------------
(* Build: the invariant of a CI job.                                        *)

Preparing == {"start", "context", "build", "prepare", "copy", "swap", "unlink", "rebuild"}
Uploading == {"begin", "put", "finish", "poll"}

\* The files of the job.
Prepared(js) == \A f \in Files : js[f] = "prepared"

\* What the private directory has while the output is prepared, and what the
\* check has found when the application deploys.
PrepInv ==
    /\ pc \in Preparing => ~mapsDirectory /\ deployed = Null
    /\ pc \in {"start", "context", "build", "prepare"} => private = {}
    /\ pc = "copy" => \E k \in 0 .. BatchCount - 1 : private = 1 .. k
    /\ pc \in {"swap", "unlink"} => private = Batches
    /\ pc = "unlink" => Prepared(public.js)
    /\ pc \in {"check", "deploy"} /\ mapsDirectory => private = Batches /\ Prepared(public.js)
    /\ pc = "deploy" => Safe

\* Maps are uploaded for what was deployed.
HandInv ==
    /\ DeployedIsSafe
    /\ pc \in Uploading \cup {"register"} => deployed # Null
    /\ pc \in Uploading => mapsDirectory
    /\ deployed # Null /\ mapsDirectory => Prepared(deployed.js)

\* What the server has of the batches the job is done with.
ServerInv ==
    /\ \A b \in Batches : upload[b] \in {"pending", "ready"} =>
          \A f \in Files : BatchOf[f] = b => f \in stored
    /\ ~failed => \A b \in Batches : b < batch => upload[b] = "ready"
    /\ registration = "registered" => registered
    /\ maps = "ready" =>
          /\ pc \in {"clean", "end"} /\ mapsDirectory /\ deployed # Null
          /\ \A b \in Batches : upload[b] = "ready"

JobInv == BuildTypeOK /\ PrepInv /\ HandInv /\ ServerInv

LEMMA JobInit == BuildInit => JobInv
<1> SUFFICES ASSUME BuildInit PROVE JobInv
  OBVIOUS
<1>1. BuildTypeOK
  <2>1. 1 \in Batches /\ 0 \in 0 .. Attempts - 1
    BY BuildAssumption DEF Batches
  <2>2. PICK stale \in SUBSET {"plain", "prepared"} :
          public = [js |-> [f \in Files |-> "none"], map |-> {}, stale |-> stale, stray |-> FALSE]
    BY DEF BuildInit
  <2>3. public \in Outputs
    BY <2>2 DEF Outputs, Scripts
  <2>4. QED
    BY <2>1, <2>3 DEF BuildInit, BuildTypeOK
<1>2. PrepInv
  BY DEF BuildInit, PrepInv
<1>3. HandInv
  BY DEF BuildInit, HandInv, DeployedIsSafe, Uploading
<1>4. ServerInv
  <2>1. \A b \in Batches : ~(b < 1)
    BY BuildAssumption DEF Batches
  <2>2. QED
    BY <2>1 DEF BuildInit, ServerInv
<1>5. QED
  BY <1>1, <1>2, <1>3, <1>4 DEF JobInv

-----------------------------------------------------------------------------
(* Up to the deployment.                                                   *)

\* Nothing is reported as ready before the job is at its end.
LEMMA NothingReady ==
    ASSUME JobInv, UNCHANGED <<upload, stored, registered, batch, failed, registration>>,
           maps' = maps \/ maps' # "ready", pc \notin {"clean", "end"}
    PROVE  ServerInv'
  BY DEF JobInv, ServerInv

\* The answer about the context.
LEMMA ContextKeeps ==
    ASSUME JobInv,
           \/ NoIdentity \/ AskContext \/ ContextTrouble
           \/ \E answer \in {"maps", "build", "skip", "foreign"} : Answer(answer),
           UNCHANGED production
    PROVE  JobInv'
<1>1. /\ pc \in {"start", "context"} /\ pc' \in {"start", "context", "build"}
      /\ UNCHANGED <<public, private, root, mapsDirectory, deployed, registration, batch, puts,
                     overdue, failed, upload, stored, registered>>
      /\ maps' \in {maps, "failed", "incomplete", "disabled"}
  BY DEF NoIdentity, AskContext, ContextTrouble, Answer, local, result, calls, server
<1>2. context' \in {Null, "maps", "build"}
  BY DEF NoIdentity, AskContext, ContextTrouble, Answer, Valid, local, JobInv, BuildTypeOK
<1>3. tries' \in 0 .. Attempts - 1
  BY BuildAssumption DEF NoIdentity, AskContext, ContextTrouble, Answer, calls, JobInv, BuildTypeOK, Again
<1>4. BuildTypeOK'
  BY <1>1, <1>2, <1>3 DEF JobInv, BuildTypeOK
<1>5. PrepInv'
  BY <1>1 DEF JobInv, PrepInv, Preparing
<1>6. HandInv'
  BY <1>1 DEF JobInv, HandInv, DeployedIsSafe, Uploading
<1>7. ServerInv'
  <2>1. maps' = maps \/ maps' # "ready"
    BY <1>1
  <2>2. pc \notin {"clean", "end"}
    BY <1>1
  <2>3. QED
    BY <1>1, <2>1, <2>2, NothingReady
<1>8. QED
  BY <1>4, <1>5, <1>6, <1>7 DEF JobInv

LEMMA BuiltType ==
    ASSUME NEW old \in Outputs, NEW wanted \in BOOLEAN, NEW new \in Built(old, wanted)
    PROVE  new \in Outputs
<1>1. Fresh(wanted) \in Outputs
  BY DEF Fresh, Outputs, Scripts
<1>2. ASSUME NEW stray \in BOOLEAN
      PROVE  [js |-> [f \in Files |-> IF wanted \/ old.js[f] = "none" THEN "plain" ELSE old.js[f]],
              map |-> IF wanted THEN Files ELSE old.map,
              stale |-> old.stale, stray |-> stray] \in Outputs
  BY DEF Outputs, Scripts
<1>3. QED
  BY <1>1, <1>2 DEF Built

LEMMA BuildKeeps ==
    ASSUME JobInv, FirstBuild \/ Rebuild, UNCHANGED production
    PROVE  JobInv'
<1>1. /\ pc \in {"build", "rebuild"} /\ pc' \in {"prepare", "check", "clean"}
      /\ pc' = "prepare" => pc = "build"
      /\ UNCHANGED <<context, private, root, mapsDirectory, deployed, result, calls, server>>
  BY DEF FirstBuild, Rebuild, RunBuild
<1>2. public' \in Outputs
  BY BuiltType DEF FirstBuild, Rebuild, RunBuild, JobInv, BuildTypeOK
<1>3. BuildTypeOK'
  BY <1>1, <1>2 DEF JobInv, BuildTypeOK, result, calls, server
<1>4. PrepInv'
  BY <1>1 DEF JobInv, PrepInv, Preparing
<1>5. HandInv'
  BY <1>1 DEF JobInv, HandInv, DeployedIsSafe, Uploading
<1>6. ServerInv'
  <2>1. /\ pc \notin {"clean", "end"}
        /\ UNCHANGED <<upload, stored, registered, batch, failed, registration, maps>>
    BY <1>1 DEF result, calls, server
  <2>2. QED
    BY <2>1, NothingReady
<1>7. QED
  BY <1>3, <1>4, <1>5, <1>6 DEF JobInv

\* The steps of prepareBuild.
LEMMA PrepareKeeps ==
    ASSUME JobInv, UNCHANGED production,
           \/ Prepare \/ PrepareFails
           \/ \E b \in Batches : CopyBatch(b)
           \/ \E f \in Files : Swap(f) \/ UnlinkMap(f)
    PROVE  JobInv'
<1>1. /\ pc \in {"prepare", "copy", "swap", "unlink"}
      /\ UNCHANGED <<context, deployed, registration, calls, server>>
      /\ maps' \in {maps, "failed"}
  BY DEF Prepare, PrepareFails, CopyBatch, Swap, UnlinkMap, result
<1>2. ~mapsDirectory /\ deployed = Null
  BY <1>1 DEF JobInv, PrepInv, Preparing
<1>3. /\ pc' \in {"copy", "swap", "unlink", "rebuild", "check"}
      /\ root' \in BOOLEAN /\ mapsDirectory' \in BOOLEAN /\ private' \subseteq Batches
  BY <1>1, <1>2 DEF Prepare, PrepareFails, CopyBatch, Swap, UnlinkMap, AfterFailure, PrepareMaps,
                    JobInv, BuildTypeOK
<1>4. public' \in Outputs
  <2>1. public \in Outputs
    BY DEF JobInv, BuildTypeOK
  <2>2. ASSUME NEW f \in Files, Swap(f) PROVE public' \in Outputs
    BY <2>1, <2>2 DEF Swap, Outputs, Scripts
  <2>3. ASSUME NEW f \in Files, UnlinkMap(f) PROVE public' \in Outputs
    BY <2>1, <2>3 DEF UnlinkMap, Outputs
  <2>4. CASE UNCHANGED public
    BY <2>1, <2>4
  <2>5. QED
    BY <2>2, <2>3, <2>4 DEF Prepare, PrepareFails, CopyBatch
<1>5. BuildTypeOK'
  BY <1>1, <1>3, <1>4 DEF JobInv, BuildTypeOK, calls, server
<1>6. PrepInv'
  <2>1. CASE Prepare
    <3>1. private' = {} /\ pc' = "copy" /\ ~mapsDirectory'
      BY <1>1, <1>2, <2>1 DEF Prepare, JobInv, PrepInv
    <3>2. {} = 1 .. 0 /\ 0 \in 0 .. BatchCount - 1
      BY BuildAssumption
    <3>3. QED
      BY <1>1, <1>2, <3>1, <3>2 DEF PrepInv
  <2>2. CASE PrepareFails
    BY <1>1, <1>2, <2>2 DEF PrepareFails, AfterFailure, PrepInv, Preparing
  <2>3. ASSUME NEW b \in Batches, CopyBatch(b) PROVE PrepInv'
    <3>1. PICK k \in 0 .. BatchCount - 1 : private = 1 .. k
      BY <2>3 DEF CopyBatch, JobInv, PrepInv
    <3>2. k \in Nat /\ k + 1 \in 1 .. BatchCount
      BY <3>1, BuildAssumption
    <3>3. Cardinality(private) = k
      BY <3>1, <3>2, FS_Interval
    <3>4. b = k + 1 /\ private' = 1 .. (k + 1)
      BY <2>3, <3>1, <3>2, <3>3 DEF CopyBatch, PrepareMaps
    <3>5. CASE b = BatchCount
      BY <1>1, <1>2, <2>3, <3>4, <3>5 DEF CopyBatch, PrepInv, Batches
    <3>6. CASE b # BatchCount
      <4>1. k + 1 \in 0 .. BatchCount - 1 /\ pc' = "copy"
        BY <2>3, <3>2, <3>4, <3>6, BuildAssumption DEF CopyBatch
      <4>2. QED
        BY <1>1, <1>2, <2>3, <3>4, <4>1 DEF CopyBatch, PrepInv
    <3>7. QED
      BY <3>5, <3>6
  <2>4. ASSUME NEW f \in Files, Swap(f) PROVE PrepInv'
    <3>1. /\ private' = Batches /\ pc' \in {"unlink", "swap"} /\ ~mapsDirectory'
          /\ deployed' = Null
      BY <1>2, <2>4 DEF Swap, JobInv, PrepInv
    <3>2. pc' = "unlink" => Prepared(public'.js)
      BY <2>4 DEF Swap, Prepared
    <3>3. QED
      BY <3>1, <3>2 DEF PrepInv
  <2>5. ASSUME NEW f \in Files, UnlinkMap(f) PROVE PrepInv'
    <3>1. private' = Batches /\ Prepared(public.js)
      BY <2>5 DEF UnlinkMap, JobInv, PrepInv
    <3>2. public'.js = public.js
      BY <2>5 DEF UnlinkMap, JobInv, BuildTypeOK, Outputs
    <3>3. Prepared(public'.js)
      BY <3>1, <3>2 DEF Prepared
    <3>4. \/ pc' = "check"
          \/ pc' = "unlink" /\ ~mapsDirectory'
      BY <1>2, <2>5 DEF UnlinkMap
    <3>5. QED
      BY <1>1, <1>2, <3>1, <3>3, <3>4 DEF PrepInv, Preparing
  <2>6. QED
    BY <2>1, <2>2, <2>3, <2>4, <2>5
<1>7. HandInv'
  BY <1>1, <1>2, <1>3 DEF JobInv, HandInv, DeployedIsSafe, Uploading
<1>8. ServerInv'
  <2>1. /\ pc \notin {"clean", "end"}
        /\ maps' = maps \/ maps' # "ready"
        /\ UNCHANGED <<upload, stored, registered, batch, failed, registration>>
    BY <1>1 DEF calls, server
  <2>2. QED
    BY <2>1, NothingReady
<1>9. QED
  BY <1>5, <1>6, <1>7, <1>8 DEF JobInv

\* assertPublicOutput, the application's deployment, the end and a cancellation.
LEMMA LastKeeps ==
    ASSUME JobInv, UNCHANGED production, CheckOutput \/ Deploy \/ Clean \/ Kill
    PROVE  JobInv'
<1>1. CASE CheckOutput
  <2>1. /\ pc = "check" /\ pc' \in {"deploy", "clean"} /\ UNCHANGED <<local, result, calls, server>>
        /\ pc' = "deploy" => Safe
    BY <1>1 DEF CheckOutput
  <2>2. BuildTypeOK'
    BY <2>1 DEF JobInv, BuildTypeOK, local, result, calls, server
  <2>3. PrepInv'
    BY <2>1 DEF JobInv, PrepInv, Preparing, local, Safe
  <2>4. HandInv'
    BY <2>1 DEF JobInv, HandInv, DeployedIsSafe, Uploading, local
  <2>5. ServerInv'
    <3>1. /\ pc \notin {"clean", "end"}
          /\ UNCHANGED <<upload, stored, registered, batch, failed, registration, maps>>
      BY <2>1 DEF result, calls, server
    <3>2. QED
      BY <3>1, NothingReady
  <2>6. QED
    BY <2>2, <2>3, <2>4, <2>5 DEF JobInv
<1>2. CASE Deploy
  <2> DEFINE given == [js |-> public.js, map |-> public.map, stale |-> public.stale,
                       stray |-> public.stray, private |-> private]
  <2>1. /\ pc = "deploy" /\ pc' \in {"register", "clean"}
        /\ UNCHANGED <<context, public, private, root, mapsDirectory, result, calls, server>>
        /\ deployed' = given \/ (pc' = "clean" /\ deployed' = deployed)
    BY <1>2 DEF Deploy
  <2>2. given \in Deployments
    BY DEF JobInv, BuildTypeOK, Outputs, Deployments
  <2>3. given # Null
    BY <2>2, BuildAssumption
  <2>4. Safe /\ (mapsDirectory => private = Batches /\ Prepared(public.js))
    BY <2>1 DEF JobInv, PrepInv
  <2>5. BuildTypeOK'
    BY <2>1, <2>2 DEF JobInv, BuildTypeOK, result, calls, server
  <2>6. PrepInv'
    BY <2>1 DEF PrepInv, Preparing
  <2>7. HandInv'
    <3>1. CASE deployed' = deployed /\ pc' = "clean"
      BY <2>1, <3>1 DEF JobInv, HandInv, DeployedIsSafe, Uploading
    <3>2. CASE deployed' = given
      <4>1. given.map = {} /\ ~given.stray /\ "prepared" \notin given.stale
        BY <2>4 DEF Safe
      <4>2. \A f \in Files : given.js[f] = "prepared" =>
               BatchOf[f] \in given.private /\ given.stale = {}
        BY <2>4, BuildAssumption DEF Safe
      <4>3. mapsDirectory => Prepared(given.js)
        BY <2>4
      <4> HIDE DEF given
      <4>4. QED
        BY <2>1, <2>3, <3>2, <4>1, <4>2, <4>3 DEF HandInv, DeployedIsSafe, Uploading
    <3>3. QED
      BY <2>1, <3>1, <3>2
  <2>8. ServerInv'
    <3>1. /\ pc \notin {"clean", "end"}
          /\ UNCHANGED <<upload, stored, registered, batch, failed, registration, maps>>
      BY <2>1 DEF result, calls, server
    <3>2. QED
      BY <3>1, NothingReady
  <2>9. QED
    BY <2>5, <2>6, <2>7, <2>8 DEF JobInv
<1>3. CASE Clean \/ Kill
  <2>1. /\ pc' = "end" /\ root' \in BOOLEAN /\ private' \subseteq Batches
        /\ UNCHANGED <<context, public, mapsDirectory, deployed, result, batch, tries, overdue,
                       failed, server>>
        /\ puts' \in [Files -> {Null} \cup 0 .. Attempts - 1]
    BY <1>3 DEF Clean, Kill, calls, JobInv, BuildTypeOK
  <2>2. BuildTypeOK'
    BY <2>1 DEF JobInv, BuildTypeOK, result, server
  <2>3. PrepInv'
    BY <2>1 DEF PrepInv, Preparing
  <2>4. HandInv'
    BY <2>1 DEF JobInv, HandInv, DeployedIsSafe, Uploading
  <2>5. ServerInv'
    BY <2>1 DEF JobInv, ServerInv, result, server
  <2>6. QED
    BY <2>2, <2>3, <2>4, <2>5 DEF JobInv
<1>4. QED
  BY <1>1, <1>2, <1>3

-----------------------------------------------------------------------------
(* Requests.                                                               *)

\* The registration of the deployment.
LEMMA RegisterKeeps ==
    ASSUME JobInv, UNCHANGED production,
           RegistrationRefused \/ \E reached, answered \in BOOLEAN : Register(reached, answered)
    PROVE  JobInv'
<1>1. /\ pc = "register" /\ pc' \in {"register", AfterRegistration}
      /\ UNCHANGED <<local, maps, batch, puts, failed, upload, stored>>
      /\ tries' \in {0} \cup (IF Again THEN {tries + 1} ELSE {})
      /\ overdue' \in BOOLEAN /\ registered' \in BOOLEAN /\ (registered => registered')
      /\ registration' \in {registration, "failed", "registered"}
      /\ registration' = "registered" => registration = "registered" \/ registered'
  BY DEF RegistrationRefused, Register, Outcome, server, JobInv, BuildTypeOK
<1>2. tries' \in 0 .. Attempts - 1
  BY <1>1, BuildAssumption DEF Again, JobInv, BuildTypeOK
<1>3. pc' \in {"register", "begin", "clean"} /\ (pc' = "begin" => mapsDirectory)
  BY <1>1 DEF AfterRegistration
<1>4. BuildTypeOK'
  BY <1>1, <1>2, <1>3 DEF JobInv, BuildTypeOK, local
<1>5. PrepInv'
  BY <1>3 DEF PrepInv, Preparing
<1>6. HandInv'
  BY <1>1, <1>3 DEF JobInv, HandInv, DeployedIsSafe, Uploading, local
<1>7. ServerInv'
  BY <1>1 DEF JobInv, ServerInv
<1>8. QED
  BY <1>4, <1>5, <1>6, <1>7 DEF JobInv

\* What a step of an upload may make of the job.
Progress ==
    \/ UNCHANGED <<pc, batch, maps, failed>>
    \/ pc \in Uploading /\ pc' \in Uploading /\ UNCHANGED <<batch, maps, failed>>
    \/ pc \in Uploading /\ GiveUp
    \/ pc \in Uploading /\ BatchReady /\ upload'[batch] = "ready"

\* What it may make of the server.
ServerGrows ==
    /\ \A b \in Batches : upload[b] = "ready" => upload'[b] = "ready"
    /\ stored \subseteq stored'
    /\ \A b \in Batches : upload'[b] \in {"pending", "ready"} =>
          \/ upload[b] \in {"pending", "ready"}
          \/ \A f \in Files : BatchOf[f] = b => f \in stored'

LEMMA ProgressKeeps ==
    ASSUME JobInv, UNCHANGED <<production, local, registration, registered>>,
           Progress, ServerGrows,
           upload' \in [Batches -> {"none", "receiving", "pending", "ready", "failed"}],
           stored' \subseteq Files, puts' \in [Files -> {Null} \cup 0 .. Attempts - 1],
           tries' \in 0 .. Attempts - 1, overdue' \in BOOLEAN
    PROVE  JobInv'
<1>1. batch \in Nat /\ batch <= BatchCount /\ BatchCount \in Nat
  BY BuildAssumption DEF JobInv, BuildTypeOK, Batches
<1>2. /\ \A b \in Batches : b \in Nat
  BY DEF Batches
<1>3. CASE UNCHANGED <<pc, batch, maps, failed>>
  <2>1. BuildTypeOK'
    BY <1>3 DEF JobInv, BuildTypeOK, local
  <2>2. PrepInv' /\ HandInv'
    BY <1>3 DEF JobInv, PrepInv, HandInv, DeployedIsSafe, local, Safe
  <2>3. ServerInv'
    BY <1>3 DEF JobInv, ServerInv, ServerGrows, local
  <2>4. QED
    BY <2>1, <2>2, <2>3 DEF JobInv
<1>4. CASE pc \in Uploading /\ pc' \in Uploading /\ UNCHANGED <<batch, maps, failed>>
  <2>1. BuildTypeOK'
    BY <1>4 DEF JobInv, BuildTypeOK, local, Uploading
  <2>2. PrepInv' /\ HandInv'
    BY <1>4 DEF JobInv, PrepInv, HandInv, DeployedIsSafe, local, Uploading, Preparing
  <2>3. ServerInv'
    BY <1>4 DEF JobInv, ServerInv, ServerGrows, Uploading
  <2>4. QED
    BY <2>1, <2>2, <2>3 DEF JobInv
<1>5. CASE pc \in Uploading /\ NextBatch /\ failed' \in BOOLEAN
           /\ (~failed' => ~failed /\ upload'[batch] = "ready")
  <2>1. /\ pc' \in {"begin", "clean"} /\ mapsDirectory /\ deployed # Null
        /\ batch' \in Batches
        /\ maps' \in {"ready", "disabled", "failed", "incomplete"}
    BY <1>1, <1>5 DEF NextBatch, JobInv, BuildTypeOK, HandInv, Batches
  <2>2. BuildTypeOK'
    BY <1>5, <2>1 DEF JobInv, BuildTypeOK, local
  <2>3. PrepInv' /\ HandInv'
    BY <1>5, <2>1 DEF JobInv, PrepInv, HandInv, DeployedIsSafe, local, Uploading, Preparing
  <2>4. ASSUME ~failed', NEW b \in Batches, b <= batch PROVE upload'[b] = "ready"
    BY <1>1, <1>2, <1>5, <2>4 DEF JobInv, ServerInv, ServerGrows
  <2>5. ServerInv'
    <3>1. CASE batch < BatchCount
      <4>1. batch' = batch + 1 /\ maps' = maps /\ maps # "ready"
        BY <1>5, <3>1 DEF NextBatch, JobInv, ServerInv, Uploading
      <4>2. ~failed' => \A b \in Batches : b < batch' => upload'[b] = "ready"
        BY <1>1, <1>2, <2>4, <4>1
      <4>3. QED
        BY <4>1, <4>2 DEF JobInv, ServerInv, ServerGrows
    <3>2. CASE ~(batch < BatchCount)
      <4>1. /\ batch' = batch /\ pc' = "clean" /\ maps' = IF failed' THEN "incomplete" ELSE "ready"
        BY <1>5, <3>2 DEF NextBatch
      <4>2. \A b \in Batches : b <= batch
        BY <1>1, <3>2 DEF Batches
      <4>3. ~failed' => \A b \in Batches : upload'[b] = "ready"
        BY <2>4, <4>2
      <4>4. UNCHANGED <<mapsDirectory, deployed>>
        BY DEF local
      <4>5. QED
        BY <2>1, <4>1, <4>3, <4>4 DEF JobInv, ServerInv, ServerGrows
    <3>3. QED
      BY <3>1, <3>2
  <2>6. QED
    BY <2>2, <2>3, <2>5 DEF JobInv
<1>6. QED
  BY <1>3, <1>4, <1>5 DEF Progress, GiveUp, BatchReady, JobInv, BuildTypeOK

\* Begin, the artifacts, finish, the polls and what ends them.
LEMMA TriesType ==
    ASSUME BuildTypeOK
    PROVE  /\ 0 \in 0 .. Attempts - 1
           /\ Again => tries + 1 \in 0 .. Attempts - 1
  BY BuildAssumption DEF BuildTypeOK, Again

LEMMA BeginUploadKeeps ==
    ASSUME JobInv, UNCHANGED production, NEW reached \in BOOLEAN, NEW answered \in BOOLEAN,
           BeginUpload(reached, answered)
    PROVE  JobInv'
<1>1. /\ pc = "begin" /\ (answered => reached)
      /\ UNCHANGED <<local, registration, stored, registered>>
      /\ upload' = IF reached THEN Received ELSE upload
  BY DEF BeginUpload
<1>2. /\ upload' \in [Batches -> {"none", "receiving", "pending", "ready", "failed"}]
      /\ ServerGrows
  BY <1>1 DEF JobInv, BuildTypeOK, Received, ServerGrows
<1>3. puts' \in [Files -> {Null} \cup 0 .. Attempts - 1]
  <2>1. 0 \in 0 .. Attempts - 1 /\ puts \in [Files -> {Null} \cup 0 .. Attempts - 1]
    BY TriesType DEF JobInv, BuildTypeOK
  <2>2. \/ puts' = puts
        \/ puts' = [f \in Files |-> IF f \in Own \ stored THEN 0 ELSE puts[f]]
    BY DEF BeginUpload
  <2>3. QED
    BY <2>1, <2>2
<1>4. \/ TryAgain \/ GiveUp \/ Stay("put") \/ Stay("poll")
      \/ BatchReady /\ upload'[batch] = "ready"
  <2>1. ~answered => TryAgain
    BY DEF BeginUpload
  <2>2. CASE answered
    <3>1. upload'[batch] \in {"none", "receiving", "pending", "ready", "failed"}
      BY <1>2 DEF JobInv, BuildTypeOK
    <3>2. upload'[batch] = "ready" => BatchReady
      BY <2>2 DEF BeginUpload
    <3>3. upload'[batch] = "failed" => GiveUp
      BY <2>2 DEF BeginUpload
    <3>4. upload'[batch] = "receiving" => Stay("put")
      BY <2>2 DEF BeginUpload
    <3>5. upload'[batch] \in {"none", "pending"} => Stay("poll")
      BY <2>2 DEF BeginUpload
    <3>6. QED
      BY <3>1, <3>2, <3>3, <3>4, <3>5
  <2>3. QED
    BY <2>1, <2>2
<1>5. tries' \in 0 .. Attempts - 1 /\ overdue' \in BOOLEAN
  BY <1>4, TriesType DEF TryAgain, GiveUp, Stay, BatchReady, NextBatch, JobInv, BuildTypeOK
<1>6. Progress
  BY <1>1, <1>4 DEF Progress, TryAgain, Stay, Uploading
<1>7. stored' \subseteq Files
  BY <1>1 DEF JobInv, BuildTypeOK
<1>8. QED
  BY <1>1, <1>2, <1>3, <1>5, <1>6, <1>7, ProgressKeeps

LEMMA PutKeeps ==
    ASSUME JobInv, UNCHANGED production, NEW f \in Files,
           PutRefused(f) \/ \E reached, answered \in BOOLEAN : Put(f, reached, answered)
    PROVE  JobInv'
<1>1. /\ UNCHANGED <<local, registration, upload, registered>>
      /\ stored' = stored \/ stored' = stored \cup {f}
      /\ puts[f] # Null
  BY DEF Put, PutRefused, server
<1>2. /\ upload' \in [Batches -> {"none", "receiving", "pending", "ready", "failed"}]
      /\ stored' \subseteq Files /\ ServerGrows
  BY <1>1 DEF JobInv, BuildTypeOK, ServerGrows
<1>3. puts' \in [Files -> {Null} \cup 0 .. Attempts - 1]
  <2>1. puts \in [Files -> {Null} \cup 0 .. Attempts - 1] /\ puts[f] \in 0 .. Attempts - 1
    BY <1>1 DEF JobInv, BuildTypeOK
  <2>2. \/ puts' = [puts EXCEPT ![f] = Null]
        \/ puts[f] + 1 < Attempts /\ puts' = [puts EXCEPT ![f] = puts[f] + 1]
    BY <2>1 DEF Put, PutRefused
  <2>3. puts[f] + 1 < Attempts => puts[f] + 1 \in 0 .. Attempts - 1
    BY <2>1, BuildAssumption
  <2>4. QED
    BY <2>1, <2>2, <2>3
<1>4. \/ UNCHANGED <<pc, tries, batch, maps, overdue, failed>>
      \/ pc = "put" /\ GiveUp
  BY DEF Put, PutRefused, GiveUpWith, Waiting
<1>5. tries' \in 0 .. Attempts - 1 /\ overdue' \in BOOLEAN
  BY <1>4, TriesType DEF GiveUp, NextBatch, JobInv, BuildTypeOK
<1>6. Progress
  BY <1>4 DEF Progress, Uploading
<1>7. QED
  BY <1>1, <1>2, <1>3, <1>5, <1>6, ProgressKeeps

LEMMA FinishKeeps ==
    ASSUME JobInv, UNCHANGED production, NEW reached \in BOOLEAN, NEW answered \in BOOLEAN,
           Finish(reached, answered)
    PROVE  JobInv'
<1>1. /\ pc = "finish" /\ (reached => Own \subseteq stored)
      /\ UNCHANGED <<local, registration, puts, stored, registered>>
      /\ upload' = IF reached /\ upload[batch] = "receiving"
                   THEN [upload EXCEPT ![batch] = "pending"] ELSE upload
  BY DEF Finish
<1>2. /\ upload' \in [Batches -> {"none", "receiving", "pending", "ready", "failed"}]
      /\ puts' \in [Files -> {Null} \cup 0 .. Attempts - 1]
      /\ ServerGrows
  BY <1>1 DEF JobInv, BuildTypeOK, ServerGrows, Own
<1>3. TryAgain \/ Stay("poll")
  BY DEF Finish
<1>4. tries' \in 0 .. Attempts - 1 /\ overdue' \in BOOLEAN
  BY <1>3, TriesType DEF TryAgain, GiveUp, Stay, NextBatch, JobInv, BuildTypeOK
<1>5. Progress
  BY <1>1, <1>3 DEF Progress, TryAgain, Stay, Uploading
<1>6. stored' \subseteq Files
  BY <1>1 DEF JobInv, BuildTypeOK
<1>7. QED
  BY <1>1, <1>2, <1>4, <1>5, <1>6, ProgressKeeps

LEMMA PollKeeps ==
    ASSUME JobInv, UNCHANGED production,
           WaveDone \/ Refused \/ Overdue \/ DeadlinePasses \/ \E answered \in BOOLEAN : Poll(answered)
    PROVE  JobInv'
<1>1. /\ pc \in Uploading \cup {"register"} /\ UNCHANGED <<local, registration, server>>
      /\ puts' = puts \/ puts' = [f \in Files |-> IF f \in Own THEN Null ELSE puts[f]]
  BY DEF WaveDone, Refused, Overdue, DeadlinePasses, Poll, Uploading, result
<1>2. /\ upload' \in [Batches -> {"none", "receiving", "pending", "ready", "failed"}]
      /\ puts' \in [Files -> {Null} \cup 0 .. Attempts - 1]
      /\ stored' \subseteq Files /\ ServerGrows
  BY <1>1 DEF JobInv, BuildTypeOK, ServerGrows, server
<1>3. \/ pc = "put" /\ Stay("finish")
      \/ pc \in Uploading /\ GiveUp
      \/ UNCHANGED <<pc, result, batch, tries, failed>> /\ overdue' = TRUE
      \/ pc = "poll" /\ (TryAgain \/ Stay("poll"))
      \/ pc = "poll" /\ BatchReady /\ upload[batch] = "ready"
  BY DEF WaveDone, Refused, Overdue, DeadlinePasses, Poll, Uploading, Confirmed
<1>4. tries' \in 0 .. Attempts - 1 /\ overdue' \in BOOLEAN
  BY <1>3, TriesType DEF TryAgain, GiveUp, BatchReady, Stay, NextBatch, JobInv, BuildTypeOK
<1>5. Progress
  BY <1>1, <1>3 DEF Progress, TryAgain, Stay, Uploading, result, server
<1>6. UNCHANGED registered
  BY <1>1 DEF server
<1>7. QED
  BY <1>1, <1>2, <1>4, <1>5, <1>6, ProgressKeeps

LEMMA VerdictKeeps ==
    ASSUME JobInv, UNCHANGED production, NEW b \in Batches, NEW verdict \in {"ready", "failed"},
           ValidateUpload(b, verdict)
    PROVE  JobInv'
<1>1. /\ upload[b] = "pending" /\ upload' = [upload EXCEPT ![b] = verdict]
      /\ UNCHANGED <<pc, local, result, calls, stored, registered>>
  BY DEF ValidateUpload
<1>2. /\ upload' \in [Batches -> {"none", "receiving", "pending", "ready", "failed"}]
      /\ puts' \in [Files -> {Null} \cup 0 .. Attempts - 1]
      /\ tries' \in 0 .. Attempts - 1 /\ overdue' \in BOOLEAN
      /\ stored' \subseteq Files
  BY <1>1 DEF JobInv, BuildTypeOK, calls
<1>3. ServerGrows
  BY <1>1 DEF JobInv, BuildTypeOK, ServerGrows
<1>4. Progress
  BY <1>1 DEF Progress, result, calls
<1>5. UNCHANGED registration
  BY <1>1 DEF result
<1>6. QED
  BY <1>1, <1>2, <1>3, <1>4, <1>5, ProgressKeeps

-----------------------------------------------------------------------------
(* Theorems about Build.                                                   *)

LEMMA JobInvStep == JobInv /\ [BuildNext]_buildVars => JobInv'
<1> SUFFICES ASSUME JobInv, [BuildNext]_buildVars PROVE JobInv'
  OBVIOUS
<1>1. CASE UNCHANGED buildVars
  <2>1. UNCHANGED <<production, pc, local, result, calls, server>>
    BY <1>1 DEF buildVars
  <2>2. BuildTypeOK'
    BY <2>1 DEF JobInv, BuildTypeOK, local, result, calls, server
  <2>3. PrepInv' /\ HandInv' /\ ServerInv'
    BY <2>1 DEF JobInv, PrepInv, HandInv, ServerInv, DeployedIsSafe, Safe, local, result, calls,
                server
  <2>4. QED
    BY <2>2, <2>3 DEF JobInv
<1>2. CASE UNCHANGED production /\ (NoIdentity \/ AskContext \/ ContextTrouble
                \/ \E answer \in {"maps", "build", "skip", "foreign"} : Answer(answer))
  BY <1>2, ContextKeeps
<1>3. CASE UNCHANGED production /\ (FirstBuild \/ Rebuild)
  BY <1>3, BuildKeeps
<1>4. CASE UNCHANGED production /\ (Prepare \/ PrepareFails \/ (\E b \in Batches : CopyBatch(b))
                \/ \E f \in Files : Swap(f) \/ UnlinkMap(f))
  BY <1>4, PrepareKeeps
<1>5. CASE UNCHANGED production /\ (CheckOutput \/ Deploy \/ Clean \/ Kill)
  BY <1>5, LastKeeps
<1>6. CASE UNCHANGED production /\ (RegistrationRefused
                \/ \E reached, answered \in BOOLEAN : Register(reached, answered))
  BY <1>6, RegisterKeeps
<1>7. CASE UNCHANGED production
           /\ \E reached, answered \in BOOLEAN :
                 BeginUpload(reached, answered) \/ Finish(reached, answered)
  BY <1>7, BeginUploadKeeps, FinishKeeps
<1>8. CASE UNCHANGED production
           /\ \E f \in Files :
                 PutRefused(f) \/ \E reached, answered \in BOOLEAN : Put(f, reached, answered)
  BY <1>8, PutKeeps
<1>9. CASE UNCHANGED production /\ (WaveDone \/ Refused \/ Overdue \/ DeadlinePasses
                \/ \E answered \in BOOLEAN : Poll(answered))
  BY <1>9, PollKeeps
<1>10. CASE UNCHANGED production
           /\ \E b \in Batches, verdict \in {"ready", "failed"} : ValidateUpload(b, verdict)
  BY <1>10, VerdictKeeps
<1>11. QED
  BY <1>1, <1>2, <1>3, <1>4, <1>5, <1>6, <1>7, <1>8, <1>9, <1>10 DEF BuildNext, JobStep, Requests

LEMMA JobInvHolds == BuildSpec => []JobInv
  BY JobInit, JobInvStep, PTL DEF BuildSpec

\* No map is ever deployed, and JavaScript that names its Debug ID only by the job
\* that prepared it, when its own map waits to be uploaded, and with no JavaScript
\* of another job beside it, whatever the build leaves and whichever step of the
\* preparation fails (prepareBuild, assertPublicOutput).
THEOREM DeployedStaysSafe == BuildSpec => []DeployedIsSafe
<1>1. JobInv => DeployedIsSafe
  BY DEF JobInv, HandInv
<1>2. QED
  BY <1>1, JobInvHolds, PTL

\* What the job reports is true, whatever requests and answers are lost and
\* however the server decides: its registration was made, and maps are ready
\* only when each batch of what it deployed is ready on the server with all its
\* files (deployWithGetException, uploadBatch).
THEOREM ReportsAreTrue == BuildSpec => []ReportIsTrue
<1>1. JobInv => ReportIsTrue
  <2> SUFFICES ASSUME JobInv PROVE ReportIsTrue
    OBVIOUS
  <2>1. ASSUME maps = "ready", NEW f \in Files PROVE f \in stored
    BY <2>1, BuildAssumption DEF JobInv, ServerInv
  <2>2. ASSUME maps = "ready", NEW f \in Files
        PROVE  deployed # Null /\ deployed.js[f] = "prepared"
    BY <2>2 DEF JobInv, ServerInv, HandInv, Prepared
  <2>3. QED
    BY <2>1, <2>2 DEF ReportIsTrue, JobInv, ServerInv
<1>2. QED
  BY <1>1, JobInvHolds, PTL

=============================================================================
