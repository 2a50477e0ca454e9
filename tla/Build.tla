-------------------------------- MODULE Build --------------------------------
(***************************************************************************)
(* A CI job that builds, deploys and hands over its source maps            *)
(* (packages/cli: gitlab-deployment.ts, prepare-build.ts, prepare.ts,      *)
(* public-output.ts, upload.ts, api.ts), against a server that may be      *)
(* away, lose requests or lose answers.                                    *)
(*                                                                         *)
(* A file is a JavaScript chunk that has a map when maps are asked for.    *)
(* The build and the deployment are callbacks of the application: a build  *)
(* may fail, and one that does not clean its output leaves what was there  *)
(* ("dirty").  Without maps it writes to other paths, as its namespace is  *)
(* another.  Other files are only searched for maps and credentials and    *)
(* left out.  Every step of the preparation may fail.  The server is what   *)
(* modules Projects and SourceMaps say of one job: it may refuse anything. *)
(***************************************************************************)
EXTENDS Integers, FiniteSets

CONSTANTS
    Files,
    BatchCount,         \* batches of SOURCE_MAP_LIMITS.files and .releaseBytes
    BatchOf,            \* [Files -> 1 .. BatchCount]
    Attempts,           \* 3 in the code
    Null

Batches == 1 .. BatchCount

\* What a JavaScript file may be, and what is found in its directory.
Scripts == {"none", "plain", "prepared"}
Outputs ==
    [js : [Files -> Scripts],
     map : SUBSET Files,            \* those whose map lies beside them
     stale : SUBSET Scripts,        \* what JavaScript of other jobs there is
     stray : BOOLEAN]               \* other maps
Deployments ==
    [js : [Files -> Scripts], map : SUBSET Files, stale : SUBSET Scripts, stray : BOOLEAN,
     private : SUBSET Batches]

ASSUME BuildAssumption ==
    /\ BatchCount \in Nat \ {0} /\ Attempts \in Nat \ {0}
    /\ BatchOf \in [Files -> Batches]
    /\ \A b \in Batches : \E f \in Files : BatchOf[f] = b
    /\ Null \notin {"maps", "build"} \cup Nat \cup Deployments

VARIABLES
    production,         \* whether the job deploys to production
    pc,                 \* where deployWithGetException is
    context,            \* the validated answer of "ci context"
    public,             \* the output directory
    private,            \* batches with maps and manifest in the private directory
    root,               \* the private directory exists
    mapsDirectory,      \* prepareBuild returned
    deployed,           \* what was deployed
    maps, registration, \* the result
    batch,              \* the batch that is uploaded
    tries,              \* attempts of the request under way
    puts,               \* attempts of the artifact requests under way
    overdue,            \* the deadline of the present projectApi has passed
    failed,             \* some batch was given up
    \* the server
    upload, stored, registered,
    \* bookkeeping
    blame               \* what the application did wrong

result == <<maps, registration>>
local == <<context, public, private, root, mapsDirectory, deployed, blame>>
server == <<upload, stored, registered>>
calls == <<batch, tries, puts, overdue, failed>>
buildVars == <<production, pc, local, result, calls, server>>

BuildInit ==
    /\ production \in BOOLEAN
    /\ pc = "start"
    /\ context = Null
    /\ \E stale \in SUBSET {"plain", "prepared"} :
        public = [js |-> [f \in Files |-> "none"], map |-> {}, stale |-> stale, stray |-> FALSE]
    /\ private = {}
    /\ root = FALSE
    /\ mapsDirectory = FALSE
    /\ deployed = Null
    /\ maps = "disabled"
    /\ registration = "skipped"
    /\ batch = 1
    /\ tries = 0
    /\ puts = [f \in Files |-> Null]
    /\ overdue = FALSE
    /\ failed = FALSE
    /\ upload = [b \in Batches |-> "none"]
    /\ stored = {}
    /\ registered = FALSE
    /\ blame = {}

-----------------------------------------------------------------------------
(* The context (gitlab-deployment.ts:205-247)                              *)

\* The identity token is missing, or there is an upload token besides.
NoIdentity ==
    /\ pc = "start"
    /\ maps' = "failed"
    /\ pc' = "build"
    /\ UNCHANGED <<local, registration, calls, server>>

AskContext ==
    /\ pc = "start"
    /\ pc' = "context"
    /\ UNCHANGED <<local, result, calls, server>>

\* validateGitLabContext: production never gets a skip, and what names another
\* commit, job, environment or merge request is "foreign".
Valid(answer) == answer \in {"maps", "build"} \cup (IF production THEN {} ELSE {"skip"})

Answer(answer) ==
    /\ pc = "context"
    /\ production => answer # "build"
    /\ IF Valid(answer)
       THEN /\ context' = IF answer = "skip" THEN Null ELSE answer
            /\ maps' = IF answer = "maps" THEN "incomplete" ELSE "disabled"
       ELSE /\ context' = Null
            /\ maps' = "failed"
    /\ pc' = "build"
    /\ tries' = 0
    /\ UNCHANGED <<public, private, root, mapsDirectory, deployed, blame, registration, batch,
                   puts, overdue, failed, server>>

\* Mutant: the deadline is not looked at between requests.
MutExpired == FALSE

\* The deadline of a projectApi (api.ts:31-42) is looked at before each request.
Expired == overdue

\* 3 attempts, of network failures, 429 and 5xx (api.ts:62-108).
Again == tries + 1 < Attempts /\ ~Expired

ContextTrouble ==
    /\ pc = "context"
    /\ IF Again THEN tries' = tries + 1 /\ UNCHANGED <<pc, maps>>
       ELSE tries' = 0 /\ maps' = "failed" /\ pc' = "build"
    /\ UNCHANGED <<local, registration, batch, puts, overdue, failed, server>>

-----------------------------------------------------------------------------
(* Build, preparation, check and deployment                                *)

\* What a build that cleans its output leaves, and what any build may leave.
Fresh(wanted) ==
    [js |-> [f \in Files |-> "plain"], map |-> IF wanted THEN Files ELSE {},
     stale |-> {}, stray |-> FALSE]

Built(old, wanted) ==
    {Fresh(wanted)} \cup
    {[js |-> [f \in Files |-> IF wanted \/ old.js[f] = "none" THEN "plain" ELSE old.js[f]],
      map |-> IF wanted THEN Files ELSE old.map,
      stale |-> old.stale, stray |-> stray] : stray \in BOOLEAN}

RunBuild(wanted) ==
    \/ /\ public' \in Built(public, wanted)
       /\ blame' = IF public' = Fresh(wanted) THEN blame ELSE blame \cup {"output"}
       /\ pc' = IF wanted THEN "prepare" ELSE "check"
    \/ /\ blame' = blame \cup {"build"}
       /\ pc' = "clean"
       /\ UNCHANGED public

FirstBuild ==
    /\ pc = "build"
    /\ RunBuild(context = "maps")
    /\ UNCHANGED <<context, private, root, mapsDirectory, deployed, result, calls, server>>

\* prepareBuild begins: fresh JavaScript maps and nothing else.
Prepare ==
    /\ pc = "prepare"
    /\ root' = TRUE
    /\ public.map # {} /\ ~public.stray
    /\ pc' = "copy"
    /\ UNCHANGED <<context, public, private, mapsDirectory, deployed, blame, result, calls, server>>

\* Maps and manifest of a batch, made from a private copy of its files.
PrepareMaps(b) == private \cup {b}

CopyBatch(b) ==
    /\ pc = "copy"
    /\ b = Cardinality(private) + 1 /\ b \in Batches
    /\ private' = PrepareMaps(b)
    /\ pc' = IF b = BatchCount THEN "swap" ELSE "copy"
    /\ UNCHANGED <<context, public, root, mapsDirectory, deployed, blame, result, calls, server>>

Swap(f) ==
    /\ pc = "swap"
    /\ public.js[f] = "plain"
    /\ public' = [public EXCEPT !.js[f] = "prepared"]
    /\ pc' = IF \A g \in Files : public'.js[g] = "prepared" THEN "unlink" ELSE "swap"
    /\ UNCHANGED <<context, private, root, mapsDirectory, deployed, blame, result, calls, server>>

UnlinkMap(f) ==
    /\ pc = "unlink"
    /\ f \in public.map
    /\ public' = [public EXCEPT !.map = @ \ {f}]
    /\ IF public'.map = {} THEN mapsDirectory' = TRUE /\ pc' = "check"
       ELSE UNCHANGED <<mapsDirectory, pc>>
    /\ UNCHANGED <<context, private, root, deployed, blame, result, calls, server>>

AfterFailure == "rebuild"

\* A write, a limit, the five minutes: any step above may throw.
PrepareFails ==
    /\ pc \in {"prepare", "copy", "swap", "unlink"}
    /\ maps' = "failed"
    /\ root' \in {root, TRUE}
    /\ pc' = AfterFailure
    /\ UNCHANGED <<context, public, private, mapsDirectory, deployed, blame, registration, calls, server>>

Rebuild ==
    /\ pc = "rebuild"
    /\ RunBuild(FALSE)
    /\ UNCHANGED <<context, private, root, mapsDirectory, deployed, result, calls, server>>

\* Mutant: JavaScript outside the prefix of this job is let through.
MutSafe ==
    /\ public.map = {} /\ ~public.stray
    /\ mapsDirectory \/
       ("prepared" \notin public.stale /\ \A f \in Files : public.js[f] # "prepared")

\* assertPublicOutput.  JavaScript of another job lies under another prefix, which
\* is looked at when maps were prepared; else only what was prepared is refused.
Safe ==
    /\ public.map = {} /\ ~public.stray
    /\ IF mapsDirectory THEN public.stale = {}
       ELSE "prepared" \notin public.stale /\ \A f \in Files : public.js[f] # "prepared"

CheckOutput ==
    /\ pc = "check"
    /\ pc' = IF Safe THEN "deploy" ELSE "clean"
    /\ UNCHANGED <<local, result, calls, server>>

Deploy ==
    /\ pc = "deploy"
    /\ \/ /\ deployed' = [js |-> public.js, map |-> public.map, stale |-> public.stale,
                          stray |-> public.stray, private |-> private]
          /\ pc' = IF context # Null THEN "register" ELSE "clean"
          /\ UNCHANGED blame
       \/ /\ blame' = blame \cup {"deploy"}
          /\ pc' = "clean"
          /\ UNCHANGED deployed
    /\ UNCHANGED <<context, public, private, root, mapsDirectory, result, calls, server>>

-----------------------------------------------------------------------------
(* Requests: the server may be reached although its answer is lost.        *)

AfterRegistration == IF mapsDirectory THEN "begin" ELSE "clean"

Outcome(answered) == IF answered THEN "registered" ELSE "failed"

Register(reached, answered) ==
    /\ pc = "register" /\ (answered => reached)
    /\ registered' = (registered \/ reached)
    /\ IF ~answered /\ Again THEN tries' = tries + 1 /\ UNCHANGED <<pc, registration>>
       ELSE registration' = Outcome(answered) /\ pc' = AfterRegistration /\ tries' = 0
    /\ overdue' = IF pc' = pc THEN overdue ELSE FALSE
    /\ UNCHANGED <<local, maps, batch, puts, failed, upload, stored>>

\* 4xx: not asked again.
RegistrationRefused ==
    /\ pc = "register"
    /\ registration' = "failed" /\ pc' = AfterRegistration /\ tries' = 0
    /\ overdue' = FALSE
    /\ UNCHANGED <<local, maps, batch, puts, failed, server>>

\* The next batch, whatever became of this one, has a projectApi of its own.
NextBatch ==
    /\ tries' = 0
    /\ overdue' = FALSE
    /\ IF batch < BatchCount THEN batch' = batch + 1 /\ pc' = "begin" /\ UNCHANGED maps
       ELSE /\ maps' = IF failed' THEN "incomplete" ELSE "ready"
            /\ pc' = "clean"
            /\ UNCHANGED batch

Stay(next) == pc' = next /\ tries' = 0 /\ UNCHANGED <<batch, maps, overdue, failed>>
BatchReady == failed' = failed /\ NextBatch

GiveUp == failed' = TRUE /\ NextBatch

TryAgain ==
    IF Again THEN tries' = tries + 1 /\ UNCHANGED <<pc, batch, maps, overdue, failed>> ELSE GiveUp

Own == {f \in Files : BatchOf[f] = batch}

\* beginUpload on the server.
Received == IF upload[batch] = "none" THEN [upload EXCEPT ![batch] = "receiving"] ELSE upload

BeginUpload(reached, answered) ==
    /\ pc = "begin" /\ (answered => reached) /\ ~Expired
    /\ upload' = IF reached THEN Received ELSE upload
    /\ IF ~answered THEN TryAgain /\ UNCHANGED puts
       ELSE CASE upload'[batch] = "ready" -> BatchReady /\ UNCHANGED puts
              [] upload'[batch] = "failed" -> GiveUp /\ UNCHANGED puts
              [] upload'[batch] = "receiving" ->
                    /\ puts' = [f \in Files |-> IF f \in Own \ stored THEN 0 ELSE puts[f]]
                    /\ Stay("put")
              [] OTHER -> Stay("poll") /\ UNCHANGED puts
    /\ UNCHANGED <<local, registration, stored, registered>>

\* Artifact requests go on when the batch they belong to has been given up:
\* Promise.all rejects with the first failure and stops nothing.
Waiting(f) == pc = "put" /\ BatchOf[f] = batch
GiveUpWith(f) == IF Waiting(f) THEN GiveUp ELSE UNCHANGED <<pc, tries, batch, maps, overdue, failed>>

Put(f, reached, answered) ==
    /\ puts[f] # Null /\ (answered => reached)
    /\ Waiting(f) => ~Expired
    /\ reached => upload[BatchOf[f]] = "receiving"
    /\ stored' = IF reached THEN stored \cup {f} ELSE stored
    /\ IF answered THEN puts' = [puts EXCEPT ![f] = Null] /\ UNCHANGED <<pc, tries, batch, maps, overdue, failed>>
       ELSE IF puts[f] + 1 < Attempts
            THEN puts' = [puts EXCEPT ![f] = @ + 1] /\ UNCHANGED <<pc, tries, batch, maps, overdue, failed>>
       ELSE puts' = [puts EXCEPT ![f] = Null] /\ GiveUpWith(f)
    /\ UNCHANGED <<local, registration, upload, registered>>

\* 403, 404, 409, 413, a private file that changed, or the deadline.
PutRefused(f) ==
    /\ puts[f] # Null
    /\ puts' = [puts EXCEPT ![f] = Null]
    /\ GiveUpWith(f)
    /\ UNCHANGED <<local, registration, server>>

WaveDone ==
    /\ pc = "put"
    /\ \A f \in Own : puts[f] = Null
    /\ Stay("finish")
    /\ UNCHANGED <<local, registration, puts, server>>

Finish(reached, answered) ==
    /\ pc = "finish" /\ (answered => reached) /\ ~Expired
    /\ reached => Own \subseteq stored /\ upload[batch] # "failed"
    /\ upload' = IF reached /\ upload[batch] = "receiving"
                 THEN [upload EXCEPT ![batch] = "pending"] ELSE upload
    /\ IF answered THEN Stay("poll") ELSE TryAgain
    /\ UNCHANGED <<local, registration, puts, stored, registered>>

\* Mutant: an upload that was accepted counts as ready.
MutConfirmed(status) == status \in {"pending", "ready"}

Confirmed(status) == status = "ready"

Poll(answered) ==
    /\ pc = "poll" /\ ~Expired
    /\ CASE ~answered -> TryAgain
         [] answered /\ Confirmed(upload[batch]) -> BatchReady
         [] answered /\ upload[batch] = "failed" -> GiveUp
         [] OTHER -> Stay("poll")
    /\ UNCHANGED <<local, registration, puts, server>>

\* 4xx, or what the server answers contradicts its contract.
Refused ==
    /\ pc \in {"begin", "finish", "poll"} /\ ~Expired
    /\ GiveUp
    /\ UNCHANGED <<local, registration, puts, server>>

Overdue ==
    /\ pc \in {"begin", "put", "finish", "poll"} /\ Expired
    /\ puts' = IF pc = "put" THEN [f \in Files |-> IF f \in Own THEN Null ELSE puts[f]] ELSE puts
    /\ GiveUp
    /\ UNCHANGED <<local, registration, server>>

DeadlinePasses ==
    /\ pc \in {"register", "begin", "put", "finish", "poll"}
    /\ ~overdue
    /\ overdue' = TRUE
    /\ UNCHANGED <<pc, local, result, batch, tries, puts, failed, server>>

\* validateOneUpload (module SourceMaps).
ValidateUpload(b, verdict) ==
    /\ upload[b] = "pending"
    /\ upload' = [upload EXCEPT ![b] = verdict]
    /\ UNCHANGED <<pc, local, result, calls, stored, registered>>

-----------------------------------------------------------------------------
\* The "finally": the private directory goes, or the report says it did not.
Clean ==
    /\ pc = "clean"
    /\ root' \in {FALSE, root}
    /\ private' = IF root' THEN private ELSE {}
    /\ pc' = "end"
    /\ UNCHANGED <<context, public, mapsDirectory, deployed, blame, result, calls, server>>

\* GitLab cancels the job.
Kill ==
    /\ pc # "end"
    /\ pc' = "end"
    /\ blame' = blame \cup {"kill"}
    /\ puts' = [f \in Files |-> Null]
    /\ UNCHANGED <<context, public, private, root, mapsDirectory, deployed, result, batch, tries,
                   overdue, failed, server>>

Requests ==
    \E reached, answered \in BOOLEAN :
        \/ Register(reached, answered) \/ BeginUpload(reached, answered)
        \/ \E f \in Files : Put(f, reached, answered)
        \/ Finish(reached, answered)

JobStep ==
    UNCHANGED production /\
    (\/ NoIdentity \/ AskContext \/ ContextTrouble
     \/ \E answer \in {"maps", "build", "skip", "foreign"} : Answer(answer)
     \/ FirstBuild \/ Prepare \/ PrepareFails \/ Rebuild \/ CheckOutput \/ Deploy
     \/ \E b \in Batches : CopyBatch(b)
     \/ \E f \in Files : Swap(f) \/ UnlinkMap(f) \/ PutRefused(f)
     \/ Requests \/ RegistrationRefused \/ WaveDone \/ Refused \/ Overdue
     \/ \E answered \in BOOLEAN : Poll(answered)
     \/ Clean)

BuildNext ==
    \/ JobStep
    \/ UNCHANGED production /\ (Kill \/ DeadlinePasses)
    \/ UNCHANGED production /\ \E b \in Batches, verdict \in {"ready", "failed"} : ValidateUpload(b, verdict)

BuildSpec == BuildInit /\ [][BuildNext]_buildVars

\* The job goes on until it is killed, and clocks advance.
FairSpec == BuildSpec /\ WF_buildVars(JobStep) /\ WF_buildVars(UNCHANGED production /\ DeadlinePasses)

-----------------------------------------------------------------------------
(* Properties *)

BuildTypeOK ==
    /\ production \in BOOLEAN
    /\ pc \in {"start", "context", "build", "prepare", "copy", "swap", "unlink", "rebuild", "check",
               "deploy", "register", "begin", "put", "finish", "poll", "clean", "end"}
    /\ context \in {Null, "maps", "build"}
    /\ public \in Outputs
    /\ private \subseteq Batches
    /\ root \in BOOLEAN /\ mapsDirectory \in BOOLEAN /\ overdue \in BOOLEAN
    /\ failed \in BOOLEAN /\ registered \in BOOLEAN
    /\ deployed \in Deployments \cup {Null}
    /\ batch \in Batches
    /\ maps \in {"ready", "disabled", "failed", "incomplete"}
    /\ registration \in {"registered", "failed", "skipped"}
    /\ tries \in 0 .. Attempts - 1
    /\ puts \in [Files -> {Null} \cup 0 .. Attempts - 1]
    /\ upload \in [Batches -> {"none", "receiving", "pending", "ready", "failed"}]
    /\ stored \subseteq Files

\* No map is ever deployed, and JavaScript that names its Debug ID only by the job
\* that prepared it, when its own map waits in the private directory, and with no
\* JavaScript of another job beside it: after a preparation that failed half way,
\* after a build that did not clean up.
DeployedIsSafe ==
    deployed # Null =>
        /\ deployed.map = {} /\ ~deployed.stray /\ "prepared" \notin deployed.stale
        /\ \A f \in Files : deployed.js[f] = "prepared" =>
              BatchOf[f] \in deployed.private /\ deployed.stale = {}

\* What the job reports is true, whatever answers were lost: its registration was
\* made, and it reports maps as ready only when each batch of what it deployed is
\* ready on the server, with all its files (gitlab-deployment.ts:323).
ReportIsTrue ==
    /\ registration = "registered" => registered
    /\ maps = "ready" =>
          /\ \A b \in Batches : upload[b] = "ready"
          /\ Files \subseteq stored
          /\ deployed # Null /\ \A f \in Files : deployed.js[f] = "prepared"

\* GetException never stands in the way of a deployment: every job ends, also when
\* the server accepts maps and never validates them, and by then it has deployed
\* unless the application's own build, output or deployment failed, or the job
\* was cancelled.
JobEnds == <>(pc = "end" /\ (deployed # Null \/ blame # {}))

=============================================================================
