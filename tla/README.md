# GetException in TLA+

GetException is a self-hosted error monitor that speaks the Sentry envelope
protocol: a TypeScript monorepo (`src/apps`, `src/packages`), one PostgreSQL
database at its centre (`src/packages/db`), and a Python controller that runs
it on one host (`src/deploy`).  This directory holds TLA+ models of it, TLC
configurations that check them on small instances, and proofs for TLAPS.

Contents: [the system](#the-system), [hard behaviours](#hard-behaviours),
[the modules](#the-modules), [the runs](#the-runs),
[what was found](#where-the-code-and-its-documents-disagree),
[fairness](#fairness), [the proofs](#the-proofs),
[what is not modelled](#what-is-not-modelled), [the plan](#plan),
[running it](#running-it).

## The system

The server processes talk to PostgreSQL only; there are no messages between
them.  What they share are rows, and what protects the rows are row locks,
advisory locks, triggers, leases with random tokens and unique keys.  Pages of
the monitored applications and CI jobs reach them over HTTP; the controller
starts and stops their containers.

| Component | Source | State it keeps | Operations | Correct when | Module |
|---|---|---|---|---|---|
| Browser SDK | `packages/browser/src/index.ts` | scopes, pending requests, backoff | init, capture, tags, breadcrumbs, send, flush, close | what a pass can recognize as a secret is masked before it is sent; delays are kept; a closed page is silent | `Protocol`, `Transport` |
| Protocol parser and sanitizer | `packages/protocol/src` | none | `boundedJson`, `parseEnvelope`, `sanitizeEvent`, `encodeEnvelope` | what the SDK makes is accepted as it is; a secret the sanitizer recognizes is stored masked | `Protocol` |
| Per-process limiter | `apps/ingest/src/bucket-limiter.ts` | buckets by key, in memory | `take` | no key gets more than burst + rate x time | `BucketLimiter`, `Transport` |
| Ingest handler | `apps/ingest/src/server.ts`, `http.ts` | none but its limiter; several processes may run | check limits, key, origin, body; insert; answer | an answer 200 means the event is durable | `Admission`, `Transport`, `Protocol` |
| Admission trigger | `migrations/202610010011` | `admission_state`, `project_daily_stat`, `project_admission_bucket` | `admit_inbox`, `record_ingest_rejection`, `cleanup_deployment_probe` | quotas hold across processes; each row is counted once | `Admission` |
| Event inbox and workers | `apps/worker/src/events.ts`, `main.ts` | `event_inbox` rows with status, attempts, lease and token | `claim`, `processJob`, `retryJob`, `retainBatch` | each accepted event is recorded once or dead-lettered, eventually | `EventInbox`, `EventDelivery` |
| Groups and history | `events.ts`, `issue-history.ts`, triggers of `202609080003` and `202610060012` | `issue`, `error_event`, `issue_history`, `issue_activity` | count, observe, transfer, retain | counts, spans and history agree with the events | `IssueGrouping` |
| Regrouping | `apps/worker/src/source-maps/reprocess.ts`, `resolve.ts` | `error_event.symbolicationVersion` | `reprocessOneEvent` | late maps move events, never statuses | `IssueGrouping`, `SourceMaps` |
| Issue workflow | `apps/web/src/server/issue-workflow.ts` | `issue.status` | `changeIssueStatus` | only users and new events change a status | `IssueGrouping` |
| Source map uploads | `apps/web/src/server/source-maps/upload.ts`, `packages/source-maps` | `source_map_upload`, `source_artifact`, files | begin, PUT, finish, status | a submitted upload has all its files | `SourceMaps` |
| Upload validation | `apps/worker/src/source-maps/uploads.ts` | lease of an upload, `release.sourceMapsVersion` | `validateOneUpload` | one verdict per submission | `SourceMaps` |
| Source map retention | `apps/worker/src/source-maps/retention.ts` | the same rows and files | delete uploads, sweep orphans | no file of a live upload is removed | `SourceMaps` |
| Releases | `apps/web/src/server/releases/register.ts`, `apps/worker/src/release-retention.ts` | `release`, `release_deployment` | register, retain | a release in use is kept | `SourceMaps`, `Projects` |
| Projects, keys, tokens, policy | `projects.ts`, `ingestion-keys.ts`, `source-maps/tokens.ts`, `policy.ts`, `gitlab.ts`, `migrations/202609170006` | projects, keys, tokens, policies | create, update, trash, restore, purge, rotate, revoke, authorize | a restored project is whole; nothing is written for what was revoked | `Projects` |
| Sign-in, two-factor, setup | `auth-service.ts`, `mfa.ts`, `crypto.ts`, `identity.ts` | users, sessions, credentials, recovery codes, counters | set up, sign in, step up, enroll | a code works once; there is one setup; sessions end with what they rest on | `Accounts` |
| Members, teams, invitations | `members.ts`, `owner-transaction.ts`, `access.ts`, `invitations/service.ts` | members, teams, invitations, enrollments | save, delete, invite, reissue, revoke, register, accept | an owner remains; nobody sees more than allowed; a link works once | `Team` |
| Command-line tool | `packages/cli/src` | the output of a build, a private directory | context, build, prepare, check, deploy, register, upload | what is deployed carries no map; what is reported is true | `Build` |
| Deploy controller | `deploy/getexception.py`, `apps/migrate/src/main.ts` | releases, link, `state.json`, journal, containers, volumes | install, update, rollback, backup, smoke, prune | no acknowledged write is lost; a crash leaves a recoverable host | `Deploy` |
| Offsite backup, symbolication, analytics, user interface, React bindings, configuration, scripts | `deploy/backup.py`, `symbolication.ts`, `server/analytics`, `app`, ... | | | | none, [below](#what-is-not-modelled) |

### How they interact

    page: capture -> beforeSend -> send -> preflight, POST
        -> ingest handler: limiter, key, origin, parser
        -> INSERT -> admit_inbox() -> event_inbox
    event_inbox -> claim -> resolveFrames -> final transaction
        -> error_event, issue, issue_history, release -> receipt ("done")
    CI job -> context -> build, prepare, deploy -> register release
        -> begin / PUT / finish -> source_map_upload -> validateOneUpload
        -> release.sourceMapsVersion + 1
        -> reprocessOneEvent for events stored with an older version
    dashboard -> authenticate -> ownerTransaction or changeIssueStatus
    retention loop -> events, receipts, activities, groups, history, uploads,
        releases, sessions, setup sessions, invitations, trashed projects
    operator -> controller -> containers, volumes, files of the host

## Hard behaviours

`PROJECT.json` lists them under `hazards`, each at its line, with the
properties that would catch it going wrong or the reason none does.  The ones
that shaped the models:

- **Leases.**  A worker may outlive its lease, be overtaken, and come back with
  a commit, a retry or a heartbeat of an attempt that is no longer its own.
- **Lost answers.**  A commit may take effect although the worker, the handler
  or the CI job sees an error; senders retry and two requests carry one event.
- **Order.**  Jobs finish in another order than their events were received,
  answers reach a page in any order, also after it was closed.
- **Late source maps.**  An event may be regrouped while its group is being
  resolved, aged out or regrouped by another process, from an event, a version
  and artifacts that were read one after another without a lock.
- **Different lifetimes.**  Events, groups, receipts and activities live 30
  days and history 90, and each sweep is a transaction of its own.
- **Dates.**  A transaction's date is fixed when it begins, the lock that
  orders transactions is taken later.
- **Checked, then used.**  A session, a link, a token, a password or a
  credential is checked before a transaction, a hash or a long body, and used
  after it, while an owner, an enrollment or a revocation changes it.
- **Half way.**  A preparation of a build, a batch of uploads, a purge of a
  project and every operation of the controller consist of many steps, any of
  which may fail, take effect without an answer, or be the last before a crash.
- **Cut, decoded, masked.**  A text passes the same sanitizer on the page, in
  the transport and in the ingest process, whose limits are in characters,
  bytes and fields; each pass takes one layer of encoding off a path, and a later
  pass sees what an earlier one could not.

## The modules

| Module | Models | Proofs |
|---|---|---|
| `EventDelivery` | the promise of the pipeline: an accepted event is queued once and leaves once, recorded or dropped | |
| `EventInbox` | `event_inbox`, worker loops, leases, retries, retention; implements `EventDelivery` | `EventInboxProofs` |
| `IssueGrouping` | groups, their triggers, history, regrouping, workflow and their retention | `EventInboxProofs` |
| `Admission` | ingest handler and admission trigger, with what else moves their counters | `AdmissionProofs` |
| `SourceMaps` | uploads, their files, validation, retention of uploads, files and releases, and the events that read maps | `SourceMapsProofs` |
| `Accounts` | setup, sign-in, second factors, sessions, attempt limits and their retention | `AccountsProofs` |
| `Team` | members, teams, projects' teams, invitations, and what a session may see | `TeamProofs` |
| `BucketLimiter` | the limiter of one ingest process | `TransportProofs` |
| `Transport` | a page's requests and the handler up to its answer, over `BucketLimiter` | `TransportProofs` |
| `Protocol` | scopes, events, sanitizer, envelope and parser | `AdmissionProofs` |
| `Projects` | projects, trash and purge, keys, tokens, GitLab trust and the requests of CI that rely on them | `ProjectsProofs` |
| `Build` | a CI job with the command-line tool | `DeployProofs` |
| `Deploy` | the controller, its files, containers and database volumes | `DeployProofs` |
| `MC...` | a small instance of each for TLC | |

The modules meet where the code meets.  `Transport` composes `BucketLimiter`
with the page and the handler (`EXTENDS`, and `Take` in its actions).
`EventInbox` shows that it implements `EventDelivery` (`INSTANCE ... WITH`).
`Admission` and `EventInbox` share `event_inbox`: the `Admit` action of the
second is `Commit` of the first without the quotas, and `FinishRow`,
`RetainReceipt` and `CleanupProbe` of the first abbreviate actions of the
second.  `EventInbox` and `IssueGrouping` share the final transaction: the first
has the fence and the creation of the `error_event`, the second everything else
it writes, for a job that passed the fence; `EventInbox` shows that this happens
at most once for each admission, which is what `IssueGrouping` assumes of
`CommitJob`.  `SourceMaps` and `IssueGrouping` share `release`: `PublishMaps`
and `RemoveMaps` of the second stand for `Verdict` and `RetainUpload` of the
first, and what its constant `Mapped` leaves open, which maps an event finds,
is decided there.  `Projects` has the authorization of a CI request, `SourceMaps`
what an authorized one does, and `Build` the job that sends it.  `Accounts` says
when a session may act and `Team` for whom; `Accounts.AccessChanged` stands for
`Team.SaveMember`, and `Deploy.CreateOwner` for `Accounts.CommitFinish`.

### EventInbox

| Code | Model |
|---|---|
| `leaseToken` | `token`, a natural number; 0 is NULL.  `lastToken` stands for `randomUUID()` never repeating |
| `leaseUntil > now` | `lease`, a flag that `ExpireLease` lowers and a heartbeat raises |
| `nextAttemptAt <= now` | `due`, lowered by a retry, raised by `BackoffElapses` |
| `receivedAt` | `received` (order of arrival, ties possible) and `aged` (past the cutoff) |
| both statements of `claim` | `ClaimReap`, then `ClaimTake` or `ClaimNone` |
| heartbeat interval | `SendHeartbeat`, `LandHeartbeat`: an update may land at any later time |
| `resolveFrames` | `Resolve`, `FailResolve` |
| final transaction | `Fence` (FOR UPDATE; without the row the transaction returns) then `Commit`, `CommitUnacknowledged` or `Rollback` |
| `runOne`'s catch | `RetryJob`, from `pc = "failed"` |
| a dying process, an error in `retryJob` | `Abandon`: the row keeps its token until the lease ends |
| `retainBatch`, `cleanup_deployment_probe`, trash | `RetainEvent`, `RetainReceipt`, `CleanupProbe`, `DeleteProject`, `RestoreProject` |

`Locked` is the row lock the final transaction holds between its fence and its
end: claims skip a locked row, updates wait for it.  `effects` counts the
`error_event` rows created for the present inbox row and is bookkeeping.

### IssueGrouping

A group is identified by its fingerprint (`issue` is unique by project and
fingerprint).  `Env`, `Release`, `Compiled` and `Mapped` give each event what
its payload determines: its environment, its release, the fingerprint of its
frames as sent, and the fingerprint of its frames as restored under each state
of the release's maps (or that nothing is restored).  The model therefore
chooses what the maps do; that frames once restored are kept when maps are gone,
and that artifacts are looked for only in a release that has had any
(`Resolved`), is code.

| Code | Model |
|---|---|
| `issue_chronology` trigger | `CountEvent`: least first, greatest last, regression mark |
| `issue_history_chronology` trigger | `MergeRow` over `(receivedAt, eventId)` |
| `recordIssueObservation`, `transferIssueHistory` | `Observe`, `Transfer` |
| `issueHistory.findFirst` in `processJob` | `Remembered`: the set of groups it may return |
| `processJob` | `VersionJob` and `ResolveJob` (`resolveFrames` reads the release, then the artifacts), then `CommitJob` under the project's advisory lock |
| `reprocessOneEvent` before its transaction | `ReprocessSelect` (the id), `ReprocessRead` (the event), `ReprocessVersion`, `ReprocessResolve`: four reads without a lock |
| `reprocessOneEvent`, its transaction | `ReprocessFence` (row lock if the version is the one read, then the status of the group), `ReprocessCommit` |
| `changeIssueStatus` | `OpenPage`, `ChangeStatus`: the page carries the count it showed |
| `validateOneUpload`, `retainSourceMaps` | `PublishMaps`, `RemoveMaps`: their effect on a release |
| the four parts of `retainBatch` | `RetainErrorEvent`, `RetainActivity`, `RetainIssue`, `RetainHistory` |

A `Tick` is a long time, of the order of days: no transaction is open across
it, while a result computed before it may be used after it.  Ids of groups are
random, so a pass that knows a group which retention removes matches nothing
any more, even when the fingerprint gets a new row: `RetainIssue` makes it
forget `from`.  `arrivals`, `purged`, `repeated` and what a page has of the
first and of `lowered` are bookkeeping.  The specification is `GroupingSpec`, with
`GroupingInit`, `GroupingNext` and `GroupingTypeOK`: one module of proofs extends
`EventInbox` and this one.

### Admission

A request goes through `pc` as the handler does: `sent`, `keyed`, `begun` (the
transaction has its date), `waiting` (stamped, waiting for `admission_state`),
`admitting` (it holds the lock), `inserted`, `refused` or `failed`, `answered`;
`lost` when the process died.  Requests with the same `EventOf` are retries or
duplicates.  `Decide` makes the checks of `admit_inbox` in its order, under the
lock and on committed data; `Commit` makes the counters and the row visible
together.  The lock of `admission_state` is the only thing that orders inserts,
and workers, retention and the trash do not take it.  The answer 400 stands for
400, 403 after the key, 413 and 415: none of them inserts anything.

`dated`, `ledger`, `spent`, `confirmed` and `misdated` are bookkeeping: the date
each row was counted on, rows by date, rows that were admitted at a time or
later (what a span admitted is a difference of two), events that had a row, and
projects of which a probe was uncounted on another date than it was counted on.
The cleanup uncounts a probe on the date of its `receivedAt` and the trigger
counts it on the date its transaction began; the two differ when they straddle
midnight.  `QuotaHolds` and `StatisticsMatchRows` exempt those projects by name.

### SourceMaps

A manifest is unique in its project, so `upload[m]` is the row of manifest `m`
with its artifacts, or `None`; `id` tells a row from the one that replaces it.
Artifacts of one content share a file (`storageId`) across uploads, which is
what makes deletion and reuse delicate.

| Code | Model |
|---|---|
| `pg_advisory_xact_lock(73104621)` | `lock`: a begin from its first read to its commit, or the sweep |
| `pg_advisory_xact_lock_shared`, `pg_advisory_xact_lock` with 73104622 | `Writers`: `FinishUpload` waits until no put of this row is under way |
| `beginUpload` | `BeginAgain` and `CommitReset` for a known manifest, `BeginNew` and `CommitNew` for a new one, `AbortBegin`; what is read first is held in `client` |
| `storeArtifact` | `StartPut`, `WriteFile`, `CommitPut`, `AbortPut` |
| `validateOneUpload` | `ClaimUpload`, `CheckUpload`, `Verdict`, `Heartbeat`, `AbandonUpload` |
| `leaseToken` | `owner`: a validator works on one upload at a time, so its name identifies its claim |
| `retainSourceMaps` | `RetainUpload`, `CountReady`, `MarkRemoved`, one statement each, and `SweepOrphans` |
| `resolveFrames` | `ReadVersion`, then `StoreEvent` with the final transaction of the job or of the reprocessing |
| `retainReleases`, `registerRelease` | `RetainRelease`, `RegisterRelease` |
| the volume restored without files | `LoseFile`; `lost` remembers which |

Ages are not counted.  A row gets old enough for retention by waiting, and any
update makes it young again, so whenever nothing else forbids it a row may be
old: `Expired` takes the age as a choice (1, 30 or 60 days) and keeps every
other condition.  The same holds for releases and for files without a row.
Only a lease in force excludes an old `updatedAt`.

### Accounts

| Code | Model |
|---|---|
| `user`, `mfa_credential`, `recovery_code`, `session` rows | `account`, `pending` and `active`, `recovery`, `sessions` by the request that opened them |
| `setupAccess`, `prepareSetup`, `finishSetup` | `AskAccess` and `GrantAccess`, `BeginPrepare` and `EndPrepare`, `AskFinish`, `BeginFinish` and `CommitFinish`: between the halves others act |
| `FOR UPDATE` of the bootstrap row | `setupLock` |
| `login` | `AskLogin` (counted), `BeginLogin` (password, and the account read again under the shared lock), `CommitLogin` |
| `stepUp`, `finish` of `mfa.ts` | `AskStepUp` and `CommitStepUp`, `AskEnrollment` and `CommitEnrollment` |
| `FOR SHARE` of the workspace row | `Sharing`: `AccessChanged` waits for it |
| `verifyTotp`, `consumeFactor` | `Verifies` over periods of 30 seconds, `ConsumeCode`, `ConsumeRecovery` |
| hook `session.create.before` of `identity.ts` | `Admits` |
| `auth_rate_bucket` | `hits` by window, action and account or address; `Blocked`, `Counted` |
| `authenticate`, `authorize` | `Alive`, `Touched`, `Recent` |
| `purge_expired_auth_batch` | `PurgeExpired` |

`accepted`, `spent`, `activated`, `era` and `passed` are bookkeeping: codes and
by whom they were used, Owners by setup, changes of a membership, and requests
that went past the counter.  The unit of time is a period of the authenticator.
An account does not disappear here: deleting one is in `Team`.

### Team

| Code | Model |
|---|---|
| `ownerTransaction` | `Begin` takes the workspace row `FOR UPDATE` and looks at the session again, an action of its own commits: `SaveMember`, `DeleteMember`, `SaveTeam`, `Trash`, `Restore`, `Invite`, `Reissue`, `Revoke`; `Refuse` rolls back |
| the session read by the route | `Ask`, and `StillOwner` for the second look |
| `lock()` of invitations, `FOR SHARE` | `ShareWorkspace`, with the row of the invitation in `Lock` |
| following a link | `FindToRegister`, `FindToAccept`: what the page found, used later by `BeginRegistration`, `AskFinish`, `AskAccept`, `Join` |
| `invitation.revision`, `tokenHash` | `rev`; a visitor carries the revision of its link |
| `projectScope` | `Sees`, and `View` when a session is opened |
| `session.deleteMany` | `DropSessions`, for those `Affected` |
| deletion of expired rows | `Lapse`, `Purge` |

### BucketLimiter and Transport

`buckets` is the Map of the code: a partial function from keys to credit and
time.  `Taken` is `take` with its refill, its sweep at most every `Idle`
milliseconds and its refusal of a new key when the table is full.  `ahead` is
bookkeeping: the most that any stretch of time which ends now granted a key
beyond its rate, so that `GrantedWithinRate` speaks of every window and not only
of the one since the start; the process's clock may step back once.  In
`Transport` a slot holds one request of the page on its way (`preflight`,
`preflight checked`, `post`, `post checked`, `answered`).  `Send` is the check
and the fetch of `send()`, `SettleWithAnswer` and `SettleWithFailure` its
promise, `Abort` its timer, `BeginClose` and `EndClose` the two halves of
`close()`, `StartClient` `init()`.  `told` remembers the longest delay a
readable answer asked for.  `Others` are other senders on the same keys.

### Projects

| Code | Model |
|---|---|
| `createProject`, `updateProject`, `deleteProject` | one step each: they hold the workspace row |
| `restoreProject` | `RestoreCheck`, `RestoreProject`: the row of the project is held in between |
| `purge_deleted_project_batch` | `PurgeLock` (oldest first, locked ones skipped) and `PurgeBatch`; `Unlock` when the transaction dies |
| `rotateIngestionKey`, `revokeIngestionKey`, tokens, policy | `RotateIngestionKey`, `RevokeIngestionKey`, `CreateSourceMapToken`, ... |
| claims of a job's identity token | `Claims`, a constant: what GitLab signed |
| `gitlabIdentity`, `effectivePolicy`, scopes | `Identified`, `Primary`, `Placed`, `EffectivePolicy`, `ReleaseScope`, `UploadScope` |
| a CI request | `Present` (first authorization), `ReadBody`, `AuthorizeAgain`, `Land` or `Fail` |
| configuration changed and web restarted | `Restart` |

`enabled` of the code is "not in the trash" here; the authority of the session
that makes a change is in `Team`; the confirmation of a slug, names and the rate
limit of the routes are left out.  `late` marks a request whose credential was
dead when its body had been read.

### Build, Deploy, Protocol

`Build` follows `gitlab-deployment.ts` from its context to its report.  Each
file swap and each removal of a map is a step that may fail (`PrepareFails`),
each request may be reached or not and answered or not, the requests of a wave
go on when their batch was given up, and the deadline may pass between any two
(`DeadlinePasses`).  `public.stale` is JavaScript another job left in the output,
as it was built or prepared: `Safe` asks the prefix of each file only when maps
were prepared, and only the Debug ID header without.  `blame` remembers what the
application itself broke.
Its specification is `BuildSpec` (`FairSpec` with fairness), and its actions on
the server are `BeginUpload` and `ValidateUpload`: one module of proofs extends
`Deploy` and this one.

`Deploy` follows each operation of the controller command by command
(`op.pc`); `Fail` and `Crash` end one anywhere, with the files, containers and
volumes as they are.  Every command may fail with or without its effect.
`pending` is the journal and `Undo` the automatic return to the old release.
`OperatorReturns` is the recovery guide followed by a person: the models say
nothing of what an operator does otherwise.  `AcceptWrite` needs the door, the
services and a database to be up.  The 24 hours of the setup token are in
`Accounts`.  A journal entry and the command behind it are one action, for dying
between them leaves the same files and containers as that command failing.

`Protocol` follows one event at a time.  A text is measured, not spelled: its
length in UTF-16 units, the number of recognizable secrets in it, the bytes of
a character, and whether a cut would halve a character; a path also has layers
of percent encoding around the one thing in it the sanitizer looks for or
stumbles over (`Insides`).  `Slice`, `Unescaped`, `Masks`, `Decoded`, `Sanitized`,
`Refusals` and `Faults` say what the functions of the package do to the measures,
with the limits of the source.  A pass of `safePath` runs the URL parser, decodes,
cuts and masks, in this order.  So a secret in one layer is masked by the pass
that decodes it, but one behind an encoded backslash is not: `/token%5Cabc` becomes
`/token\abc`, which no pattern matches, and only the next pass's parser makes a
slash of it (`Masks`, inside `"backslash"`); a `webpack:` path with a backslash
goes the same way, for its parser keeps the backslash and the result has no
protocol any more.  A mask adds up to three units after the cut (`Grow`).  The
page's breadcrumbs go through two passes before they reach a scope, those of a
`withScope` callback through one, and an event has both lists (`Merged`).

A path of the model holds one such thing.  The code's may hold several, under
different layers; each is treated as the model says, and the growth of their masks
adds up, which the refusal `SentIsStored` allows for covers.  Of a text only what
`scrub` itself looks for counts as a secret.  A URL in a text is shortened to its
path by one pass, and what is then left of it is no URL to the next: neither a
secret behind a backslash in it nor a second URL nested in it is modelled, and the
latter is a text that does change once more.  A host that comes up with the
decoding (`/%2Fhost/x`) is cut off like a query, and one that was masked
(`//[redacted]`) is no URL to the next pass, as a bare percent sign is none.
Lists hold equal items, timestamps and numbers are left out.  The specification
is `ProtocolSpec`, with `ProtocolInit` and `ProtocolNext`: one module of proofs
extends `Admission` and this one.

## The runs

Deadlock is checked in the runs of `EventInbox` and `Protocol`; the other
systems really may stop, after a bounded number of requests, changes and ticks.
The type invariants (`TypeOK`) are in no run where a theorem states them or
where they only repeat the shape of the state.

| Run | Question | Instance | Properties |
|---|---|---|---|
| `EventInbox_race` | can a late commit, retry, heartbeat or dead-lettering break the fence, and is every accepted event decided? | 1 event that may be admitted twice, 2 workers, 2 attempts, deployment probe | `SingleOwner`, `EffectMatchesOutcome`, `ImplementsDelivery`, `EventuallyDecided` |
| `IssueGrouping_expiry` | is an event counted once, in its group, and do groups, history and status survive late maps, races, users, jobs and expiry? | 2 events in 2 fingerprints, of which the maps move one, 2 reprocessors, maps that come and go at 1 version, events and history that expire within a unit of time, 2 times, pages of 1 group | `CountsMatchEvents`, `GroupSpansEvents`, `HistorySpansEvents`, `StatusFollowsEventsAndUsers` |
| `Admission_day` | do quotas, the shared bucket, statistics and acknowledgements survive races, lost answers, deaths, midnight and the cleanup of a probe? | 3 requests of which 2 carry one event, quota 1, burst 1, 2 times, 2 dates | `QuotaHolds`, `BurstHolds`, `StatisticsMatchRows`, `ConfirmedEventsAreRows` |
| `SourceMaps_share` | is what is submitted or published complete, does a verdict stand, and does an event miss maps that exist? | 2 manifests of one release that share a file, 2 jobs, 2 validators, 2 begins, 1 lost file, 1 event | `UploadsAreWhole`, `PublishedWithRelease`, `NoMissedMaps`, `VerdictStands` |
| `Accounts_access` | is there one setup, does a code work once, do sessions end with what they rest on, and are accounts tried too often? | 2 visitors of the setup, 3 requests, 1 account with and 1 without a factor, 1 recovery code, 2 times, 1 change of each membership | `SetupOnce`, `CodesUsedOnce`, `EnrollmentEnds`, `SessionsSeeCurrentAccess`, `AttemptsBounded` |
| `Team_changes` | who gets in by a link, and can owners, owners' changes or sessions get out of step? | 3 people of whom 2 are owners at first, 2 teams, 1 project, 2 invitations, 2 owners' requests, 1 visitor, 2 changes | `OwnersGovern`, `JoinsByCurrentLink`, `SessionsWithinAccess` |
| `Transport_page` | are delays kept, is a closed page silent, and is nobody granted too much? | 3 slots of which 2 may be pending, 3 keys for 2 buckets, times 0 to 3, buckets idle after 2 units, a clock that steps back, 2 calls of `close` at once, headers short, long and malformed | `ClosedIsSilent`, `BackoffRespected`, `GrantedWithinRate` |
| `Projects_trust` | does a secret or a trust work longer, or shorter, than it should, is nothing restored half, and is the trash emptied? | 2 projects for 1 slug, 2 bindings, 3 kinds of job of which 1 comes from a fork, 1 request at a time, 3 keys, 1 token, 3 changes, 2 times | `RestoredIsWhole`, `GraceIsKept`, `NothingAfterRevocation`, `WrittenByTrusted`, `PurgeEnds` |
| `Build_job` | is what is deployed safe, what is reported true, and does the job end? | 3 files in 2 batches, 3 attempts | `DeployedIsSafe`, `ReportIsTrue`, `JobEnds` |
| `Deploy_host` | does a host survive failures and crashes of its controller? | 3 releases with 3 schemas, the last on the new runtime, 2 writes | `AcceptedWritesSurvive`, `NoJournalMeansSettled`, `OwnerCanBeCreated` |
| `Protocol_event` | is a secret readable anywhere, after which pass, and is an event of the SDK ever refused or changed? | texts, paths, stacks and breadcrumbs at and around every limit, secrets under up to 4 layers and behind backslashes under up to 3, 27 envelopes of other clients, 2 calls on a scope | `SecretsAreMasked`, `SentIsStored` |
| `Deploy_rollback` | a disagreement, [below](#where-the-code-and-its-documents-disagree) | 3 releases on one runtime | `RollbackOnSupportedSchema` |

Why these bounds are enough to show something: a lost lease needs one row and
two workers, and with two attempts the one that is overtaken may be the last; a
group is left by one of its events with two fingerprints, and two reprocessors
race for one event, each pass with its four reads; a
quota is passed by two requests and a duplicate; a file is shared by two
uploads, and two begins let one of them be a repetition of the other while its
puts and its validation go on.  A bucket used at time 0 is idle, and forgotten by
a sweep, at time 3, and its key may ask again in the same window.  Two owners are enough to remove each other,
and two changes to overtake each step of the visitor who follows a link; in
`Accounts_access` two visitors can race for one setup and a third request can
meet what the first two left.  Two batches let a build fail
half prepared and let the requests of one batch outlive it.  Three releases are
needed for a rollback after an update after an update.  Limits are the smallest
at which both sides of every comparison occur, but for `KeyLimit` of
`Projects_trust`: with room for three keys a key can be replaced twice within its
grace, and the limit itself is left to the proofs.  In `Protocol_event` texts are
chosen on both sides of each limit of the source, whose numbers the module has.

For every property of every passing run `PROJECT.json` names a change of the
code that breaks it (`mutants`; in the modules they are the operators named
`Mut...`, used by nothing else), so none holds because its case cannot happen.

Symmetry is declared where the instance does not tell values apart and only for
safety properties and for action properties that are symmetric themselves;
`EventInbox_race`, `Projects_trust` and `Build_job`, which check liveness, have
none.

`CountsMatchEvents` is about the time until a pass commits at the version it
had read.  In the run that needs a version published while the pass is between
its reads, which one version does not give; with two versions and one event TLC
finds the states after it, where the count is wrong, as the second item of the
observations below says, and none before.

## Where the code and its documents disagree

- **`Deploy_rollback`.**  `rollback()` compares the `rollbackFromSchemaVersions`
  of the previous release with the `schemaVersion` in the metadata of the
  current one (`getexception.py:584`) and not with the schema the database has.
  After an update that migrated the schema, failed its health check and was
  undone by the automatic rollback, the migrations stay (`:543`); a manual
  rollback then starts the release before on a schema it does not list,
  although the guard's message says that the previous release "does not support
  the current database schema".  TLC gives the trace in a few steps; the run
  uses `UnattendedSpec`, in which nobody follows the recovery guide.

Other observations made while modelling.  The models have the behaviour as the
code has it; none of these is claimed by a property, and no run is kept for
them:

- The history is looked up by fingerprint without an environment or an order
  (`events.ts:96`).  When a regrouping moved the history of one environment
  only, two groups answer to one fingerprint (`Remembered` may choose), whereas
  ADR 0005 says an alias never does that: fingerprints carry no environment, so
  this takes only the same error in two environments, one of which has maps.  A
  new event may join either group.  It is counted and spanned in the one it
  joins (`CommitJob` takes each of them), but no property says which one.
- A pass may commit at the version it had read (`ReprocessCommit`'s `repeated`),
  and an event is then counted out of a group it has left.  It takes two worker
  processes.  P selects the event (version 0).  Q reprocesses it at version 1
  into `G1`.  P reads the event (version 1, `G1`) and the release (version 1).
  An upload is published: version 2.  Q selects and reads the event (version 1,
  `G1`), the release (version 2) and the artifacts, which give `G2`.  P reads the
  same artifacts and commits: the event moves to `G2` at version 1.  Q finds
  version 1, passes its fence (`reprocess.ts:58`) and moves the event once more
  out of `G1` into `G2`: `G2` counts it twice and `G1` once too few.  The fence
  compares the version and not the group.
- Whether a group moved as a whole is judged from events and activities that
  are still there (`reprocess.ts:132-146`).  Both expire after 30 days and
  history after 90, so a group that was split may look one-to-one later.
- A page is stale when `eventCount` differs from what it showed
  (`issue-workflow.ts:48`).  Regrouping lowers that count, so one arrival and one
  move make it match again; `docs/testing.md:37` expects a conflict.
  `StatusFollowsEventsAndUsers` excepts exactly the pages of whose group an event
  was moved out since they were opened (`lowered`).
- The reset of the installation's counter compares its day with the
  transaction's date.  A transaction of yesterday that gets the lock after one of
  today sets the day back, and the next one forward, each time to zero: the
  limit of the installation is not kept on that night.
- Retention deletes an upload, counts the ready ones of its release and marks
  the release in three statements (`retention.ts:60-86`).  A validation that
  publishes another upload after the count is overwritten by `removed`;
  `PublishedWithRelease` allows for it.  Frames are still restored.
- Registering a release is authorized with the default operation, `maps`
  (`releases/route.ts:19`), where `packages/cli/README.md:48`,
  `docs/gitlab-ci.md:92` and `docs/sdk-compatibility.md` speak of a policy for
  releases: `UploadScope` and `ReleaseScope` are as the code has them.
- The prefix of a job's JavaScript is checked only when it prepared maps, and only
  of JavaScript (`gitlab-deployment.ts:272`, `public-output.ts:91`).  A job without
  maps, or whose preparation failed, deploys what an earlier job left in the
  output unless that was prepared, and any job what is left that is not
  JavaScript.  `packages/cli/README.md:46` asks the application for a clean output
  on every call; `DeployedIsSafe` says what holds without it.
- A text that is cut in the middle of a character makes the insert fail with
  503 instead of a refusal (`Halved`), and a foreign error of the schema is
  answered 503 as well; a mask that is longer than what it hides can push a text
  past its limit and drop the event; a path with a bare `%` after decoding loses
  its frame in the pass after that, which may be the ingest process's
  (`SentIsStored`).
- `packages/protocol/src/index.ts:151` says that a path is decoded before it is
  scrubbed to prevent encoded fragments.  A backslash is decoded after the URL was
  parsed, and the secret behind it stays in that pass's result: in a scope until
  the event is sent, in the inbox if the last pass is the ingest process's
  (`LeftReadable`).  Where the page left it, the ingest process masks it, and a path
  near 512 units then becomes too long and is answered 503.

## Fairness

Three runs check liveness.

- `EventInbox_race`: `FairSpec` assumes that each worker loop keeps taking steps
  (`WF` of `WorkerStep`: `main.ts` loops until it is told to stop, catches every
  error, and the container is restarted when the process dies), and that clocks
  advance (`WF` of `ExpireLease` and `BackoffElapses`).  Nothing is assumed of
  faults, so every attempt may fail; nothing of senders, retention or
  heartbeats, except that a heartbeat does not extend a lease forever:
  `SendHeartbeat` is possible only while a job is being resolved, and the loop's
  own fairness ends that.  `resolveFrames` works through a bounded number of
  frames, which is why `Resolve` belongs to the loop's own steps.  The property
  stops at the trash: events of a deleted project are not claimed.
- `Projects_trust`: time passes, the retention loop keeps looking for a project
  whose row it gets (`WF` of `PurgeLock`), locks are released (`WF` of
  `Unlock`), and a batch that may be tried over and over does not fail each time
  (`SF` of `PurgeBatch`): its limit of rows is chosen so that a batch fits its
  statement timeout.  Nothing is assumed of owners.
- `Build_job`: the job goes on until it is cancelled (`WF` of `JobStep`) and the
  deadline passes (`WF` of `DeadlinePasses`).  Nothing is assumed of the server,
  which may refuse, be silent or never validate.

## The proofs

All theorems hold for every value of the constants that satisfies the named
assumption of the module (`ConstantsAssumption`, `LimiterAssumption`,
`TransportAssumption`, `ProjectsAssumption`, `ReleasesAssumption`,
`AccountsAssumption`, `TeamAssumption`, `SourceMapsAssumption`,
`AdmissionAssumption`, `GroupingAssumption`, `BuildAssumption`,
`ProtocolAssumption`); TLC evaluates those on every run.  The last one only says
what texts, paths and lists are, of a page or of anybody else.  tlapm checks them with SMT, Zenon and, for the temporal steps, LS4.

| Module | Theorem | States |
|---|---|---|
| `EventInboxProofs` | `TypeCorrect` | `Spec => []TypeOK` |
| | `FencingIsExclusive` | `Spec => []SingleOwner` |
| | `EffectIsExactlyOutcome` | `Spec => []EffectMatchesOutcome` |
| | `DeadLettersAreExhausted` | `Spec => []DeadOnlyAfterAllAttempts` |
| | `RecordedEventsStay` | `Spec => []RecordedUntilAged` |
| | `FinishedRowsStayFinished` | `Spec => TerminalIsFinal` |
| | `QueueImplementsDelivery` | `Spec => ImplementsDelivery` |
| | `CountsAlwaysMatch` | `GroupingSpec => []CountsMatchEvents` |
| | `GroupsAlwaysSpan` | `GroupingSpec => []GroupSpansEvents` |
| | `HistoryAlwaysSpans` | `GroupingSpec => []HistorySpansEvents` |
| | `StatusAlwaysFollows` | `GroupingSpec => StatusFollowsEventsAndUsers` |
| `AdmissionProofs` | `QuotaAlwaysHolds` | `Spec => []QuotaHolds` |
| | `StatisticsAlwaysMatch` | `Spec => []StatisticsMatchRows` |
| | `ConfirmedEventsStay` | `Spec => []ConfirmedEventsAreRows` |
| | `BurstAlwaysHolds` | `Spec => []BurstHolds` |
| | `SecretsStayMasked` | `ProtocolSpec => []SecretsAreMasked` |
| | `WhatIsSentIsStored` | `ProtocolSpec => []SentIsStored` |
| `TransportProofs` | `LimiterGrantsWithinRate` | `LimiterSpec => []GrantedWithinRate` |
| | `LimiterStaysSmall` | `LimiterSpec => []BucketsBounded` |
| | `GrantsStayWithinRate` | `Spec => []GrantedWithinRate` |
| | `ClosedStaysSilent` | `Spec => []ClosedIsSilent` |
| | `BackoffIsRespected` | `Spec => BackoffRespected` |
| `ProjectsProofs` | `RestoredStaysWhole` | `Spec => []RestoredIsWhole` |
| | `ReplacedKeysStop` | `Spec => []ReplacedKeysEnd` |
| | `NothingIsWrittenLate` | `Spec => []NothingAfterRevocation` |
| | `GraceIsAlwaysKept` | `Spec => GraceIsKept` |
| | `WritersAreTrusted` | `Spec => []WrittenByTrusted` |
| `SourceMapsProofs` | `UploadsStayWhole` | `Spec => []UploadsAreWhole` |
| | `ReleasesStayPublished` | `Spec => []PublishedWithRelease` |
| | `MapsAreNotMissed` | `Spec => []NoMissedMaps` |
| | `VerdictsStand` | `Spec => VerdictStands` |
| `DeployProofs` | `HostInvariant`, `TypesHold` | `Spec => []DeployInv`, `Spec => []TypeOK` |
| | `WritesSurvive` | `Spec => []AcceptedWritesSurvive` |
| | `HostIsSettled` | `Spec => []NoJournalMeansSettled` |
| | `SetupStaysPossible` | `Spec => []OwnerCanBeCreated` |
| | `DeployedStaysSafe` | `BuildSpec => []DeployedIsSafe` |
| | `ReportsAreTrue` | `BuildSpec => []ReportIsTrue` |
| `AccountsProofs` | `CodesWorkOnce` | `Spec => []CodesUsedOnce` |
| | `OneOwnerBySetup` | `Spec => []SetupOnce` |
| | `NothingLeftOfEnrollment` | `Spec => []EnrollmentEnds` |
| | `SessionsAreCurrent` | `Spec => []SessionsSeeCurrentAccess` |
| | `RecentProofIsProven` | `Spec => []RecentIsProven` |
| | `AttemptsAreBounded` | `Spec => []AttemptsBounded` |
| `TeamProofs` | `AnOwnerGoverns` | `Spec => []OwnersGovern` |
| | `SessionsStayWithinAccess` | `Spec => []SessionsWithinAccess` |
| | `JoiningIsByCurrentLink` | `Spec => []JoinsByCurrentLink` |
| | `ProjectsKeepTeams` | `Spec => []EveryProjectHasTeam` |
| | `PendingIsUnique` | `Spec => []OnePendingPerPerson` |
| | `InvitationsStaySettled` | `Spec => SettledStays` |

None of the safety properties is inductive as it stands.  What each invariant
adds, and why it is needed:

- **EventInbox**: `IInv == TypeOK /\ LeaseInv /\ OutcomeInv /\ AgeInv`.
  `LeaseInv` says that tokens are fresh and of one job each, that a row has one
  exactly while it is processing, and that a worker past its fence still owns
  its row; it is what makes a late commit or retry fail.  `OutcomeInv` ties
  attempts and effects to the status and says that the attempt a worker
  remembers is the row's own as long as the worker owns it, without which a late
  retry could dead-letter too early.  `AgeInv` says that a row and the event
  made from it age together.  For the refinement each action is mapped to the
  action of `EventDelivery` it implements (`Admit` to `Accept`, `Commit` and
  `CommitUnacknowledged` to `Record`, `ClaimReap` and the last `RetryJob` to
  `Drop`, retention to `Expire`, `Forget`, `Erase`) or to a stutter.
- **IssueGrouping**: `GroupPageInv`.  A group spans every event in it and the
  event of every pass that read it there (`Spanned`, `Known`), although the event
  may have left it since: rows only widen, and the pass forgets a row that is
  removed.  A fenced pass holds its row alone (`FencedAlone`).  A group is never
  removed under an event nor under a page that shows it (`PageShown`), which is
  why a status is never written to a row that is gone.  For the status, each
  writer of a row is described once (`CommitRow`, `Regrouped`, `StatusRow`) and
  nothing else writes rows (`RowWriters`); a page that no move lowered and whose
  count matches shows every event that arrived (`PageAdds`).
  For the counts (`GroupCountInv`), as long as `repeated` is empty the version of
  an event is at least what any pass or job saw of it (`Behind`, `Following`), a
  pass whose version is still the event's knows the group the event is in
  (`Current`), so a commit takes one event from the group the row names and none
  twice, and counts stay equal to cardinalities (`Counted`).  Without that
  hypothesis `Current` is false, which is the second observation above.
  For the history (`GroupHistoryInv`), the times a row compares are those of
  committed events, which stay (`Placed`), and no event is later than the clock
  (`Timely`).  A group claims the events in it and those a pass may put back
  (`Claims`); the row of a claimed event that is not expired spans it (`Held`).
  What spanned an event spans it after a merge and a transfer (`UpsertCovers`,
  `TransferCovers`); a row is started afresh or removed only when its last
  observation is older than `HistoryTTL`, and a row of a retained event is not,
  as `EventTTL <= HistoryTTL` (`OldRow`; 30 and 90 days in `retention.ts`).
- **Admission**: `AdmissionInv`.  Whoever is between `Decide` and `Commit` holds
  the row lock, its event has still no row and its project is still below its
  quota (`LockInv`): that is all a commit needs.  The statistics agree with the
  rows because a cleanup, which takes one from a counter and stops at zero, finds
  at least the row it deletes counted: the rows that are there are never more
  than the count of their day (`CountInv`, by cardinality).  A row and an
  insert that succeeded are of a confirmed event (`ConfirmedInv`).  For
  `BurstHolds`, from any time on the burst and what the rate gives until the
  bucket's time cover what was admitted since *and* the credit that is left, or
  the balance the holder of the lock is about to leave (`Afforded`, `Takes`);
  nothing was admitted after the bucket's time (`BucketInv`).
- **Protocol**: `ProtocolInv`.  The scopes and whatever the sanitizer returns
  hold masked texts and paths (`CleanScope`, `CleanEvent`); what is on the wire
  was sanitized twice and is what `encodeEnvelope` makes of it (`SentEvent`).
  Masked texts within the limits do not change again (`ScrubKeeps`).  What a pass
  makes of a path is `MadeOf`: a readable secret in it is one behind a backslash,
  of a path that was short enough nothing is cut, it grows only if something is
  masked in it, and a settled path stays.  After two passes paths are whole
  (`PathTwice`), so a third cuts nothing and halves no character, and what it does
  to a path is `PathAgain`: it fits unless a secret waited in it, and what was
  readable is so no more (`WholePathAgain`, `SanitizedAgain`).  The largest event the schema allows takes 635676 bytes,
  with 1240 fields: every limit of the parser holds (`TotalFits`,
  `LongestText`, `EncodedParses`).
- **BucketLimiter**: what any stretch of time granted beyond the rate *plus the
  credit that is left* is at most the burst.  A bucket that is forgotten counts as a full
  one, which is sound because an idle bucket has refilled by then
  (`Burst <= Rate * Idle` of the assumption); a clock that steps back gives no
  credit.  For the size: what a sweep keeps is a subset, and a new key is only
  let in below `Cap`.
- **Transport**: the page's `told` never exceeds its `backoffUntil`, and a page
  without a client has aborted what is under way.  The steps of the limiter are
  those of `BucketLimiter`, so its account carries over.
- **Projects**: for each project, the purge holds only what is past its
  recovery, the restoration only what is whole, and what may still be restored
  is whole (`Whole`); a replaced key has an end that no later rotation moves
  (`Ends`); a late request has a dead credential (`Honest`), and a dead
  credential stays dead, since ids are never used again (`DeathIsFinal`).  For
  `GraceIsKept`, the ids of keys are distinct and every end is 24 hours after the
  first replacement (`GraceInv`), so a later rotation finds nothing to shorten.
  For `WrittenByTrusted`, what the last check of a request found (`Vouched`) is
  about its claims, the binding and what was ever allowed: a policy that is
  withdrawn or replaced does not undo it, and only a restart changes the binding,
  which ends all requests (`TrustInv`).
- **SourceMaps**: `MapsInv`.  That every submitted upload has its files is kept
  by what the transactions in flight rely on: whoever begins holds the lock
  (`LockInv`), so the plan of a begin still agrees with all rows and counts only
  on files that are there when it commits (`PlanInv`), and neither another begin
  nor the sweep can come between; ids are given once (`FreshInv`), so a put that
  finds its row's id finds the file it wrote (`PutInv`).  `RowsInv` is the
  property with its uploads named one by one, and says of an upload still being
  filled that what is marked uploaded is there.  A release row only grows
  (`Grows`) until `retainReleases` finds neither upload nor event of it, and no
  event has seen or is reading more than its release's version (`EventInv`);
  an event that stores zero while a map is ready is behind because a ready
  upload's release has a version above zero (`ReleaseInv`).  `VerdictStands`
  follows from what a step may make of a status (`StatusStep`).
- **Deploy**: `DeployInv` says what the host looks like before each command:
  before the journal is written nothing has been touched (`EarlyInv`); while the
  services are down nothing is written and the dump or the volume has every
  write (`MoveInv`); while a release is started the database it is started on is
  complete (`StartInv`); and without a journal the host is settled (`FilesInv`).
  A crash keeps the files, so it only needs the parts that do not mention the
  command under way.
- **Build**: `JobInv`.  Before the check nothing is deployed, and the private
  directory grows with the batches in order, so it has them all when the first
  file is swapped; only then can `mapsDirectory` be set, with every file swapped
  (`PrepInv`).  Uploads are of what was deployed (`HandInv`).  An upload that is
  pending or ready has its files for good, and as long as no batch was given up
  all before the present one are ready, so the last makes the report true
  (`ServerInv`).  What a request may make of the job and of the server is said
  once (`Progress`, `ServerGrows`) and each request shown to be of that kind.
- **Accounts**: every accepted code is at or before the last one of its
  credential and every spent recovery code is gone (`FactorInv`), so a second
  use fails whichever request tries it; sessions and sign-ins under way carry
  the era of their account (`SessionInv`, `RequestInv`), which needs the shared
  lock; the one bootstrap row is held by whoever is creating the Owner
  (`SetupInv`).  For `RecentIsProven`, a session is opened once and its user
  never changes, so a renewed proof that is under way finds its own (`ProvenInv`).
  For `AttemptsBounded`, each request that passed the counter was counted in the
  bucket of its account; the bucket of the current window counts them all,
  whatever retention deletes, and those of earlier windows take no more
  (`AttemptInv`).
- **Team**: one owner's transaction or several people who join, never both
  (`LockInv`); a transaction between its checks and its writes still finds what
  it checked (`Checked`, `Admitted`), and a visitor is where the rows it holds
  say (`Position`).  A commit then has to show the rows only, as nobody else's
  checks are left to hold (`AfterCommit`); a step that only takes away leaves
  the checks of others true (`Weaker`).

Only model-checked: the liveness properties `EventuallyDecided`, `PurgeEnds` and
`JobEnds` (fairness and ENABLED are outside the prover's reach),
and the bound of versions in `TypeOK` of `SourceMaps`, which counts publications
against begins.  Every other property of a run is a theorem.

## What is not modelled

- Symbolication: position lookup in one map, a computation on one input that
  unit tests cover; its outcome is a constant of `IssueGrouping`.
- The offsite backup (`deploy/backup.py`), the SSH deployment script, CI,
  local preview and the other scripts: pipelines without state of their own.
  Of the controller's work, the checks of archives, the contents of its probes
  and the removal of the old mail worker are left out.
- Analytics, lists and audit views: read-only queries.  The user interface,
  React bindings, configuration and the database client: no protocol of their
  own.
- An event that can never be reprocessed.  The oldest outdated event is always
  chosen (`reprocess.ts:15`, `ReprocessSelect`), so such an event stands in front
  of the others; in `IssueGrouping` a pass may fail at any step, but nothing is
  said of progress.
- Row locks inside a statement, and the order in which one statement locks
  several rows.  PostgreSQL aborts one side of a deadlock, which the models
  have as a failed transaction.
- The batching of retention (100 rows a pass) and of lists, other than in the
  purge of projects.
- The boundary of groups older than the history migration (`firstSeenKnown`):
  projects are modelled as created after it.
- `receivedAt` of a retained receipt: any later date stands for 30 days in
  `Admission`; in `EventInbox` ageing is a step that may happen at any time.
- The artifacts of the several frames of an event are read together in
  `IssueGrouping` and in `SourceMaps`; the code asks for them frame by frame.
- Sizes, quotas and the disk reserve of uploads: a begin or a put may fail at
  that point (`AbortBegin`, `AbortPut`), and nothing is said of the budgets.
  Temporary files, the batches of the sweep, `appVersion` and deployments of
  releases, and the project's trash in `SourceMaps`.
- Hashes, cookies, signatures and encryption: right or wrong.  The reading role
  of a member, e-mail and its outbox, and audit rows.
- Timestamps and numbers inside an event, and lists with unlike items.

## Plan

1. `EventDelivery`, `EventInbox`, `Admission`, `SourceMaps`, `Accounts`, `Team`,
   `BucketLimiter`, `Transport`, `Projects`, `Deploy`, `IssueGrouping`, `Build`,
   `Protocol`: modelled, checked and proved.
2. To come, in this order: the reprocessor's choice with failures and its
   liveness; budgets of uploads.

## Running it

    tlc -workers 2 -config EventInbox_race.cfg MCEventInbox
    tlapm EventInboxProofs.tla

The configuration `X_y.cfg` belongs to the module `MCX`.  Each run takes between
a few seconds and half a minute on two cores.  The proofs take from half a
minute to a few minutes a module; `tlapm` remembers what it proved.
