------------------------------ MODULE Admission ------------------------------
(***************************************************************************)
(* Admission of events to the inbox: the envelope handler of the ingest    *)
(* processes (apps/ingest/src/server.ts) and the insert trigger            *)
(* admit_inbox() with its quotas, backlog limit and shared token bucket,   *)
(* together with what moves their counters behind its back: workers that   *)
(* finish rows, retention, the deployment check's cleanup, and projects    *)
(* that go to the trash and come back.                                     *)
(*                                                                         *)
(* A request is one HTTP request; requests with the same event are a       *)
(* sender's retries or duplicates.  The per-process limiter is reduced to  *)
(* its verdict, the parser to its outcome.                                 *)
(***************************************************************************)
EXTENDS Integers, FiniteSets

CONSTANTS
    Requests,
    Events,
    EventOf,            \* [Requests -> Events]
    Projects,
    ProjectOf,          \* [Events -> Projects]
    Probes,             \* events of the deployment check
    Quota,              \* [Projects -> Nat]: dailyQuota
    InstallationLimit,  \* 100000 in the code
    BacklogLimit,       \* 10000
    Burst,              \* 50
    Rate,               \* 20: credits gained per unit of time
    MaxNow,             \* bound of the model: units of time
    MaxDay,             \* bound of the model: midnights
    None

ASSUME AdmissionAssumption ==
    /\ EventOf \in [Requests -> Events]
    /\ ProjectOf \in [Events -> Projects]
    /\ Quota \in [Projects -> Nat]
    /\ {InstallationLimit, BacklogLimit, Burst, Rate, MaxNow, MaxDay} \subseteq Nat
    /\ IsFiniteSet(Events)
    /\ None \notin Requests \cup {200, 400, 403, 429, 503}
    /\ None \notin [active : BOOLEAN, received : 0..MaxDay]

Days == 0..MaxDay
Times == 0..MaxNow
Steps == 0..(MaxNow + 1)

VARIABLES
    now,                \* clock_timestamp(), for the bucket
    today,              \* the date of that clock
    pc,                 \* where each request is
    answer,             \* its HTTP status
    txn,                \* the inserting transaction of a request
    lock,               \* holder of the admission_state row
    admission,          \* admission_state: day and accepted
    accepted,           \* project_daily_stat.accepted
    rejected,           \* project_daily_stat.rejected, over all days
    bucket,             \* project_admission_bucket
    inbox,              \* event_inbox rows, None without a row
    recorded,           \* events with an error_event row
    keys,               \* projects whose requests carry a valid ingestion key
    trash,              \* project.deletedAt IS NOT NULL
    \* bookkeeping
    dated,              \* the date each row was counted on
    ledger,             \* rows inserted by project and date, cleaned probes apart
    spent,              \* rows inserted by project, admitted at a time or later
    confirmed,          \* events that had a committed row
    misdated            \* projects with a probe uncounted on another date

ghosts == <<dated, ledger, spent, confirmed, misdated>>
counters == <<lock, admission, accepted, bucket, ghosts>>
clocks == <<now, today>>
vars == <<clocks, pc, answer, txn, rejected, counters, inbox, recorded, keys, trash>>

Zero == [p \in Projects |-> [d \in Days |-> 0]]

Init ==
    /\ now = 0
    /\ today = 0
    /\ pc = [r \in Requests |-> "sent"]
    /\ answer = [r \in Requests |-> None]
    /\ txn = [r \in Requests |-> None]
    /\ lock = None
    /\ admission = [day |-> 0, accepted |-> 0]
    /\ accepted = Zero
    /\ rejected = [p \in Projects |-> 0]
    /\ bucket = [p \in Projects |-> [credit |-> Burst, at |-> 0]]
    /\ inbox = [e \in Events |-> None]
    /\ recorded = {}
    /\ keys = Projects
    /\ trash = {}
    /\ dated = [e \in Events |-> 0]
    /\ ledger = Zero
    /\ spent = [p \in Projects |-> [t \in Steps |-> 0]]
    /\ confirmed = {}
    /\ misdated = {}

-----------------------------------------------------------------------------

Target(r) == ProjectOf[EventOf[r]]
Least(a, b) == IF a < b THEN a ELSE b
LessOne(n) == IF n > 0 THEN n - 1 ELSE 0        \* greatest(0, n - 1)

\* The view ingestion_config has a row for the project and the key.
Configured(p) == p \in keys /\ p \notin trash

\* Unfinished rows of projects that are not in the trash.
Backlog == {e \in Events : /\ inbox[e] # None /\ inbox[e].active
                           /\ ProjectOf[e] \notin trash}

Reply(r, code) ==
    /\ pc' = [pc EXCEPT ![r] = "answered"]
    /\ answer' = [answer EXCEPT ![r] = code]

-----------------------------------------------------------------------------
(* The handler before the insert.                                          *)

\* Installation and IP limits, headers and credentials, then the config read.
CheckKey(r) ==
    /\ pc[r] = "sent"
    /\ IF Configured(Target(r))
       THEN pc' = [pc EXCEPT ![r] = "keyed"] /\ UNCHANGED answer
       ELSE Reply(r, 403)
    /\ UNCHANGED <<clocks, txn, rejected, counters, inbox, recorded, keys, trash>>

\* 429 before the key is known is not attributed to a project.
RefuseUnknown(r) ==
    /\ pc[r] = "sent"
    /\ \E code \in {400, 429} : Reply(r, code)
    /\ UNCHANGED <<clocks, txn, rejected, counters, inbox, recorded, keys, trash>>

\* The project bucket of this process is empty.
RefuseProject(r) ==
    /\ pc[r] = "keyed"
    /\ pc' = [pc EXCEPT ![r] = "refused"]
    /\ UNCHANGED <<clocks, answer, txn, rejected, counters, inbox, recorded, keys, trash>>

\* Media type, body, envelope or environment not acceptable.
RefuseBody(r) ==
    /\ pc[r] = "keyed"
    /\ Reply(r, 400)
    /\ UNCHANGED <<clocks, txn, rejected, counters, inbox, recorded, keys, trash>>

\* The INSERT starts: CURRENT_DATE is fixed with its transaction.
Begin(r) ==
    /\ pc[r] = "keyed"
    /\ pc' = [pc EXCEPT ![r] = "begun"]
    /\ txn' = [txn EXCEPT ![r] = [date |-> today, received |-> today, at |-> now, left |-> 0]]
    /\ UNCHANGED <<clocks, answer, rejected, counters, inbox, recorded, keys, trash>>

-----------------------------------------------------------------------------
(* admit_inbox().                                                          *)

\* receivedAt is stamped before the lock is requested.
Stamp(r) ==
    /\ pc[r] = "begun"
    /\ pc' = [pc EXCEPT ![r] = "waiting"]
    /\ txn' = [txn EXCEPT ![r].received = today]
    /\ UNCHANGED <<clocks, answer, rejected, counters, inbox, recorded, keys, trash>>

LockFree == lock = None

\* accepted of the installation, after the reset the trigger makes first.
InstallationToday(date) == IF admission.day = date THEN admission.accepted ELSE 0

\* least(50, credit + elapsed * 20)
Available(p) == Least(Burst, bucket[p].credit + (now - bucket[p].at) * Rate)

\* Mutant: the daily quota may be reached once more.
MutQuotaOffByOne(p, date) ==
    \/ InstallationToday(date) >= InstallationLimit
    \/ accepted[p][date] > Quota[p]
    \/ Cardinality(Backlog) >= BacklogLimit
    \/ Available(p) < 1

OverCapacity(p, date) ==
    \/ InstallationToday(date) >= InstallationLimit
    \/ accepted[p][date] >= Quota[p]
    \/ Cardinality(Backlog) >= BacklogLimit
    \/ Available(p) < 1

Ended(r) == txn' = [txn EXCEPT ![r] = None]

\* Under the lock, every check reads committed data; an exception undoes all.
Decide(r) ==
    LET p == Target(r) IN
    /\ pc[r] = "waiting"
    /\ LockFree
    /\ IF inbox[EventOf[r]] # None                  \* RETURN NULL: nothing inserted
       THEN pc' = [pc EXCEPT ![r] = "inserted"] /\ Ended(r) /\ UNCHANGED lock
       ELSE IF p \in trash                          \* ingest_disabled
       THEN pc' = [pc EXCEPT ![r] = "failed"] /\ Ended(r) /\ UNCHANGED lock
       ELSE IF OverCapacity(p, txn[r].date)         \* ingest_capacity
       THEN pc' = [pc EXCEPT ![r] = "refused"] /\ Ended(r) /\ UNCHANGED lock
       ELSE /\ pc' = [pc EXCEPT ![r] = "admitting"]
            /\ txn' = [txn EXCEPT ![r].at = now, ![r].left = Available(p) - 1]
            /\ lock' = r
    /\ UNCHANGED <<clocks, answer, rejected, admission, accepted, bucket, ghosts, inbox, recorded, keys, trash>>

\* Mutant: the time of the bucket is not moved forward.
MutSpend(r, b) == [b EXCEPT !.credit = txn[r].left]

Spend(r, b) == [credit |-> txn[r].left, at |-> txn[r].at]

\* One more row was admitted at a time, and so since every time before.
OneMore(rows, at) == [t \in DOMAIN rows |-> IF t <= at THEN rows[t] + 1 ELSE rows[t]]

\* The counters and the row become visible together; ON CONFLICT DO NOTHING.
Commit(r) ==
    LET e == EventOf[r]
        p == Target(r)
        d == txn[r].date
        new == inbox[e] = None
    IN
    /\ pc[r] = "admitting"
    /\ pc' = [pc EXCEPT ![r] = "inserted"]
    /\ lock' = None
    /\ admission' = [day |-> d, accepted |-> InstallationToday(d) + 1]
    /\ accepted' = [accepted EXCEPT ![p][d] = @ + 1]
    /\ bucket' = [bucket EXCEPT ![p] = Spend(r, @)]
    /\ IF new
       THEN /\ inbox' = [inbox EXCEPT ![e] = [active |-> TRUE, received |-> txn[r].received]]
            /\ dated' = [dated EXCEPT ![e] = d]
            /\ ledger' = [ledger EXCEPT ![p][d] = @ + 1]
            /\ spent' = [spent EXCEPT ![p] = OneMore(@, txn[r].at)]
            /\ confirmed' = confirmed \cup {e}
            /\ UNCHANGED misdated
       ELSE UNCHANGED <<inbox, ghosts>>
    /\ Ended(r)
    /\ UNCHANGED <<clocks, answer, rejected, recorded, keys, trash>>

\* The database fails, or its answer is lost on the way back.
Fail(r) ==
    /\ pc[r] \in {"sent", "begun", "waiting", "admitting", "inserted"}
    /\ pc' = [pc EXCEPT ![r] = "failed"]
    /\ lock' = IF lock = r THEN None ELSE lock
    /\ Ended(r)
    /\ UNCHANGED <<clocks, answer, rejected, admission, accepted, bucket, ghosts,
                   inbox, recorded, keys, trash>>

-----------------------------------------------------------------------------
(* The handler after the insert.                                           *)

Accept(r) ==
    /\ pc[r] = "inserted"
    /\ Reply(r, 200)
    /\ UNCHANGED <<clocks, txn, rejected, counters, inbox, recorded, keys, trash>>

\* Mutant: a failed insert is confirmed like a duplicate.
MutUnavailable(r) ==
    /\ pc[r] = "failed"
    /\ Reply(r, 200)
    /\ UNCHANGED <<clocks, txn, rejected, counters, inbox, recorded, keys, trash>>

Unavailable(r) ==
    /\ pc[r] = "failed"
    /\ Reply(r, 503)
    /\ UNCHANGED <<clocks, txn, rejected, counters, inbox, recorded, keys, trash>>

\* rejectCapacity(): the rejection is counted, if the key is still valid and
\* the database answers, in a transaction of its own.
Reject(r) ==
    /\ pc[r] = "refused"
    /\ Reply(r, 429)
    /\ \/ Configured(Target(r)) /\ rejected' = [rejected EXCEPT ![Target(r)] = @ + 1]
       \/ UNCHANGED rejected
    /\ UNCHANGED <<clocks, txn, counters, inbox, recorded, keys, trash>>

\* The ingest process stops: no answer, and an open transaction rolls back.
Die(r) ==
    /\ pc[r] \notin {"answered", "lost"}
    /\ pc' = [pc EXCEPT ![r] = "lost"]
    /\ lock' = IF lock = r THEN None ELSE lock
    /\ Ended(r)
    /\ UNCHANGED <<clocks, answer, rejected, admission, accepted, bucket, ghosts,
                   inbox, recorded, keys, trash>>

-----------------------------------------------------------------------------
(* The rest of the system (EventInbox has the details), without the lock   *)
(* except for the cleanup of a probe.                                      *)

FinishRow(e, done) ==
    /\ e \in Backlog
    /\ inbox' = [inbox EXCEPT ![e].active = FALSE]
    /\ recorded' = IF done THEN recorded \cup {e} ELSE recorded
    /\ UNCHANGED <<clocks, pc, answer, txn, rejected, counters, keys, trash>>

\* Long after its arrival: any later date stands for the 30 days.
RetainReceipt(e) ==
    /\ inbox[e] # None
    /\ ~inbox[e].active
    /\ inbox[e].received < today
    /\ inbox' = [inbox EXCEPT ![e] = None]
    /\ recorded' = recorded \ {e}
    /\ UNCHANGED <<clocks, pc, answer, txn, rejected, counters, keys, trash>>

\* Mutant: the statistics keep counting the probe.
MutCleanupProbe(e) ==
    /\ e \in Probes \cap recorded
    /\ lock = None
    /\ inbox' = [inbox EXCEPT ![e] = None]
    /\ recorded' = recorded \ {e}
    /\ ledger' = [ledger EXCEPT ![ProjectOf[e]][dated[e]] = @ - 1]
    /\ UNCHANGED <<clocks, pc, answer, txn, rejected, lock, admission, accepted, bucket,
                   dated, spent, confirmed, misdated, keys, trash>>

\* cleanup_deployment_probe(): the counters forget the probe on the day of its
\* receivedAt; the bucket does not.
CleanupProbe(e) ==
    LET p == ProjectOf[e]
        d == inbox[e].received
    IN
    /\ e \in Probes \cap recorded
    /\ lock = None
    /\ inbox' = [inbox EXCEPT ![e] = None]
    /\ recorded' = recorded \ {e}
    /\ accepted' = [accepted EXCEPT ![p][d] = LessOne(@)]
    /\ admission' = IF admission.day = d
                    THEN [admission EXCEPT !.accepted = LessOne(@)]
                    ELSE admission
    /\ ledger' = [ledger EXCEPT ![p][dated[e]] = @ - 1]
    /\ misdated' = IF d = dated[e] THEN misdated ELSE misdated \cup {p}
    /\ UNCHANGED <<clocks, pc, answer, txn, rejected, lock, bucket, dated, spent,
                   confirmed, keys, trash>>

RevokeKey(p) ==
    /\ p \in keys
    /\ keys' = keys \ {p}
    /\ UNCHANGED <<clocks, pc, answer, txn, rejected, counters, inbox, recorded, trash>>

DeleteProject(p) ==
    /\ p \notin trash
    /\ trash' = trash \cup {p}
    /\ UNCHANGED <<clocks, pc, answer, txn, rejected, counters, inbox, recorded, keys>>

RestoreProject(p) ==
    /\ p \in trash
    /\ trash' = trash \ {p}
    /\ UNCHANGED <<clocks, pc, answer, txn, rejected, counters, inbox, recorded, keys>>

Tick ==
    /\ now < MaxNow
    /\ now' = now + 1
    /\ UNCHANGED <<today, pc, answer, txn, rejected, counters, inbox, recorded, keys, trash>>

Midnight ==
    /\ today < MaxDay
    /\ today' = today + 1
    /\ UNCHANGED <<now, pc, answer, txn, rejected, counters, inbox, recorded, keys, trash>>

-----------------------------------------------------------------------------

Handle(r) ==
    \/ CheckKey(r) \/ RefuseUnknown(r) \/ RefuseProject(r) \/ RefuseBody(r)
    \/ Begin(r) \/ Stamp(r) \/ Decide(r) \/ Commit(r) \/ Fail(r)
    \/ Accept(r) \/ Unavailable(r) \/ Reject(r) \/ Die(r)

Next ==
    \/ \E r \in Requests : Handle(r)
    \/ \E e \in Events : \/ \E done \in BOOLEAN : FinishRow(e, done)
                         \/ RetainReceipt(e) \/ CleanupProbe(e)
    \/ \E p \in Projects : RevokeKey(p) \/ DeleteProject(p) \/ RestoreProject(p)
    \/ Tick \/ Midnight

Spec == Init /\ [][Next]_vars

-----------------------------------------------------------------------------
(* Properties.                                                             *)

TypeOK ==
    /\ now \in Times
    /\ today \in Days
    /\ pc \in [Requests -> {"sent", "keyed", "begun", "waiting", "admitting", "inserted",
                            "refused", "failed", "answered", "lost"}]
    /\ answer \in [Requests -> {None, 200, 400, 403, 429, 503}]
    /\ \A r \in Requests : txn[r] # None =>
          txn[r] \in [date : Days, received : Days, at : Times, left : Nat]
    /\ lock \in Requests \cup {None}
    /\ admission \in [day : Days, accepted : Nat]
    /\ accepted \in [Projects -> [Days -> Nat]]
    /\ rejected \in [Projects -> Nat]
    /\ bucket \in [Projects -> [credit : 0..Burst, at : Times]]
    /\ \A e \in Events : inbox[e] # None => inbox[e] \in [active : BOOLEAN, received : Days]
    /\ recorded \subseteq Events
    /\ keys \subseteq Projects
    /\ trash \subseteq Projects
    /\ dated \in [Events -> Days]
    /\ ledger \in [Projects -> [Days -> Nat]]
    /\ spent \in [Projects -> [Steps -> Nat]]
    /\ confirmed \subseteq Events
    /\ misdated \subseteq Projects

\* Each row is counted once, whatever is retried, duplicated, rolled back or
\* cleaned up: the daily statistics agree with the rows that were inserted, unless
\* a probe that straddled midnight was uncounted on the wrong date.
StatisticsMatchRows ==
    \A p \in Projects \ misdated : accepted[p] = ledger[p]

\* No interleaving of ingest processes takes a project beyond its daily quota, on
\* either side of midnight; the same exception.
QuotaHolds ==
    \A p \in Projects \ misdated : \A d \in Days : ledger[p][d] <= Quota[p]

\* The shared bucket: in every span of time a project gets at most its burst
\* and what the rate adds, however many ingest processes it is reached through.
BurstHolds ==
    \A p \in Projects : \A s, t \in Times :
        s <= t => spent[p][s] - spent[p][t + 1] <= Burst + (t - s) * Rate

\* 200 is an acknowledgement: the event is, or was, a row of the inbox.
ConfirmedEventsAreRows ==
    \A r \in Requests : answer[r] = 200 => EventOf[r] \in confirmed

=============================================================================
