----------------------------- MODULE EventInbox -----------------------------
(***************************************************************************)
(* The event_inbox queue and the event workers that drain it               *)
(* (apps/worker/src/events.ts): claim with a lease and a random token,     *)
(* heartbeats while frames are resolved, a fenced final transaction,       *)
(* retry with backoff, dead letters, and the retention of events and       *)
(* receipts.  Any worker may stop at any point and lose its job, and a     *)
(* lease may run out while its worker is still alive.                      *)
(*                                                                         *)
(* The effect of the final transaction on groups, history and releases is  *)
(* modelled in IssueGrouping; here it is the creation of the error_event.  *)
(***************************************************************************)
EXTENDS Integers, FiniteSets

CONSTANTS
    Events,             \* (project, eventId) identities a sender may submit
    Workers,            \* concurrent worker loops, over all processes
    Projects,
    ProjectOf,          \* [Events -> Projects]
    Probes,             \* events sent by the deployment check
    MaxAttempts,        \* MAX_ATTEMPTS
    MaxAdmissions,      \* bound of the model: rows ever inserted
    NoJob               \* a worker without a job

Tokens == Nat \ {0}     \* 0 stands for a NULL leaseToken
Jobs == [event : Events, token : Tokens, attempts : Nat]

ASSUME ConstantsAssumption ==
    /\ IsFiniteSet(Events)
    /\ ProjectOf \in [Events -> Projects]
    /\ Probes \subseteq Events
    /\ MaxAttempts \in Nat \ {0}
    /\ MaxAdmissions \in Nat
    /\ NoJob \notin Jobs

VARIABLES
    \* event_inbox, one row per event id
    status,             \* "absent" when there is no row
    attempts,
    token,              \* leaseToken
    lease,              \* leaseUntil is in the future
    due,                \* nextAttemptAt has passed
    received,           \* receivedAt, as a position in the order of arrival
    aged,               \* receivedAt is before the retention cutoff
    \* error_event
    stored,             \* events with an error_event row
    storedAged,         \* those whose receivedAt is before the cutoff
    \* project.deletedAt IS NOT NULL
    deleted,
    \* the worker loops
    pc,
    job,                \* the row returned by claim
    beats,              \* heartbeat updates on their way to the database
    \* bookkeeping
    lastToken,          \* tokens handed out so far (randomUUID never repeats)
    admissions,         \* rows inserted so far
    effects             \* error_event rows created since the row was inserted

rows == <<status, attempts, token, lease, due, received, aged>>
tables == <<rows, stored, storedAged, deleted>>
ghosts == <<lastToken, admissions, effects>>
vars == <<tables, pc, job, beats, ghosts>>

Statuses == {"absent", "pending", "processing", "done", "dead"}
Active(e) == status[e] \in {"pending", "processing"}
Terminal(e) == status[e] \in {"done", "dead"}
IsDeleted(e) == ProjectOf[e] \in deleted

Init ==
    /\ status = [e \in Events |-> "absent"]
    /\ attempts = [e \in Events |-> 0]
    /\ token = [e \in Events |-> 0]
    /\ lease = [e \in Events |-> FALSE]
    /\ due = [e \in Events |-> FALSE]
    /\ received = [e \in Events |-> 0]
    /\ aged = [e \in Events |-> FALSE]
    /\ stored = {}
    /\ storedAged = {}
    /\ deleted = {}
    /\ pc = [w \in Workers |-> "idle"]
    /\ job = [w \in Workers |-> NoJob]
    /\ beats = {}
    /\ lastToken = 0
    /\ admissions = 0
    /\ effects = [e \in Events |-> 0]

-----------------------------------------------------------------------------
(* Rows and their locks.                                                   *)

\* The final transaction holds FOR UPDATE on the row from its fence to its end.
Locked(e) == \E w \in Workers : pc[w] = "fenced" /\ job[w].event = e

\* Mutant: any attempt of a row that is being processed passes.
MutOwnsProcessing(w, e) ==
    /\ job[w].event = e
    /\ status[e] = "processing"

\* Mutant: the row is addressed by its id alone.
MutOwnsById(w, e) == job[w].event = e

\* id = job.id AND leaseToken = job.leaseToken AND status = 'processing'
Owns(w, e) ==
    /\ job[w].event = e
    /\ job[w].token = token[e]
    /\ status[e] = "processing"

\* The loop holds a claimed row.
Busy == {"resolving", "resolved", "fenced", "failed"}

ReleaseJob(w) ==
    /\ pc' = [pc EXCEPT ![w] = "idle"]
    /\ job' = [job EXCEPT ![w] = NoJob]

\* DELETE FROM event_inbox: no row, all columns back to their initial value.
DropRow(e) ==
    /\ status' = [status EXCEPT ![e] = "absent"]
    /\ attempts' = [attempts EXCEPT ![e] = 0]
    /\ token' = [token EXCEPT ![e] = 0]
    /\ lease' = [lease EXCEPT ![e] = FALSE]
    /\ due' = [due EXCEPT ![e] = FALSE]
    /\ received' = [received EXCEPT ![e] = 0]
    /\ aged' = [aged EXCEPT ![e] = FALSE]
    /\ effects' = [effects EXCEPT ![e] = 0]

-----------------------------------------------------------------------------
(* Admission: the row the insert trigger lets through (see Admission for   *)
(* quotas).  receivedAt is stamped before the trigger takes its lock, so   *)
(* neighbours in commit order may carry it in either order: a tie.         *)

Admit(e) ==
    /\ status[e] = "absent"
    /\ ~IsDeleted(e)
    /\ admissions < MaxAdmissions
    /\ admissions' = admissions + 1
    /\ status' = [status EXCEPT ![e] = "pending"]
    /\ due' = [due EXCEPT ![e] = TRUE]
    /\ \E t \in {admissions, admissions + 1} : received' = [received EXCEPT ![e] = t]
    /\ UNCHANGED <<attempts, token, lease, aged, stored, storedAged, deleted,
                   pc, job, beats, lastToken, effects>>

-----------------------------------------------------------------------------
(* claim(): first the statement that dead-letters rows whose last attempt  *)
(* lost its lease, then the transaction that takes the oldest free row.    *)

\* Mutant: only attempts beyond the limit count.
MutExhaustedLate(e) ==
    /\ status[e] = "processing"
    /\ ~lease[e]
    /\ attempts[e] > MaxAttempts

Exhausted(e) ==
    /\ status[e] = "processing"
    /\ ~lease[e]
    /\ attempts[e] >= MaxAttempts

ClaimReap(w) ==
    /\ pc[w] = "idle"
    /\ \A e \in Events : Exhausted(e) => ~Locked(e)
    /\ status' = [e \in Events |-> IF Exhausted(e) THEN "dead" ELSE status[e]]
    /\ token' = [e \in Events |-> IF Exhausted(e) THEN 0 ELSE token[e]]
    /\ pc' = [pc EXCEPT ![w] = "claiming"]
    /\ UNCHANGED <<attempts, lease, due, received, aged, stored, storedAged,
                   deleted, job, beats, ghosts>>

Claimable(e) ==
    /\ ~IsDeleted(e)
    /\ attempts[e] < MaxAttempts
    /\ \/ status[e] = "pending" /\ due[e]
       \/ status[e] = "processing" /\ ~lease[e]
    /\ ~Locked(e)                                   \* SKIP LOCKED

ClaimTake(w, e) ==
    /\ pc[w] = "claiming"
    /\ Claimable(e)
    /\ \A f \in Events : Claimable(f) => received[e] <= received[f]
    /\ status' = [status EXCEPT ![e] = "processing"]
    /\ attempts' = [attempts EXCEPT ![e] = @ + 1]
    /\ token' = [token EXCEPT ![e] = lastToken + 1]
    /\ lease' = [lease EXCEPT ![e] = TRUE]
    /\ lastToken' = lastToken + 1
    /\ pc' = [pc EXCEPT ![w] = "resolving"]
    /\ job' = [job EXCEPT ![w] =
                  [event |-> e, token |-> lastToken + 1, attempts |-> attempts[e] + 1]]
    /\ UNCHANGED <<due, received, aged, stored, storedAged, deleted, beats,
                   admissions, effects>>

ClaimNone(w) ==
    /\ pc[w] = "claiming"
    /\ \A e \in Events : ~Claimable(e)
    /\ pc' = [pc EXCEPT ![w] = "idle"]
    /\ UNCHANGED <<tables, job, beats, ghosts>>

-----------------------------------------------------------------------------
(* processJob(): symbolication under a heartbeat, outside any transaction. *)

\* An interval callback fires; its update reaches the database some time
\* later, possibly after the interval was cleared or the worker moved on.
SendHeartbeat(w) ==
    /\ pc[w] = "resolving"
    /\ beats' = beats \cup {[event |-> job[w].event, token |-> job[w].token]}
    /\ UNCHANGED <<tables, pc, job, ghosts>>

LandHeartbeat(b) ==
    /\ b \in beats
    /\ ~Locked(b.event)
    /\ beats' = beats \ {b}
    /\ lease' = IF token[b.event] = b.token /\ status[b.event] = "processing"
                THEN [lease EXCEPT ![b.event] = TRUE]
                ELSE lease
    /\ UNCHANGED <<status, attempts, token, due, received, aged, stored,
                   storedAged, deleted, pc, job, ghosts>>

Resolve(w) ==
    /\ pc[w] = "resolving"
    /\ pc' = [pc EXCEPT ![w] = "resolved"]
    /\ UNCHANGED <<tables, job, beats, ghosts>>

\* The payload does not parse, or the database failed while resolving.
FailResolve(w) ==
    /\ pc[w] = "resolving"
    /\ pc' = [pc EXCEPT ![w] = "failed"]
    /\ UNCHANGED <<tables, job, beats, ghosts>>

-----------------------------------------------------------------------------
(* processJob(): the final transaction.                                    *)

\* The fence: without the row the transaction returns and nothing is retried.
Fence(w) ==
    /\ pc[w] = "resolved"
    /\ ~Locked(job[w].event)
    /\ IF Owns(w, job[w].event)
       THEN /\ pc' = [pc EXCEPT ![w] = "fenced"]
            /\ UNCHANGED job
       ELSE ReleaseJob(w)
    /\ UNCHANGED <<tables, beats, ghosts>>

\* The event is created unless it exists, and the row becomes a receipt.
Record(w) ==
    LET e == job[w].event IN
    /\ pc[w] = "fenced"
    /\ stored' = stored \cup {e}
    /\ storedAged' = IF e \notin stored /\ aged[e] THEN storedAged \cup {e} ELSE storedAged
    /\ effects' = IF e \notin stored THEN [effects EXCEPT ![e] = @ + 1] ELSE effects
    /\ status' = [status EXCEPT ![e] = "done"]
    /\ token' = [token EXCEPT ![e] = 0]
    /\ lease' = [lease EXCEPT ![e] = FALSE]
    /\ UNCHANGED <<attempts, due, received, aged, deleted, beats, lastToken, admissions>>

Commit(w) == Record(w) /\ ReleaseJob(w)

\* The commit took effect but its answer was lost: processJob throws.
CommitUnacknowledged(w) ==
    /\ Record(w)
    /\ pc' = [pc EXCEPT ![w] = "failed"]
    /\ UNCHANGED job

\* Mutant: the event was created outside the transaction.
MutHalfRollback(w) ==
    /\ pc[w] = "fenced"
    /\ pc' = [pc EXCEPT ![w] = "failed"]
    /\ stored' = stored \cup {job[w].event}
    /\ UNCHANGED <<rows, storedAged, deleted, job, beats, ghosts>>

Rollback(w) ==
    /\ pc[w] = "fenced"
    /\ pc' = [pc EXCEPT ![w] = "failed"]
    /\ UNCHANGED <<tables, job, beats, ghosts>>

\* retryJob(): fenced like the commit; the last attempt becomes a dead letter.
RetryJob(w) ==
    LET e == job[w].event
        dead == job[w].attempts >= MaxAttempts
    IN
    /\ pc[w] = "failed"
    /\ ~Locked(e)
    /\ IF Owns(w, e)
       THEN /\ status' = [status EXCEPT ![e] = IF dead THEN "dead" ELSE "pending"]
            /\ due' = [due EXCEPT ![e] = FALSE]
            /\ token' = [token EXCEPT ![e] = 0]
            /\ lease' = [lease EXCEPT ![e] = FALSE]
       ELSE UNCHANGED <<status, due, token, lease>>
    /\ ReleaseJob(w)
    /\ UNCHANGED <<attempts, received, aged, stored, storedAged, deleted, beats, ghosts>>

\* The process dies, or retryJob itself throws into the worker loop: an open
\* transaction rolls back and the row keeps its token until the lease ends.
Abandon(w) ==
    /\ pc[w] \in Busy
    /\ ReleaseJob(w)
    /\ UNCHANGED <<tables, beats, ghosts>>

-----------------------------------------------------------------------------
(* Time.                                                                   *)

ExpireLease(e) ==
    /\ status[e] = "processing"
    /\ lease[e]
    /\ lease' = [lease EXCEPT ![e] = FALSE]
    /\ UNCHANGED <<status, attempts, token, due, received, aged, stored,
                   storedAged, deleted, pc, job, beats, ghosts>>

BackoffElapses(e) ==
    /\ status[e] = "pending"
    /\ ~due[e]
    /\ due' = [due EXCEPT ![e] = TRUE]
    /\ UNCHANGED <<status, attempts, token, lease, received, aged, stored,
                   storedAged, deleted, pc, job, beats, ghosts>>

\* The row, and the error_event made from it, share one receivedAt.
Age(e) ==
    /\ status[e] # "absent"
    /\ ~aged[e]
    /\ aged' = [aged EXCEPT ![e] = TRUE]
    /\ storedAged' = storedAged \cup ({e} \cap stored)
    /\ UNCHANGED <<status, attempts, token, lease, due, received, stored,
                   deleted, pc, job, beats, ghosts>>

-----------------------------------------------------------------------------
(* retainBatch(), cleanup_deployment_probe() and project deletion.         *)

RetainEvent(e) ==
    /\ e \in storedAged
    /\ stored' = stored \ {e}
    /\ storedAged' = storedAged \ {e}
    /\ UNCHANGED <<rows, deleted, pc, job, beats, ghosts>>

RetainReceipt(e) ==
    /\ Terminal(e)
    /\ aged[e]
    /\ DropRow(e)
    /\ UNCHANGED <<stored, storedAged, deleted, pc, job, beats, lastToken, admissions>>

CleanupProbe(e) ==
    /\ e \in Probes \cap stored
    /\ ~Locked(e)
    /\ DropRow(e)
    /\ stored' = stored \ {e}
    /\ storedAged' = storedAged \ {e}
    /\ UNCHANGED <<deleted, pc, job, beats, lastToken, admissions>>

DeleteProject(p) ==
    /\ p \notin deleted
    /\ deleted' = deleted \cup {p}
    /\ UNCHANGED <<rows, stored, storedAged, pc, job, beats, ghosts>>

RestoreProject(p) ==
    /\ p \in deleted
    /\ deleted' = deleted \ {p}
    /\ UNCHANGED <<rows, stored, storedAged, pc, job, beats, ghosts>>

-----------------------------------------------------------------------------

\* What a worker loop does of its own accord.
WorkerStep(w) ==
    \/ ClaimReap(w) \/ (\E e \in Events : ClaimTake(w, e)) \/ ClaimNone(w)
    \/ Resolve(w) \/ Fence(w) \/ Commit(w) \/ RetryJob(w)

\* What can go wrong with it, and the heartbeat.
WorkerFault(w) ==
    FailResolve(w) \/ CommitUnacknowledged(w) \/ Rollback(w) \/ Abandon(w)

TimePasses(e) == ExpireLease(e) \/ BackoffElapses(e) \/ Age(e)

Retention(e) == RetainEvent(e) \/ RetainReceipt(e) \/ CleanupProbe(e)

Next ==
    \/ \E w \in Workers : WorkerStep(w) \/ WorkerFault(w) \/ SendHeartbeat(w)
    \/ \E b \in beats : LandHeartbeat(b)
    \/ \E e \in Events : Admit(e) \/ TimePasses(e) \/ Retention(e)
    \/ \E p \in Projects : DeleteProject(p) \/ RestoreProject(p)

Spec == Init /\ [][Next]_vars

(***************************************************************************)
(* Fairness: every worker loop keeps running (it loops until SIGTERM and a *)
(* restarted process takes its place), and clocks advance.  Nothing is     *)
(* assumed of faults, heartbeats, retention or senders.                    *)
(***************************************************************************)
Fairness ==
    /\ \A w \in Workers : WF_vars(WorkerStep(w))
    /\ \A e \in Events : WF_vars(ExpireLease(e)) /\ WF_vars(BackoffElapses(e))

FairSpec == Spec /\ Fairness

-----------------------------------------------------------------------------
(* Properties.                                                             *)

TypeOK ==
    /\ status \in [Events -> Statuses]
    /\ attempts \in [Events -> 0..MaxAttempts]
    /\ token \in [Events -> Nat]
    /\ lease \in [Events -> BOOLEAN]
    /\ due \in [Events -> BOOLEAN]
    /\ received \in [Events -> Nat]
    /\ aged \in [Events -> BOOLEAN]
    /\ stored \subseteq Events
    /\ storedAged \subseteq stored
    /\ deleted \subseteq Projects
    /\ pc \in [Workers -> {"idle", "claiming", "resolving", "resolved", "fenced", "failed"}]
    /\ job \in [Workers -> Jobs \cup {NoJob}]
    /\ beats \subseteq [event : Events, token : Tokens]
    /\ lastToken \in Nat
    /\ admissions \in Nat
    /\ effects \in [Events -> Nat]

\* However slow a worker is, at most one of the jobs handed out for a row can
\* still pass the fence of the final transaction or of retryJob.
SingleOwner ==
    \A v, w \in Workers : \A e \in Events :
        (job[v] # NoJob /\ job[w] # NoJob /\ Owns(v, e) /\ Owns(w, e)) => v = w

\* Only a row that ended "done" has had its effect, and had it once: a
\* retried, abandoned or dead-lettered attempt leaves nothing behind, even
\* when its commit was carried out and only the answer was lost.
EffectMatchesOutcome ==
    \A e \in Events :
        /\ effects[e] <= 1
        /\ effects[e] = 1 => status[e] = "done"

\* An event is given up only after all its attempts were used.
DeadOnlyAfterAllAttempts ==
    \A e \in Events : status[e] = "dead" => attempts[e] = MaxAttempts

\* A recorded event stays visible until its own retention term is over; only
\* the deployment check removes one sooner.
RecordedUntilAged ==
    \A e \in Events :
        (status[e] = "done" /\ effects[e] = 1 /\ ~aged[e]) => e \in stored

\* A row that reached its end is never put back to work: no late retry, late
\* heartbeat or late claim resurrects it.  It can only be forgotten.
TerminalIsFinal ==
    [][\A e \in Events :
         Terminal(e) => status'[e] = status[e] \/ status'[e] = "absent"]_status

\* Every accepted event is decided: whatever faults its attempts meet, it ends
\* recorded or dead-lettered, unless its project is in the trash.
EventuallyDecided ==
    \A e \in Events : Active(e) ~> (~Active(e) \/ IsDeleted(e))

-----------------------------------------------------------------------------
(* The inductive invariant behind the safety properties (EventInboxProofs).*)

\* Tokens are fresh, one per claim, and kept exactly while a row is processing;
\* a worker past its fence still owns its row.
LeaseInv ==
    /\ \A e \in Events : token[e] # 0 <=> status[e] = "processing"
    /\ \A e \in Events : token[e] <= lastToken
    /\ \A w \in Workers : pc[w] \in Busy <=> job[w] # NoJob
    /\ \A w \in Workers : job[w] # NoJob => job[w].token <= lastToken
    /\ \A v, w \in Workers :
          (job[v] # NoJob /\ job[w] # NoJob /\ v # w) => job[v].token # job[w].token
    /\ \A w \in Workers : pc[w] = "fenced" => Owns(w, job[w].event)

\* Attempts and effects follow the status of the row.
OutcomeInv ==
    /\ \A e \in Events : effects[e] # 0 => effects[e] = 1 /\ status[e] = "done"
    /\ \A e \in Events : status[e] = "dead" => attempts[e] = MaxAttempts
    /\ \A e \in Events : status[e] = "absent" => attempts[e] = 0
    /\ \A w \in Workers :
          (job[w] # NoJob /\ Owns(w, job[w].event)) =>
              job[w].attempts = attempts[job[w].event]

\* The row and the event recorded from it age together.
AgeInv ==
    \A e \in Events :
        effects[e] = 1 =>
            /\ e \in storedAged => aged[e]
            /\ ~aged[e] => e \in stored

IInv == TypeOK /\ LeaseInv /\ OutcomeInv /\ AgeInv

-----------------------------------------------------------------------------
(* The promise of EventDelivery, kept by leases and fences.                *)

DeliveryPhase ==
    [e \in Events |->
        CASE status[e] = "absent" -> "absent"
          [] Active(e) -> "queued"
          [] status[e] = "done" -> "recorded"
          [] status[e] = "dead" -> "dropped"]

Delivery == INSTANCE EventDelivery WITH phase <- DeliveryPhase, store <- stored

\* The queue implements EventDelivery: each acceptance is decided once, and an
\* event becomes visible only on the step that records it.
ImplementsDelivery == Delivery!Spec

=============================================================================
