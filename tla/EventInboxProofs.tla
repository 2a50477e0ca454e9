-------------------------- MODULE EventInboxProofs --------------------------
(***************************************************************************)
(* Theorems about EventInbox, for every number of events, workers,         *)
(* projects and attempts.  IInv is inductive; the safety properties and    *)
(* the refinement of EventDelivery follow from it.                         *)
(*                                                                         *)
(* The second half is about IssueGrouping, the effect of the transaction   *)
(* EventInbox admits, for every number of events, groups, environments,    *)
(* reprocessors and releases and whatever maps restore.  GroupPageInv is   *)
(* inductive, and so are GroupCountInv and GroupHistoryInv, which add what *)
(* the counts and the history rest on.                                     *)
(***************************************************************************)
EXTENDS EventInbox, IssueGrouping, FiniteSetTheorems, TLAPS

\* A worker inside processJob or retryJob holds a claimed row.
LEMMA BusyJob ==
    ASSUME IInv, NEW w \in Workers, pc[w] \in Busy
    PROVE  /\ job[w] \in Jobs
           /\ job[w] # NoJob
           /\ job[w].event \in Events
           /\ job[w].token \in Nat \ {0}
           /\ job[w].attempts \in Nat
  BY DEF IInv, LeaseInv, TypeOK, Jobs, Tokens

\* The initial state satisfies the inductive invariant.
LEMMA InitInv == Init => IInv
<1> SUFFICES ASSUME Init PROVE IInv
  OBVIOUS
<1> USE ConstantsAssumption DEF Init
<1>1. TypeOK
  BY DEF TypeOK, Statuses, Jobs, Tokens
<1>2. LeaseInv
  BY DEF LeaseInv, Owns, Busy
<1>3. OutcomeInv
  BY DEF OutcomeInv, Owns
<1>4. AgeInv
  BY DEF AgeInv
<1>5. QED
  BY <1>1, <1>2, <1>3, <1>4 DEF IInv

-----------------------------------------------------------------------------
(* Types.                                                                  *)

LEMMA TypeStep == ASSUME IInv, Next PROVE TypeOK'
<1> USE ConstantsAssumption DEF TypeOK, Statuses, rows, tables, ghosts
<1>0. TypeOK
  BY DEF IInv
<1>1. ASSUME NEW e \in Events, Admit(e) PROVE TypeOK'
  BY <1>0, <1>1 DEF Admit
<1>2. ASSUME NEW w \in Workers, ClaimReap(w) PROVE TypeOK'
  BY <1>0, <1>2 DEF ClaimReap
<1>3. ASSUME NEW w \in Workers, NEW e \in Events, ClaimTake(w, e) PROVE TypeOK'
  <2>1. /\ attempts[e] + 1 \in 0..MaxAttempts
        /\ lastToken + 1 \in Tokens
    BY <1>0, <1>3 DEF ClaimTake, Claimable, Tokens
  <2>2. [event |-> e, token |-> lastToken + 1, attempts |-> attempts[e] + 1] \in Jobs
    BY <2>1 DEF Jobs
  <2>3. QED
    BY <1>0, <1>3, <2>1, <2>2 DEF ClaimTake, Tokens
<1>4. ASSUME NEW w \in Workers, ClaimNone(w) PROVE TypeOK'
  BY <1>0, <1>4 DEF ClaimNone
<1>5. ASSUME NEW w \in Workers, Resolve(w) \/ FailResolve(w) \/ Rollback(w) PROVE TypeOK'
  BY <1>0, <1>5 DEF Resolve, FailResolve, Rollback
<1>6. ASSUME NEW w \in Workers, Fence(w) PROVE TypeOK'
  BY <1>0, <1>6 DEF Fence, ReleaseJob
<1>7. ASSUME NEW w \in Workers, Commit(w) \/ CommitUnacknowledged(w) PROVE TypeOK'
  <2>1. job[w].event \in Events
    BY <1>7, BusyJob DEF Commit, CommitUnacknowledged, Record, Busy
  <2>2. Record(w)
    BY <1>7 DEF Commit, CommitUnacknowledged
  <2>3. /\ stored' \subseteq Events
        /\ storedAged' \subseteq stored'
        /\ effects' \in [Events -> Nat]
    BY <1>0, <2>1, <2>2 DEF Record
  <2>4. pc' \in [Workers -> {"idle", "claiming", "resolving", "resolved", "fenced", "failed"}]
        /\ job' \in [Workers -> Jobs \cup {NoJob}]
    BY <1>0, <1>7 DEF Commit, CommitUnacknowledged, ReleaseJob
  <2>5. /\ status' \in [Events -> Statuses]
        /\ token' \in [Events -> Nat]
        /\ lease' \in [Events -> BOOLEAN]
    BY <1>0, <2>1, <2>2 DEF Record
  <2>6. UNCHANGED <<attempts, due, received, aged, deleted, beats, lastToken, admissions>>
    BY <2>2 DEF Record
  <2>7. QED
    BY <1>0, <2>3, <2>4, <2>5, <2>6
<1>8. ASSUME NEW w \in Workers, RetryJob(w) PROVE TypeOK'
  <2>1. /\ status' \in [Events -> Statuses]
        /\ due' \in [Events -> BOOLEAN]
        /\ token' \in [Events -> Nat]
        /\ lease' \in [Events -> BOOLEAN]
    <3>1. CASE Owns(w, job[w].event)
      <4>1. PICK s \in {"dead", "pending"} : status' = [status EXCEPT ![job[w].event] = s]
        BY <1>8, <3>1 DEF RetryJob
      <4>2. /\ due' = [due EXCEPT ![job[w].event] = FALSE]
            /\ token' = [token EXCEPT ![job[w].event] = 0]
            /\ lease' = [lease EXCEPT ![job[w].event] = FALSE]
        BY <1>8, <3>1 DEF RetryJob
      <4>3. QED
        BY Zenon, <1>0, <4>1, <4>2
    <3>2. CASE ~Owns(w, job[w].event)
      BY <1>0, <1>8, <3>2 DEF RetryJob
    <3>3. QED
      BY <3>1, <3>2
  <2>2. QED
    BY <1>0, <1>8, <2>1 DEF RetryJob, ReleaseJob
<1>9. ASSUME NEW w \in Workers, Abandon(w) PROVE TypeOK'
  BY <1>0, <1>9 DEF Abandon, ReleaseJob
<1>10. ASSUME NEW w \in Workers, SendHeartbeat(w) PROVE TypeOK'
  <2>1. [event |-> job[w].event, token |-> job[w].token] \in [event : Events, token : Tokens]
    BY <1>10, BusyJob DEF SendHeartbeat, Busy, Tokens
  <2>2. QED
    BY <1>0, <1>10, <2>1 DEF SendHeartbeat
<1>11. ASSUME NEW b \in beats, LandHeartbeat(b) PROVE TypeOK'
  BY <1>0, <1>11 DEF LandHeartbeat
<1>12. ASSUME NEW e \in Events, TimePasses(e) PROVE TypeOK'
  <2>1. CASE ExpireLease(e)
    BY <1>0, <2>1 DEF ExpireLease
  <2>2. CASE BackoffElapses(e)
    BY <1>0, <2>2 DEF BackoffElapses
  <2>3. CASE Age(e)
    BY <1>0, <2>3 DEF Age
  <2>4. QED
    BY <1>12, <2>1, <2>2, <2>3 DEF TimePasses
<1>13. ASSUME NEW e \in Events, Retention(e) PROVE TypeOK'
  <2>1. CASE RetainEvent(e)
    BY <1>0, <2>1 DEF RetainEvent
  <2>2. CASE RetainReceipt(e)
    BY <1>0, <2>2 DEF RetainReceipt, DropRow
  <2>3. CASE CleanupProbe(e)
    BY <1>0, <2>3 DEF CleanupProbe, DropRow
  <2>4. QED
    BY <1>13, <2>1, <2>2, <2>3 DEF Retention
<1>14. ASSUME NEW p \in Projects, DeleteProject(p) \/ RestoreProject(p) PROVE TypeOK'
  BY <1>0, <1>14 DEF DeleteProject, RestoreProject
<1>15. QED
  BY <1>1, <1>2, <1>3, <1>4, <1>5, <1>6, <1>7, <1>8, <1>9, <1>10, <1>11, <1>12,
     <1>13, <1>14 DEF Next, WorkerStep, WorkerFault

-----------------------------------------------------------------------------
(* Leases and tokens.                                                      *)

\* Steps that leave every row's token and status alone, and at most let one
\* worker drop its job or move between two busy states, short of the fence.
LEMMA LeaseFrame ==
    ASSUME IInv,
           UNCHANGED <<token, status, lastToken>>,
           NEW w \in Workers,
           \/ UNCHANGED <<pc, job>>
           \/ ReleaseJob(w)
           \/ /\ pc[w] \in Busy
              /\ pc' = [pc EXCEPT ![w] = "resolved"] \/ pc' = [pc EXCEPT ![w] = "failed"]
              /\ UNCHANGED job
           \/ /\ pc[w] \in {"idle", "claiming"}
              /\ pc' = [pc EXCEPT ![w] = "idle"]
              /\ UNCHANGED job
    PROVE  LeaseInv'
  BY DEF IInv, TypeOK, LeaseInv, Owns, Busy, ReleaseJob

LEMMA LeaseStep == ASSUME IInv, Next PROVE LeaseInv'
<1> USE ConstantsAssumption DEF rows, tables, ghosts
<1>0. TypeOK /\ LeaseInv
  BY DEF IInv
<1>1. ASSUME NEW e \in Events, Admit(e) PROVE LeaseInv'
  BY <1>0, <1>1 DEF Admit, TypeOK, LeaseInv, Owns
<1>2. ASSUME NEW w \in Workers, ClaimReap(w) PROVE LeaseInv'
  <2>1. \A v \in Workers : pc[v] = "fenced" => ~Exhausted(job[v].event)
    BY <1>0, <1>2, BusyJob DEF ClaimReap, Locked, Busy
  <2>2. QED
    BY <1>0, <1>2, <2>1, BusyJob DEF ClaimReap, TypeOK, LeaseInv, Owns, Busy, Exhausted
<1>3. ASSUME NEW w \in Workers, NEW e \in Events, ClaimTake(w, e) PROVE LeaseInv'
  <2> DEFINE new == [event |-> e, token |-> lastToken + 1, attempts |-> attempts[e] + 1]
  <2>1. new \in Jobs /\ new # NoJob
    BY <1>0, <1>3 DEF ClaimTake, TypeOK, Jobs, Tokens
  <2>2. /\ job' = [job EXCEPT ![w] = new]
        /\ pc' = [pc EXCEPT ![w] = "resolving"]
        /\ token' = [token EXCEPT ![e] = lastToken + 1]
        /\ status' = [status EXCEPT ![e] = "processing"]
        /\ lastToken' = lastToken + 1
    BY <1>3 DEF ClaimTake
  <2>3. \A v \in Workers : pc[v] = "fenced" => job[v].event # e
    BY <1>3 DEF ClaimTake, Claimable, Locked
  <2>4. new.token = lastToken + 1
    OBVIOUS
  <2> HIDE DEF new
  <2>5. \A v \in Workers : job[v] # NoJob => job[v] \in Jobs /\ job[v].token \in Nat
    BY <1>0 DEF TypeOK, Jobs, Tokens
  <2>6. \A f \in Events : token'[f] # 0 <=> status'[f] = "processing"
    BY <1>0, <2>2 DEF TypeOK, LeaseInv
  <2>7. \A f \in Events : token'[f] <= lastToken'
    BY <1>0, <2>2 DEF TypeOK, LeaseInv
  <2>8. \A v \in Workers : pc'[v] \in Busy <=> job'[v] # NoJob
    BY <1>0, <2>1, <2>2 DEF TypeOK, LeaseInv, Busy
  <2>9. \A v \in Workers : job'[v] # NoJob => job'[v].token <= lastToken'
    BY <1>0, <2>1, <2>2, <2>4, <2>5 DEF TypeOK, LeaseInv
  <2>10. \A u, v \in Workers :
           (job'[u] # NoJob /\ job'[v] # NoJob /\ u # v) => job'[u].token # job'[v].token
    BY <1>0, <2>1, <2>2, <2>4, <2>5 DEF TypeOK, LeaseInv
  <2>11. \A v \in Workers : pc'[v] = "fenced" => Owns(v, job[v].event)' /\ job'[v] = job[v]
    BY <1>0, <2>2, <2>3, BusyJob DEF TypeOK, LeaseInv, Owns, Busy
  <2>12. QED
    BY <2>6, <2>7, <2>8, <2>9, <2>10, <2>11 DEF LeaseInv, Owns
<1>4. ASSUME NEW w \in Workers, ClaimNone(w) \/ Resolve(w) \/ FailResolve(w) \/ Rollback(w)
      PROVE  LeaseInv'
  BY <1>4, LeaseFrame DEF ClaimNone, Resolve, FailResolve, Rollback, Busy
<1>5. ASSUME NEW w \in Workers, Fence(w) PROVE LeaseInv'
  <2>1. CASE Owns(w, job[w].event)
    BY <1>0, <1>5, <2>1 DEF Fence, TypeOK, LeaseInv, Owns, Busy
  <2>2. CASE ~Owns(w, job[w].event)
    BY <1>5, <2>2, LeaseFrame DEF Fence
  <2>3. QED
    BY <2>1, <2>2
<1>6. ASSUME NEW w \in Workers, Commit(w) \/ CommitUnacknowledged(w) PROVE LeaseInv'
  <2>1. \A v \in Workers : v # w => ~(pc[v] = "fenced" /\ job[v].event = job[w].event)
    BY <1>0, <1>6, BusyJob DEF Commit, CommitUnacknowledged, Record, LeaseInv, Owns, Busy
  <2>2. QED
    BY SMTT(40), <1>0, <1>6, <2>1, BusyJob
    DEF Commit, CommitUnacknowledged, Record, ReleaseJob, TypeOK, LeaseInv, Owns, Busy
<1>7. ASSUME NEW w \in Workers, RetryJob(w) PROVE LeaseInv'
  <2>1. CASE Owns(w, job[w].event)
    BY <1>0, <1>7, <2>1, BusyJob
    DEF RetryJob, ReleaseJob, Locked, TypeOK, LeaseInv, Owns, Busy
  <2>2. CASE ~Owns(w, job[w].event)
    BY <1>7, <2>2, LeaseFrame DEF RetryJob
  <2>3. QED
    BY <2>1, <2>2
<1>8. ASSUME NEW w \in Workers, Abandon(w) \/ SendHeartbeat(w) PROVE LeaseInv'
  BY <1>8, LeaseFrame DEF Abandon, SendHeartbeat
<1>9. ASSUME NEW b \in beats, LandHeartbeat(b) PROVE LeaseInv'
  BY <1>0, <1>9 DEF LandHeartbeat, LeaseInv, Owns
<1>10. ASSUME NEW e \in Events, TimePasses(e) PROVE LeaseInv'
  BY <1>0, <1>10 DEF TimePasses, ExpireLease, BackoffElapses, Age, LeaseInv, Owns
<1>11. ASSUME NEW e \in Events, Retention(e) PROVE LeaseInv'
  BY <1>0, <1>11, BusyJob DEF Retention, RetainEvent, RetainReceipt, CleanupProbe, DropRow,
     TypeOK, LeaseInv, Owns, Busy, Locked, Terminal
<1>12. ASSUME NEW p \in Projects, DeleteProject(p) \/ RestoreProject(p) PROVE LeaseInv'
  BY <1>0, <1>12 DEF DeleteProject, RestoreProject, LeaseInv, Owns
<1>13. QED
  BY <1>1, <1>2, <1>3, <1>4, <1>5, <1>6, <1>7, <1>8, <1>9, <1>10, <1>11, <1>12
  DEF Next, WorkerStep, WorkerFault

-----------------------------------------------------------------------------
(* Attempts, outcomes and effects.                                         *)

\* A worker that owns a row holds the only token that matches it, so a step of
\* another worker leaves its claim count in agreement with the row.
LEMMA OutcomeStep == ASSUME IInv, Next PROVE OutcomeInv'
<1> USE ConstantsAssumption DEF rows, tables, ghosts
<1>0. TypeOK /\ LeaseInv /\ OutcomeInv
  BY DEF IInv
<1>1. ASSUME NEW e \in Events, Admit(e) PROVE OutcomeInv'
  BY <1>0, <1>1 DEF Admit, TypeOK, LeaseInv, OutcomeInv, Owns
<1>2. ASSUME NEW w \in Workers, ClaimReap(w) PROVE OutcomeInv'
  <2>1. \A e \in Events : Exhausted(e) => attempts[e] = MaxAttempts /\ effects[e] = 0
    <3>1. ASSUME NEW e \in Events, Exhausted(e) PROVE attempts[e] = MaxAttempts
      BY <1>0, <3>1 DEF Exhausted, TypeOK
    <3>2. ASSUME NEW e \in Events, Exhausted(e) PROVE effects[e] = 0
      BY <1>0, <3>2 DEF Exhausted, OutcomeInv
    <3>3. QED
      BY <3>1, <3>2
  <2>2. /\ status' = [e \in Events |-> IF Exhausted(e) THEN "dead" ELSE status[e]]
        /\ token' = [e \in Events |-> IF Exhausted(e) THEN 0 ELSE token[e]]
        /\ UNCHANGED <<attempts, effects, job>>
    BY <1>2 DEF ClaimReap
  <2>3. /\ \A e \in Events : effects'[e] # 0 => effects'[e] = 1 /\ status'[e] = "done"
        /\ \A e \in Events : status'[e] = "dead" => attempts'[e] = MaxAttempts
        /\ \A e \in Events : status'[e] = "absent" => attempts'[e] = 0
    BY <1>0, <2>1, <2>2 DEF TypeOK, OutcomeInv
  <2>4. ASSUME NEW v \in Workers, (job[v] # NoJob /\ Owns(v, job[v].event))'
        PROVE  job[v] # NoJob /\ Owns(v, job[v].event)
    <3>1. job[v] # NoJob /\ job[v].event \in Events
      BY <1>0, <2>2, <2>4 DEF TypeOK, Jobs
    <3>2. ~Exhausted(job[v].event)
      BY <2>2, <2>4, <3>1 DEF Owns
    <3>3. QED
      BY <2>2, <2>4, <3>1, <3>2 DEF Owns
  <2>5. QED
    BY <1>0, <2>2, <2>3, <2>4 DEF OutcomeInv
<1>3. ASSUME NEW w \in Workers, NEW e \in Events, ClaimTake(w, e) PROVE OutcomeInv'
  <2>1. status[e] \in {"pending", "processing"} /\ effects[e] = 0
    BY <1>0, <1>3 DEF ClaimTake, Claimable, OutcomeInv, TypeOK
  <2>2. \A v \in Workers \ {w} :
          (job'[v] # NoJob /\ Owns(v, job[v].event)') =>
              job'[v] = job[v] /\ job[v].event # e /\ Owns(v, job[v].event)
    <3>1. \A v \in Workers : job[v] # NoJob => job[v].token <= lastToken /\ job[v].token \in Nat
      BY <1>0 DEF LeaseInv, TypeOK, Jobs, Tokens
    <3>2. /\ token' = [token EXCEPT ![e] = lastToken + 1]
          /\ status' = [status EXCEPT ![e] = "processing"]
          /\ \A v \in Workers \ {w} : job'[v] = job[v]
      BY <1>0, <1>3 DEF ClaimTake, TypeOK
    <3>3. ASSUME NEW v \in Workers \ {w}, job'[v] # NoJob, Owns(v, job[v].event)'
          PROVE  job'[v] = job[v] /\ job[v].event # e /\ Owns(v, job[v].event)
      <4>1. job'[v] = job[v] /\ job[v].event \in Events
        BY <1>0, <3>2, <3>3 DEF TypeOK, Jobs
      <4>2. job[v].event # e
        BY <1>0, <3>1, <3>2, <3>3, <4>1 DEF Owns, TypeOK
      <4>3. QED
        BY <1>0, <3>2, <3>3, <4>1, <4>2 DEF Owns, TypeOK
    <3>4. QED
      BY <3>3
  <2>3. job'[w].attempts = attempts'[e] /\ job'[w].event = e
    <3>1. /\ job' = [job EXCEPT ![w] =
                 [event |-> e, token |-> lastToken + 1, attempts |-> attempts[e] + 1]]
          /\ attempts' = [attempts EXCEPT ![e] = attempts[e] + 1]
      BY <1>3 DEF ClaimTake
    <3>2. QED
      BY <1>0, <3>1 DEF TypeOK
  <2>4. \A v \in Workers :
          (job'[v] # NoJob /\ Owns(v, job[v].event)') => job'[v].attempts = attempts'[job'[v].event]
    <3>1. TAKE v \in Workers
    <3>2. CASE v = w
      BY <2>3, <3>2
    <3>3. CASE v # w
      <4>1. HAVE (job'[v] # NoJob /\ Owns(v, job[v].event)')
      <4>2. /\ job'[v] = job[v] /\ job[v].event # e /\ Owns(v, job[v].event)
            /\ job[v] # NoJob /\ job[v].event \in Events
        BY <1>0, <2>2, <3>3, <4>1 DEF TypeOK, Jobs
      <4>3. attempts' = [attempts EXCEPT ![e] = attempts[e] + 1]
        BY <1>3 DEF ClaimTake
      <4>4. QED
        BY <1>0, <4>2, <4>3 DEF TypeOK, OutcomeInv
    <3>4. QED
      BY <3>2, <3>3
  <2>5. /\ status' = [status EXCEPT ![e] = "processing"]
        /\ attempts' = [attempts EXCEPT ![e] = attempts[e] + 1]
        /\ UNCHANGED effects
    BY <1>3 DEF ClaimTake
  <2>6. /\ \A f \in Events : effects'[f] # 0 => effects'[f] = 1 /\ status'[f] = "done"
        /\ \A f \in Events : status'[f] = "dead" => attempts'[f] = MaxAttempts
        /\ \A f \in Events : status'[f] = "absent" => attempts'[f] = 0
    BY <1>0, <2>1, <2>5 DEF TypeOK, OutcomeInv
  <2>7. QED
    BY <2>4, <2>6 DEF OutcomeInv
<1>4. ASSUME NEW w \in Workers, \/ ClaimNone(w) \/ Resolve(w) \/ FailResolve(w) \/ Rollback(w)
                                \/ SendHeartbeat(w)
      PROVE  OutcomeInv'
  BY <1>0, <1>4 DEF ClaimNone, Resolve, FailResolve, Rollback, SendHeartbeat, OutcomeInv, Owns
<1>5. ASSUME NEW w \in Workers, Fence(w) \/ Abandon(w) PROVE OutcomeInv'
  <2>1. \A v \in Workers : job'[v] = job[v] \/ job'[v] = NoJob
    BY <1>0, <1>5 DEF Fence, Abandon, ReleaseJob, TypeOK
  <2>2. UNCHANGED <<status, token, attempts, effects>>
    BY <1>5 DEF Fence, Abandon
  <2>3. QED
    BY <1>0, <2>1, <2>2 DEF OutcomeInv, Owns
<1>6. ASSUME NEW w \in Workers, Commit(w) \/ CommitUnacknowledged(w) PROVE OutcomeInv'
  <2>1. /\ Record(w)
        /\ \A v \in Workers : job'[v] = job[v] \/ job'[v] = NoJob
    BY <1>0, <1>6 DEF Commit, CommitUnacknowledged, ReleaseJob, TypeOK
  <2>2. /\ job[w].event \in Events
        /\ status[job[w].event] = "processing"
        /\ effects[job[w].event] = 0
    BY <1>0, <2>1, BusyJob DEF Record, LeaseInv, Owns, Busy, OutcomeInv, TypeOK
  <2>3. QED
    BY <1>0, <2>1, <2>2 DEF Record, TypeOK, OutcomeInv, Owns
<1>7. ASSUME NEW w \in Workers, RetryJob(w) PROVE OutcomeInv'
  <2>1. \A v \in Workers : job'[v] = job[v] \/ job'[v] = NoJob
    BY <1>0, <1>7 DEF RetryJob, ReleaseJob, TypeOK
  <2>2. CASE ~Owns(w, job[w].event)
    BY <1>0, <1>7, <2>1, <2>2 DEF RetryJob, OutcomeInv, Owns
  <2>3. CASE Owns(w, job[w].event)
    <3>1. /\ job[w] # NoJob /\ job[w].event \in Events
          /\ job[w].attempts = attempts[job[w].event]
          /\ effects[job[w].event] = 0
      BY <1>0, <1>7, <2>3, BusyJob DEF RetryJob, Busy, OutcomeInv, Owns, TypeOK
    <3>2. PICK s \in {"dead", "pending"} :
            /\ status' = [status EXCEPT ![job[w].event] = s]
            /\ s = "dead" => job[w].attempts >= MaxAttempts
      BY <1>7, <2>3 DEF RetryJob
    <3>3. /\ token' = [token EXCEPT ![job[w].event] = 0]
          /\ UNCHANGED <<attempts, effects>>
      BY <1>7, <2>3 DEF RetryJob
    <3>4. s = "dead" => attempts[job[w].event] = MaxAttempts
      BY <1>0, <3>1, <3>2 DEF TypeOK
    <3>5. QED
      BY <1>0, <2>1, <3>1, <3>2, <3>3, <3>4 DEF TypeOK, OutcomeInv, Owns
  <2>4. QED
    BY <2>2, <2>3
<1>8. ASSUME NEW b \in beats, LandHeartbeat(b) PROVE OutcomeInv'
  BY <1>0, <1>8 DEF LandHeartbeat, OutcomeInv, Owns
<1>9. ASSUME NEW e \in Events, TimePasses(e) PROVE OutcomeInv'
  BY <1>0, <1>9 DEF TimePasses, ExpireLease, BackoffElapses, Age, OutcomeInv, Owns
<1>10. ASSUME NEW e \in Events, Retention(e) PROVE OutcomeInv'
  <2>1. CASE RetainEvent(e)
    BY <1>0, <2>1 DEF RetainEvent, OutcomeInv, Owns
  <2>2. CASE RetainReceipt(e) \/ CleanupProbe(e)
    <3>1. DropRow(e) /\ UNCHANGED job
      BY <2>2 DEF RetainReceipt, CleanupProbe
    <3>2. QED
      BY <1>0, <3>1 DEF DropRow, TypeOK, OutcomeInv, Owns
  <2>3. QED
    BY <1>10, <2>1, <2>2 DEF Retention
<1>11. ASSUME NEW p \in Projects, DeleteProject(p) \/ RestoreProject(p) PROVE OutcomeInv'
  BY <1>0, <1>11 DEF DeleteProject, RestoreProject, OutcomeInv, Owns
<1>12. QED
  BY <1>1, <1>2, <1>3, <1>4, <1>5, <1>6, <1>7, <1>8, <1>9, <1>10, <1>11
  DEF Next, WorkerStep, WorkerFault

\* The recorded event outlives the row's retention term by construction of the
\* two cutoffs: both are computed from the receivedAt the job carried.
LEMMA AgeStep == ASSUME IInv, Next PROVE AgeInv'
<1> USE ConstantsAssumption DEF rows, tables, ghosts
<1>0. TypeOK /\ LeaseInv /\ OutcomeInv /\ AgeInv
  BY DEF IInv
<1>1. ASSUME UNCHANGED <<stored, storedAged, aged, effects>> PROVE AgeInv'
  BY <1>0, <1>1 DEF AgeInv
<1>2. ASSUME NEW e \in Events, Admit(e) PROVE AgeInv'
  BY <1>1, <1>2 DEF Admit
<1>3. ASSUME NEW w \in Workers,
             \/ ClaimReap(w) \/ (\E e \in Events : ClaimTake(w, e)) \/ ClaimNone(w)
             \/ Resolve(w) \/ FailResolve(w) \/ Fence(w) \/ Rollback(w) \/ RetryJob(w)
             \/ Abandon(w) \/ SendHeartbeat(w)
      PROVE  AgeInv'
  BY <1>1, <1>3 DEF ClaimReap, ClaimTake, ClaimNone, Resolve, FailResolve, Fence, Rollback,
     RetryJob, Abandon, SendHeartbeat
<1>4. ASSUME NEW w \in Workers, Commit(w) \/ CommitUnacknowledged(w) PROVE AgeInv'
  <2>1. Record(w)
    BY <1>4 DEF Commit, CommitUnacknowledged
  <2>2. job[w].event \in Events /\ effects[job[w].event] = 0
    BY <1>0, <2>1, BusyJob DEF Record, LeaseInv, OutcomeInv, Owns, Busy
  <2>3. QED
    BY <1>0, <2>1, <2>2 DEF Record, TypeOK, AgeInv
<1>5. ASSUME NEW b \in beats, LandHeartbeat(b) PROVE AgeInv'
  BY <1>1, <1>5 DEF LandHeartbeat
<1>6. ASSUME NEW e \in Events, TimePasses(e) PROVE AgeInv'
  <2>1. CASE ExpireLease(e) \/ BackoffElapses(e)
    BY <1>1, <2>1 DEF ExpireLease, BackoffElapses
  <2>2. CASE Age(e)
    BY <1>0, <2>2 DEF Age, TypeOK, AgeInv
  <2>3. QED
    BY <1>6, <2>1, <2>2 DEF TimePasses
<1>7. ASSUME NEW e \in Events, Retention(e) PROVE AgeInv'
  <2>1. CASE RetainEvent(e)
    BY <1>0, <2>1 DEF RetainEvent, TypeOK, AgeInv
  <2>2. CASE RetainReceipt(e)
    BY <1>0, <2>2 DEF RetainReceipt, DropRow, TypeOK, AgeInv
  <2>3. CASE CleanupProbe(e)
    BY <1>0, <2>3 DEF CleanupProbe, DropRow, TypeOK, AgeInv
  <2>4. QED
    BY <1>7, <2>1, <2>2, <2>3 DEF Retention
<1>8. ASSUME NEW p \in Projects, DeleteProject(p) \/ RestoreProject(p) PROVE AgeInv'
  BY <1>1, <1>8 DEF DeleteProject, RestoreProject
<1>9. QED
  BY <1>2, <1>3, <1>4, <1>5, <1>6, <1>7, <1>8 DEF Next, WorkerStep, WorkerFault

-----------------------------------------------------------------------------
(* The theorems.                                                           *)

LEMMA StutterInv == ASSUME IInv, UNCHANGED vars PROVE IInv'
  BY DEF IInv, TypeOK, LeaseInv, OutcomeInv, AgeInv, Owns, vars, tables, rows, ghosts

\* IInv holds in every reachable state.
THEOREM Invariance == Spec => []IInv
<1>1. IInv /\ [Next]_vars => IInv'
  BY TypeStep, LeaseStep, OutcomeStep, AgeStep, StutterInv DEF IInv
<1>2. QED
  BY InitInv, <1>1, PTL DEF Spec

\* Every variable of the queue keeps its type; attempts never exceed MaxAttempts.
THEOREM TypeCorrect == Spec => []TypeOK
  BY Invariance, PTL DEF IInv

\* No two workers can pass the fence for the same row (processJob, retryJob).
THEOREM FencingIsExclusive == Spec => []SingleOwner
<1>1. IInv => SingleOwner
  BY DEF IInv, LeaseInv, SingleOwner, Owns
<1>2. QED
  BY <1>1, Invariance, PTL

\* An accepted event takes effect at most once, and only if its row ends "done".
THEOREM EffectIsExactlyOutcome == Spec => []EffectMatchesOutcome
<1>1. IInv => EffectMatchesOutcome
  BY DEF IInv, OutcomeInv, TypeOK, EffectMatchesOutcome
<1>2. QED
  BY <1>1, Invariance, PTL

\* Nothing is dead-lettered before its last attempt.
THEOREM DeadLettersAreExhausted == Spec => []DeadOnlyAfterAllAttempts
<1>1. IInv => DeadOnlyAfterAllAttempts
  BY DEF IInv, OutcomeInv, DeadOnlyAfterAllAttempts
<1>2. QED
  BY <1>1, Invariance, PTL

\* Retention never takes a recorded event before its term.
THEOREM RecordedEventsStay == Spec => []RecordedUntilAged
<1>1. IInv => RecordedUntilAged
  BY DEF IInv, AgeInv, RecordedUntilAged
<1>2. QED
  BY <1>1, Invariance, PTL

\* What a step does to the status of rows, in the terms TerminalIsFinal needs.
LEMMA TerminalStep ==
    ASSUME IInv, [Next]_vars, NEW e \in Events, Terminal(e)
    PROVE  status'[e] = status[e] \/ status'[e] = "absent"
<1> USE ConstantsAssumption DEF rows, tables, ghosts
<1>0. TypeOK /\ LeaseInv /\ status[e] \in {"done", "dead"}
  BY DEF IInv, Terminal
<1>1. CASE UNCHANGED status
  BY <1>1
<1>2. ASSUME NEW f \in Events, Admit(f) PROVE UNCHANGED status[e]
  BY <1>0, <1>2 DEF Admit, TypeOK
<1>3. ASSUME NEW w \in Workers, ClaimReap(w) PROVE UNCHANGED status[e]
  BY <1>0, <1>3 DEF ClaimReap, Exhausted
<1>4. ASSUME NEW w \in Workers, NEW f \in Events, ClaimTake(w, f) PROVE UNCHANGED status[e]
  BY <1>0, <1>4 DEF ClaimTake, Claimable, TypeOK
<1>5. ASSUME NEW w \in Workers, \/ ClaimNone(w) \/ Resolve(w) \/ Fence(w) \/ SendHeartbeat(w)
                                \/ (WorkerFault(w) /\ ~CommitUnacknowledged(w))
      PROVE  UNCHANGED status
  BY <1>5 DEF ClaimNone, Resolve, Fence, WorkerFault, FailResolve, Rollback, Abandon, SendHeartbeat
<1>6. ASSUME NEW w \in Workers, Record(w) PROVE UNCHANGED status[e]
  <2>1. job[w].event \in Events /\ status[job[w].event] = "processing"
    BY <1>0, <1>6, BusyJob DEF Record, LeaseInv, Owns, Busy
  <2>2. QED
    BY <1>0, <1>6, <2>1 DEF Record, TypeOK
<1>7. ASSUME NEW w \in Workers, RetryJob(w) PROVE UNCHANGED status[e]
  <2>1. CASE Owns(w, job[w].event)
    <3>1. job[w].event # e
      BY <1>0, <2>1 DEF Owns
    <3>2. PICK s \in {"dead", "pending"} : status' = [status EXCEPT ![job[w].event] = s]
      BY <1>7, <2>1 DEF RetryJob
    <3>3. QED
      BY <1>0, <3>1, <3>2 DEF TypeOK
  <2>2. CASE ~Owns(w, job[w].event)
    BY <1>7, <2>2 DEF RetryJob
  <2>3. QED
    BY <2>1, <2>2
<1>8. ASSUME NEW b \in beats, LandHeartbeat(b) PROVE UNCHANGED status
  BY <1>8 DEF LandHeartbeat
<1>9. ASSUME NEW f \in Events, TimePasses(f) PROVE UNCHANGED status
  BY <1>9 DEF TimePasses, ExpireLease, BackoffElapses, Age
<1>10. ASSUME NEW f \in Events, Retention(f) PROVE status'[e] = status[e] \/ status'[e] = "absent"
  BY <1>0, <1>10 DEF Retention, RetainEvent, RetainReceipt, CleanupProbe, DropRow, TypeOK
<1>11. ASSUME NEW p \in Projects, DeleteProject(p) \/ RestoreProject(p) PROVE UNCHANGED status
  BY <1>11 DEF DeleteProject, RestoreProject
<1>12. QED
  BY <1>1, <1>2, <1>3, <1>4, <1>5, <1>6, <1>7, <1>8, <1>9, <1>10, <1>11
  DEF vars, Next, WorkerStep, WorkerFault, Commit, CommitUnacknowledged

\* No late claim, retry, heartbeat or restore puts a finished row back to work.
THEOREM FinishedRowsStayFinished == Spec => TerminalIsFinal
<1>1. IInv /\ [Next]_vars =>
        [\A e \in Events : Terminal(e) => status'[e] = status[e] \/ status'[e] = "absent"]_status
  BY TerminalStep
<1>2. QED
  BY <1>1, Invariance, PTL DEF Spec, TerminalIsFinal

-----------------------------------------------------------------------------
(* EventInbox implements EventDelivery.                                    *)

\* The phase of one row depends on its status alone.
PhaseOf(s) ==
    CASE s = "absent" -> "absent"
      [] s \in {"pending", "processing"} -> "queued"
      [] s = "done" -> "recorded"
      [] s = "dead" -> "dropped"

LEMMA PhaseUnfold ==
    /\ DeliveryPhase = [e \in Events |-> PhaseOf(status[e])]
    /\ DeliveryPhase' = [e \in Events |-> PhaseOf(status'[e])]
  BY DEF DeliveryPhase, PhaseOf, Active

LEMMA PhaseValues ==
    /\ PhaseOf("absent") = "absent"
    /\ PhaseOf("pending") = "queued"
    /\ PhaseOf("processing") = "queued"
    /\ PhaseOf("done") = "recorded"
    /\ PhaseOf("dead") = "dropped"
  BY DEF PhaseOf

\* A step that moves one row maps to a step that moves one phase.
LEMMA PhaseUpdate ==
    ASSUME status \in [Events -> Statuses], NEW f \in Events, NEW s \in Statuses,
           status' = [status EXCEPT ![f] = s]
    PROVE  DeliveryPhase' = [DeliveryPhase EXCEPT ![f] = PhaseOf(s)]
  BY PhaseUnfold

LEMMA DeliveryInit == Init => Delivery!Init
<1> SUFFICES ASSUME Init PROVE Delivery!Init
  OBVIOUS
<1>1. status = [e \in Events |-> "absent"] /\ stored = {}
  BY DEF Init
<1>2. QED
  BY <1>1, PhaseUnfold, PhaseValues DEF Delivery!Init

LEMMA DeliveryStep == ASSUME IInv, [Next]_vars PROVE [Delivery!Next]_(Delivery!vars)
<1> USE ConstantsAssumption DEF rows, tables, ghosts, Delivery!vars
<1>0. /\ TypeOK /\ LeaseInv /\ OutcomeInv
      /\ status \in [Events -> Statuses]
      /\ stored \subseteq Events
      /\ \A e \in Events : DeliveryPhase[e] = PhaseOf(status[e])
  BY PhaseUnfold DEF IInv, TypeOK
<1>1. ASSUME UNCHANGED <<status, stored>> PROVE UNCHANGED Delivery!vars
  BY <1>1, PhaseUnfold
<1>2. ASSUME NEW e \in Events, Admit(e) PROVE Delivery!Accept(e)
  <2>1. status[e] = "absent" /\ status' = [status EXCEPT ![e] = "pending"] /\ UNCHANGED stored
    BY <1>2 DEF Admit
  <2>2. DeliveryPhase' = [DeliveryPhase EXCEPT ![e] = "queued"]
    BY Zenon, <1>0, <2>1, PhaseUpdate, PhaseValues DEF Statuses
  <2>3. QED
    BY <1>0, <2>1, <2>2, PhaseValues DEF Delivery!Accept
<1>3. ASSUME NEW w \in Workers, ClaimReap(w) PROVE [Delivery!Next]_(Delivery!vars)
  <2> DEFINE S == {e \in Events : Exhausted(e)}
  <2>1. /\ status' = [e \in Events |-> IF e \in S THEN "dead" ELSE status[e]]
        /\ \A e \in S : status[e] = "processing"
        /\ UNCHANGED stored
    BY <1>3 DEF ClaimReap, Exhausted
  <2> HIDE DEF S
  <2>2. CASE S = {}
    BY <1>0, <1>1, <2>1, <2>2
  <2>3. CASE S # {}
    <3>1. DeliveryPhase' = [e \in Events |-> IF e \in S THEN "dropped" ELSE DeliveryPhase[e]]
      BY <1>0, <2>1, PhaseUnfold, PhaseValues
    <3>2. \A e \in S : DeliveryPhase[e] = "queued"
      BY <1>0, <2>1, PhaseValues DEF S
    <3>3. Delivery!Drop(S) /\ S \in SUBSET Events
      BY <2>1, <2>3, <3>1, <3>2 DEF Delivery!Drop, S
    <3>4. QED
      BY <3>3 DEF Delivery!Next
  <2>4. QED
    BY <2>2, <2>3
<1>4. ASSUME NEW w \in Workers, NEW e \in Events, ClaimTake(w, e) PROVE UNCHANGED Delivery!vars
  <2>1. /\ status[e] \in {"pending", "processing"}
        /\ status' = [status EXCEPT ![e] = "processing"]
        /\ UNCHANGED stored
    BY <1>4 DEF ClaimTake, Claimable
  <2>2. DeliveryPhase' = [DeliveryPhase EXCEPT ![e] = "queued"]
    BY Zenon, <1>0, <2>1, PhaseUpdate, PhaseValues DEF Statuses
  <2>3. DeliveryPhase[e] = "queued"
    BY <1>0, <2>1, PhaseValues
  <2>4. QED
    BY <2>1, <2>2, <2>3, PhaseUnfold
<1>5. ASSUME NEW w \in Workers,
             \/ ClaimNone(w) \/ Resolve(w) \/ Fence(w) \/ FailResolve(w) \/ Rollback(w)
             \/ Abandon(w) \/ SendHeartbeat(w)
      PROVE  UNCHANGED <<status, stored>>
  BY <1>5 DEF ClaimNone, Resolve, Fence, FailResolve, Rollback, Abandon, SendHeartbeat
<1>6. ASSUME NEW w \in Workers, Record(w)
      PROVE  \E e \in Events : Delivery!Record(e)
  <2>1. job[w].event \in Events /\ status[job[w].event] = "processing"
    BY <1>0, <1>6, BusyJob DEF Record, LeaseInv, Owns, Busy
  <2>2. /\ status' = [status EXCEPT ![job[w].event] = "done"]
        /\ stored' = stored \cup {job[w].event}
    BY <1>6 DEF Record
  <2>3. DeliveryPhase' = [DeliveryPhase EXCEPT ![job[w].event] = "recorded"]
    BY Zenon, <1>0, <2>1, <2>2, PhaseUpdate, PhaseValues DEF Statuses
  <2>4. Delivery!Record(job[w].event)
    BY <1>0, <2>1, <2>2, <2>3, PhaseValues DEF Delivery!Record
  <2>5. QED
    BY <2>1, <2>4
<1>7. ASSUME NEW w \in Workers, RetryJob(w) PROVE [Delivery!Next]_(Delivery!vars)
  <2>1. CASE ~Owns(w, job[w].event)
    BY <1>1, <1>7, <2>1 DEF RetryJob
  <2>2. CASE Owns(w, job[w].event)
    <3> DEFINE f == job[w].event
    <3>1. f \in Events /\ status[f] = "processing" /\ UNCHANGED stored
      BY <1>7, <2>2, BusyJob DEF RetryJob, Owns, Busy
    <3>2. PICK s \in {"dead", "pending"} : status' = [status EXCEPT ![f] = s]
      BY <1>7, <2>2 DEF RetryJob
    <3> HIDE DEF f
    <3>3. DeliveryPhase' = [DeliveryPhase EXCEPT ![f] = PhaseOf(s)] /\ DeliveryPhase[f] = "queued"
      BY Zenon, <1>0, <3>1, <3>2, PhaseUpdate, PhaseValues DEF Statuses
    <3>4. CASE s = "pending"
      <4>1. DeliveryPhase' = DeliveryPhase
        BY <3>1, <3>3, <3>4, PhaseUnfold, PhaseValues
      <4>2. QED
        BY <3>1, <4>1
    <3>5. CASE s = "dead"
      <4>1. DeliveryPhase' = [e \in Events |-> IF e \in {f} THEN "dropped" ELSE DeliveryPhase[e]]
        BY <3>1, <3>3, <3>5, PhaseUnfold, PhaseValues
      <4>2. Delivery!Drop({f}) /\ {f} \in SUBSET Events
        BY Zenon, <3>1, <3>3, <4>1 DEF Delivery!Drop
      <4>3. QED
        BY <4>2 DEF Delivery!Next
    <3>6. QED
      BY <3>2, <3>4, <3>5
  <2>3. QED
    BY <2>1, <2>2
<1>8. ASSUME NEW b \in beats, LandHeartbeat(b) PROVE UNCHANGED <<status, stored>>
  BY <1>8 DEF LandHeartbeat
<1>9. ASSUME NEW e \in Events, TimePasses(e) PROVE UNCHANGED <<status, stored>>
  BY <1>9 DEF TimePasses, ExpireLease, BackoffElapses, Age
<1>10. ASSUME NEW e \in Events, Retention(e)
       PROVE  Delivery!Expire(e) \/ Delivery!Forget(e) \/ Delivery!Erase(e)
  <2>1. CASE RetainEvent(e)
    <3>1. e \in stored /\ stored' = stored \ {e} /\ UNCHANGED status
      BY <1>0, <2>1 DEF RetainEvent, TypeOK
    <3>2. QED
      BY <3>1, PhaseUnfold DEF Delivery!Expire
  <2>2. CASE RetainReceipt(e) \/ CleanupProbe(e)
    <3>1. status' = [status EXCEPT ![e] = "absent"]
      BY <2>2 DEF RetainReceipt, CleanupProbe, DropRow
    <3>2. DeliveryPhase' = [DeliveryPhase EXCEPT ![e] = "absent"]
      BY Zenon, <1>0, <3>1, PhaseUpdate, PhaseValues DEF Statuses
    <3>3. CASE RetainReceipt(e)
      <4>1. status[e] \in {"done", "dead"} /\ UNCHANGED stored
        BY <3>3 DEF RetainReceipt, Terminal
      <4>2. QED
        BY <1>0, <3>2, <4>1, PhaseValues DEF Delivery!Forget
    <3>4. CASE CleanupProbe(e)
      BY <3>2, <3>4 DEF CleanupProbe, Delivery!Erase
    <3>5. QED
      BY <2>2, <3>3, <3>4
  <2>3. QED
    BY <1>10, <2>1, <2>2 DEF Retention
<1>11. ASSUME NEW p \in Projects, DeleteProject(p) \/ RestoreProject(p)
       PROVE  UNCHANGED <<status, stored>>
  BY <1>11 DEF DeleteProject, RestoreProject
<1>12. CASE UNCHANGED vars
  BY <1>1, <1>12 DEF vars
<1>13. CASE Next
  <2>1. CASE \E w \in Workers : WorkerStep(w) \/ WorkerFault(w) \/ SendHeartbeat(w)
    BY <2>1, <1>1, <1>3, <1>4, <1>5, <1>6, <1>7
    DEF WorkerStep, WorkerFault, Commit, CommitUnacknowledged, Delivery!Next
  <2>2. CASE \E e \in Events : Admit(e) \/ TimePasses(e) \/ Retention(e)
    BY <2>2, <1>1, <1>2, <1>9, <1>10 DEF Delivery!Next
  <2>3. CASE \/ \E b \in beats : LandHeartbeat(b)
             \/ \E p \in Projects : DeleteProject(p) \/ RestoreProject(p)
    BY <2>3, <1>1, <1>8, <1>11
  <2>4. QED
    BY <1>13, <2>1, <2>2, <2>3 DEF Next
<1>14. QED
  BY <1>12, <1>13

\* The queue, with its leases, retries and crashes, delivers what EventDelivery
\* promises: each acceptance is decided once and becomes visible in one step.
THEOREM QueueImplementsDelivery == Spec => ImplementsDelivery
<1>1. IInv /\ [Next]_vars => [Delivery!Next]_(Delivery!vars)
  BY DeliveryStep
<1>2. QED
  BY <1>1, DeliveryInit, Invariance, PTL DEF Spec, ImplementsDelivery, Delivery!Spec

-----------------------------------------------------------------------------
(* IssueGrouping: types.                                                   *)

Histories == [Fingerprints -> [Envs -> HistoryRows \cup {None}]]

LEMMA ResolvedType ==
    ASSUME NEW e \in ErrorEvents, maps \in [Releases -> MapStates], NEW v,
           NEW previous \in Fingerprints \cup {NoFrames}
    PROVE  Resolved(e, v, previous) \in Fingerprints \cup {NoFrames}
  BY GroupingAssumption DEF Resolved

LEMMA FingerprintType ==
    ASSUME NEW e \in ErrorEvents, NEW restored \in Fingerprints \cup {NoFrames}
    PROVE  FingerprintOf(e, restored) \in Fingerprints
  BY GroupingAssumption DEF FingerprintOf

LEMMA NewIssueType ==
    ASSUME NEW e \in ErrorEvents, at[e] \in Nat, NEW chosen \in IssueStatuses
    PROVE  NewIssue(e, chosen) \in IssueRows
  BY DEF NewIssue, IssueRows

LEMMA CountEventType ==
    ASSUME NEW e \in ErrorEvents, at[e] \in Nat, NEW chosen \in IssueStatuses, NEW row \in IssueRows
    PROVE  LET new == CountEvent(row, e, chosen)
           IN /\ new \in IssueRows
              /\ new.count = row.count + 1
              /\ new.first <= row.first /\ new.first <= at[e]
              /\ new.last >= row.last /\ new.last >= at[e]
<1> DEFINE first == Least(row.first, at[e])
           last == Greatest(row.last, at[e])
           marked == row.regression \/ (row.status = "resolved" /\ chosen = "open")
           new == [count |-> row.count + 1, status |-> chosen, regression |-> marked,
                   first |-> first, last |-> last]
<1>1. row.first \in Nat /\ row.last \in Nat /\ row.count \in Int /\ row.regression \in BOOLEAN
  BY DEF IssueRows
<1>2. /\ first \in Nat /\ first <= row.first /\ first <= at[e]
      /\ last \in Nat /\ last >= row.last /\ last >= at[e]
  BY <1>1 DEF Least, Greatest
<1>3. marked \in BOOLEAN /\ row.count + 1 \in Int
  BY <1>1
<1>4. CountEvent(row, e, chosen) = new
  BY DEF CountEvent
<1> HIDE DEF first, last, marked
<1>5. QED
  BY <1>2, <1>3, <1>4 DEF IssueRows

LEMMA MergeRowType ==
    ASSUME NEW old \in HistoryRows \cup {None}, NEW new \in HistoryRows
    PROVE  Upsert(old, new) \in HistoryRows
  BY DEF Upsert, MergeRow, HistoryRows, Earlier, Later

\* One row of a history is replaced.
LEMMA CellType ==
    ASSUME NEW h \in Histories, NEW f \in Fingerprints, NEW v \in Envs, NEW row \in HistoryRows
    PROVE  [h[f] EXCEPT ![v] = row] \in [Envs -> HistoryRows \cup {None}]
  BY DEF Histories

LEMMA ObserveType ==
    ASSUME NEW h \in Histories, NEW g \in Fingerprints, NEW observed \in Fingerprints,
           NEW e \in ErrorEvents, NEW known \in BOOLEAN
    PROVE  Observe(h, g, e, observed, known) \in Histories
<1> DEFINE fresh(row) ==
              IF row # None /\ at[row.last] < at[e] - HistoryTTL THEN None ELSE row
           seen(f) == [issue |-> g, canonical |-> f = g, first |-> e, last |-> e,
                       known |-> known]
           cell(f) == [h[f] EXCEPT ![Env[e]] = Upsert(fresh(@), seen(f))]
<1>1. ASSUME NEW f \in Fingerprints PROVE cell(f) \in [Envs -> HistoryRows \cup {None}]
  <2>1. Env[e] \in Envs /\ h[f] \in [Envs -> HistoryRows \cup {None}]
    BY GroupingAssumption DEF Histories
  <2>2. fresh(h[f][Env[e]]) \in HistoryRows \cup {None}
    BY <2>1
  <2>3. seen(f) \in HistoryRows
    BY DEF HistoryRows
  <2> HIDE DEF fresh, seen
  <2>4. Upsert(fresh(h[f][Env[e]]), seen(f)) \in HistoryRows
    BY <2>2, <2>3, MergeRowType
  <2>5. cell(f) = [h[f] EXCEPT ![Env[e]] = Upsert(fresh(h[f][Env[e]]), seen(f))]
    BY <2>1
  <2>6. QED
    BY <2>1, <2>4, <2>5
<1>2. Observe(h, g, e, observed, known) =
        [f \in Fingerprints |-> IF f \in {g, observed} THEN cell(f) ELSE h[f]]
  BY DEF Observe
<1> HIDE DEF cell
<1>3. QED
  BY <1>1, <1>2 DEF Histories

LEMMA TransferType ==
    ASSUME NEW h \in Histories, NEW from \in Fingerprints, NEW to \in Fingerprints
    PROVE  Transfer(h, from, to) \in Histories
<1> DEFINE moved(v) == h[from][v] # None /\ h[from][v].issue = from /\ h[from][v].canonical
           cell(f, v) ==
              IF f = to /\ moved(v)
              THEN Upsert(h[to][v], [h[from][v] EXCEPT !.issue = to])
              ELSE IF h[f][v] # None /\ h[f][v].issue = from
              THEN [h[f][v] EXCEPT !.issue = to, !.canonical = FALSE]
              ELSE h[f][v]
<1>1. ASSUME NEW f \in Fingerprints, NEW v \in Envs PROVE cell(f, v) \in HistoryRows \cup {None}
  <2>1. /\ h[f][v] \in HistoryRows \cup {None} /\ h[to][v] \in HistoryRows \cup {None}
        /\ h[from][v] \in HistoryRows \cup {None}
    BY DEF Histories
  <2>2. ASSUME NEW row \in HistoryRows
        PROVE  /\ [row EXCEPT !.issue = to] \in HistoryRows
               /\ [row EXCEPT !.issue = to, !.canonical = FALSE] \in HistoryRows
    BY Zenon DEF HistoryRows
  <2>3. CASE f = to /\ moved(v)
    <3>1. [h[from][v] EXCEPT !.issue = to] \in HistoryRows
      BY Zenon, <2>1, <2>2, <2>3
    <3>2. Upsert(h[to][v], [h[from][v] EXCEPT !.issue = to]) \in HistoryRows
      BY <2>1, <3>1, MergeRowType
    <3>3. QED
      BY <2>3, <3>2
  <2>4. CASE ~(f = to /\ moved(v)) /\ h[f][v] # None /\ h[f][v].issue = from
    <3>1. [h[f][v] EXCEPT !.issue = to, !.canonical = FALSE] \in HistoryRows
      BY Zenon, <2>1, <2>2, <2>4
    <3>2. QED
      BY <2>4, <3>1
  <2>5. CASE ~(f = to /\ moved(v)) /\ ~(h[f][v] # None /\ h[f][v].issue = from)
    BY <2>1, <2>5
  <2>6. QED
    BY <2>3, <2>4, <2>5
<1>2. Transfer(h, from, to) = [f \in Fingerprints |-> [v \in Envs |-> cell(f, v)]]
  BY DEF Transfer
<1> HIDE DEF cell
<1>3. QED
  BY <1>1, <1>2 DEF Histories

LEMMA RememberedType ==
    ASSUME history \in Histories, NEW e \in ErrorEvents, NEW f \in Fingerprints
    PROVE  Remembered(e, f) \subseteq Fingerprints
  BY DEF Remembered, Histories, HistoryRows

LEMMA GroupingTypeInit == GroupingInit => GroupingTypeOK
  BY GroupingAssumption DEF GroupingInit, GroupingTypeOK

LEMMA JobTypes ==
    ASSUME GroupingTypeOK, NEW e \in ErrorEvents, Job(e)
    PROVE  GroupingTypeOK'
<1> USE GroupingAssumption
<1>1. CASE Receive(e)
  BY <1>1 DEF GroupingTypeOK, Receive, events, tallies
<1>0. CASE VersionJob(e)
  <2> DEFINE found == [step |-> "versioned", frames |-> NoFrames, version |-> version[Release[e]]]
  <2>1. found \in Resolutions
    <3>1. version[Release[e]] \in Nat
      BY DEF GroupingTypeOK
    <3>2. QED
      BY <3>1 DEF Resolutions
  <2>2. work' = [work EXCEPT ![e] = found]
    BY <1>0 DEF VersionJob
  <2> HIDE DEF found
  <2>3. QED
    BY <1>0, <2>1, <2>2 DEF GroupingTypeOK, VersionJob, events, tallies
<1>2. CASE ResolveJob(e)
  <2> DEFINE found == [work[e] EXCEPT !.step = "resolved",
                                     !.frames = Resolved(e, work[e].version, work[e].frames)]
  <2>1. found \in Resolutions
    <3>1. work[e] \in Resolutions
      BY <1>2 DEF ResolveJob, GroupingTypeOK
    <3>2. work[e].frames \in Fingerprints \cup {NoFrames}
      BY <3>1 DEF Resolutions
    <3>3. Resolved(e, work[e].version, work[e].frames) \in Fingerprints \cup {NoFrames}
      BY <3>2, ResolvedType DEF GroupingTypeOK
    <3> DEFINE new == Resolved(e, work[e].version, work[e].frames)
    <3> HIDE DEF new
    <3>4. [work[e] EXCEPT !.step = "resolved", !.frames = new] \in Resolutions
      BY <3>1, <3>3 DEF Resolutions, new
    <3>5. QED
      BY <3>4 DEF new
  <2>2. work' = [work EXCEPT ![e] = found]
    BY Zenon, <1>2 DEF ResolveJob, GroupingTypeOK
  <2>3. UNCHANGED <<now, inbox, at, version, maps, issue, events, history,
                   activities, pass, page, tallies>>
    BY <1>2 DEF ResolveJob
  <2> HIDE DEF found
  <2>4. QED
    BY <2>1, <2>2, <2>3 DEF GroupingTypeOK, events, tallies
<1>3. CASE CommitJob(e)
  <2> DEFINE f == FingerprintOf(e, work[e].frames)
             groups == IF Remembered(e, f) = {} THEN {f} ELSE Remembered(e, f)
  <2>1. work[e] \in Resolutions /\ at[e] \in Nat
    BY <1>3 DEF CommitJob, GroupingTypeOK
  <2>2. work[e].frames \in Fingerprints \cup {NoFrames} /\ work[e].version \in Nat
    BY <2>1 DEF Resolutions
  <2>3. f \in Fingerprints
    BY <2>2, FingerprintType
  <2>4. groups \subseteq Fingerprints
    BY <2>3, RememberedType DEF GroupingTypeOK, Histories
  <2> HIDE DEF f, groups
  <2>5. PICK g \in groups :
          /\ issue' = [issue EXCEPT ![g] =
                          IF @ = None THEN NewIssue(e, "open") ELSE CountEvent(@, e, "open")]
          /\ eventIssue' = [eventIssue EXCEPT ![e] = g]
          /\ history' = Observe(history, g, e, f, TRUE)
          /\ arrivals' = [arrivals EXCEPT ![g] = @ + 1]
    BY Zenon, <1>3 DEF CommitJob, f, groups
  <2>6. g \in Fingerprints
    BY <2>4
  <2> DEFINE row == IF issue[g] = None THEN NewIssue(e, "open") ELSE CountEvent(issue[g], e, "open")
  <2>7. row \in IssueRows
    BY <2>1, <2>6, NewIssueType, CountEventType DEF GroupingTypeOK, IssueStatuses
  <2>8. issue' = [issue EXCEPT ![g] = row]
    BY <2>5, <2>6 DEF GroupingTypeOK
  <2>9. history' \in Histories
    BY Zenon, <2>3, <2>5, <2>6, ObserveType DEF GroupingTypeOK, Histories
  <2> HIDE DEF row
  <2>10. /\ issue' \in [Fingerprints -> IssueRows \cup {None}]
         /\ eventIssue' \in [ErrorEvents -> Fingerprints \cup {None}]
         /\ arrivals' \in [Fingerprints -> Nat]
    BY <2>5, <2>6, <2>7, <2>8 DEF GroupingTypeOK
  <2>11. /\ eventVersion' \in [ErrorEvents -> Nat]
         /\ frames' \in [ErrorEvents -> Fingerprints \cup {NoFrames}]
         /\ inbox' \in [ErrorEvents -> {"absent", "pending", "done", "dead"}]
         /\ work' \in [ErrorEvents -> Resolutions \cup {None}]
    BY <1>3, <2>2 DEF CommitJob, GroupingTypeOK
  <2>12. UNCHANGED <<Untouched, activities, pass, page, purged, repeated>>
    BY <1>3 DEF CommitJob
  <2>13. QED
    BY <2>9, <2>10, <2>11, <2>12 DEF GroupingTypeOK, Histories, Untouched
<1>4. CASE ResolveAgain(e)
  BY <1>4 DEF GroupingTypeOK, ResolveAgain, Untouched, events, tallies
<1>5. CASE DeadLetter(e)
  BY <1>5 DEF GroupingTypeOK, DeadLetter, Untouched, events, tallies
<1>6. QED
  BY <1>0, <1>1, <1>2, <1>3, <1>4, <1>5 DEF Job

LEMMA PassTypes ==
    ASSUME GroupingTypeOK, NEW p \in Reprocessors, pass[p] # None
    PROVE  LET s == pass[p]
           IN /\ s \in Passes /\ s.event \in ErrorEvents /\ s.from \in Fingerprints \cup {None}
              /\ s.seen \in Nat /\ s.version \in Nat
              /\ s.frames \in Fingerprints \cup {NoFrames} /\ s.status \in IssueStatuses
<1>1. pass[p] \in Passes
  BY DEF GroupingTypeOK
<1>2. QED
  BY <1>1 DEF Passes

\* What a commit of a reprocessor does to the tables when the event moves.
LEMMA MoveTypes ==
    ASSUME GroupingTypeOK, NEW p \in Reprocessors, ReprocessCommit(p),
           FingerprintOf(pass[p].event, pass[p].frames) # pass[p].from,
           issue[pass[p].from] # None
    PROVE  LET e == pass[p].event
               from == pass[p].from
               to == FingerprintOf(e, pass[p].frames)
               row == IF issue[to] = None THEN NewIssue(e, pass[p].status)
                      ELSE CountEvent(issue[to], e, issue[to].status)
           IN /\ to \in Fingerprints /\ row \in IssueRows
              /\ issue' = [issue EXCEPT ![to] = row, ![from] = [issue[from] EXCEPT !.count = @ - 1]]
              /\ [issue[from] EXCEPT !.count = @ - 1] \in IssueRows
              /\ history' \in Histories
              /\ activities' = activities \cup {[from |-> from, to |-> to, event |-> e, at |-> now]}
<1> DEFINE s == pass[p]
           e == s.event
           from == s.from
           to == FingerprintOf(e, s.frames)
           row == IF issue[to] = None THEN NewIssue(e, s.status)
                  ELSE CountEvent(issue[to], e, issue[to].status)
           old == history[from][Env[e]]
           known == /\ old # None
                    /\ old.issue = from /\ old.canonical
                    /\ old.known
                    /\ Release[old.first] = Release[e]
           observed == Observe(history, to, e, to, known)
           moves == activities \cup {[from |-> from, to |-> to, event |-> e, at |-> now]}
<1>1. /\ s # None /\ e \in ErrorEvents /\ from \in Fingerprints
      /\ s.frames \in Fingerprints \cup {NoFrames} /\ s.status \in IssueStatuses
  <2>1. s # None /\ from # None
    BY Zenon DEF ReprocessCommit
  <2>2. e \in ErrorEvents /\ from \in Fingerprints \cup {None}
        /\ s.frames \in Fingerprints \cup {NoFrames} /\ s.status \in IssueStatuses
    BY Zenon, <2>1, PassTypes
  <2>3. QED
    BY <2>1, <2>2
<1>2. to \in Fingerprints
  BY <1>1, FingerprintType
<1>3. row \in IssueRows
  <2> HIDE DEF s, e, from, to
  <2>1. at[e] \in Nat
    BY <1>1, GroupingAssumption DEF GroupingTypeOK
  <2>2. CASE issue[to] = None
    BY <1>1, <2>1, <2>2, NewIssueType
  <2>3. CASE issue[to] # None
    <3>1. issue[to] \in IssueRows /\ issue[to].status \in IssueStatuses
      BY <1>2, <2>3 DEF GroupingTypeOK, IssueRows
    <3>2. QED
      BY <1>1, <2>1, <2>3, <3>1, CountEventType
  <2>4. QED
    BY <2>2, <2>3
<1>4. known \in BOOLEAN
  OBVIOUS
<1>5. observed \in Histories
  <2> HIDE DEF s, e, from, to, known
  <2>1. QED
    BY Zenon, <1>1, <1>2, <1>4, ObserveType DEF GroupingTypeOK, Histories
<1>6. history' \in Histories
  <2>1. \/ history' = observed
        \/ history' = Transfer(observed, from, to)
    BY Zenon DEF ReprocessCommit
  <2> HIDE DEF s, e, from, to, observed
  <2>2. QED
    BY <1>1, <1>2, <1>5, <2>1, TransferType
<1>7. issue[from] \in IssueRows
  BY <1>1 DEF GroupingTypeOK
<1>8. [issue[from] EXCEPT !.count = @ - 1] \in IssueRows
  BY <1>7 DEF IssueRows
<1>9. issue' = [issue EXCEPT ![to] = row, ![from] = [issue[from] EXCEPT !.count = @ - 1]]
  <2>1. issue' = [issue EXCEPT
                    ![to] = IF @ = None THEN NewIssue(e, s.status)
                                        ELSE CountEvent(@, e, @.status),
                    ![from].count = @ - 1]
    BY Zenon DEF ReprocessCommit
  <2>2. issue \in [Fingerprints -> IssueRows \cup {None}]
    BY DEF GroupingTypeOK
  <2>3. from # to
    OBVIOUS
  <2> DEFINE first(x) == IF x = None THEN NewIssue(e, s.status) ELSE CountEvent(x, e, x.status)
             less(x) == [x EXCEPT !.count = @ - 1]
             mid == [issue EXCEPT ![to] = first(@)]
  <2>4. issue' = [mid EXCEPT ![from] = less(@)] /\ row = first(issue[to])
    BY Zenon, <2>1
  <2> HIDE DEF s, e, from, to, row, first
  <2>5. mid = [issue EXCEPT ![to] = row] /\ mid[from] = issue[from]
    BY <1>1, <1>2, <2>2, <2>3, <2>4
  <2> HIDE DEF mid, less
  <2>6. [mid EXCEPT ![from] = less(@)] = [mid EXCEPT ![from] = less(issue[from])]
    BY Zenon, <2>5
  <2>7. [mid EXCEPT ![from] = less(issue[from])] =
            [issue EXCEPT ![to] = row, ![from] = less(issue[from])]
    BY <2>5
  <2>8. QED
    BY <2>4, <2>6, <2>7 DEF less
<1>10. activities' = moves
  BY Zenon DEF ReprocessCommit
<1>11. QED
  BY <1>2, <1>3, <1>6, <1>8, <1>9, <1>10

-----------------------------------------------------------------------------
(* Groups span their events.                                               *)

Spans(f, e) == issue[f] # None /\ issue[f].first <= at[e] /\ at[e] <= issue[f].last

\* An event that is in a group was admitted once, and its group spans it.
Spanned(e) == Stored(e) => inbox[e] = "done" /\ Spans(eventIssue[e], e)

\* So does the group a reprocessor read its event in, while it is there: the
\* event may be in another one by now.  Nobody else writes an event it holds.
Known(p) ==
    LET s == pass[p] IN
    s # None =>
        /\ inbox[s.event] = "done"
        /\ s.from # None => Spans(s.from, s.event)
        /\ s.step = "fenced" => Stored(s.event) /\ eventVersion[s.event] = s.seen

FencedAlone ==
    \A p, q \in Reprocessors :
        /\ pass[p] # None /\ pass[p].step = "fenced"
        /\ pass[q] # None /\ pass[q].step = "fenced"
        /\ pass[p].event = pass[q].event
        => p = q

GroupInv ==
    /\ GroupingTypeOK
    /\ \A e \in ErrorEvents : Spanned(e)
    /\ \A p \in Reprocessors : Known(p)
    /\ FencedAlone

LEMMA GroupInit == GroupingInit => GroupInv
<1> SUFFICES ASSUME GroupingInit PROVE GroupInv
  OBVIOUS
<1>1. GroupingTypeOK
  BY GroupingTypeInit
<1>2. QED
  BY <1>1 DEF GroupingInit, GroupInv, Spanned, Stored, Known, FencedAlone

LEMMA AtType == ASSUME GroupingTypeOK, NEW e \in ErrorEvents PROVE at[e] \in Nat
<1>1. at[e] \in 0..MaxNow
  BY DEF GroupingTypeOK
<1>2. QED
  BY <1>1

\* A row that stays spans what it spanned.
Wide(f) ==
    issue[f] # None /\ issue'[f] # None =>
        issue'[f].first <= issue[f].first /\ issue'[f].last >= issue[f].last

\* What a committed event was received at stands.
Standing ==
    \A e \in ErrorEvents : inbox[e] = "done" => inbox'[e] = "done" /\ at'[e] = at[e]

\* A pass goes on without learning of another group or taking another event.
Kept(p) ==
    /\ pass[p] # None
    /\ pass'[p].event = pass[p].event
    /\ pass'[p].from # None => pass'[p].from = pass[p].from /\ issue'[pass[p].from] # None
    /\ pass'[p].step = "fenced" =>
          /\ pass[p].step = "fenced" /\ pass'[p].seen = pass[p].seen
          /\ eventIssue'[pass[p].event] # None
          /\ eventVersion'[pass[p].event] = eventVersion[pass[p].event]

LEMMA SpansStay ==
    ASSUME GroupingTypeOK, GroupingTypeOK', NEW f \in Fingerprints, NEW e \in ErrorEvents,
           Spans(f, e), at'[e] = at[e], issue'[f] # None, Wide(f)
    PROVE  Spans(f, e)'
<1>1. issue[f] \in IssueRows /\ issue'[f] \in IssueRows
  BY DEF Spans, GroupingTypeOK
<1>2. /\ issue[f].first \in Nat /\ issue[f].last \in Nat
      /\ issue'[f].first \in Nat /\ issue'[f].last \in Nat
  BY <1>1 DEF IssueRows
<1>3. at[e] \in Nat
  BY AtType
<1>4. QED
  BY <1>2, <1>3 DEF Spans, Wide

LEMMA GroupKeeps ==
    ASSUME GroupInv, GroupingTypeOK', Standing,
           \A f \in Fingerprints : Wide(f),
           \A e \in ErrorEvents :
              \/ eventIssue'[e] = None
              \/ eventIssue'[e] = eventIssue[e] /\ issue'[eventIssue[e]] # None
              \/ inbox'[e] = "done" /\ Spans(eventIssue[e], e)',
           \A p \in Reprocessors : pass'[p] = None \/ Kept(p) \/ Known(p)',
           FencedAlone'
    PROVE  GroupInv'
<1>1. ASSUME NEW e \in ErrorEvents PROVE Spanned(e)'
  <2>1. CASE eventIssue'[e] = None
    BY <2>1 DEF Spanned, Stored
  <2>2. CASE eventIssue'[e] # None /\ eventIssue'[e] = eventIssue[e] /\ issue'[eventIssue[e]] # None
    <3>1. PICK f \in Fingerprints : f = eventIssue[e]
      BY <2>2 DEF GroupInv, GroupingTypeOK
    <3>2. inbox[e] = "done" /\ Spans(f, e)
      BY <2>2, <3>1 DEF GroupInv, Spanned, Stored
    <3>3. inbox'[e] = "done" /\ at'[e] = at[e] /\ Wide(f) /\ issue'[f] # None
      BY <2>2, <3>1, <3>2 DEF Standing
    <3>4. Spans(f, e)'
      BY <3>2, <3>3, SpansStay DEF GroupInv
    <3>5. QED
      BY <2>2, <3>1, <3>3, <3>4 DEF Spanned, Spans
  <2>3. CASE inbox'[e] = "done" /\ Spans(eventIssue[e], e)'
    BY <2>3 DEF Spanned, Spans
  <2>4. QED
    BY <2>1, <2>2, <2>3
<1>2. ASSUME NEW p \in Reprocessors PROVE Known(p)'
  <2>1. CASE pass'[p] = None
    BY <2>1 DEF Known
  <2>2. CASE pass'[p] # None /\ Kept(p)
    <3>1. PICK e \in ErrorEvents : e = pass[p].event
      BY <2>2, PassTypes DEF Kept, GroupInv
    <3>2. inbox[e] = "done" /\ Known(p) /\ pass[p] # None
      BY <2>2, <3>1 DEF GroupInv, Known, Kept
    <3>3. inbox'[e] = "done" /\ at'[e] = at[e]
      BY <3>2 DEF Standing
    <3>4. ASSUME pass'[p].from # None PROVE Spans(pass[p].from, e)'
      <4>1. PICK f \in Fingerprints : f = pass[p].from
        BY <2>2, <3>2, <3>4, PassTypes DEF Kept, GroupInv
      <4>2. Spans(f, e) /\ Wide(f) /\ issue'[f] # None
        BY <2>2, <3>1, <3>2, <3>4, <4>1, GroupingAssumption DEF Known, Kept
      <4>3. Spans(f, e)'
        BY <3>3, <4>2, SpansStay DEF GroupInv
      <4>4. pass[p].from # None
        BY <4>1, GroupingAssumption
      <4>5. pass'[p].from = f
        BY <2>2, <3>4, <4>1 DEF Kept
      <4>6. QED
        BY <2>2, <3>4, <4>1, <4>3, <4>5 DEF Spans, Kept
    <3>5. QED
      BY <2>2, <3>1, <3>2, <3>3, <3>4 DEF Known, Kept, Stored, Spans
  <2>3. CASE Known(p)'
    BY <2>3
  <2>4. QED
    BY <2>1, <2>2, <2>3
<1>3. QED
  BY <1>1, <1>2 DEF GroupInv

\* Nothing that the invariant reads of groups and passes changes.
LEMMA QuietStep ==
    ASSUME GroupInv, GroupingTypeOK', Standing,
           UNCHANGED <<eventIssue, eventVersion, pass, issue>>
    PROVE  GroupInv'
<1>1. \A f \in Fingerprints : Wide(f)
  <2> SUFFICES ASSUME NEW f \in Fingerprints, issue[f] # None PROVE Wide(f)
    BY DEF Wide
  <2>1. issue[f] \in IssueRows
    BY DEF GroupInv, GroupingTypeOK
  <2>2. QED
    BY <2>1 DEF Wide, IssueRows
<1>2. ASSUME NEW e \in ErrorEvents, eventIssue'[e] # None PROVE issue'[eventIssue[e]] # None
  BY <1>2 DEF GroupInv, Spanned, Stored, Spans
<1>3. ASSUME NEW p \in Reprocessors, pass[p] # None PROVE Kept(p)
  <2>1. Known(p)
    BY DEF GroupInv
  <2>2. QED
    BY <1>3, <2>1 DEF Kept, Known, Stored, Spans
<1>4. FencedAlone'
  BY DEF GroupInv, FencedAlone
<1>5. \A p \in Reprocessors : pass'[p] = None \/ Kept(p) \/ Known(p)'
  BY <1>3
<1>6. QED
  BY <1>1, <1>2, <1>4, <1>5, GroupKeeps

\* Jobs before they commit.
Waiting(e) ==
    Receive(e) \/ VersionJob(e) \/ ResolveJob(e) \/ ResolveAgain(e) \/ DeadLetter(e)

LEMMA QuietJobs ==
    ASSUME GroupInv, NEW e \in ErrorEvents, Waiting(e)
    PROVE  GroupInv'
<1>1. GroupingTypeOK'
  BY JobTypes DEF Job, Waiting, GroupInv
<1>2. UNCHANGED <<issue, eventIssue, eventVersion, pass>>
  BY DEF Waiting, Receive, VersionJob, ResolveJob, ResolveAgain, DeadLetter, events, tallies
<1>3. Standing
  <2>1. inbox \in [ErrorEvents -> {"absent", "pending", "done", "dead"}] /\ at \in [ErrorEvents -> 0..MaxNow]
    BY DEF GroupInv, GroupingTypeOK
  <2>2. QED
    BY <2>1 DEF Standing, Waiting, Receive, VersionJob, ResolveJob, ResolveAgain, DeadLetter, Untouched
<1>4. QED
  BY <1>1, <1>2, <1>3, QuietStep

\* An event is counted into a group, as a new row or in the row there is.
LEMMA CountedRow ==
    ASSUME GroupingTypeOK, NEW e \in ErrorEvents, NEW g \in Fingerprints,
           NEW chosen \in IssueStatuses, NEW fresh \in IssueStatuses,
           NEW row, row = IF issue[g] = None THEN NewIssue(e, fresh)
                          ELSE CountEvent(issue[g], e, chosen)
    PROVE  /\ row \in IssueRows /\ row # None
           /\ row.first <= at[e] /\ at[e] <= row.last
           /\ issue[g] = None => row.count = 1
           /\ issue[g] # None =>
                 /\ row.count = issue[g].count + 1
                 /\ row.first <= issue[g].first /\ row.last >= issue[g].last
                 /\ row.status = chosen
                 /\ row.regression = (issue[g].regression \/ (issue[g].status = "resolved" /\ chosen = "open"))
<1>1. at[e] \in Nat
  BY AtType
<1>2. CASE issue[g] = None
  <2>1. row = NewIssue(e, fresh)
    BY <1>2
  <2>2. row \in IssueRows
    BY <1>1, <2>1, NewIssueType
  <2>3. row.first = at[e] /\ row.last = at[e] /\ row.count = 1
    BY <2>1 DEF NewIssue
  <2>4. QED
    BY <1>1, <1>2, <2>2, <2>3, GroupingAssumption
<1>3. CASE issue[g] # None
  <2>1. issue[g] \in IssueRows
    BY <1>3 DEF GroupingTypeOK
  <2>2. row = CountEvent(issue[g], e, chosen)
    BY <1>3
  <2>3. /\ row \in IssueRows
        /\ row.count = issue[g].count + 1
        /\ row.first <= issue[g].first /\ row.first <= at[e]
        /\ row.last >= issue[g].last /\ row.last >= at[e]
    BY <1>1, <2>1, <2>2, CountEventType
  <2>4. row.last \in Nat /\ row # None
    BY <2>3, GroupingAssumption DEF IssueRows
  <2>5. /\ row.status = chosen
        /\ row.regression = (issue[g].regression \/ (issue[g].status = "resolved" /\ chosen = "open"))
    BY <2>2 DEF CountEvent
  <2>6. QED
    BY <1>1, <1>3, <2>3, <2>4, <2>5
<1>4. QED
  BY <1>2, <1>3

\* What the commit of a job does.
LEMMA CommitRow ==
    ASSUME GroupingTypeOK, NEW e \in ErrorEvents, CommitJob(e)
    PROVE  \E g \in Fingerprints, observed \in Fingerprints, row \in IssueRows :
              /\ row = IF issue[g] = None THEN NewIssue(e, "open")
                       ELSE CountEvent(issue[g], e, "open")
              /\ issue' = [issue EXCEPT ![g] = row]
              /\ eventIssue' = [eventIssue EXCEPT ![e] = g]
              /\ history' = Observe(history, g, e, observed, TRUE)
              /\ arrivals' = [arrivals EXCEPT ![g] = @ + 1]
<1> DEFINE f == FingerprintOf(e, work[e].frames)
           groups == IF Remembered(e, f) = {} THEN {f} ELSE Remembered(e, f)
<1>1. work[e] \in Resolutions
  BY DEF CommitJob, GroupingTypeOK
<1>2. f \in Fingerprints
  BY <1>1, FingerprintType DEF Resolutions
<1>3. groups \subseteq Fingerprints
  BY <1>2, RememberedType DEF GroupingTypeOK, Histories
<1> HIDE DEF f, groups
<1>4. PICK g \in groups :
        /\ issue' = [issue EXCEPT ![g] =
                        IF @ = None THEN NewIssue(e, "open") ELSE CountEvent(@, e, "open")]
        /\ eventIssue' = [eventIssue EXCEPT ![e] = g]
        /\ history' = Observe(history, g, e, f, TRUE)
        /\ arrivals' = [arrivals EXCEPT ![g] = @ + 1]
  BY Zenon DEF CommitJob, f, groups
<1>5. g \in Fingerprints /\ "open" \in IssueStatuses
  BY <1>3 DEF IssueStatuses
<1> DEFINE row == IF issue[g] = None THEN NewIssue(e, "open") ELSE CountEvent(issue[g], e, "open")
<1>6. issue' = [issue EXCEPT ![g] = row]
  BY <1>4, <1>5 DEF GroupingTypeOK
<1>7. row \in IssueRows
  BY <1>5, CountedRow
<1> HIDE DEF row
<1>8. QED
  BY Zenon, <1>2, <1>4, <1>5, <1>6, <1>7 DEF row

LEMMA CommitKeeps ==
    ASSUME GroupInv, NEW e \in ErrorEvents, CommitJob(e)
    PROVE  GroupInv'
<1>1. GroupingTypeOK /\ GroupingTypeOK'
  BY JobTypes DEF Job, GroupInv
<1>2. PICK g \in Fingerprints, row \in IssueRows :
        /\ row = IF issue[g] = None THEN NewIssue(e, "open") ELSE CountEvent(issue[g], e, "open")
        /\ issue' = [issue EXCEPT ![g] = row]
        /\ eventIssue' = [eventIssue EXCEPT ![e] = g]
  BY Zenon, <1>1, CommitRow
<1>3. /\ row # None /\ row.first <= at[e] /\ at[e] <= row.last
      /\ issue[g] # None => row.first <= issue[g].first /\ row.last >= issue[g].last
  BY <1>1, <1>2, CountedRow DEF IssueStatuses
<1>4. /\ inbox[e] = "pending" /\ UNCHANGED <<at, pass>>
      /\ inbox' = [inbox EXCEPT ![e] = "done"]
      /\ eventVersion' = [eventVersion EXCEPT ![e] = work[e].version]
  BY DEF CommitJob, Untouched
<1>5. issue'[g] = row /\ \A f \in Fingerprints \ {g} : issue'[f] = issue[f]
  BY <1>1, <1>2 DEF GroupingTypeOK
<1>6. ASSUME NEW f \in Fingerprints PROVE Wide(f) /\ (issue[f] # None => issue'[f] # None)
  <2>1. CASE f = g
    BY <1>3, <1>5, <2>1 DEF Wide
  <2>2. CASE f # g /\ issue[f] # None
    <3>1. issue[f] \in IssueRows /\ issue'[f] = issue[f]
      BY <1>1, <1>5, <2>2 DEF GroupingTypeOK
    <3>2. QED
      BY <3>1, <2>2 DEF Wide, IssueRows
  <2>3. QED
    BY <2>1, <2>2 DEF Wide
<1>7. Standing
  BY <1>1, <1>4 DEF Standing, GroupingTypeOK
<1>8. ASSUME NEW d \in ErrorEvents, eventIssue'[d] # None
      PROVE  \/ eventIssue'[d] = eventIssue[d] /\ issue'[eventIssue[d]] # None
             \/ inbox'[d] = "done" /\ Spans(eventIssue[d], d)'
  <2>1. CASE d = e
    BY <1>1, <1>2, <1>3, <1>4, <1>5, <2>1 DEF Spans, GroupingTypeOK
  <2>2. CASE d # e
    <3>1. eventIssue'[d] = eventIssue[d]
      BY <1>1, <1>2, <2>2 DEF GroupingTypeOK
    <3>2. eventIssue[d] \in Fingerprints /\ issue[eventIssue[d]] # None
      BY <1>8, <3>1 DEF GroupInv, GroupingTypeOK, Spanned, Stored, Spans
    <3>3. QED
      BY <1>6, <3>1, <3>2
  <2>3. QED
    BY <2>1, <2>2
<1>9. ASSUME NEW p \in Reprocessors, pass[p] # None PROVE Kept(p)
  <2>1. Known(p) /\ pass[p].event \in ErrorEvents /\ pass[p].event # e
        /\ pass[p].from \in Fingerprints \cup {None}
    BY <1>4, <1>9, PassTypes DEF GroupInv, Known
  <2>2. /\ eventIssue'[pass[p].event] = eventIssue[pass[p].event]
        /\ eventVersion'[pass[p].event] = eventVersion[pass[p].event]
    BY <1>1, <1>2, <1>4, <2>1 DEF GroupingTypeOK
  <2>3. pass[p].from # None => issue'[pass[p].from] # None
    BY <1>6, <1>9, <2>1 DEF Known, Spans
  <2>4. pass[p].step = "fenced" => eventIssue[pass[p].event] # None
    BY <1>9, <2>1 DEF Known, Stored
  <2>5. QED
    BY <1>4, <1>9, <2>2, <2>3, <2>4 DEF Kept
<1>10. FencedAlone'
  BY <1>4 DEF GroupInv, FencedAlone
<1>11. \A p \in Reprocessors : pass'[p] = None \/ Kept(p) \/ Known(p)'
  BY <1>4, <1>9
<1>12. QED
  BY <1>1, <1>6, <1>7, <1>8, <1>10, <1>11, GroupKeeps

-----------------------------------------------------------------------------
(* Reprocessing.                                                           *)

\* What a reprocessor may know and hold.
Knows(s) ==
    /\ inbox[s.event] = "done"
    /\ s.from # None => Spans(s.from, s.event)
    /\ s.step = "fenced" =>
          Stored(s.event) /\ eventVersion[s.event] = s.seen /\ RowFree(s.event)

\* The pass of one reprocessor changes and nothing else does.
LEMMA ProgressKeeps ==
    ASSUME GroupInv, NEW p \in Reprocessors, NEW s \in Passes \cup {None},
           Progress(p, s), s # None => Knows(s)
    PROVE  GroupInv'
<1>1. /\ pass' = [pass EXCEPT ![p] = s]
      /\ UNCHANGED <<Untouched, inbox, work, issue, events, history, activities, page, tallies>>
  BY DEF Progress
<1>2. GroupingTypeOK'
  BY <1>1 DEF GroupInv, GroupingTypeOK, Untouched, events, tallies
<1>3. UNCHANGED <<issue, inbox, at, eventIssue, eventVersion>>
  BY <1>1 DEF Untouched, events
<1>4. ASSUME NEW e \in ErrorEvents PROVE Spanned(e)'
  BY <1>3 DEF GroupInv, Spanned, Stored, Spans
<1>5. pass'[p] = s /\ \A q \in Reprocessors \ {p} : pass'[q] = pass[q]
  BY <1>1 DEF GroupInv, GroupingTypeOK
<1>6. ASSUME NEW q \in Reprocessors PROVE Known(q)'
  <2>1. CASE q = p
    BY <1>3, <1>5, <2>1 DEF Known, Stored, Knows, Spans
  <2>2. CASE q # p
    BY <1>3, <1>5, <2>2 DEF GroupInv, Known, Stored, Spans
  <2>3. QED
    BY <2>1, <2>2
<1>7. FencedAlone'
  BY <1>5 DEF GroupInv, FencedAlone, Knows, RowFree
<1>8. QED
  BY <1>2, <1>4, <1>6, <1>7 DEF GroupInv

\* What a pass may have learned from a read: the row of its event, and then the
\* version of the release.
Learned(p, s) ==
    \/ s = None
    \/ s.step = "selected" /\ s.seen = 0 /\ s.version = 0 /\ s.from = None
    \/ /\ s.step = "read" /\ pass[p] # None
       /\ s.event = pass[p].event /\ s.version = pass[p].version
       /\ Stored(s.event) /\ s.seen = eventVersion[s.event] /\ s.from = eventIssue[s.event]
    \/ /\ s.step \in {"versioned", "resolved", "fenced"}
       /\ pass[p] # None /\ pass[p].step # "selected"
       /\ s.event = pass[p].event /\ s.seen = pass[p].seen /\ s.from = pass[p].from
       /\ \/ s.version = version[Release[s.event]]
          \/ pass[p].step # "read" /\ s.version = pass[p].version

\* The reads of a pass and what it makes of them.
LEMMA ReadPass ==
    ASSUME GroupInv, NEW p \in Reprocessors,
           ReprocessRead(p) \/ ReprocessVersion(p) \/ ReprocessResolve(p)
    PROVE  \E s \in Passes \cup {None} :
              /\ Progress(p, s) /\ Learned(p, s)
              /\ s # None => s.step \in {"read", "versioned", "resolved"}
<1> DEFINE s == pass[p]
           e == s.event
<1>1. s # None
  BY DEF ReprocessRead, ReprocessVersion, ReprocessResolve
<1>2. /\ s \in Passes /\ e \in ErrorEvents
      /\ s.frames \in Fingerprints \cup {NoFrames} /\ s.version \in Nat
  BY <1>1, PassTypes DEF GroupInv
<1>3. CASE ReprocessRead(p)
  <2> DEFINE new == [s EXCEPT !.step = "read", !.seen = eventVersion[e],
                              !.from = eventIssue[e], !.frames = frames[e]]
  <2>1. /\ eventVersion[e] \in Nat /\ eventIssue[e] \in Fingerprints \cup {None}
        /\ frames[e] \in Fingerprints \cup {NoFrames}
    BY <1>2 DEF GroupInv, GroupingTypeOK
  <2>2. /\ new \in Passes /\ new.step = "read" /\ new.event = e /\ new.from = eventIssue[e]
        /\ new.seen = eventVersion[e] /\ new.version = s.version
    BY <1>2, <2>1 DEF Passes
  <2>3. \/ Progress(p, None)
        \/ Stored(e) /\ Progress(p, new)
    BY Zenon, <1>3 DEF ReprocessRead
  <2> HIDE DEF new
  <2>4. Stored(e) => Learned(p, new)
    BY <1>1, <2>2 DEF Learned
  <2>5. Learned(p, None)
    BY DEF Learned
  <2>6. CASE Progress(p, None)
    BY Zenon, <2>5, <2>6, GroupingAssumption
  <2>7. CASE Stored(e) /\ Progress(p, new)
    <3>1. new \in Passes \cup {None} /\ new.step \in {"read", "versioned", "resolved"}
      BY <2>2
    <3>2. QED
      BY Zenon, <2>4, <2>7, <3>1
  <2>8. QED
    BY <2>3, <2>6, <2>7
<1>4. CASE ReprocessVersion(p)
  <2> DEFINE v == version[Release[e]]
             new == [s EXCEPT !.step = "versioned", !.version = v]
  <2>1. v \in Nat
    <3>1. Release[e] \in Releases
      BY <1>2, GroupingAssumption
    <3>2. version \in [Releases -> 0..MaxVersion]
      BY DEF GroupInv, GroupingTypeOK
    <3>3. v \in 0..MaxVersion
      BY <3>1, <3>2
    <3>4. QED
      BY <3>3
  <2>2. Progress(p, new)
    BY Zenon, <1>4 DEF ReprocessVersion
  <2> HIDE DEF v
  <2>3. /\ new \in Passes /\ new.step = "versioned" /\ new.event = e /\ new.from = s.from
        /\ new.seen = s.seen /\ new.version = v
    BY <1>2, <2>1 DEF Passes
  <2> HIDE DEF new
  <2>4. Learned(p, new)
    BY <1>1, <1>4, <2>3 DEF Learned, ReprocessVersion, v
  <2>5. new \in Passes \cup {None} /\ new.step \in {"read", "versioned", "resolved"}
    BY <2>3
  <2>6. QED
    BY Zenon, <2>2, <2>4, <2>5
<1>5. CASE ReprocessResolve(p)
  <2> DEFINE restored == Resolved(e, s.version, s.frames)
             new == [s EXCEPT !.step = "resolved", !.frames = restored]
  <2>1. restored \in Fingerprints \cup {NoFrames}
    BY <1>2, ResolvedType DEF GroupInv, GroupingTypeOK
  <2>2. Progress(p, new)
    BY Zenon, <1>5 DEF ReprocessResolve
  <2> HIDE DEF restored
  <2>3. /\ new \in Passes /\ new.step = "resolved" /\ new.event = e /\ new.from = s.from
        /\ new.seen = s.seen /\ new.version = s.version
    BY <1>2, <2>1 DEF Passes
  <2> HIDE DEF new
  <2>4. Learned(p, new)
    BY <1>1, <1>5, <2>3 DEF Learned, ReprocessResolve
  <2>5. new \in Passes \cup {None} /\ new.step \in {"read", "versioned", "resolved"}
    BY <2>3
  <2>6. QED
    BY Zenon, <2>2, <2>4, <2>5
<1>6. QED
  BY <1>3, <1>4, <1>5

LEMMA ReadKeeps ==
    ASSUME GroupInv, NEW p \in Reprocessors,
           ReprocessRead(p) \/ ReprocessVersion(p) \/ ReprocessResolve(p)
    PROVE  GroupInv'
<1>1. pass[p] # None
  BY DEF ReprocessRead, ReprocessVersion, ReprocessResolve
<1>2. PICK s \in Passes \cup {None} :
              /\ Progress(p, s) /\ Learned(p, s)
              /\ s # None => s.step \in {"read", "versioned", "resolved"}
  BY ReadPass
<1>3. Known(p) /\ pass[p].event \in ErrorEvents /\ Spanned(pass[p].event)
  BY <1>1, PassTypes DEF GroupInv
<1>4. s # None => Knows(s)
  BY <1>1, <1>2, <1>3 DEF Known, Knows, Spanned, Learned
<1>5. QED
  BY <1>2, <1>4, ProgressKeeps

LEMMA SelectKeeps ==
    ASSUME GroupInv, NEW p \in Reprocessors, NEW e \in ErrorEvents, ReprocessSelect(p, e)
    PROVE  GroupInv'
<1> DEFINE s == [step |-> "selected", event |-> e, seen |-> 0, from |-> None,
                 frames |-> NoFrames, version |-> 0, status |-> "open"]
<1>1. Progress(p, s) /\ Stored(e)
  BY DEF ReprocessSelect, Outdated
<1>2. s \in Passes
  BY DEF Passes, IssueStatuses
<1>3. inbox[e] = "done"
  BY <1>1 DEF GroupInv, Spanned
<1>4. Knows(s)
  BY <1>3 DEF Knows
<1>5. QED
  BY <1>1, <1>2, <1>4, ProgressKeeps

\* Whoever passes the fence holds an event whose old group is there.
LEMMA FencePass ==
    ASSUME GroupInv, NEW p \in Reprocessors, ReprocessFence(p)
    PROVE  \/ Progress(p, None)
           \/ \E new \in Passes :
                 /\ Progress(p, new) /\ new.step = "fenced"
                 /\ new.event = pass[p].event /\ new.from = pass[p].from
                 /\ new.seen = pass[p].seen /\ new.version = pass[p].version
                 /\ pass[p] # None /\ pass[p].step = "resolved"
                 /\ Stored(new.event) /\ eventVersion[new.event] = new.seen
                 /\ RowFree(new.event)
<1> DEFINE s == pass[p]
           chosen == issue[s.from].status
           new == [s EXCEPT !.step = "fenced", !.status = chosen]
<1>1. s # None /\ s.step = "resolved" /\ RowFree(s.event)
  BY DEF ReprocessFence
<1>2. \/ Progress(p, None)
      \/ /\ Stored(s.event) /\ eventVersion[s.event] = s.seen /\ s.from # None
         /\ Progress(p, new)
  BY Zenon DEF ReprocessFence
<1>3. s \in Passes /\ s.from \in Fingerprints \cup {None} /\ Known(p)
  BY <1>1, PassTypes DEF GroupInv
<1>4. ASSUME s.from # None PROVE chosen \in IssueStatuses
  <2>1. issue[s.from] # None /\ s.from \in Fingerprints
    BY <1>1, <1>3, <1>4 DEF Known, Spans
  <2>2. issue[s.from] \in IssueRows
    BY <2>1 DEF GroupInv, GroupingTypeOK
  <2>3. QED
    BY <2>2 DEF IssueRows
<1> HIDE DEF chosen
<1>5. ASSUME s.from # None
      PROVE  /\ new \in Passes /\ new.step = "fenced" /\ new.event = s.event /\ new.from = s.from
             /\ new.seen = s.seen /\ new.version = s.version
  <2>1. chosen \in IssueStatuses
    BY <1>4, <1>5
  <2>2. QED
    BY <1>3, <2>1 DEF Passes
<1> HIDE DEF new
<1>6. QED
  BY Zenon, <1>1, <1>2, <1>5

LEMMA FenceKeeps ==
    ASSUME GroupInv, NEW p \in Reprocessors, ReprocessFence(p) \/ ReprocessAbort(p)
    PROVE  GroupInv'
<1>1. CASE Progress(p, None)
  BY <1>1, ProgressKeeps
<1>2. ASSUME NEW new \in Passes,
             Progress(p, new), pass[p] # None,
             new.event = pass[p].event, new.from = pass[p].from,
             Stored(new.event), eventVersion[new.event] = new.seen, RowFree(new.event)
      PROVE  GroupInv'
  <2>1. Known(p)
    BY DEF GroupInv
  <2>2. Knows(new)
    BY <1>2, <2>1 DEF Knows, Known
  <2>3. QED
    BY <1>2, <2>2, ProgressKeeps
<1>3. CASE ReprocessAbort(p)
  BY <1>1, <1>3 DEF ReprocessAbort
<1>4. CASE ReprocessFence(p)
  <2>1. pass[p] # None
    BY <1>4 DEF ReprocessFence
  <2>2. QED
    BY <1>1, <1>2, <1>4, <2>1, FencePass
<1>5. QED
  BY <1>3, <1>4

\* What the commit of a reprocessor finds and what it writes, wherever it puts
\* its event.
LEMMA CommitPass ==
    ASSUME GroupInv, NEW p \in Reprocessors, ReprocessCommit(p)
    PROVE  LET s == pass[p]
               e == s.event
               to == FingerprintOf(e, s.frames)
           IN /\ s # None /\ s.step = "fenced"
              /\ s \in Passes /\ e \in ErrorEvents /\ s.from \in Fingerprints /\ to \in Fingerprints
              /\ s.frames \in Fingerprints \cup {NoFrames} /\ s.status \in IssueStatuses
              /\ s.seen \in Nat /\ s.version \in Nat
              /\ inbox[e] = "done" /\ Stored(e) /\ eventVersion[e] = s.seen
              /\ Spans(s.from, e) /\ issue[s.from] \in IssueRows
              /\ UNCHANGED <<now, at, version, maps, inbox, work, arrivals, purged>>
              /\ eventIssue' = [eventIssue EXCEPT ![e] = to]
              /\ eventVersion' = [eventVersion EXCEPT ![e] = s.version]
              /\ frames' = [frames EXCEPT ![e] = s.frames]
              /\ pass' = [pass EXCEPT ![p] = None]
              /\ repeated' = IF s.version = s.seen THEN repeated \cup {e} ELSE repeated
<1> DEFINE s == pass[p]
           e == s.event
           to == FingerprintOf(e, s.frames)
<1>1. s # None /\ s.step = "fenced" /\ s.from # None
  BY Zenon DEF ReprocessCommit
<1>2. /\ s \in Passes /\ e \in ErrorEvents /\ s.from \in Fingerprints
      /\ s.frames \in Fingerprints \cup {NoFrames} /\ s.status \in IssueStatuses
      /\ s.seen \in Nat /\ s.version \in Nat
  BY <1>1, PassTypes DEF GroupInv
<1>3. to \in Fingerprints
  BY <1>2, FingerprintType
<1>4. inbox[e] = "done" /\ Stored(e) /\ eventVersion[e] = s.seen /\ Spans(s.from, e)
  BY <1>1 DEF GroupInv, Known
<1>5. issue[s.from] \in IssueRows
  BY <1>2, <1>4 DEF GroupInv, GroupingTypeOK, Spans
<1>6. /\ UNCHANGED <<now, at, version, maps, inbox, work, arrivals, purged>>
      /\ eventIssue' = [eventIssue EXCEPT ![e] = to]
      /\ eventVersion' = [eventVersion EXCEPT ![e] = s.version]
      /\ frames' = [frames EXCEPT ![e] = s.frames]
      /\ pass' = [pass EXCEPT ![p] = None]
      /\ repeated' = IF s.version = s.seen THEN repeated \cup {e} ELSE repeated
  BY Zenon DEF ReprocessCommit, Untouched
<1>7. QED
  BY <1>1, <1>2, <1>3, <1>4, <1>5, <1>6

\* The pass ends, and the others go on with what they know.
LEMMA CommitOthers ==
    ASSUME GroupInv, NEW p \in Reprocessors, pass[p] # None, pass[p].step = "fenced",
           pass' = [pass EXCEPT ![p] = None],
           NEW e \in ErrorEvents, e = pass[p].event, NEW v, NEW to, to # None,
           eventVersion' = [eventVersion EXCEPT ![e] = v],
           eventIssue' = [eventIssue EXCEPT ![e] = to],
           \A f \in Fingerprints : issue[f] # None => issue'[f] # None
    PROVE  (\A q \in Reprocessors : pass'[q] = None \/ Kept(q)) /\ FencedAlone'
<1>1. pass'[p] = None /\ \A q \in Reprocessors \ {p} : pass'[q] = pass[q]
  BY DEF GroupInv, GroupingTypeOK
<1>2. ASSUME NEW q \in Reprocessors, q # p, pass[q] # None PROVE Kept(q)
  <2>1. pass'[q] = pass[q] /\ Known(q) /\ pass[q].event \in ErrorEvents
        /\ pass[q].from \in Fingerprints \cup {None}
    BY <1>1, <1>2, PassTypes DEF GroupInv
  <2>2. pass[q].from # None => issue'[pass[q].from] # None
    BY <1>2, <2>1 DEF Known, Spans
  <2>3. ASSUME pass[q].step = "fenced"
        PROVE  /\ eventIssue'[pass[q].event] # None
               /\ eventVersion'[pass[q].event] = eventVersion[pass[q].event]
    <3>1. pass[q].event # e
      BY <1>2, <2>3 DEF GroupInv, FencedAlone
    <3>2. /\ eventIssue'[pass[q].event] = eventIssue[pass[q].event]
          /\ eventVersion'[pass[q].event] = eventVersion[pass[q].event]
      BY <2>1, <3>1 DEF GroupInv, GroupingTypeOK
    <3>3. QED
      BY <1>2, <2>1, <2>3, <3>2 DEF Known, Stored
  <2>4. QED
    BY <1>2, <2>1, <2>2, <2>3 DEF Kept
<1>3. FencedAlone'
  BY <1>1 DEF GroupInv, FencedAlone
<1>4. QED
  BY <1>1, <1>2, <1>3

\* An event is put into a group whose row spans it; nobody else's group changes
\* but by its count.
LEMMA EventPlaced ==
    ASSUME GroupInv, GroupingTypeOK', NEW p \in Reprocessors, pass[p] # None, pass[p].step = "fenced",
           pass' = [pass EXCEPT ![p] = None], UNCHANGED <<at, inbox>>,
           NEW e \in ErrorEvents, e = pass[p].event, NEW v, NEW to \in Fingerprints,
           eventVersion' = [eventVersion EXCEPT ![e] = v],
           eventIssue' = [eventIssue EXCEPT ![e] = to],
           issue'[to] # None, issue'[to].first <= at[e], at[e] <= issue'[to].last,
           \A f \in Fingerprints : Wide(f) /\ (issue[f] # None => issue'[f] # None)
    PROVE  GroupInv'
<1>1. eventIssue'[e] = to /\ \A d \in ErrorEvents \ {e} : eventIssue'[d] = eventIssue[d]
  BY DEF GroupInv, GroupingTypeOK
<1>2. to # None
  BY GroupingAssumption
<1>3. (\A q \in Reprocessors : pass'[q] = None \/ Kept(q)) /\ FencedAlone'
  BY Zenon, <1>2, CommitOthers
<1>4. inbox[e] = "done"
  BY DEF GroupInv, Known
<1>5. ASSUME NEW d \in ErrorEvents, eventIssue'[d] # None
      PROVE  \/ eventIssue'[d] = eventIssue[d] /\ issue'[eventIssue[d]] # None
             \/ inbox'[d] = "done" /\ Spans(eventIssue[d], d)'
  <2>1. CASE d = e
    BY <1>1, <1>4, <2>1 DEF Spans
  <2>2. CASE d # e
    <3>1. eventIssue'[d] = eventIssue[d]
      BY <1>1, <2>2
    <3>2. eventIssue[d] \in Fingerprints /\ issue[eventIssue[d]] # None
      BY <1>5, <3>1 DEF GroupInv, GroupingTypeOK, Spanned, Stored, Spans
    <3>3. QED
      BY <3>1, <3>2
  <2>3. QED
    BY <2>1, <2>2
<1>6. Standing
  BY DEF Standing
<1>7. \A f \in Fingerprints : Wide(f)
  OBVIOUS
<1>8. QED
  BY <1>3, <1>5, <1>6, <1>7, GroupKeeps

LEMMA CommitInPlace ==
    ASSUME GroupInv, NEW p \in Reprocessors, ReprocessCommit(p),
           FingerprintOf(pass[p].event, pass[p].frames) = pass[p].from
    PROVE  GroupInv'
<1> DEFINE s == pass[p]
           e == s.event
           to == FingerprintOf(e, s.frames)
<1>1. /\ s # None /\ s.step = "fenced"
      /\ e \in ErrorEvents /\ to \in Fingerprints
      /\ s.frames \in Fingerprints \cup {NoFrames} /\ s.version \in Nat
      /\ Spans(to, e)
      /\ UNCHANGED <<now, at, version, maps, inbox, work, arrivals, purged>>
      /\ eventIssue' = [eventIssue EXCEPT ![e] = to]
      /\ eventVersion' = [eventVersion EXCEPT ![e] = s.version]
      /\ frames' = [frames EXCEPT ![e] = s.frames]
      /\ pass' = [pass EXCEPT ![p] = None]
      /\ repeated' = IF s.version = s.seen THEN repeated \cup {e} ELSE repeated
  BY CommitPass
<1>2. UNCHANGED <<issue, history, activities, page>>
  BY DEF ReprocessCommit
<1> HIDE DEF s, e, to
<1>3. GroupingTypeOK'
  BY <1>1, <1>2 DEF GroupInv, GroupingTypeOK
<1>4. ASSUME NEW f \in Fingerprints PROVE Wide(f) /\ (issue[f] # None => issue'[f] # None)
  <2>1. CASE issue[f] = None
    BY <2>1 DEF Wide
  <2>2. CASE issue[f] # None
    <3>1. issue[f] \in IssueRows
      BY <2>2 DEF GroupInv, GroupingTypeOK
    <3>2. QED
      BY <1>2, <2>2, <3>1 DEF Wide, IssueRows
  <2>3. QED
    BY <2>1, <2>2
<1>5. issue'[to] # None /\ issue'[to].first <= at[e] /\ at[e] <= issue'[to].last
  BY <1>1, <1>2 DEF Spans
<1>6. e = pass[p].event /\ s = pass[p]
  BY DEF e, s
<1>7. QED
  BY Zenon, <1>1, <1>3, <1>4, <1>5, <1>6, EventPlaced

\* What a move makes of the two rows.
Moves(from, to, e, row, less) ==
    /\ issue' = [issue EXCEPT ![to] = row, ![from] = less]
    /\ issue'[to] = row /\ issue'[from] = less
    /\ \A f \in Fingerprints \ {from, to} : issue'[f] = issue[f]
    /\ row # None /\ less # None
    /\ less.count = issue[from].count - 1
    /\ less.first = issue[from].first /\ less.last = issue[from].last
    /\ less.status = issue[from].status /\ less.regression = issue[from].regression
    /\ row.first <= at[e] /\ at[e] <= row.last
    /\ issue[to] = None => row.count = 1
    /\ issue[to] # None =>
          /\ row.count = issue[to].count + 1
          /\ row.first <= issue[to].first /\ row.last >= issue[to].last
          /\ row.status = issue[to].status /\ row.regression = issue[to].regression

LEMMA MoveRows ==
    ASSUME GroupInv, NEW p \in Reprocessors, ReprocessCommit(p),
           NEW e, e = pass[p].event, NEW from, from = pass[p].from,
           NEW to, to = FingerprintOf(e, pass[p].frames), to # from
    PROVE  /\ issue[from] \in IssueRows
           /\ \E row \in IssueRows, less \in IssueRows : Moves(from, to, e, row, less)
<1>1. /\ e \in ErrorEvents /\ from \in Fingerprints /\ to \in Fingerprints
      /\ pass[p].status \in IssueStatuses
      /\ issue[from] \in IssueRows /\ issue[from] # None /\ GroupingTypeOK
  BY CommitPass DEF Spans, GroupInv
<1> DEFINE row == IF issue[to] = None THEN NewIssue(e, pass[p].status)
                  ELSE CountEvent(issue[to], e, issue[to].status)
           less == [issue[from] EXCEPT !.count = @ - 1]
<1>2. /\ row \in IssueRows /\ less \in IssueRows
      /\ issue' = [issue EXCEPT ![to] = row, ![from] = less]
  BY <1>1, MoveTypes DEF GroupInv
<1>3. /\ less.count = issue[from].count - 1
      /\ less.first = issue[from].first /\ less.last = issue[from].last
      /\ less.status = issue[from].status /\ less.regression = issue[from].regression
  BY <1>1 DEF IssueRows
<1> HIDE DEF less
<1>4. CASE issue[to] = None
  <2>1. row = NewIssue(e, pass[p].status)
    BY <1>4
  <2>2. row.first = at[e] /\ row.last = at[e] /\ row.count = 1 /\ at[e] \in Nat
    BY <1>1, <2>1, AtType DEF NewIssue, GroupInv
  <2> HIDE DEF row
  <2>3. /\ issue'[to] = row /\ issue'[from] = less
        /\ \A f \in Fingerprints \ {from, to} : issue'[f] = issue[f]
        /\ row # None /\ less # None
    BY <1>1, <1>2, GroupingAssumption DEF GroupInv, GroupingTypeOK
  <2>4. Moves(from, to, e, row, less)
    <3>1. row.first <= at[e] /\ at[e] <= row.last /\ row.count = 1
      BY <2>2
    <3>2. QED
      BY Zenon, <1>2, <1>3, <1>4, <2>3, <3>1 DEF Moves
  <2>5. row \in IssueRows /\ less \in IssueRows
    BY <1>2
  <2>6. QED
    BY Zenon, <1>1, <2>4, <2>5
<1>5. CASE issue[to] # None
  <2> DEFINE chosen == issue[to].status
  <2>1. issue[to] \in IssueRows
    BY <1>1, <1>5 DEF GroupInv, GroupingTypeOK
  <2>2. chosen \in IssueStatuses /\ issue[to].regression \in BOOLEAN
    BY <2>1 DEF IssueRows
  <2>3. row = IF issue[to] = None THEN NewIssue(e, chosen) ELSE CountEvent(issue[to], e, chosen)
    BY <1>5
  <2> HIDE DEF row, chosen
  <2>4. /\ row.first <= at[e] /\ at[e] <= row.last
        /\ row.count = issue[to].count + 1
        /\ row.first <= issue[to].first /\ row.last >= issue[to].last
        /\ row.status = chosen
        /\ row.regression = (issue[to].regression \/ (issue[to].status = "resolved" /\ chosen = "open"))
    BY <1>1, <1>5, <2>2, <2>3, CountedRow
  <2>5. row.regression = issue[to].regression
    BY <2>2, <2>4 DEF chosen
  <2>6. /\ issue'[to] = row /\ issue'[from] = less
        /\ \A f \in Fingerprints \ {from, to} : issue'[f] = issue[f]
        /\ row # None /\ less # None
    BY <1>1, <1>2, GroupingAssumption DEF GroupInv, GroupingTypeOK
  <2>7. row.status = issue[to].status
    BY <2>4 DEF chosen
  <2>8. Moves(from, to, e, row, less)
    BY <1>1, <1>2, <1>3, <1>5, <2>4, <2>5, <2>6, <2>7 DEF Moves
  <2>9. row \in IssueRows /\ less \in IssueRows
    BY <1>2
  <2> HIDE DEF less
  <2>10. QED
    BY Zenon, <1>1, <2>8, <2>9
<1>6. QED
  BY <1>4, <1>5

LEMMA CommitMove ==
    ASSUME GroupInv, NEW p \in Reprocessors, ReprocessCommit(p),
           FingerprintOf(pass[p].event, pass[p].frames) # pass[p].from
    PROVE  GroupInv'
<1> DEFINE s == pass[p]
           e == s.event
           from == s.from
           to == FingerprintOf(e, s.frames)
<1>1. /\ s # None /\ s.step = "fenced"
      /\ e \in ErrorEvents /\ from \in Fingerprints /\ to \in Fingerprints
      /\ s.frames \in Fingerprints \cup {NoFrames} /\ s.version \in Nat
      /\ issue[from] \in IssueRows /\ issue[from] # None
      /\ UNCHANGED <<now, at, version, maps, inbox, work, arrivals, purged>>
      /\ eventIssue' = [eventIssue EXCEPT ![e] = to]
      /\ eventVersion' = [eventVersion EXCEPT ![e] = s.version]
      /\ frames' = [frames EXCEPT ![e] = s.frames]
      /\ pass' = [pass EXCEPT ![p] = None]
      /\ repeated' = IF s.version = s.seen THEN repeated \cup {e} ELSE repeated
  BY CommitPass DEF Spans
<1>2. /\ history' \in Histories
      /\ activities' = activities \cup {[from |-> from, to |-> to, event |-> e, at |-> now]}
  BY <1>1, MoveTypes DEF GroupInv
<1>3. page' = page \/ (page # None /\ page' = [page EXCEPT !.lowered = TRUE])
  BY Zenon DEF ReprocessCommit
<1>0. s = pass[p] /\ e = pass[p].event /\ from = pass[p].from /\ to # from
      /\ to = FingerprintOf(e, pass[p].frames)
  OBVIOUS
<1> HIDE DEF s, e, from, to
<1>4. PICK row \in IssueRows, less \in IssueRows : Moves(from, to, e, row, less)
  BY <1>0, MoveRows
<1>5. GroupingTypeOK'
  <2>1. issue' \in [Fingerprints -> IssueRows \cup {None}]
    BY <1>1, <1>4 DEF GroupInv, GroupingTypeOK, Moves
  <2>2. activities' \subseteq
          [from : Fingerprints, to : Fingerprints, event : ErrorEvents, at : 0..MaxNow]
    BY <1>1, <1>2 DEF GroupInv, GroupingTypeOK
  <2>3. /\ eventIssue' \in [ErrorEvents -> Fingerprints \cup {None}]
        /\ eventVersion' \in [ErrorEvents -> Nat]
        /\ frames' \in [ErrorEvents -> Fingerprints \cup {NoFrames}]
        /\ pass' \in [Reprocessors -> Passes \cup {None}]
        /\ repeated' \subseteq ErrorEvents
    BY <1>1 DEF GroupInv, GroupingTypeOK
  <2>4. page' # None => page' \in [issue : Fingerprints, count : Int, arrivals : Nat,
                                 lowered : BOOLEAN]
    BY <1>3 DEF GroupInv, GroupingTypeOK
  <2>5. QED
    BY Zenon, <1>1, <1>2, <2>1, <2>2, <2>3, <2>4 DEF GroupInv, GroupingTypeOK, Histories
<1>6. ASSUME NEW f \in Fingerprints PROVE Wide(f) /\ (issue[f] # None => issue'[f] # None)
  <2>1. CASE issue[f] = None
    BY <2>1 DEF Wide
  <2>2. CASE issue[f] # None
    <3>1. issue[f].first \in Nat /\ issue[f].last \in Nat
      <4>1. issue[f] \in IssueRows
        BY <2>2 DEF GroupInv, GroupingTypeOK
      <4>2. QED
        BY <4>1 DEF IssueRows
    <3>2. CASE f = to
      BY <1>4, <2>2, <3>2 DEF Wide, Moves
    <3>3. CASE f = from
      <4>1. issue'[f] = less /\ less.first = issue[f].first /\ less.last = issue[f].last /\ less # None
        BY <1>4, <3>3 DEF Moves
      <4>2. QED
        BY <3>1, <4>1 DEF Wide
    <3>4. CASE f \notin {from, to}
      <4>1. issue'[f] = issue[f]
        BY <1>4, <3>4 DEF Moves
      <4>2. QED
        BY <2>2, <3>1, <4>1 DEF Wide
    <3>5. QED
      BY <3>2, <3>3, <3>4
  <2>3. QED
    BY <2>1, <2>2
<1>7. issue'[to] # None /\ issue'[to].first <= at[e] /\ at[e] <= issue'[to].last
  BY <1>4 DEF Moves
<1>8. UNCHANGED <<at, inbox>>
  BY <1>1
<1>9. QED
  BY Zenon, <1>0, <1>1, <1>5, <1>6, <1>7, <1>8, EventPlaced

-----------------------------------------------------------------------------
(* Users, source maps, time and retention.                                 *)

\* Steps that write neither a group nor an event nor a pass.
Others ==
    \/ \E r \in Releases : RemoveMaps(r) \/ (\E m \in MapStates : PublishMaps(r, m))
    \/ \E f \in Fingerprints : OpenPage(f)
    \/ Tick
    \/ \E a \in activities : RetainActivity(a)
    \/ \E f \in Fingerprints, v \in Envs : RetainHistory(f, v)

LEMMA QuietOthers ==
    ASSUME GroupInv, Others
    PROVE  GroupInv'
<1>1. UNCHANGED <<issue, inbox, at, eventIssue, eventVersion, pass>>
  BY DEF Others, RemoveMaps, PublishMaps, OpenPage, Tick, RetainActivity, RetainHistory, Untouched,
         events
<1>2. ASSUME NEW r \in Releases, RemoveMaps(r) PROVE GroupingTypeOK'
  BY <1>2, GroupingAssumption DEF GroupInv, GroupingTypeOK, RemoveMaps, events, tallies
<1>3. ASSUME NEW r \in Releases, NEW m \in MapStates, PublishMaps(r, m) PROVE GroupingTypeOK'
  BY <1>3, GroupingAssumption DEF GroupInv, GroupingTypeOK, PublishMaps, events, tallies
<1>4. ASSUME NEW f \in Fingerprints, OpenPage(f) PROVE GroupingTypeOK'
  <2>1. issue[f] \in IssueRows /\ arrivals[f] \in Nat
    BY <1>4 DEF OpenPage, GroupInv, GroupingTypeOK
  <2>2. page' \in [issue : Fingerprints, count : Int, arrivals : Nat, lowered : BOOLEAN]
    BY <1>4, <2>1 DEF OpenPage, IssueRows
  <2>3. QED
    BY <1>4, <2>2 DEF OpenPage, GroupInv, GroupingTypeOK, Untouched, events, tallies
<1>5. ASSUME Tick PROVE GroupingTypeOK'
  BY <1>5, GroupingAssumption DEF GroupInv, GroupingTypeOK, Tick, events, tallies
<1>6. ASSUME NEW a \in activities, RetainActivity(a) PROVE GroupingTypeOK'
  BY <1>6 DEF GroupInv, GroupingTypeOK, RetainActivity, Untouched, events, tallies
<1>7. ASSUME NEW f \in Fingerprints, NEW v \in Envs, RetainHistory(f, v) PROVE GroupingTypeOK'
  <2>1. history' = [history EXCEPT ![f] = [history[f] EXCEPT ![v] = None]]
    BY <1>7 DEF RetainHistory, GroupInv, GroupingTypeOK
  <2>2. [history[f] EXCEPT ![v] = None] \in [Envs -> HistoryRows \cup {None}]
    BY DEF GroupInv, GroupingTypeOK
  <2>3. history' \in [Fingerprints -> [Envs -> HistoryRows \cup {None}]]
    BY <2>1, <2>2 DEF GroupInv, GroupingTypeOK
  <2>4. QED
    BY <1>7, <2>3 DEF GroupInv, GroupingTypeOK, RetainHistory, Untouched, events, tallies
<1>8. GroupingTypeOK'
  BY <1>2, <1>3, <1>4, <1>5, <1>6, <1>7 DEF Others
<1>9. Standing
  BY <1>1 DEF Standing
<1>10. QED
  BY <1>1, <1>8, <1>9, QuietStep

\* A page shows a group that exists.
PageShown == page # None => issue[page.issue] # None

LEMMA StatusRow ==
    ASSUME GroupInv, PageShown, NEW chosen \in IssueStatuses, ChangeStatus(chosen)
    PROVE  \E f \in Fingerprints, row \in IssueRows :
              /\ f = page.issue /\ issue[f] \in IssueRows
              /\ issue' = [issue EXCEPT ![f] = row]
              /\ row.count = issue[f].count
              /\ row.first = issue[f].first /\ row.last = issue[f].last
<1> DEFINE f == page.issue
           row == [issue[f] EXCEPT !.status = chosen, !.regression = FALSE]
<1>1. /\ page # None
      /\ issue' = [issue EXCEPT ![f].status = chosen, ![f].regression = FALSE]
  BY DEF ChangeStatus
<1>2. f \in Fingerprints /\ issue[f] # None
  BY <1>1 DEF GroupInv, GroupingTypeOK, PageShown
<1>3. issue[f] \in IssueRows
  BY <1>2 DEF GroupInv, GroupingTypeOK
<1>4. /\ row \in IssueRows
      /\ row.count = issue[f].count /\ row.first = issue[f].first /\ row.last = issue[f].last
  BY Zenon, <1>3 DEF IssueRows
<1>5. issue' = [issue EXCEPT ![f] = row]
  BY Zenon, <1>1, <1>2 DEF GroupInv, GroupingTypeOK
<1> HIDE DEF row, f
<1>6. QED
  BY Zenon, <1>2, <1>3, <1>4, <1>5 DEF f

LEMMA StatusKeeps ==
    ASSUME GroupInv, PageShown, NEW chosen \in IssueStatuses, ChangeStatus(chosen)
    PROVE  GroupInv'
<1>1. /\ page' = None
      /\ UNCHANGED <<Untouched, inbox, work, events, history, activities, pass, tallies>>
  BY DEF ChangeStatus
<1>2. PICK f \in Fingerprints, row \in IssueRows :
        /\ f = page.issue /\ issue[f] \in IssueRows
        /\ issue' = [issue EXCEPT ![f] = row]
        /\ row.count = issue[f].count
        /\ row.first = issue[f].first /\ row.last = issue[f].last
  BY StatusRow
<1>3. issue \in [Fingerprints -> IssueRows \cup {None}]
  BY DEF GroupInv, GroupingTypeOK
<1>4. issue'[f] = row /\ \A g \in Fingerprints \ {f} : issue'[g] = issue[g]
  BY <1>2, <1>3
<1>5. row # None /\ issue[f] # None
  BY <1>2, GroupingAssumption
<1>6. ASSUME NEW g \in Fingerprints PROVE Wide(g) /\ (issue[g] # None => issue'[g] # None)
  <2>1. CASE issue[g] = None
    BY <2>1 DEF Wide
  <2>2. CASE issue[g] # None
    <3>1. issue[g] \in IssueRows
      BY <1>3, <2>2
    <3>2. issue[g].first \in Nat /\ issue[g].last \in Nat
      BY <3>1 DEF IssueRows
    <3>3. QED
      BY <1>2, <1>4, <1>5, <2>2, <3>2 DEF Wide
  <2>3. QED
    BY <2>1, <2>2
<1>7. GroupingTypeOK'
  BY <1>1, <1>2, <1>3 DEF GroupInv, GroupingTypeOK, Untouched, events, tallies
<1>8. UNCHANGED <<eventIssue, eventVersion, pass, inbox, at>>
  BY <1>1 DEF Untouched, events
<1>9. Standing
  BY <1>8 DEF Standing
<1>10. ASSUME NEW e \in ErrorEvents, eventIssue'[e] # None
       PROVE  eventIssue'[e] = eventIssue[e] /\ issue'[eventIssue[e]] # None
  <2>1. eventIssue[e] \in Fingerprints /\ issue[eventIssue[e]] # None /\ eventIssue'[e] = eventIssue[e]
    BY <1>8, <1>10 DEF GroupInv, GroupingTypeOK, Spanned, Stored, Spans
  <2>2. QED
    BY <1>6, <2>1
<1>11. ASSUME NEW p \in Reprocessors, pass[p] # None PROVE Kept(p)
  <2>1. Known(p) /\ pass[p].from \in Fingerprints \cup {None}
    BY <1>11, PassTypes DEF GroupInv
  <2>2. pass[p].from # None => issue'[pass[p].from] # None
    BY <1>6, <1>11, <2>1 DEF Known, Spans
  <2>3. QED
    BY <1>8, <1>11, <2>1, <2>2 DEF Kept, Known, Stored
<1>12. FencedAlone'
  BY <1>8 DEF GroupInv, FencedAlone
<1>13. \A p \in Reprocessors : pass'[p] = None \/ Kept(p) \/ Known(p)'
  BY <1>8, <1>11
<1>14. QED
  BY <1>6, <1>7, <1>9, <1>10, <1>12, <1>13, GroupKeeps

LEMMA RetainErrorEventKeeps ==
    ASSUME GroupInv, NEW e \in ErrorEvents, RetainErrorEvent(e)
    PROVE  GroupInv'
<1> DEFINE f == eventIssue[e]
<1>1. /\ Stored(e) /\ RowFree(e)
      /\ eventIssue' = [eventIssue EXCEPT ![e] = None]
      /\ eventVersion' = [eventVersion EXCEPT ![e] = 0]
      /\ frames' = [frames EXCEPT ![e] = NoFrames]
      /\ purged' = [purged EXCEPT ![f] = @ + 1]
      /\ UNCHANGED <<now, at, version, maps, inbox, work, issue, history, activities, pass, page,
                     arrivals, repeated>>
  BY DEF RetainErrorEvent, Untouched
<1>2. f \in Fingerprints
  BY <1>1 DEF GroupInv, GroupingTypeOK, Stored
<1> HIDE DEF f
<1>3. GroupingTypeOK'
  <2>1. /\ eventIssue' \in [ErrorEvents -> Fingerprints \cup {None}]
        /\ eventVersion' \in [ErrorEvents -> Nat]
        /\ frames' \in [ErrorEvents -> Fingerprints \cup {NoFrames}]
    BY <1>1 DEF GroupInv, GroupingTypeOK
  <2>2. purged' \in [Fingerprints -> Nat]
    BY <1>1, <1>2 DEF GroupInv, GroupingTypeOK
  <2>3. QED
    BY <1>1, <2>1, <2>2 DEF GroupInv, GroupingTypeOK
<1>4. ASSUME NEW g \in Fingerprints PROVE Wide(g)
  <2>1. CASE issue[g] = None
    BY <2>1 DEF Wide
  <2>2. CASE issue[g] # None
    <3>1. issue[g] \in IssueRows
      BY <2>2 DEF GroupInv, GroupingTypeOK
    <3>2. QED
      BY <1>1, <3>1 DEF Wide, IssueRows
  <2>3. QED
    BY <2>1, <2>2
<1>5. Standing
  BY <1>1 DEF Standing
<1>6. ASSUME NEW d \in ErrorEvents, eventIssue'[d] # None
      PROVE  eventIssue'[d] = eventIssue[d] /\ issue'[eventIssue[d]] # None
  <2>1. d # e /\ eventIssue'[d] = eventIssue[d]
    BY <1>1, <1>6 DEF GroupInv, GroupingTypeOK
  <2>2. QED
    BY <1>1, <1>6, <2>1 DEF GroupInv, Spanned, Stored, Spans
<1>7. ASSUME NEW p \in Reprocessors, pass[p] # None PROVE Kept(p)
  <2>1. Known(p) /\ pass[p].event \in ErrorEvents
    BY <1>7, PassTypes DEF GroupInv
  <2>2. pass[p].from # None => issue'[pass[p].from] # None
    BY <1>1, <1>7, <2>1 DEF Known, Spans
  <2>3. ASSUME pass[p].step = "fenced"
        PROVE  /\ eventIssue'[pass[p].event] = eventIssue[pass[p].event]
               /\ eventVersion'[pass[p].event] = eventVersion[pass[p].event]
    <3>1. pass[p].event # e
      BY <1>1, <1>7, <2>3 DEF RowFree
    <3>2. QED
      BY <1>1, <2>1, <3>1 DEF GroupInv, GroupingTypeOK
  <2>4. QED
    BY <1>1, <1>7, <2>1, <2>2, <2>3 DEF Kept, Known, Stored
<1>8. FencedAlone'
  BY <1>1 DEF GroupInv, FencedAlone
<1>9. \A p \in Reprocessors : pass'[p] = None \/ Kept(p) \/ Known(p)'
  BY <1>1, <1>7
<1>10. QED
  BY <1>3, <1>4, <1>5, <1>6, <1>8, <1>9, GroupKeeps

\* Its passes forget a group that goes.
LEMMA ForgottenPass ==
    ASSUME GroupingTypeOK, NEW f \in Fingerprints, RetainIssue(f), NEW p \in Reprocessors,
           pass[p] # None
    PROVE  /\ pass'[p] \in Passes
           /\ pass'[p].event = pass[p].event /\ pass'[p].step = pass[p].step
           /\ pass'[p].seen = pass[p].seen /\ pass'[p].version = pass[p].version
           /\ pass'[p].from = IF pass[p].from = f THEN None ELSE pass[p].from
<1> DEFINE s == pass[p]
           cut == [s EXCEPT !.from = None]
<1>1. s \in Passes
  BY DEF GroupingTypeOK
<1>2. pass'[p] = IF s.from = f THEN cut ELSE s
  BY DEF RetainIssue
<1>3. /\ cut \in Passes /\ cut.event = s.event /\ cut.step = s.step /\ cut.seen = s.seen
      /\ cut.version = s.version /\ cut.from = None
  BY <1>1 DEF Passes
<1> HIDE DEF cut
<1>4. QED
  BY <1>1, <1>2, <1>3

LEMMA RetainIssueKeeps ==
    ASSUME GroupInv, NEW f \in Fingerprints, RetainIssue(f)
    PROVE  GroupInv'
<1>1. /\ issue[f] # None /\ EventsOf(f) = {}
      /\ issue' = [issue EXCEPT ![f] = None]
      /\ activities' \subseteq activities
      /\ page' = page \/ page' = None
      /\ arrivals' = [arrivals EXCEPT ![f] = 0]
      /\ purged' = [purged EXCEPT ![f] = 0]
      /\ UNCHANGED <<now, at, version, maps, inbox, work, eventIssue, eventVersion, frames, repeated>>
  BY DEF RetainIssue, Untouched, events
<1>2. history' \in [Fingerprints -> [Envs -> HistoryRows \cup {None}]]
  <2> DEFINE cell(g, v) == IF history[g][v] # None /\ history[g][v].issue = f
                           THEN [history[g][v] EXCEPT !.issue = None]
                           ELSE history[g][v]
  <2>1. ASSUME NEW g \in Fingerprints, NEW v \in Envs PROVE cell(g, v) \in HistoryRows \cup {None}
    <3>1. history[g][v] \in HistoryRows \cup {None}
      BY DEF GroupInv, GroupingTypeOK
    <3>2. ASSUME NEW row \in HistoryRows PROVE [row EXCEPT !.issue = None] \in HistoryRows
      BY DEF HistoryRows
    <3>3. QED
      BY <3>1, <3>2
  <2>2. history' = [g \in Fingerprints |-> [v \in Envs |-> cell(g, v)]]
    BY DEF RetainIssue
  <2> HIDE DEF cell
  <2>3. QED
    BY <2>1, <2>2
<1>3. /\ pass' \in [Reprocessors -> Passes \cup {None}]
      /\ \A p \in Reprocessors : pass[p] = None => pass'[p] = None
  <2>1. /\ DOMAIN pass' = Reprocessors /\ pass' = [p \in Reprocessors |-> pass'[p]]
        /\ \A p \in Reprocessors : pass[p] = None => pass'[p] = None
    BY DEF RetainIssue
  <2>2. \A p \in Reprocessors : pass'[p] \in Passes \cup {None}
    BY <2>1, ForgottenPass DEF GroupInv
  <2>3. QED
    BY <2>1, <2>2
<1>4. GroupingTypeOK'
  <2>1. issue' \in [Fingerprints -> IssueRows \cup {None}]
    BY <1>1 DEF GroupInv, GroupingTypeOK
  <2>2. /\ activities' \subseteq [from : Fingerprints, to : Fingerprints, event : ErrorEvents, at : 0..MaxNow]
        /\ page' # None => page' \in [issue : Fingerprints, count : Int, arrivals : Nat,
                                      lowered : BOOLEAN]
        /\ arrivals' \in [Fingerprints -> Nat]
        /\ purged' \in [Fingerprints -> Nat]
    BY <1>1 DEF GroupInv, GroupingTypeOK
  <2>3. QED
    BY <1>1, <1>2, <1>3, <2>1, <2>2 DEF GroupInv, GroupingTypeOK
<1>5. issue'[f] = None /\ \A g \in Fingerprints \ {f} : issue'[g] = issue[g]
  BY <1>1 DEF GroupInv, GroupingTypeOK
<1>6. ASSUME NEW g \in Fingerprints PROVE Wide(g)
  <2>1. CASE g = f
    BY <1>5, <2>1 DEF Wide
  <2>2. CASE g # f /\ issue[g] # None
    <3>1. issue[g] \in IssueRows /\ issue'[g] = issue[g]
      BY <1>5, <2>2 DEF GroupInv, GroupingTypeOK
    <3>2. QED
      BY <3>1 DEF Wide, IssueRows
  <2>3. QED
    BY <2>1, <2>2 DEF Wide
<1>7. Standing
  BY <1>1 DEF Standing
<1>8. ASSUME NEW d \in ErrorEvents, eventIssue'[d] # None
      PROVE  eventIssue'[d] = eventIssue[d] /\ issue'[eventIssue[d]] # None
  <2>1. /\ eventIssue'[d] = eventIssue[d] /\ eventIssue[d] # f
        /\ eventIssue[d] \in Fingerprints /\ issue[eventIssue[d]] # None
    BY <1>1, <1>8 DEF GroupInv, GroupingTypeOK, Spanned, Stored, Spans, EventsOf
  <2>2. QED
    BY <1>5, <2>1
<1>9. ASSUME NEW p \in Reprocessors, pass[p] # None PROVE Kept(p)
  <2>1. /\ pass'[p].event = pass[p].event /\ pass'[p].step = pass[p].step
        /\ pass'[p].seen = pass[p].seen
        /\ pass'[p].from = IF pass[p].from = f THEN None ELSE pass[p].from
    BY <1>9, ForgottenPass DEF GroupInv
  <2>2. Known(p) /\ pass[p].from \in Fingerprints \cup {None}
    BY <1>9, PassTypes DEF GroupInv
  <2>3. ASSUME pass'[p].from # None PROVE pass'[p].from = pass[p].from /\ issue'[pass[p].from] # None
    BY <1>5, <1>9, <2>1, <2>2, <2>3 DEF Known, Spans
  <2>4. QED
    BY <1>1, <1>9, <2>1, <2>2, <2>3 DEF Kept, Known, Stored
<1>10. FencedAlone'
  <2> SUFFICES ASSUME NEW p \in Reprocessors, NEW q \in Reprocessors,
                      pass'[p] # None, pass'[p].step = "fenced",
                      pass'[q] # None, pass'[q].step = "fenced",
                      pass'[p].event = pass'[q].event
               PROVE  p = q
    BY DEF FencedAlone
  <2>1. pass[p] # None /\ pass[q] # None
    BY <1>3
  <2>2. /\ pass[p].step = "fenced" /\ pass[q].step = "fenced" /\ pass[p].event = pass[q].event
    BY <2>1, ForgottenPass DEF GroupInv
  <2>3. QED
    BY <2>1, <2>2 DEF GroupInv, FencedAlone
<1>11. \A p \in Reprocessors : pass'[p] = None \/ Kept(p) \/ Known(p)'
  BY <1>3, <1>9
<1>12. QED
  BY <1>4, <1>6, <1>7, <1>8, <1>10, <1>11, GroupKeeps

-----------------------------------------------------------------------------
(* Rows of groups and the page: what each writer makes of them.            *)

\* Five kinds of step may change a row of a group.
LEMMA RowWriters ==
    ASSUME GroupingNext
    PROVE  \/ UNCHANGED <<issue, arrivals>> /\ (page' = page \/ \E f \in Fingerprints : OpenPage(f))
           \/ (\E e \in ErrorEvents : CommitJob(e)) /\ page' = page
           \/ (\E p \in Reprocessors : ReprocessCommit(p)) /\ UNCHANGED arrivals
           \/ \E chosen \in IssueStatuses : ChangeStatus(chosen)
           \/ \E f \in Fingerprints : RetainIssue(f)
<1>1. CASE \E e \in ErrorEvents : Job(e)
  <2>1. PICK e \in ErrorEvents : Job(e)
    BY <1>1
  <2>2. CASE CommitJob(e)
    BY <2>2 DEF CommitJob
  <2>3. CASE Waiting(e)
    BY <2>3 DEF Waiting, Receive, VersionJob, ResolveJob, ResolveAgain, DeadLetter, tallies
  <2>4. QED
    BY <2>1, <2>2, <2>3 DEF Job, Waiting
<1>2. CASE \E p \in Reprocessors : Reprocess(p)
  <2>1. PICK p \in Reprocessors : Reprocess(p)
    BY <1>2
  <2>2. CASE ReprocessCommit(p)
    BY Zenon, <2>2 DEF ReprocessCommit
  <2>3. ASSUME NEW s, Progress(p, s)
        PROVE  UNCHANGED <<issue, arrivals, page>>
    BY <2>3 DEF Progress, tallies
  <2>4. ASSUME ReprocessRead(p) \/ ReprocessVersion(p) \/ ReprocessResolve(p) \/ ReprocessFence(p)
               \/ ReprocessAbort(p) \/ \E e \in ErrorEvents : ReprocessSelect(p, e)
        PROVE  \E s : Progress(p, s)
    BY Zenon, <2>4 DEF ReprocessRead, ReprocessVersion, ReprocessResolve, ReprocessFence,
       ReprocessAbort, ReprocessSelect
  <2>5. QED
    BY <2>1, <2>2, <2>3, <2>4 DEF Reprocess
<1>3. CASE \E r \in Releases : RemoveMaps(r) \/ (\E m \in MapStates : PublishMaps(r, m))
  BY <1>3 DEF RemoveMaps, PublishMaps, tallies
<1>4. CASE \E f \in Fingerprints : OpenPage(f)
  BY <1>4 DEF OpenPage, tallies
<1>5. CASE \E chosen \in {"open", "resolved"} : ChangeStatus(chosen)
  BY <1>5 DEF IssueStatuses
<1>6. CASE Tick
  BY <1>6 DEF Tick, tallies
<1>7. CASE RetainBatch
  BY <1>7 DEF RetainBatch, RetainErrorEvent, RetainActivity, RetainHistory, tallies
<1>8. QED
  BY <1>1, <1>2, <1>3, <1>4, <1>5, <1>6, <1>7 DEF GroupingNext

\* A commit of a reprocessor leaves the rows alone or moves one event.
LEMMA Regrouped ==
    ASSUME GroupInv, NEW p \in Reprocessors, ReprocessCommit(p)
    PROVE  \/ UNCHANGED <<issue, page>>
           \/ \E from, to \in Fingerprints : \E e \in ErrorEvents : \E row, less \in IssueRows :
                 /\ from # to /\ issue[from] \in IssueRows
                 /\ Moves(from, to, e, row, less)
                 /\ page' = IF page # None /\ page.issue = from
                            THEN [page EXCEPT !.lowered = TRUE] ELSE page
<1> DEFINE e == pass[p].event
           from == pass[p].from
           to == FingerprintOf(e, pass[p].frames)
<1>1. CASE to = from
  BY Zenon, <1>1 DEF ReprocessCommit
<1>2. CASE to # from
  <2>1. e \in ErrorEvents /\ from \in Fingerprints /\ to \in Fingerprints
    BY CommitPass
  <2>2. page' = IF page # None /\ page.issue = from
                THEN [page EXCEPT !.lowered = TRUE] ELSE page
    BY Zenon, <1>2 DEF ReprocessCommit
  <2>3. /\ issue[from] \in IssueRows
        /\ \E row \in IssueRows, less \in IssueRows : Moves(from, to, e, row, less)
    BY <1>2, MoveRows
  <2> HIDE DEF e, from, to
  <2>4. QED
    BY Zenon, <1>2, <2>1, <2>2, <2>3
<1>3. QED
  BY <1>1, <1>2

\* While no event was moved out of a group, its count grew since its page was
\* opened by at least what arrived.
PageAdds ==
    page # None /\ ~page.lowered =>
        LET f == page.issue
        IN  /\ page.arrivals <= arrivals[f]
            /\ arrivals[f] - page.arrivals <= issue[f].count - page.count

PageInv == PageShown /\ PageAdds

LEMMA PageTypes ==
    ASSUME GroupInv, PageInv, page # None
    PROVE  /\ page.issue \in Fingerprints /\ issue[page.issue] \in IssueRows
           /\ issue[page.issue] # None /\ issue[page.issue].count \in Int
           /\ page.count \in Int /\ page.arrivals \in Nat /\ page.lowered \in BOOLEAN
           /\ arrivals[page.issue] \in Nat
<1>1. /\ page.issue \in Fingerprints
      /\ page.count \in Int /\ page.arrivals \in Nat /\ page.lowered \in BOOLEAN
  BY DEF GroupInv, GroupingTypeOK
<1>2. issue[page.issue] # None
  BY DEF PageInv, PageShown
<1>3. issue[page.issue] \in IssueRows /\ arrivals[page.issue] \in Nat
  BY <1>1, <1>2 DEF GroupInv, GroupingTypeOK
<1>4. QED
  BY <1>1, <1>2, <1>3 DEF IssueRows

LEMMA PageCommit ==
    ASSUME GroupInv, PageInv, NEW e \in ErrorEvents, CommitJob(e), UNCHANGED page
    PROVE  PageInv'
<1>1. PICK g \in Fingerprints, row \in IssueRows :
              /\ row = IF issue[g] = None THEN NewIssue(e, "open") ELSE CountEvent(issue[g], e, "open")
              /\ issue' = [issue EXCEPT ![g] = row]
              /\ arrivals' = [arrivals EXCEPT ![g] = @ + 1]
  BY Zenon, CommitRow DEF GroupInv
<1>2. row # None /\ (issue[g] # None => row.count = issue[g].count + 1)
  BY <1>1, CountedRow DEF IssueStatuses, GroupInv
<1>3. CASE page = None
  BY <1>3 DEF PageInv, PageShown, PageAdds
<1>4. CASE page # None
  <2> DEFINE f == page.issue
  <2>1. /\ f \in Fingerprints /\ issue[f] # None /\ issue[f].count \in Int
        /\ page.count \in Int /\ page.arrivals \in Nat /\ arrivals[f] \in Nat
    BY <1>4, PageTypes
  <2> HIDE DEF f
  <2>2. \/ issue'[f] = issue[f] /\ arrivals'[f] = arrivals[f]
        \/ issue'[f] # None /\ issue'[f].count = issue[f].count + 1 /\ arrivals'[f] = arrivals[f] + 1
    BY <1>1, <1>2, <2>1 DEF GroupInv, GroupingTypeOK
  <2>3. PageShown'
    BY <2>1, <2>2 DEF PageShown, f
  <2>4. ~page.lowered => /\ page.arrivals <= arrivals[f]
                         /\ arrivals[f] - page.arrivals <= issue[f].count - page.count
    BY <1>4 DEF PageInv, PageAdds, f
  <2>5. ~page.lowered => /\ page.arrivals <= arrivals'[f]
                         /\ arrivals'[f] - page.arrivals <= issue'[f].count - page.count
    BY <2>1, <2>2, <2>4
  <2>6. QED
    BY <2>3, <2>5 DEF PageInv, PageAdds, f
<1>5. QED
  BY <1>3, <1>4

LEMMA PageMove ==
    ASSUME GroupInv, PageInv, NEW p \in Reprocessors, ReprocessCommit(p), UNCHANGED arrivals
    PROVE  PageInv'
<1>1. CASE UNCHANGED <<issue, page>>
  BY <1>1 DEF PageInv, PageShown, PageAdds
<1>2. CASE page' = None
  BY <1>2 DEF PageInv, PageShown, PageAdds
<1>3. CASE ~(UNCHANGED <<issue, page>>) /\ page' # None
  <2>1. PICK from, to \in Fingerprints : \E e \in ErrorEvents : \E row, less \in IssueRows :
                 /\ from # to /\ issue[from] \in IssueRows
                 /\ Moves(from, to, e, row, less)
                 /\ page' = IF page # None /\ page.issue = from
                            THEN [page EXCEPT !.lowered = TRUE] ELSE page
    BY Zenon, <1>3, Regrouped
  <2>2. PICK e \in ErrorEvents, row \in IssueRows, less \in IssueRows :
                 /\ from # to
                 /\ Moves(from, to, e, row, less)
                 /\ page' = IF page # None /\ page.issue = from
                            THEN [page EXCEPT !.lowered = TRUE] ELSE page
    BY Zenon, <2>1
  <2>0. page # None
    BY <1>3, <2>2
  <2> DEFINE f == page.issue
  <2>3. /\ f \in Fingerprints /\ issue[f] # None /\ issue[f].count \in Int
        /\ page.count \in Int /\ page.arrivals \in Nat /\ arrivals[f] \in Nat
    BY <2>0, PageTypes
  <2>4. page'.issue = f
    BY <2>0, <2>2 DEF GroupInv, GroupingTypeOK
  <2> HIDE DEF f
  <2>5. issue'[f] # None
    <3>1. CASE f \in {from, to}
      BY <2>2, <3>1 DEF Moves
    <3>2. CASE f \notin {from, to}
      BY <2>2, <2>3, <3>2 DEF Moves
    <3>3. QED
      BY <3>1, <3>2
  <2>6. PageShown'
    BY <2>4, <2>5 DEF PageShown
  <2>7. CASE f = from
    <3>1. page'.lowered
      BY <2>0, <2>2, <2>7 DEF GroupInv, GroupingTypeOK, f
    <3>2. QED
      BY <2>6, <3>1 DEF PageInv, PageAdds
  <2>8. CASE f # from
    <3>1. page' = page
      BY <2>2, <2>8 DEF f
    <3>2. issue'[f].count \in {issue[f].count, issue[f].count + 1}
      BY <2>2, <2>3, <2>8 DEF Moves
    <3>3. ~page.lowered => /\ page.arrivals <= arrivals[f]
                           /\ arrivals[f] - page.arrivals <= issue[f].count - page.count
      BY <2>0 DEF PageInv, PageAdds, f
    <3>4. ~page.lowered => arrivals[f] - page.arrivals <= issue'[f].count - page.count
      BY <2>3, <3>2, <3>3
    <3>5. QED
      BY <2>6, <3>1, <3>3, <3>4 DEF PageInv, PageAdds, f
  <2>9. QED
    BY <2>7, <2>8
<1>4. QED
  BY <1>1, <1>2, <1>3

LEMMA PageKeeps ==
    ASSUME GroupInv, PageInv, GroupingNext
    PROVE  PageInv'
<1>1. CASE UNCHANGED <<issue, arrivals, page>>
  BY <1>1 DEF PageInv, PageShown, PageAdds
<1>2. ASSUME NEW f \in Fingerprints, OpenPage(f), UNCHANGED <<issue, arrivals>> PROVE PageInv'
  <2>1. issue[f] \in IssueRows /\ arrivals[f] \in Nat /\ issue[f] # None
    BY <1>2 DEF OpenPage, GroupInv, GroupingTypeOK
  <2>2. /\ page'.issue = f /\ page'.count = issue[f].count /\ page'.arrivals = arrivals[f]
    BY <1>2 DEF OpenPage
  <2>3. issue[f].count \in Int
    BY <2>1 DEF IssueRows
  <2>4. QED
    BY <1>2, <2>1, <2>2, <2>3 DEF PageInv, PageShown, PageAdds
<1>3. ASSUME NEW f \in Fingerprints, RetainIssue(f) PROVE PageInv'
  <2>1. /\ issue' = [issue EXCEPT ![f] = None]
        /\ arrivals' = [arrivals EXCEPT ![f] = 0]
        /\ page' = IF page # None /\ page.issue = f THEN None ELSE page
    BY <1>3 DEF RetainIssue
  <2>2. CASE page = None \/ page.issue = f
    BY <2>1, <2>2 DEF PageInv, PageShown, PageAdds
  <2>3. CASE page # None /\ page.issue # f
    <3>1. page.issue \in Fingerprints /\ page' = page
      BY <2>1, <2>3, PageTypes
    <3>2. issue'[page.issue] = issue[page.issue] /\ arrivals'[page.issue] = arrivals[page.issue]
      BY <2>1, <2>3, <3>1 DEF GroupInv, GroupingTypeOK
    <3>3. QED
      BY <3>1, <3>2 DEF PageInv, PageShown, PageAdds
  <2>4. QED
    BY <2>2, <2>3
<1>4. ASSUME NEW chosen \in IssueStatuses, ChangeStatus(chosen) PROVE PageInv'
  BY <1>4 DEF ChangeStatus, PageInv, PageShown, PageAdds
<1>5. QED
  BY <1>1, <1>2, <1>3, <1>4, RowWriters, PageCommit, PageMove

GroupPageInv == GroupInv /\ PageInv

LEMMA GroupStep == GroupPageInv /\ [GroupingNext]_groupingVars => GroupPageInv'
<1> SUFFICES ASSUME GroupPageInv, [GroupingNext]_groupingVars PROVE GroupPageInv'
  OBVIOUS
<1>0. GroupInv /\ PageInv /\ PageShown
  BY DEF GroupPageInv, PageInv
<1>1. CASE UNCHANGED groupingVars
  <2>1. GroupingTypeOK'
    BY <1>0, <1>1 DEF GroupInv, GroupingTypeOK, groupingVars, events, tallies
  <2>2. UNCHANGED <<eventIssue, eventVersion, pass, arrivals, inbox, at, issue, page>>
    BY <1>1 DEF groupingVars, events, tallies
  <2>3. Standing
    BY <2>2 DEF Standing
  <2>4. GroupInv'
    BY <1>0, <2>1, <2>2, <2>3, QuietStep
  <2>5. PageInv'
    BY <1>0, <2>2 DEF PageInv, PageShown, PageAdds
  <2>6. QED
    BY <2>4, <2>5 DEF GroupPageInv
<1>2. CASE GroupingNext
  <2>1. ASSUME NEW e \in ErrorEvents, Job(e) PROVE GroupInv'
    BY <1>0, <2>1, QuietJobs, CommitKeeps DEF Job, Waiting
  <2>2. ASSUME NEW p \in Reprocessors, Reprocess(p) PROVE GroupInv'
    BY <1>0, <2>2, SelectKeeps, ReadKeeps, FenceKeeps, CommitInPlace, CommitMove DEF Reprocess
  <2>3. ASSUME Others PROVE GroupInv'
    BY <1>0, <2>3, QuietOthers
  <2>4. ASSUME NEW chosen \in {"open", "resolved"}, ChangeStatus(chosen) PROVE GroupInv'
    BY <1>0, <2>4, StatusKeeps DEF IssueStatuses
  <2>5. ASSUME NEW e \in ErrorEvents, RetainErrorEvent(e) PROVE GroupInv'
    BY <1>0, <2>5, RetainErrorEventKeeps
  <2>6. ASSUME NEW f \in Fingerprints, RetainIssue(f) PROVE GroupInv'
    BY <1>0, <2>6, RetainIssueKeeps
  <2>7. \/ \E e \in ErrorEvents : Job(e)
        \/ \E p \in Reprocessors : Reprocess(p)
        \/ Others
        \/ \E chosen \in {"open", "resolved"} : ChangeStatus(chosen)
        \/ \E e \in ErrorEvents : RetainErrorEvent(e)
        \/ \E f \in Fingerprints : RetainIssue(f)
    BY <1>2 DEF GroupingNext, RetainBatch, Others
  <2>8. GroupInv'
    BY <2>1, <2>2, <2>3, <2>4, <2>5, <2>6, <2>7
  <2>9. PageInv'
    BY <1>0, <1>2, PageKeeps
  <2>10. QED
    BY <2>8, <2>9 DEF GroupPageInv
<1>3. QED
  BY <1>1, <1>2

LEMMA GroupInvHolds == GroupingSpec => []GroupPageInv
<1>1. GroupingInit => GroupPageInv
  BY GroupInit DEF GroupPageInv, GroupingInit, PageInv, PageShown, PageAdds
<1>2. QED
  BY <1>1, GroupStep, PTL DEF GroupingSpec

\* A group always spans the events in it: jobs and reprocessing that finish out
\* of order never leave an event before its first or after its last observation
\* (the trigger of issue and the updates of both transactions).
THEOREM GroupsAlwaysSpan == GroupingSpec => []GroupSpansEvents
<1>1. GroupPageInv => GroupSpansEvents
  BY DEF GroupPageInv, GroupInv, Spanned, Spans, GroupSpansEvents
<1>2. QED
  BY <1>1, GroupInvHolds, PTL

\* How the row of a group may change in one step.
StatusFollows(f) ==
    (issue[f] # None /\ issue'[f] # None) =>
       LET before == <<issue[f].status, issue[f].regression>>
           after == <<issue'[f].status, issue'[f].regression>>
       IN  IF arrivals'[f] # arrivals[f]
           THEN after = <<"open", issue[f].regression \/ issue[f].status = "resolved">>
           ELSE before # after =>
                   /\ page # None
                   /\ page.issue = f
                   /\ page.lowered \/ page.arrivals = arrivals[f]

LEMMA StatusStep ==
    ASSUME GroupPageInv, GroupingNext, NEW f \in Fingerprints
    PROVE  StatusFollows(f)
<1>1. /\ GroupInv /\ PageInv /\ PageShown
      /\ issue \in [Fingerprints -> IssueRows \cup {None}]
      /\ arrivals \in [Fingerprints -> Nat]
  BY DEF GroupPageInv, PageInv, GroupInv, GroupingTypeOK
<1>2. CASE UNCHANGED <<issue, arrivals>>
  BY <1>2 DEF StatusFollows
<1>3. ASSUME NEW e \in ErrorEvents, CommitJob(e) PROVE StatusFollows(f)
  <2>1. PICK g \in Fingerprints, row \in IssueRows :
              /\ row = IF issue[g] = None THEN NewIssue(e, "open") ELSE CountEvent(issue[g], e, "open")
              /\ issue' = [issue EXCEPT ![g] = row]
              /\ arrivals' = [arrivals EXCEPT ![g] = @ + 1]
    BY Zenon, <1>1, <1>3, CommitRow DEF GroupInv
  <2>2. issue[g] # None =>
           /\ row.status = "open"
           /\ row.regression = (issue[g].regression \/ issue[g].status = "resolved")
    BY <1>1, <2>1, CountedRow DEF IssueStatuses, GroupInv
  <2>3. CASE f = g
    <3>1. issue'[f] = row /\ arrivals'[f] # arrivals[f]
      BY <1>1, <2>1, <2>3
    <3>2. QED
      BY <2>2, <2>3, <3>1 DEF StatusFollows
  <2>4. CASE f # g
    <3>1. issue'[f] = issue[f] /\ arrivals'[f] = arrivals[f]
      BY <1>1, <2>1, <2>4
    <3>2. QED
      BY <3>1 DEF StatusFollows
  <2>5. QED
    BY <2>3, <2>4
<1>4. ASSUME NEW p \in Reprocessors, ReprocessCommit(p), UNCHANGED arrivals
      PROVE  StatusFollows(f)
  <2>1. CASE UNCHANGED issue
    BY <1>4, <2>1 DEF StatusFollows
  <2>2. ASSUME NEW from \in Fingerprints, NEW to \in Fingerprints, NEW e \in ErrorEvents,
               NEW row \in IssueRows, NEW less \in IssueRows, from # to, Moves(from, to, e, row, less)
        PROVE  StatusFollows(f)
    <3>1. issue[f] # None =>
            issue'[f].status = issue[f].status /\ issue'[f].regression = issue[f].regression
      <4>1. CASE f = from
        BY <2>2, <4>1 DEF Moves
      <4>2. CASE f = to
        BY <2>2, <4>2 DEF Moves
      <4>3. CASE f \notin {from, to}
        BY <2>2, <4>3 DEF Moves
      <4>4. QED
        BY <4>1, <4>2, <4>3
    <3>2. QED
      BY <1>4, <3>1 DEF StatusFollows
  <2>3. QED
    BY <1>1, <1>4, <2>1, <2>2, Regrouped
<1>5. ASSUME NEW chosen \in IssueStatuses, ChangeStatus(chosen) PROVE StatusFollows(f)
  <2>1. PICK g \in Fingerprints, row \in IssueRows :
              g = page.issue /\ issue' = [issue EXCEPT ![g] = row]
    BY <1>1, <1>5, StatusRow
  <2>2. page # None /\ arrivals' = arrivals /\ issue[page.issue].count = page.count
    BY <1>5 DEF ChangeStatus, tallies
  <2>3. CASE f = g
    <3>1. /\ issue[f].count \in Int /\ page.count \in Int /\ page.arrivals \in Nat
          /\ arrivals[f] \in Nat
      BY <1>1, <2>1, <2>2, <2>3, PageTypes
    <3>2. ~page.lowered => /\ page.arrivals <= arrivals[f]
                           /\ arrivals[f] - page.arrivals <= issue[f].count - page.count
      BY <1>1, <2>1, <2>2, <2>3 DEF PageInv, PageAdds
    <3>3. issue[f].count = page.count
      BY <2>1, <2>2, <2>3
    <3>4. page.lowered \/ page.arrivals = arrivals[f]
      BY <3>1, <3>2, <3>3
    <3>5. QED
      BY <2>1, <2>2, <2>3, <3>4 DEF StatusFollows
  <2>4. CASE f # g
    <3>1. issue'[f] = issue[f]
      BY <1>1, <2>1, <2>4
    <3>2. QED
      BY <2>2, <3>1 DEF StatusFollows
  <2>5. QED
    BY <2>3, <2>4
<1>6. ASSUME NEW g \in Fingerprints, RetainIssue(g) PROVE StatusFollows(f)
  <2>1. issue' = [issue EXCEPT ![g] = None] /\ arrivals' = [arrivals EXCEPT ![g] = 0]
    BY <1>6 DEF RetainIssue
  <2>2. CASE f = g
    BY <1>1, <2>1, <2>2 DEF StatusFollows
  <2>3. CASE f # g
    <3>1. issue'[f] = issue[f] /\ arrivals'[f] = arrivals[f]
      BY <1>1, <2>1, <2>3
    <3>2. QED
      BY <3>1 DEF StatusFollows
  <2>4. QED
    BY <2>2, <2>3
<1>7. QED
  BY <1>2, <1>3, <1>4, <1>5, <1>6, RowWriters

\* Late maps and retention never reopen, resolve or mark a group: its status
\* changes when a new event is counted into it, which leaves it open and marks a
\* resolved group as a regression, or when somebody acts on a page of it; and a
\* page that missed an arrival is acted on only if events were moved out of the
\* group since (persistEvent, reprocessOneEvent, changeIssueStatus and the
\* trigger of issue).
THEOREM StatusAlwaysFollows == GroupingSpec => StatusFollowsEventsAndUsers
<1>1. GroupPageInv /\ [GroupingNext]_groupingVars =>
        [\A f \in Fingerprints : StatusFollows(f)]_issue
  BY StatusStep DEF groupingVars
<1>2. (\A f \in Fingerprints : StatusFollows(f)) <=>
        \A f \in Fingerprints :
         (issue[f] # None /\ issue'[f] # None) =>
            LET before == <<issue[f].status, issue[f].regression>>
                after == <<issue'[f].status, issue'[f].regression>>
            IN  IF arrivals'[f] # arrivals[f]
                THEN after = <<"open", issue[f].regression \/ issue[f].status = "resolved">>
                ELSE before # after =>
                        /\ page # None
                        /\ page.issue = f
                        /\ page.lowered \/ page.arrivals = arrivals[f]
  BY DEF StatusFollows
<1>3. QED
  BY <1>1, <1>2, GroupInvHolds, PTL DEF GroupingSpec, StatusFollowsEventsAndUsers

-----------------------------------------------------------------------------
(* What a group counts.                                                    *)

\* No event, job or pass is ahead of its release.
Behind(e) ==
    /\ eventVersion[e] <= version[Release[e]]
    /\ work[e] # None => work[e].version <= version[Release[e]]

Following(p) ==
    LET s == pass[p] IN
    s # None =>
        /\ s.seen <= version[Release[s.event]]
        /\ s.version <= version[Release[s.event]]
        /\ s.step \notin {"selected", "read"} => s.seen <= s.version

\* While every pass wrote a newer version than it had read, what a pass read of
\* its event stands until somebody else reprocesses it.
Current(p) ==
    LET s == pass[p] IN
    s # None /\ s.step # "selected" /\ Stored(s.event) =>
        /\ s.seen <= eventVersion[s.event]
        /\ eventVersion[s.event] = s.seen => eventIssue[s.event] = s.from

\* A group counts its events and those retention removed.
Counted(f) ==
    /\ IsFiniteSet(EventsOf(f))
    /\ IF issue[f] = None THEN purged[f] = 0 /\ EventsOf(f) = {}
       ELSE issue[f].count = Cardinality(EventsOf(f)) + purged[f]

VersionsInv == (\A e \in ErrorEvents : Behind(e)) /\ (\A p \in Reprocessors : Following(p))

CountsInv ==
    repeated = {} => (\A p \in Reprocessors : Current(p)) /\ (\A f \in Fingerprints : Counted(f))

GroupCountInv == GroupPageInv /\ VersionsInv /\ CountsInv

LEMMA CountInit == GroupingInit => VersionsInv /\ CountsInv
<1> SUFFICES ASSUME GroupingInit PROVE VersionsInv /\ CountsInv
  OBVIOUS
<1>1. ASSUME NEW f \in Fingerprints PROVE EventsOf(f) = {}
  BY GroupingAssumption DEF GroupingInit, EventsOf
<1>2. ASSUME NEW f \in Fingerprints PROVE Counted(f)
  BY Zenon, <1>1, FS_EmptySet DEF GroupingInit, Counted
<1>3. ASSUME NEW e \in ErrorEvents PROVE Behind(e)
  BY GroupingAssumption DEF GroupingInit, Behind
<1>4. QED
  BY <1>2, <1>3 DEF GroupingInit, VersionsInv, CountsInv, Following, Current

\* What a pass does before it commits.
LEMMA PassLearns ==
    ASSUME GroupInv, NEW p \in Reprocessors, Reprocess(p)
    PROVE  \/ ReprocessCommit(p)
           \/ \E s \in Passes \cup {None} : Progress(p, s) /\ Learned(p, s)
<1>1. ASSUME ReprocessRead(p) \/ ReprocessVersion(p) \/ ReprocessResolve(p)
      PROVE  \E s \in Passes \cup {None} : Progress(p, s) /\ Learned(p, s)
  BY Zenon, <1>1, ReadPass
<1>2. Learned(p, None)
  BY DEF Learned
<1>3. CASE Progress(p, None)
  BY Zenon, <1>2, <1>3
<1>4. ASSUME ReprocessFence(p), ~Progress(p, None)
      PROVE  \E s \in Passes \cup {None} : Progress(p, s) /\ Learned(p, s)
  <2>1. PICK new \in Passes :
                 /\ Progress(p, new) /\ new.step = "fenced"
                 /\ new.event = pass[p].event /\ new.from = pass[p].from
                 /\ new.seen = pass[p].seen /\ new.version = pass[p].version
                 /\ pass[p] # None /\ pass[p].step = "resolved"
    BY <1>4, FencePass
  <2>2. Learned(p, new)
    BY <2>1 DEF Learned
  <2>3. QED
    BY Zenon, <2>1, <2>2
<1>5. ASSUME NEW e \in ErrorEvents, ReprocessSelect(p, e)
      PROVE  \E s \in Passes \cup {None} : Progress(p, s) /\ Learned(p, s)
  <2> DEFINE s == [step |-> "selected", event |-> e, seen |-> 0, from |-> None,
                   frames |-> NoFrames, version |-> 0, status |-> "open"]
  <2>1. Progress(p, s)
    BY <1>5 DEF ReprocessSelect
  <2>2. s \in Passes /\ Learned(p, s)
    BY DEF Passes, IssueStatuses, Learned
  <2> HIDE DEF s
  <2>3. QED
    BY <2>1, <2>2
<1>6. QED
  BY <1>1, <1>3, <1>4, <1>5 DEF Reprocess, ReprocessAbort

LEMMA VersionTypes ==
    ASSUME GroupingTypeOK, NEW e \in ErrorEvents
    PROVE  version[Release[e]] \in Nat /\ eventVersion[e] \in Nat
<1>1. Release[e] \in Releases
  BY GroupingAssumption
<1>2. version[Release[e]] \in 0..MaxVersion
  BY <1>1 DEF GroupingTypeOK
<1>3. version[Release[e]] \in Nat
  BY <1>2
<1>4. QED
  BY <1>3 DEF GroupingTypeOK

\* One pass learns; it stays behind its release and right about its event.
LEMMA ProgressCounts ==
    ASSUME GroupInv, VersionsInv, CountsInv, NEW p \in Reprocessors,
           NEW s \in Passes \cup {None}, Progress(p, s), Learned(p, s)
    PROVE  VersionsInv' /\ CountsInv'
<1>1. /\ pass' = [pass EXCEPT ![p] = s]
      /\ UNCHANGED <<now, at, version, maps, inbox, work, issue, eventIssue, eventVersion, frames,
                     arrivals, purged, repeated>>
  BY DEF Progress, Untouched, events, tallies
<1>2. pass'[p] = s /\ \A q \in Reprocessors \ {p} : pass'[q] = pass[q]
  BY <1>1 DEF GroupInv, GroupingTypeOK
<1>3. ASSUME s # None
      PROVE  Following(p)' /\ (repeated = {} => Current(p)')
  <2>1. s.event \in ErrorEvents /\ s.seen \in Nat /\ s.version \in Nat
    BY <1>3 DEF Passes
  <2>2. version[Release[s.event]] \in Nat /\ eventVersion[s.event] \in Nat
    BY <2>1, VersionTypes DEF GroupInv
  <2>3. Behind(s.event)
    BY <2>1 DEF VersionsInv
  <2>4. CASE s.step = "selected" /\ s.seen = 0 /\ s.version = 0
    BY <1>1, <1>2, <2>2, <2>4 DEF Following, Current
  <2>5. CASE /\ s.step = "read" /\ pass[p] # None
             /\ s.event = pass[p].event /\ s.version = pass[p].version
             /\ Stored(s.event) /\ s.seen = eventVersion[s.event] /\ s.from = eventIssue[s.event]
    <3>1. s.version <= version[Release[s.event]] /\ s.seen <= version[Release[s.event]]
      BY <2>3, <2>5 DEF VersionsInv, Following, Behind
    <3>2. s.seen <= eventVersion[s.event]
      BY <2>2, <2>5
    <3>3. QED
      BY <1>1, <1>2, <2>5, <3>1, <3>2 DEF Following, Current
  <2>6. CASE /\ s.step \in {"versioned", "resolved", "fenced"}
             /\ pass[p] # None /\ pass[p].step # "selected"
             /\ s.event = pass[p].event /\ s.seen = pass[p].seen /\ s.from = pass[p].from
             /\ \/ s.version = version[Release[s.event]]
                \/ pass[p].step # "read" /\ s.version = pass[p].version
    <3>1. Following(p)
      BY DEF VersionsInv
    <3>2. /\ s.seen <= version[Release[s.event]]
          /\ s.version <= version[Release[s.event]]
          /\ s.seen <= s.version
      BY <2>1, <2>2, <2>6, <3>1 DEF Following
    <3>3. Following(p)'
      BY <1>1, <1>2, <3>2 DEF Following
    <3>4. repeated = {} => Current(p)'
      BY <1>1, <1>2, <2>6 DEF CountsInv, Current, Stored
    <3>5. QED
      BY <3>3, <3>4
  <2>7. QED
    BY <1>3, <2>4, <2>5, <2>6 DEF Learned
<1>4. ASSUME NEW q \in Reprocessors PROVE Following(q)' /\ (repeated = {} => Current(q)')
  <2>1. CASE q = p
    BY <1>2, <1>3, <2>1 DEF Following, Current
  <2>2. CASE q # p
    BY <1>1, <1>2, <2>2 DEF VersionsInv, CountsInv, Following, Current, Stored
  <2>3. QED
    BY <2>1, <2>2
<1>5. ASSUME NEW e \in ErrorEvents PROVE Behind(e)'
  BY <1>1 DEF VersionsInv, Behind
<1>6. ASSUME NEW f \in Fingerprints, repeated = {} PROVE Counted(f)'
  BY <1>1, <1>6 DEF CountsInv, Counted, EventsOf
<1>7. QED
  BY <1>1, <1>4, <1>5, <1>6 DEF VersionsInv, CountsInv

\* Versions of releases only grow, and nobody writes another one.
LEMMA VersionsStand ==
    ASSUME GroupInv, VersionsInv,
           \A r \in Releases : version'[r] \in Nat /\ version[r] <= version'[r],
           \A e \in ErrorEvents : eventVersion'[e] \in {eventVersion[e], 0},
           \A e \in ErrorEvents : work'[e] = work[e] \/ work'[e] = None,
           \A p \in Reprocessors :
              \/ pass'[p] = None
              \/ /\ pass[p] # None
                 /\ pass'[p].event = pass[p].event /\ pass'[p].seen = pass[p].seen
                 /\ pass'[p].version = pass[p].version /\ pass'[p].step = pass[p].step
    PROVE  VersionsInv'
<1>1. ASSUME NEW e \in ErrorEvents PROVE Behind(e)'
  <2>1. /\ version[Release[e]] \in Nat /\ version'[Release[e]] \in Nat
        /\ version[Release[e]] <= version'[Release[e]]
        /\ eventVersion[e] \in Nat
    BY VersionTypes, GroupingAssumption DEF GroupInv
  <2>2. work[e] # None => work[e].version \in Nat
    <3>1. work[e] \in Resolutions \cup {None}
      BY DEF GroupInv, GroupingTypeOK
    <3>2. QED
      BY <3>1 DEF Resolutions
  <2>3. Behind(e)
    BY DEF VersionsInv
  <2>4. QED
    BY <2>1, <2>2, <2>3 DEF Behind
<1>2. ASSUME NEW p \in Reprocessors PROVE Following(p)'
  <2>1. CASE pass'[p] = None
    BY <2>1 DEF Following
  <2>2. CASE pass'[p] # None
    <3>1. /\ pass[p] # None
          /\ pass'[p].event = pass[p].event /\ pass'[p].seen = pass[p].seen
          /\ pass'[p].version = pass[p].version /\ pass'[p].step = pass[p].step
      BY <2>2
    <3>2. pass[p].event \in ErrorEvents /\ pass[p].seen \in Nat /\ pass[p].version \in Nat
      BY <3>1, PassTypes DEF GroupInv
    <3>3. PICK r \in Releases : r = Release[pass[p].event]
      BY <3>2, GroupingAssumption
    <3>4. version[r] \in Nat /\ version'[r] \in Nat /\ version[r] <= version'[r]
      BY <3>2, <3>3, VersionTypes DEF GroupInv
    <3>5. Following(p)
      BY DEF VersionsInv
    <3>6. QED
      BY <3>1, <3>2, <3>3, <3>4, <3>5 DEF Following
  <2>3. QED
    BY <2>1, <2>2
<1>3. QED
  BY <1>1, <1>2 DEF VersionsInv

\* No event enters or leaves a group, and its rows keep their counts.
LEMMA CountsStand ==
    ASSUME GroupInv, CountsInv, UNCHANGED <<eventIssue, eventVersion, purged, repeated, pass>>,
           \A f \in Fingerprints :
              /\ issue'[f] = None <=> issue[f] = None
              /\ issue[f] # None => issue'[f].count = issue[f].count
    PROVE  CountsInv'
<1>1. ASSUME NEW p \in Reprocessors, Current(p) PROVE Current(p)'
  BY <1>1 DEF Current, Stored
<1>2. ASSUME NEW f \in Fingerprints, Counted(f) PROVE Counted(f)'
  BY <1>2 DEF Counted, EventsOf
<1>3. QED
  BY <1>1, <1>2 DEF CountsInv

LEMMA VersionsOfJobs ==
    ASSUME GroupInv, VersionsInv, NEW e \in ErrorEvents, Job(e)
    PROVE  VersionsInv'
<1>1. \A r \in Releases : version[r] \in Nat
  <2>1. \A r \in Releases : version[r] \in 0..MaxVersion
    BY DEF GroupInv, GroupingTypeOK
  <2>2. QED
    BY <2>1
<1>2. \A d \in ErrorEvents : version[Release[d]] \in Nat
  BY <1>1, GroupingAssumption
<1>3. /\ version' = version /\ pass' = pass
      /\ \A d \in ErrorEvents \ {e} : work'[d] = work[d] /\ eventVersion'[d] = eventVersion[d]
  BY DEF Job, Receive, VersionJob, ResolveJob, CommitJob, ResolveAgain, DeadLetter, Untouched,
         events, GroupInv, GroupingTypeOK
<1>4. Behind(e)'
  <2>1. Behind(e) /\ version[Release[e]] \in Nat
    BY <1>2 DEF VersionsInv
  <2>2. CASE VersionJob(e)
    <3>1. work'[e].version = version[Release[e]] /\ eventVersion'[e] = eventVersion[e]
      BY <2>2 DEF VersionJob, events, GroupInv, GroupingTypeOK
    <3>2. QED
      BY <1>3, <2>1, <3>1 DEF Behind
  <2>3. CASE ResolveJob(e)
    <3>1. work[e] \in Resolutions
      BY <2>3 DEF ResolveJob, GroupInv, GroupingTypeOK
    <3>2. /\ work[e] # None /\ work'[e].version = work[e].version
          /\ eventVersion'[e] = eventVersion[e]
      BY <2>3, <3>1 DEF ResolveJob, events, GroupInv, GroupingTypeOK, Resolutions
    <3>3. QED
      BY <1>3, <2>1, <3>2 DEF Behind
  <2>4. CASE CommitJob(e)
    <3>1. work[e] # None /\ eventVersion' = [eventVersion EXCEPT ![e] = work[e].version]
          /\ work' = [work EXCEPT ![e] = None]
      BY <2>4 DEF CommitJob
    <3>2. eventVersion'[e] = work[e].version /\ work'[e] = None
      BY <3>1 DEF GroupInv, GroupingTypeOK
    <3>3. QED
      BY <1>3, <2>1, <3>1, <3>2 DEF Behind
  <2>5. CASE Receive(e) \/ ResolveAgain(e) \/ DeadLetter(e)
    <3>1. eventVersion'[e] = eventVersion[e] /\ work'[e] \in {work[e], None}
      BY <2>5 DEF Receive, ResolveAgain, DeadLetter, events, GroupInv, GroupingTypeOK
    <3>2. QED
      BY <1>3, <2>1, <3>1 DEF Behind
  <2>6. QED
    BY <2>2, <2>3, <2>4, <2>5 DEF Job
<1>5. ASSUME NEW d \in ErrorEvents PROVE Behind(d)'
  <2>1. CASE d = e
    BY <1>4, <2>1
  <2>2. CASE d # e
    BY <1>3, <2>2 DEF VersionsInv, Behind
  <2>3. QED
    BY <2>1, <2>2
<1>6. \A p \in Reprocessors : Following(p)'
  BY <1>3 DEF VersionsInv, Following
<1>7. QED
  BY <1>5, <1>6 DEF VersionsInv

LEMMA VersionsOfCommit ==
    ASSUME GroupInv, VersionsInv, NEW p \in Reprocessors, ReprocessCommit(p)
    PROVE  VersionsInv'
<1> DEFINE s == pass[p]
           e == s.event
<1>1. /\ s # None /\ e \in ErrorEvents
      /\ UNCHANGED <<version, work>>
      /\ eventVersion' = [eventVersion EXCEPT ![e] = s.version]
      /\ pass' = [pass EXCEPT ![p] = None]
  BY CommitPass
<1>2. s.version <= version[Release[e]]
  BY <1>1 DEF VersionsInv, Following
<1> HIDE DEF s, e
<1>3. ASSUME NEW d \in ErrorEvents PROVE Behind(d)'
  <2>1. CASE d = e
    BY <1>1, <1>2, <2>1 DEF VersionsInv, Behind, GroupInv, GroupingTypeOK
  <2>2. CASE d # e
    BY <1>1, <2>2 DEF VersionsInv, Behind, GroupInv, GroupingTypeOK
  <2>3. QED
    BY <2>1, <2>2
<1>4. ASSUME NEW q \in Reprocessors PROVE Following(q)'
  BY <1>1 DEF VersionsInv, Following, GroupInv, GroupingTypeOK
<1>5. QED
  BY <1>3, <1>4 DEF VersionsInv

LEMMA VersionsOfOthers ==
    ASSUME GroupInv, VersionsInv,
           \/ Others
           \/ \E chosen \in {"open", "resolved"} : ChangeStatus(chosen)
           \/ \E e \in ErrorEvents : RetainErrorEvent(e)
           \/ \E f \in Fingerprints : RetainIssue(f)
    PROVE  VersionsInv'
<1>1. \A r \in Releases : version[r] \in Nat
  <2>1. \A r \in Releases : version[r] \in 0..MaxVersion
    BY DEF GroupInv, GroupingTypeOK
  <2>2. QED
    BY <2>1
<1>2. UNCHANGED work
  BY DEF Others, RemoveMaps, PublishMaps, OpenPage, Tick, RetainActivity, RetainHistory,
         ChangeStatus, RetainErrorEvent, RetainIssue
<1>3. \A r \in Releases : version'[r] \in Nat /\ version[r] <= version'[r]
  <2>1. version' = version \/ \E r \in Releases : version' = [version EXCEPT ![r] = @ + 1]
    BY DEF Others, RemoveMaps, PublishMaps, OpenPage, Tick, RetainActivity, RetainHistory,
           ChangeStatus, RetainErrorEvent, RetainIssue, Untouched
  <2>2. QED
    BY <1>1, <2>1 DEF GroupInv, GroupingTypeOK
<1>4. \A e \in ErrorEvents : eventVersion'[e] \in {eventVersion[e], 0}
  <2>1. eventVersion' = eventVersion
        \/ \E e \in ErrorEvents : eventVersion' = [eventVersion EXCEPT ![e] = 0]
    BY DEF Others, RemoveMaps, PublishMaps, OpenPage, Tick, RetainActivity, RetainHistory,
           ChangeStatus, RetainErrorEvent, RetainIssue, events
  <2>2. QED
    BY <2>1 DEF GroupInv, GroupingTypeOK
<1>5. ASSUME NEW p \in Reprocessors
      PROVE  \/ pass'[p] = None
             \/ /\ pass[p] # None
                /\ pass'[p].event = pass[p].event /\ pass'[p].seen = pass[p].seen
                /\ pass'[p].version = pass[p].version /\ pass'[p].step = pass[p].step
  <2>1. CASE pass' = pass
    BY <2>1
  <2>2. CASE \E f \in Fingerprints : RetainIssue(f)
    <3>1. PICK f \in Fingerprints : RetainIssue(f)
      BY <2>2
    <3>2. CASE pass[p] = None
      BY <3>1, <3>2 DEF RetainIssue
    <3>3. CASE pass[p] # None
      BY <3>1, <3>3, ForgottenPass DEF GroupInv
    <3>4. QED
      BY <3>2, <3>3
  <2>3. QED
    BY <2>1, <2>2 DEF Others, RemoveMaps, PublishMaps, OpenPage, Tick, RetainActivity,
       RetainHistory, ChangeStatus, RetainErrorEvent
<1>6. QED
  BY <1>2, <1>3, <1>4, <1>5, VersionsStand

-----------------------------------------------------------------------------
(* Events that enter and leave groups.                                     *)

LEMMA EventEnters ==
    ASSUME NEW e \in ErrorEvents, NEW g \in Fingerprints, eventIssue \in [ErrorEvents -> Fingerprints \cup {None}],
           eventIssue' = [eventIssue EXCEPT ![e] = g], eventIssue[e] # g, IsFiniteSet(EventsOf(g))
    PROVE  /\ IsFiniteSet(EventsOf(g)')
           /\ Cardinality(EventsOf(g)') = Cardinality(EventsOf(g)) + 1
<1>1. EventsOf(g)' = EventsOf(g) \cup {e} /\ e \notin EventsOf(g)
  BY DEF EventsOf
<1>2. QED
  BY <1>1, FS_AddElement

LEMMA EventLeaves ==
    ASSUME NEW e \in ErrorEvents, NEW new, NEW g, eventIssue \in [ErrorEvents -> Fingerprints \cup {None}],
           eventIssue' = [eventIssue EXCEPT ![e] = new], eventIssue[e] = g, new # g,
           IsFiniteSet(EventsOf(g))
    PROVE  /\ IsFiniteSet(EventsOf(g)')
           /\ Cardinality(EventsOf(g)') = Cardinality(EventsOf(g)) - 1
<1>1. EventsOf(g)' = EventsOf(g) \ {e} /\ e \in EventsOf(g)
  BY DEF EventsOf
<1>2. QED
  BY <1>1, FS_RemoveElement

LEMMA OtherGroups ==
    ASSUME NEW e \in ErrorEvents, NEW new, NEW f, eventIssue \in [ErrorEvents -> Fingerprints \cup {None}],
           eventIssue' = [eventIssue EXCEPT ![e] = new], eventIssue[e] # f, new # f
    PROVE  EventsOf(f)' = EventsOf(f)
  BY DEF EventsOf

LEMMA CountsOfJob ==
    ASSUME GroupInv, CountsInv, NEW e \in ErrorEvents, CommitJob(e)
    PROVE  CountsInv'
<1>1. GroupingTypeOK /\ UNCHANGED <<pass, purged, repeated>> /\ inbox[e] = "pending"
      /\ eventVersion' = [eventVersion EXCEPT ![e] = work[e].version]
  BY DEF CommitJob, GroupInv
<1>2. PICK g \in Fingerprints, row \in IssueRows :
        /\ row = IF issue[g] = None THEN NewIssue(e, "open") ELSE CountEvent(issue[g], e, "open")
        /\ issue' = [issue EXCEPT ![g] = row]
        /\ eventIssue' = [eventIssue EXCEPT ![e] = g]
  BY Zenon, <1>1, CommitRow
<1>3. /\ row # None
      /\ issue[g] = None => row.count = 1
      /\ issue[g] # None => row.count = issue[g].count + 1
  BY <1>1, <1>2, CountedRow DEF IssueStatuses
<1>4. issue'[g] = row /\ \A f \in Fingerprints \ {g} : issue'[f] = issue[f]
  BY <1>1, <1>2 DEF GroupingTypeOK
<1>5. ~Stored(e) /\ eventIssue[e] # g
  BY <1>1, GroupingAssumption DEF GroupInv, Spanned, Stored
<1>6. ASSUME NEW p \in Reprocessors, Current(p) PROVE Current(p)'
  <2>1. CASE pass[p] = None
    BY <1>1, <2>1 DEF Current
  <2>2. CASE pass[p] # None
    <3>1. pass[p].event \in ErrorEvents /\ pass[p].event # e
      BY <1>1, <2>2, PassTypes DEF GroupInv, Known
    <3>2. /\ eventIssue'[pass[p].event] = eventIssue[pass[p].event]
          /\ eventVersion'[pass[p].event] = eventVersion[pass[p].event]
      BY <1>1, <1>2, <3>1 DEF GroupingTypeOK
    <3>3. QED
      BY <1>1, <1>6, <2>2, <3>2 DEF Current, Stored
  <2>3. QED
    BY <2>1, <2>2
<1>7. ASSUME NEW h \in Fingerprints, Counted(h) PROVE Counted(h)'
  <2>1. eventIssue \in [ErrorEvents -> Fingerprints \cup {None}] /\ purged[h] \in Nat
    BY <1>1 DEF GroupingTypeOK
  <2>2. CASE h = g
    <3>1. /\ IsFiniteSet(EventsOf(g)')
          /\ Cardinality(EventsOf(g)') = Cardinality(EventsOf(g)) + 1
      BY Zenon, <1>2, <1>5, <1>7, <2>1, <2>2, EventEnters DEF Counted
    <3>2. Cardinality(EventsOf(g)) \in Nat
      BY <1>7, <2>2, FS_CardinalityType DEF Counted
    <3>3. CASE issue[g] = None
      <4>1. Cardinality(EventsOf(g)) = 0 /\ purged[g] = 0
        BY <1>7, <2>2, <3>3, FS_EmptySet DEF Counted
      <4>2. QED
        BY <1>1, <1>3, <1>4, <2>2, <3>1, <3>3, <4>1 DEF Counted
    <3>4. CASE issue[g] # None
      BY <1>1, <1>3, <1>4, <1>7, <2>1, <2>2, <3>1, <3>2, <3>4 DEF Counted
    <3>5. QED
      BY <3>3, <3>4
  <2>3. CASE h # g
    <3>1. EventsOf(h)' = EventsOf(h)
      BY Zenon, <1>2, <1>5, <2>1, <2>3, OtherGroups, GroupingAssumption DEF Stored
    <3>2. issue'[h] = issue[h] /\ purged'[h] = purged[h]
      BY <1>1, <1>4, <2>3
    <3>3. QED
      BY <1>7, <3>1, <3>2 DEF Counted
  <2>4. QED
    BY <2>2, <2>3
<1>8. QED
  BY <1>1, <1>6, <1>7 DEF CountsInv

\* The event is still where the pass read it, and whoever else read it there
\* read an older version than the one written now.
LEMMA CountsOfCommit ==
    ASSUME GroupInv, VersionsInv, CountsInv, NEW p \in Reprocessors, ReprocessCommit(p)
    PROVE  CountsInv'
<1> DEFINE s == pass[p]
           e == s.event
           from == s.from
           to == FingerprintOf(e, s.frames)
<1>1. /\ s # None /\ s.step = "fenced"
      /\ e \in ErrorEvents /\ from \in Fingerprints /\ to \in Fingerprints
      /\ s.seen \in Nat /\ s.version \in Nat
      /\ Stored(e) /\ eventVersion[e] = s.seen
      /\ issue[from] # None /\ purged' = purged
      /\ eventIssue' = [eventIssue EXCEPT ![e] = to]
      /\ eventVersion' = [eventVersion EXCEPT ![e] = s.version]
      /\ pass' = [pass EXCEPT ![p] = None]
      /\ repeated' = IF s.version = s.seen THEN repeated \cup {e} ELSE repeated
  BY CommitPass DEF Spans
<1>2. s = pass[p] /\ e = s.event /\ from = s.from /\ to = FingerprintOf(e, pass[p].frames)
  OBVIOUS
<1>3. to = from => UNCHANGED issue
  BY Zenon DEF ReprocessCommit
<1> HIDE DEF s, e, from, to
<1> SUFFICES ASSUME repeated' = {}
             PROVE  /\ \A q \in Reprocessors : Current(q)'
                    /\ \A h \in Fingerprints : Counted(h)'
  BY DEF CountsInv
<1>4. repeated = {} /\ s.version # s.seen
  BY <1>1
<1>5. s.seen < s.version
  <2>1. Following(p)
    BY DEF VersionsInv
  <2>2. QED
    BY <1>1, <1>2, <1>4, <2>1 DEF Following
<1>6. eventIssue[e] = from
  <2>1. Current(p)
    BY <1>4 DEF CountsInv
  <2>2. QED
    BY <1>1, <1>2, <2>1 DEF Current
<1>7. ASSUME NEW q \in Reprocessors PROVE Current(q)'
  <2>1. CASE q = p \/ pass[q] = None
    BY <1>1, <2>1 DEF Current, GroupInv, GroupingTypeOK
  <2>2. CASE q # p /\ pass[q] # None
    <3> DEFINE d == pass[q].event
    <3>1. d \in ErrorEvents /\ Current(q) /\ pass'[q] = pass[q] /\ pass[q].seen \in Nat
      BY <1>1, <1>4, <2>2, PassTypes DEF GroupInv, GroupingTypeOK, CountsInv
    <3>2. CASE d # e
      <4>1. eventIssue'[d] = eventIssue[d] /\ eventVersion'[d] = eventVersion[d]
        BY <1>1, <3>1, <3>2 DEF GroupInv, GroupingTypeOK
      <4>2. QED
        BY <2>2, <3>1, <4>1 DEF Current, Stored
    <3>3. CASE d = e
      <4>1. eventVersion'[e] = s.version
        BY <1>1 DEF GroupInv, GroupingTypeOK
      <4>2. pass[q].step # "selected" => pass[q].seen <= s.seen
        BY <1>1, <2>2, <3>1, <3>3 DEF Current
      <4>3. QED
        BY <1>1, <1>5, <2>2, <3>1, <3>3, <4>1, <4>2 DEF Current
    <3>4. QED
      BY <3>2, <3>3
  <2>3. QED
    BY <2>1, <2>2
<1>8. ASSUME NEW h \in Fingerprints PROVE Counted(h)'
  <2>1. /\ Counted(h) /\ eventIssue \in [ErrorEvents -> Fingerprints \cup {None}]
        /\ purged[h] \in Nat /\ purged'[h] = purged[h]
    BY <1>1, <1>4 DEF GroupInv, GroupingTypeOK, CountsInv
  <2>2. IsFiniteSet(EventsOf(h)) /\ Cardinality(EventsOf(h)) \in Nat
    BY <2>1, FS_CardinalityType DEF Counted
  <2>3. CASE to = from
    <3>1. eventIssue' = eventIssue
      BY <1>1, <1>6, <2>1, <2>3
    <3>2. EventsOf(h)' = EventsOf(h)
      BY <3>1 DEF EventsOf
    <3>3. QED
      BY <1>3, <2>1, <2>3, <3>2 DEF Counted
  <2>4. CASE to # from
    <3>1. PICK row \in IssueRows, less \in IssueRows : Moves(from, to, e, row, less)
      BY Zenon, <1>2, <2>4, MoveRows
    <3>2. CASE h = to
      <4>1. /\ IsFiniteSet(EventsOf(h)')
            /\ Cardinality(EventsOf(h)') = Cardinality(EventsOf(h)) + 1
        BY Zenon, <1>1, <1>6, <2>1, <2>2, <2>4, <3>2, EventEnters
      <4>2. /\ issue'[to] # None
            /\ issue[to] = None => issue'[to].count = 1
            /\ issue[to] # None => issue'[to].count = issue[to].count + 1
        BY <3>1 DEF Moves
      <4>3. CASE issue[to] = None
        <5>1. Cardinality(EventsOf(h)) = 0 /\ purged[to] = 0
          BY <2>1, <3>2, <4>3, FS_EmptySet DEF Counted
        <5>2. QED
          BY <2>1, <3>2, <4>1, <4>2, <4>3, <5>1 DEF Counted
      <4>4. CASE issue[to] # None
        BY <2>1, <2>2, <3>2, <4>1, <4>2, <4>4 DEF Counted
      <4>5. QED
        BY <4>3, <4>4
    <3>3. CASE h = from
      <4>1. /\ IsFiniteSet(EventsOf(h)')
            /\ Cardinality(EventsOf(h)') = Cardinality(EventsOf(h)) - 1
        BY Zenon, <1>1, <1>6, <2>1, <2>2, <2>4, <3>3, EventLeaves
      <4>2. issue[from].count = Cardinality(EventsOf(h)) + purged[from]
        BY <1>1, <2>1, <3>3 DEF Counted
      <4>3. issue'[from] # None /\ issue'[from].count = issue[from].count - 1
        BY <3>1 DEF Moves
      <4>4. QED
        BY <2>1, <2>2, <3>3, <4>1, <4>2, <4>3 DEF Counted
    <3>4. CASE h \notin {from, to}
      <4>1. EventsOf(h)' = EventsOf(h)
        BY Zenon, <1>1, <1>6, <2>1, <3>4, OtherGroups
      <4>2. issue'[h] = issue[h]
        BY <3>1, <3>4 DEF Moves
      <4>3. QED
        BY <2>1, <4>1, <4>2 DEF Counted
    <3>5. QED
      BY <3>2, <3>3, <3>4
  <2>5. QED
    BY <2>3, <2>4
<1>9. QED
  BY <1>7, <1>8

LEMMA CountsOfRetention ==
    ASSUME GroupInv, CountsInv, NEW e \in ErrorEvents, RetainErrorEvent(e)
    PROVE  CountsInv'
<1> DEFINE f == eventIssue[e]
<1>1. /\ Stored(e)
      /\ eventIssue' = [eventIssue EXCEPT ![e] = None]
      /\ eventVersion' = [eventVersion EXCEPT ![e] = 0]
      /\ purged' = [purged EXCEPT ![f] = @ + 1]
      /\ UNCHANGED <<issue, pass, repeated>>
  BY DEF RetainErrorEvent
<1>2. f \in Fingerprints /\ issue[f] # None
  BY <1>1 DEF GroupInv, GroupingTypeOK, Stored, Spanned, Spans
<1> HIDE DEF f
<1>3. ASSUME NEW p \in Reprocessors, Current(p) PROVE Current(p)'
  <2>1. CASE pass[p] = None
    BY <1>1, <2>1 DEF Current
  <2>2. CASE pass[p] # None
    <3>1. pass[p].event \in ErrorEvents
      BY <2>2, PassTypes DEF GroupInv
    <3>2. CASE pass[p].event = e
      <4>1. ~Stored(e)'
        BY <1>1 DEF GroupInv, GroupingTypeOK, Stored
      <4>2. QED
        BY <1>1, <2>2, <3>2, <4>1 DEF Current, Stored
    <3>3. CASE pass[p].event # e
      <4>1. /\ eventIssue'[pass[p].event] = eventIssue[pass[p].event]
            /\ eventVersion'[pass[p].event] = eventVersion[pass[p].event]
        BY <1>1, <3>1, <3>3 DEF GroupInv, GroupingTypeOK
      <4>2. QED
        BY <1>1, <1>3, <2>2, <4>1 DEF Current, Stored
    <3>4. QED
      BY <3>2, <3>3
  <2>3. QED
    BY <2>1, <2>2
<1>4. ASSUME NEW h \in Fingerprints, Counted(h) PROVE Counted(h)'
  <2>1. /\ eventIssue \in [ErrorEvents -> Fingerprints \cup {None}]
        /\ purged[h] \in Nat /\ issue' = issue /\ None # h
    BY <1>1, GroupingAssumption DEF GroupInv, GroupingTypeOK
  <2>2. CASE h = f
    <3>1. /\ IsFiniteSet(EventsOf(h)')
          /\ Cardinality(EventsOf(h)') = Cardinality(EventsOf(h)) - 1
      BY Zenon, <1>1, <1>4, <2>1, <2>2, EventLeaves DEF Counted, f
    <3>2. Cardinality(EventsOf(h)) \in Nat
      BY <1>4, FS_CardinalityType DEF Counted
    <3>3. purged'[h] = purged[h] + 1
      BY <1>1, <2>2 DEF GroupInv, GroupingTypeOK
    <3>4. QED
      BY <1>2, <1>4, <2>1, <2>2, <3>1, <3>2, <3>3 DEF Counted
  <2>3. CASE h # f
    <3>1. EventsOf(h)' = EventsOf(h)
      BY Zenon, <1>1, <2>1, <2>3, OtherGroups DEF f
    <3>2. purged'[h] = purged[h]
      BY <1>1, <2>3 DEF GroupInv, GroupingTypeOK
    <3>3. QED
      BY <1>4, <2>1, <3>1, <3>2 DEF Counted
  <2>4. QED
    BY <2>2, <2>3
<1>5. QED
  BY <1>1, <1>3, <1>4 DEF CountsInv

LEMMA CountsOfGroup ==
    ASSUME GroupInv, CountsInv, NEW f \in Fingerprints, RetainIssue(f)
    PROVE  CountsInv'
<1>1. /\ EventsOf(f) = {}
      /\ issue' = [issue EXCEPT ![f] = None]
      /\ purged' = [purged EXCEPT ![f] = 0]
      /\ UNCHANGED <<eventIssue, eventVersion, repeated>>
      /\ \A p \in Reprocessors : pass[p] = None => pass'[p] = None
  BY DEF RetainIssue, events
<1>2. ASSUME NEW p \in Reprocessors, Current(p) PROVE Current(p)'
  <2>1. CASE pass[p] = None
    BY <1>1, <2>1 DEF Current
  <2>2. CASE pass[p] # None
    <3>1. /\ pass'[p].event = pass[p].event /\ pass'[p].step = pass[p].step
          /\ pass'[p].seen = pass[p].seen
          /\ pass'[p].from = IF pass[p].from = f THEN None ELSE pass[p].from
      BY <2>2, ForgottenPass DEF GroupInv
    <3>2. pass[p].event \in ErrorEvents
      BY <2>2, PassTypes DEF GroupInv
    <3>3. eventIssue[pass[p].event] # f
      BY <1>1, <3>2 DEF EventsOf
    <3>4. QED
      BY <1>1, <1>2, <2>2, <3>1, <3>3 DEF Current, Stored
  <2>3. QED
    BY <2>1, <2>2
<1>3. ASSUME NEW h \in Fingerprints, Counted(h) PROVE Counted(h)'
  <2>1. EventsOf(h)' = EventsOf(h)
    BY <1>1 DEF EventsOf
  <2>2. CASE h = f
    <3>1. issue'[h] = None /\ purged'[h] = 0
      BY <1>1, <2>2 DEF GroupInv, GroupingTypeOK
    <3>2. QED
      BY <1>1, <1>3, <2>1, <2>2, <3>1 DEF Counted
  <2>3. CASE h # f
    <3>1. issue'[h] = issue[h] /\ purged'[h] = purged[h]
      BY <1>1, <2>3 DEF GroupInv, GroupingTypeOK
    <3>2. QED
      BY <1>3, <2>1, <3>1 DEF Counted
  <2>4. QED
    BY <2>2, <2>3
<1>4. QED
  BY <1>1, <1>2, <1>3 DEF CountsInv

LEMMA CountsOfOthers ==
    ASSUME GroupInv, PageShown, CountsInv,
           \/ Others
           \/ \E e \in ErrorEvents : Waiting(e)
           \/ \E chosen \in IssueStatuses : ChangeStatus(chosen)
    PROVE  CountsInv'
<1>1. UNCHANGED <<eventIssue, eventVersion, purged, repeated, pass>>
  BY DEF Others, RemoveMaps, PublishMaps, OpenPage, Tick, RetainActivity, RetainHistory,
         Waiting, Receive, VersionJob, ResolveJob, ResolveAgain, DeadLetter,
         ChangeStatus, events, tallies
<1>2. CASE UNCHANGED issue
  BY <1>1, <1>2, CountsStand
<1>3. ASSUME NEW chosen \in IssueStatuses, ChangeStatus(chosen) PROVE CountsInv'
  <2>1. PICK f \in Fingerprints, row \in IssueRows :
              /\ f = page.issue /\ issue[f] \in IssueRows
              /\ issue' = [issue EXCEPT ![f] = row]
              /\ row.count = issue[f].count
    BY <1>3, StatusRow
  <2>2. ASSUME NEW g \in Fingerprints
        PROVE  /\ issue'[g] = None <=> issue[g] = None
               /\ issue[g] # None => issue'[g].count = issue[g].count
    BY <2>1, GroupingAssumption DEF GroupInv, GroupingTypeOK
  <2>3. QED
    BY <1>1, <2>2, CountsStand
<1>4. QED
  BY <1>2, <1>3 DEF Others, RemoveMaps, PublishMaps, OpenPage, Tick, RetainActivity, RetainHistory,
         Waiting, Receive, VersionJob, ResolveJob, ResolveAgain, DeadLetter

LEMMA CountStep == GroupCountInv /\ [GroupingNext]_groupingVars => GroupCountInv'
<1> SUFFICES ASSUME GroupCountInv, [GroupingNext]_groupingVars PROVE GroupCountInv'
  OBVIOUS
<1>1. GroupPageInv' /\ GroupInv /\ PageShown /\ VersionsInv /\ CountsInv
  BY GroupStep DEF GroupCountInv, GroupPageInv, PageInv
<1>2. CASE UNCHANGED groupingVars
  <2>1. UNCHANGED <<eventIssue, eventVersion, purged, repeated, pass, issue, version, work>>
    BY <1>2 DEF groupingVars, events, tallies
  <2>2. CountsInv'
    BY <1>1, <2>1, CountsStand
  <2>3. VersionsInv'
    BY <1>1, <2>1 DEF VersionsInv, Behind, Following
  <2>4. QED
    BY <1>1, <2>2, <2>3 DEF GroupCountInv
<1>3. CASE GroupingNext
  <2>1. ASSUME NEW e \in ErrorEvents, Job(e) PROVE VersionsInv' /\ CountsInv'
    <3>1. CommitJob(e) \/ Waiting(e)
      BY <2>1 DEF Job, Waiting
    <3>2. QED
      BY <1>1, <2>1, <3>1, VersionsOfJobs, CountsOfJob, CountsOfOthers
  <2>2. ASSUME NEW p \in Reprocessors, Reprocess(p) PROVE VersionsInv' /\ CountsInv'
    BY <1>1, <2>2, PassLearns, ProgressCounts, VersionsOfCommit, CountsOfCommit
  <2>3. ASSUME Others PROVE VersionsInv' /\ CountsInv'
    BY <1>1, <2>3, VersionsOfOthers, CountsOfOthers
  <2>4. ASSUME NEW chosen \in {"open", "resolved"}, ChangeStatus(chosen)
        PROVE  VersionsInv' /\ CountsInv'
    BY <1>1, <2>4, VersionsOfOthers, CountsOfOthers DEF IssueStatuses
  <2>5. ASSUME NEW e \in ErrorEvents, RetainErrorEvent(e) PROVE VersionsInv' /\ CountsInv'
    BY <1>1, <2>5, VersionsOfOthers, CountsOfRetention
  <2>6. ASSUME NEW f \in Fingerprints, RetainIssue(f) PROVE VersionsInv' /\ CountsInv'
    BY <1>1, <2>6, VersionsOfOthers, CountsOfGroup
  <2>7. \/ \E e \in ErrorEvents : Job(e)
        \/ \E p \in Reprocessors : Reprocess(p)
        \/ Others
        \/ \E chosen \in {"open", "resolved"} : ChangeStatus(chosen)
        \/ \E e \in ErrorEvents : RetainErrorEvent(e)
        \/ \E f \in Fingerprints : RetainIssue(f)
    BY <1>3 DEF GroupingNext, RetainBatch, Others
  <2>8. VersionsInv' /\ CountsInv'
    BY <2>1, <2>2, <2>3, <2>4, <2>5, <2>6, <2>7
  <2>9. QED
    BY <1>1, <2>8 DEF GroupCountInv
<1>4. QED
  BY <1>2, <1>3

LEMMA GroupCountHolds == GroupingSpec => []GroupCountInv
<1>1. GroupingInit => GroupCountInv
  BY GroupInit, CountInit DEF GroupCountInv, GroupPageInv, GroupingInit, PageInv, PageShown, PageAdds
<1>2. QED
  BY <1>1, CountStep, PTL DEF GroupingSpec

\* As long as every pass wrote a newer version than it had read, the count of a
\* group is its retained events plus those retention removed, whatever commits,
\* moves or is retained in whatever order (the final transaction of a job,
\* reprocessOneEvent and retainBatch).  A pass that writes the version it had
\* read ends that: its event passes the fence of another pass that no longer
\* knows the group the event is in.
THEOREM CountsAlwaysMatch == GroupingSpec => []CountsMatchEvents
<1>1. GroupCountInv => CountsMatchEvents
  BY DEF GroupCountInv, CountsInv, Counted, CountsMatchEvents
<1>2. QED
  BY <1>1, GroupCountHolds, PTL

-----------------------------------------------------------------------------
(* The history of a group.                                                 *)

\* The row has seen the event: it starts no later and ends no sooner.
Covers(row, e) == row # None /\ ~Before(e, row.first) /\ ~Before(row.last, e)

\* The observations a row names are among these events.
Within(row, ids) == row # None => row.first \in ids /\ row.last \in ids

\* The row is the group's own and no other group took it over.
Owned(row, f) == row.issue = f /\ row.canonical

\* (receivedAt, eventId) is a total order.
LEMMA BeforeOrder ==
    ASSUME GroupingTypeOK, NEW a \in ErrorEvents, NEW b \in ErrorEvents, NEW c \in ErrorEvents
    PROVE  /\ ~Before(a, a)
           /\ Before(a, b) => ~Before(b, a)
           /\ ~Before(a, b) => at[b] <= at[a]
           /\ ~Before(a, b) /\ ~Before(b, c) => ~Before(a, c)
<1>1. at[a] \in Nat /\ at[b] \in Nat /\ at[c] \in Nat
  BY AtType
<1>2. a \in Nat /\ b \in Nat /\ c \in Nat
  BY GroupingAssumption
<1>3. QED
  BY <1>1, <1>2 DEF Before

\* What the trigger makes of two rows has seen whatever one of them had.
LEMMA UpsertCovers ==
    ASSUME GroupingTypeOK, NEW old \in HistoryRows \cup {None}, NEW new \in HistoryRows,
           NEW e \in ErrorEvents, NEW ids
    PROVE  LET row == Upsert(old, new)
           IN /\ row \in HistoryRows /\ row # None
              /\ row.issue = new.issue /\ row.canonical = new.canonical
              /\ Covers(new, e) => Covers(row, e)
              /\ Covers(old, e) => Covers(row, e)
              /\ Within(old, ids) /\ Within(new, ids) => Within(row, ids)
<1> DEFINE row == Upsert(old, new)
<1>1. row \in HistoryRows /\ row # None /\ new # None
  BY MergeRowType, GroupingAssumption
<1>2. CASE old = None
  <2>1. row = new
    BY <1>2 DEF Upsert
  <2>2. QED
    BY <1>1, <1>2, <2>1 DEF Covers
<1>3. CASE old # None
  <2>1. old \in HistoryRows
    BY <1>3
  <2>2. /\ old.first \in ErrorEvents /\ old.last \in ErrorEvents
        /\ new.first \in ErrorEvents /\ new.last \in ErrorEvents
    BY <2>1 DEF HistoryRows
  <2>3. /\ row.issue = new.issue /\ row.canonical = new.canonical
        /\ row.first = Earlier(old.first, new.first)
        /\ row.last = Later(old.last, new.last)
    BY <1>3 DEF Upsert, MergeRow
  <2> HIDE DEF row
  <2>4. /\ row.first \in {old.first, new.first} /\ row.last \in {old.last, new.last}
        /\ ~Before(old.first, row.first) /\ ~Before(new.first, row.first)
        /\ ~Before(row.last, old.last) /\ ~Before(row.last, new.last)
    BY <2>2, <2>3, BeforeOrder DEF Earlier, Later
  <2>5. Covers(new, e) => Covers(row, e)
    BY <1>1, <2>2, <2>4, BeforeOrder DEF Covers
  <2>6. Covers(old, e) => Covers(row, e)
    BY <1>1, <1>3, <2>2, <2>4, BeforeOrder DEF Covers
  <2>7. Within(old, ids) /\ Within(new, ids) => Within(row, ids)
    BY <1>1, <1>3, <2>4 DEF Within
  <2>8. QED
    BY <1>1, <2>3, <2>5, <2>6, <2>7 DEF row
<1>4. QED
  BY <1>2, <1>3

LEMMA ObserveCell ==
    ASSUME NEW h \in Histories, NEW g \in Fingerprints, NEW observed \in Fingerprints,
           NEW e \in ErrorEvents, NEW known \in BOOLEAN,
           NEW f \in Fingerprints, NEW v \in Envs
    PROVE  LET old == h[f][v]
               fresh == IF old # None /\ at[old.last] < at[e] - HistoryTTL THEN None ELSE old
               seen == [issue |-> g, canonical |-> f = g, first |-> e, last |-> e,
                        known |-> known]
           IN Observe(h, g, e, observed, known)[f][v] =
                IF f \in {g, observed} /\ v = Env[e] THEN Upsert(fresh, seen) ELSE old
<1>1. h[f] \in [Envs -> HistoryRows \cup {None}]
  BY DEF Histories
<1>2. QED
  BY <1>1 DEF Observe

\* What an observation does to one row of a history.
LEMMA ObserveCovers ==
    ASSUME GroupingTypeOK,
           NEW h \in Histories, NEW g \in Fingerprints, NEW observed \in Fingerprints,
           NEW e \in ErrorEvents, NEW known \in BOOLEAN,
           NEW f \in Fingerprints, NEW v \in Envs, NEW d \in ErrorEvents, NEW ids
    PROVE  LET old == h[f][v]
               new == Observe(h, g, e, observed, known)[f][v]
           IN /\ f \in {g, observed} /\ v = Env[e] => new # None /\ new.issue = g
              /\ f = g /\ v = Env[e] => Covers(new, e) /\ Owned(new, g)
              /\ ~(f \in {g, observed} /\ v = Env[e]) => new = old
              /\ Covers(old, d) /\ at[d] >= at[e] - HistoryTTL => Covers(new, d)
              /\ Within(old, ids) /\ e \in ids => Within(new, ids)
<1> DEFINE old == h[f][v]
           new == Observe(h, g, e, observed, known)[f][v]
           fresh == IF old # None /\ at[old.last] < at[e] - HistoryTTL THEN None ELSE old
           seen == [issue |-> g, canonical |-> f = g, first |-> e, last |-> e,
                    known |-> known]
<1>1. new = IF f \in {g, observed} /\ v = Env[e] THEN Upsert(fresh, seen) ELSE old
  BY ObserveCell
<1>2. old \in HistoryRows \cup {None} /\ fresh \in HistoryRows \cup {None}
  BY DEF Histories
<1>3. seen \in HistoryRows
  BY DEF HistoryRows
<1>4. /\ seen # None /\ seen.issue = g /\ seen.first = e /\ seen.last = e
      /\ f = g => seen.canonical
  BY Zenon, <1>3, GroupingAssumption
<1>5. fresh = old \/ (fresh = None /\ old # None /\ at[old.last] < at[e] - HistoryTTL)
  OBVIOUS
<1> HIDE DEF old, new, fresh, seen
<1>6. CASE ~(f \in {g, observed} /\ v = Env[e])
  BY <1>1, <1>6 DEF new, old
<1>7. CASE f \in {g, observed} /\ v = Env[e]
  <2>1. new = Upsert(fresh, seen)
    BY <1>1, <1>7
  <2>2. /\ new # None
        /\ new.issue = seen.issue /\ new.canonical = seen.canonical
        /\ Covers(seen, e) => Covers(new, e)
        /\ Covers(fresh, d) => Covers(new, d)
        /\ Within(fresh, ids) /\ Within(seen, ids) => Within(new, ids)
    BY <1>2, <1>3, <2>1, UpsertCovers
  <2>3. Covers(seen, e)
    BY <1>4, BeforeOrder DEF Covers
  <2>4. ASSUME Covers(old, d), at[d] >= at[e] - HistoryTTL PROVE Covers(new, d)
    <3>1. old \in HistoryRows /\ ~Before(old.last, d)
      BY <1>2, <2>4 DEF Covers
    <3>2. old.last \in ErrorEvents
      BY <3>1 DEF HistoryRows
    <3>3. at[d] <= at[old.last]
      BY <3>1, <3>2, BeforeOrder
    <3>4. at[d] \in Nat /\ at[old.last] \in Nat /\ at[e] \in Nat /\ HistoryTTL \in Nat
      BY Zenon, <3>2, AtType, GroupingAssumption
    <3>5. fresh = old
      BY <1>5, <2>4, <3>3, <3>4
    <3>6. QED
      BY <2>2, <2>4, <3>5
  <2>5. ASSUME Within(old, ids), e \in ids PROVE Within(new, ids)
    <3>1. Within(fresh, ids)
      BY <1>5, <2>5 DEF Within
    <3>2. Within(seen, ids)
      BY <1>4, <2>5 DEF Within
    <3>3. QED
      BY <2>2, <3>1, <3>2
  <2>6. f = g => Owned(new, g)
    BY <1>4, <2>2 DEF Owned
  <2>7. QED
    BY <1>4, <1>7, <2>2, <2>3, <2>4, <2>5, <2>6 DEF new, old
<1>8. QED
  BY <1>6, <1>7

\* What the transfer of a group's history does to one row.
LEMMA TransferCovers ==
    ASSUME GroupingTypeOK, NEW h \in Histories, NEW from \in Fingerprints, NEW to \in Fingerprints,
           NEW f \in Fingerprints, NEW v \in Envs, NEW d \in ErrorEvents, NEW ids
    PROVE  LET old == h[f][v]
               lost == h[from][v]
               new == Transfer(h, from, to)[f][v]
           IN /\ Covers(old, d) => Covers(new, d)
              /\ old # None /\ Owned(old, f) /\ f # from => Owned(new, f)
              /\ new # None =>
                    \/ old # None /\ new.issue = old.issue
                    \/ new.issue = to /\ old # None /\ old.issue = from
                    \/ new.issue = to /\ f = to /\ lost # None /\ lost.issue = from
              /\ Within(old, ids) /\ Within(lost, ids) => Within(new, ids)
<1> DEFINE old == h[f][v]
           lost == h[from][v]
           moved == lost # None /\ lost.issue = from /\ lost.canonical
           new == Transfer(h, from, to)[f][v]
           given == [lost EXCEPT !.issue = to]
           alias == [old EXCEPT !.issue = to, !.canonical = FALSE]
<1>1. new = IF f = to /\ moved THEN Upsert(h[to][v], given)
            ELSE IF old # None /\ old.issue = from THEN alias ELSE old
  BY DEF Transfer
<1>2. old \in HistoryRows \cup {None} /\ lost \in HistoryRows \cup {None}
  BY DEF Histories
<1> HIDE DEF old, lost, new
<1>3. CASE f = to /\ moved
  <2>1. /\ given \in HistoryRows /\ given # None /\ given.issue = to
        /\ given.canonical = lost.canonical
        /\ given.first = lost.first /\ given.last = lost.last
    BY Zenon, <1>2, <1>3, GroupingAssumption DEF HistoryRows
  <2>2. new = Upsert(old, given)
    BY <1>1, <1>3 DEF old
  <2> HIDE DEF given, moved
  <2>3. /\ new # None /\ new.issue = given.issue /\ new.canonical = given.canonical
        /\ Covers(old, d) => Covers(new, d)
        /\ Within(old, ids) /\ Within(given, ids) => Within(new, ids)
    BY <1>2, <2>1, <2>2, UpsertCovers
  <2>4. lost # None /\ lost.issue = from /\ lost.canonical
    BY <1>3 DEF moved
  <2>5. Owned(new, to)
    BY <2>1, <2>3, <2>4 DEF Owned
  <2>6. Within(lost, ids) => Within(given, ids)
    BY <2>1, <2>4 DEF Within
  <2>7. QED
    BY <1>3, <2>1, <2>3, <2>4, <2>5, <2>6 DEF old, lost, new
<1>4. CASE ~(f = to /\ moved) /\ old # None /\ old.issue = from
  <2>1. /\ alias \in HistoryRows /\ alias # None /\ alias.issue = to
        /\ alias.first = old.first /\ alias.last = old.last
    BY Zenon, <1>2, <1>4, GroupingAssumption DEF HistoryRows
  <2>2. new = alias
    BY <1>1, <1>4
  <2> HIDE DEF alias, moved
  <2>3. Covers(old, d) => Covers(new, d)
    BY <2>1, <2>2 DEF Covers
  <2>4. Within(old, ids) => Within(new, ids)
    BY <1>4, <2>1, <2>2 DEF Within
  <2>5. QED
    BY <1>4, <2>1, <2>2, <2>3, <2>4 DEF old, lost, new, Owned
<1>5. CASE ~(f = to /\ moved) /\ ~(old # None /\ old.issue = from)
  <2>1. new = old
    BY <1>1, <1>5
  <2>2. QED
    BY <2>1 DEF old, lost, new, Owned
<1>6. QED
  BY <1>3, <1>4, <1>5

\* Every observation a row names was committed, so its time stands.
Committed == {e \in ErrorEvents : inbox[e] = "done"}

Placed == \A f \in Fingerprints, v \in Envs : Within(history[f][v], Committed)

Timely == \A e \in ErrorEvents : at[e] <= now

\* An event is in a group, or a pass that read it there may put it back.
Claims(f, e) ==
    \/ eventIssue[e] = f
    \/ \E p \in Reprocessors : pass[p] # None /\ pass[p].event = e /\ pass[p].from = f

Retained(f, e) == Claims(f, e) /\ ~Expired(at[e], EventTTL)

Held == \A f \in Fingerprints, e \in ErrorEvents :
           Retained(f, e) => Covers(history[f][Env[e]], e)

HistoryInv == Placed /\ Timely /\ Held

LEMMA HistoryInit == GroupingInit => HistoryInv
<1> SUFFICES ASSUME GroupingInit PROVE HistoryInv
  OBVIOUS
<1>1. Placed
  BY DEF GroupingInit, Placed, Within
<1>2. Timely
  BY DEF GroupingInit, Timely
<1>3. Held
  BY GroupingAssumption DEF GroupingInit, Held, Retained, Claims
<1>4. QED
  BY <1>1, <1>2, <1>3 DEF HistoryInv

\* What a group claims was committed.
LEMMA ClaimedDone ==
    ASSUME GroupInv, NEW f \in Fingerprints, NEW e \in ErrorEvents, Claims(f, e)
    PROVE  inbox[e] = "done"
<1>1. CASE eventIssue[e] = f
  BY <1>1, GroupingAssumption DEF GroupInv, Spanned, Stored
<1>2. CASE \E p \in Reprocessors : pass[p] # None /\ pass[p].event = e /\ pass[p].from = f
  BY <1>2 DEF GroupInv, Known
<1>3. QED
  BY <1>1, <1>2 DEF Claims

\* A row keeps what it spans, if it stays.
SameRow(f, v) ==
    history'[f][v] # None =>
        /\ history[f][v] # None
        /\ history'[f][v].first = history[f][v].first
        /\ history'[f][v].last = history[f][v].last

\* No group claims another event.
NoNewClaims == \A f \in Fingerprints, e \in ErrorEvents : Claims(f, e)' => Claims(f, e)

\* A claim that is retained was retained in every earlier state since it was made.
LEMMA RetainedBefore ==
    ASSUME GroupingTypeOK, GroupingTypeOK', now <= now',
           NEW f \in Fingerprints, NEW e \in ErrorEvents, at'[e] = at[e],
           Claims(f, e), Retained(f, e)'
    PROVE  Retained(f, e)
<1>1. ~(at'[e] < now' - EventTTL)
  BY DEF Retained, Expired
<1>2. at[e] \in Nat /\ now \in Int /\ now' \in Int /\ EventTTL \in Nat
  BY AtType, GroupingAssumption DEF GroupingTypeOK
<1>3. ~(at[e] < now - EventTTL)
  BY <1>1, <1>2
<1>4. QED
  BY <1>3 DEF Retained, Expired

\* No event joins a group and no row of a retained event goes.
LEMMA RowsStand ==
    ASSUME GroupInv, HistoryInv, GroupingTypeOK', now <= now', Timely', Standing, NoNewClaims,
           \A f \in Fingerprints, v \in Envs : SameRow(f, v),
           \A f \in Fingerprints, e \in ErrorEvents :
              Retained(f, e) => history'[f][Env[e]] # None
    PROVE  HistoryInv'
<1>1. Placed'
  <2> SUFFICES ASSUME NEW f \in Fingerprints, NEW v \in Envs PROVE Within(history[f][v], Committed)'
    BY DEF Placed
  <2>1. Within(history[f][v], Committed) /\ SameRow(f, v)
    BY DEF HistoryInv, Placed
  <2>2. Committed \subseteq Committed'
    BY DEF Committed, Standing
  <2>3. QED
    BY <2>1, <2>2 DEF Within, SameRow
<1>2. ASSUME NEW f \in Fingerprints, NEW e \in ErrorEvents, Retained(f, e)'
      PROVE  Covers(history[f][Env[e]], e)'
  <2>1. Claims(f, e)
    BY <1>2 DEF NoNewClaims, Retained
  <2>2. at'[e] = at[e]
    BY <2>1, ClaimedDone DEF Standing
  <2>3. Retained(f, e)
    BY <1>2, <2>1, <2>2, RetainedBefore DEF GroupInv
  <2> DEFINE row == history[f][Env[e]]
  <2>4. /\ Env[e] \in Envs /\ Covers(row, e) /\ SameRow(f, Env[e]) /\ Within(row, Committed)
        /\ history'[f][Env[e]] # None
    BY <2>3, GroupingAssumption DEF HistoryInv, Held, Placed
  <2>5. PICK first \in Committed, last \in Committed : row.first = first /\ row.last = last
    BY <2>4 DEF Covers, Within
  <2>6. history'[f][Env[e]].first = first /\ history'[f][Env[e]].last = last
    BY <2>4, <2>5 DEF SameRow
  <2>7. at'[first] = at[first] /\ at'[last] = at[last]
    BY <2>5 DEF Committed, Standing
  <2>8. ~Before(e, first) /\ ~Before(last, e)
    BY <2>4, <2>5 DEF Covers
  <2>9. ~Before(e, first)' /\ ~Before(last, e)'
    BY <2>2, <2>7, <2>8 DEF Before
  <2>10. QED
    BY <2>4, <2>6, <2>9 DEF Covers, Before
<1>3. Held'
  BY <1>2 DEF Held
<1>4. QED
  BY <1>1, <1>3 DEF HistoryInv

LEMMA HistoryStands ==
    ASSUME GroupInv, HistoryInv, GroupingTypeOK', now <= now', Timely', Standing, NoNewClaims,
           UNCHANGED history
    PROVE  HistoryInv'
<1>1. \A f \in Fingerprints, v \in Envs : SameRow(f, v)
  BY DEF SameRow
<1>2. \A f \in Fingerprints, e \in ErrorEvents : Retained(f, e) => history'[f][Env[e]] # None
  BY DEF HistoryInv, Held, Covers
<1>3. QED
  BY <1>1, <1>2, RowsStand

\* Retention of history waits longer than retention of events.
LEMMA OldRow ==
    ASSUME GroupInv, HistoryInv, NEW f \in Fingerprints, NEW e \in ErrorEvents, Retained(f, e),
           NEW row, row = history[f][Env[e]]
    PROVE  /\ row \in HistoryRows /\ Covers(row, e)
           /\ ~Expired(at[row.last], HistoryTTL)
           /\ \A d \in ErrorEvents : at[e] >= at[d] - HistoryTTL
<1>1. Covers(row, e)
  BY DEF HistoryInv, Held
<1>2. row \in HistoryRows
  <2>1. Env[e] \in Envs
    BY GroupingAssumption
  <2>2. QED
    BY <1>1, <2>1 DEF Covers, GroupInv, GroupingTypeOK
<1>3. row.last \in ErrorEvents
  BY <1>2 DEF HistoryRows
<1>4. at[e] <= at[row.last]
  BY <1>1, <1>3, BeforeOrder DEF Covers, GroupInv
<1>5. /\ at[e] \in Nat /\ at[row.last] \in Nat /\ now \in Int
      /\ EventTTL \in Nat /\ HistoryTTL \in Nat /\ EventTTL <= HistoryTTL
  <2>1. GroupingTypeOK
    BY DEF GroupInv
  <2>2. at[e] \in Nat /\ at[row.last] \in Nat
    BY <1>3, <2>1, AtType
  <2>3. now \in 0..MaxNow
    BY <2>1 DEF GroupingTypeOK
  <2>4. now \in Int
    BY <2>3
  <2>5. QED
    BY <2>2, <2>4, GroupingAssumption
<1>6. ~(at[e] < now - EventTTL)
  BY DEF Retained, Expired
<1>7. ASSUME NEW d \in ErrorEvents PROVE at[e] >= at[d] - HistoryTTL
  <2>1. at[d] <= now /\ at[d] \in Nat
    BY AtType DEF HistoryInv, Timely, GroupInv
  <2>2. QED
    BY <1>5, <1>6, <2>1
<1>8. ~Expired(at[row.last], HistoryTTL)
  BY <1>4, <1>5, <1>6 DEF Expired
<1>9. QED
  BY <1>1, <1>2, <1>7, <1>8

LEMMA KeptRow ==
    ASSUME GroupingTypeOK, NEW h \in Histories, NEW g \in Fingerprints, NEW new,
           NEW f \in Fingerprints, NEW v \in Envs, NEW d \in ErrorEvents, NEW ids,
           \A x \in Fingerprints : Within(h[x][v], ids),
           new = h \/ \E from \in Fingerprints : new = Transfer(h, from, g)
    PROVE  (Covers(h[f][v], d) => Covers(new[f][v], d)) /\ Within(new[f][v], ids)
<1>1. CASE new = h
  BY <1>1
<1>2. ASSUME NEW from \in Fingerprints, new = Transfer(h, from, g)
      PROVE  (Covers(h[f][v], d) => Covers(new[f][v], d)) /\ Within(new[f][v], ids)
  <2>1. Within(h[f][v], ids) /\ Within(h[from][v], ids)
    OBVIOUS
  <2>2. QED
    BY <1>2, <2>1, TransferCovers
<1>3. QED
  BY <1>1, <1>2

\* One group claims one more event.
Joins(g, e) ==
    \A f \in Fingerprints, d \in ErrorEvents :
       Claims(f, d)' => Claims(f, d) \/ (f = g /\ d = e)

\* An observation is all of the new history, or a transfer follows it.
Written(h, g) == history' = h \/ \E from \in Fingerprints : history' = Transfer(h, from, g)

\* An event is committed to a group and observed there.
LEMMA ObservationHolds ==
    ASSUME GroupInv, HistoryInv, UNCHANGED <<now, at>>, Standing,
           NEW e \in ErrorEvents, NEW g \in Fingerprints, NEW observed \in Fingerprints,
           NEW known \in BOOLEAN, NEW h, h = Observe(history, g, e, observed, known),
           inbox'[e] = "done", Joins(g, e), Written(h, g)
    PROVE  HistoryInv'
<1>1. GroupingTypeOK /\ history \in Histories
  BY DEF GroupInv, GroupingTypeOK, Histories
<1>2. h \in Histories
  BY <1>1, ObserveType
<1>3. Committed \subseteq Committed' /\ e \in Committed'
  BY DEF Committed, Standing
<1>4. ASSUME NEW f \in Fingerprints, NEW v \in Envs PROVE Within(h[f][v], Committed')
  <2>1. Within(history[f][v], Committed')
    BY <1>3 DEF HistoryInv, Placed, Within
  <2>2. QED
    BY <1>1, <1>3, <2>1, ObserveCovers
<1>5. ASSUME NEW f \in Fingerprints, NEW v \in Envs, NEW d \in ErrorEvents
      PROVE  /\ Covers(h[f][v], d) => Covers(history'[f][v], d)
             /\ Within(history'[f][v], Committed')
  <2>1. PICK ids : ids = Committed'
    OBVIOUS
  <2>2. \A x \in Fingerprints : Within(h[x][v], ids)
    BY <1>4, <2>1
  <2>3. PICK new : new = history'
    OBVIOUS
  <2>4. new = h \/ \E from \in Fingerprints : new = Transfer(h, from, g)
    BY Zenon, <2>3 DEF Written
  <2>5. (Covers(h[f][v], d) => Covers(new[f][v], d)) /\ Within(new[f][v], ids)
    BY <1>1, <1>2, <2>2, <2>4, KeptRow
  <2>6. QED
    BY <2>1, <2>3, <2>5
<1>6. Placed'
  <2>1. e \in ErrorEvents
    OBVIOUS
  <2>2. ASSUME NEW f \in Fingerprints, NEW v \in Envs PROVE Within(history'[f][v], Committed')
    BY <1>5, <2>1
  <2>3. QED
    BY <2>2 DEF Placed, Within
<1>7. Timely'
  BY DEF HistoryInv, Timely
<1>8. ASSUME NEW f \in Fingerprints, NEW d \in ErrorEvents, Retained(f, d)'
      PROVE  Covers(history'[f][Env[d]], d)
  <2>1. Env[d] \in Envs
    BY GroupingAssumption
  <2>2. CASE f = g /\ d = e
    <3>1. Covers(h[g][Env[e]], e)
      BY <1>1, <2>1, <2>2, ObserveCovers
    <3>2. QED
      BY <1>5, <2>1, <2>2, <3>1
  <2>3. CASE Claims(f, d)
    <3>1. Retained(f, d)
      BY <1>8, <2>3 DEF Retained, Expired
    <3>2. Covers(history[f][Env[d]], d) /\ at[d] >= at[e] - HistoryTTL
      BY <3>1, OldRow
    <3>3. Covers(h[f][Env[d]], d)
      BY <1>1, <2>1, <3>2, ObserveCovers
    <3>4. QED
      BY <1>5, <2>1, <3>3
  <2>4. QED
    BY <1>8, <2>2, <2>3 DEF Retained, Joins
<1>9. Held'
  BY <1>8 DEF Held, Covers, Before
<1>10. QED
  BY <1>6, <1>7, <1>9 DEF HistoryInv

LEMMA HistoryCommit ==
    ASSUME GroupInv, HistoryInv, NEW e \in ErrorEvents, CommitJob(e)
    PROVE  HistoryInv'
<1>1. GroupingTypeOK
  BY DEF GroupInv
<1>2. PICK g \in Fingerprints, observed \in Fingerprints :
          /\ eventIssue' = [eventIssue EXCEPT ![e] = g]
          /\ history' = Observe(history, g, e, observed, TRUE)
  BY <1>1, CommitRow
<1>3. UNCHANGED <<now, at, pass>> /\ inbox' = [inbox EXCEPT ![e] = "done"]
  BY DEF CommitJob, Untouched
<1>4. inbox'[e] = "done" /\ Standing
  BY <1>1, <1>3 DEF GroupingTypeOK, Standing
<1>5. Joins(g, e)
  BY <1>1, <1>2, <1>3 DEF GroupingTypeOK, Claims, Joins
<1>6. PICK h : h = Observe(history, g, e, observed, TRUE)
  OBVIOUS
<1>7. Written(h, g)
  BY <1>2, <1>6 DEF Written
<1>8. QED
  BY Zenon, <1>3, <1>4, <1>5, <1>6, <1>7, ObservationHolds

\* What the commit of a reprocessor does to the history.
LEMMA ReprocessedHistory ==
    ASSUME GroupInv, NEW p \in Reprocessors, ReprocessCommit(p), NEW e, e = pass[p].event,
           NEW to, to = FingerprintOf(e, pass[p].frames), NEW from, from = pass[p].from
    PROVE  \/ to = from /\ history' = history
           \/ \E known \in BOOLEAN :
                 LET observed == Observe(history, to, e, to, known)
                 IN  history' = observed \/ history' = Transfer(observed, from, to)
<1> DEFINE old == history[from][Env[e]]
           known == /\ old # None
                    /\ old.issue = from /\ old.canonical
                    /\ old.known
                    /\ Release[old.first] = Release[e]
           observed == Observe(history, to, e, to, known)
<1>1. to = from => history' = history
  BY Zenon DEF ReprocessCommit
<1>2. to # from => history' = observed \/ history' = Transfer(observed, from, to)
  BY Zenon DEF ReprocessCommit
<1>3. known \in BOOLEAN
  OBVIOUS
<1> HIDE DEF known
<1>4. QED
  BY <1>1, <1>2, <1>3

LEMMA HistoryReprocess ==
    ASSUME GroupInv, HistoryInv, GroupingTypeOK', NEW p \in Reprocessors, ReprocessCommit(p)
    PROVE  HistoryInv'
<1>1. PICK e \in ErrorEvents, to \in Fingerprints, from \in Fingerprints :
          /\ e = pass[p].event /\ to = FingerprintOf(e, pass[p].frames) /\ from = pass[p].from
          /\ pass[p] # None /\ inbox[e] = "done"
          /\ UNCHANGED <<now, at, inbox>>
          /\ eventIssue' = [eventIssue EXCEPT ![e] = to]
          /\ pass' = [pass EXCEPT ![p] = None]
  BY CommitPass
<1>2. Standing /\ Timely' /\ now <= now'
  BY <1>1 DEF Standing, HistoryInv, Timely, GroupInv, GroupingTypeOK
<1>3. Joins(to, e)
  BY <1>1 DEF GroupInv, GroupingTypeOK, Claims, Joins
<1>4. CASE to = from /\ history' = history
  <2>1. Claims(to, e)
    BY <1>1, <1>4 DEF Claims
  <2>2. NoNewClaims
    BY <1>3, <2>1 DEF NoNewClaims, Joins
  <2>3. QED
    BY <1>2, <1>4, <2>2, HistoryStands
<1>5. ASSUME NEW known \in BOOLEAN,
             \/ history' = Observe(history, to, e, to, known)
             \/ history' = Transfer(Observe(history, to, e, to, known), from, to)
      PROVE  HistoryInv'
  <2>1. PICK h : h = Observe(history, to, e, to, known)
    OBVIOUS
  <2>2. inbox'[e] = "done"
    BY <1>1
  <2>3. Written(h, to)
    BY Zenon, <1>1, <1>5, <2>1 DEF Written
  <2>4. UNCHANGED <<now, at>>
    BY <1>1
  <2>5. QED
    BY Zenon, <1>2, <1>3, <2>1, <2>2, <2>3, <2>4, ObservationHolds
<1>6. QED
  BY <1>1, <1>4, <1>5, ReprocessedHistory

\* A row of a retained event is not old enough to be removed.
LEMMA HistoryRetains ==
    ASSUME GroupInv, HistoryInv, GroupingTypeOK', NEW f \in Fingerprints, NEW v \in Envs,
           RetainHistory(f, v)
    PROVE  HistoryInv'
<1>1. /\ Expired(at[history[f][v].last], HistoryTTL)
      /\ history' = [history EXCEPT ![f][v] = None]
      /\ UNCHANGED <<now, at, inbox, eventIssue, pass>>
  BY DEF RetainHistory, Untouched, events
<1>2. ASSUME NEW g \in Fingerprints, NEW w \in Envs
      PROVE  history'[g][w] = IF g = f /\ w = v THEN None ELSE history[g][w]
  BY <1>1 DEF GroupInv, GroupingTypeOK
<1>3. \A g \in Fingerprints, w \in Envs : SameRow(g, w)
  BY <1>2 DEF SameRow
<1>4. ASSUME NEW g \in Fingerprints, NEW e \in ErrorEvents, Retained(g, e)
      PROVE  history'[g][Env[e]] # None
  <2>1. PICK row : row = history[g][Env[e]]
    OBVIOUS
  <2>2. Covers(row, e) /\ ~Expired(at[row.last], HistoryTTL) /\ Env[e] \in Envs
    BY <1>4, <2>1, OldRow, GroupingAssumption
  <2>3. ~(g = f /\ Env[e] = v)
    BY <1>1, <2>1, <2>2
  <2>4. QED
    BY <1>2, <2>1, <2>2, <2>3 DEF Covers
<1>5. Timely' /\ now <= now' /\ Standing /\ NoNewClaims
  BY <1>1 DEF HistoryInv, Timely, GroupInv, GroupingTypeOK, Standing, NoNewClaims, Claims
<1>6. QED
  BY <1>3, <1>4, <1>5, RowsStand

\* The history outlives its group.
LEMMA HistoryOfGroup ==
    ASSUME GroupInv, HistoryInv, GroupingTypeOK', NEW f \in Fingerprints, RetainIssue(f)
    PROVE  HistoryInv'
<1>1. /\ history' = [g \in Fingerprints |-> [v \in Envs |->
                      IF history[g][v] # None /\ history[g][v].issue = f
                      THEN [history[g][v] EXCEPT !.issue = None]
                      ELSE history[g][v]]]
      /\ UNCHANGED <<now, at, inbox, eventIssue>>
  BY DEF RetainIssue, Untouched, events
<1>2. ASSUME NEW g \in Fingerprints, NEW v \in Envs
      PROVE  SameRow(g, v) /\ (history[g][v] # None => history'[g][v] # None)
  <2> DEFINE old == history[g][v]
             cut == [old EXCEPT !.issue = None]
  <2>1. old \in HistoryRows \cup {None}
    BY DEF GroupInv, GroupingTypeOK
  <2>2. history'[g][v] = IF old # None /\ old.issue = f THEN cut ELSE old
    BY <1>1
  <2>3. CASE old # None /\ old.issue = f
    <3>1. cut \in HistoryRows /\ cut # None /\ cut.first = old.first /\ cut.last = old.last
      BY Zenon, <2>1, <2>3, GroupingAssumption DEF HistoryRows
    <3>2. QED
      BY <2>2, <2>3, <3>1 DEF SameRow
  <2>4. CASE ~(old # None /\ old.issue = f)
    BY <2>2, <2>4 DEF SameRow
  <2>5. QED
    BY <2>3, <2>4
<1>3. ASSUME NEW g \in Fingerprints, NEW e \in ErrorEvents, Retained(g, e)
      PROVE  history'[g][Env[e]] # None
  <2>1. Env[e] \in Envs /\ history[g][Env[e]] # None
    BY <1>3, GroupingAssumption DEF HistoryInv, Held, Covers
  <2>2. QED
    BY <1>2, <2>1
<1>4. NoNewClaims
  <2>1. ASSUME NEW p \in Reprocessors, pass'[p] # None, pass'[p].from \in Fingerprints
        PROVE  /\ pass[p] # None /\ pass[p].event = pass'[p].event
               /\ pass[p].from = pass'[p].from
    <3>1. pass[p] # None
      BY <2>1 DEF RetainIssue
    <3>2. pass'[p].event = pass[p].event
      BY <3>1, ForgottenPass DEF GroupInv
    <3>3. pass'[p].from = IF pass[p].from = f THEN None ELSE pass[p].from
      BY <3>1, ForgottenPass DEF GroupInv
    <3>4. QED
      BY <2>1, <3>1, <3>2, <3>3, GroupingAssumption
  <2>2. QED
    BY <1>1, <2>1 DEF NoNewClaims, Claims
<1>5. Timely' /\ now <= now' /\ Standing
  BY <1>1 DEF HistoryInv, Timely, GroupInv, GroupingTypeOK, Standing
<1>6. QED
  BY <1>2, <1>3, <1>4, <1>5, RowsStand

\* Steps of others that neither write a history nor put an event into a group.
Aside ==
    \/ \E e \in ErrorEvents : Waiting(e) \/ RetainErrorEvent(e)
    \/ \E r \in Releases : RemoveMaps(r) \/ (\E m \in MapStates : PublishMaps(r, m))
    \/ \E f \in Fingerprints : OpenPage(f)
    \/ \E chosen \in {"open", "resolved"} : ChangeStatus(chosen)
    \/ Tick
    \/ \E a \in activities : RetainActivity(a)

LEMMA HistorySteps ==
    GroupingNext =>
        \/ Aside
        \/ \E e \in ErrorEvents : CommitJob(e)
        \/ \E p \in Reprocessors : Reprocess(p)
        \/ \E f \in Fingerprints : RetainIssue(f)
        \/ \E f \in Fingerprints, v \in Envs : RetainHistory(f, v)
  BY DEF GroupingNext, Aside, Job, Waiting, RetainBatch

LEMMA AsideKeeps ==
    ASSUME GroupInv, Aside
    PROVE  /\ UNCHANGED <<history, pass>>
           /\ now' = now \/ (now' = now + 1 /\ UNCHANGED at)
           /\ Standing
           /\ \A e \in ErrorEvents : at'[e] \in {at[e], now}
           /\ \A e \in ErrorEvents : eventIssue'[e] \in {eventIssue[e], None}
<1>1. /\ inbox \in [ErrorEvents -> {"absent", "pending", "done", "dead"}]
      /\ at \in [ErrorEvents -> 0..MaxNow]
      /\ eventIssue \in [ErrorEvents -> Fingerprints \cup {None}]
  BY DEF GroupInv, GroupingTypeOK
<1>2. ASSUME NEW e \in ErrorEvents, Waiting(e)
      PROVE  /\ UNCHANGED <<now, history, eventIssue, pass>>
             /\ inbox' = inbox \/ (inbox[e] # "done" /\ \E chosen : inbox' = [inbox EXCEPT ![e] = chosen])
             /\ at' = at \/ (inbox[e] # "done" /\ at' = [at EXCEPT ![e] = now])
  BY <1>2 DEF Waiting, Receive, VersionJob, ResolveJob, ResolveAgain, DeadLetter, Untouched, events
<1>3. ASSUME NEW e \in ErrorEvents, RetainErrorEvent(e)
      PROVE  /\ UNCHANGED <<now, at, inbox, history, pass>>
             /\ eventIssue' = [eventIssue EXCEPT ![e] = None]
  BY Zenon, <1>3 DEF RetainErrorEvent, Untouched
<1>4. CASE \E e \in ErrorEvents : Waiting(e)
  <2>1. PICK e \in ErrorEvents :
             /\ UNCHANGED <<now, history, eventIssue, pass>>
             /\ inbox' = inbox \/ (inbox[e] # "done" /\ \E chosen : inbox' = [inbox EXCEPT ![e] = chosen])
             /\ at' = at \/ (inbox[e] # "done" /\ at' = [at EXCEPT ![e] = now])
    BY <1>2, <1>4
  <2>2. QED
    BY <1>1, <2>1 DEF Standing
<1>5. CASE \E e \in ErrorEvents : RetainErrorEvent(e)
  <2>1. PICK e \in ErrorEvents :
             /\ UNCHANGED <<now, at, inbox, history, pass>>
             /\ eventIssue' = [eventIssue EXCEPT ![e] = None]
    BY <1>3, <1>5
  <2>2. QED
    BY <1>1, <2>1 DEF Standing
<1>6. CASE Tick
  BY <1>6 DEF Tick, events, Standing
<1>7. CASE
        \/ \E r \in Releases : RemoveMaps(r) \/ (\E m \in MapStates : PublishMaps(r, m))
        \/ \E f \in Fingerprints : OpenPage(f)
        \/ \E chosen \in {"open", "resolved"} : ChangeStatus(chosen)
        \/ \E a \in activities : RetainActivity(a)
  <2>1. UNCHANGED <<now, at, inbox, history, eventIssue, pass>>
    BY Zenon, <1>7 DEF RemoveMaps, PublishMaps, OpenPage, ChangeStatus, RetainActivity, Untouched,
                events
  <2>2. QED
    BY <2>1 DEF Standing
<1>8. QED
  BY <1>4, <1>5, <1>6, <1>7 DEF Aside

LEMMA HistoryAside ==
    ASSUME GroupInv, HistoryInv, GroupingTypeOK', Aside
    PROVE  HistoryInv'
<1>1. now \in Nat /\ \A e \in ErrorEvents : at[e] \in Nat
  <2>1. now \in 0..MaxNow /\ GroupingTypeOK
    BY DEF GroupInv, GroupingTypeOK
  <2>2. QED
    BY <2>1, AtType
<1>2. now <= now'
  BY <1>1, AsideKeeps
<1>3. Timely'
  <2> SUFFICES ASSUME NEW e \in ErrorEvents PROVE at'[e] <= now'
    BY DEF Timely
  <2>1. at[e] <= now /\ at[e] \in Nat
    BY <1>1 DEF HistoryInv, Timely
  <2>2. QED
    BY <1>1, <2>1, AsideKeeps
<1>4. NoNewClaims
  BY AsideKeeps, GroupingAssumption DEF NoNewClaims, Claims
<1>5. QED
  BY <1>2, <1>3, <1>4, AsideKeeps, HistoryStands

\* A pass learns the group its event is in, and of no other.
LEMMA HistoryLearns ==
    ASSUME GroupInv, HistoryInv, GroupingTypeOK', NEW p \in Reprocessors,
           NEW s \in Passes \cup {None}, Progress(p, s), Learned(p, s)
    PROVE  HistoryInv'
<1>1. UNCHANGED <<now, at, inbox, history, eventIssue>> /\ pass' = [pass EXCEPT ![p] = s]
  BY DEF Progress, Untouched, events
<1>2. pass'[p] = s /\ \A q \in Reprocessors \ {p} : pass'[q] = pass[q]
  BY <1>1 DEF GroupInv, GroupingTypeOK
<1>3. Timely' /\ now <= now' /\ Standing
  BY <1>1 DEF HistoryInv, Timely, GroupInv, GroupingTypeOK, Standing
<1>4. ASSUME NEW f \in Fingerprints, NEW e \in ErrorEvents, s # None, s.event = e, s.from = f
      PROVE  Claims(f, e)
  BY <1>4, GroupingAssumption DEF Learned, Claims
<1>5. ASSUME NEW f \in Fingerprints, NEW e \in ErrorEvents, Claims(f, e)' PROVE Claims(f, e)
  <2>1. CASE eventIssue[e] = f
    BY <2>1 DEF Claims
  <2>2. ASSUME NEW q \in Reprocessors, pass'[q] # None, pass'[q].event = e, pass'[q].from = f
        PROVE  Claims(f, e)
    BY <1>2, <1>4, <2>2 DEF Claims
  <2>3. QED
    BY <1>1, <1>5, <2>1, <2>2 DEF Claims
<1>6. QED
  BY <1>1, <1>3, <1>5, HistoryStands DEF NoNewClaims

GroupHistoryInv == GroupPageInv /\ HistoryInv

LEMMA HistoryStep == GroupHistoryInv /\ [GroupingNext]_groupingVars => GroupHistoryInv'
<1> SUFFICES ASSUME GroupHistoryInv, [GroupingNext]_groupingVars PROVE GroupHistoryInv'
  OBVIOUS
<1>1. GroupPageInv' /\ GroupInv /\ HistoryInv /\ GroupingTypeOK'
  BY GroupStep DEF GroupHistoryInv, GroupPageInv, GroupInv
<1>2. CASE UNCHANGED groupingVars
  <2>1. UNCHANGED <<now, at, inbox, history, eventIssue, pass>>
    BY <1>2 DEF groupingVars, events
  <2>2. now <= now' /\ Timely' /\ Standing /\ NoNewClaims
    BY <1>1, <2>1 DEF HistoryInv, Timely, GroupInv, GroupingTypeOK, Standing, NoNewClaims, Claims
  <2>3. HistoryInv'
    BY <1>1, <2>1, <2>2, HistoryStands
  <2>4. QED
    BY <1>1, <2>3 DEF GroupHistoryInv
<1>3. CASE GroupingNext
  <2>1. ASSUME NEW p \in Reprocessors, Reprocess(p) PROVE HistoryInv'
    BY <1>1, <2>1, PassLearns, HistoryLearns, HistoryReprocess
  <2>2. HistoryInv'
    BY <1>1, <1>3, <2>1, HistorySteps, HistoryAside, HistoryCommit, HistoryOfGroup, HistoryRetains
  <2>3. QED
    BY <1>1, <2>2 DEF GroupHistoryInv
<1>4. QED
  BY <1>2, <1>3

LEMMA GroupHistoryHolds == GroupingSpec => []GroupHistoryInv
<1>1. GroupingInit => GroupHistoryInv
  BY GroupInit, HistoryInit DEF GroupHistoryInv, GroupPageInv, GroupingInit, PageInv, PageShown, PageAdds
<1>2. QED
  BY <1>1, HistoryStep, PTL DEF GroupingSpec

\* However jobs, late maps and retention are ordered, and even when a stale pass
\* puts an event back into the group it had read it in, the history of a group
\* has seen every retained event of it: a merge keeps the older first and the
\* newer last observation, a transfer loses none, and a row a retained event
\* needs is never removed or started afresh (recordIssueObservation,
\* transferIssueHistory, the trigger of issue_history and retainBatch).
THEOREM HistoryAlwaysSpans == GroupingSpec => []HistorySpansEvents
<1>1. ASSUME GroupHistoryInv, NEW e \in ErrorEvents, Stored(e), ~Expired(at[e], EventTTL)
      PROVE  Covers(history[eventIssue[e]][Env[e]], e)
  <2>1. eventIssue[e] \in Fingerprints /\ Claims(eventIssue[e], e)
    BY <1>1 DEF GroupHistoryInv, GroupPageInv, GroupInv, GroupingTypeOK, Stored, Claims
  <2>2. QED
    BY <1>1, <2>1 DEF GroupHistoryInv, HistoryInv, Held, Retained
<1>2. GroupHistoryInv => HistorySpansEvents
  BY <1>1 DEF HistorySpansEvents, Covers
<1>3. QED
  BY <1>2, GroupHistoryHolds, PTL

=============================================================================
