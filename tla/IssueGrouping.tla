---------------------------- MODULE IssueGrouping ----------------------------
(***************************************************************************)
(* Groups ("issues") of one project and their history of first and last    *)
(* observations: the effect of the final transaction of an event job       *)
(* (events.ts, issue-history.ts and the triggers they rely on), regrouping *)
(* after source maps arrive (source-maps/reprocess.ts), workflow changes   *)
(* from the dashboard (issue-workflow.ts) and the retention of events,     *)
(* activities, groups and history.                                         *)
(*                                                                         *)
(* Who may commit an event, and how often, is the subject of EventInbox;   *)
(* here a pending event commits once, with a grouping computed earlier.    *)
(* A group is identified by its fingerprint: ids of deleted groups are     *)
(* forgotten by everything that could still name them.  Projects predate   *)
(* nothing: they were created with history recording on.                   *)
(***************************************************************************)
EXTENDS Integers, FiniteSets

CONSTANTS
    ErrorEvents,        \* event ids: naturals, so that ties in receivedAt have an order
    Fingerprints,
    Envs,
    Releases,
    Env,                \* [Events -> Envs]
    Release,            \* [Events -> Releases]
    Compiled,           \* [Events -> Fingerprints]: grouping of the frames as sent
    MapStates,          \* what the ready uploads of a release may amount to
    NoMaps,             \* no ready upload
    Mapped,             \* [Events -> [MapStates -> Fingerprints \cup {NoFrames}]]
    NoFrames,           \* the maps restore no frame of the event
    Reprocessors,       \* source map loops, one per worker process
    EventTTL,           \* RETENTION_DAYS.events = .issues = .issueActivity
    HistoryTTL,         \* RETENTION_DAYS.issueHistory
    MaxNow,             \* bound of the model: ticks of the clock
    MaxVersion,         \* bound of the model: uploads published per release
    Shown,              \* bound of the model: groups whose pages are opened
    None                \* an absent row, snapshot or page

IssueStatuses == {"open", "resolved"}

IssueRows ==
    [count : Int, status : IssueStatuses, regression : BOOLEAN, first : Nat, last : Nat]
HistoryRows ==
    [issue : Fingerprints \cup {None}, canonical : BOOLEAN,
     first : ErrorEvents, last : ErrorEvents, known : BOOLEAN]

\* What a job and a reprocessor know between their steps.  A job has read the
\* release ("versioned"), then its artifacts ("resolved"); a pass has selected
\* the id of an event, read its row, the release and the artifacts, and holds
\* the row lock of the event ("fenced").
Resolutions ==
    [step : {"versioned", "resolved"}, frames : Fingerprints \cup {NoFrames}, version : Nat]
Passes ==
    [step : {"selected", "read", "versioned", "resolved", "fenced"},
     event : ErrorEvents, seen : Nat, from : Fingerprints \cup {None},
     frames : Fingerprints \cup {NoFrames}, version : Nat, status : IssueStatuses]

ASSUME GroupingAssumption ==
    /\ ErrorEvents \subseteq Nat
    /\ {EventTTL, HistoryTTL, MaxNow, MaxVersion} \subseteq Nat
    /\ EventTTL <= HistoryTTL
    /\ Env \in [ErrorEvents -> Envs]
    /\ Release \in [ErrorEvents -> Releases]
    /\ Compiled \in [ErrorEvents -> Fingerprints]
    /\ NoMaps \in MapStates
    /\ Mapped \in [ErrorEvents -> [MapStates -> Fingerprints \cup {NoFrames}]]
    /\ None \notin Fingerprints \cup IssueRows \cup HistoryRows \cup Resolutions \cup Passes

VARIABLES
    now,
    inbox,              \* event_inbox.status: absent, pending, done or dead
    at,                 \* receivedAt
    work,               \* result of resolveFrames for the job in progress
    version,            \* release.sourceMapsVersion
    maps,               \* state of the ready uploads of a release
    issue,              \* issue rows by fingerprint
    eventIssue,         \* error_event.issueId, None without a row
    eventVersion,       \* error_event.symbolicationVersion
    frames,             \* error_event.originalFrames, as the fingerprint they give
    history,            \* issue_history rows by (fingerprint, environment)
    activities,         \* issue_activity
    pass,               \* progress of each reprocessor
    page,               \* what a dashboard tab shows of a group
    arrivals,           \* new events counted into a group since its creation
    purged,             \* events of a group removed by retention
    repeated            \* events a pass committed at the version it had read

events == <<eventIssue, eventVersion, frames>>
tallies == <<arrivals, purged, repeated>>
groupingVars == <<now, inbox, at, work, version, maps, issue, events, history,
          activities, pass, page, tallies>>

\* The row an event leaves in no table yet.
Untouched == <<now, at, version, maps>>

GroupingInit ==
    /\ now = 0
    /\ inbox = [e \in ErrorEvents |-> "absent"]
    /\ at = [e \in ErrorEvents |-> 0]
    /\ work = [e \in ErrorEvents |-> None]
    /\ version = [r \in Releases |-> 0]
    /\ maps = [r \in Releases |-> NoMaps]
    /\ issue = [f \in Fingerprints |-> None]
    /\ eventIssue = [e \in ErrorEvents |-> None]
    /\ eventVersion = [e \in ErrorEvents |-> 0]
    /\ frames = [e \in ErrorEvents |-> NoFrames]
    /\ history = [f \in Fingerprints |-> [v \in Envs |-> None]]
    /\ activities = {}
    /\ pass = [p \in Reprocessors |-> None]
    /\ page = None
    /\ arrivals = [f \in Fingerprints |-> 0]
    /\ purged = [f \in Fingerprints |-> 0]
    /\ repeated = {}

-----------------------------------------------------------------------------
(* Orders and selections.                                                  *)

\* (receivedAt, eventId) ordered as the history trigger compares it.
Before(a, b) == at[a] < at[b] \/ (at[a] = at[b] /\ a < b)
Earlier(a, b) == IF Before(b, a) THEN b ELSE a
Later(a, b) == IF Before(a, b) THEN b ELSE a

Least(t, u) == IF t < u THEN t ELSE u
Greatest(t, u) == IF t < u THEN u ELSE t

EventsOf(f) == {e \in ErrorEvents : eventIssue[e] = f}
Stored(e) == eventIssue[e] # None
Expired(t, ttl) == t < now - ttl

\* The artifacts, looked for only if the release has had any; frames already
\* restored survive maps that restore none.
Resolved(e, v, previous) ==
    LET found == Mapped[e][maps[Release[e]]]
    IN  IF v > 0 /\ found # NoFrames THEN found ELSE previous

FingerprintOf(e, restored) == IF restored # NoFrames THEN restored ELSE Compiled[e]

-----------------------------------------------------------------------------
(* Rows of issue and their trigger.                                        *)

NewIssue(e, status) ==
    [count |-> 1, status |-> status, regression |-> FALSE,
     first |-> at[e], last |-> at[e]]

\* Mutant: an event that comes late moves the last time back.
MutLastWrites(row, e, status) ==
    [count |-> row.count + 1,
     status |-> status,
     regression |-> row.regression \/ (row.status = "resolved" /\ status = "open"),
     first |-> Least(row.first, at[e]),
     last |-> at[e]]

\* Mutant: a resolved group is reopened without the mark.
MutNoRegression(row, e, status) ==
    [count |-> row.count + 1,
     status |-> status,
     regression |-> row.regression,
     first |-> Least(row.first, at[e]),
     last |-> Greatest(row.last, at[e])]

\* UPDATE with one more event and, from an event job, status "open": the
\* trigger keeps the extremes and marks a resolved group as a regression.
CountEvent(row, e, status) ==
    [count |-> row.count + 1,
     status |-> status,
     regression |-> row.regression \/ (row.status = "resolved" /\ status = "open"),
     first |-> Least(row.first, at[e]),
     last |-> Greatest(row.last, at[e])]

-----------------------------------------------------------------------------
(* Rows of issue_history and their trigger.                                *)

\* Mutant: the newer row replaces the last observation, whatever it was.
MutMergeRow(old, new) ==
    [issue |-> new.issue,
     canonical |-> new.canonical,
     first |-> Earlier(old.first, new.first),
     last |-> new.last,
     known |-> IF Before(new.first, old.first) THEN new.known ELSE old.known]

\* BEFORE UPDATE: the older first and the newer last observation win.
MergeRow(old, new) ==
    [issue |-> new.issue,
     canonical |-> new.canonical,
     first |-> Earlier(old.first, new.first),
     last |-> Later(old.last, new.last),
     known |-> IF Before(new.first, old.first) THEN new.known ELSE old.known]

Upsert(old, new) == IF old = None THEN new ELSE MergeRow(old, new)

\* recordIssueObservation: an outdated row is deleted, then the row of the
\* group and the row of the observed fingerprint take the observation in.
Observe(h, g, e, observed, known) ==
    LET fresh(row) ==
            IF row # None /\ at[row.last] < at[e] - HistoryTTL THEN None ELSE row
        seen(f) == [issue |-> g, canonical |-> f = g, first |-> e, last |-> e,
                    known |-> known]
    IN  [f \in Fingerprints |->
            IF f \in {g, observed}
            THEN [h[f] EXCEPT ![Env[e]] = Upsert(fresh(@), seen(f))]
            ELSE h[f]]

\* transferIssueHistory: the destination takes over the canonical rows and
\* every row of the old group becomes an alias of the destination.
Transfer(h, from, to) ==
    LET moved(v) == h[from][v] # None /\ h[from][v].issue = from /\ h[from][v].canonical
    IN  [f \in Fingerprints |-> [v \in Envs |->
            IF f = to /\ moved(v)
            THEN Upsert(h[to][v], [h[from][v] EXCEPT !.issue = to])
            ELSE IF h[f][v] # None /\ h[f][v].issue = from
            THEN [h[f][v] EXCEPT !.issue = to, !.canonical = FALSE]
            ELSE h[f][v]]]

\* issueHistory.findFirst without an order: any environment's row may answer.
Remembered(e, f) ==
    {history[f][v].issue : v \in
        {v \in Envs : /\ history[f][v] # None
                      /\ history[f][v].issue # None
                      /\ at[history[f][v].last] >= at[e] - HistoryTTL}}

-----------------------------------------------------------------------------
(* Event jobs.                                                             *)

Receive(e) ==
    /\ inbox[e] = "absent"
    /\ inbox' = [inbox EXCEPT ![e] = "pending"]
    /\ at' = [at EXCEPT ![e] = now]
    /\ UNCHANGED <<now, work, version, maps, issue, events, history, activities,
                   pass, page, tallies>>

\* resolveFrames, before the final transaction: first the release ...
VersionJob(e) ==
    /\ inbox[e] = "pending"
    /\ work[e] = None
    /\ work' = [work EXCEPT ![e] =
                  [step |-> "versioned", frames |-> NoFrames, version |-> version[Release[e]]]]
    /\ UNCHANGED <<now, inbox, at, version, maps, issue, events, history,
                   activities, pass, page, tallies>>

\* ... then the artifacts, and the fingerprint.
ResolveJob(e) ==
    LET w == work[e] IN
    /\ inbox[e] = "pending"
    /\ w # None
    /\ w.step = "versioned"
    /\ work' = [work EXCEPT ![e].step = "resolved",
                            ![e].frames = Resolved(e, w.version, w.frames)]
    /\ UNCHANGED <<now, inbox, at, version, maps, issue, events, history,
                   activities, pass, page, tallies>>

\* The final transaction, under the advisory lock of the project.
CommitJob(e) ==
    LET f == FingerprintOf(e, work[e].frames)
        groups == IF Remembered(e, f) = {} THEN {f} ELSE Remembered(e, f)
    IN
    /\ inbox[e] = "pending"
    /\ work[e] # None
    /\ work[e].step = "resolved"
    /\ \E g \in groups :
          /\ issue' = [issue EXCEPT ![g] =
                          IF @ = None THEN NewIssue(e, "open") ELSE CountEvent(@, e, "open")]
          /\ eventIssue' = [eventIssue EXCEPT ![e] = g]
          /\ history' = Observe(history, g, e, f, TRUE)
          /\ arrivals' = [arrivals EXCEPT ![g] = @ + 1]
    /\ eventVersion' = [eventVersion EXCEPT ![e] = work[e].version]
    /\ frames' = [frames EXCEPT ![e] = work[e].frames]
    /\ inbox' = [inbox EXCEPT ![e] = "done"]
    /\ work' = [work EXCEPT ![e] = None]
    /\ UNCHANGED <<Untouched, activities, pass, page, purged, repeated>>

\* The attempt failed or lost its lease; the next one resolves again.
ResolveAgain(e) ==
    /\ inbox[e] = "pending"
    /\ work[e] # None
    /\ work' = [work EXCEPT ![e] = None]
    /\ UNCHANGED <<Untouched, inbox, issue, events, history, activities, pass, page, tallies>>

DeadLetter(e) ==
    /\ inbox[e] = "pending"
    /\ inbox' = [inbox EXCEPT ![e] = "dead"]
    /\ work' = [work EXCEPT ![e] = None]
    /\ UNCHANGED <<Untouched, issue, events, history, activities, pass, page, tallies>>

-----------------------------------------------------------------------------
(* Source maps (uploads.ts, source-maps/retention.ts).                     *)

\* An upload becomes ready: the version of its release grows.
PublishMaps(r, m) ==
    /\ version[r] < MaxVersion
    /\ version' = [version EXCEPT ![r] = @ + 1]
    /\ maps' = [maps EXCEPT ![r] = m]
    /\ UNCHANGED <<now, at, inbox, work, issue, events, history, activities,
                   pass, page, tallies>>

\* Retention removes the last ready upload; the version stays.
RemoveMaps(r) ==
    /\ maps[r] # NoMaps
    /\ maps' = [maps EXCEPT ![r] = NoMaps]
    /\ UNCHANGED <<now, at, inbox, work, version, issue, events, history,
                   activities, pass, page, tallies>>

-----------------------------------------------------------------------------
(* reprocessOneEvent().                                                    *)

Outdated(e) == Stored(e) /\ eventVersion[e] < version[Release[e]]

Progress(p, s) ==
    /\ pass' = [pass EXCEPT ![p] = s]
    /\ UNCHANGED <<Untouched, inbox, work, issue, events, history, activities, page, tallies>>

\* Four reads without a transaction or a lock: the id of the oldest outdated
\* event ...
ReprocessSelect(p, e) ==
    /\ pass[p] = None
    /\ Outdated(e)
    /\ \A d \in ErrorEvents : Outdated(d) => at[e] <= at[d]
    /\ Progress(p, [step |-> "selected", event |-> e, seen |-> 0, from |-> None,
                    frames |-> NoFrames, version |-> 0, status |-> "open"])

\* ... its row, if it is still there ...
ReprocessRead(p) ==
    LET s == pass[p] IN
    /\ s # None
    /\ s.step = "selected"
    /\ Progress(p, IF Stored(s.event)
                   THEN [s EXCEPT !.step = "read",
                                  !.seen = eventVersion[s.event],
                                  !.from = eventIssue[s.event],
                                  !.frames = frames[s.event]]
                   ELSE None)

\* ... the version of its release ...
ReprocessVersion(p) ==
    LET s == pass[p] IN
    /\ s # None
    /\ s.step = "read"
    /\ Progress(p, [s EXCEPT !.step = "versioned", !.version = version[Release[s.event]]])

\* ... and the artifacts.
ReprocessResolve(p) ==
    LET s == pass[p] IN
    /\ s # None
    /\ s.step = "versioned"
    /\ Progress(p, [s EXCEPT !.step = "resolved",
                             !.frames = Resolved(s.event, s.version, s.frames)])

\* The row of the event is not locked by the transaction of another pass.
RowFree(e) ==
    \A q \in Reprocessors : pass[q] # None => ~(pass[q].step = "fenced" /\ pass[q].event = e)

\* Mutant: the transaction does not compare the version it read.
MutNoVersionFence(p) ==
    LET s == pass[p] IN
    /\ s # None
    /\ s.step = "resolved"
    /\ RowFree(s.event)
    /\ Progress(p, IF Stored(s.event) /\ s.from # None
                   THEN [s EXCEPT !.step = "fenced", !.status = issue[s.from].status]
                   ELSE None)

\* The transaction locks the event if its version is the one that was read, and
\* reads the status of the group it was read in, if that is still there, before
\* it waits for the project lock.
ReprocessFence(p) ==
    LET s == pass[p] IN
    /\ s # None
    /\ s.step = "resolved"
    /\ RowFree(s.event)
    /\ Progress(p, IF Stored(s.event) /\ eventVersion[s.event] = s.seen /\ s.from # None
                   THEN [s EXCEPT !.step = "fenced", !.status = issue[s.from].status]
                   ELSE None)

\* Exactly one event of the old group is retained, and all recorded moves out
\* of it had the same destination.
OneToOne(from, to, moves) ==
    /\ Cardinality(EventsOf(from)) = 1
    /\ {a.to : a \in {a \in moves : a.from = from}} = {to}

\* The event goes to the group of its fingerprint: the group it was read in, or
\* another one, into which it is counted and out of the one it was read in.  The
\* destination inherits the status of
\* the old group only if it is new, and its history only one to one.
ReprocessCommit(p) ==
    LET s == pass[p]
        e == s.event
        from == s.from
        to == FingerprintOf(e, s.frames)
        old == history[from][Env[e]]
        known == /\ old # None
                 /\ old.issue = from /\ old.canonical
                 /\ old.known
                 /\ Release[old.first] = Release[e]
        observed == Observe(history, to, e, to, known)
        moves == activities \cup {[from |-> from, to |-> to, event |-> e, at |-> now]}
    IN
    /\ s # None
    /\ s.step = "fenced"
    /\ from # None
    /\ IF to = from
       THEN UNCHANGED <<issue, history, activities, page>>
       ELSE /\ issue' = [issue EXCEPT
                    ![to] = IF @ = None THEN NewIssue(e, s.status)
                                        ELSE CountEvent(@, e, @.status),
                    ![from].count = @ - 1]
            /\ activities' = moves
            /\ history' = IF OneToOne(from, to, moves) THEN Transfer(observed, from, to) ELSE observed
            /\ page' = IF page # None /\ page.issue = from
                       THEN [page EXCEPT !.lowered = TRUE] ELSE page
    /\ eventIssue' = [eventIssue EXCEPT ![e] = to]
    /\ eventVersion' = [eventVersion EXCEPT ![e] = s.version]
    /\ frames' = [frames EXCEPT ![e] = s.frames]
    /\ pass' = [pass EXCEPT ![p] = None]
    /\ repeated' = IF s.version = s.seen THEN repeated \cup {e} ELSE repeated
    /\ UNCHANGED <<Untouched, inbox, work, arrivals, purged>>

\* A crash, a failed read or a rolled back transaction, as when the group the
\* event was read in is gone.
ReprocessAbort(p) ==
    /\ pass[p] # None
    /\ Progress(p, None)

-----------------------------------------------------------------------------
(* The dashboard.                                                          *)

OpenPage(f) ==
    /\ f \in Shown
    /\ issue[f] # None
    /\ page' = [issue |-> f, count |-> issue[f].count, arrivals |-> arrivals[f],
                lowered |-> FALSE]
    /\ UNCHANGED <<Untouched, inbox, work, issue, events, history, activities, pass, tallies>>

\* changeIssueStatus: refused (409) when the count moved since the page was
\* rendered; repeating the current status changes nothing.
ChangeStatus(status) ==
    LET f == page.issue IN
    /\ page # None
    /\ issue[f].count = page.count
    /\ issue[f].status # status
    /\ issue' = [issue EXCEPT ![f].status = status, ![f].regression = FALSE]
    /\ page' = None
    /\ UNCHANGED <<Untouched, inbox, work, events, history, activities, pass, tallies>>

-----------------------------------------------------------------------------
(* Time and retainBatch().                                                 *)

\* A tick is long: no transaction is open across it.
Tick ==
    /\ now < MaxNow
    /\ \A p \in Reprocessors : pass[p] # None => pass[p].step # "fenced"
    /\ now' = now + 1
    /\ UNCHANGED <<inbox, at, work, version, maps, issue, events, history,
                   activities, pass, page, tallies>>

RetainErrorEvent(e) ==
    /\ Stored(e)
    /\ Expired(at[e], EventTTL)
    /\ RowFree(e)
    /\ eventIssue' = [eventIssue EXCEPT ![e] = None]
    /\ eventVersion' = [eventVersion EXCEPT ![e] = 0]
    /\ frames' = [frames EXCEPT ![e] = NoFrames]
    /\ purged' = [purged EXCEPT ![eventIssue[e]] = @ + 1]
    /\ UNCHANGED <<Untouched, inbox, work, issue, history, activities, pass, page,
                   arrivals, repeated>>

RetainActivity(a) ==
    /\ a \in activities
    /\ Expired(a.at, EventTTL)
    /\ activities' = activities \ {a}
    /\ UNCHANGED <<Untouched, inbox, work, issue, events, history, pass, page, tallies>>

\* Its history rows outlive the group with issueId NULL; whatever else still
\* names its id matches nothing any more.
RetainIssue(f) ==
    /\ issue[f] # None
    /\ Expired(issue[f].last, EventTTL)
    /\ EventsOf(f) = {}
    /\ \A a \in activities : f \in {a.from, a.to} => Expired(a.at, EventTTL)
    /\ issue' = [issue EXCEPT ![f] = None]
    /\ history' = [g \in Fingerprints |-> [v \in Envs |->
                      IF history[g][v] # None /\ history[g][v].issue = f
                      THEN [history[g][v] EXCEPT !.issue = None]
                      ELSE history[g][v]]]
    /\ activities' = {a \in activities : f \notin {a.from, a.to}}
    /\ page' = IF page # None /\ page.issue = f THEN None ELSE page
    /\ arrivals' = [arrivals EXCEPT ![f] = 0]
    /\ purged' = [purged EXCEPT ![f] = 0]
    /\ pass' = [p \in Reprocessors |-> IF pass[p] # None /\ pass[p].from = f
                                       THEN [pass[p] EXCEPT !.from = None] ELSE pass[p]]
    /\ UNCHANGED <<Untouched, inbox, work, events, repeated>>

\* Never while a job of the project waits: it may still need the row.
RetainHistory(f, v) ==
    /\ history[f][v] # None
    /\ Expired(at[history[f][v].last], HistoryTTL)
    /\ \A e \in ErrorEvents : inbox[e] # "pending"
    /\ history' = [history EXCEPT ![f][v] = None]
    /\ UNCHANGED <<Untouched, inbox, work, issue, events, activities, pass, page, tallies>>

-----------------------------------------------------------------------------

Job(e) ==
    \/ Receive(e) \/ VersionJob(e) \/ ResolveJob(e) \/ CommitJob(e)
    \/ ResolveAgain(e) \/ DeadLetter(e)

Reprocess(p) ==
    \/ \E e \in ErrorEvents : ReprocessSelect(p, e)
    \/ ReprocessRead(p) \/ ReprocessVersion(p) \/ ReprocessResolve(p)
    \/ ReprocessFence(p) \/ ReprocessCommit(p) \/ ReprocessAbort(p)

RetainBatch ==
    \/ \E e \in ErrorEvents : RetainErrorEvent(e)
    \/ \E a \in activities : RetainActivity(a)
    \/ \E f \in Fingerprints : RetainIssue(f) \/ (\E v \in Envs : RetainHistory(f, v))

GroupingNext ==
    \/ \E e \in ErrorEvents : Job(e)
    \/ \E p \in Reprocessors : Reprocess(p)
    \/ \E r \in Releases : RemoveMaps(r) \/ (\E m \in MapStates : PublishMaps(r, m))
    \/ \E f \in Fingerprints : OpenPage(f)
    \/ \E status \in {"open", "resolved"} : ChangeStatus(status)
    \/ Tick
    \/ RetainBatch

GroupingSpec == GroupingInit /\ [][GroupingNext]_groupingVars

-----------------------------------------------------------------------------
(* Properties.                                                             *)

GroupingTypeOK ==
    /\ now \in 0..MaxNow
    /\ inbox \in [ErrorEvents -> {"absent", "pending", "done", "dead"}]
    /\ at \in [ErrorEvents -> 0..MaxNow]
    /\ work \in [ErrorEvents -> Resolutions \cup {None}]
    /\ version \in [Releases -> 0..MaxVersion]
    /\ maps \in [Releases -> MapStates]
    /\ issue \in [Fingerprints -> IssueRows \cup {None}]
    /\ eventIssue \in [ErrorEvents -> Fingerprints \cup {None}]
    /\ eventVersion \in [ErrorEvents -> Nat]
    /\ frames \in [ErrorEvents -> Fingerprints \cup {NoFrames}]
    /\ history \in [Fingerprints -> [Envs -> HistoryRows \cup {None}]]
    /\ activities \subseteq
          [from : Fingerprints, to : Fingerprints, event : ErrorEvents, at : 0..MaxNow]
    /\ pass \in [Reprocessors -> Passes \cup {None}]
    /\ page # None => page \in [issue : Fingerprints, count : Int, arrivals : Nat,
                                 lowered : BOOLEAN]
    /\ arrivals \in [Fingerprints -> Nat]
    /\ purged \in [Fingerprints -> Nat]
    /\ repeated \subseteq ErrorEvents

\* Until some pass commits the version it had read, the count of a group is its
\* retained events plus those retention removed, however events moved between
\* groups; no event is left without its group.  Such a pass leaves the fence of
\* the others open: they count the event out of a group it is no longer in.
CountsMatchEvents ==
    repeated = {} => \A f \in Fingerprints :
        IF issue[f] = None
        THEN EventsOf(f) = {}
        ELSE issue[f].count = Cardinality(EventsOf(f)) + purged[f]

\* Whatever order jobs and reprocessing finish in, and whatever retention
\* removes, an event has its group, and the group spans it in time.
GroupSpansEvents ==
    \A e \in ErrorEvents : Stored(e) =>
        /\ issue[eventIssue[e]] # None
        /\ issue[eventIssue[e]].first <= at[e]
        /\ at[e] <= issue[eventIssue[e]].last

\* The history of a group knows every retained event of it: its row for the
\* environment starts no later and ends no sooner, however observations were
\* merged, transferred and retained.
HistorySpansEvents ==
    \A e \in ErrorEvents : (Stored(e) /\ ~Expired(at[e], EventTTL)) =>
        LET row == history[eventIssue[e]][Env[e]] IN
        /\ row # None
        /\ ~Before(e, row.first)
        /\ ~Before(row.last, e)

\* Late maps and retention never reopen, resolve or mark a group: its status
\* changes when a new event is counted into it, which leaves it open, or when
\* somebody acts on a page of it that shows every event which arrived; only a
\* page since whose opening events were moved out of the group may miss one.
StatusFollowsEventsAndUsers ==
    [][\A f \in Fingerprints :
         (issue[f] # None /\ issue'[f] # None) =>
            LET before == <<issue[f].status, issue[f].regression>>
                after == <<issue'[f].status, issue'[f].regression>>
            IN  IF arrivals'[f] # arrivals[f]
                THEN after = <<"open", issue[f].regression \/ issue[f].status = "resolved">>
                ELSE before # after =>
                        /\ page # None
                        /\ page.issue = f
                        /\ page.lowered \/ page.arrivals = arrivals[f]]_issue

=============================================================================
