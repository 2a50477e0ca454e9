------------------------------- MODULE Transport -------------------------------
(***************************************************************************)
(* The browser SDK and the ingest process it talks to: init, capture, close*)
(* and the transport of packages/browser/src/index.ts, the fetch it starts *)
(* with the preflight a browser sends first, and what apps/ingest/src/     *)
(* server.ts answers up to the insertion of the event.                     *)
(*                                                                         *)
(* One page, one process with its BucketLimiter, and other clients that    *)
(* use the same buckets.  A slot is a place for one request; a settled     *)
(* request leaves its slot.  An answer is its status and whether it has    *)
(* the CORS headers without which a page may not read it.  The clock of    *)
(* the page does not step back, the one of the process may.                *)
(***************************************************************************)
EXTENDS BucketLimiter

CONSTANTS
    Slots,
    Installation, Address, Project,     \* the keys of the page's requests
    MaxPending,     \* 30 requests
    Timeout,        \* 2 seconds
    MinWait, MaxWait,   \* 1 second and 5 minutes
    DefaultWait,    \* 1 minute
    Headers,        \* values of Retry-After in answers
    Malformed,      \* ... of which this one is not a delay
    MaxClosers,     \* bound of the model: calls of close under way
    MaxNow,         \* bound of the model
    None

ASSUME TransportAssumption ==
    /\ {Installation, Address, Project} \subseteq Keys
    /\ {MaxPending, Timeout, MinWait, MaxWait, DefaultWait, MaxClosers, MaxNow} \subseteq Nat
    /\ Headers \ {Malformed} \subseteq Nat

VARIABLES
    now,            \* Date.now of the page
    active,
    closers,        \* calls of close that wait for pending requests
    backoffUntil,
    req,            \* pending, controllers and what became of each request
    stepped,        \* the clock of the process stepped back once
    told            \* bookkeeping: until when answers asked the page to wait

page == <<active, closers, backoffUntil, told>>
vars == <<limiter, stepped, now, page, req>>

Free == [at |-> "free", since |-> 0, aborted |-> FALSE, status |-> None, readable |-> FALSE]
Flying == {c \in Slots : req[c].at # "free"}

Init ==
    /\ LimiterInit /\ clock = 0
    /\ stepped = FALSE
    /\ now = 0
    /\ active = FALSE
    /\ closers = 0
    /\ backoffUntil = 0
    /\ told = 0
    /\ req = [c \in Slots |-> Free]

-----------------------------------------------------------------------------
(* The page.                                                               *)

\* backoffUntil belongs to the module, not to the client.
Keeps == UNCHANGED backoffUntil

\* init() while active does nothing.
StartClient ==
    /\ ~active
    /\ active' = TRUE
    /\ Keeps
    /\ UNCHANGED <<limiter, stepped, now, closers, told, req>>

MaySend == active /\ now >= backoffUntil /\ Cardinality(Flying) < MaxPending

\* send(): the check and the fetch are one step; a preflight may be cached.
Send(c) ==
    /\ req[c].at = "free"
    /\ MaySend
    /\ \E first \in {"preflight", "post"} :
          req' = [req EXCEPT ![c] = [Free EXCEPT !.at = first, !.since = now]]
    /\ UNCHANGED <<limiter, stepped, now, page>>

Clamp(x) == AtMost(MaxWait, IF x > MinWait THEN x ELSE MinWait)

\* retryAfterMs
RetryAfter(h) == Clamp(IF h = Malformed THEN DefaultWait ELSE h)

\* Mutant: the last answer wins.
MutBackoff(wait) == now + wait

Backoff(wait) == IF backoffUntil > now + wait THEN backoffUntil ELSE now + wait

\* The promise of fetch settles with an answer the page may read ...
SettleWithAnswer(c) ==
    /\ req[c].at = "answered" /\ req[c].readable /\ ~req[c].aborted
    /\ IF req[c].status = 429
       THEN \E h \in Headers :
               /\ backoffUntil' = Backoff(RetryAfter(h))
               /\ told' = IF told > now + RetryAfter(h) THEN told ELSE now + RetryAfter(h)
       ELSE UNCHANGED <<backoffUntil, told>>
    /\ req' = [req EXCEPT ![c] = Free]
    /\ UNCHANGED <<limiter, stepped, now, active, closers>>

\* ... or fails: aborted, lost, or answered without the headers.
SettleWithFailure(c) ==
    /\ c \in Flying
    /\ ~(req[c].at = "answered" /\ req[c].readable /\ ~req[c].aborted)
    /\ req' = [req EXCEPT ![c] = Free]
    /\ UNCHANGED <<limiter, stepped, now, page>>

\* The timer of a request.
Abort(c) ==
    /\ c \in Flying /\ ~req[c].aborted
    /\ now >= req[c].since + Timeout
    /\ req' = [req EXCEPT ![c].aborted = TRUE]
    /\ UNCHANGED <<limiter, stepped, now, page>>

\* close() waits for the pending requests, with a limit of its own ...
BeginClose ==
    /\ active /\ closers < MaxClosers
    /\ closers' = closers + 1
    /\ UNCHANGED <<limiter, stepped, now, active, backoffUntil, told, req>>

\* Mutant: what is left is not aborted.
MutAborted(c) == req[c]

Aborted(c) == [req[c] EXCEPT !.aborted = TRUE]

\* ... then ends the client and aborts what is left.
EndClose ==
    /\ closers > 0
    /\ closers' = closers - 1
    /\ active' = FALSE
    /\ req' = [c \in Slots |-> IF c \in Flying THEN Aborted(c) ELSE req[c]]
    /\ UNCHANGED <<limiter, stepped, now, backoffUntil, told>>

-----------------------------------------------------------------------------
(* The ingest process.                                                     *)

Answer(c, status, readable) ==
    req' = [req EXCEPT ![c] = [@ EXCEPT !.at = "answered", !.status = status,
                                        !.readable = readable]]

Goes(c, place) == req' = [req EXCEPT ![c].at = place]

\* The bucket of the installation is asked first, then that of the address;
\* nothing comes between.
FirstTakes ==
    LET all == Allows(buckets, Installation, clock)
        then == Taken(buckets, Installation, clock)
        both == all /\ Allows(then, Address, clock) IN
    [ok |-> both,
     buckets |-> IF all THEN Taken(then, Address, clock) ELSE then,
     swept |-> Sweeps(buckets, clock) \/ (all /\ Sweeps(then, clock)),
     granted |-> (IF all THEN {Installation} ELSE {}) \cup (IF both THEN {Address} ELSE {})]

Arrive(c, from, to) ==
    LET takes == FirstTakes IN
    /\ req[c].at = from
    /\ buckets' = takes.buckets
    /\ lastSweep' = IF takes.swept THEN clock ELSE lastSweep
    /\ ahead' = Counts(takes.granted)
    /\ IF takes.ok THEN Goes(c, to) ELSE Answer(c, 429, FALSE)
    /\ UNCHANGED <<clock, stepped, now, page>>

ArrivePreflight(c) == Arrive(c, "preflight", "preflight checked")
ArrivePost(c) == Arrive(c, "post", "post checked")

\* Malformed headers, an unknown key or origin, or no database: before the
\* headers are set.  The page tells no status but 429 from the others.
Reject(c) ==
    /\ req[c].at \in {"preflight checked", "post checked"}
    /\ Answer(c, 400, FALSE)
    /\ UNCHANGED <<limiter, stepped, now, page>>

AllowPreflight(c) ==
    /\ req[c].at = "preflight checked"
    /\ Goes(c, "post")
    /\ UNCHANGED <<limiter, stepped, now, page>>

\* The bucket of the project, then the body and the insertion.
Handle(c) ==
    /\ req[c].at = "post checked"
    /\ Take(Project)
    /\ IF Allows(buckets, Project, clock)
       THEN \E status \in {200, 429} : Answer(c, status, TRUE)
       ELSE Answer(c, 429, TRUE)
    /\ UNCHANGED <<stepped, now, page>>

\* External: other clients.
Others(k) ==
    /\ Take(k)
    /\ UNCHANGED <<stepped, now, page, req>>

StepBack ==
    /\ ~stepped /\ stepped' = TRUE
    /\ ClockBack
    /\ UNCHANGED <<now, page, req>>

\* Timers run before time goes on, and an aborted fetch fails at once.
Tick ==
    /\ now < MaxNow
    /\ \A c \in Flying : ~req[c].aborted /\ now < req[c].since + Timeout
    /\ now' = now + 1
    /\ ClockForward
    /\ UNCHANGED <<stepped, page, req>>

Next ==
    \/ StartClient \/ BeginClose \/ EndClose
    \/ \E c \in Slots :
          \/ Send(c) \/ Abort(c) \/ SettleWithAnswer(c) \/ SettleWithFailure(c)
          \/ ArrivePreflight(c) \/ ArrivePost(c)
          \/ Reject(c) \/ AllowPreflight(c) \/ Handle(c)
    \/ \E k \in Keys : Others(k)
    \/ StepBack
    \/ Tick

Spec == Init /\ [][Next]_vars

-----------------------------------------------------------------------------
(* Properties.                                                             *)

Places == {"free", "preflight", "preflight checked", "post", "post checked", "answered"}

\* Every variable keeps its type; no bucket is overdrawn or overfull, and there
\* are never more than 30 pending requests.
TypeOK ==
    /\ now \in 0..MaxNow /\ clock \in 0..MaxClock
    /\ active \in BOOLEAN /\ closers \in 0..MaxClosers
    /\ {backoffUntil, told} \subseteq 0..(MaxNow + MaxWait)
    /\ req \in [Slots -> [at : Places, since : 0..MaxNow, aborted : BOOLEAN,
                          status : {None, 200, 400, 429}, readable : BOOLEAN]]
    /\ DOMAIN buckets \subseteq Keys
    /\ \A k \in DOMAIN buckets :
          buckets[k] \in [credit : 0..Burst[k], at : 0..MaxClock]
    /\ Cardinality(Flying) <= MaxPending

\* The page sends nothing before every wait it was asked for has passed: neither
\* a later answer with a shorter wait nor a new client ends one, and an answer
\* that comes late counts as well (backoffUntil of index.ts).
BackoffRespected ==
    [][\A c \in Slots : req[c].at = "free" /\ req'[c].at # "free" => now >= told]_vars

\* Once close has returned nothing is sent any more and all that was pending is
\* aborted (sdk-compatibility.md: close ends the sending and interrupts the rest).
ClosedIsSilent == ~active => \A c \in Flying : req[c].aborted

=============================================================================
