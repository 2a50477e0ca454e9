---------------------------- MODULE BucketLimiter ----------------------------
(***************************************************************************)
(* The token buckets of one ingest process (apps/ingest/src/bucket-limiter *)
(* .ts): a bucket per key that refills with time, at most Cap of them, and *)
(* a sweep of the idle ones when there is no room.  The clock is Date.now, *)
(* which may step back.  A unit of time is one in which Rate is whole.  An *)
(* address has the rate and burst of requests with an Origin; those without*)
(* one use the same bucket with smaller ones.                              *)
(***************************************************************************)
EXTENDS Integers, FiniteSets

CONSTANTS
    Keys,           \* "installation", addresses and projects
    Rate, Burst,    \* [Keys -> Nat]
    Cap,            \* 20 000 buckets
    Idle,           \* 60 seconds
    MaxClock        \* bound of the model

\* What Rate and Burst of server.ts have in common: an idle bucket is full
\* before it may be forgotten.
ASSUME LimiterAssumption ==
    /\ IsFiniteSet(Keys)
    /\ Rate \in [Keys -> Nat] /\ Burst \in [Keys -> Nat]
    /\ Cap \in Nat /\ Idle \in Nat /\ MaxClock \in Nat
    /\ \A k \in Keys : Burst[k] <= Rate[k] * Idle

VARIABLES
    clock,          \* Date.now of the process
    buckets,        \* function from some of the Keys to [credit, at]
    lastSweep,
    ahead           \* bookkeeping: the most that a stretch of time which ends now
                    \* was granted beyond the rate of each key

limiter == <<clock, buckets, lastSweep, ahead>>

LimiterInit ==
    /\ clock \in 0..MaxClock
    /\ buckets = [k \in {} |-> 0]
    /\ lastSweep = 0
    /\ ahead = [k \in Keys |-> 0]

AtMost(x, y) == IF x <= y THEN x ELSE y
Forward(x) == IF x > 0 THEN x ELSE 0

\* Mutant: a bucket that was used within the idle time may be forgotten.
MutIsIdle(b, t) == t - b.at > 0

IsIdle(b, t) == t - b.at > Idle

Sweeps(bs, t) == Cardinality(DOMAIN bs) >= Cap /\ t - lastSweep >= Idle

Kept(bs, t) ==
    IF Sweeps(bs, t) THEN {k \in DOMAIN bs : ~IsIdle(bs[k], t)} ELSE DOMAIN bs

HasRoom(bs, k, t) == k \in Kept(bs, t) \/ Cardinality(Kept(bs, t)) < Cap

Refilled(bs, k, t) ==
    IF k \in Kept(bs, t)
    THEN AtMost(Burst[k], bs[k].credit + Forward(t - bs[k].at) * Rate[k])
    ELSE Burst[k]

Allows(bs, k, t) == HasRoom(bs, k, t) /\ Refilled(bs, k, t) >= 1

\* take(): the buckets afterwards.
Taken(bs, k, t) ==
    LET kept == Kept(bs, t) IN
    IF ~HasRoom(bs, k, t) THEN [x \in kept |-> bs[x]]
    ELSE [x \in kept \cup {k} |->
             IF x = k THEN [credit |-> Refilled(bs, k, t) - (IF Allows(bs, k, t) THEN 1 ELSE 0),
                            at |-> t]
             ELSE bs[x]]

SweptAt(bs, t) == IF Sweeps(bs, t) THEN t ELSE lastSweep

\* One more request of these keys is in every stretch of time that ends now ...
Counts(ks) == [k \in Keys |-> ahead[k] + (IF k \in ks THEN 1 ELSE 0)]

\* ... and a unit more of time; a stretch that begins now has nothing in it.
Paid == [k \in Keys |-> Forward(ahead[k] - Rate[k])]

Take(k) ==
    /\ buckets' = Taken(buckets, k, clock)
    /\ lastSweep' = SweptAt(buckets, clock)
    /\ ahead' = Counts(IF Allows(buckets, k, clock) THEN {k} ELSE {})
    /\ UNCHANGED clock

ClockForward ==
    /\ clock < MaxClock
    /\ clock' = clock + 1
    /\ ahead' = Paid
    /\ UNCHANGED <<buckets, lastSweep>>

ClockBack ==
    /\ clock > 0
    /\ clock' = clock - 1
    /\ UNCHANGED <<buckets, lastSweep, ahead>>

LimiterNext == (\E k \in Keys : Take(k)) \/ ClockForward \/ ClockBack

LimiterSpec == LimiterInit /\ [][LimiterNext]_limiter

-----------------------------------------------------------------------------

\* Within every stretch of time a key is granted no more than its burst and what
\* its rate gives in it, although idle buckets are forgotten, new keys find no room
\* and the clock steps back.
GrantedWithinRate == \A k \in Keys : ahead[k] <= Burst[k]

\* The process never holds more than Cap buckets, however many addresses and
\* projects there are.
BucketsBounded == Cardinality(DOMAIN buckets) <= Cap

=============================================================================
