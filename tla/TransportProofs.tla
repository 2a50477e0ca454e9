---------------------------- MODULE TransportProofs ----------------------------
(***************************************************************************)
(* Theorems about BucketLimiter and about Transport, which runs it: for    *)
(* any keys, rates, bursts and caps, what a key was granted beyond its rate*)
(* in any stretch of time and what it could still take together never      *)
(* exceed its burst; every request the ingest process takes keeps this     *)
(* account; and the page keeps its word to the server.                     *)
(***************************************************************************)
EXTENDS Transport, FiniteSetTheorems, TLAPS

\* What a key can take at once: its bucket after the refill, a full one if it
\* has none.
Credit(bs, k, t) ==
    IF k \in DOMAIN bs
    THEN AtMost(Burst[k], bs[k].credit + Forward(t - bs[k].at) * Rate[k])
    ELSE Burst[k]

\* No bucket is overdrawn or fuller than its burst.
Proper(bs) ==
    /\ DOMAIN bs \subseteq Keys
    /\ bs = [k \in DOMAIN bs |-> bs[k]]
    /\ \A k \in DOMAIN bs : bs[k].credit \in 0..Burst[k] /\ bs[k].at \in Nat

LimiterTypes ==
    /\ clock \in Nat /\ lastSweep \in Nat
    /\ ahead \in [Keys -> Nat]
    /\ Proper(buckets)

LimiterInv ==
    /\ LimiterTypes
    /\ \A k \in Keys : ahead[k] + Credit(buckets, k, clock) <= Burst[k]

-----------------------------------------------------------------------------
(* Facts about the arithmetic of a refill.                                 *)

LEMMA Monotone ==
    ASSUME NEW a \in Nat, NEW b \in Nat, NEW r \in Nat, a <= b
    PROVE  a * r \in Nat /\ b * r \in Nat /\ a * r <= b * r
<1>1. PICK d \in Nat : b = a + d
  <2>1. b - a \in Nat /\ b = a + (b - a)
    OBVIOUS
  <2>2. QED
    BY <2>1
<1>2. b * r = a * r + d * r
  BY <1>1
<1>3. a * r \in Nat /\ d * r \in Nat /\ b * r \in Nat
  OBVIOUS
<1>4. QED
  BY <1>2, <1>3

LEMMA OneMore ==
    ASSUME NEW a \in Nat, NEW r \in Nat
    PROVE  a * r \in Nat /\ (a + 1) * r = a * r + r /\ r * (a + 1) = r * a + r /\ r * a \in Nat
  OBVIOUS

\* An idle bucket is full again.
LEMMA IdleIsFull ==
    ASSUME NEW bs, Proper(bs), NEW k \in DOMAIN bs, NEW t \in Nat, IsIdle(bs[k], t)
    PROVE  Credit(bs, k, t) = Burst[k]
<1>1. /\ k \in Keys /\ Burst[k] \in Nat /\ Rate[k] \in Nat /\ Idle \in Nat
      /\ bs[k].credit \in 0..Burst[k] /\ bs[k].at \in Nat
  BY LimiterAssumption DEF Proper
<1> DEFINE d == t - bs[k].at
<1>2. d \in Nat /\ Idle <= d /\ Forward(d) = d
  BY <1>1 DEF IsIdle, Forward
<1> HIDE DEF d
<1>3. Idle * Rate[k] <= d * Rate[k] /\ d * Rate[k] \in Nat /\ Idle * Rate[k] \in Nat
  BY <1>1, <1>2, Monotone
<1>4. Burst[k] <= Idle * Rate[k]
  <2>1. Burst[k] <= Rate[k] * Idle
    BY <1>1, LimiterAssumption
  <2>2. Rate[k] * Idle = Idle * Rate[k]
    BY <1>1
  <2>3. QED
    BY <2>1, <2>2
<1>5. Burst[k] <= bs[k].credit + d * Rate[k]
  BY <1>1, <1>3, <1>4
<1>6. AtMost(Burst[k], bs[k].credit + Forward(d) * Rate[k]) = Burst[k]
  BY <1>2, <1>5 DEF AtMost
<1>7. QED
  BY <1>6 DEF Credit, d

\* take() refills a bucket, or makes a full one for a key it has none of; a key
\* whose idle bucket was forgotten loses nothing.
LEMMA RefilledIsCredit ==
    ASSUME NEW bs, Proper(bs), NEW k \in Keys, NEW t \in Nat
    PROVE  /\ Refilled(bs, k, t) = Credit(bs, k, t)
           /\ Credit(bs, k, t) \in 0..Burst[k]
<1>1. Burst[k] \in Nat /\ Rate[k] \in Nat
  BY LimiterAssumption
<1>2. Kept(bs, t) \subseteq DOMAIN bs
  BY DEF Kept
<1>3. k \in DOMAIN bs \ Kept(bs, t) => IsIdle(bs[k], t)
  BY DEF Kept
<1>4. Refilled(bs, k, t) = Credit(bs, k, t)
  <2>1. CASE k \in Kept(bs, t)
    BY <2>1, <1>2 DEF Refilled, Credit
  <2>2. CASE k \in DOMAIN bs \ Kept(bs, t)
    BY <2>2, <1>3, IdleIsFull DEF Refilled
  <2>3. CASE k \notin DOMAIN bs
    BY <2>3, <1>2 DEF Refilled, Credit
  <2>4. QED
    BY <2>1, <2>2, <2>3
<1>5. Credit(bs, k, t) \in 0..Burst[k]
  <2>1. CASE k \in DOMAIN bs
    <3>1. bs[k].credit \in 0..Burst[k] /\ bs[k].at \in Nat
      BY <2>1 DEF Proper
    <3>2. Forward(t - bs[k].at) \in Nat
      BY <3>1 DEF Forward
    <3>3. Forward(t - bs[k].at) * Rate[k] \in Nat
      BY <3>2, <1>1
    <3>4. bs[k].credit + Forward(t - bs[k].at) * Rate[k] \in Nat
      BY <3>1, <3>3, <1>1
    <3>5. QED
      BY <2>1, <3>4, <1>1 DEF Credit, AtMost
  <2>2. CASE k \notin DOMAIN bs
    BY <2>2, <1>1 DEF Credit
  <2>3. QED
    BY <2>1, <2>2
<1>6. QED
  BY <1>4, <1>5

\* One take() costs the key that was allowed one request, and nobody else
\* anything.
LEMMA TakenCosts ==
    ASSUME NEW bs, Proper(bs), NEW k \in Keys, NEW t \in Nat
    PROVE  /\ Proper(Taken(bs, k, t))
           /\ \A x \in Keys :
                 Credit(Taken(bs, k, t), x, t) =
                    Credit(bs, x, t) - (IF x = k /\ Allows(bs, k, t) THEN 1 ELSE 0)
<1> DEFINE after == Taken(bs, k, t)
           kept == Kept(bs, t)
           left == Refilled(bs, k, t) - (IF Allows(bs, k, t) THEN 1 ELSE 0)
<1>0. \A x \in Keys : Burst[x] \in Nat /\ Rate[x] \in Nat
  BY LimiterAssumption
<1>1. kept \subseteq DOMAIN bs /\ kept \subseteq Keys
  BY DEF Kept, Proper
<1>2. left \in 0..Burst[k]
  <2>1. Refilled(bs, k, t) \in 0..Burst[k]
    BY RefilledIsCredit
  <2>2. QED
    BY <2>1, <1>0 DEF Allows
<1>3. CASE ~HasRoom(bs, k, t)
  <2>1. after = [x \in kept |-> bs[x]]
    BY <1>3 DEF Taken
  <2>2. Proper(after)
    BY <2>1, <1>1 DEF Proper
  <2>3. k \notin kept
    BY <1>3 DEF HasRoom
  <2>4. ~Allows(bs, k, t)
    BY <1>3 DEF Allows
  <2>5. ASSUME NEW x \in Keys PROVE Credit(after, x, t) = Credit(bs, x, t)
    <3>1. CASE x \in kept
      BY <2>1, <3>1, <1>1 DEF Credit
    <3>2. CASE x \notin kept
      <4>1. Credit(after, x, t) = Burst[x]
        BY <2>1, <3>2 DEF Credit
      <4>2. Credit(bs, x, t) = Burst[x]
        BY <3>2, IdleIsFull DEF Kept, Credit
      <4>3. QED
        BY <4>1, <4>2
    <3>3. QED
      BY <3>1, <3>2
  <2>6. \A x \in Keys : Credit(bs, x, t) \in Int
    BY RefilledIsCredit
  <2>7. QED
    BY <2>2, <2>4, <2>5, <2>6
<1>4. CASE HasRoom(bs, k, t)
  <2>1. after = [x \in kept \cup {k} |->
                    IF x = k THEN [credit |-> left, at |-> t] ELSE bs[x]]
    BY <1>4 DEF Taken
  <2>2. Proper(after)
    <3>1. DOMAIN after = kept \cup {k}
      BY <2>1
    <3>2. after[k].credit = left /\ after[k].at = t
      BY <2>1
    <3>3. \A x \in kept \ {k} : after[x] = bs[x]
      BY <2>1
    <3>4. \A x \in DOMAIN after : after[x].credit \in 0..Burst[x] /\ after[x].at \in Nat
      BY <3>1, <3>2, <3>3, <1>1, <1>2 DEF Proper
    <3>5. after = [x \in DOMAIN after |-> after[x]]
      BY <2>1
    <3>6. QED
      BY <3>1, <3>4, <3>5, <1>1 DEF Proper
  <2>3. Credit(after, k, t) = left
    <3>1. k \in DOMAIN after /\ after[k].credit = left /\ after[k].at = t
      BY <2>1
    <3>2. Forward(t - t) * Rate[k] = 0
      BY <1>0 DEF Forward
    <3>3. QED
      BY <3>1, <3>2, <1>0, <1>2 DEF Credit, AtMost
  <2>4. ASSUME NEW x \in Keys, x # k PROVE Credit(after, x, t) = Credit(bs, x, t)
    <3>1. CASE x \in kept
      BY <2>1, <2>4, <3>1, <1>1 DEF Credit
    <3>2. CASE x \notin kept
      <4>1. Credit(after, x, t) = Burst[x]
        BY <2>1, <2>4, <3>2 DEF Credit
      <4>2. Credit(bs, x, t) = Burst[x]
        BY <3>2, IdleIsFull DEF Kept, Credit
      <4>3. QED
        BY <4>1, <4>2
    <3>3. QED
      BY <3>1, <3>2
  <2>5. \A x \in Keys : Credit(bs, x, t) \in Int
    BY RefilledIsCredit
  <2>6. left = Credit(bs, k, t) - (IF Allows(bs, k, t) THEN 1 ELSE 0)
    BY RefilledIsCredit
  <2>7. QED
    BY <2>2, <2>3, <2>4, <2>5, <2>6
<1>5. QED
  BY <1>3, <1>4

-----------------------------------------------------------------------------
(* The invariant and what follows from it.                                 *)

\* A request of any key, or several in a row, keeps the account.
LEMMA TakeKeepsAccount ==
    ASSUME LimiterInv, NEW k \in Keys, Take(k)
    PROVE  LimiterInv'
<1> USE DEF LimiterInv, LimiterTypes
<1>1. /\ buckets' = Taken(buckets, k, clock)
      /\ clock' = clock
      /\ ahead' = [x \in Keys |-> ahead[x] + (IF x \in (IF Allows(buckets, k, clock) THEN {k} ELSE {}) THEN 1 ELSE 0)]
  BY DEF Take, Counts
<1>2. Proper(buckets')
  BY <1>1, TakenCosts
<1>3. lastSweep' \in Nat
  BY DEF Take, SweptAt
<1>4. ahead' \in [Keys -> Nat]
  BY <1>1
<1>5. ASSUME NEW x \in Keys
      PROVE  (ahead[x] + Credit(buckets, x, clock) <= Burst[x])'
  <2>1. ahead'[x] = ahead[x] + (IF x = k /\ Allows(buckets, k, clock) THEN 1 ELSE 0)
    BY <1>1
  <2>2. Credit(buckets', x, clock') =
           Credit(buckets, x, clock) - (IF x = k /\ Allows(buckets, k, clock) THEN 1 ELSE 0)
    BY <1>1, TakenCosts
  <2>3. ahead[x] \in Nat /\ Credit(buckets, x, clock) \in 0..Burst[x] /\ Burst[x] \in Nat
    BY RefilledIsCredit, LimiterAssumption
  <2>4. ahead'[x] + Credit(buckets', x, clock') = ahead[x] + Credit(buckets, x, clock)
    BY <2>1, <2>2, <2>3
  <2>5. QED
    BY <2>4, <1>1
<1>6. QED
  BY <1>1, <1>2, <1>3, <1>4, <1>5

\* A unit of time gives a key its rate, at most, and every stretch of time is
\* credited with as much.
LEMMA ForwardKeepsAccount ==
    ASSUME LimiterInv, ClockForward
    PROVE  LimiterInv'
<1> USE DEF LimiterInv, LimiterTypes
<1>1. /\ clock' = clock + 1 /\ UNCHANGED <<buckets, lastSweep>>
      /\ ahead' = [x \in Keys |-> Forward(ahead[x] - Rate[x])]
  BY DEF ClockForward, Paid
<1>2. ASSUME NEW x \in Keys
      PROVE  (ahead[x] + Credit(buckets, x, clock) <= Burst[x])'
  <2>1. Burst[x] \in Nat /\ Rate[x] \in Nat /\ ahead[x] \in Nat
    BY LimiterAssumption
  <2>2. Credit(buckets, x, clock + 1) <= Credit(buckets, x, clock) + Rate[x]
    <3>1. CASE x \in DOMAIN buckets
      <4> DEFINE d == Forward(clock - buckets[x].at)
                 e == Forward((clock + 1) - buckets[x].at)
                 c == buckets[x].credit
      <4>1. c \in 0..Burst[x] /\ buckets[x].at \in Nat
        BY <3>1 DEF Proper
      <4>2. d \in Nat /\ e \in Nat /\ e <= d + 1
        BY <4>1 DEF Forward
      <4>3. Credit(buckets, x, clock) = AtMost(Burst[x], c + d * Rate[x])
        BY <3>1 DEF Credit
      <4>4. Credit(buckets, x, clock + 1) = AtMost(Burst[x], c + e * Rate[x])
        BY <3>1 DEF Credit
      <4> HIDE DEF d, e, c
      <4>5. e * Rate[x] <= (d + 1) * Rate[x] /\ e * Rate[x] \in Nat
        BY <4>2, <2>1, Monotone
      <4>6. (d + 1) * Rate[x] = d * Rate[x] + Rate[x] /\ d * Rate[x] \in Nat
        BY <4>2, <2>1, OneMore
      <4>7. e * Rate[x] <= d * Rate[x] + Rate[x]
        BY <4>5, <4>6
      <4>8. QED
        BY <4>1, <4>3, <4>4, <4>5, <4>6, <4>7, <2>1 DEF AtMost
    <3>2. CASE x \notin DOMAIN buckets
      BY <3>2, <2>1 DEF Credit
    <3>3. QED
      BY <3>1, <3>2
  <2>3. /\ Credit(buckets, x, clock) \in 0..Burst[x]
        /\ Credit(buckets, x, clock + 1) \in 0..Burst[x]
    BY RefilledIsCredit
  <2>4. ahead[x] + Credit(buckets, x, clock) <= Burst[x]
    OBVIOUS
  <2>5. Forward(ahead[x] - Rate[x]) + Credit(buckets, x, clock + 1) <= Burst[x]
    BY <2>1, <2>2, <2>3, <2>4 DEF Forward
  <2>6. ahead'[x] = Forward(ahead[x] - Rate[x])
    BY <1>1
  <2>7. QED
    BY <2>5, <2>6, <1>1
<1>3. ahead' \in [Keys -> Nat]
  BY <1>1, LimiterAssumption DEF Forward
<1>4. QED
  BY <1>1, <1>2, <1>3

\* A clock that steps back gives nobody anything.
LEMMA BackKeepsAccount ==
    ASSUME LimiterInv, ClockBack
    PROVE  LimiterInv'
<1> USE DEF LimiterInv, LimiterTypes
<1>1. clock' = clock - 1 /\ clock' \in Nat /\ UNCHANGED <<buckets, lastSweep, ahead>>
  BY DEF ClockBack
<1>2. ASSUME NEW x \in Keys
      PROVE  (ahead[x] + Credit(buckets, x, clock) <= Burst[x])'
  <2>1. Burst[x] \in Nat /\ Rate[x] \in Nat /\ ahead[x] \in Nat
    BY LimiterAssumption
  <2>2. Credit(buckets, x, clock - 1) <= Credit(buckets, x, clock)
    <3>1. CASE x \in DOMAIN buckets
      <4> DEFINE d == Forward(clock - buckets[x].at)
                 e == Forward((clock - 1) - buckets[x].at)
                 c == buckets[x].credit
      <4>1. c \in 0..Burst[x] /\ buckets[x].at \in Nat
        BY <3>1 DEF Proper
      <4>2. d \in Nat /\ e \in Nat /\ e <= d
        BY <4>1 DEF Forward
      <4>3. Credit(buckets, x, clock) = AtMost(Burst[x], c + d * Rate[x])
        BY <3>1 DEF Credit
      <4>4. Credit(buckets, x, clock - 1) = AtMost(Burst[x], c + e * Rate[x])
        BY <3>1 DEF Credit
      <4> HIDE DEF d, e, c
      <4>5. e * Rate[x] <= d * Rate[x] /\ e * Rate[x] \in Nat /\ d * Rate[x] \in Nat
        BY <4>2, <2>1, Monotone
      <4>6. QED
        BY <4>1, <4>3, <4>4, <4>5, <2>1 DEF AtMost
    <3>2. CASE x \notin DOMAIN buckets
      BY <3>2, <2>1 DEF Credit
    <3>3. QED
      BY <3>1, <3>2
  <2>3. /\ Credit(buckets, x, clock) \in 0..Burst[x]
        /\ Credit(buckets, x, clock - 1) \in 0..Burst[x]
    BY RefilledIsCredit, <1>1
  <2>4. ahead[x] + Credit(buckets, x, clock) <= Burst[x]
    OBVIOUS
  <2>5. ahead[x] + Credit(buckets, x, clock - 1) <= Burst[x]
    BY <2>1, <2>2, <2>3, <2>4
  <2>6. QED
    BY <2>5, <1>1
<1>3. QED
  BY <1>1, <1>2

LEMMA LimiterInitInv == LimiterInit => LimiterInv
<1> SUFFICES ASSUME LimiterInit PROVE LimiterInv
  OBVIOUS
<1>1. LimiterTypes
  BY LimiterAssumption DEF LimiterInit, LimiterTypes, Proper
<1>2. \A k \in Keys : Credit(buckets, k, clock) = Burst[k] /\ Burst[k] \in Nat
  BY LimiterAssumption DEF LimiterInit, Credit
<1>3. \A k \in Keys : ahead[k] = 0
  BY DEF LimiterInit
<1>4. QED
  BY <1>1, <1>2, <1>3 DEF LimiterInv

LEMMA InvGivesRate == LimiterInv => GrantedWithinRate
<1> SUFFICES ASSUME LimiterInv, NEW k \in Keys
             PROVE  ahead[k] <= Burst[k]
  BY DEF GrantedWithinRate
<1>1. Credit(buckets, k, clock) \in 0..Burst[k] /\ Burst[k] \in Nat
  BY RefilledIsCredit, LimiterAssumption DEF LimiterInv, LimiterTypes
<1>2. ahead[k] \in Nat
  BY DEF LimiterInv, LimiterTypes
<1>3. QED
  BY <1>1, <1>2 DEF LimiterInv

LEMMA LimiterStep == ASSUME LimiterInv, [LimiterNext]_limiter PROVE LimiterInv'
<1>1. ASSUME NEW k \in Keys, Take(k) PROVE LimiterInv'
  BY <1>1, TakeKeepsAccount
<1>2. CASE ClockForward
  BY <1>2, ForwardKeepsAccount
<1>3. CASE ClockBack
  BY <1>3, BackKeepsAccount
<1>4. CASE UNCHANGED limiter
  BY <1>4 DEF LimiterInv, LimiterTypes, limiter
<1>5. QED
  BY <1>1, <1>2, <1>3, <1>4 DEF LimiterNext

\* Within every stretch of time a key is granted no more than its burst and what
\* its rate gives: forgotten buckets, a full table and a clock that steps back
\* give nobody a request (bucket-limiter.ts).
THEOREM LimiterGrantsWithinRate == LimiterSpec => []GrantedWithinRate
<1>1. LimiterInit => LimiterInv
  BY LimiterInitInv
<1>2. LimiterInv /\ [LimiterNext]_limiter => LimiterInv'
  BY LimiterStep
<1>3. LimiterInv => GrantedWithinRate
  BY InvGivesRate
<1>4. QED
  BY <1>1, <1>2, <1>3, PTL DEF LimiterSpec

\* What is swept away makes room, and a key without room leaves no bucket.
LEMMA TakenFits ==
    ASSUME NEW bs, IsFiniteSet(DOMAIN bs), Cardinality(DOMAIN bs) <= Cap, NEW k, NEW t
    PROVE  /\ IsFiniteSet(DOMAIN Taken(bs, k, t))
           /\ Cardinality(DOMAIN Taken(bs, k, t)) <= Cap
<1> DEFINE kept == Kept(bs, t)
<1>1. kept \subseteq DOMAIN bs
  BY DEF Kept
<1>2. /\ IsFiniteSet(kept) /\ Cardinality(kept) \in Nat /\ Cardinality(kept) <= Cap
      /\ Cardinality(DOMAIN bs) \in Nat /\ Cap \in Nat
  BY <1>1, FS_Subset, FS_CardinalityType, LimiterAssumption
<1>3. /\ IsFiniteSet(kept \cup {k})
      /\ Cardinality(kept \cup {k}) = IF k \in kept THEN Cardinality(kept) ELSE Cardinality(kept) + 1
  BY <1>2, FS_AddElement
<1>4. CASE HasRoom(bs, k, t)
  <2>1. DOMAIN Taken(bs, k, t) = kept \cup {k}
    BY <1>4 DEF Taken
  <2>2. k \in kept \/ Cardinality(kept) < Cap
    BY <1>4 DEF HasRoom
  <2> HIDE DEF kept
  <2>3. QED
    BY <1>2, <1>3, <2>1, <2>2
<1>5. CASE ~HasRoom(bs, k, t)
  <2>1. DOMAIN Taken(bs, k, t) = kept
    BY <1>5 DEF Taken
  <2>2. QED
    BY <1>2, <2>1
<1>6. QED
  BY <1>4, <1>5

\* However many addresses and projects there are, the process holds at most Cap
\* buckets (the limit of 20 000 in bucket-limiter.ts).
THEOREM LimiterStaysSmall == LimiterSpec => []BucketsBounded
<1> DEFINE Fits == IsFiniteSet(DOMAIN buckets) /\ Cardinality(DOMAIN buckets) <= Cap
<1>1. LimiterInit => Fits
  <2>1. SUFFICES ASSUME LimiterInit PROVE Fits
    OBVIOUS
  <2>2. DOMAIN buckets = {}
    BY <2>1 DEF LimiterInit
  <2>3. QED
    BY <2>2, FS_EmptySet, LimiterAssumption
<1>2. Fits /\ [LimiterNext]_limiter => Fits'
  <2>1. SUFFICES ASSUME Fits, [LimiterNext]_limiter PROVE Fits'
    OBVIOUS
  <2>2. ASSUME NEW k \in Keys, Take(k) PROVE Fits'
    BY <2>1, <2>2, TakenFits DEF Take
  <2>3. CASE UNCHANGED buckets
    BY <2>1, <2>3
  <2>4. QED
    BY <2>1, <2>2, <2>3 DEF LimiterNext, ClockForward, ClockBack, limiter
<1>3. Fits => BucketsBounded
  BY DEF BucketsBounded
<1>4. QED
  BY <1>1, <1>2, <1>3, PTL DEF LimiterSpec

-----------------------------------------------------------------------------
(* The page and the limiter together.                                      *)

Statuses == {None, 200, 400, 429}

Requests ==
    [at : Places, since : Nat, aborted : BOOLEAN, status : Statuses, readable : BOOLEAN]

\* The page never knows of a shorter wait than it was told, and a page without
\* a client has aborted what it had under way.
PageInv ==
    /\ now \in Nat /\ told \in Nat /\ backoffUntil \in Nat
    /\ req \in [Slots -> Requests]
    /\ told <= backoffUntil
    /\ ClosedIsSilent

-----------------------------------------------------------------------------
(* The limiter in front.                                                   *)

\* One arriving request asks two buckets in one step.
LEMMA ArriveKeepsAccount ==
    ASSUME LimiterInv, NEW c \in Slots, NEW from, NEW to, Arrive(c, from, to)
    PROVE  LimiterInv'
<1> USE DEF LimiterInv, LimiterTypes
<1> DEFINE then == Taken(buckets, Installation, clock)
           all == Allows(buckets, Installation, clock)
           both == all /\ Allows(then, Address, clock)
           asked == (IF all THEN {Installation} ELSE {}) \cup (IF both THEN {Address} ELSE {})
<1>1. Installation \in Keys /\ Address \in Keys
  BY TransportAssumption
<1>2. /\ clock' = clock
      /\ buckets' = IF all THEN Taken(then, Address, clock) ELSE then
      /\ ahead' = Counts(asked)
      /\ lastSweep' \in {clock, lastSweep}
  BY DEF Arrive, FirstTakes
<1>3. /\ Proper(then)
      /\ \A x \in Keys : Credit(then, x, clock) =
            Credit(buckets, x, clock) - (IF x = Installation /\ all THEN 1 ELSE 0)
  BY <1>1, TakenCosts
<1>4. /\ Proper(Taken(then, Address, clock))
      /\ \A x \in Keys : Credit(Taken(then, Address, clock), x, clock) =
            Credit(then, x, clock) - (IF x = Address /\ Allows(then, Address, clock) THEN 1 ELSE 0)
  BY <1>1, <1>3, TakenCosts
<1> HIDE DEF then, all
<1>5. /\ Proper(buckets') /\ lastSweep' \in Nat
      /\ ahead' \in [Keys -> Nat]
  BY <1>2, <1>3, <1>4 DEF Counts
<1>6. ASSUME NEW x \in Keys
      PROVE  (ahead[x] + Credit(buckets, x, clock) <= Burst[x])'
  <2>1. /\ ahead[x] \in Nat /\ Burst[x] \in Nat
        /\ Credit(buckets, x, clock) \in 0..Burst[x]
        /\ Credit(then, x, clock) \in 0..Burst[x]
    BY <1>3, RefilledIsCredit, LimiterAssumption
  <2>2. ahead'[x] = ahead[x] + (IF x \in asked THEN 1 ELSE 0)
    BY <1>2 DEF Counts
  <2>3. Credit(buckets', x, clock') <=
           Credit(buckets, x, clock) - (IF x \in asked THEN 1 ELSE 0)
    <3>1. CASE ~all
      BY <3>1, <1>2, <1>3, <2>1
    <3>2. CASE all
      BY <3>2, <1>2, <1>3, <1>4, <2>1
    <3>3. QED
      BY <3>1, <3>2
  <2>4. Credit(buckets', x, clock') \in 0..Burst[x]
    BY <1>5, <1>2, RefilledIsCredit
  <2>5. ahead'[x] + Credit(buckets', x, clock') <= ahead[x] + Credit(buckets, x, clock)
    BY <2>1, <2>2, <2>3, <2>4
  <2>6. ahead[x] + Credit(buckets, x, clock) <= Burst[x]
    OBVIOUS
  <2>7. QED
    BY <2>1, <2>2, <2>4, <2>5, <2>6, <1>2
<1>7. QED
  BY <1>2, <1>5, <1>6

LEMMA AccountStep == ASSUME LimiterInv, [Next]_vars PROVE LimiterInv'
<1>1. CASE UNCHANGED limiter
  BY <1>1 DEF LimiterInv, LimiterTypes, limiter
<1>2. ASSUME NEW c \in Slots, ArrivePreflight(c) \/ ArrivePost(c) PROVE LimiterInv'
  BY <1>2, ArriveKeepsAccount DEF ArrivePreflight, ArrivePost
<1>3. ASSUME NEW c \in Slots, Handle(c) PROVE LimiterInv'
  BY <1>3, TakeKeepsAccount, TransportAssumption DEF Handle
<1>4. ASSUME NEW k \in Keys, Others(k) PROVE LimiterInv'
  BY <1>4, TakeKeepsAccount DEF Others
<1>5. CASE StepBack
  BY <1>5, BackKeepsAccount DEF StepBack
<1>6. CASE Tick
  BY <1>6, ForwardKeepsAccount DEF Tick
<1>7. QED
  BY <1>1, <1>2, <1>3, <1>4, <1>5, <1>6
  DEF Next, vars, StartClient, BeginClose, EndClose, Send, Abort, SettleWithAnswer,
      SettleWithFailure, Reject, AllowPreflight

\* Composed with the page and other clients the limiter still grants no more
\* than burst and rate, although a request asks two buckets at once.
THEOREM GrantsStayWithinRate == Spec => []GrantedWithinRate
<1>1. Init => LimiterInv
  BY LimiterInitInv DEF Init
<1>2. LimiterInv /\ [Next]_vars => LimiterInv'
  BY AccountStep
<1>3. QED
  BY <1>1, <1>2, InvGivesRate, PTL DEF Spec

-----------------------------------------------------------------------------
(* The page.                                                               *)

LEMMA FreeIsRequest == Free \in Requests /\ Free.at = "free"
  BY DEF Free, Requests, Places, Statuses

LEMMA PageInit == Init => PageInv
  BY FreeIsRequest DEF Init, PageInv, ClosedIsSilent, Flying

\* A delay of an answer is a number, within its limits.
LEMMA WaitIsNatural == \A h \in Headers : RetryAfter(h) \in Nat
  BY TransportAssumption DEF RetryAfter, Clamp, AtMost

LEMMA AbortedIsRequest ==
    ASSUME NEW q \in Requests
    PROVE  [q EXCEPT !.aborted = TRUE] \in Requests /\ [q EXCEPT !.aborted = TRUE].aborted
  BY DEF Requests

LEMMA SentIsRequest ==
    ASSUME NEW first \in Places, NEW since \in Nat
    PROVE  [Free EXCEPT !.at = first, !.since = since] \in Requests
  BY DEF Free, Requests, Places, Statuses

\* What changes one request and leaves the client alone keeps the page's word,
\* if the request ends, or was aborted, or the client is active.
LEMMA OneRequest ==
    ASSUME PageInv, NEW c \in Slots, NEW r \in Requests,
           req' = [req EXCEPT ![c] = r],
           active' = active, now' \in Nat, told' \in Nat, backoffUntil' \in Nat,
           told' <= backoffUntil',
           active \/ r.at = "free" \/ r.aborted
    PROVE  PageInv'
<1>1. req' \in [Slots -> Requests]
  BY DEF PageInv
<1>2. \A d \in Slots : req'[d] = IF d = c THEN r ELSE req[d]
  BY DEF PageInv
<1>3. ClosedIsSilent'
  BY <1>1, <1>2 DEF PageInv, ClosedIsSilent, Flying
<1>4. QED
  BY <1>1, <1>3 DEF PageInv

\* A request under way goes on, with or without an answer.
LEMMA GoesOn ==
    ASSUME PageInv, NEW c \in Slots, req[c].at # "free", UNCHANGED <<now, page>>,
           req' \in [Slots -> Requests],
           req'[c].aborted = req[c].aborted,
           \A d \in Slots \ {c} : req'[d] = req[d]
    PROVE  PageInv'
<1>1. ClosedIsSilent'
  BY DEF PageInv, ClosedIsSilent, Flying, page
<1>2. QED
  BY <1>1 DEF PageInv, page

LEMMA Placed ==
    ASSUME NEW q \in Requests, NEW place \in Places
    PROVE  /\ [q EXCEPT !.at = place] \in Requests
           /\ [q EXCEPT !.at = place].aborted = q.aborted
  BY DEF Requests

LEMMA Answered ==
    ASSUME NEW q \in Requests, NEW status \in Statuses, NEW readable \in BOOLEAN
    PROVE  LET r == [q EXCEPT !.at = "answered", !.status = status, !.readable = readable] IN
           r \in Requests /\ r.aborted = q.aborted
<1>1. "answered" \in Places
  BY DEF Places
<1> DEFINE r == [q EXCEPT !.at = "answered", !.status = status, !.readable = readable]
<1>2. r \in Requests
  BY <1>1 DEF Requests
<1>3. r.aborted = q.aborted
  BY DEF Requests
<1>4. QED
  BY <1>2, <1>3

LEMMA PageStep == ASSUME PageInv, [Next]_vars PROVE PageInv'
<1> USE DEF page
<1>1. CASE UNCHANGED <<now, page, req>>
  BY <1>1 DEF PageInv, ClosedIsSilent, Flying
<1>2. CASE StartClient
  BY <1>2 DEF StartClient, Keeps, PageInv, ClosedIsSilent
<1>3. CASE BeginClose
  BY <1>3 DEF BeginClose, PageInv, ClosedIsSilent, Flying
<1>4. CASE EndClose
  <2>1. \A c \in Slots : req'[c] \in Requests /\ (req'[c].at # "free" => req'[c].aborted)
    BY <1>4, AbortedIsRequest DEF EndClose, Aborted, Flying, PageInv
  <2>2. req' \in [Slots -> Requests]
    BY <1>4, <2>1 DEF EndClose
  <2>3. QED
    BY <1>4, <2>1, <2>2 DEF EndClose, PageInv, ClosedIsSilent, Flying
<1>5. ASSUME NEW c \in Slots, Send(c) PROVE PageInv'
  <2>1. active /\ UNCHANGED <<now, page>>
    BY <1>5 DEF Send, MaySend
  <2>2. PICK first \in {"preflight", "post"} :
           req' = [req EXCEPT ![c] = [Free EXCEPT !.at = first, !.since = now]]
    BY <1>5 DEF Send
  <2>3. [Free EXCEPT !.at = first, !.since = now] \in Requests
    BY SentIsRequest DEF Places, PageInv
  <2>4. QED
    BY <2>1, <2>2, <2>3, OneRequest DEF PageInv
<1>6. ASSUME NEW c \in Slots, Abort(c) PROVE PageInv'
  <2> DEFINE r == [req[c] EXCEPT !.aborted = TRUE]
  <2>1. r \in Requests /\ r.aborted
    BY AbortedIsRequest DEF PageInv
  <2>2. req' = [req EXCEPT ![c] = r]
    BY <1>6 DEF Abort
  <2> HIDE DEF r
  <2>3. QED
    BY <1>6, <2>1, <2>2, OneRequest DEF Abort, PageInv
<1>7. ASSUME NEW c \in Slots, SettleWithAnswer(c) PROVE PageInv'
  <2>1. told' \in Nat /\ backoffUntil' \in Nat /\ told' <= backoffUntil'
    <3>1. CASE req[c].status = 429
      <4>1. PICK h \in Headers :
               /\ backoffUntil' = Backoff(RetryAfter(h))
               /\ told' = IF told > now + RetryAfter(h) THEN told ELSE now + RetryAfter(h)
        BY <1>7, <3>1 DEF SettleWithAnswer
      <4>2. RetryAfter(h) \in Nat
        BY WaitIsNatural
      <4>3. QED
        BY <4>1, <4>2 DEF Backoff, PageInv
    <3>2. CASE req[c].status # 429
      BY <1>7, <3>2 DEF SettleWithAnswer, PageInv
    <3>3. QED
      BY <3>1, <3>2
  <2>2. QED
    BY <1>7, <2>1, FreeIsRequest, OneRequest DEF SettleWithAnswer, PageInv
<1>8. ASSUME NEW c \in Slots, SettleWithFailure(c) PROVE PageInv'
  BY <1>8, FreeIsRequest, OneRequest DEF SettleWithFailure, PageInv
<1>9. ASSUME NEW c \in Slots, ArrivePreflight(c) \/ ArrivePost(c) PROVE PageInv'
  <2>1. ASSUME NEW from \in {"preflight", "post"}, NEW to \in Places, Arrive(c, from, to)
        PROVE  PageInv'
    <3> DEFINE r == [req[c] EXCEPT !.at = to]
               q == [req[c] EXCEPT !.at = "answered", !.status = 429, !.readable = FALSE]
    <3>1. req \in [Slots -> Requests] /\ req[c].at # "free" /\ UNCHANGED <<now, page>>
      BY <2>1 DEF Arrive, PageInv
    <3>2. 429 \in Statuses /\ req[c] \in Requests
      BY <3>1 DEF Statuses
    <3>3. r \in Requests /\ r.aborted = req[c].aborted
      BY <3>2, Placed
    <3>4. q \in Requests /\ q.aborted = req[c].aborted
      BY ZenonT(60), <3>2, Answered
    <3>5. req' = [req EXCEPT ![c] = r] \/ req' = [req EXCEPT ![c] = q]
      BY <2>1, <3>1 DEF Arrive, Goes, Answer
    <3> HIDE DEF r, q
    <3>6. /\ req' \in [Slots -> Requests] /\ req'[c].aborted = req[c].aborted
          /\ \A d \in Slots \ {c} : req'[d] = req[d]
      BY <3>1, <3>3, <3>4, <3>5
    <3>7. QED
      BY <3>1, <3>6, GoesOn
  <2>2. QED
    BY <1>9, <2>1 DEF ArrivePreflight, ArrivePost, Places
<1>10. ASSUME NEW c \in Slots, Reject(c) \/ AllowPreflight(c) \/ Handle(c) PROVE PageInv'
  <2>1. req \in [Slots -> Requests] /\ req[c].at # "free" /\ UNCHANGED <<now, page>>
    BY <1>10 DEF Reject, AllowPreflight, Handle, PageInv
  <2>2. CASE Reject(c)
    <3> DEFINE r == [req[c] EXCEPT !.at = "answered", !.status = 400, !.readable = FALSE]
    <3>1. req' = [req EXCEPT ![c] = r]
      BY <2>2, <2>1 DEF Reject, Answer
    <3>2. r \in Requests /\ r.aborted = req[c].aborted
      <4>1. 400 \in Statuses /\ req[c] \in Requests
        BY <2>1 DEF Statuses
      <4>2. QED
        BY ZenonT(60), <4>1, Answered
    <3> HIDE DEF r
    <3>3. /\ req' \in [Slots -> Requests] /\ req'[c].aborted = req[c].aborted
          /\ \A d \in Slots \ {c} : req'[d] = req[d]
      BY <2>1, <3>1, <3>2
    <3>4. QED
      BY <2>1, <3>3, GoesOn
  <2>3. CASE AllowPreflight(c)
    <3> DEFINE r == [req[c] EXCEPT !.at = "post"]
    <3>1. r \in Requests /\ r.aborted = req[c].aborted
      BY <2>1, Placed DEF Places
    <3>2. req' = [req EXCEPT ![c] = r]
      BY <2>3, <2>1 DEF AllowPreflight, Goes
    <3> HIDE DEF r
    <3>3. /\ req' \in [Slots -> Requests] /\ req'[c].aborted = req[c].aborted
          /\ \A d \in Slots \ {c} : req'[d] = req[d]
      BY <2>1, <3>1, <3>2
    <3>4. QED
      BY <2>1, <3>3, GoesOn
  <2>4. CASE Handle(c)
    <3>1. PICK status \in {200, 429} :
             req' = [req EXCEPT ![c] = [req[c] EXCEPT !.at = "answered", !.status = status,
                                                      !.readable = TRUE]]
      BY ZenonT(60), <2>4, <2>1 DEF Handle, Answer
    <3> DEFINE r == [req[c] EXCEPT !.at = "answered", !.status = status, !.readable = TRUE]
    <3>2. r \in Requests /\ r.aborted = req[c].aborted
      <4>1. status \in Statuses /\ "answered" \in Places /\ req[c] \in Requests
        BY <2>1 DEF Statuses, Places
      <4>2. r \in Requests
        BY <4>1 DEF Requests
      <4>3. r.aborted = req[c].aborted
        BY <4>1 DEF Requests
      <4>4. QED
        BY <4>2, <4>3
    <3> HIDE DEF r
    <3>3. req' = [req EXCEPT ![c] = r]
      BY <3>1 DEF r
    <3>4. /\ req' \in [Slots -> Requests] /\ req'[c].aborted = req[c].aborted
          /\ \A d \in Slots \ {c} : req'[d] = req[d]
      BY <2>1, <3>2, <3>3
    <3>5. QED
      BY <2>1, <3>4, GoesOn
  <2>5. QED
    BY <1>10, <2>2, <2>3, <2>4
<1>11. CASE Tick
  BY <1>11 DEF Tick, PageInv, ClosedIsSilent, Flying
<1>12. QED
  BY <1>1, <1>2, <1>3, <1>4, <1>5, <1>6, <1>7, <1>8, <1>9, <1>10, <1>11
  DEF Next, vars, Others, StepBack

\* Once the client is closed all that was under way is aborted and nothing is
\* sent, however answers, timers, overlapping closes and new clients interleave.
THEOREM ClosedStaysSilent == Spec => []ClosedIsSilent
<1>1. PageInv => ClosedIsSilent
  BY DEF PageInv
<1>2. QED
  BY <1>1, PageInit, PageStep, PTL DEF Spec

\* Every wait an answer asked for passes before the next request.
THEOREM BackoffIsRespected == Spec => BackoffRespected
<1> DEFINE Waited == \A c \in Slots : req[c].at = "free" /\ req'[c].at # "free" => now >= told
<1>1. ASSUME PageInv, [Next]_vars PROVE [Waited]_vars
  <2>1. ASSUME NEW c \in Slots, req[c].at = "free", req'[c].at # "free", Next
        PROVE  now >= told
    <3>1. ASSUME NEW d \in Slots, NEW r, req' = [req EXCEPT ![d] = r],
                 req[d].at = "free" => r.at = "free"
          PROVE  FALSE
      BY <1>1, <2>1, <3>1 DEF PageInv
    <3>2. ~(UNCHANGED req)
      BY <2>1
    <3>3. ~EndClose
      BY <2>1 DEF EndClose, Flying
    <3>4. ASSUME NEW d \in Slots PROVE ~Abort(d)
      BY <3>1 DEF Abort, Flying, PageInv, Requests
    <3>5. ASSUME NEW d \in Slots PROVE ~(SettleWithAnswer(d) \/ SettleWithFailure(d))
      BY <3>1, FreeIsRequest DEF SettleWithAnswer, SettleWithFailure
    <3>6. ASSUME NEW d \in Slots, req[d].at # "free", NEW place, NEW status, NEW readable
          PROVE  ~(Goes(d, place) \/ Answer(d, status, readable))
      BY <3>1, <3>6 DEF Goes, Answer
    <3>7. ASSUME NEW d \in Slots
          PROVE  ~(ArrivePreflight(d) \/ ArrivePost(d) \/ Reject(d) \/ AllowPreflight(d) \/ Handle(d))
      BY ZenonT(60), <3>6 DEF ArrivePreflight, ArrivePost, Arrive, Reject, AllowPreflight, Handle
    <3>8. PICK d \in Slots : Send(d)
      BY <2>1, <3>2, <3>3, <3>4, <3>5, <3>7
      DEF Next, StartClient, BeginClose, Others, StepBack, Tick
    <3>9. QED
      BY <1>1, <3>8 DEF Send, MaySend, PageInv
  <2>2. QED
    BY <1>1, <2>1
<1>2. QED
  BY <1>1, PageInit, PageStep, PTL DEF Spec, BackoffRespected

=============================================================================
