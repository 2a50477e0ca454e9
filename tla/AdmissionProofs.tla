---------------------------- MODULE AdmissionProofs ----------------------------
(***************************************************************************)
(* That each row of the inbox is counted once, that no project gets past   *)
(* its daily quota or its share of the shared bucket and that 200          *)
(* acknowledges a row, for any requests, events, projects, quotas, burst,  *)
(* rate and number of days.                                                *)
(*                                                                         *)
(* The counters agree because they are changed under one lock: what Decide *)
(* found out is still so at Commit (LockInv).  A cleanup takes one from a  *)
(* counter that counts at least the rows that are there (CountInv).  What  *)
(* a span of time grants covers what was admitted in it and the credit     *)
(* that is left (BucketInv).                                               *)
(*                                                                         *)
(* The second part is about Protocol: no secret that the sanitizer knows   *)
(* is readable on the way to the inbox, and what a page sends is taken as  *)
(* it is.  A secret that is still encoded after two passes has made its    *)
(* path short enough for the mask of the third (MaskedPath).               *)
(***************************************************************************)
EXTENDS Admission, Protocol, FiniteSetTheorems, TLAPS

InboxRows == [active : BOOLEAN, received : Days]
Txns == [date : Days, received : Days, at : Times, left : Int]
Places == {"sent", "keyed", "begun", "waiting", "admitting", "inserted", "refused", "failed",
           "answered", "lost"}
InTransaction == {"begun", "waiting", "admitting"}

Types ==
    /\ now \in Times /\ today \in Days
    /\ pc \in [Requests -> Places]
    /\ answer \in [Requests -> {None, 200, 400, 403, 429, 503}]
    /\ txn \in [Requests -> Txns \cup {None}]
    /\ \A r \in Requests : pc[r] \in InTransaction => txn[r] \in Txns
    /\ accepted \in [Projects -> [Days -> Nat]]
    /\ bucket \in [Projects -> [credit : Int, at : Times]]
    /\ inbox \in [Events -> InboxRows \cup {None}]
    /\ dated \in [Events -> Days]
    /\ ledger \in [Projects -> [Days -> Nat]]

\* Who is between Decide and Commit holds the lock, and what it decided from
\* is still so.
LockInv ==
    \A r \in Requests : pc[r] = "admitting" =>
        /\ lock = r
        /\ inbox[EventOf[r]] = None
        /\ accepted[Target(r)][txn[r].date] < Quota[Target(r)]

\* The rows of a project that were counted on a day.
RowsOf(p, d) == {e \in Events : inbox[e] # None /\ ProjectOf[e] = p /\ dated[e] = d}

\* The rows that are there are counted, and the statistics are the count.
CountInv ==
    /\ recorded \subseteq {e \in Events : inbox[e] # None}
    /\ \A p \in Projects, d \in Days : Cardinality(RowsOf(p, d)) <= ledger[p][d]
    /\ StatisticsMatchRows

\* Rows, and answers that speak of them, are of confirmed events.
ConfirmedInv ==
    /\ \A e \in Events : inbox[e] # None => e \in confirmed
    /\ \A r \in Requests :
        pc[r] = "inserted" \/ answer[r] = 200 => EventOf[r] \in confirmed

AdmissionInv == Types /\ LockInv /\ CountInv /\ QuotaHolds /\ ConfirmedInv

-----------------------------------------------------------------------------
(* Types.                                                                  *)

LEMMA Targets ==
    ASSUME NEW r \in Requests
    PROVE  EventOf[r] \in Events /\ Target(r) \in Projects
BY AdmissionAssumption DEF Target

\* A step that moves one request.
LEMMA Moved ==
    ASSUME Types, NEW r \in Requests, NEW at \in Places, pc' = [pc EXCEPT ![r] = at]
    PROVE  /\ pc' \in [Requests -> Places]
           /\ pc'[r] = at
           /\ \A q \in Requests \ {r} : pc'[q] = pc[q]
BY DEF Types

\* What the steps of a request leave alone, and what they may do to its
\* transaction and its answer.
RequestSteps(r) ==
    \/ CheckKey(r) \/ RefuseUnknown(r) \/ RefuseProject(r) \/ RefuseBody(r)
    \/ Begin(r) \/ Stamp(r) \/ Decide(r) \/ Fail(r)
    \/ Accept(r) \/ Unavailable(r) \/ Reject(r) \/ Die(r)

\* The transaction of a request ends, or goes on with its dates.
TxnStep(r) ==
    /\ txn' \in [Requests -> Txns \cup {None}]
    /\ \A q \in Requests \ {r} : txn'[q] = txn[q] /\ pc'[q] = pc[q] /\ answer'[q] = answer[q]
    /\ pc'[r] \in InTransaction => txn'[r] \in Txns
    /\ pc'[r] = "admitting" =>
        /\ Decide(r) /\ txn'[r].date = txn[r].date
        /\ LockFree /\ lock' = r /\ inbox[EventOf[r]] = None
        /\ ~OverCapacity(Target(r), txn[r].date)
    /\ pc'[r] = "inserted" => Decide(r) /\ inbox[EventOf[r]] # None
    /\ answer'[r] = 200 => answer[r] = 200 \/ pc[r] = "inserted"

LEMMA LostTransaction ==
    ASSUME Types, NEW r \in Requests, NEW at \in Places \ InTransaction,
           pc' = [pc EXCEPT ![r] = at], Ended(r) \/ UNCHANGED txn
    PROVE  /\ pc' \in [Requests -> Places] /\ pc'[r] = at
           /\ txn' \in [Requests -> Txns \cup {None}]
           /\ \A q \in Requests \ {r} : txn'[q] = txn[q] /\ pc'[q] = pc[q]
<1>1. /\ pc' \in [Requests -> Places] /\ pc'[r] = at
      /\ \A q \in Requests \ {r} : pc'[q] = pc[q]
  BY Moved
<1>2. CASE Ended(r)
  BY <1>1, <1>2 DEF Ended, Types
<1>3. CASE UNCHANGED txn
  BY <1>1, <1>3 DEF Types
<1> QED
  BY <1>2, <1>3

LEMMA Replied ==
    ASSUME Types, NEW r \in Requests, NEW code \in {200, 400, 403, 429, 503}, Reply(r, code),
           UNCHANGED txn
    PROVE  /\ pc' \in [Requests -> Places] /\ pc'[r] = "answered"
           /\ answer' \in [Requests -> {None, 200, 400, 403, 429, 503}] /\ answer'[r] = code
           /\ txn' \in [Requests -> Txns \cup {None}]
           /\ \A q \in Requests \ {r} :
                txn'[q] = txn[q] /\ pc'[q] = pc[q] /\ answer'[q] = answer[q]
<1>1. /\ pc' \in [Requests -> Places] /\ pc'[r] = "answered"
      /\ \A q \in Requests \ {r} : pc'[q] = pc[q]
  <2>1. pc' = [pc EXCEPT ![r] = "answered"]
    BY DEF Reply
  <2>2. "answered" \in Places
    BY DEF Places
  <2> QED
    BY <2>1, <2>2 DEF Types
<1>2. answer' = [answer EXCEPT ![r] = code]
  BY DEF Reply
<1> QED
  BY <1>1, <1>2 DEF Types

LEMMA BeginTxn ==
    ASSUME Types, NEW r \in Requests, Begin(r) \/ Stamp(r)
    PROVE  /\ pc' \in [Requests -> Places] /\ TxnStep(r)
<1>1. CASE Begin(r)
  <2> DEFINE new == [date |-> today, received |-> today, at |-> now, left |-> 0]
  <2>1. new \in Txns
    BY DEF Types, Txns
  <2>2. txn' = [txn EXCEPT ![r] = new] /\ UNCHANGED answer
    BY <1>1 DEF Begin
  <2>3. /\ pc' \in [Requests -> Places] /\ pc'[r] = "begun"
        /\ \A q \in Requests \ {r} : pc'[q] = pc[q]
    BY <1>1, Moved DEF Begin, Places
  <2> HIDE DEF new
  <2>4. /\ txn' \in [Requests -> Txns \cup {None}] /\ txn'[r] = new
        /\ \A q \in Requests \ {r} : txn'[q] = txn[q]
    BY <2>1, <2>2 DEF Types
  <2> QED
    BY <2>1, <2>2, <2>3, <2>4 DEF TxnStep
<1>2. CASE Stamp(r)
  <2> DEFINE new == [txn[r] EXCEPT !.received = today]
  <2>1. txn[r] \in Txns
    BY <1>2 DEF Types, Stamp, InTransaction
  <2>5. new \in Txns
    BY <2>1 DEF Types, Txns
  <2>2. txn' = [txn EXCEPT ![r] = new] /\ UNCHANGED answer
    BY <1>2 DEF Stamp
  <2>3. /\ pc' \in [Requests -> Places] /\ pc'[r] = "waiting"
        /\ \A q \in Requests \ {r} : pc'[q] = pc[q]
    BY <1>2, Moved DEF Stamp, Places
  <2> HIDE DEF new
  <2>4. /\ txn' \in [Requests -> Txns \cup {None}] /\ txn'[r] = new
        /\ \A q \in Requests \ {r} : txn'[q] = txn[q]
    BY <2>5, <2>2 DEF Types
  <2> QED
    BY <2>5, <2>2, <2>3, <2>4 DEF TxnStep
<1> QED
  BY <1>1, <1>2

LEMMA DecideTxn ==
    ASSUME Types, NEW r \in Requests, Decide(r)
    PROVE  /\ pc' \in [Requests -> Places] /\ TxnStep(r)
<1>1. UNCHANGED answer
  BY DEF Decide
<1>2. CASE /\ pc' = [pc EXCEPT ![r] = "inserted"] /\ Ended(r)
           /\ inbox[EventOf[r]] # None
  BY <1>1, <1>2, LostTransaction DEF TxnStep, Places, InTransaction
<1>3. CASE \/ pc' = [pc EXCEPT ![r] = "failed"] /\ Ended(r)
           \/ pc' = [pc EXCEPT ![r] = "refused"] /\ Ended(r)
  BY <1>1, <1>3, LostTransaction DEF TxnStep, Places, InTransaction
<1>4. CASE /\ LockFree /\ lock' = r /\ inbox[EventOf[r]] = None
           /\ ~OverCapacity(Target(r), txn[r].date)
           /\ pc' = [pc EXCEPT ![r] = "admitting"]
           /\ txn' = [txn EXCEPT ![r].at = now, ![r].left = Available(Target(r)) - 1]
  <2> DEFINE left == Available(Target(r)) - 1
             new == [txn[r] EXCEPT !.at = now, !.left = left]
  <2>1. txn[r] \in Txns
    BY DEF Types, Decide, InTransaction
  <2>2. left \in Int
    <3>1. /\ now \in Int /\ Rate \in Int /\ Burst \in Int
          /\ bucket[Target(r)].credit \in Int /\ bucket[Target(r)].at \in Int
      BY Targets, AdmissionAssumption DEF Types, Times
    <3>2. bucket[Target(r)].credit + (now - bucket[Target(r)].at) * Rate \in Int
      BY <3>1
    <3> QED
      BY <3>1, <3>2 DEF Available, Least
  <2>3. txn' = [txn EXCEPT ![r] = new]
    BY <1>4
  <2> HIDE DEF left
  <2>4. new \in Txns /\ new.date = txn[r].date
    BY <2>1, <2>2 DEF Txns, Types
  <2> HIDE DEF new
  <2>5. /\ txn' \in [Requests -> Txns \cup {None}] /\ txn'[r] = new
        /\ \A q \in Requests \ {r} : txn'[q] = txn[q]
    BY <2>3, <2>4 DEF Types
  <2>6. /\ pc' \in [Requests -> Places] /\ pc'[r] = "admitting"
        /\ \A q \in Requests \ {r} : pc'[q] = pc[q]
    BY <1>4, Moved DEF Places
  <2> QED
    BY <1>1, <1>4, <2>4, <2>5, <2>6 DEF TxnStep
<1> QED
  BY <1>2, <1>3, <1>4 DEF Decide

LEMMA RequestTxn ==
    ASSUME Types, NEW r \in Requests, RequestSteps(r)
    PROVE  /\ pc' \in [Requests -> Places]
           /\ answer' \in [Requests -> {None, 200, 400, 403, 429, 503}]
           /\ TxnStep(r)
<1>1. answer \in [Requests -> {None, 200, 400, 403, 429, 503}]
  BY DEF Types
<1>2. CASE Begin(r) \/ Stamp(r)
  BY <1>1, <1>2, BeginTxn DEF Begin, Stamp
<1>3. CASE Decide(r)
  BY <1>1, <1>3, DecideTxn DEF Decide
<1>4. ASSUME NEW at \in {"keyed", "refused", "failed", "lost"}, pc' = [pc EXCEPT ![r] = at],
             Ended(r) \/ UNCHANGED txn, UNCHANGED answer
      PROVE  pc' \in [Requests -> Places] /\ TxnStep(r)
  <2>1. at \in Places \ InTransaction /\ at # "inserted"
    BY DEF Places, InTransaction
  <2> QED
    BY <1>4, <2>1, LostTransaction DEF TxnStep, InTransaction
<1>5. ASSUME NEW code \in {200, 400, 403, 429, 503}, Reply(r, code), UNCHANGED txn,
             code = 200 => pc[r] = "inserted"
      PROVE  /\ pc' \in [Requests -> Places] /\ TxnStep(r)
             /\ answer' \in [Requests -> {None, 200, 400, 403, 429, 503}]
  BY <1>5, Replied DEF TxnStep, InTransaction
<1>6. CASE CheckKey(r)
  BY <1>1, <1>4, <1>5, <1>6 DEF CheckKey
<1>7. CASE RefuseUnknown(r) \/ RefuseBody(r)
  BY <1>5, <1>7 DEF RefuseUnknown, RefuseBody
<1>8. CASE RefuseProject(r) \/ Fail(r) \/ Die(r)
  BY <1>1, <1>4, <1>8 DEF RefuseProject, Fail, Die
<1>9. CASE Accept(r) \/ Unavailable(r) \/ Reject(r)
  BY <1>5, <1>9 DEF Accept, Unavailable, Reject
<1> QED
  BY <1>2, <1>3, <1>6, <1>7, <1>8, <1>9 DEF RequestSteps

-----------------------------------------------------------------------------
(* The steps of a request other than its commit.                           *)

LEMMA RequestRest ==
    ASSUME NEW r \in Requests, RequestSteps(r)
    PROVE  /\ UNCHANGED <<now, today, accepted, bucket, inbox, recorded, dated, ledger,
                          confirmed, misdated>>
           /\ \/ UNCHANGED lock
              \/ lock = r /\ lock' = None /\ pc' = [pc EXCEPT ![r] = "failed"]
              \/ lock = r /\ lock' = None /\ pc' = [pc EXCEPT ![r] = "lost"]
              \/ LockFree /\ lock' = r
<1> USE DEF clocks, counters, ghosts
<1>1. CASE CheckKey(r) \/ RefuseUnknown(r) \/ RefuseProject(r) \/ RefuseBody(r)
  BY <1>1 DEF CheckKey, RefuseUnknown, RefuseProject, RefuseBody
<1>2. CASE Begin(r) \/ Stamp(r)
  BY <1>2 DEF Begin, Stamp
<1>3. CASE Decide(r)
  BY <1>3 DEF Decide
<1>4. CASE Fail(r) \/ Die(r)
  BY <1>4 DEF Fail, Die
<1>5. CASE Accept(r) \/ Unavailable(r) \/ Reject(r)
  BY <1>5 DEF Accept, Unavailable, Reject
<1> QED
  BY <1>1, <1>2, <1>3, <1>4, <1>5 DEF RequestSteps

LEMMA RequestKeeps ==
    ASSUME AdmissionInv, NEW r \in Requests, RequestSteps(r)
    PROVE  AdmissionInv'
<1>1. UNCHANGED <<now, today, accepted, bucket, inbox, recorded, dated, ledger, confirmed,
                  misdated>>
  BY RequestRest
<1>2. /\ pc' \in [Requests -> Places]
      /\ answer' \in [Requests -> {None, 200, 400, 403, 429, 503}]
      /\ TxnStep(r)
  BY RequestTxn DEF AdmissionInv
<1>3. Types'
  <2>1. \A q \in Requests : pc'[q] \in InTransaction => txn'[q] \in Txns
    BY <1>2 DEF AdmissionInv, Types, TxnStep
  <2> QED
    BY <1>1, <1>2, <2>1 DEF AdmissionInv, Types, TxnStep
<1>4. LockInv'
  <2> SUFFICES ASSUME NEW q \in Requests, pc'[q] = "admitting"
               PROVE  /\ lock' = q
                      /\ inbox[EventOf[q]] = None
                      /\ accepted[Target(q)][txn'[q].date] < Quota[Target(q)]
    BY <1>1 DEF LockInv, Target
  <2>1. CASE q = r
    <3>1. /\ Decide(r) /\ txn'[r].date = txn[r].date /\ lock' = r
          /\ inbox[EventOf[r]] = None /\ ~OverCapacity(Target(r), txn[r].date)
      BY <1>2, <2>1 DEF TxnStep
    <3>2. txn[r].date \in Days
      BY <3>1 DEF AdmissionInv, Types, Decide, InTransaction, Txns
    <3>3. accepted[Target(r)][txn[r].date] \in Nat /\ Quota[Target(r)] \in Nat
      BY <3>2, Targets, AdmissionAssumption DEF AdmissionInv, Types
    <3>4. accepted[Target(r)][txn[r].date] < Quota[Target(r)]
      BY <3>1, <3>3 DEF OverCapacity
    <3> QED
      BY <2>1, <3>1, <3>4
  <2>2. CASE q # r
    <3>1. pc[q] = "admitting" /\ txn'[q] = txn[q]
      BY <1>2, <2>2 DEF TxnStep
    <3>2. /\ lock = q /\ inbox[EventOf[q]] = None
          /\ accepted[Target(q)][txn[q].date] < Quota[Target(q)]
      BY <3>1 DEF AdmissionInv, LockInv
    <3>3. lock' = q
      BY <2>2, <3>2, RequestRest, AdmissionAssumption DEF LockFree
    <3> QED
      BY <3>1, <3>2, <3>3
  <2> QED
    BY <2>1, <2>2
<1>5. CountInv' /\ QuotaHolds'
  BY <1>1 DEF AdmissionInv, CountInv, StatisticsMatchRows, QuotaHolds, RowsOf
<1>6. ConfirmedInv'
  <2>1. EventOf[r] \in Events
    BY Targets
  <2> QED
    BY <1>1, <1>2, <2>1 DEF AdmissionInv, ConfirmedInv, TxnStep
<1> QED
  BY <1>3, <1>4, <1>5, <1>6 DEF AdmissionInv

-----------------------------------------------------------------------------
(* The commit: what was decided is still so.                               *)

LEMMA RowsFinite ==
    ASSUME NEW p, NEW d
    PROVE  IsFiniteSet(RowsOf(p, d)) /\ Cardinality(RowsOf(p, d)) \in Nat
<1>1. RowsOf(p, d) \in SUBSET Events
  BY DEF RowsOf
<1> QED
  BY <1>1, AdmissionAssumption, FS_Subset, FS_CardinalityType

LEMMA AddOne ==
    ASSUME NEW S, NEW x, IsFiniteSet(S)
    PROVE  IsFiniteSet(S \cup {x}) /\ Cardinality(S \cup {x}) <= Cardinality(S) + 1
<1>1. Cardinality(S) \in Nat
  BY FS_CardinalityType
<1>2. /\ IsFiniteSet(S \cup {x})
      /\ Cardinality(S \cup {x}) = IF x \in S THEN Cardinality(S) ELSE Cardinality(S) + 1
  BY FS_AddElement
<1> QED
  BY <1>1, <1>2

LEMMA CommitKeeps ==
    ASSUME AdmissionInv, NEW r \in Requests, Commit(r)
    PROVE  AdmissionInv'
<1> DEFINE e == EventOf[r]
           p == Target(r)
           d == txn[r].date
           new == [active |-> TRUE, received |-> txn[r].received]
<1>1. /\ e \in Events /\ p \in Projects /\ ProjectOf[e] = p
      /\ pc[r] = "admitting" /\ txn[r] \in Txns /\ d \in Days /\ txn[r].at \in Times
      /\ new \in InboxRows
  BY Targets DEF Commit, AdmissionInv, Types, InTransaction, Txns, InboxRows, Target
<1>2. inbox[e] = None /\ accepted[p][d] < Quota[p] /\ lock = r
  BY <1>1 DEF AdmissionInv, LockInv
<1>3. /\ inbox' = [inbox EXCEPT ![e] = new]
      /\ dated' = [dated EXCEPT ![e] = d]
      /\ accepted' = [accepted EXCEPT ![p][d] = accepted[p][d] + 1]
      /\ ledger' = [ledger EXCEPT ![p][d] = ledger[p][d] + 1]
      /\ confirmed' = confirmed \cup {e}
      /\ UNCHANGED <<misdated, now, today, answer, recorded>>
  BY <1>2 DEF Commit, clocks
<1>4. /\ pc' = [pc EXCEPT ![r] = "inserted"] /\ lock' = None /\ Ended(r)
      /\ bucket' = [bucket EXCEPT ![p] = [credit |-> txn[r].left, at |-> txn[r].at]]
  BY DEF Commit, Spend
<1>5. /\ pc' \in [Requests -> Places] /\ pc'[r] = "inserted"
      /\ txn' \in [Requests -> Txns \cup {None}]
      /\ \A q \in Requests \ {r} : txn'[q] = txn[q] /\ pc'[q] = pc[q]
  BY <1>4, LostTransaction DEF AdmissionInv, Places, InTransaction
<1> HIDE DEF new
<1>6. /\ inbox' \in [Events -> InboxRows \cup {None}] /\ inbox'[e] = new
      /\ \A x \in Events \ {e} : inbox'[x] = inbox[x]
  BY <1>1, <1>3 DEF AdmissionInv, Types
<1>7. /\ dated' \in [Events -> Days] /\ dated'[e] = d
      /\ \A x \in Events \ {e} : dated'[x] = dated[x]
  BY <1>1, <1>3 DEF AdmissionInv, Types
<1>8. /\ accepted' \in [Projects -> [Days -> Nat]]
      /\ ledger' \in [Projects -> [Days -> Nat]]
      /\ ledger'[p][d] = ledger[p][d] + 1 /\ accepted'[p][d] = accepted[p][d] + 1
      /\ \A k \in Days \ {d} :
            ledger'[p][k] = ledger[p][k] /\ accepted'[p][k] = accepted[p][k]
      /\ \A q \in Projects \ {p} : ledger'[q] = ledger[q] /\ accepted'[q] = accepted[q]
  BY <1>1, <1>3 DEF AdmissionInv, Types
<1>9. Types'
  <2>1. bucket' \in [Projects -> [credit : Int, at : Times]]
    <3>1. [credit |-> txn[r].left, at |-> txn[r].at] \in [credit : Int, at : Times]
      BY <1>1 DEF Txns
    <3> QED
      BY <1>4, <3>1 DEF AdmissionInv, Types
  <2>2. \A q \in Requests : pc'[q] \in InTransaction => txn'[q] \in Txns
    BY <1>5 DEF AdmissionInv, Types, InTransaction
  <2> QED
    BY <1>3, <1>5, <1>6, <1>7, <1>8, <2>1, <2>2 DEF AdmissionInv, Types
<1>10. LockInv'
  <2>1. \A q \in Requests : pc'[q] # "admitting"
    BY <1>2, <1>5 DEF AdmissionInv, LockInv
  <2> QED
    BY <2>1 DEF LockInv
<1>11. CountInv'
  <2>1. recorded' \subseteq {x \in Events : inbox'[x] # None}
    BY <1>2, <1>3, <1>6 DEF AdmissionInv, CountInv
  <2>2. ASSUME NEW q \in Projects, NEW k \in Days
        PROVE  Cardinality(RowsOf(q, k)') <= ledger'[q][k]
    <3>1. /\ IsFiniteSet(RowsOf(q, k)) /\ Cardinality(RowsOf(q, k)) \in Nat
          /\ Cardinality(RowsOf(q, k)) <= ledger[q][k] /\ ledger[q][k] \in Nat
      BY RowsFinite DEF AdmissionInv, CountInv, Types
    <3>2. CASE q = p /\ k = d
      <4>1. RowsOf(q, k)' \subseteq RowsOf(q, k) \cup {e}
        BY <1>6, <1>7 DEF RowsOf
      <4>2. /\ IsFiniteSet(RowsOf(q, k) \cup {e})
            /\ Cardinality(RowsOf(q, k) \cup {e}) <= Cardinality(RowsOf(q, k)) + 1
        BY <3>1, AddOne
      <4>3. /\ Cardinality(RowsOf(q, k)') <= Cardinality(RowsOf(q, k) \cup {e})
            /\ IsFiniteSet(RowsOf(q, k)')
        BY <4>1, <4>2, FS_Subset
      <4>4. /\ Cardinality(RowsOf(q, k)') \in Nat
            /\ Cardinality(RowsOf(q, k) \cup {e}) \in Nat
        BY <4>2, <4>3, FS_CardinalityType
      <4> QED
        BY <1>8, <3>1, <3>2, <4>2, <4>3, <4>4
    <3>3. CASE ~(q = p /\ k = d)
      <4>1. RowsOf(q, k)' = RowsOf(q, k)
        BY <1>1, <1>2, <1>6, <1>7, <3>3 DEF RowsOf
      <4>2. ledger'[q][k] = ledger[q][k]
        BY <1>8, <3>3
      <4> QED
        BY <3>1, <4>1, <4>2
    <3> QED
      BY <3>2, <3>3
  <2>3. StatisticsMatchRows'
    <3>1. ASSUME p \notin misdated
          PROVE  accepted'[p] = ledger'[p]
      <4>1. accepted[p] = ledger[p]
        BY <1>1, <3>1 DEF AdmissionInv, CountInv, StatisticsMatchRows
      <4>2. \A k \in Days : accepted'[p][k] = ledger'[p][k]
        BY <1>1, <1>8, <4>1
      <4>3. accepted'[p] \in [Days -> Nat] /\ ledger'[p] \in [Days -> Nat]
        BY <1>1, <1>8
      <4> QED
        BY <4>2, <4>3
    <3> QED
      BY <1>3, <1>8, <3>1 DEF AdmissionInv, CountInv, StatisticsMatchRows
  <2> QED
    BY <2>1, <2>2, <2>3 DEF CountInv
<1>12. QuotaHolds'
  <2>1. ASSUME p \notin misdated
        PROVE  ledger'[p][d] <= Quota[p]
    <3>1. accepted[p][d] = ledger[p][d]
      BY <1>1, <2>1 DEF AdmissionInv, CountInv, StatisticsMatchRows
    <3>2. ledger[p][d] \in Nat /\ Quota[p] \in Nat
      BY <1>1, AdmissionAssumption DEF AdmissionInv, Types
    <3> QED
      BY <1>2, <1>8, <3>1, <3>2
  <2> QED
    BY <1>3, <1>8, <2>1 DEF AdmissionInv, QuotaHolds
<1>13. ConfirmedInv'
  <2>1. \A q \in Requests : EventOf[q] \in Events
    BY Targets
  <2> QED
    BY <1>3, <1>5, <1>6, <2>1 DEF AdmissionInv, ConfirmedInv
<1> QED
  BY <1>9, <1>10, <1>11, <1>12, <1>13 DEF AdmissionInv

-----------------------------------------------------------------------------
(* The rest of the system.                                                 *)

\* Steps that take no row away but with what the counters say of it, and that
\* leave requests and counters alone.
LEMMA RowsLessKeeps ==
    ASSUME AdmissionInv,
           UNCHANGED <<pc, answer, txn, lock, accepted, bucket, dated, ledger, confirmed,
                       misdated>>,
           now' \in Times, today' \in Days,
           inbox' \in [Events -> InboxRows \cup {None}],
           \A x \in Events : inbox'[x] # None => inbox[x] # None,
           recorded' \subseteq {x \in Events : inbox'[x] # None}
    PROVE  AdmissionInv'
<1>1. Types'
  BY DEF AdmissionInv, Types
<1>2. LockInv'
  <2>1. \A r \in Requests : EventOf[r] \in Events
    BY Targets
  <2> QED
    BY <2>1 DEF AdmissionInv, LockInv, Target
<1>3. CountInv'
  <2>1. ASSUME NEW p \in Projects, NEW d \in Days
        PROVE  Cardinality(RowsOf(p, d)') <= ledger[p][d]
    <3>1. /\ IsFiniteSet(RowsOf(p, d)) /\ Cardinality(RowsOf(p, d)) \in Nat
          /\ Cardinality(RowsOf(p, d)) <= ledger[p][d] /\ ledger[p][d] \in Nat
      BY RowsFinite DEF AdmissionInv, CountInv, Types
    <3>2. RowsOf(p, d)' \subseteq RowsOf(p, d)
      BY DEF RowsOf
    <3>3. /\ Cardinality(RowsOf(p, d)') <= Cardinality(RowsOf(p, d))
          /\ IsFiniteSet(RowsOf(p, d)')
      BY <3>1, <3>2, FS_Subset
    <3>4. Cardinality(RowsOf(p, d)') \in Nat
      BY <3>3, FS_CardinalityType
    <3> QED
      BY <3>1, <3>3, <3>4
  <2> QED
    BY <2>1 DEF AdmissionInv, CountInv, StatisticsMatchRows
<1>4. QuotaHolds' /\ ConfirmedInv'
  BY DEF AdmissionInv, QuotaHolds, ConfirmedInv
<1> QED
  BY <1>1, <1>2, <1>3, <1>4 DEF AdmissionInv

LEMMA FinishKeeps ==
    ASSUME AdmissionInv, NEW e \in Events, NEW done \in BOOLEAN, FinishRow(e, done)
    PROVE  AdmissionInv'
<1> DEFINE row == [inbox[e] EXCEPT !.active = FALSE]
<1>1. inbox[e] \in InboxRows
  BY DEF AdmissionInv, Types, FinishRow, Backlog
<1>2. row \in InboxRows
  BY <1>1 DEF InboxRows
<1>3. inbox' = [inbox EXCEPT ![e] = row]
  BY DEF FinishRow
<1> HIDE DEF row
<1>4. row # None
  BY <1>2, AdmissionAssumption DEF InboxRows, Days
<1>5. /\ inbox' \in [Events -> InboxRows \cup {None}] /\ inbox'[e] # None
      /\ \A x \in Events \ {e} : inbox'[x] = inbox[x]
  BY <1>2, <1>3, <1>4 DEF AdmissionInv, Types
<1>6. inbox[e] # None /\ recorded' \subseteq recorded \cup {e}
  BY DEF FinishRow, Backlog
<1>7. recorded' \subseteq {x \in Events : inbox'[x] # None}
  BY <1>5, <1>6 DEF AdmissionInv, CountInv
<1>8. UNCHANGED <<pc, answer, txn, lock, accepted, bucket, dated, ledger, confirmed, misdated,
                  now, today>>
  BY DEF FinishRow, clocks, counters, ghosts
<1>9. now' \in Times /\ today' \in Days
  BY <1>8 DEF AdmissionInv, Types
<1> QED
  BY <1>5, <1>6, <1>7, <1>8, <1>9, RowsLessKeeps

LEMMA RetainKeeps ==
    ASSUME AdmissionInv, NEW e \in Events, RetainReceipt(e)
    PROVE  AdmissionInv'
<1>1. /\ inbox' \in [Events -> InboxRows \cup {None}] /\ inbox'[e] = None
      /\ \A x \in Events \ {e} : inbox'[x] = inbox[x]
  BY DEF AdmissionInv, Types, RetainReceipt
<1>2. recorded' \subseteq {x \in Events : inbox'[x] # None}
  BY <1>1 DEF AdmissionInv, CountInv, RetainReceipt
<1>3. UNCHANGED <<pc, answer, txn, lock, accepted, bucket, dated, ledger, confirmed, misdated,
                  now, today>>
  BY DEF RetainReceipt, clocks, counters, ghosts
<1>4. now' \in Times /\ today' \in Days
  BY <1>3 DEF AdmissionInv, Types
<1> QED
  BY <1>1, <1>2, <1>3, <1>4, RowsLessKeeps

\* A cleanup waits for the lock, so it changes no counter that somebody has
\* looked at; it counts less by the row it deletes, which had been counted.
LEMMA CleanupKeeps ==
    ASSUME AdmissionInv, NEW e \in Events, CleanupProbe(e)
    PROVE  AdmissionInv'
<1> DEFINE p == ProjectOf[e]
           d == inbox[e].received
           k == dated[e]
<1>1. /\ e \in recorded /\ inbox[e] \in InboxRows /\ inbox[e] # None
      /\ p \in Projects /\ d \in Days /\ k \in Days
  <2>1. e \in recorded
    BY DEF CleanupProbe
  <2>2. inbox[e] # None
    BY <2>1 DEF AdmissionInv, CountInv
  <2>3. inbox[e] \in InboxRows /\ k \in Days
    BY <2>2 DEF AdmissionInv, Types
  <2>4. p \in Projects /\ d \in Days
    BY <2>3, AdmissionAssumption DEF InboxRows
  <2> QED
    BY <2>1, <2>2, <2>3, <2>4
<1>2. \A r \in Requests : pc[r] # "admitting"
  BY AdmissionAssumption DEF CleanupProbe, AdmissionInv, LockInv
<1>3. /\ accepted' = [accepted EXCEPT ![p][d] = LessOne(accepted[p][d])]
      /\ ledger' = [ledger EXCEPT ![p][k] = ledger[p][k] - 1]
      /\ recorded' = recorded \ {e}
      /\ misdated' = IF d = k THEN misdated ELSE misdated \cup {p}
      /\ UNCHANGED <<pc, answer, txn, bucket, dated, confirmed, now, today>>
  BY DEF CleanupProbe, clocks
<1>4. /\ inbox' \in [Events -> InboxRows \cup {None}] /\ inbox'[e] = None
      /\ \A x \in Events \ {e} : inbox'[x] = inbox[x]
  BY DEF AdmissionInv, Types, CleanupProbe
<1> HIDE DEF p, d, k
<1>5. e \in RowsOf(p, k)
  BY <1>1 DEF RowsOf, p, k
<1>6. /\ IsFiniteSet(RowsOf(p, k)) /\ Cardinality(RowsOf(p, k)) \in Nat
      /\ Cardinality(RowsOf(p, k)) <= ledger[p][k] /\ ledger[p][k] \in Nat
      /\ Cardinality(RowsOf(p, k) \ {e}) = Cardinality(RowsOf(p, k)) - 1
      /\ Cardinality(RowsOf(p, k) \ {e}) \in Nat
  BY <1>1, <1>5, RowsFinite, FS_RemoveElement, FS_CardinalityType DEF AdmissionInv, CountInv, Types
<1>7. ledger[p][k] >= 1 /\ ledger[p][k] - 1 \in Nat
  BY <1>6
<1>8. accepted[p][d] \in Nat /\ LessOne(accepted[p][d]) \in Nat
  <2>1. accepted[p][d] \in Nat
    BY <1>1 DEF AdmissionInv, Types
  <2> QED
    BY <2>1 DEF LessOne
<1>9. /\ accepted' \in [Projects -> [Days -> Nat]]
      /\ accepted'[p][d] = LessOne(accepted[p][d])
      /\ \A x \in Days \ {d} : accepted'[p][x] = accepted[p][x]
      /\ \A q \in Projects \ {p} : accepted'[q] = accepted[q]
  BY <1>1, <1>3, <1>8 DEF AdmissionInv, Types
<1>10. /\ ledger' \in [Projects -> [Days -> Nat]]
       /\ ledger'[p][k] = ledger[p][k] - 1
       /\ \A x \in Days \ {k} : ledger'[p][x] = ledger[p][x]
       /\ \A q \in Projects \ {p} : ledger'[q] = ledger[q]
  BY <1>1, <1>3, <1>7 DEF AdmissionInv, Types
<1>11. Types'
  BY <1>3, <1>4, <1>9, <1>10 DEF AdmissionInv, Types
<1>12. LockInv'
  BY <1>2, <1>3 DEF LockInv
<1>13. CountInv'
  <2>1. recorded' \subseteq {x \in Events : inbox'[x] # None}
    BY <1>3, <1>4 DEF AdmissionInv, CountInv
  <2>2. ASSUME NEW q \in Projects, NEW x \in Days
        PROVE  Cardinality(RowsOf(q, x)') <= ledger'[q][x]
    <3>1. RowsOf(q, x)' = RowsOf(q, x) \ {e}
      BY <1>3, <1>4 DEF RowsOf
    <3>2. CASE q = p /\ x = k
      BY <1>6, <1>10, <3>1, <3>2
    <3>3. CASE ~(q = p /\ x = k)
      <4>1. e \notin RowsOf(q, x)
        BY <3>3 DEF RowsOf, p, k
      <4>2. RowsOf(q, x)' = RowsOf(q, x)
        BY <3>1, <4>1
      <4>3. ledger'[q][x] = ledger[q][x]
        BY <1>10, <3>3
      <4> QED
        BY <4>2, <4>3 DEF AdmissionInv, CountInv
    <3> QED
      BY <3>2, <3>3
  <2>3. ASSUME NEW q \in Projects, q \notin misdated'
        PROVE  accepted'[q] = ledger'[q]
    <3>1. q \notin misdated /\ (q = p => d = k)
      BY <1>3, <2>3
    <3>2. accepted[q] = ledger[q]
      BY <3>1 DEF AdmissionInv, CountInv, StatisticsMatchRows
    <3>3. CASE q = p
      <4>1. LessOne(accepted[p][d]) = ledger[p][k] - 1
        BY <1>6, <1>7, <3>1, <3>2, <3>3 DEF LessOne
      <4>2. \A x \in Days : accepted'[p][x] = ledger'[p][x]
        BY <1>9, <1>10, <3>1, <3>2, <3>3, <4>1
      <4>3. accepted'[p] \in [Days -> Nat] /\ ledger'[p] \in [Days -> Nat]
        BY <1>1, <1>9, <1>10
      <4> QED
        BY <3>3, <4>2, <4>3
    <3>4. CASE q # p
      BY <1>9, <1>10, <3>2, <3>4
    <3> QED
      BY <3>3, <3>4
  <2> QED
    BY <2>1, <2>2, <2>3 DEF CountInv, StatisticsMatchRows
<1>14. QuotaHolds'
  <2> SUFFICES ASSUME NEW q \in Projects, q \notin misdated', NEW x \in Days
               PROVE  ledger'[q][x] <= Quota[q]
    BY DEF QuotaHolds
  <2>0. q \notin misdated
    BY <1>3
  <2>4. ledger[q][x] \in Nat /\ Quota[q] \in Nat
    BY AdmissionAssumption DEF AdmissionInv, Types
  <2>1. ledger[q][x] <= Quota[q]
    BY <2>0 DEF AdmissionInv, QuotaHolds
  <2>2. CASE q = p /\ x = k
    BY <1>10, <2>1, <2>2, <2>4
  <2>3. CASE ~(q = p /\ x = k)
    BY <1>10, <2>1, <2>3
  <2> QED
    BY <2>2, <2>3
<1>15. ConfirmedInv'
  BY <1>3, <1>4 DEF AdmissionInv, ConfirmedInv
<1> QED
  BY <1>11, <1>12, <1>13, <1>14, <1>15 DEF AdmissionInv

-----------------------------------------------------------------------------
(* The theorems.                                                           *)

LEMMA AdmissionInitially == Init => AdmissionInv
<1> SUFFICES ASSUME Init
             PROVE  AdmissionInv
  OBVIOUS
<1>1. 0 \in Days /\ 0 \in Times
  BY AdmissionAssumption DEF Days, Times
<1>2. Types
  BY <1>1, AdmissionAssumption DEF Init, Types, Zero, Places, InTransaction
<1>3. LockInv /\ ConfirmedInv
  BY AdmissionAssumption DEF Init, LockInv, ConfirmedInv
<1>4. CountInv
  <2>1. \A p, d : RowsOf(p, d) = {}
    BY DEF Init, RowsOf
  <2>2. \A p \in Projects, d \in Days : Cardinality(RowsOf(p, d)) <= ledger[p][d]
    <3>1. \A p \in Projects, d \in Days : ledger[p][d] = 0
      BY DEF Init, Zero
    <3> QED
      BY <2>1, <3>1, FS_EmptySet
  <2> QED
    BY <2>2 DEF Init, CountInv, StatisticsMatchRows
<1>5. QuotaHolds
  BY AdmissionAssumption DEF Init, QuotaHolds, Zero
<1> QED
  BY <1>2, <1>3, <1>4, <1>5 DEF AdmissionInv

LEMMA OthersKeep ==
    ASSUME AdmissionInv,
           \/ \E p \in Projects : RevokeKey(p) \/ DeleteProject(p) \/ RestoreProject(p)
           \/ Tick \/ Midnight \/ UNCHANGED vars
    PROVE  AdmissionInv'
<1>1. UNCHANGED <<pc, answer, txn, lock, accepted, bucket, dated, ledger, confirmed, misdated,
                  inbox, recorded>>
  <2> USE DEF clocks, counters, ghosts
  <2>1. CASE \E p \in Projects : RevokeKey(p) \/ DeleteProject(p) \/ RestoreProject(p)
    BY <2>1 DEF RevokeKey, DeleteProject, RestoreProject
  <2>2. CASE Tick \/ Midnight
    BY <2>2 DEF Tick, Midnight
  <2>3. CASE UNCHANGED vars
    BY <2>3 DEF vars
  <2> QED
    BY <2>1, <2>2, <2>3
<1>2. now' \in Times /\ today' \in Days
  <2>1. now \in Times /\ today \in Days
    BY DEF AdmissionInv, Types
  <2>2. CASE UNCHANGED <<now, today>>
    BY <2>1, <2>2
  <2>3. CASE Tick \/ Midnight
    BY <2>1, <2>3, AdmissionAssumption DEF Tick, Midnight, Times, Days
  <2> QED
    BY <2>2, <2>3 DEF RevokeKey, DeleteProject, RestoreProject, vars, clocks
<1>3. inbox \in [Events -> InboxRows \cup {None}] /\ recorded \subseteq {x \in Events : inbox[x] # None}
  BY DEF AdmissionInv, Types, CountInv
<1> QED
  BY <1>1, <1>2, <1>3, RowsLessKeeps

LEMMA AdmissionStep == AdmissionInv /\ [Next]_vars => AdmissionInv'
<1> SUFFICES ASSUME AdmissionInv, [Next]_vars
             PROVE  AdmissionInv'
  OBVIOUS
<1>1. CASE \E r \in Requests : Handle(r)
  BY <1>1, RequestKeeps, CommitKeeps DEF Handle, RequestSteps
<1>2. CASE \E e \in Events : \/ \E done \in BOOLEAN : FinishRow(e, done)
                             \/ RetainReceipt(e) \/ CleanupProbe(e)
  BY <1>2, FinishKeeps, RetainKeeps, CleanupKeeps
<1> QED
  BY <1>1, <1>2, OthersKeep DEF Next

\* The invariant holds of everything that can happen.
THEOREM AdmissionInvariant == Spec => []AdmissionInv
<1> QED
  BY AdmissionInitially, AdmissionStep, PTL DEF Spec

\* No interleaving of ingest processes, retries, failures and midnights takes a
\* project beyond its daily quota (admit_inbox() decides and counts under one lock).
THEOREM QuotaAlwaysHolds == Spec => []QuotaHolds
<1>1. AdmissionInv => QuotaHolds
  BY DEF AdmissionInv
<1> QED
  BY <1>1, AdmissionInvariant, PTL

\* Every row is counted once: the daily statistics are what was inserted less
\* the probes that were cleaned up (admit_inbox(), cleanup_deployment_probe()).
THEOREM StatisticsAlwaysMatch == Spec => []StatisticsMatchRows
<1>1. AdmissionInv => StatisticsMatchRows
  BY DEF AdmissionInv, CountInv
<1> QED
  BY <1>1, AdmissionInvariant, PTL

\* Who is answered 200 has a row in the inbox, or had one that was retained.
THEOREM ConfirmedEventsStay == Spec => []ConfirmedEventsAreRows
<1>1. AdmissionInv => ConfirmedEventsAreRows
  BY DEF AdmissionInv, ConfirmedInv, ConfirmedEventsAreRows
<1> QED
  BY <1>1, AdmissionInvariant, PTL

-----------------------------------------------------------------------------
(* The shared bucket.  Of what a span of time grants, the credit that is    *)
(* left is a part, and nothing was admitted later than the bucket says; so  *)
(* a span that ends later has no more to account for.                       *)

\* What a project may have been granted between s and t.
Grantable(s, t) == Burst + (t - s) * Rate

\* What was admitted since s and the credit left are within what s to the last
\* admission granted.
Afforded(p) ==
    /\ bucket[p].at <= now /\ 0 <= bucket[p].credit
    /\ \A s \in Steps :
        IF s <= bucket[p].at
        THEN spent[p][s] + bucket[p].credit <= Grantable(s, bucket[p].at)
        ELSE spent[p][s] = 0

\* Who holds the lock takes one credit of those the bucket has by then.
Takes(r) ==
    LET b == bucket[Target(r)] IN
    /\ b.at <= txn[r].at /\ txn[r].at <= now
    /\ 0 <= txn[r].left /\ txn[r].left < Burst
    /\ txn[r].left < b.credit + (txn[r].at - b.at) * Rate

BucketInv ==
    /\ spent \in [Projects -> [Steps -> Nat]]
    /\ \A p \in Projects : Afforded(p)
    /\ \A r \in Requests : pc[r] = "admitting" => Takes(r)
    /\ BurstHolds

\* The rate over a span, in parts and for a longer span.
LEMMA Spans ==
    ASSUME NEW s \in Nat, NEW t \in Nat, s <= t
    PROVE  /\ Grantable(s, t) \in Nat /\ Grantable(s, s) = Burst /\ Burst <= Grantable(s, t)
           /\ \A u \in Nat : t <= u => /\ Grantable(s, t) <= Grantable(s, u)
                                       /\ Grantable(s, u) = Grantable(s, t) + (u - t) * Rate
<1>1. Rate \in Nat /\ Burst \in Nat
  BY AdmissionAssumption
<1>2. \A x \in Nat : x * Rate \in Nat
  BY <1>1
<1>3. (t - s) * Rate \in Nat /\ (s - s) * Rate = 0
  BY <1>1, <1>2
<1>4. ASSUME NEW u \in Nat, t <= u
      PROVE  /\ (u - s) * Rate = (t - s) * Rate + (u - t) * Rate
             /\ (u - t) * Rate \in Nat
  BY <1>1, <1>2, <1>4
<1> QED
  BY <1>1, <1>3, <1>4 DEF Grantable

LEMMA TimesAreNumbers == Times \subseteq Nat /\ Steps \subseteq Nat /\ \A t \in Times : t \in Steps /\ t + 1 \in Steps
  BY AdmissionAssumption DEF Times, Steps

\* Whatever leaves the buckets and what was admitted alone.
LEMMA BucketStays ==
    ASSUME BucketInv, UNCHANGED <<bucket, spent>>, now \in Nat, now' \in Nat, now <= now',
           \A p \in Projects : bucket[p].at \in Nat,
           \A r \in Requests : pc'[r] = "admitting" => Takes(r)'
    PROVE  BucketInv'
<1>1. \A p \in Projects : Afforded(p)'
  BY DEF BucketInv, Afforded
<1> QED
  BY <1>1 DEF BucketInv, BurstHolds

LEMMA DecideTakes ==
    ASSUME AdmissionInv, BucketInv, NEW r \in Requests, Decide(r), pc'[r] = "admitting"
    PROVE  Takes(r)'
<1> DEFINE p == Target(r)
           b == bucket[p]
<1>1. /\ p \in Projects /\ b.credit \in Int /\ b.at \in Nat /\ now \in Nat
      /\ Rate \in Nat /\ Burst \in Nat /\ txn[r] \in Txns
  BY Targets, TimesAreNumbers, AdmissionAssumption
     DEF AdmissionInv, Types, Decide, InTransaction
<1>2. pc' \in [Requests -> Places] /\ TxnStep(r)
  BY DecideTxn DEF AdmissionInv
<1>3. ~ (Available(p) < 1)
  BY <1>2 DEF TxnStep, OverCapacity
<1>4. txn' = [txn EXCEPT ![r].at = now, ![r].left = Available(p) - 1]
  <2>1. /\ pc' # [pc EXCEPT ![r] = "inserted"] /\ pc' # [pc EXCEPT ![r] = "failed"]
        /\ pc' # [pc EXCEPT ![r] = "refused"]
    BY DEF AdmissionInv, Types
  <2> QED
    BY <2>1 DEF Decide
<1>5. txn'[r].at = now /\ txn'[r].left = Available(p) - 1
  <2> DEFINE left == Available(p) - 1
             new == [txn[r] EXCEPT !.at = now, !.left = left]
  <2>1. txn' = [txn EXCEPT ![r] = new]
    BY <1>4
  <2> HIDE DEF left
  <2>2. new.at = now /\ new.left = left
    BY <1>1 DEF Txns
  <2> HIDE DEF new
  <2> QED
    BY <2>1, <2>2 DEF AdmissionInv, Types, left
<1>6. UNCHANGED <<bucket, now>>
  BY DEF Decide, clocks
<1>7. (now - b.at) * Rate \in Int
  BY <1>1
<1>8. /\ Available(p) \in Int /\ Available(p) <= Burst
      /\ Available(p) <= b.credit + (now - b.at) * Rate
  BY <1>1, <1>7 DEF Available, Least
<1>9. b.at <= now
  BY <1>1 DEF BucketInv, Afforded
<1>10. (Target(r))' = p
  BY DEF Target
<1> HIDE DEF p
<1> QED
  BY <1>1, <1>3, <1>5, <1>6, <1>7, <1>8, <1>9, <1>10 DEF Takes

LEMMA RequestBucket ==
    ASSUME AdmissionInv, BucketInv, NEW r \in Requests, RequestSteps(r)
    PROVE  BucketInv'
<1>1. UNCHANGED <<now, bucket, spent>>
  BY RequestRest DEF RequestSteps, CheckKey, RefuseUnknown, RefuseProject, RefuseBody, Begin, Stamp,
     Decide, Fail, Accept, Unavailable, Reject, Die, counters, ghosts
<1>2. TxnStep(r)
  BY RequestTxn DEF AdmissionInv
<1>3. ASSUME NEW q \in Requests, pc'[q] = "admitting" PROVE Takes(q)'
  <2>1. CASE q = r
    BY <1>2, <1>3, <2>1, DecideTakes DEF TxnStep
  <2>2. CASE q # r
    <3>1. pc[q] = "admitting" /\ txn'[q] = txn[q]
      BY <1>2, <1>3, <2>2 DEF TxnStep
    <3> QED
      BY <1>1, <3>1 DEF BucketInv, Takes, Target
  <2> QED
    BY <2>1, <2>2
<1>4. now \in Nat /\ \A p \in Projects : bucket[p].at \in Nat
  BY TimesAreNumbers DEF AdmissionInv, Types
<1> QED
  BY <1>1, <1>3, <1>4, BucketStays

\* An admission at a is the last one, and what is left after it pays for the rest.
LEMMA CommitBucket ==
    ASSUME AdmissionInv, BucketInv, NEW r \in Requests, Commit(r)
    PROVE  BucketInv'
<1>1. PICK p : p = Target(r)
  OBVIOUS
<1>2. PICK a : a = txn[r].at
  OBVIOUS
<1>3. PICK left : left = txn[r].left
  OBVIOUS
<1> DEFINE b == bucket[p]
<1>4. /\ p \in Projects /\ b.credit \in Int /\ b.at \in Nat /\ now \in Nat
      /\ Rate \in Nat /\ Burst \in Nat
      /\ pc[r] = "admitting" /\ txn[r] \in Txns /\ a \in Times /\ a \in Nat /\ left \in Int
  <2>1. p \in Projects /\ now \in Times /\ bucket[p] \in [credit : Int, at : Times]
    BY <1>1, Targets DEF AdmissionInv, Types
  <2>2. pc[r] = "admitting" /\ txn[r] \in Txns
    BY DEF AdmissionInv, Types, Commit, InTransaction
  <2>3. a \in Times /\ left \in Int
    BY <1>2, <1>3, <2>2 DEF Txns
  <2>4. Rate \in Nat /\ Burst \in Nat
    BY AdmissionAssumption
  <2>5. Times \subseteq Nat
    BY TimesAreNumbers
  <2>6. bucket[p].credit \in Int /\ bucket[p].at \in Times
    BY <2>1
  <2> QED
    BY <2>1, <2>2, <2>3, <2>4, <2>5, <2>6
<1>5. inbox[EventOf[r]] = None /\ lock = r
  BY <1>4 DEF AdmissionInv, LockInv
<1>6. /\ b.at <= a /\ a <= now /\ 0 <= left /\ left < Burst
      /\ left < b.credit + (a - b.at) * Rate
  BY <1>1, <1>2, <1>3, <1>4 DEF BucketInv, Takes
<1>7. /\ bucket' = [bucket EXCEPT ![p] = [credit |-> left, at |-> a]]
      /\ spent' = [spent EXCEPT ![p] = OneMore(spent[p], a)] /\ now' = now
  BY <1>1, <1>2, <1>3, <1>5 DEF Commit, Spend, clocks
<1>8. /\ bucket'[p].credit = left /\ bucket'[p].at = a
      /\ \A q \in Projects \ {p} : bucket'[q] = bucket[q] /\ spent'[q] = spent[q]
  BY <1>4, <1>7 DEF AdmissionInv, Types, BucketInv
<1>9. /\ spent' \in [Projects -> [Steps -> Nat]]
      /\ \A s \in Steps : spent'[p][s] = IF s <= a THEN spent[p][s] + 1 ELSE spent[p][s]
  <2>1. spent[p] \in [Steps -> Nat]
    BY <1>4 DEF BucketInv
  <2>2. OneMore(spent[p], a) = [t \in Steps |-> IF t <= a THEN spent[p][t] + 1 ELSE spent[p][t]]
    BY <2>1 DEF OneMore
  <2>3. OneMore(spent[p], a) \in [Steps -> Nat]
    BY <2>1, <2>2
  <2> QED
    BY <1>4, <1>7, <2>2, <2>3 DEF BucketInv
<1>10. ASSUME NEW s \in Steps
       PROVE  /\ s <= a => spent'[p][s] + left <= Grantable(s, a)
              /\ ~ (s <= a) => spent'[p][s] = 0
  <2>1. s \in Nat /\ spent[p][s] \in Nat
    BY <1>4, TimesAreNumbers DEF BucketInv
  <2>2. CASE s <= b.at
    <3>1. spent[p][s] + b.credit <= Grantable(s, b.at)
      BY <1>4, <2>2 DEF BucketInv, Afforded
    <3>2. /\ Grantable(s, b.at) \in Nat
          /\ Grantable(s, a) = Grantable(s, b.at) + (a - b.at) * Rate
      <4>1. b.at \in Nat /\ a \in Nat /\ b.at <= a
        BY <1>4, <1>6
      <4> HIDE DEF b
      <4> QED
        BY <2>1, <2>2, <4>1, Spans
    <3>3. (a - b.at) * Rate \in Int
      BY <1>4
    <3>4. s <= a
      BY <1>4, <1>6, <2>1, <2>2
    <3> QED
      BY <1>4, <1>6, <1>9, <2>1, <3>1, <3>2, <3>3, <3>4
  <2>3. CASE ~ (s <= b.at)
    <3>1. spent[p][s] = 0
      BY <1>4, <2>3 DEF BucketInv, Afforded
    <3>2. s <= a => Burst <= Grantable(s, a) /\ Grantable(s, a) \in Nat
      BY <1>4, <2>1, Spans
    <3> QED
      BY <1>4, <1>6, <1>9, <2>1, <3>1, <3>2
  <2> QED
    BY <2>2, <2>3
<1>11. ASSUME NEW q \in Projects PROVE Afforded(q)'
  <2>1. CASE q = p
    BY <1>4, <1>6, <1>7, <1>8, <1>10, <2>1 DEF Afforded, Grantable
  <2>2. CASE q # p
    BY <1>7, <1>8, <2>2 DEF BucketInv, Afforded, Grantable
  <2> QED
    BY <2>1, <2>2
<1>12. ASSUME NEW s \in Times, NEW t \in Times, s <= t
       PROVE  spent'[p][s] - spent'[p][t + 1] <= Grantable(s, t)
  <2>1. /\ s \in Nat /\ t \in Nat /\ s \in Steps /\ t + 1 \in Steps
        /\ spent[p][s] \in Nat /\ spent[p][t + 1] \in Nat
        /\ spent'[p][s] \in Nat /\ spent'[p][t + 1] \in Nat
        /\ Grantable(s, t) \in Nat
    BY <1>4, <1>9, <1>12, TimesAreNumbers, Spans DEF BucketInv
  <2>2. CASE t + 1 <= a
    <3>1. spent[p][s] - spent[p][t + 1] <= Grantable(s, t)
      BY <1>4, <1>12 DEF BucketInv, BurstHolds, Grantable
    <3>2. s <= a
      BY <1>4, <1>12, <2>1, <2>2
    <3> QED
      BY <1>9, <2>1, <2>2, <3>1, <3>2
  <2>3. CASE ~ (t + 1 <= a) /\ s <= a
    <3>1. a <= t /\ spent'[p][s] + left <= Grantable(s, a)
      BY <1>4, <1>10, <2>1, <2>3
    <3>2. Grantable(s, a) <= Grantable(s, t) /\ Grantable(s, a) \in Nat
      BY <1>4, <2>1, <2>3, <3>1, Spans
    <3> QED
      BY <1>4, <1>6, <2>1, <3>1, <3>2
  <2>4. CASE ~ (s <= a)
    BY <1>10, <2>1, <2>4
  <2> QED
    BY <2>2, <2>3, <2>4
<1>13. BurstHolds'
  BY <1>8, <1>12 DEF BucketInv, BurstHolds, Grantable
<1>14. \A q \in Requests : pc'[q] # "admitting"
  <2>1. \A q \in Requests : pc[q] = "admitting" => q = r
    BY <1>5 DEF AdmissionInv, LockInv
  <2>2. pc' = [pc EXCEPT ![r] = "inserted"]
    BY DEF Commit
  <2> QED
    BY <2>1, <2>2 DEF AdmissionInv, Types
<1> QED
  BY <1>9, <1>11, <1>13, <1>14 DEF BucketInv

LEMMA OthersBucket ==
    ASSUME AdmissionInv, BucketInv,
           \/ \E e \in Events : \/ \E done \in BOOLEAN : FinishRow(e, done)
                                \/ RetainReceipt(e) \/ CleanupProbe(e)
           \/ \E p \in Projects : RevokeKey(p) \/ DeleteProject(p) \/ RestoreProject(p)
           \/ Tick \/ Midnight \/ UNCHANGED vars
    PROVE  BucketInv'
<1>1. UNCHANGED <<pc, txn, bucket, spent>>
  BY DEF FinishRow, RetainReceipt, CleanupProbe, RevokeKey, DeleteProject, RestoreProject, Tick,
         Midnight, vars, counters, ghosts
<1>2. now \in Nat /\ \A p \in Projects : bucket[p].at \in Nat
  BY TimesAreNumbers DEF AdmissionInv, Types
<1>3. now' = now \/ now' = now + 1
  BY DEF FinishRow, RetainReceipt, CleanupProbe, RevokeKey, DeleteProject, RestoreProject, Tick,
         Midnight, vars, clocks
<1>4. now' \in Nat /\ now <= now'
  BY <1>2, <1>3
<1>5. ASSUME NEW r \in Requests, pc'[r] = "admitting" PROVE Takes(r)'
  <2>1. Takes(r) /\ pc[r] = "admitting"
    BY <1>1, <1>5 DEF BucketInv
  <2>2. txn[r].at \in Nat
    BY <2>1, TimesAreNumbers DEF AdmissionInv, Types, InTransaction, Txns
  <2>3. Target(r)' = Target(r)
    BY DEF Target
  <2> QED
    BY <1>1, <1>2, <1>4, <2>1, <2>2, <2>3 DEF Takes
<1> QED
  BY <1>1, <1>2, <1>4, <1>5, BucketStays

LEMMA BucketInitially == Init => BucketInv
<1> SUFFICES ASSUME Init PROVE BucketInv
  OBVIOUS
<1>1. /\ now = 0 /\ Burst \in Nat /\ Rate \in Nat
      /\ \A p \in Projects : bucket[p].credit = Burst /\ bucket[p].at = 0
      /\ spent \in [Projects -> [Steps -> Nat]]
      /\ \A p \in Projects, s \in Steps : spent[p][s] = 0
  BY AdmissionAssumption DEF Init
<1>2. ASSUME NEW p \in Projects, NEW s \in Steps
      PROVE  IF s <= 0 THEN spent[p][s] + Burst <= Grantable(s, 0) ELSE spent[p][s] = 0
  <2>1. s \in Nat
    BY TimesAreNumbers
  <2>2. s <= 0 => Grantable(s, 0) = Burst
    BY <2>1, Spans
  <2> QED
    BY <1>1, <2>2
<1>3. \A p \in Projects : Afforded(p)
  BY <1>1, <1>2 DEF Afforded
<1>4. BurstHolds
  <2>1. ASSUME NEW p \in Projects, NEW s \in Times, NEW t \in Times, s <= t
        PROVE  spent[p][s] - spent[p][t + 1] <= Grantable(s, t)
    <3>1. Grantable(s, t) \in Nat
      BY <2>1, TimesAreNumbers, Spans
    <3>2. spent[p][s] = 0 /\ spent[p][t + 1] = 0
      BY <1>1, TimesAreNumbers
    <3> QED
      BY <3>1, <3>2
  <2> QED
    BY <2>1 DEF BurstHolds, Grantable
<1>5. \A r \in Requests : pc[r] # "admitting"
  BY DEF Init
<1> QED
  BY <1>1, <1>3, <1>4, <1>5 DEF BucketInv

LEMMA BucketStep == AdmissionInv /\ BucketInv /\ [Next]_vars => BucketInv'
<1> SUFFICES ASSUME AdmissionInv, BucketInv, [Next]_vars
             PROVE  BucketInv'
  OBVIOUS
<1>1. CASE \E r \in Requests : Handle(r)
  BY <1>1, RequestBucket, CommitBucket DEF Handle, RequestSteps
<1> QED
  BY <1>1, OthersBucket DEF Next

\* However many ingest processes and requests it is reached through, a project is
\* admitted at most its burst and what the rate adds in every span of time
\* (admit_inbox(): elapsed time is credited and one credit taken under the lock).
THEOREM BurstAlwaysHolds == Spec => []BurstHolds
<1>1. BucketInv => BurstHolds
  BY DEF BucketInv
<1> QED
  BY <1>1, BucketInitially, BucketStep, AdmissionInvariant, PTL DEF Spec

-----------------------------------------------------------------------------
(* Protocol.                                                               *)

\* What scrub and safePath let through; a hidden secret may come up later.  What was
\* sanitized twice is also within the schema, and whole.
Masked(t, max) == t \in Texts /\ t.secrets = 0 /\ t.len <= max
MaskedAny(t) == t \in Texts /\ t.secrets = 0
MaskedPathAny(p) == p = Undefined \/ (p \in Paths /\ (p.inside = "secret" => p.layers > 0))
WholePath(p) == p = Undefined \/ (p \in Paths /\ p.len <= 512 /\ p.inside # "unusable"
                                               /\ p.halved = FALSE)

MaskedTags(tags) ==
    tags \in [TagKeys -> Or(Texts)] /\ \A k \in TagKeys : tags[k] = Undefined \/ MaskedAny(tags[k])

MaskedCrumbs(c) ==
    /\ c \in CrumbLists
    /\ MaskedPathAny(c.path) /\ (c.operation = Undefined \/ MaskedAny(c.operation))

CleanScope(s) ==
    /\ s = [tags |-> s.tags, route |-> s.route, api |-> s.api, crumbs |-> s.crumbs]
    /\ MaskedTags(s.tags) /\ MaskedPathAny(s.route) /\ MaskedCrumbs(s.crumbs)

ScopesAreClean == CleanScope(global) /\ (inner # Undefined => CleanScope(inner))

\* Frames have a path.
SomeFrames(f) == f = NoFrames \/ (f.n > 0 /\ f.filename # Undefined /\ MaskedAny(f.function))

\* What the sanitizer returns, whatever it gets.
CleanEvent(e) ==
    /\ IsRaw(e)
    /\ MaskedAny(e.message) /\ e.message.len > 0 /\ MaskedAny(e.name) /\ e.name.len > 0
    /\ MaskedPathAny(e.route) /\ MaskedTags(e.tags) /\ MaskedCrumbs(e.crumbs)
    /\ e.crumbs.n = 0 => e.crumbs = NoCrumbs
    /\ e.crumbs.n <= 50 /\ e.environment # Undefined
    /\ SomeFrames(e.frames) /\ MaskedPathAny(e.frames.filename)
    /\ e.type = Undefined /\ e.level \in {"error", "fatal"}
    /\ e.api = sanitizeApiContext(e.api) /\ e.labels = Matching(e.labels)

\* What the page sends: all within the schema, and no path is cut any more.
SentEvent(e) ==
    /\ CleanEvent(e) /\ Valid(e)
    /\ WholePath(e.route) /\ WholePath(e.frames.filename) /\ WholePath(e.crumbs.path)

\* What the ingest process stores of a path it was sent.
Caught(sent, stored) == Readable(sent) => ~Readable(stored)

EventIsCaught(sent, stored) ==
    /\ Caught(sent.route, stored.route)
    /\ Caught(sent.frames.filename, stored.frames.filename)
    /\ Caught(sent.crumbs.path, stored.crumbs.path)

IsEvent(e) ==
    e = [at |-> e.at, from |-> e.from, raw |-> e.raw, envelope |-> e.envelope, status |-> e.status]

OnItsWay(e) ==
    /\ e.at \in {"none", "captured", "prepared", "wire", "dropped", "stored", "refused"}
    /\ e.from \in {Undefined, "page", "other"}
    /\ e.at = "captured" => e.from = "page" /\ IsRaw(e.raw)
    /\ e.at = "prepared" => e.from = "page" /\ CleanEvent(e.raw) /\ Valid(e.raw)
    /\ e.at = "wire" =>
          IF e.from = "page"
          THEN e.envelope = encodeEnvelope(e.envelope.raw) /\ SentEvent(e.envelope.raw)
          ELSE e.envelope \in ForeignEnvelopes
    /\ e.at = "stored" => CleanEvent(e.raw)
    /\ e.at = "stored" /\ e.from = "page" => EventIsCaught(e.envelope.raw, e.raw)

ProtocolInv ==
    /\ IsEvent(event) /\ OnItsWay(event)
    /\ ScopesAreClean
    /\ SentIsStored

\* scrub leaves no secret in a text (scrub: the replacements).
LEMMA ScrubMasks ==
    ASSUME NEW t \in Or(Texts), NEW max \in Nat
    PROVE  MaskedAny(scrub(t, max))
<1>1. Text(0, 0) \in Texts /\ Text(0, 0).secrets = 0
  BY DEF Text, Texts
<1>2. CASE t = Undefined
  BY <1>1, <1>2 DEF scrub, MaskedAny
<1>3. CASE t # Undefined
  <2>1. t \in Texts
    BY <1>3 DEF Or
  <2>2. PICK cut \in Texts : cut = Slice(t, max)
    BY <2>1 DEF Slice, AtMost, Texts
  <2>3. t.secrets \in Nat /\ cut.len \in Nat
    BY <2>1, <2>2 DEF Texts
  <2>4. cut.len + Grow * t.secrets \in Nat
    BY <2>3 DEF Grow
  <2>5. [cut EXCEPT !.len = @ + Grow * t.secrets, !.secrets = 0] \in Texts
    BY <2>2, <2>4 DEF Texts
  <2>6. [cut EXCEPT !.len = @ + Grow * t.secrets, !.secrets = 0].secrets = 0
    BY <2>2 DEF Texts
  <2> QED
    BY <1>3, <2>2, <2>5, <2>6 DEF scrub, MaskedAny
<1> QED
  BY <1>2, <1>3

\* Nothing is cut off a text that is short enough.
LEMMA SliceKeeps ==
    ASSUME NEW t \in Texts \cup Paths, NEW max \in Nat, t.len <= max
    PROVE  Slice(t, max) = t
<1>1. t.len \in Nat
  BY DEF Texts, Paths
<1>2. AtMost(max, t.len) = t.len /\ ~(t.odd /\ t.len > max)
  BY <1>1 DEF AtMost
<1>3. Slice(t, max) = [t EXCEPT !.len = t.len, !.halved = t.halved]
  BY <1>2 DEF Slice
<1> QED
  BY <1>3 DEF Texts, Paths

\* Sanitizing a text again changes nothing (scrub: slice and the replacements).
LEMMA ScrubKeeps ==
    ASSUME NEW t, NEW max \in Nat, Masked(t, max)
    PROVE  scrub(t, max) = t
<1>1. t \in Texts /\ t.secrets = 0 /\ t.len <= max
  BY DEF Masked
<1>2. t # Undefined
  BY <1>1, ProtocolAssumption
<1>3. t.len \in Nat
  BY <1>1 DEF Texts
<1>4. Slice(t, max) = t
  BY <1>1, SliceKeeps
<1>5. t.len + Grow * t.secrets = t.len
  BY <1>1, <1>3 DEF Grow
<1>6. [t EXCEPT !.len = t.len + Grow * t.secrets, !.secrets = 0] = t
  BY <1>1, <1>3, <1>5 DEF Texts
<1> QED
  BY <1>2, <1>4, <1>6 DEF scrub

LEMMA OrElseMasks ==
    ASSUME NEW t, MaskedAny(t), NEW len \in Nat \ {0}
    PROVE  MaskedAny(OrElse(t, len)) /\ OrElse(t, len).len > 0
<1>1. Text(len, 0) \in Texts /\ Text(len, 0).secrets = 0 /\ Text(len, 0).len = len
  BY DEF Text, Texts
<1>2. t.len \in Nat
  BY DEF MaskedAny, Texts
<1> QED
  BY <1>1, <1>2 DEF OrElse, MaskedAny

\* Taking a layer off.
LEMMA UnescapedPath ==
    ASSUME NEW p \in Paths
    PROVE  /\ Unescaped(p) \in Paths /\ Unescaped(p).halved = FALSE
           /\ Unescaped(p).inside = p.inside
           /\ Unescaped(p).layers = (IF p.layers = 0 THEN 0 ELSE p.layers - 1)
           /\ Unescaped(p).len <= p.len
           /\ p.layers > 0 => Unescaped(p).len + 2 <= p.len \/ Unescaped(p).len = 0
           /\ Unescaped(p).odd = p.odd
<1>1. p.len \in Nat /\ p.layers \in Nat
  BY DEF Paths
<1>2. (IF p.layers = 0 THEN p.len ELSE IF p.len < 2 THEN 0 ELSE p.len - 2) \in Nat
  BY <1>1
<1>3. (IF p.layers = 0 THEN 0 ELSE p.layers - 1) \in Nat
  BY <1>1
<1>4. Unescaped(p) \in Paths
  BY <1>2, <1>3 DEF Unescaped, Paths
<1>5. /\ Unescaped(p).halved = FALSE /\ Unescaped(p).inside = p.inside /\ Unescaped(p).odd = p.odd
      /\ Unescaped(p).layers = (IF p.layers = 0 THEN 0 ELSE p.layers - 1)
      /\ Unescaped(p).len = (IF p.layers = 0 THEN p.len ELSE IF p.len < 2 THEN 0 ELSE p.len - 2)
  BY DEF Unescaped, Paths
<1> QED
  BY <1>1, <1>4, <1>5

LEMMA SlicePath ==
    ASSUME NEW p \in Paths, NEW max \in Nat
    PROVE  Slice(p, max) \in Paths
<1>1. p.len \in Nat
  BY DEF Paths
<1>2. PICK n \in Nat : n = AtMost(max, p.len)
  BY <1>1 DEF AtMost
<1>3. PICK h \in BOOLEAN : h = IF p.odd /\ p.len > max THEN TRUE ELSE p.halved
  BY DEF Paths
<1>4. Slice(p, max) = [p EXCEPT !.len = n, !.halved = h]
  BY <1>2, <1>3 DEF Slice
<1> QED
  BY <1>4 DEF Paths

\* What is made of a path holds no readable secret, but for one behind a backslash
\* that was decoded just now.  Of one that was short enough nothing is cut, and it
\* gets longer only if something is masked in it.  A settled path stays as it is.
MadeOf(p, made) ==
    /\ made \in Paths
    /\ made.inside = "secret" => made.layers > 0
    /\ made.inside = "unusable" => p.inside = "unusable"
    /\ p.inside = "backslash" /\ p.layers = 0 => made.inside = "plain"
    /\ p.len <= 512 => made.halved = FALSE
    /\ p.len <= 512 /\ p.inside \notin {"secret", "backslash"} => made.len <= 512
    /\ p.len <= 512 /\ p.halved = FALSE /\ p.inside = "plain" /\ p.layers = 0 => made = p

LEMMA DecodedPath ==
    ASSUME NEW p \in Paths
    PROVE  MadeOf(p, Decoded(p))
<1>1. PICK u \in Paths : u = Unescaped(p)
  BY UnescapedPath
<1>2. /\ u.halved = FALSE /\ u.inside = p.inside /\ u.odd = p.odd /\ u.len <= p.len
      /\ u.layers = (IF p.layers = 0 THEN 0 ELSE p.layers - 1)
  BY <1>1, UnescapedPath
<1>3. /\ p.len \in Nat /\ p.layers \in Nat /\ u.len \in Nat /\ u.layers \in Nat
      /\ u.odd \in BOOLEAN
  BY DEF Paths
<1>4. PICK cut \in Paths : cut = Slice(u, 512)
  BY SlicePath
<1>5. /\ cut.len = AtMost(512, u.len) /\ cut.inside = p.inside /\ cut.layers = u.layers
      /\ u.len <= 512 => cut.halved = FALSE
  BY <1>2, <1>4 DEF Slice, Paths
<1>6. cut.len \in Nat /\ cut.len <= 512 /\ cut.len <= u.len
  BY <1>3, <1>5 DEF AtMost
<1>7. p.len <= 512 => cut.halved = FALSE
  BY <1>2, <1>3, <1>5
<1>8. CASE Masks(p)
  <2>1. Decoded(p) = [cut EXCEPT !.inside = "plain", !.len = @ + Grow]
    BY <1>1, <1>4, <1>8 DEF Decoded
  <2>2. [cut EXCEPT !.inside = "plain", !.len = @ + Grow] \in Paths
    <3>1. cut.len + Grow \in Nat /\ "plain" \in Insides
      BY <1>6 DEF Grow, Insides
    <3> QED
      BY <3>1 DEF Paths
  <2>3. Decoded(p).inside = "plain" /\ Decoded(p).halved = cut.halved
    BY <2>1 DEF Paths
  <2>4. p.inside \in {"secret", "backslash"}
    BY <1>8 DEF Masks
  <2> QED
    BY <1>7, <2>1, <2>2, <2>3, <2>4 DEF MadeOf
<1>9. CASE ~Masks(p)
  <2>1. Decoded(p) = cut
    BY <1>1, <1>4, <1>9 DEF Decoded
  <2>2. cut.inside = "secret" => p.layers > 1
    BY <1>3, <1>5, <1>9 DEF Masks
  <2>3. cut.inside = "secret" => cut.layers > 0
    BY <1>2, <1>3, <1>5, <2>2
  <2>4. ~(p.inside = "backslash" /\ p.layers = 0)
    BY <1>9 DEF Masks
  <2>5. p.len <= 512 /\ p.halved = FALSE /\ p.inside = "plain" /\ p.layers = 0 => cut = p
    <3> HAVE p.len <= 512 /\ p.halved = FALSE /\ p.inside = "plain" /\ p.layers = 0
    <3>1. u = p
      BY <1>1 DEF Unescaped, Paths
    <3> QED
      BY <1>4, <3>1, SliceKeeps
  <2>6. cut.inside = "unusable" => p.inside = "unusable"
    BY <1>5
  <2> QED
    BY <1>6, <1>7, <2>1, <2>3, <2>4, <2>5, <2>6 DEF MadeOf
<1> QED
  BY <1>8, <1>9

LEMMA DecodedIsPath ==
    ASSUME NEW p \in Paths
    PROVE  Decoded(p) # Undefined
<1>1. Decoded(p) \in Paths
  BY DecodedPath DEF MadeOf
<1> QED
  BY <1>1, ProtocolAssumption

LEMMA SafePathMade ==
    ASSUME NEW p \in Or(Paths), safePath(p) # Undefined
    PROVE  p \in Paths /\ p.inside # "unusable" /\ MadeOf(p, safePath(p))
<1>1. p \in Paths
  BY DEF Or, safePath
<1>2. p.len \in Nat
  BY <1>1 DEF Paths
<1>3. p.inside # "unusable"
  BY DEF safePath
<1>4. CASE safePath(p) = Decoded(p)
  BY <1>1, <1>3, <1>4, DecodedPath
<1>5. CASE /\ p.inside = "query"
           /\ safePath(p) = Decoded([p EXCEPT !.inside = "plain", !.len = @ \div 2])
  <2>1. p.len \div 2 \in Nat /\ p.len \div 2 <= p.len
    BY <1>2
  <2>2. "plain" \in Insides
    BY DEF Insides
  <2>3. PICK q \in Paths : q = [p EXCEPT !.inside = "plain", !.len = @ \div 2]
    BY <1>1, <2>1, <2>2 DEF Paths
  <2>4. q.len <= p.len /\ q.inside = "plain" /\ q.len \in Nat
    BY <1>1, <2>1, <2>3 DEF Paths
  <2>5. MadeOf(q, Decoded(q))
    BY DecodedPath
  <2>6. p.len <= 512 => q.len <= 512
    BY <1>2, <2>4
  <2> QED
    BY <1>1, <1>5, <2>3, <2>4, <2>5, <2>6 DEF MadeOf
<1> QED
  BY <1>1, <1>4, <1>5 DEF safePath

LEMMA SafePathMasks ==
    ASSUME NEW p \in Or(Paths)
    PROVE  safePath(p) \in Or(Paths) /\ MaskedPathAny(safePath(p))
<1>1. CASE safePath(p) = Undefined
  BY <1>1 DEF Or, MaskedPathAny
<1>2. CASE safePath(p) # Undefined
  BY <1>2, SafePathMade DEF Or, MaskedPathAny, MadeOf
<1> QED
  BY <1>1, <1>2
LEMMA TagsMask ==
    ASSUME NEW tags \in [TagKeys -> Or(Texts)], NEW allowed
    PROVE  MaskedTags(sanitizeTags(tags, allowed))
<1>1. \A t \in Or(Texts) : MaskedAny(scrub(t, 120)) /\ scrub(t, 120) \in Or(Texts)
  <2> TAKE t \in Or(Texts)
  <2>1. MaskedAny(scrub(t, 120))
    BY ScrubMasks
  <2> QED
    BY <2>1 DEF MaskedAny, Or
<1>2. Undefined \in Or(Texts)
  BY DEF Or
<1>3. \A k \in TagKeys : tags[k] \in Or(Texts)
  OBVIOUS
<1> QED
  BY <1>1, <1>2, <1>3 DEF MaskedTags, sanitizeTags

LEMMA CrumbMasks ==
    ASSUME NEW b \in CrumbLists
    PROVE  /\ sanitizeBreadcrumb(b) \in CrumbLists
           /\ MaskedPathAny(sanitizeBreadcrumb(b).path)
           /\ \/ sanitizeBreadcrumb(b).operation = Undefined
              \/ MaskedAny(sanitizeBreadcrumb(b).operation)
           /\ sanitizeBreadcrumb(b).n = b.n
<1>1. b.n \in Nat /\ b.path \in Or(Paths) /\ b.operation \in Or(Texts)
  BY DEF CrumbLists
<1>2. PICK path \in Or(Paths) : path = safePath(b.path)
  BY <1>1, SafePathMasks
<1>3. MaskedPathAny(path)
  BY <1>1, <1>2, SafePathMasks
<1>4. PICK op : op = IF b.operation = Undefined THEN Undefined ELSE scrub(b.operation, 120)
  OBVIOUS
<1>5. op = Undefined \/ MaskedAny(op)
  BY <1>1, <1>4, ScrubMasks
<1>6. op \in Or(Texts)
  BY <1>5 DEF MaskedAny, Or
<1>7. sanitizeBreadcrumb(b) = [b EXCEPT !.path = path, !.operation = op]
  BY <1>2, <1>4 DEF sanitizeBreadcrumb
<1> QED
  BY <1>3, <1>5, <1>6, <1>7 DEF CrumbLists

LEMMA NoCrumbsMasked == MaskedCrumbs(NoCrumbs) /\ NoCrumbs.n = 0
  BY DEF MaskedCrumbs, NoCrumbs, CrumbLists, Or, MaskedPathAny

LEMMA CrumbsMask ==
    ASSUME NEW c \in CrumbLists
    PROVE  /\ MaskedCrumbs(SafeCrumbs(c)) /\ SafeCrumbs(c).n <= 50
           /\ SafeCrumbs(c).n = 0 => SafeCrumbs(c) = NoCrumbs
<1>1. CASE c.n = 0
  BY <1>1, NoCrumbsMasked DEF SafeCrumbs
<1>2. CASE c.n # 0
  <2>1. PICK b \in CrumbLists : b = sanitizeBreadcrumb(c)
    BY CrumbMasks
  <2>2. /\ b.n = c.n /\ MaskedPathAny(b.path)
        /\ b.operation = Undefined \/ MaskedAny(b.operation)
    BY <2>1, CrumbMasks
  <2>3. c.n \in Nat
    BY DEF CrumbLists
  <2>4. PICK m \in Nat : m = AtMost(50, c.n)
    BY <2>3 DEF AtMost
  <2>5. m <= 50 /\ m # 0
    BY <1>2, <2>3, <2>4 DEF AtMost
  <2>6. SafeCrumbs(c) = [b EXCEPT !.n = m]
    BY <1>2, <2>1, <2>2, <2>4 DEF SafeCrumbs
  <2> QED
    BY <2>2, <2>5, <2>6 DEF MaskedCrumbs, CrumbLists
<1> QED
  BY <1>1, <1>2

LEMMA FramesMask ==
    ASSUME NEW f \in FrameLists
    PROVE  /\ SafeFrames(f) \in FrameLists /\ MaskedPathAny(SafeFrames(f).filename)
           /\ SomeFrames(SafeFrames(f))
<1>1. NoFrames \in FrameLists /\ MaskedPathAny(NoFrames.filename)
  BY DEF NoFrames, FrameLists, Or, MaskedPathAny
<1>2. f.n \in Nat /\ f.filename \in Or(Paths) /\ f.function \in Or(Texts)
  BY DEF FrameLists
<1>3. CASE f.n = 0 \/ safePath(f.filename) = Undefined
  BY <1>1, <1>3 DEF SafeFrames, SomeFrames
<1>4. CASE ~(f.n = 0 \/ safePath(f.filename) = Undefined)
  <2>1. PICK path \in Or(Paths) : path = safePath(f.filename)
    BY <1>2, SafePathMasks
  <2>2. MaskedPathAny(path)
    BY <1>2, <2>1, SafePathMasks
  <2>3. PICK function : function = scrub(f.function, 160)
    OBVIOUS
  <2>4. MaskedAny(function)
    BY <1>2, <2>3, ScrubMasks
  <2>5. function \in Or(Texts)
    BY <2>4 DEF MaskedAny, Or
  <2>6. PICK m \in Nat : m = AtMost(100, f.n)
    BY <1>2 DEF AtMost
  <2>7. m > 0
    BY <1>2, <1>4, <2>6 DEF AtMost
  <2>8. SafeFrames(f) = [f EXCEPT !.n = m, !.filename = path, !.function = function]
    BY <1>4, <2>1, <2>3, <2>6 DEF SafeFrames
  <2>9. SafeFrames(f) \in FrameLists
    BY <2>5, <2>8 DEF FrameLists
  <2> QED
    BY <1>4, <2>1, <2>2, <2>4, <2>7, <2>8, <2>9 DEF FrameLists, SomeFrames
<1> QED
  BY <1>3, <1>4

\* The sanitizer returns a clean event, whatever it gets (sanitizeEvent).
LEMMA SanitizedIsClean ==
    ASSUME NEW raw, IsRaw(raw), NEW allowed
    PROVE  CleanEvent(Sanitized(raw, allowed))
<1>1. /\ raw.message \in Or(Texts) /\ raw.name \in Or(Texts) /\ raw.route \in Or(Paths)
      /\ raw.frames \in FrameLists /\ raw.crumbs \in CrumbLists
      /\ raw.tags \in [TagKeys -> Or(Texts)]
  BY DEF IsRaw
<1> DEFINE e == Sanitized(raw, allowed)
<1>2. /\ e.message = OrElse(scrub(raw.message, 1024), 13)
      /\ e.name = OrElse(scrub(raw.name, 120), 5)
  BY DEF Sanitized
<1>3. /\ e.frames = SafeFrames(raw.frames) /\ e.tags = sanitizeTags(raw.tags, allowed)
      /\ e.crumbs = SafeCrumbs(raw.crumbs) /\ e.route = safePath(raw.route)
  BY DEF Sanitized
<1>4. /\ e.type = Undefined /\ e.level \in {"error", "fatal"} /\ e.environment # Undefined
      /\ e.api = sanitizeApiContext(raw.api) /\ e.labels = Matching(raw.labels)
  BY ProtocolAssumption DEF Sanitized
<1> HIDE DEF e
<1>5. MaskedAny(e.message) /\ e.message.len > 0 /\ MaskedAny(e.name) /\ e.name.len > 0
  <2>1. \A t \in Or(Texts), max, len \in Nat :
           len # 0 => MaskedAny(OrElse(scrub(t, max), len)) /\ OrElse(scrub(t, max), len).len > 0
    <3> TAKE t \in Or(Texts), max, len \in Nat
    <3>1. PICK s : s = scrub(t, max)
      OBVIOUS
    <3>2. MaskedAny(s)
      BY <3>1, ScrubMasks
    <3> QED
      BY <3>1, <3>2, OrElseMasks
  <2> QED
    BY <1>1, <1>2, <2>1
<1>6. /\ e.frames \in FrameLists /\ MaskedPathAny(e.frames.filename)
      /\ SomeFrames(e.frames)
  BY <1>1, <1>3, FramesMask
<1>7. MaskedTags(e.tags)
  BY <1>1, <1>3, TagsMask
<1>8. MaskedCrumbs(e.crumbs) /\ e.crumbs.n <= 50 /\ (e.crumbs.n = 0 => e.crumbs = NoCrumbs)
  BY <1>1, <1>3, CrumbsMask
<1>9. e.route \in Or(Paths) /\ MaskedPathAny(e.route)
  BY <1>1, <1>3, SafePathMasks
<1>10. e.api = sanitizeApiContext(e.api) /\ e.labels = Matching(e.labels)
  BY <1>4 DEF sanitizeApiContext, Matching
<1>11. IsRaw(e)
  BY <1>5, <1>6, <1>7, <1>8, <1>9 DEF IsRaw, MaskedAny, MaskedTags, MaskedCrumbs, Or
<1>12. CleanEvent(e)
  BY <1>4, <1>5, <1>6, <1>7, <1>8, <1>9, <1>10, <1>11 DEF CleanEvent
<1> QED
  BY <1>12 DEF e
\* A path that was sanitized twice is cut no more (safePath).
LEMMA PathTwice ==
    ASSUME NEW p \in Or(Paths), Fits(p, 512), Fits(safePath(p), 512)
    PROVE  WholePath(safePath(p))
<1>1. CASE safePath(p) = Undefined
  BY <1>1 DEF WholePath
<1>2. CASE safePath(p) # Undefined
  <2>1. p \in Paths /\ p.inside # "unusable" /\ MadeOf(p, safePath(p))
    BY <1>2, SafePathMade
  <2>2. p.len <= 512
    BY <2>1, ProtocolAssumption DEF Fits
  <2>3. safePath(p).len <= 512
    BY <1>2 DEF Fits
  <2> QED
    BY <2>1, <2>2, <2>3 DEF MadeOf, WholePath
<1> QED
  BY <1>1, <1>2

\* Once more: it still fits unless a secret is masked in it, and then the secret can
\* be read no more; it is whole; if it is settled it stays as it is; and it is
\* there unless it was broken.
PathAgain(p, q) ==
    /\ Waits(p) \/ Fits(q, 512)
    /\ Caught(p, q)
    /\ q = Undefined \/ q.halved = FALSE
    /\ Settled(p) => q = p
    /\ q = Undefined <=> p = Undefined \/ Broken(p)

LEMMA WholePathAgain ==
    ASSUME NEW p, WholePath(p), MaskedPathAny(p)
    PROVE  PathAgain(p, safePath(p))
<1>1. CASE p = Undefined
  <2>1. safePath(p) = Undefined
    BY <1>1 DEF safePath
  <2> QED
    BY <1>1, <2>1 DEF PathAgain, Fits, Caught, Readable
<1>2. CASE p # Undefined
  <2>1. /\ p \in Paths /\ p \in Or(Paths) /\ p.len <= 512 /\ p.inside # "unusable"
        /\ p.halved = FALSE
        /\ p.inside = "secret" => p.layers > 0
    BY <1>2 DEF WholePath, MaskedPathAny, Or
  <2>2. p.len \in Nat
    BY <2>1 DEF Paths
  <2>3. safePath(p) = Undefined <=> Broken(p)
    <3>1. ~(p.len > 4096)
      BY <2>1, <2>2
    <3>2. Decoded(p) # Undefined
      BY <2>1, DecodedIsPath
    <3>3. CASE p.inside = "query" /\ p.layers = 0
      <4>1. safePath(p) = Decoded([p EXCEPT !.inside = "plain", !.len = @ \div 2])
        BY <1>2, <2>1, <3>1, <3>3 DEF safePath
      <4>2. [p EXCEPT !.inside = "plain", !.len = @ \div 2] \in Paths
        <5>1. p.len \div 2 \in Nat /\ "plain" \in Insides
          BY <2>2 DEF Insides
        <5> QED
          BY <2>1, <5>1 DEF Paths
      <4>3. Decoded([p EXCEPT !.inside = "plain", !.len = @ \div 2]) # Undefined
        BY <4>2, DecodedIsPath
      <4> QED
        BY <3>3, <4>1, <4>3 DEF Broken
    <3>4. CASE ~(p.inside = "query" /\ p.layers = 0)
      BY <1>2, <2>1, <3>1, <3>2, <3>4 DEF safePath, Broken
    <3> QED
      BY <3>3, <3>4
  <2>4. CASE safePath(p) = Undefined
    <3>1. Broken(p)
      BY <2>3, <2>4
    <3> QED
      BY <1>2, <2>4, <3>1 DEF PathAgain, Fits, Caught, Readable, Settled, Broken
  <2>5. CASE safePath(p) # Undefined
    <3>1. PICK q : q = safePath(p)
      OBVIOUS
    <3>2. MadeOf(p, q)
      BY <2>1, <2>5, <3>1, SafePathMade
    <3>3. Waits(p) \/ Fits(q, 512)
      BY <1>2, <2>1, <3>2 DEF MadeOf, Fits, Waits
    <3>4. Caught(p, q)
      <4> SUFFICES ASSUME Readable(p)
                   PROVE  ~Readable(q)
        BY DEF Caught
      <4>1. "layers" \in DOMAIN p /\ "layers" \in DOMAIN q
        BY <2>1, <3>2 DEF MadeOf, Paths
      <4>2. p.inside = "backslash" /\ p.layers = 0
        BY <2>1, <4>1 DEF Readable, Paths
      <4> QED
        BY <3>2, <4>1, <4>2 DEF MadeOf, Readable
    <3>5. q.halved = FALSE /\ (Settled(p) => q = p)
      BY <1>2, <2>1, <3>2 DEF MadeOf, Settled
    <3> QED
      BY <1>2, <2>3, <2>5, <3>1, <3>3, <3>4, <3>5 DEF PathAgain
  <2> QED
    BY <2>4, <2>5
<1> QED
  BY <1>1, <1>2

LEMMA ListPaths ==
    ASSUME NEW f \in FrameLists, NEW c \in CrumbLists
    PROVE  /\ SafeFrames(f).filename \in {Undefined, safePath(f.filename)}
           /\ SafeCrumbs(c).path \in {Undefined, safePath(c.path)}
  BY DEF SafeFrames, SafeCrumbs, NoFrames, NoCrumbs, sanitizeBreadcrumb, FrameLists, CrumbLists

\* What the page sends was sanitized twice (beforeSend and transport.send).
LEMMA SanitizedTwice ==
    ASSUME NEW raw, CleanEvent(raw), Valid(raw), NEW allowed, Valid(Sanitized(raw, allowed))
    PROVE  SentEvent(Sanitized(raw, allowed))
<1>1. /\ raw.route \in Or(Paths) /\ raw.frames \in FrameLists /\ raw.crumbs \in CrumbLists
      /\ IsRaw(raw)
  BY DEF CleanEvent, IsRaw
<1>2. raw.frames.filename \in Or(Paths) /\ raw.crumbs.path \in Or(Paths)
  BY <1>1 DEF FrameLists, CrumbLists
<1>3. /\ Fits(raw.route, 512) /\ Fits(raw.frames.filename, 512) /\ Fits(raw.crumbs.path, 512)
  BY DEF Valid
<1> DEFINE e == Sanitized(raw, allowed)
<1>4. e.frames = SafeFrames(raw.frames) /\ e.crumbs = SafeCrumbs(raw.crumbs)
      /\ e.route = safePath(raw.route)
  BY DEF Sanitized
<1>5. CleanEvent(e) /\ Valid(e)
  BY <1>1, SanitizedIsClean
<1> HIDE DEF e
<1>6. Fits(e.route, 512) /\ Fits(e.frames.filename, 512) /\ Fits(e.crumbs.path, 512)
  BY <1>5 DEF Valid
<1>7. WholePath(Undefined)
  BY DEF WholePath
<1>8. WholePath(e.route)
  BY <1>1, <1>3, <1>4, <1>6, PathTwice
<1>9. WholePath(e.frames.filename)
  BY <1>1, <1>2, <1>3, <1>4, <1>6, <1>7, ListPaths, PathTwice
<1>10. WholePath(e.crumbs.path)
  BY <1>1, <1>2, <1>3, <1>4, <1>6, <1>7, ListPaths, PathTwice
<1>11. SentEvent(e)
  BY <1>5, <1>8, <1>9, <1>10 DEF SentEvent
<1> QED
  BY <1>11 DEF e

\* Sanitizing an event the page sent once more: what SentIsStored says of it.
SameFrames(f, safe) ==
    IF Broken(f.filename) THEN safe = NoFrames
    ELSE safe.n = f.n /\ safe.function = f.function /\ safe.debug = f.debug

Unchanged(e, safe, allowed) ==
    /\ safe.message = e.message /\ safe.name = e.name
    /\ safe.level = e.level /\ safe.environment = e.environment
    /\ safe.crumbs.n = e.crumbs.n /\ safe.crumbs.operation = e.crumbs.operation
    /\ safe.api = e.api /\ safe.labels = e.labels
    /\ \A k \in TagKeys : safe.tags[k] = (IF k \in allowed THEN e.tags[k] ELSE Undefined)
    /\ SameFrames(e.frames, safe.frames)
    /\ PathAgain(e.route, safe.route) /\ PathAgain(e.frames.filename, safe.frames.filename)
    /\ PathAgain(e.crumbs.path, safe.crumbs.path)

SomeWait(e) == Waits(e.route) \/ Waits(e.frames.filename) \/ Waits(e.crumbs.path)

LEMMA MaskedFits ==
    ASSUME NEW t, MaskedAny(t), NEW max, Fits(t, max)
    PROVE  Masked(t, max) /\ t # Undefined
  BY ProtocolAssumption DEF MaskedAny, Masked, Fits

LEMMA TagsAgain ==
    ASSUME NEW tags, MaskedTags(tags), \A k \in TagKeys : Fits(tags[k], 120), NEW allowed,
           NEW k \in TagKeys
    PROVE  sanitizeTags(tags, allowed)[k] = IF k \in allowed THEN tags[k] ELSE Undefined
<1>1. sanitizeTags(tags, allowed)[k] =
         IF k \in allowed /\ tags[k] # Undefined THEN scrub(tags[k], 120) ELSE Undefined
  BY DEF sanitizeTags
<1>2. tags[k] = Undefined \/ scrub(tags[k], 120) = tags[k]
  BY MaskedFits, ScrubKeeps DEF MaskedTags
<1> QED
  BY <1>1, <1>2

LEMMA CrumbsAgain ==
    ASSUME NEW c, MaskedCrumbs(c), c.n <= 50, c.n = 0 => c = NoCrumbs, Fits(c.operation, 120)
    PROVE  /\ SafeCrumbs(c).n = c.n /\ SafeCrumbs(c).operation = c.operation
           /\ SafeCrumbs(c).path = safePath(c.path)
<1>1. CASE c.n = 0
  <2>1. c = NoCrumbs /\ SafeCrumbs(c) = NoCrumbs
    BY <1>1 DEF SafeCrumbs
  <2>2. safePath(Undefined) = Undefined /\ NoCrumbs.path = Undefined
    BY DEF safePath, NoCrumbs
  <2> QED
    BY <2>1, <2>2
<1>2. CASE c.n # 0
  <2>1. c \in CrumbLists /\ c.n \in Nat /\ c.n <= 50
    BY DEF MaskedCrumbs, CrumbLists
  <2>2. AtMost(50, c.n) = c.n
    BY <2>1 DEF AtMost
  <2>3. c.operation = Undefined \/ scrub(c.operation, 120) = c.operation
    BY MaskedFits, ScrubKeeps DEF MaskedCrumbs
  <2>4. (IF c.operation = Undefined THEN Undefined ELSE scrub(c.operation, 120)) = c.operation
    BY <2>3
  <2>5. sanitizeBreadcrumb(c) = [c EXCEPT !.path = safePath(c.path), !.operation = c.operation]
    BY <2>4 DEF sanitizeBreadcrumb
  <2>6. SafeCrumbs(c) = [sanitizeBreadcrumb(c) EXCEPT !.n = AtMost(50, sanitizeBreadcrumb(c).n)]
    BY <1>2 DEF SafeCrumbs
  <2> QED
    BY <2>1, <2>2, <2>5, <2>6 DEF CrumbLists
<1> QED
  BY <1>1, <1>2

LEMMA FramesAgain ==
    ASSUME NEW f \in FrameLists, SomeFrames(f), f.n <= 100, Fits(f.function, 160),
           PathAgain(f.filename, safePath(f.filename))
    PROVE  SameFrames(f, SafeFrames(f)) /\ SafeFrames(f).filename = safePath(f.filename)
<1>1. f.n \in Nat
  BY DEF FrameLists
<1>2. CASE f = NoFrames
  <2>1. f.n = 0 /\ f.filename = Undefined /\ safePath(f.filename) = Undefined
    BY <1>2 DEF NoFrames, safePath
  <2>2. SafeFrames(f) = f
    BY <1>2, <2>1 DEF SafeFrames
  <2> QED
    BY <1>2, <2>1, <2>2 DEF SameFrames, Broken
<1>3. CASE f # NoFrames
  <2>1. f.n > 0 /\ f.filename # Undefined /\ MaskedAny(f.function)
    BY <1>3 DEF SomeFrames
  <2>2. safePath(f.filename) = Undefined <=> Broken(f.filename)
    BY <2>1 DEF PathAgain
  <2>3. CASE safePath(f.filename) = Undefined
    <3>1. SafeFrames(f) = NoFrames /\ NoFrames.filename = Undefined
      BY <2>3 DEF SafeFrames, NoFrames
    <3> QED
      BY <2>2, <2>3, <3>1 DEF SameFrames
  <2>4. CASE safePath(f.filename) # Undefined
    <3>1. AtMost(100, f.n) = f.n
      BY <1>1 DEF AtMost
    <3>2. scrub(f.function, 160) = f.function
      BY <2>1, MaskedFits, ScrubKeeps
    <3>3. f.n # 0
      BY <1>1, <2>1
    <3>4. SafeFrames(f) = [f EXCEPT !.n = f.n, !.filename = safePath(f.filename),
                                    !.function = f.function]
      BY <2>4, <3>1, <3>2, <3>3 DEF SafeFrames
    <3>5. /\ SafeFrames(f).n = f.n /\ SafeFrames(f).filename = safePath(f.filename)
          /\ SafeFrames(f).function = f.function /\ SafeFrames(f).debug = f.debug
      BY <3>4 DEF FrameLists
    <3>6. ~Broken(f.filename)
      BY <2>2, <2>4
    <3> QED
      BY <3>5, <3>6 DEF SameFrames
  <2> QED
    BY <2>3, <2>4
<1> QED
  BY <1>2, <1>3
LEMMA TextAgain ==
    ASSUME NEW t, MaskedAny(t), NEW max \in Nat, Fits(t, max), t.len > 0, NEW len
    PROVE  OrElse(scrub(t, max), len) = t
<1>1. scrub(t, max) = t
  BY MaskedFits, ScrubKeeps
<1>2. t.len # 0
  BY DEF MaskedAny, Texts
<1> QED
  BY <1>1, <1>2 DEF OrElse

\* Ingest sanitizes what the page sanitized twice: it is supported, it fits the
\* schema unless a secret is masked only now, texts and lists do not change and none
\* is cut in the middle of a character.
LEMMA SanitizedAgain ==
    ASSUME NEW e, SentEvent(e), NEW allowed
    PROVE  /\ ~Unsupported(e)
           /\ Valid(Sanitized(e, allowed)) \/ SomeWait(e)
           /\ Unchanged(e, Sanitized(e, allowed), allowed)
           /\ Halved(Sanitized(e, allowed)) => Halved(e)
<1>1. CleanEvent(e) /\ Valid(e)
  BY DEF SentEvent
<1>2. /\ MaskedAny(e.message) /\ e.message.len > 0 /\ MaskedAny(e.name) /\ e.name.len > 0
      /\ MaskedTags(e.tags) /\ MaskedCrumbs(e.crumbs) /\ (e.crumbs.n = 0 => e.crumbs = NoCrumbs)
      /\ e.frames \in FrameLists /\ SomeFrames(e.frames) /\ e.crumbs.n <= 50
  BY <1>1 DEF CleanEvent, IsRaw
<1>3. /\ Fits(e.message, 1024) /\ Fits(e.name, 120) /\ e.frames.n <= 100
      /\ Fits(e.frames.function, 160) /\ (\A k \in TagKeys : Fits(e.tags[k], 120))
      /\ Fits(e.crumbs.operation, 120)
  BY <1>1 DEF Valid
<1>4. ~Unsupported(e)
  BY <1>1 DEF CleanEvent, Unsupported
<1> DEFINE s == Sanitized(e, allowed)
<1>5. /\ s.message = OrElse(scrub(e.message, 1024), 13)
      /\ s.name = OrElse(scrub(e.name, 120), 5)
      /\ s.level = (IF e.level = "fatal" THEN "fatal" ELSE "error")
      /\ s.environment = (IF e.environment = Undefined THEN "development" ELSE e.environment)
  BY DEF Sanitized
<1>6. /\ s.frames = SafeFrames(e.frames) /\ s.tags = sanitizeTags(e.tags, allowed)
      /\ s.crumbs = SafeCrumbs(e.crumbs) /\ s.route = safePath(e.route)
      /\ s.api = sanitizeApiContext(e.api) /\ s.labels = Matching(e.labels)
  BY DEF Sanitized
<1> HIDE DEF s
<1>7. s.message = e.message /\ s.name = e.name
  BY <1>2, <1>3, <1>5, TextAgain
<1>8. /\ s.crumbs.n = e.crumbs.n /\ s.crumbs.operation = e.crumbs.operation
      /\ s.crumbs.path = safePath(e.crumbs.path)
  BY <1>2, <1>3, <1>6, CrumbsAgain
<1>9. ASSUME NEW k \in TagKeys
      PROVE  s.tags[k] = IF k \in allowed THEN e.tags[k] ELSE Undefined
  BY <1>2, <1>3, <1>6, TagsAgain
<1>10. /\ s.api = e.api /\ s.labels = e.labels
       /\ s.level = e.level /\ s.environment = e.environment
  BY <1>1, <1>5, <1>6 DEF CleanEvent
<1>11. PathAgain(e.route, s.route)
  <2>1. WholePath(e.route) /\ MaskedPathAny(e.route)
    BY <1>1 DEF SentEvent, CleanEvent
  <2> QED
    BY <1>6, <2>1, WholePathAgain
<1>12. PathAgain(e.crumbs.path, s.crumbs.path)
  <2>1. WholePath(e.crumbs.path) /\ MaskedPathAny(e.crumbs.path)
    BY <1>2 DEF SentEvent, MaskedCrumbs
  <2> QED
    BY <1>8, <2>1, WholePathAgain
<1>13. PathAgain(e.frames.filename, safePath(e.frames.filename))
  <2>1. WholePath(e.frames.filename) /\ MaskedPathAny(e.frames.filename)
    BY <1>1 DEF SentEvent, CleanEvent
  <2> QED
    BY <2>1, WholePathAgain
<1>14. SameFrames(e.frames, s.frames) /\ s.frames.filename = safePath(e.frames.filename)
  BY <1>2, <1>3, <1>6, <1>13, FramesAgain
<1>15. PathAgain(e.frames.filename, s.frames.filename)
  BY <1>13, <1>14
<1>16. Unchanged(e, s, allowed)
  BY <1>7, <1>8, <1>9, <1>10, <1>11, <1>12, <1>14, <1>15 DEF Unchanged
<1>17. Valid(s) \/ SomeWait(e)
  <2> SUFFICES ASSUME ~SomeWait(e)
               PROVE  Valid(s)
    OBVIOUS
  <2>1. Fits(s.message, 1024) /\ Fits(s.name, 120) /\ Fits(s.crumbs.operation, 120)
    BY <1>3, <1>7, <1>8
  <2>2. Fits(s.route, 512) /\ Fits(s.frames.filename, 512) /\ Fits(s.crumbs.path, 512)
    BY <1>11, <1>12, <1>15 DEF SomeWait, PathAgain
  <2>3. s.frames.n <= 100 /\ Fits(s.frames.function, 160)
    BY <1>3, <1>14 DEF NoFrames, Fits, SameFrames
  <2>4. s.crumbs.n <= 50
    BY <1>2, <1>8
  <2>5. \A k \in TagKeys : Fits(s.tags[k], 120)
    BY <1>3, <1>9 DEF Fits
  <2> QED
    BY <2>1, <2>2, <2>3, <2>4, <2>5 DEF Valid
<1>18. Halved(s) => Halved(e)
  <2> SUFFICES ASSUME Halved(s)
               PROVE  Halved(e)
    OBVIOUS
  <2> DEFINE Parts(v) == {v.message, v.name, v.route, v.frames.filename, v.frames.function,
                          v.crumbs.path, v.crumbs.operation} \cup {v.tags[k] : k \in TagKeys}
  <2>1. PICK t \in Parts(s) : t # Undefined /\ t.halved
    BY DEF Halved
  <2>2. t \notin {s.route, s.frames.filename, s.crumbs.path}
    BY <1>11, <1>12, <1>15, <2>1 DEF PathAgain
  <2>3. CASE t \in {s.message, s.name, s.crumbs.operation}
    BY <1>7, <1>8, <2>1, <2>3 DEF Halved
  <2>4. CASE t = s.frames.function
    <3>1. s.frames.function = e.frames.function
      BY <1>14, <2>1, <2>4 DEF NoFrames, SameFrames
    <3> QED
      BY <2>1, <2>4, <3>1 DEF Halved
  <2>5. CASE \E k \in TagKeys : t = s.tags[k]
    <3>1. PICK k \in TagKeys : t = s.tags[k]
      BY <2>5
    <3>2. t = e.tags[k]
      BY <1>9, <2>1, <3>1
    <3> QED
      BY <2>1, <3>2 DEF Halved
  <2> QED
    BY <2>1, <2>2, <2>3, <2>4, <2>5
<1>19. (Valid(s) \/ SomeWait(e)) /\ Unchanged(e, s, allowed) /\ (Halved(s) => Halved(e))
  BY <1>16, <1>17, <1>18
<1> QED
  BY <1>4, <1>19 DEF s

-----------------------------------------------------------------------------
(* What the page sends is within the limits of the parser.                 *)

\* A set of numbers with a largest one.
Topped(S) == S \subseteq Int /\ \E x \in S : \A y \in S : y <= x

LEMMA OneMoreTopped ==
    ASSUME NEW S, Topped(S), NEW x \in Int
    PROVE  Topped(S \cup {x})
<1>1. PICK m \in S : \A y \in S : y <= m
  BY DEF Topped
<1> S \subseteq Int
  BY DEF Topped
<1>2. CASE x <= m
  BY <1>1, <1>2 DEF Topped
<1>3. CASE ~(x <= m)
  <2>1. \A y \in S \cup {x} : y <= x
    BY <1>1, <1>3
  <2> QED
    BY <2>1 DEF Topped
<1> QED
  BY <1>2, <1>3

LEMMA LargestIsIn ==
    ASSUME NEW S, Topped(S)
    PROVE  Largest(S) \in S
  BY DEF Topped, Largest

LEMMA LargestOf3 ==
    ASSUME NEW a \in Int, NEW b \in Int, NEW c \in Int
    PROVE  Largest({a, b, c}) \in {a, b, c}
<1>1. Topped({a})
  BY DEF Topped
<1>2. Topped({a} \cup {b})
  BY <1>1, OneMoreTopped
<1>3. Topped(({a} \cup {b}) \cup {c})
  BY <1>2, OneMoreTopped
<1>4. ({a} \cup {b}) \cup {c} = {a, b, c}
  OBVIOUS
<1> QED
  BY <1>3, <1>4, LargestIsIn
LEMMA Products ==
    \A a, b, c, d \in Nat : a <= c /\ b <= d => a * b \in Nat /\ a * b <= c * d
<1> TAKE a, b, c, d \in Nat
<1> HAVE a <= c /\ b <= d
<1>1. a * b <= c * b /\ c * b <= c * d
  OBVIOUS
<1>2. a * b \in Nat /\ c * b \in Nat /\ c * d \in Nat
  OBVIOUS
<1> QED
  BY <1>1, <1>2

LEMMA SizesOf ==
    ASSUME NEW t \in Or(Texts) \cup Or(Paths), NEW max \in Nat, Fits(t, max)
    PROVE  /\ Size(t, "bytes") \in Nat /\ Size(t, "bytes") <= max * 6
           /\ Length(t) \in Nat /\ Length(t) <= max
<1>1. CASE t = Undefined
  <2>1. Size(t, "bytes") = 0 /\ Length(t) = 0
    BY <1>1 DEF Size, Length
  <2> QED
    BY <2>1
<1>2. CASE t # Undefined
  <2>1. t \in Texts \cup Paths
    BY <1>2 DEF Or
  <2>2. t.len \in Nat /\ t.width \in 1..6
    BY <2>1 DEF Texts, Paths
  <2>3. t.width \in Nat /\ t.width <= 6
    BY <2>2
  <2>4. t.len <= max
    BY <1>2 DEF Fits
  <2>5. Size(t, "bytes") = t.len * t.width /\ Length(t) = t.len
    BY <1>2 DEF Size, Length
  <2>6. t.len * t.width \in Nat /\ t.len * t.width <= max * 6
    BY <2>2, <2>3, <2>4, Products
  <2> QED
    BY <2>2, <2>4, <2>5, <2>6
<1> QED
  BY <1>1, <1>2

\* The texts of an event that fits the schema.
LEMMA TextsFit ==
    ASSUME NEW e, IsRaw(e), Valid(e)
    PROVE  /\ e.message \in Or(Texts) \cup Or(Paths) /\ Fits(e.message, 1024)
           /\ e.name \in Or(Texts) \cup Or(Paths) /\ Fits(e.name, 120)
           /\ e.route \in Or(Texts) \cup Or(Paths) /\ Fits(e.route, 512)
           /\ e.frames.filename \in Or(Texts) \cup Or(Paths) /\ Fits(e.frames.filename, 512)
           /\ e.frames.function \in Or(Texts) \cup Or(Paths) /\ Fits(e.frames.function, 160)
           /\ e.crumbs.path \in Or(Texts) \cup Or(Paths) /\ Fits(e.crumbs.path, 512)
           /\ e.crumbs.operation \in Or(Texts) \cup Or(Paths) /\ Fits(e.crumbs.operation, 120)
           /\ e.tags["feature"] \in Or(Texts) \cup Or(Paths) /\ Fits(e.tags["feature"], 120)
           /\ e.tags["tenant"] \in Or(Texts) \cup Or(Paths) /\ Fits(e.tags["tenant"], 120)
           /\ e.frames.n \in Nat /\ e.frames.n <= 100
           /\ e.crumbs.n \in Nat /\ e.crumbs.n <= 50
<1>1. "feature" \in TagKeys /\ "tenant" \in TagKeys
  BY DEF TagKeys, DEFAULT_TAGS
<1>2. /\ e.tags["feature"] \in Or(Texts) /\ Fits(e.tags["feature"], 120)
      /\ e.tags["tenant"] \in Or(Texts) /\ Fits(e.tags["tenant"], 120)
  BY <1>1 DEF IsRaw, Valid
<1>3. /\ e.frames.n \in Nat /\ e.frames.filename \in Or(Paths) /\ e.frames.function \in Or(Texts)
  BY DEF IsRaw, FrameLists
<1>4. /\ e.crumbs.n \in Nat /\ e.crumbs.path \in Or(Paths) /\ e.crumbs.operation \in Or(Texts)
  BY DEF IsRaw, CrumbLists
<1> QED
  BY <1>2, <1>3, <1>4 DEF IsRaw, Valid

\* The largest event takes 635676 bytes.
LEMMA TotalFits ==
    ASSUME NEW e, IsRaw(e), Valid(e)
    PROVE  /\ Total(e, "bytes") \in Nat /\ 1 <= Total(e, "bytes")
           /\ Total(e, "bytes") <= LIMITS.item /\ Total(e, "bytes") + 130 <= LIMITS.envelope
<1> DEFINE B(t) == Size(t, "bytes")
<1>1. /\ B(e.message) \in Nat /\ B(e.message) <= 6144
      /\ B(e.name) \in Nat /\ B(e.name) <= 720
      /\ B(e.route) \in Nat /\ B(e.route) <= 3072
  BY TextsFit, SizesOf
<1>2. /\ B(e.frames.filename) \in Nat /\ B(e.frames.filename) <= 3072
      /\ B(e.frames.function) \in Nat /\ B(e.frames.function) <= 960
  BY TextsFit, SizesOf
<1>3. /\ B(e.crumbs.path) \in Nat /\ B(e.crumbs.path) <= 3072
      /\ B(e.crumbs.operation) \in Nat /\ B(e.crumbs.operation) <= 720
  BY TextsFit, SizesOf
<1>4. /\ B(e.tags["feature"]) \in Nat /\ B(e.tags["feature"]) <= 720
      /\ B(e.tags["tenant"]) \in Nat /\ B(e.tags["tenant"]) <= 720
  BY TextsFit, SizesOf
<1>5. PICK f \in Nat : f = 200 + B(e.frames.filename) + B(e.frames.function)
  BY <1>2
<1>6. PICK c \in Nat : c = 200 + B(e.crumbs.path) + B(e.crumbs.operation)
  BY <1>3
<1>7. e.frames.n * f \in Nat /\ e.frames.n * f <= 423200
  <2>1. f <= 4232
    BY <1>2, <1>5
  <2>2. e.frames.n * f \in Nat /\ e.frames.n * f <= 100 * 4232
    BY <2>1, TextsFit, Products
  <2> QED
    BY <2>2
<1>8. e.crumbs.n * c \in Nat /\ e.crumbs.n * c <= 199600
  <2>1. c <= 3992
    BY <1>3, <1>6
  <2>2. e.crumbs.n * c \in Nat /\ e.crumbs.n * c <= 50 * 3992
    BY <2>1, TextsFit, Products
  <2> QED
    BY <2>2
<1>9. Total(e, "bytes") = 1500 + B(e.message) + B(e.name) + B(e.route) + e.frames.n * f
                          + e.crumbs.n * c + B(e.tags["feature"]) + B(e.tags["tenant"])
  BY <1>5, <1>6 DEF Total
<1>10. LIMITS.item = 1048576 /\ LIMITS.envelope = 1310720
  BY DEF LIMITS
<1> HIDE DEF B
<1>11. /\ Total(e, "bytes") \in Nat /\ 1 <= Total(e, "bytes")
       /\ Total(e, "bytes") <= 636000
  BY <1>1, <1>4, <1>7, <1>8, <1>9
<1> QED
  BY <1>10, <1>11

\* Its longest text.
LEMMA LongestText ==
    ASSUME NEW e, IsRaw(e), Valid(e)
    PROVE  toSentryEvent(e).string \in Int /\ toSentryEvent(e).string <= LIMITS.string
<1> DEFINE L(t) == Length(t)
<1>1. /\ L(e.message) \in Nat /\ L(e.message) <= 4096
      /\ L(e.name) \in Nat /\ L(e.name) <= 4096
      /\ L(e.route) \in Nat /\ L(e.route) <= 4096
      /\ L(e.frames.filename) \in Nat /\ L(e.frames.filename) <= 4096
  <2>1. /\ L(e.message) \in Nat /\ L(e.message) <= 1024
        /\ L(e.name) \in Nat /\ L(e.name) <= 120
        /\ L(e.route) \in Nat /\ L(e.route) <= 512
        /\ L(e.frames.filename) \in Nat /\ L(e.frames.filename) <= 512
    BY TextsFit, SizesOf
  <2> QED
    BY <2>1
<1>2. /\ L(e.frames.function) \in Nat /\ L(e.frames.function) <= 4096
      /\ L(e.crumbs.path) \in Nat /\ L(e.crumbs.path) <= 4096
      /\ L(e.crumbs.operation) \in Nat /\ L(e.crumbs.operation) <= 4096
  <2>1. /\ L(e.frames.function) \in Nat /\ L(e.frames.function) <= 160
        /\ L(e.crumbs.path) \in Nat /\ L(e.crumbs.path) <= 512
        /\ L(e.crumbs.operation) \in Nat /\ L(e.crumbs.operation) <= 120
    BY TextsFit, SizesOf
  <2> QED
    BY <2>1
<1> HIDE DEF L
<1> DEFINE S1 == {160} \cup {L(e.message)}
           S2 == S1 \cup {L(e.name)}
           S3 == S2 \cup {L(e.route)}
           S4 == S3 \cup {L(e.frames.filename)}
           S5 == S4 \cup {L(e.frames.function)}
           S6 == S5 \cup {L(e.crumbs.path)}
           S7 == S6 \cup {L(e.crumbs.operation)}
<1>3. Topped({160})
  BY DEF Topped
<1>4. Topped(S1)
  BY <1>1, <1>3, OneMoreTopped
<1> HIDE DEF S1
<1>5. Topped(S2)
  BY <1>1, <1>4, OneMoreTopped
<1> HIDE DEF S2
<1>6. Topped(S3)
  BY <1>1, <1>5, OneMoreTopped
<1> HIDE DEF S3
<1>7. Topped(S4)
  BY <1>1, <1>6, OneMoreTopped
<1> HIDE DEF S4
<1>8. Topped(S5)
  BY <1>2, <1>7, OneMoreTopped
<1> HIDE DEF S5
<1>9. Topped(S6)
  BY <1>2, <1>8, OneMoreTopped
<1> HIDE DEF S6
<1>10. Topped(S7)
  BY <1>2, <1>9, OneMoreTopped
<1>11. Largest(S7) \in S7 /\ S7 \subseteq Int
  BY <1>10, LargestIsIn DEF Topped
<1>12. \A x \in S7 : x <= 4096
  BY <1>1, <1>2 DEF S1, S2, S3, S4, S5, S6
<1>13. toSentryEvent(e).string = Largest(S7)
  <2>1. S7 = {160} \cup {L(t) : t \in
                {e.message, e.name, e.route, e.frames.filename,
                 e.frames.function, e.crumbs.path, e.crumbs.operation}}
    BY DEF S1, S2, S3, S4, S5, S6
  <2> QED
    BY <2>1 DEF toSentryEvent, L
<1> QED
  BY <1>11, <1>12, <1>13 DEF LIMITS
\* What the page encodes the parser takes (encodeEnvelope and parseEnvelope).
LEMMA EncodedParses ==
    ASSUME NEW e, IsRaw(e), Valid(e)
    PROVE  parseEnvelope(encodeEnvelope(e)) = {}
<1>1. PICK total \in Nat : total = Total(e, "bytes")
  BY TotalFits
<1>2. 1 <= total /\ total <= LIMITS.item /\ total + 130 <= LIMITS.envelope
  BY <1>1, TotalFits
<1> DEFINE env == encodeEnvelope(e)
           body == toSentryEvent(e)
<1>3. /\ env.bytes = 130 + total /\ env.framed = TRUE /\ env.dsn = FALSE
      /\ env.header = Small /\ env.item = Small /\ env.kind = "event"
      /\ env.length = total /\ env.rest = total
      /\ env.headerId = "id" /\ env.bodyId = "id" /\ env.body = body
  BY <1>1 DEF encodeEnvelope, DeclaredLength, Small
<1> HIDE DEF env
<1>4. Refusals(Small, LIMITS.header) = {}
  BY DEF Refusals, Small, LIMITS
<1>5. Refusals(body, LIMITS.item) = {}
  <2>1. body.bytes <= LIMITS.item /\ body.bytes = total
    BY <1>1, <1>2 DEF toSentryEvent
  <2>2. body.string <= LIMITS.string
    BY LongestText
  <2>3. /\ body.depth \in {5, 7} /\ body.bad = FALSE
        /\ body.fields = 40 + 6 * e.frames.n + 8 * e.crumbs.n
        /\ body.array = Largest({1, e.frames.n, e.crumbs.n})
    BY DEF toSentryEvent
  <2>4. /\ e.frames.n \in Nat /\ e.frames.n <= 100 /\ e.crumbs.n \in Nat /\ e.crumbs.n <= 50
    BY TextsFit
  <2>5. body.array \in {1, e.frames.n, e.crumbs.n}
    <3>1. 1 \in Int /\ e.frames.n \in Int /\ e.crumbs.n \in Int
      BY <2>4
    <3>2. Largest({1, e.frames.n, e.crumbs.n}) \in {1, e.frames.n, e.crumbs.n}
      BY <3>1, LargestOf3
    <3> QED
      BY <2>3, <3>2
  <2> HIDE DEF body
  <2>6. body.array <= 512 /\ body.fields <= 2048 /\ body.depth <= 16
    BY <2>3, <2>4, <2>5
  <2>7. body.array \in Int /\ body.fields \in Int /\ body.depth \in Int /\ body.string \in Int
    <3>1. body.string \in Int
      BY LongestText DEF body
    <3> QED
      BY <2>3, <2>4, <2>5, <3>1
  <2>8. LIMITS.item \in Int /\ LIMITS.string \in Int
        /\ LIMITS.depth = 16 /\ LIMITS.array = 512 /\ LIMITS.fields = 2048
    BY DEF LIMITS
  <2> QED
    BY <2>1, <2>2, <2>3, <2>6, <2>7, <2>8 DEF Refusals
<1>6. ~LengthIsWrong(env)
  <2>1. PICK max \in Nat : max = LIMITS.item
    BY DEF LIMITS
  <2>2. total \in 1..max
    BY <1>2, <2>1
  <2> QED
    BY <1>3, <2>1, <2>2 DEF LengthIsWrong
<1>7. ~IdIsWrong(env)
  <2>1. "id" # Undefined
    BY ProtocolAssumption
  <2>2. EventId(env) = "id"
    BY <1>3, <2>1 DEF EventId
  <2> QED
    BY <1>3, <2>1, <2>2 DEF IdIsWrong
<1>8. ~(env.bytes > LIMITS.envelope)
  <2>1. PICK max \in Nat : max = LIMITS.envelope
    BY DEF LIMITS
  <2> QED
    BY <1>2, <1>3, <2>1
<1>9. Faults(env) = <<{}, {}, {}, {}, {}, {}, {}, {}, {}>>
  BY <1>3, <1>4, <1>5, <1>6, <1>7, <1>8 DEF Faults
<1>10. {i \in DOMAIN Faults(env) : Faults(env)[i] # {}} = {}
  BY <1>9
<1>11. parseEnvelope(env) = {}
  BY <1>10 DEF parseEnvelope
<1> QED
  BY <1>11 DEF env

-----------------------------------------------------------------------------
(* The scopes of a page.                                                   *)

LEMMA TaggedScope ==
    ASSUME NEW s, CleanScope(s), NEW safe, MaskedTags(safe)
    PROVE  CleanScope([s EXCEPT !.tags =
               [j \in TagKeys |-> IF safe[j] = Undefined THEN s.tags[j] ELSE safe[j]]])
<1> DEFINE tags == [j \in TagKeys |-> IF safe[j] = Undefined THEN s.tags[j] ELSE safe[j]]
<1>1. MaskedTags(tags)
  BY DEF CleanScope, MaskedTags
<1> HIDE DEF tags
<1>2. CleanScope([s EXCEPT !.tags = tags])
  BY <1>1 DEF CleanScope
<1> QED
  BY <1>2 DEF tags

LEMMA RoutedScope ==
    ASSUME NEW s, CleanScope(s), NEW p, MaskedPathAny(p)
    PROVE  CleanScope([s EXCEPT !.route = p])
  BY DEF CleanScope

LEMMA ApiScope ==
    ASSUME NEW s, CleanScope(s), NEW a
    PROVE  CleanScope([s EXCEPT !.api = a])
  BY DEF CleanScope

LEMMA CrumbedScope ==
    ASSUME NEW s, CleanScope(s), NEW c, MaskedCrumbs(c)
    PROVE  CleanScope([s EXCEPT !.crumbs = c])
  BY DEF CleanScope

LEMMA NoScopeIsClean == CleanScope(NoScope)
<1>1. MaskedTags(NoTags)
  BY DEF MaskedTags, NoTags, Or
<1> QED
  BY <1>1, NoCrumbsMasked DEF CleanScope, NoScope, MaskedPathAny

\* A capture takes from both scopes.
LEMMA MergedIsClean == ScopesAreClean => CleanScope(Merged)
<1> SUFFICES ASSUME ScopesAreClean
             PROVE  CleanScope(Merged)
  OBVIOUS
<1>1. CASE inner = Undefined
  BY <1>1 DEF Merged, ScopesAreClean
<1>2. CASE inner # Undefined
  <2>1. CleanScope(inner) /\ CleanScope(global)
    BY <1>2 DEF ScopesAreClean
  <2> DEFINE tags == [k \in TagKeys |->
                 IF inner.tags[k] # Undefined THEN inner.tags[k] ELSE global.tags[k]]
  <2>2. MaskedTags(tags)
    BY <2>1 DEF CleanScope, MaskedTags
  <2>3. Merged.tags = tags
    BY <1>2 DEF Merged
  <2> HIDE DEF tags
  <2>4. /\ Merged = [tags |-> Merged.tags, route |-> Merged.route, api |-> Merged.api,
                     crumbs |-> Merged.crumbs]
        /\ Merged.route \in {inner.route, global.route}
        /\ \/ Merged.crumbs = global.crumbs
           \/ Merged.crumbs = [inner.crumbs EXCEPT !.n = @ + global.crumbs.n]
    BY <1>2 DEF Merged
  <2>5. MaskedCrumbs(inner.crumbs) /\ MaskedCrumbs(global.crumbs)
    BY <2>1 DEF CleanScope
  <2>6. MaskedCrumbs([inner.crumbs EXCEPT !.n = @ + global.crumbs.n])
    BY <2>5 DEF MaskedCrumbs, CrumbLists
  <2>7. MaskedCrumbs(Merged.crumbs)
    BY <2>4, <2>5, <2>6
  <2> QED
    BY <2>1, <2>2, <2>3, <2>4, <2>7 DEF CleanScope
<1> QED
  BY <1>1, <1>2
\* A step that touches no event, and one that touches no scope.
LEMMA ScopeStep ==
    ASSUME ProtocolInv, event' = event, loopback' = loopback, ScopesAreClean'
    PROVE  ProtocolInv'
<1>1. IsEvent(event)' /\ OnItsWay(event)'
  BY DEF ProtocolInv
<1>2. SentIsStored'
  BY DEF ProtocolInv, SentIsStored
<1> QED
  BY <1>1, <1>2 DEF ProtocolInv

LEMMA EventStep ==
    ASSUME ProtocolInv, global' = global, inner' = inner,
           IsEvent(event'), OnItsWay(event'), SentIsStored'
    PROVE  ProtocolInv'
<1>1. ScopesAreClean'
  BY DEF ProtocolInv, ScopesAreClean
<1> QED
  BY <1>1 DEF ProtocolInv

\* A setter puts what it sanitized into one of the scopes.
LEMMA ChangeStep ==
    ASSUME ProtocolInv, NEW ofPage, NEW ofCallback, Change(ofPage, ofCallback),
           CleanScope(ofPage), inner # Undefined => CleanScope(ofCallback)
    PROVE  ProtocolInv'
<1>1. event' = event /\ loopback' = loopback
  BY DEF Change
<1>2. \/ global' = ofPage /\ inner' = inner
      \/ inner # Undefined /\ inner' = ofCallback /\ global' = global
  BY DEF Change
<1>3. ScopesAreClean'
  BY <1>2 DEF ProtocolInv, ScopesAreClean
<1> QED
  BY <1>1, <1>3, ScopeStep

LEMMA SetTagsStep ==
    ASSUME ProtocolInv, NEW k \in TagKeys, NEW t \in TagTexts, setTags(k, t)
    PROVE  ProtocolInv'
<1>1. [NoTags EXCEPT ![k] = t] \in [TagKeys -> Or(Texts)]
  BY ProtocolAssumption DEF NoTags, Or
<1>2. PICK safe : safe = sanitizeTags([NoTags EXCEPT ![k] = t], DEFAULT_TAGS)
  OBVIOUS
<1>3. MaskedTags(safe)
  BY <1>1, <1>2, TagsMask
<1> DEFINE Tagged(s) == [s EXCEPT !.tags =
                [j \in TagKeys |-> IF safe[j] = Undefined THEN s.tags[j] ELSE safe[j]]]
<1>4. Change(Tagged(global), Tagged(inner))
  BY <1>2 DEF setTags
<1>5. CleanScope(Tagged(global))
  BY <1>3, TaggedScope DEF ProtocolInv, ScopesAreClean
<1>6. inner # Undefined => CleanScope(Tagged(inner))
  BY <1>3, TaggedScope DEF ProtocolInv, ScopesAreClean
<1> HIDE DEF Tagged
<1> QED
  BY <1>4, <1>5, <1>6, ChangeStep

LEMMA SetAppContextStep ==
    ASSUME ProtocolInv, NEW p \in Routes, setAppContext(p)
    PROVE  ProtocolInv'
<1>1. p \in Or(Paths)
  BY ProtocolAssumption DEF Or
<1>2. MaskedPathAny(safePath(p))
  BY <1>1, SafePathMasks
<1>3. Change([global EXCEPT !.route = safePath(p)], [inner EXCEPT !.route = safePath(p)])
  BY DEF setAppContext
<1>4. CleanScope([global EXCEPT !.route = safePath(p)])
  BY <1>2, RoutedScope DEF ProtocolInv, ScopesAreClean
<1>5. inner # Undefined => CleanScope([inner EXCEPT !.route = safePath(p)])
  BY <1>2, RoutedScope DEF ProtocolInv, ScopesAreClean
<1> QED
  BY <1>3, <1>4, <1>5, ChangeStep

LEMMA SetApiContextStep ==
    ASSUME ProtocolInv, NEW a \in Apis, setApiContext(a)
    PROVE  ProtocolInv'
<1>1. Change([global EXCEPT !.api = sanitizeApiContext(a)],
             [inner EXCEPT !.api = sanitizeApiContext(a)])
  BY DEF setApiContext
<1>2. CleanScope([global EXCEPT !.api = sanitizeApiContext(a)])
  BY ApiScope DEF ProtocolInv, ScopesAreClean
<1>3. inner # Undefined => CleanScope([inner EXCEPT !.api = sanitizeApiContext(a)])
  BY ApiScope DEF ProtocolInv, ScopesAreClean
<1> QED
  BY <1>1, <1>2, <1>3, ChangeStep

LEMMA AddBreadcrumbStep ==
    ASSUME ProtocolInv, NEW b \in Breadcrumbs, addBreadcrumb([b EXCEPT !.n = 0], b.n)
    PROVE  ProtocolInv'
<1>1. b \in CrumbLists
  BY ProtocolAssumption
<1>2. PICK raw \in CrumbLists : raw = [b EXCEPT !.n = 0]
  BY <1>1 DEF CrumbLists
<1>3. PICK once \in CrumbLists : once = sanitizeBreadcrumb(raw)
  BY CrumbMasks
<1>4. PICK twice \in CrumbLists : twice = sanitizeBreadcrumb(once)
  BY CrumbMasks
<1> DEFINE Added(s, safe, max) ==
             [s EXCEPT !.crumbs = [safe EXCEPT !.n = AtMost(max, s.crumbs.n + b.n)]]
<1>5. Change(Added(global, twice, 50), Added(inner, once, 100))
  BY <1>2, <1>3, <1>4 DEF addBreadcrumb
<1>6. ASSUME NEW s, CleanScope(s), NEW r \in CrumbLists, NEW safe,
             safe = sanitizeBreadcrumb(r), NEW max \in Nat
      PROVE  CleanScope(Added(s, safe, max))
  <2>1. s.crumbs.n \in Nat /\ b.n \in Nat
    BY <1>1, <1>6 DEF CleanScope, MaskedCrumbs, CrumbLists
  <2>2. PICK n \in Nat : n = AtMost(max, s.crumbs.n + b.n)
    BY <2>1 DEF AtMost
  <2>3. /\ safe \in CrumbLists /\ MaskedPathAny(safe.path)
        /\ safe.operation = Undefined \/ MaskedAny(safe.operation)
    BY <1>6, CrumbMasks
  <2>4. MaskedCrumbs([safe EXCEPT !.n = n])
    BY <2>2, <2>3 DEF MaskedCrumbs, CrumbLists
  <2> QED
    BY <1>6, <2>2, <2>4, CrumbedScope
<1>7. CleanScope(global) /\ (inner # Undefined => CleanScope(inner))
  BY DEF ProtocolInv, ScopesAreClean
<1>8. CleanScope(Added(global, twice, 50))
  BY <1>4, <1>6, <1>7
<1>9. inner # Undefined => CleanScope(Added(inner, once, 100))
  BY <1>2, <1>3, <1>6, <1>7
<1> HIDE DEF Added
<1> QED
  BY <1>5, <1>8, <1>9, ChangeStep

\* Clients and scopes come and go.
LEMMA ClientStep ==
    ASSUME ProtocolInv, StartClient \/ CloseClient \/ EnterScope \/ LeaveScope
    PROVE  ProtocolInv'
<1>1. /\ event' = event /\ loopback' = loopback /\ global' = global
      /\ inner' \in {inner, Undefined, NoScope}
  BY DEF StartClient, CloseClient, EnterScope, LeaveScope
<1>2. ScopesAreClean'
  BY <1>1, NoScopeIsClean DEF ProtocolInv, ScopesAreClean
<1> QED
  BY <1>1, <1>2, ScopeStep

LEMMA CapturedStep ==
    ASSUME ProtocolInv, NEW message \in Or(Texts), NEW name \in Or(Texts),
           NEW frames \in FrameLists, NEW api, NEW level, NEW labels, NEW environment,
           Captured(message, name, frames, api, level, labels, environment),
           global' = global, inner' = inner
    PROVE  ProtocolInv'
<1>1. PICK m : m = Merged
  OBVIOUS
<1>2. CleanScope(m)
  BY <1>1, MergedIsClean DEF ProtocolInv
<1>3. PICK raw : raw =
        [type |-> Undefined, level |-> level, message |-> message, name |-> name,
         environment |-> environment, frames |-> frames, tags |-> m.tags,
         crumbs |-> m.crumbs, route |-> m.route,
         api |-> IF api # {} THEN api ELSE m.api, labels |-> labels]
  OBVIOUS
<1>4. event' = [NoEvent EXCEPT !.at = "captured", !.from = "page", !.raw = raw]
  BY <1>1, <1>3 DEF Captured
<1>5. IsRaw(raw)
  <2>1. m.tags \in [TagKeys -> Or(Texts)] /\ m.route \in Or(Paths) /\ m.crumbs \in CrumbLists
    BY <1>2 DEF CleanScope, MaskedTags, MaskedPathAny, MaskedCrumbs, Or
  <2> QED
    BY <1>3, <2>1 DEF IsRaw
<1>6. IsEvent(event') /\ event'.at = "captured" /\ event'.from = "page" /\ event'.raw = raw
  BY <1>4 DEF NoEvent, IsEvent
<1>7. OnItsWay(event')
  BY <1>5, <1>6 DEF OnItsWay
<1>8. SentIsStored'
  BY <1>6 DEF SentIsStored
<1> QED
  BY <1>6, <1>7, <1>8, EventStep

LEMMA CaptureStep ==
    ASSUME ProtocolInv, captureException \/ captureMessage
    PROVE  ProtocolInv'
<1>1. CASE captureException
  <2>1. PICK message \in Messages, name \in Names, stack \in Stacks, api \in Apis,
             labels \in Labels, environment \in {Undefined, "production"} :
          Captured(message, name, stack, sanitizeApiContext(api), Undefined, labels, environment)
    BY <1>1 DEF captureException
  <2>2. message \in Or(Texts) /\ name \in Or(Texts) /\ stack \in FrameLists
    BY ProtocolAssumption
  <2>3. global' = global /\ inner' = inner
    BY <1>1 DEF captureException
  <2> QED
    BY <2>1, <2>2, <2>3, CapturedStep
<1>2. CASE captureMessage
  <2>1. PICK message \in Messages, level \in {"error", "fatal"} :
          Captured(message, Undefined, NoFrames, {}, level, {}, Undefined)
    BY <1>2 DEF captureMessage
  <2>2. message \in Or(Texts) /\ Undefined \in Or(Texts) /\ NoFrames \in FrameLists
    BY ProtocolAssumption DEF Or, NoFrames, FrameLists
  <2>3. global' = global /\ inner' = inner
    BY <1>2 DEF captureMessage
  <2> QED
    BY <2>1, <2>2, <2>3, CapturedStep
<1> QED
  BY <1>1, <1>2
LEMMA SanitizeReturns ==
    ASSUME NEW raw, NEW allowed
    PROVE  LET result == sanitizeEvent(raw, allowed) IN
           /\ result.error = Undefined => /\ result.safe = Sanitized(raw, allowed)
                                          /\ Valid(result.safe)
           /\ ~Unsupported(raw) /\ Valid(Sanitized(raw, allowed)) => result.error = Undefined
<1>1. Undefined # "unsupported" /\ Undefined # "schema"
  BY ProtocolAssumption
<1>2. CASE Unsupported(raw)
  BY <1>1, <1>2 DEF sanitizeEvent
<1>3. CASE ~Unsupported(raw) /\ Valid(Sanitized(raw, allowed))
  BY <1>1, <1>3 DEF sanitizeEvent
<1>4. CASE ~Unsupported(raw) /\ ~Valid(Sanitized(raw, allowed))
  BY <1>1, <1>4 DEF sanitizeEvent
<1> QED
  BY <1>2, <1>3, <1>4

LEMMA DroppedStep ==
    ASSUME ProtocolInv, Goes("dropped"), global' = global, inner' = inner
    PROVE  ProtocolInv'
<1>1. /\ IsEvent(event') /\ event'.at = "dropped" /\ event'.from = event.from
  BY DEF ProtocolInv, IsEvent, Goes
<1>2. OnItsWay(event')
  BY <1>1 DEF ProtocolInv, OnItsWay
<1>3. SentIsStored'
  BY <1>1 DEF SentIsStored
<1> QED
  BY <1>1, <1>2, <1>3, EventStep

LEMMA BeforeSendStep ==
    ASSUME ProtocolInv, BeforeSend
    PROVE  ProtocolInv'
<1>1. global' = global /\ inner' = inner /\ event.at = "captured"
  BY DEF BeforeSend
<1>2. CASE Goes("dropped")
  BY <1>1, <1>2, DroppedStep
<1>3. CASE ~Goes("dropped")
  <2>1. PICK first : first = sanitizeEvent(event.raw, DEFAULT_TAGS)
    OBVIOUS
  <2>2. first.error = Undefined /\ event' = [event EXCEPT !.at = "prepared", !.raw = first.safe]
    BY <1>3, <2>1 DEF BeforeSend
  <2>3. IsRaw(event.raw) /\ event.from = "page"
    BY <1>1 DEF ProtocolInv, OnItsWay
  <2>4. CleanEvent(first.safe) /\ Valid(first.safe)
    BY <2>1, <2>2, <2>3, SanitizeReturns, SanitizedIsClean
  <2>5. /\ IsEvent(event') /\ event'.at = "prepared" /\ event'.from = "page"
        /\ event'.raw = first.safe
    BY <2>2, <2>3 DEF ProtocolInv, IsEvent
  <2>6. OnItsWay(event')
    BY <2>4, <2>5 DEF OnItsWay
  <2>7. SentIsStored'
    BY <2>5 DEF SentIsStored
  <2> QED
    BY <1>1, <2>5, <2>6, <2>7, EventStep
<1> QED
  BY <1>2, <1>3

LEMMA SendStep ==
    ASSUME ProtocolInv, Send
    PROVE  ProtocolInv'
<1>1. global' = global /\ inner' = inner /\ event.at = "prepared"
  BY DEF Send
<1>2. CASE Goes("dropped")
  BY <1>1, <1>2, DroppedStep
<1>3. CASE ~Goes("dropped")
  <2>1. PICK second : second = sanitizeEvent(event.raw, DEFAULT_TAGS)
    OBVIOUS
  <2>2. /\ second.error = Undefined
        /\ event' = [event EXCEPT !.at = "wire", !.envelope = encodeEnvelope(second.safe)]
    BY <1>3, <2>1 DEF Send
  <2>3. CleanEvent(event.raw) /\ Valid(event.raw) /\ event.from = "page"
    BY <1>1 DEF ProtocolInv, OnItsWay
  <2>4. SentEvent(second.safe)
    BY <2>1, <2>2, <2>3, SanitizeReturns, SanitizedTwice
  <2>5. encodeEnvelope(second.safe).raw = second.safe
    BY DEF encodeEnvelope
  <2>6. /\ IsEvent(event') /\ event'.at = "wire" /\ event'.from = "page"
        /\ event'.envelope = encodeEnvelope(second.safe)
    BY <2>2, <2>3 DEF ProtocolInv, IsEvent
  <2>7. OnItsWay(event')
    BY <2>4, <2>5, <2>6 DEF OnItsWay
  <2>8. SentIsStored'
    BY <2>6 DEF SentIsStored
  <2> QED
    BY <1>1, <2>6, <2>7, <2>8, EventStep
<1> QED
  BY <1>2, <1>3

LEMMA PostStep ==
    ASSUME ProtocolInv, Post \/ Settle
    PROVE  ProtocolInv'
<1>1. Undefined # "page" /\ "other" # "page"
  BY ProtocolAssumption
<1>2. CASE Post
  <2>1. PICK e \in ForeignEnvelopes :
          event' = [NoEvent EXCEPT !.at = "wire", !.from = "other", !.envelope = e]
    BY <1>2 DEF Post
  <2>2. /\ IsEvent(event') /\ event'.at = "wire" /\ event'.from = "other"
        /\ event'.envelope \in ForeignEnvelopes /\ global' = global /\ inner' = inner
    BY <1>2, <2>1 DEF NoEvent, IsEvent, Post
  <2>3. OnItsWay(event') /\ SentIsStored'
    BY <1>1, <2>2 DEF OnItsWay, SentIsStored
  <2> QED
    BY <2>2, <2>3, EventStep
<1>3. CASE Settle
  <2>1. /\ IsEvent(event') /\ event'.at = "none" /\ event'.from = Undefined
        /\ global' = global /\ inner' = inner
    BY <1>3 DEF NoEvent, IsEvent, Settle
  <2>2. OnItsWay(event') /\ SentIsStored'
    BY <1>1, <2>1 DEF OnItsWay, SentIsStored
  <2> QED
    BY <2>1, <2>2, EventStep
<1> QED
  BY <1>2, <1>3

LEMMA Responded ==
    ASSUME ProtocolInv, NEW status, NEW safe, Respond(status, safe)
    PROVE  /\ IsEvent(event') /\ event'.status = status /\ event'.raw = safe
           /\ event'.at = (IF status = 200 THEN "stored" ELSE "refused")
           /\ event'.from = event.from /\ event'.envelope = event.envelope
  BY DEF ProtocolInv, IsEvent, Respond

\* Of what the page sent only the environment and halves of characters are refused.
LEMMA IngestFromPage ==
    ASSUME ProtocolInv, Ingest, event.from = "page"
    PROVE  ProtocolInv'
<1>1. event.at = "wire" /\ global' = global /\ inner' = inner /\ loopback' = loopback
  BY DEF Ingest
<1>2. PICK sent : sent = event.envelope.raw
  OBVIOUS
<1>3. event.envelope = encodeEnvelope(sent) /\ SentEvent(sent)
  BY <1>1, <1>2 DEF ProtocolInv, OnItsWay
<1>4. IsRaw(sent) /\ Valid(sent)
  BY <1>3 DEF SentEvent, CleanEvent
<1>5. parseEnvelope(event.envelope) = {}
  BY <1>3, <1>4, EncodedParses
<1>6. PICK safe : safe = Sanitized(sent, AllowedTags)
  OBVIOUS
<1>7. /\ ~Unsupported(sent) /\ (Valid(safe) \/ SomeWait(sent))
      /\ Unchanged(sent, safe, AllowedTags)
      /\ Halved(safe) => Halved(sent)
  BY <1>3, <1>6, SanitizedAgain
<1>8. \/ FromLoopback /\ Respond(403, Undefined)
      \/ (Halved(safe) \/ SomeWait(sent)) /\ Respond(503, Undefined)
      \/ Respond(200, safe)
  <2>1. Undefined # "unsupported" /\ Undefined # "schema"
    BY ProtocolAssumption
  <2>2. CASE Valid(safe)
    <3>1. sanitizeEvent(sent, AllowedTags).error = Undefined
          /\ sanitizeEvent(sent, AllowedTags).safe = safe
      BY <1>6, <1>7, <2>2, SanitizeReturns
    <3> QED
      BY <1>2, <1>5, <2>1, <3>1 DEF Ingest
  <2>3. CASE ~Valid(safe)
    <3>1. sanitizeEvent(sent, AllowedTags).error = "schema"
      BY <1>6, <1>7, <2>3 DEF sanitizeEvent
    <3>2. Respond(503, Undefined)
      BY <1>2, <1>5, <3>1 DEF Ingest
    <3> QED
      BY <1>7, <2>3, <3>2
  <2> QED
    BY <2>2, <2>3
<1>9. CASE FromLoopback /\ Respond(403, Undefined)
  <2>1. /\ IsEvent(event') /\ event'.status = 403 /\ event'.at = "refused"
        /\ event'.from = "page" /\ loopback'
    BY <1>1, <1>9, Responded DEF FromLoopback
  <2> QED
    BY <1>1, <2>1, EventStep DEF OnItsWay, SentIsStored
<1>10. CASE (Halved(safe) \/ SomeWait(sent)) /\ Respond(503, Undefined)
  <2>1. /\ IsEvent(event') /\ event'.status = 503 /\ event'.at = "refused"
        /\ event'.from = "page" /\ event'.envelope.raw = sent
    BY <1>2, <1>10, Responded
  <2>2. Halved(sent) \/ SomeWait(sent)
    BY <1>7, <1>10
  <2>3. SentIsStored'
    BY <2>1, <2>2 DEF SentIsStored, SomeWait
  <2> QED
    BY <1>1, <2>1, <2>3, EventStep DEF OnItsWay
<1>11. CASE Respond(200, safe)
  <2>1. /\ IsEvent(event') /\ event'.at = "stored" /\ event'.raw = safe
        /\ event'.from = "page" /\ event'.envelope.raw = sent
    BY <1>2, <1>11, Responded
  <2>2. CleanEvent(safe)
    BY <1>4, <1>6, SanitizedIsClean
  <2>3. EventIsCaught(sent, safe)
    BY <1>7 DEF Unchanged, PathAgain, EventIsCaught
  <2>4. OnItsWay(event')
    BY <2>1, <2>2, <2>3 DEF OnItsWay
  <2>5. \A k \in AllowedTags : safe.tags[k] = sent.tags[k]
    BY <1>7, ProtocolAssumption DEF Unchanged
  <2>6. /\ SameFrames(sent.frames, safe.frames)
        /\ Settled(sent.route) => safe.route = sent.route
        /\ Settled(sent.frames.filename) => safe.frames.filename = sent.frames.filename
        /\ Settled(sent.crumbs.path) => safe.crumbs.path = sent.crumbs.path
    BY <1>7 DEF Unchanged, PathAgain
  <2>7. SentIsStored'
    BY <1>7, <2>1, <2>5, <2>6 DEF SentIsStored, Unchanged, SameFrames
  <2> QED
    BY <1>1, <2>1, <2>4, <2>7, EventStep
<1> QED
  BY <1>8, <1>9, <1>10, <1>11

LEMMA IngestFromOthers ==
    ASSUME ProtocolInv, Ingest, event.from # "page"
    PROVE  ProtocolInv'
<1>1. event.at = "wire" /\ global' = global /\ inner' = inner
  BY DEF Ingest
<1>2. PICK raw : raw = event.envelope.raw
  OBVIOUS
<1>3. IsRaw(raw)
  BY <1>1, <1>2, ProtocolAssumption DEF ProtocolInv, OnItsWay
<1>4. PICK result : result = sanitizeEvent(raw, AllowedTags)
  OBVIOUS
<1>5. \/ \E status \in {400, 403, 413, 503} : Respond(status, Undefined)
      \/ result.error \notin {"unsupported", "schema"} /\ Respond(200, result.safe)
  BY <1>2, <1>4 DEF Ingest, Refuse
<1>6. CASE \E status \in {400, 403, 413, 503} : Respond(status, Undefined)
  <2>1. IsEvent(event') /\ event'.at = "refused" /\ event'.from = event.from
    BY <1>6, Responded
  <2>2. event.from \in {Undefined, "page", "other"}
    BY DEF ProtocolInv, OnItsWay
  <2> QED
    BY <1>1, <2>1, <2>2, EventStep DEF OnItsWay, SentIsStored
<1>7. CASE result.error \notin {"unsupported", "schema"} /\ Respond(200, result.safe)
  <2>1. /\ IsEvent(event') /\ event'.at = "stored" /\ event'.from = event.from
        /\ event'.raw = result.safe
    BY <1>7, Responded
  <2>2. result.error = Undefined
    BY <1>4, <1>7 DEF sanitizeEvent
  <2>3. CleanEvent(result.safe)
    BY <1>3, <1>4, <2>2, SanitizeReturns, SanitizedIsClean
  <2>4. event.from \in {Undefined, "page", "other"}
    BY DEF ProtocolInv, OnItsWay
  <2>5. OnItsWay(event')
    BY <1>1, <2>1, <2>3, <2>4 DEF OnItsWay
  <2>6. SentIsStored'
    BY <2>1 DEF SentIsStored
  <2> QED
    BY <1>1, <2>1, <2>5, <2>6, EventStep
<1> QED
  BY <1>5, <1>6, <1>7

LEMMA ProtocolStarts == ProtocolInit => ProtocolInv
<1> SUFFICES ASSUME ProtocolInit
             PROVE  ProtocolInv
  OBVIOUS
<1>1. Undefined # "page"
  BY ProtocolAssumption
<1>2. ScopesAreClean
  BY NoScopeIsClean DEF ProtocolInit, ScopesAreClean
<1>3. event.at = "none" /\ event.from = Undefined /\ IsEvent(event)
  BY DEF ProtocolInit, NoEvent, IsEvent
<1> QED
  BY <1>1, <1>2, <1>3 DEF ProtocolInv, OnItsWay, SentIsStored

LEMMA ProtocolStep == ProtocolInv /\ [ProtocolNext]_protocolVars => ProtocolInv'
<1> SUFFICES ASSUME ProtocolInv, [ProtocolNext]_protocolVars
             PROVE  ProtocolInv'
  OBVIOUS
<1>1. CASE StartClient \/ CloseClient \/ EnterScope \/ LeaveScope
  BY <1>1, ClientStep
<1>2. CASE \E k \in TagKeys, t \in TagTexts : setTags(k, t)
  BY <1>2, SetTagsStep
<1>3. CASE \E p \in Routes : setAppContext(p)
  BY <1>3, SetAppContextStep
<1>4. CASE \E a \in Apis : setApiContext(a)
  BY <1>4, SetApiContextStep
<1>5. CASE \E b \in Breadcrumbs : addBreadcrumb([b EXCEPT !.n = 0], b.n)
  BY <1>5, AddBreadcrumbStep
<1>6. CASE captureException \/ captureMessage
  BY <1>6, CaptureStep
<1>7. CASE BeforeSend
  BY <1>7, BeforeSendStep
<1>8. CASE Send
  BY <1>8, SendStep
<1>9. CASE Post \/ Settle
  BY <1>9, PostStep
<1>10. CASE Ingest
  BY <1>10, IngestFromPage, IngestFromOthers
<1>11. CASE UNCHANGED protocolVars
  <2>1. event' = event /\ loopback' = loopback /\ global' = global /\ inner' = inner
    BY <1>11 DEF protocolVars
  <2>2. ScopesAreClean'
    BY <2>1 DEF ProtocolInv, ScopesAreClean
  <2> QED
    BY <2>1, <2>2, ScopeStep
<1> QED
  BY <1>1, <1>2, <1>3, <1>4, <1>5, <1>6, <1>7, <1>8, <1>9, <1>10, <1>11 DEF ProtocolNext

THEOREM ProtocolInvariant == ProtocolSpec => []ProtocolInv
  BY ProtocolStarts, ProtocolStep, PTL DEF ProtocolSpec

\* For any texts, paths, lists and events of other clients: the ingest process takes
\* what a page sends, and stores its texts, lists and settled paths as they were
\* sent; the refusals and the lost frames are the ones named in SentIsStored
\* (sanitizeEvent, encodeEnvelope, parseEnvelope).
THEOREM WhatIsSentIsStored == ProtocolSpec => []SentIsStored
<1>1. ProtocolInv => SentIsStored
  BY DEF ProtocolInv
<1> QED
  BY <1>1, ProtocolInvariant, PTL

LEMMA MaskedIsLeft ==
    ASSUME NEW t, t = Undefined \/ MaskedAny(t) \/ MaskedPathAny(t)
    PROVE  Readable(t) => LeftReadable(t)
<1>1. CASE t = Undefined
  BY <1>1 DEF Readable
<1>2. CASE MaskedAny(t)
  <2>1. "layers" \notin DOMAIN t /\ t.secrets = 0
    BY <1>2 DEF MaskedAny, Texts
  <2> QED
    BY <2>1 DEF Readable
<1>3. CASE t # Undefined /\ MaskedPathAny(t)
  <2>1. "layers" \in DOMAIN t /\ ~(t.inside = "secret" /\ t.layers = 0)
    BY <1>3 DEF MaskedPathAny, Paths
  <2> QED
    BY <2>1 DEF Readable, LeftReadable
<1> QED
  BY <1>1, <1>2, <1>3

LEMMA ScopeIsLeft ==
    ASSUME NEW s, MaskedTags(s.tags), MaskedPathAny(s.route), MaskedCrumbs(s.crumbs),
           NEW t \in ScopeTexts(s)
    PROVE  Readable(t) => LeftReadable(t)
<1>1. t = Undefined \/ MaskedAny(t) \/ MaskedPathAny(t)
  BY DEF ScopeTexts, MaskedTags, MaskedCrumbs
<1> QED
  BY <1>1, MaskedIsLeft

LEMMA EventIsLeft ==
    ASSUME NEW e, CleanEvent(e), NEW t \in EventTexts(e)
    PROVE  Readable(t) => LeftReadable(t)
<1>1. CASE t \in ScopeTexts(e)
  BY <1>1, ScopeIsLeft DEF CleanEvent
<1>2. CASE t \in {e.message, e.name, e.frames.filename, e.frames.function}
  <2>1. t = Undefined \/ MaskedAny(t) \/ MaskedPathAny(t)
    BY <1>2 DEF CleanEvent, NoFrames, SomeFrames
  <2> QED
    BY <2>1, MaskedIsLeft
<1> QED
  BY <1>1, <1>2 DEF EventTexts

\* For any texts, paths, lists and events of other clients: a secret the sanitizer
\* recognizes is readable in a scope, on the wire or in the inbox only behind a
\* backslash that the last pass decoded, and what a page sent so is not stored so
\* (scrub, safePath).
THEOREM SecretsStayMasked == ProtocolSpec => []SecretsAreMasked
<1>1. ProtocolInv => SecretsAreMasked
  <2> SUFFICES ASSUME ProtocolInv
               PROVE  SecretsAreMasked
    OBVIOUS
  <2>1. \A t \in ScopeTexts(global) : Readable(t) => LeftReadable(t)
    BY ScopeIsLeft DEF ProtocolInv, ScopesAreClean, CleanScope
  <2>2. inner # Undefined => \A t \in ScopeTexts(inner) : Readable(t) => LeftReadable(t)
    BY ScopeIsLeft DEF ProtocolInv, ScopesAreClean, CleanScope
  <2>3. event.at = "wire" /\ event.from = "page" =>
            \A t \in EventTexts(event.envelope.raw) : Readable(t) => LeftReadable(t)
    BY EventIsLeft DEF ProtocolInv, OnItsWay, SentEvent
  <2>4. event.at = "stored" => \A t \in EventTexts(event.raw) : Readable(t) => LeftReadable(t)
    BY EventIsLeft DEF ProtocolInv, OnItsWay
  <2>5. event.at = "stored" /\ event.from = "page" =>
            EventIsCaught(event.envelope.raw, event.raw)
    BY DEF ProtocolInv, OnItsWay
  <2> QED
    BY <2>1, <2>2, <2>3, <2>4, <2>5 DEF SecretsAreMasked, EventIsCaught, Caught
<1> QED
  BY <1>1, ProtocolInvariant, PTL

=============================================================================
