---------------------------- MODULE EventDelivery ----------------------------
(***************************************************************************)
(* What the event pipeline promises, without leases, tokens or retries.    *)
(*                                                                         *)
(* An accepted event is queued exactly once; it then leaves the queue      *)
(* exactly once, either recorded (its error_event row exists) or dropped   *)
(* (dead letter).  Retention may later expire the recorded event and       *)
(* forget the receipt, after which the same event id may be accepted       *)
(* again.  EventInbox is shown to implement this module.                   *)
(***************************************************************************)

CONSTANT Events                 \* (project, eventId) identities

VARIABLES
    phase,                      \* [Events -> Phases]
    store                       \* events whose error_event row exists

vars == <<phase, store>>

Phases == {"absent", "queued", "recorded", "dropped"}

TypeOK ==
    /\ phase \in [Events -> Phases]
    /\ store \subseteq Events

Init ==
    /\ phase = [e \in Events |-> "absent"]
    /\ store = {}

-----------------------------------------------------------------------------

\* The sender got 200: the event is durable.
Accept(e) ==
    /\ phase[e] = "absent"
    /\ phase' = [phase EXCEPT ![e] = "queued"]
    /\ UNCHANGED store

\* The only step that makes an event visible.
Record(e) ==
    /\ phase[e] = "queued"
    /\ phase' = [phase EXCEPT ![e] = "recorded"]
    /\ store' = store \cup {e}

\* One sweep may dead-letter several events; none of them becomes visible.
Drop(S) ==
    /\ S # {}
    /\ \A e \in S : phase[e] = "queued"
    /\ phase' = [e \in Events |-> IF e \in S THEN "dropped" ELSE phase[e]]
    /\ UNCHANGED store

\* Retention of events and of receipts.
Expire(e) ==
    /\ e \in store
    /\ store' = store \ {e}
    /\ UNCHANGED phase

Forget(e) ==
    /\ phase[e] \in {"recorded", "dropped"}
    /\ phase' = [phase EXCEPT ![e] = "absent"]
    /\ UNCHANGED store

\* The deployment check removes the event it sent itself, receipt included.
Erase(e) ==
    /\ e \in store
    /\ phase' = [phase EXCEPT ![e] = "absent"]
    /\ store' = store \ {e}

Next ==
    \/ \E e \in Events : Accept(e) \/ Record(e) \/ Expire(e) \/ Forget(e) \/ Erase(e)
    \/ \E S \in SUBSET Events : Drop(S)

Spec == Init /\ [][Next]_vars

=============================================================================
