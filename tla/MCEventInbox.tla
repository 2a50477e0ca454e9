---------------------------- MODULE MCEventInbox ----------------------------
(* A small instance of EventInbox for TLC.                                 *)
EXTENDS EventInbox, TLC

CONSTANTS e1, w1, w2, p1

\* One event, the one the deployment check sends and removes: the workers race
\* for the same row, and two loops are enough for one to outlive its lease
\* while the other works on the next attempt.
MCEvents == {e1}
MCProbes == {e1}
MCProjects == {p1}
MCProjectOf == [e \in MCEvents |-> p1]
MCWorkers == {w1, w2}

=============================================================================
