----------------------------- MODULE MCAdmission -----------------------------
(* Small instances of Admission for TLC.                                   *)
EXTENDS Admission, TLC

CONSTANTS r1, r2, r3, e1, e2, p1

\* Two requests carry the same event: a retry that overtakes its original.
MCRequests == {r1, r2, r3}
MCEvents == {e1, e2}
MCEventOf == (r1 :> e1) @@ (r2 :> e1) @@ (r3 :> e2)
MCProjects == {p1}
MCProjectOf == [e \in Events |-> p1]
MCProbes == {e2}
MCQuotaOne == [p \in Projects |-> 1]


\* The two requests of the same event.
MCSymmetry == Permutations({r1, r2})

=============================================================================
