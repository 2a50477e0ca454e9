------------------------------ MODULE MCProjects ------------------------------
(* Small instances of Projects for TLC.                                    *)
EXTENDS Projects, TLC

CONSTANTS p1, p2, s1, b1, b2, home, fork, ship, mr, forkmr, c1

MCProjects == {p1, p2}
MCSlugs == {s1}
MCBindings == {b1, b2}

MCProjectOf == [b \in MCBindings |-> p1]

\* Another release prefix for the same repository makes another binding.
MCRepository == [b \in MCBindings |-> home]
MCForks == {fork}
MCJobs == {ship, mr, forkmr}
MCClients == {c1}

\* A release from a protected tag, a merge request of the same commit, and a
\* merge request of a fork that runs in the bound project.
MCClaims ==
    [j \in MCJobs |->
        LET own == j # forkmr
            release == j = ship
        IN [id |-> IF own THEN home ELSE fork,
            path |-> IF own THEN home ELSE fork,
            job |-> home,
            config |-> IF own THEN home ELSE None,
            event |-> IF release THEN "push" ELSE "merge_request_event",
            release |-> release,
            branch |-> ~release,
            environment |-> IF release THEN "production" ELSE "preview",
            review |-> IF release THEN None ELSE j,
            sha |-> IF own THEN home ELSE fork]]

=============================================================================
