------------------------------- MODULE MCDeploy -------------------------------
(* Small instances of Deploy for TLC.                                      *)
EXTENDS Deploy, TLC

CONSTANTS ra, rb, rc

MCReleases == {ra, rb, rc}
MCSchemaOf == ra :> 1 @@ rb :> 2 @@ rc :> 3

\* Each release can run on the schema of the one after it.
MCSupports == ra :> {1, 2} @@ rb :> {2, 3} @@ rc :> {3}

\* The last release moves the database to the new runtime.
MCMovingRuntime == ra :> Legacy @@ rb :> Legacy @@ rc :> Alpine

\* All releases share one runtime.
MCOneRuntime == [r \in MCReleases |-> Alpine]

=============================================================================
