------------------------------- MODULE MCBuild -------------------------------
(* Small instances of Build for TLC.                                       *)
EXTENDS Build, TLC

CONSTANTS f1, f2, f3

\* Two files share a batch, so that one may fail while the other goes on.
MCFiles == {f1, f2, f3}
MCBatchOf == [f \in MCFiles |-> IF f = f3 THEN 2 ELSE 1]

=============================================================================
