--------------------------- MODULE MCIssueGrouping ---------------------------
(* Small instances of IssueGrouping for TLC.                               *)
EXTENDS IssueGrouping, TLC

CONSTANTS fa, fb, prod, r1, none, all

MCTwoEvents == 1..2
MCTwoFingerprints == {fa, fb}
MCShown == {fa}
MCEnvs == {prod}
MCReleases == {r1}
MCMapStates == {none, all}

MCSameEnv == [e \in ErrorEvents |-> prod]
MCSameRelease == [e \in ErrorEvents |-> r1]

\* All events look the same as sent.
MCSameCompiled == [e \in ErrorEvents |-> fa]

\* Maps tell event 2 apart from event 1, of which they restore nothing.
MCSplitting ==
    [e \in ErrorEvents |-> [m \in MapStates |->
        IF m = all /\ e = 2 THEN fb ELSE NoFrames]]

MCSymmetry == Permutations(Reprocessors)

=============================================================================
