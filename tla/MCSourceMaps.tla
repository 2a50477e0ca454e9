---------------------------- MODULE MCSourceMaps ----------------------------
(* Small instances of SourceMaps for TLC.                                  *)
EXTENDS SourceMaps, TLC

CONSTANTS m1, m2, ca, cb, pa, pb, rel1, ev, ci1, ci2, v1, v2

\* The two manifests of a release share content ca.
MCManifests == {m1, m2}
MCContents == {ca, cb}
MCPlaces == {pa, pb}
MCReleases == {rel1}
MCArtifactsOf ==
    [m \in Manifests |-> IF m = m1 THEN {ca} ELSE {ca, cb}]
MCReleaseOf == [m \in Manifests |-> rel1]
MCPlaceOf == (ca :> pa) @@ (cb :> pb)

MCEvents == {ev}
MCEventRelease == [e \in Events |-> rel1]
MCEventMap == [e \in Events |-> ca]

MCClients == {ci1, ci2}
MCValidators == {v1, v2}
Symmetry == Permutations(Clients) \cup Permutations(Validators)

=============================================================================
