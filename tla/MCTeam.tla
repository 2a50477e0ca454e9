-------------------------------- MODULE MCTeam --------------------------------
(* Small instances of Team for TLC.                                        *)
EXTENDS Team, TLC

CONSTANTS ann, bea, ivy, t1, t2, p1

MCPeople == {ann, bea, ivy}
MCFounders == {ann, bea}
MCTeams == {t1, t2}
MCChoices == {{}, {t1}}
MCProjects == {p1}

MCSymmetry == Permutations(Founders) \cup Permutations(Ids)
                  \cup Permutations(OwnerRequests) \cup Permutations(Visitors)

=============================================================================
