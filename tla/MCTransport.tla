----------------------------- MODULE MCTransport -----------------------------
(* Small instances of Transport for TLC.                                   *)
EXTENDS Transport, TLC

CONSTANTS s1, s2, s3, whole, ip, proj

MCKeys == {whole, ip, proj}
MCRate == [k \in MCKeys |-> 1]
MCBurst == [k \in MCKeys |-> IF k = ip THEN 1 ELSE 2]
MCMalformed == -1
MCSlots == {s1, s2, s3}
MCHeaders == {1, 3, MCMalformed}

MCSymmetry == Permutations(MCSlots)

=============================================================================
