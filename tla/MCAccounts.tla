------------------------------ MODULE MCAccounts ------------------------------
(* Small instances of Accounts for TLC.                                    *)
EXTENDS Accounts, TLC

CONSTANTS vera, lee, code1

MCVeterans == {vera}
MCLegacies == {lee}
\* Every request and browser has an address of its own.
MCIps == Requests \cup Browsers
MCIpOf == [x \in MCIps |-> x]

MCRecoveryCodes == {code1}

MCSymmetry == Permutations(Requests) \cup Permutations(Browsers)

=============================================================================
