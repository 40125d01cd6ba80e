------------------------- MODULE MCVerificationKeys -------------------------
(* Small instances of VerificationKeys for TLC.                            *)
EXTENDS VerificationKeys, TLC

CONSTANTS k1, k2

\* An RSA key, and one that is of no use to the one cache or to the other.
SomeKinds == {[k \in Key |-> IF k = k1 THEN "RSA" ELSE kind] : kind \in {"EC", "enc"}}

\* Tokens that satisfy both providers, Google only, or neither.
ClaimSets == {IdentifyUserMicrosoft, IdentifyUserGoogle, {}}
Symmetry == Permutations(Request)
=============================================================================
