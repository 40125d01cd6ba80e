----------------------------- MODULE MCTokenAuth ----------------------------
(* Small instances of TokenAuth for TLC.                                   *)
EXTENDS TokenAuth, TLC

\* Every token as what it is, and a static token without its prefix.
WithoutPrefix == {<<k, k>> : k \in Kind} \cup {<<"service-user", "session">>}

Symmetry == Permutations(Payload) \cup Permutations(Binding)
=============================================================================
