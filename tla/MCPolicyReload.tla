--------------------------- MODULE MCPolicyReload ---------------------------
(* Small instances of PolicyReload for TLC.                                *)
EXTENDS PolicyReload, TLC

CONSTANTS i1, i2, h1, h2

HostOne == [h \in Handler |-> i1]

\* Requests on one instance are interchangeable.
HandlerSymmetry == Permutations(Handler)
=============================================================================
