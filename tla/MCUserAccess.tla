---------------------------- MODULE MCUserAccess ----------------------------
(* Small instances of UserAccess for TLC.                                  *)
EXTENDS UserAccess, TLC

CONSTANTS u1, u2

\* Every invitation was sent to u1.
ToFirst == [v \in Invitation |-> u1]
\* Every invitation is for a viewer.
AsViewer == [v \in Invitation |-> Viewer]

Symmetry == Permutations(Tx) \cup Permutations(Session)
=============================================================================
