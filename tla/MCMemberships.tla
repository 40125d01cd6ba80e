---------------------------- MODULE MCMemberships ---------------------------
(* Small instances of Memberships for TLC.                                 *)
EXTENDS Memberships, TLC

CONSTANTS Viewer, u1, m1

\* The organization is new, or u1 is a viewer already.
NoMembers == [m \in Membership |-> Absent]
OneViewer == [m \in Membership |-> IF m = m1 THEN [user |-> u1, role |-> Viewer] ELSE Absent]

\* Requests, unused ids and the scopes of the Admin role are interchangeable.
Symmetry == Permutations(Tx) \cup Permutations(Membership \ {m1}) \cup Permutations(Admin)
=============================================================================
