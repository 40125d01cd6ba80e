-------------------------- MODULE MCScimReconcile ---------------------------
(* Small instances of ScimReconcile for TLC, and the requests of ScimWire. *)
EXTENDS ScimReconcile, ScimWire, TLC

CONSTANTS t1, t2, u1, u2, n1, n2

\* Every row belongs to somebody else.
OwnerEach == [r \in Row |-> IF r = 1 THEN u1 ELSE u2]

\* An administrator and an identity provider that starts with no group, with
\* every operation; and the identity provider alone, with groups that exist.
NoGroups == [g \in Group |-> None]
AllGroups == [g \in Group |-> IF g = 1 THEN n1 ELSE n2]
Everyone ==
    [ops |-> {"create", "patch", "rename", "delete_group", "mapping", "provision",
              "update_user", "delete_user", "grant", "revoke"},
     groups |-> {1}, names |-> {n1}, existing |-> NoGroups, limit |-> 5]
Provider ==
    [ops |-> {"patch", "delete_group", "mapping", "provision", "update_user", "delete_user"},
     groups |-> {1, 2}, names |-> {n1, n2}, existing |-> AllGroups, limit |-> 5]
MCClients == {Everyone, Provider}

\* Bodies and pages (ScimWire): a PATCH sent again because its answer was lost
\* changes nothing more, normalizePatchOps gives the dialects of the identity
\* providers the same meaning, and following the pages reads every row once.
WireFormat == started = 0 => Repeatable /\ Agreement /\ Coverage

TxSymmetry == Permutations(Tx)
=============================================================================
