---------------------- MODULE MCAuthorizationMigration ----------------------
(* Small instances of AuthorizationMigration for TLC.                      *)
EXTENDS AuthorizationMigration, TLC

CONSTANTS p1, e1, Admin, Viewer

InFirst == [e \in Env |-> p1]

NoTree == [r \in {Org} \cup Project \cup Env |-> None]
Tree == [r \in {Org} \cup Project \cup Env |-> IF r \in Env THEN p1 ELSE Org]
All(status) == [s \in Project \cup Env |-> status]
OldMember(r) == [kind |-> "user", on |-> r, subject |-> Viewer, role |-> None]
Member(r) == [kind |-> "user", on |-> r, subject |-> Viewer, role |-> Viewer]
Service(r) == [kind |-> "service", on |-> r, subject |-> Admin, role |-> Admin]
On(r, role) == [on |-> r, role |-> role]

\* A new installation.
Fresh == [version |-> 0, roles |-> FALSE, rbac |-> {}, scoped |-> {},
          parent |-> NoTree, state |-> None, cp |-> All("new"), saved |-> None]
\* IAM v2.0.1: an old membership on the environment, a service user on the project.
Spice == [Fresh EXCEPT !.version = Legacy, !.roles = TRUE, !.cp = All("live"),
                       !.scoped = {On(e1, Viewer), On(p1, Admin)}, !.rbac = {OldMember(e1), Service(p1)}]
\* The same with a binding that the projection lacks.
Uncovered == [Spice EXCEPT !.scoped = {On(e1, Admin), On(p1, Admin)}]
\* The first Casbin release, with its upgrade done or interrupted.
Upgraded == {Member(e1), Service(p1)}
Report == [roles |-> TRUE, bindings |-> {Canonical(b) : b \in Upgraded}]
First == [Spice EXCEPT !.version = Casbin, !.rbac = Upgraded, !.scoped = {}, !.parent = Tree, !.saved = Report,
                       !.state = [policy |-> Report, reconciled |-> TRUE]]
Halfway == [First EXCEPT !.parent = [Tree EXCEPT ![e1] = Org], !.state.reconciled = FALSE]
\* Databases of older and of newer releases.
Older == [Fresh EXCEPT !.version = 1]
Newer == [First EXCEPT !.version = Latest + 1]

Everywhere == {Fresh, Spice, Uncovered, First, Halfway, Older, Newer}
Supported == {Fresh, Spice}

Symmetry == Permutations(Replica)
=============================================================================
