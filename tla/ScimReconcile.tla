--------------------------- MODULE ScimReconcile ----------------------------
(***************************************************************************)
(* SCIM provisioning of one organization: users, groups, group-to-role     *)
(* mappings and the role memberships that reconciliation derives from them *)
(* (internal/api/scim_service.go, scim_handlers.go,                        *)
(* scim_group_mappings.go and the queries in internal/model).              *)
(*                                                                         *)
(* Every request is one READ COMMITTED transaction.  A transaction is a    *)
(* process: it takes row locks, reads what is committed plus its own       *)
(* writes, and applies its writes at commit.  Statements between two lock  *)
(* acquisitions are one step.  A scim_users row is a Row; rows of the same *)
(* person share an Owner (a deleted person is provisioned again as a new   *)
(* row).  Rows and groups are numbered in the order of their ids.          *)
(***************************************************************************)
EXTENDS Naturals, FiniteSets, FiniteSetsExt

CONSTANTS
    Tx,       \* concurrent transactions
    Row,      \* ids of scim_users rows
    Owner,    \* the global user a row belongs to
    Group,    \* ids of scim_groups rows
    Name,     \* group display names (compared case-insensitively)
    Role,     \* roles of the organization
    Viewer,   \* the fallback role
    None,     \* no lock holder, no name, no role
    Human,    \* a membership that is not recorded as SCIM-managed
    Clients   \* the kinds of clients: their operations, group ids and names, the
              \* memberless groups that exist at first, and the bound on requests

ASSUME ScimAssumption ==
    /\ Row \subseteq Nat /\ Group \subseteq Nat
    /\ Viewer \in Role
    /\ \A c \in Clients : /\ c.groups \subseteq Group /\ c.names \subseteq Name
                           /\ c.existing \in [Group -> Name \cup {None}]
                           /\ c.limit \in Nat
    /\ None \notin Name \cup Role \cup Row \cup Tx \cup Group
    /\ Human \notin Row \cup {None}

User == {Owner[r] : r \in Row}
Live == {"active", "inactive"}
Resource == ({"group"} \X Group) \cup ({"user"} \X Row) \cup ({"member"} \X (Group \X Row))
            \cup ({"name", "mapping"} \X Name)

VARIABLES
    status,   \* [r] "none", "active", "inactive" or "deleted" (tombstone)
    version,  \* [r] updated_at
    names,    \* [g] display name, None when the group does not exist
    members,  \* [g] live rows in the group
    mapping,  \* [n] mapped role or None
    grant,    \* [u][role] None, Human, or the row whose reconciliation manages it
    excl,     \* [resource] transaction holding it FOR UPDATE
    share,    \* [r] transactions holding the user row FOR KEY SHARE (foreign key)
    tx,       \* [t] the transaction's program counter, arguments and private writes
    started,  \* transactions started
    client    \* who the clients are (fixed)

vars == <<status, version, names, members, mapping, grant, excl, share, tx,
          started, client>>
tables == <<status, version, names, members, mapping, grant>>
lockVars == <<excl, share>>

\* A plan says, per row, which managed roles to create and which to delete.
NoPlan == [r \in Row |-> [add |-> {}, drop |-> {}]]
Idle == [op |-> "idle", pc |-> "idle", g |-> None, n |-> None, r |-> None,
         role |-> None, active |-> FALSE, seen |-> 0, was |-> FALSE,
         old |-> {}, fresh |-> {}, found |-> {}, todo |-> {}, plan |-> NoPlan]

Init ==
    /\ status = [r \in Row |-> "none"]
    /\ version = [r \in Row |-> 0]
    /\ client \in Clients
    /\ names = client.existing
    /\ members = [g \in Group |-> {}]
    /\ mapping = [n \in Name |-> None]
    /\ grant = [u \in User |-> [role \in Role |-> None]]
    /\ excl = [x \in Resource |-> None]
    /\ share = [r \in Row |-> {}]
    /\ tx = [t \in Tx |-> Idle]
    /\ started = 0

-----------------------------------------------------------------------------
(* Row locks.                                                              *)

\* Who keeps t from locking x FOR UPDATE, or row r FOR KEY SHARE.
ExclBlockers(t, x) ==
    ({excl[x]} \cup IF x[1] = "user" THEN share[x[2]] ELSE {}) \ {None, t}
ShareBlockers(t, r) == {excl[<<"user", r>>]} \ {None, t}

TakeExcl(t, X) ==
    /\ \A x \in X : ExclBlockers(t, x) = {}
    /\ excl' = [x \in Resource |-> IF x \in X THEN t ELSE excl[x]]

Release(t) ==
    /\ excl' = [x \in Resource |-> IF excl[x] = t THEN None ELSE excl[x]]
    /\ share' = [r \in Row |-> share[r] \ {t}]

\* The transaction ends and the goroutine is free for another request.
Finish(t) == Release(t) /\ tx' = [tx EXCEPT ![t] = Idle]

Abort(t) == Finish(t) /\ UNCHANGED <<tables, started, client>>

Step(t, pc) == tx' = [tx EXCEPT ![t].pc = pc]

-----------------------------------------------------------------------------
(* What the transaction sees: committed rows and its own writes.           *)

NamesIn(t) == IF tx[t].g = None THEN names ELSE [names EXCEPT ![tx[t].g] = tx[t].n]
MembersIn(t) == IF tx[t].g = None THEN members ELSE [members EXCEPT ![tx[t].g] = tx[t].fresh]
MappingIn(t) == IF tx[t].op = "mapping" THEN [mapping EXCEPT ![tx[t].n] = tx[t].role] ELSE mapping

\* ListRoleIdsForScimUserGroups and its multi-user form.
MappedRoles(r, nm, mb, mp) ==
    {mp[nm[g]] : g \in {h \in Group : r \in mb[h] /\ nm[h] # None}} \ {None}

Managed(r) == {role \in Role : grant[Owner[r]][role] = r}
Manual(r) == {role \in Role : grant[Owner[r]][role] \notin {None, r}}

\* The roles a row should hold: the mapped ones, or Viewer when nothing is
\* mapped and no human-made membership exists.
Target(r, mapped) ==
    IF mapped # {} THEN mapped ELSE IF Manual(r) # {} THEN {} ELSE {Viewer}

PlanFor(r, t) ==
    LET target == Target(r, MappedRoles(r, NamesIn(t), MembersIn(t), MappingIn(t)))
    IN  [add |-> target \ Managed(r), drop |-> Managed(r) \ target]

ApplyPlanIgnoringOwnerBug(plan) ==
    [u \in User |-> [role \in Role |->
        CASE \E r \in Row : Owner[r] = u /\ role \in plan[r].drop -> None
          [] \E r \in Row : Owner[r] = u /\ role \in plan[r].add
               -> CHOOSE r \in Row : Owner[r] = u /\ role \in plan[r].add
          [] OTHER -> grant[u][role]]]

\* Only the memberships the row manages are deleted; a role that somebody else
\* granted meanwhile is skipped and stays human-made.
ApplyPlan(plan) ==
    [u \in User |-> [role \in Role |->
        CASE \E r \in Row : Owner[r] = u /\ role \in plan[r].drop /\ grant[u][role] = r -> None
          [] grant[u][role] = None /\ \E r \in Row : Owner[r] = u /\ role \in plan[r].add
               -> CHOOSE r \in Row : Owner[r] = u /\ role \in plan[r].add
          [] OTHER -> grant[u][role]]]

-----------------------------------------------------------------------------
(* Requests.                                                               *)

Start(t, op, rec) ==
    /\ op \in client.ops
    /\ tx[t] = Idle
    /\ started < client.limit
    /\ started' = started + 1
    /\ tx' = [tx EXCEPT ![t] = rec]
    /\ UNCHANGED <<tables, lockVars, client>>

BeginCreateGroup(t, g, n, ms) ==
    /\ names[g] = None /\ \A s \in Tx : tx[s].g # g
    /\ Start(t, "create", [Idle EXCEPT !.op = "create", !.pc = "name", !.g = g, !.n = n, !.fresh = ms])

\* PUT and PATCH replace the member set, PATCH also adds and removes members;
\* with name None the request leaves the display name alone.
BeginPatchGroup(t, g, n, kind, ms) ==
    /\ n # None => "rename" \in client.ops
    /\ Start(t, "patch", [Idle EXCEPT !.op = kind, !.pc = "group", !.g = g, !.n = n, !.fresh = ms])

BeginDeleteGroup(t, g) ==
    Start(t, "delete_group", [Idle EXCEPT !.op = "delete_group", !.pc = "group", !.g = g])

\* PUT and DELETE of a group mapping; role None deletes.
BeginMapping(t, n, role) ==
    Start(t, "mapping", [Idle EXCEPT !.op = "mapping", !.pc = "by_name", !.n = n, !.role = role])

\* A row id is fresh: it is inserted by one request only.
BeginProvision(t, r, active) ==
    /\ status[r] = "none" /\ \A s \in Tx : tx[s].r # r
    /\ Start(t, "provision", [Idle EXCEPT !.op = "provision", !.pc = "insert", !.r = r, !.active = active])

\* The user handlers read the row before the transaction begins.
BeginUpdateUser(t, r, active) ==
    /\ status[r] \in Live
    /\ Start(t, "update_user",
             [Idle EXCEPT !.op = "update_user", !.pc = "lock_user", !.r = r, !.active = active,
                          !.seen = version[r], !.was = (status[r] = "active")])

BeginDeleteUser(t, r) ==
    /\ status[r] \in Live
    /\ Start(t, "delete_user",
             [Idle EXCEPT !.op = "delete_user", !.pc = "find_groups", !.r = r, !.seen = version[r]])

-----------------------------------------------------------------------------
(* Group requests: group row, member rows, user rows, reconcile, commit.   *)

\* The unique index makes an insert or a rename wait for an uncommitted
\* equal name and fail on a committed one.
ClaimName(t) ==
    /\ tx[t].pc = "name"
    /\ LET n == tx[t].n IN
       IF \E g \in Group \ {tx[t].g} : names[g] = n
       THEN excl[<<"name", n>>] \in {None, t} /\ Abort(t)
       ELSE /\ TakeExcl(t, {<<"name", n>>})
            /\ Step(t, IF tx[t].op = "create" THEN "check_members" ELSE "clear_members")
            /\ UNCHANGED <<tables, share, started, client>>

LockScimGroupSkippedBug(t) ==
    /\ tx[t].pc = "group"
    /\ tx[t].op # "delete_group"
    /\ names[tx[t].g] # None
    /\ LET g == tx[t].g
           old == {r \in members[g] : status[r] \in Live}
           fresh == CASE tx[t].op = "add" -> old \cup tx[t].fresh
                      [] tx[t].op = "remove" -> old \ tx[t].fresh
                      [] OTHER -> tx[t].fresh
       IN  tx' = [tx EXCEPT ![t].old = old, ![t].fresh = fresh, ![t].todo = members[g],
                            ![t].n = IF @ = None THEN names[g] ELSE @,
                            ![t].pc = "name"]
    /\ UNCHANGED <<tables, lockVars, started, client>>

\* LockScimGroup, then the member set is read under the lock.
LockScimGroup(t) ==
    /\ tx[t].pc = "group"
    /\ LET g == tx[t].g
           old == {r \in members[g] : status[r] \in Live}
           fresh == CASE tx[t].op = "add" -> old \cup tx[t].fresh
                      [] tx[t].op = "remove" -> old \ tx[t].fresh
                      [] OTHER -> tx[t].fresh
       IN  IF names[g] = None
           THEN excl[<<"group", g>>] \in {None, t} /\ Abort(t)
           ELSE /\ TakeExcl(t, {<<"group", g>>})
                /\ tx' = [tx EXCEPT ![t].old = old, ![t].fresh = fresh, ![t].todo = members[g],
                                    ![t].n = IF @ = None /\ tx[t].op # "delete_group" THEN names[g] ELSE @,
                                    ![t].pc = IF tx[t].op = "delete_group" THEN "clear_members" ELSE "name"]
                /\ UNCHANGED <<tables, share, started, client>>

\* UpdateScimGroup deletes the member rows, and DeleteScimGroup's cascade does:
\* each is locked until the commit; one that a user deletion has deleted while
\* this one waited is gone.
ClearMembers(t) ==
    /\ tx[t].pc = "clear_members"
    /\ IF tx[t].todo = {}
       THEN /\ tx' = [tx EXCEPT ![t].pc = IF tx[t].op = "delete_group" THEN "users" ELSE "check_members",
                                ![t].todo = tx[t].old]
            /\ UNCHANGED lockVars
       ELSE LET r == Min(tx[t].todo) IN
            /\ tx' = [tx EXCEPT ![t].todo = @ \ {r}]
            /\ IF r \in members[tx[t].g]
               THEN TakeExcl(t, {<<"member", <<tx[t].g, r>>>>}) /\ UNCHANGED share
               ELSE UNCHANGED lockVars
    /\ UNCHANGED <<tables, started, client>>

CheckMembersFreshOnlyBug(t) ==
    /\ tx[t].pc = "check_members"
    /\ IF \E r \in tx[t].fresh : status[r] \notin Live
       THEN Abort(t)
       ELSE /\ tx' = [tx EXCEPT ![t].pc = "insert_members", ![t].todo = tx[t].fresh]
            /\ UNCHANGED <<tables, lockVars, started, client>>

\* insertScimGroupMembers selects the members among the live rows ...
CheckMembers(t) ==
    /\ tx[t].pc = "check_members"
    /\ IF \E r \in tx[t].fresh : status[r] \notin Live
       THEN Abort(t)
       ELSE /\ tx' = [tx EXCEPT ![t].pc = "insert_members", ![t].todo = tx[t].old \cup tx[t].fresh]
            /\ UNCHANGED <<tables, lockVars, started, client>>

\* ... and the foreign key locks the rows it references FOR KEY SHARE.
InsertMembers(t) ==
    /\ tx[t].pc = "insert_members"
    /\ \A r \in tx[t].fresh : ShareBlockers(t, r) = {}
    /\ share' = [r \in Row |-> IF r \in tx[t].fresh THEN share[r] \cup {t} ELSE share[r]]
    /\ Step(t, "users")
    /\ UNCHANGED <<tables, excl, started, client>>

\* GetScimUsersByIds locks the live rows one after the other, in id order; a
\* row that was deleted while it waited drops out.
LockUsers(t) ==
    /\ tx[t].pc = "users"
    /\ IF tx[t].todo = {}
       THEN Step(t, "reconcile") /\ UNCHANGED lockVars
       ELSE LET r == Min(tx[t].todo) IN
            /\ tx' = [tx EXCEPT ![t].todo = @ \ {r}]
            /\ IF status[r] \in Live
               THEN TakeExcl(t, {<<"user", r>>}) /\ UNCHANGED share
               ELSE UNCHANGED lockVars
    /\ UNCHANGED <<tables, started, client>>

\* reconcileScimUsersById: inactive rows are skipped.
Reconcile(t) ==
    /\ tx[t].pc = "reconcile"
    /\ LET rows == {r \in Row : excl[<<"user", r>>] = t /\ status[r] = "active"}
       IN  tx' = [tx EXCEPT ![t].pc = "commit",
                            ![t].plan = [r \in Row |-> IF r \in rows THEN PlanFor(r, t) ELSE NoPlan[r]]]
    /\ UNCHANGED <<tables, lockVars, started, client>>

\* A row tombstoned while its insert into the group waited is no member.
CommitGroup(t) ==
    /\ tx[t].pc = "commit"
    /\ tx[t].g # None
    /\ names' = NamesIn(t)
    /\ members' = [members EXCEPT ![tx[t].g] = {r \in tx[t].fresh : status[r] \in Live}]
    /\ grant' = ApplyPlan(tx[t].plan)
    /\ Finish(t)
    /\ UNCHANGED <<status, version, mapping, started, client>>

-----------------------------------------------------------------------------
(* Mapping requests.                                                       *)

\* LockScimGroupByDisplayName finds the group of that name ...
FindGroupByName(t) ==
    /\ tx[t].pc = "by_name"
    /\ tx' = [tx EXCEPT ![t].pc = "lock_by_name", ![t].todo = {g \in Group : names[g] = tx[t].n}]
    /\ UNCHANGED <<tables, lockVars, started, client>>

\* ... and locks it, unless it lost the name while the request waited.  Not
\* found is no error: then nothing is locked.
LockGroupByName(t) ==
    /\ tx[t].pc = "lock_by_name"
    /\ \A g \in tx[t].todo : ExclBlockers(t, <<"group", g>>) = {}
    /\ TakeExcl(t, {<<"group", g>> : g \in {h \in tx[t].todo : names[h] = tx[t].n}})
    /\ tx' = [tx EXCEPT ![t].pc = "write_mapping", ![t].todo = {}]
    /\ UNCHANGED <<tables, share, started, client>>

\* The mapping row is written and the members of the group are listed.
WriteMapping(t) ==
    /\ tx[t].pc = "write_mapping"
    /\ IF tx[t].role = None /\ mapping[tx[t].n] = None
       THEN excl[<<"mapping", tx[t].n>>] \in {None, t} /\ Abort(t)
       ELSE /\ TakeExcl(t, {<<"mapping", tx[t].n>>})
            /\ tx' = [tx EXCEPT ![t].pc = "users",
                                ![t].todo = {r \in Row : status[r] \in Live /\
                                    \E g \in Group : names[g] = tx[t].n /\ r \in members[g]}]
            /\ UNCHANGED <<tables, share, started, client>>

CommitMapping(t) ==
    /\ tx[t].pc = "commit"
    /\ tx[t].op = "mapping"
    /\ mapping' = MappingIn(t)
    /\ grant' = ApplyPlan(tx[t].plan)
    /\ Finish(t)
    /\ UNCHANGED <<status, version, names, members, started, client>>

-----------------------------------------------------------------------------
(* User requests.                                                          *)

\* The unique index on live rows of one user refuses a second one.
InsertUser(t) ==
    /\ tx[t].pc = "insert"
    /\ LET twin == {r \in Row : Owner[r] = Owner[tx[t].r]} IN
       IF \E r \in twin : status[r] \in Live
       THEN Abort(t)
       ELSE /\ \A s \in Tx \ {t} : ~(tx[s].op = "provision" /\ tx[s].pc # "insert" /\ tx[s].r \in twin)
            /\ tx' = [tx EXCEPT ![t].pc = IF tx[t].active THEN "reconcile_user" ELSE "commit"]
            /\ UNCHANGED <<tables, lockVars, started, client>>

\* LockScimUser: gone is not found, another updated_at is a conflict.  Then
\* reactivation reconciles, deletion leaves the groups the row is in by then;
\* deactivation and deletion strip at commit.
LockScimUser(t) ==
    /\ tx[t].pc = "lock_user"
    /\ ExclBlockers(t, <<"user", tx[t].r>>) = {}
    /\ IF status[tx[t].r] \notin Live \/ version[tx[t].r] # tx[t].seen
       THEN Abort(t)
       ELSE /\ TakeExcl(t, {<<"user", tx[t].r>>})
            /\ tx' = [tx EXCEPT ![t].pc = CASE tx[t].op = "delete_user" -> "leave_groups"
                                           [] tx[t].op = "update_user" /\ ~tx[t].was /\ tx[t].active -> "reconcile_user"
                                           [] OTHER -> "commit",
                                ![t].todo = {g \in Group : tx[t].op = "delete_user" /\ tx[t].r \in members[g]}]
            /\ UNCHANGED <<tables, share, started, client>>

\* reconcileScimUserRoles reads what the row should hold.
ReconcileUser(t) ==
    /\ tx[t].pc = "reconcile_user"
    /\ tx' = [tx EXCEPT ![t].pc = "create_memberships", ![t].plan[tx[t].r] = PlanFor(tx[t].r, t)]
    /\ UNCHANGED <<tables, lockVars, started, client>>

\* CreateMembership is a plain INSERT: an existing membership is a unique
\* violation, which aborts the Postgres transaction.  The caller goes on, but
\* its next statement fails and the request is rolled back.
CreateMemberships(t) ==
    /\ tx[t].pc = "create_memberships"
    /\ IF \E role \in tx[t].plan[tx[t].r].add : grant[Owner[tx[t].r]][role] # None
       THEN Abort(t)
       ELSE Step(t, "commit") /\ UNCHANGED <<tables, lockVars, started, client>>

Strip(r) == [grant EXCEPT ![Owner[r]] = [role \in Role |-> None]]

CommitProvision(t) ==
    /\ tx[t].pc = "commit"
    /\ tx[t].op = "provision"
    /\ status' = [status EXCEPT ![tx[t].r] = IF tx[t].active THEN "active" ELSE "inactive"]
    /\ grant' = ApplyPlan(tx[t].plan)
    /\ Finish(t)
    /\ UNCHANGED <<version, names, members, mapping, started, client>>

\* removeOrgMembershipsAndMaybeSessions takes every membership away, human-made
\* ones too; any other update leaves or reconciles them.
CommitUpdateUser(t) ==
    /\ tx[t].pc = "commit"
    /\ tx[t].op = "update_user"
    /\ LET r == tx[t].r IN
       /\ status' = [status EXCEPT ![r] = IF tx[t].active THEN "active" ELSE "inactive"]
       /\ version' = [version EXCEPT ![r] = @ + 1]
       /\ grant' = IF tx[t].was /\ ~tx[t].active THEN Strip(r) ELSE ApplyPlan(tx[t].plan)
    /\ Finish(t)
    /\ UNCHANGED <<names, members, mapping, started, client>>

\* LockScimGroupsForUser finds the groups the row is in ...
FindGroups(t) ==
    /\ tx[t].pc = "find_groups"
    /\ LET found == {g \in Group : tx[t].r \in members[g]}
       IN  tx' = [tx EXCEPT ![t].pc = "lock_groups", ![t].found = found, ![t].todo = found]
    /\ UNCHANGED <<tables, lockVars, started, client>>

LockScimGroupsForUserSkippedBug(t) ==
    /\ tx[t].pc = "lock_groups"
    /\ Step(t, "lock_user")
    /\ UNCHANGED <<tables, lockVars, started, client>>

\* ... and locks them in id order, but for one that is gone when its turn comes.
LockScimGroupsForUser(t) ==
    /\ tx[t].pc = "lock_groups"
    /\ IF tx[t].todo = {}
       THEN Step(t, "lock_user") /\ UNCHANGED lockVars
       ELSE LET g == Min(tx[t].todo) IN
            /\ ExclBlockers(t, <<"group", g>>) = {}
            /\ TakeExcl(t, IF names[g] = None THEN {} ELSE {<<"group", g>>})
            /\ tx' = [tx EXCEPT ![t].todo = @ \ {g}, ![t].found = IF names[g] = None THEN @ \ {g} ELSE @]
            /\ UNCHANGED share
    /\ UNCHANGED <<tables, started, client>>

\* TombstoneScimUser deletes the member rows of the user and so locks them; one
\* that a group request has cleared while this one waited is gone.
LeaveGroups(t) ==
    /\ tx[t].pc = "leave_groups"
    /\ IF tx[t].todo = {}
       THEN Step(t, "commit") /\ UNCHANGED lockVars
       ELSE LET g == Min(tx[t].todo) IN
            /\ tx' = [tx EXCEPT ![t].todo = @ \ {g}]
            /\ IF tx[t].r \in members[g]
               THEN TakeExcl(t, {<<"member", <<g, tx[t].r>>>>}) /\ UNCHANGED share
               ELSE UNCHANGED lockVars
    /\ UNCHANGED <<tables, started, client>>

\* Strip, tombstone and leave every group.
CommitDeleteUser(t) ==
    /\ tx[t].pc = "commit"
    /\ tx[t].op = "delete_user"
    /\ LET r == tx[t].r IN
       /\ status' = [status EXCEPT ![r] = "deleted"]
       /\ version' = [version EXCEPT ![r] = @ + 1]
       /\ members' = [g \in Group |-> members[g] \ {r}]
       /\ grant' = Strip(r)
    /\ Finish(t)
    /\ UNCHANGED <<names, mapping, started, client>>

-----------------------------------------------------------------------------
(* Memberships API, one statement each, no SCIM lock.                      *)

\* The unique index makes the insert wait for a membership that a provisioning
\* or reactivation has inserted and not yet committed.
GrantMembership(u, role) ==
    /\ "grant" \in client.ops
    /\ grant[u][role] = None
    /\ ~ \E t \in Tx : /\ tx[t].pc = "commit" /\ tx[t].op \in {"provision", "update_user"}
                        /\ Owner[tx[t].r] = u /\ role \in tx[t].plan[tx[t].r].add
    /\ grant' = [grant EXCEPT ![u][role] = Human]
    /\ UNCHANGED <<status, version, names, members, mapping, lockVars, tx, started, client>>

RevokeMembership(u, role) ==
    /\ "revoke" \in client.ops
    /\ grant[u][role] # None
    /\ grant' = [grant EXCEPT ![u][role] = None]
    /\ UNCHANGED <<status, version, names, members, mapping, lockVars, tx, started, client>>

-----------------------------------------------------------------------------
(* Postgres' deadlock detector.                                            *)

Blockers(t) ==
    LET T == tx[t] IN
    CASE T.pc = "group" -> ExclBlockers(t, <<"group", T.g>>)
      [] T.pc = "lock_groups" /\ T.todo # {} -> ExclBlockers(t, <<"group", Min(T.todo)>>)
      [] T.pc = "lock_by_name" -> UNION {ExclBlockers(t, <<"group", g>>) : g \in T.todo}
      [] T.pc = "name" -> ExclBlockers(t, <<"name", T.n>>)
      [] T.pc = "write_mapping" -> ExclBlockers(t, <<"mapping", T.n>>)
      [] T.pc = "clear_members" /\ T.todo # {} /\ Min(T.todo) \in members[T.g] ->
           ExclBlockers(t, <<"member", <<T.g, Min(T.todo)>>>>)
      [] T.pc = "leave_groups" /\ T.todo # {} /\ T.r \in members[Min(T.todo)] ->
           ExclBlockers(t, <<"member", <<Min(T.todo), T.r>>>>)
      [] T.pc = "insert_members" -> UNION {ShareBlockers(t, r) : r \in T.fresh}
      [] T.pc = "users" /\ T.todo # {} /\ status[Min(T.todo)] \in Live ->
           ExclBlockers(t, <<"user", Min(T.todo)>>)
      [] T.pc = "lock_user" -> ExclBlockers(t, <<"user", T.r>>)
      [] OTHER -> {}

\* Everyone in S waits for somebody in S.
Stuck(S) == S # {} /\ \A s \in S : Blockers(s) \cap S # {}

\* They wait for each other in a circle: nobody merely waits for the others.
WaitCycle(S) == Stuck(S) /\ \A smaller \in SUBSET S : Stuck(smaller) => smaller = S

\* A victim's transaction is aborted; no handler tries again.
DeadlockVictim(t) ==
    /\ \E S \in SUBSET Tx : t \in S /\ WaitCycle(S)
    /\ Abort(t)

-----------------------------------------------------------------------------

TxStep(t) ==
    \/ ClaimName(t) \/ LockScimGroup(t) \/ ClearMembers(t) \/ CheckMembers(t) \/ InsertMembers(t)
    \/ LockUsers(t) \/ Reconcile(t) \/ CommitGroup(t)
    \/ FindGroupByName(t) \/ LockGroupByName(t) \/ WriteMapping(t) \/ CommitMapping(t)
    \/ InsertUser(t) \/ LockScimUser(t) \/ ReconcileUser(t) \/ CreateMemberships(t)
    \/ CommitProvision(t) \/ CommitUpdateUser(t)
    \/ FindGroups(t) \/ LockScimGroupsForUser(t) \/ LeaveGroups(t) \/ CommitDeleteUser(t)
    \/ DeadlockVictim(t)

Request(t) ==
    \/ \E g \in client.groups, n \in client.names, ms \in SUBSET Row : BeginCreateGroup(t, g, n, ms)
    \/ \E g \in client.groups, n \in client.names \cup {None}, kind \in {"add", "remove", "replace"}, ms \in SUBSET Row :
           BeginPatchGroup(t, g, n, kind, ms)
    \/ \E g \in client.groups : BeginDeleteGroup(t, g)
    \/ \E n \in client.names, role \in Role \cup {None} : BeginMapping(t, n, role)
    \/ \E r \in Row, active \in BOOLEAN :
           BeginProvision(t, r, active) \/ BeginUpdateUser(t, r, active)
    \/ \E r \in Row : BeginDeleteUser(t, r)

Next ==
    \/ \E t \in Tx : TxStep(t) \/ Request(t)
    \/ \E u \in User, role \in Role : GrantMembership(u, role) \/ RevokeMembership(u, role)

Spec == Init /\ [][Next]_vars

-----------------------------------------------------------------------------
(* Properties.                                                             *)

\* The variables keep their types.
TypeOK ==
    /\ status \in [Row -> Live \cup {"none", "deleted"}]
    /\ version \in [Row -> 0..client.limit]
    /\ names \in [Group -> Name \cup {None}]
    /\ members \in [Group -> SUBSET Row]
    /\ mapping \in [Name -> Role \cup {None}]
    /\ grant \in [User -> [Role -> Row \cup {None, Human}]]
    /\ excl \in [Resource -> Tx \cup {None}]
    /\ share \in [Row -> SUBSET Tx]
    /\ started \in 0..client.limit
    /\ client \in Clients

\* No transaction is in flight.
Quiet == \A t \in Tx : tx[t] = Idle

\* A deactivated or deleted user holds no role that SCIM manages: a group
\* change or a mapping change that runs at the same time cannot give back what
\* deprovisioning took ("deactivation serializes with group role
\* reconciliation").
DeprovisionedStaysOut ==
    \A r \in Row : status[r] # "active" => Managed(r) = {}

\* Once nothing is in flight, the roles SCIM manages for an active user are the
\* ones its groups map to, and Viewer at most when none does; every mapped role
\* is held, and an active user holds at least one role.  Deadlock victims do not
\* disturb this.  It is said of clients that neither create or rename groups
\* (which may race a mapping of that name) nor change memberships by hand.
ReconciledWhenQuiet ==
    Quiet /\ client.ops \cap {"create", "rename", "grant", "revoke"} = {} => \A r \in Row : status[r] = "active" =>
        LET mapped == MappedRoles(r, names, members, mapping)
            held == Managed(r) \cup Manual(r)
        IN  /\ Managed(r) \subseteq (IF mapped = {} THEN {Viewer} ELSE mapped)
            /\ mapped \subseteq held
            /\ held # {}

\* Reconciliation never takes or adopts a role that a human granted: only
\* deprovisioning and the memberships API do.
HumanGrantsSurvive ==
    [][\A u \in User, role \in Role :
          grant[u][role] = Human /\ grant'[u][role] # Human =>
              \/ "revoke" \in client.ops /\ tx' = tx
              \/ \E r \in Row : Owner[r] = u /\ status[r] \in Live /\ status'[r] # "active"]_vars

\* A PATCH that adds or removes members changes nothing else: it never undoes
\* what another request committed after it read the member set
\* (handleScimPatchGroup reads it behind LockScimGroup).
NoLostMemberUpdate ==
    [][\A t \in Tx : tx[t].pc = "commit" /\ tx[t].op \in {"add", "remove"} /\ tx'[t] = Idle =>
          LET g == tx[t].g IN
          \A r \in Row : status[r] \in Live /\ (r \in members[g]) # (r \in members'[g]) =>
              (r \in tx[t].fresh) # (r \in tx[t].old)]_vars

\* Deleting a user locks the groups it is in before the user row, the order in
\* which group and mapping requests lock (LockScimGroupsForUser: "Without it,
\* deleting scim_group_members while another transaction holds the group and
\* waits for the user can deadlock").  So a delete waits in a cycle only when it
\* leaves a group that the user joined after the groups were found.
DeleteDeadlocksOnlyByJoin ==
    \A S \in SUBSET Tx : WaitCycle(S) =>
        \A t \in S : tx[t].op = "delete_user" =>
            tx[t].pc = "leave_groups" /\ Min(tx[t].todo) \notin tx[t].found

\* Types, no provisioned role for a user who is not active (Reconcile), and no
\* user deletion (handleScimDeleteUser) in a cycle of waiting transactions but
\* for a group joined meanwhile.
ScimInv == TypeOK /\ DeprovisionedStaysOut /\ DeleteDeadlocksOnlyByJoin
=============================================================================
