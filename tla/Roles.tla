-------------------------------- MODULE Roles --------------------------------
(***************************************************************************)
(* Roles, plugin capabilities and the decisions made from them             *)
(* (internal/api/roles.go, permissions.go, authorize.go, auth.go,          *)
(* plugin_capabilities.go, internal/plugincapabilities, internal/model)    *)
(* for one organisation and one instance.  A handler is a short program:   *)
(* it reads, then writes, then reloads the policy, and another handler may *)
(* run between any two of these statements.  The reload itself is one step *)
(* here, taken when no check holds the read lock; PolicyReload has its     *)
(* parts.  One plugin owns one capability, Plugin.                         *)
(***************************************************************************)
EXTENDS Permissions, Naturals, Sequences, SequencesExt

CONSTANTS Proc,         \* concurrent requests
          Subject,      \* principals, naturals in the order of their ids
          ServiceUser,  \* those of them that are service users
          Holder,       \* principals configured to hold platform permissions
          Workload,     \* service users bound to a plugin workload
          MaxRole,      \* bound on the role ids ever created
          MaxBinding,   \* bound on role bindings
          MaxOps,       \* bound on requests
          PerPage       \* page size of the user listing

ASSUME RolesAssumption ==
    /\ Subject \subseteq Nat \ {0} /\ IsFiniteSet(Subject) /\ ServiceUser \subseteq Subject
    /\ Holder \subseteq Subject /\ Workload \subseteq ServiceUser
    /\ MaxRole \in Nat /\ MaxBinding \in Nat /\ MaxOps \in Nat /\ PerPage \in Nat \ {0}

VARIABLES
    roles,       \* rows of roles: [id, name, perms, key]
    lastRole,    \* the newest role id
    bindings,    \* rows of memberships and service_user_roles: [sub, role, scope]
    registered,  \* rows of authorization_resources
    caps,        \* scopes for which Plugin is registered, {} when it is not
    live,        \* principals whose identity row is active
    policy,      \* the instance's snapshot: [grants, tree]
    known,       \* its cache of known custom permissions
    op,          \* the requests under way
    left,        \* requests still to come
    walk,        \* a client paging through the users of a resource
    gone,        \* subjects whose last binding was removed by a returned request
    unregistered,\* scopes Plugin lost in a returned request
    steady       \* subjects effective on the walked resource since the walk began

vars == <<roles, lastRole, bindings, registered, caps, live, policy, known, op,
          left, walk, gone, unregistered, steady>>

Plugin == "plugin.p.act"
Scopes == {"organization", "project", "environment"}
NoOp == [kind |-> "none", pc |-> "idle"]
NoWalk == [pc |-> "idle", reader |-> 0, resource |-> Org, filter |-> Subject, cursor |-> 0, seen |-> <<>>]

RoleNames == {"Admin", "Deployer", "Viewer", "Ops"}
RoleBodies == {{"manage_all"}, {"membership_read"}, {Plugin}}
RoleWrites == [name : {"Ops"}, perms : RoleBodies] \cup [name : {"Admin"}, perms : {{"manage_all"}}]

IsServiceUser(id) == id \in ServiceUser
IsHumanUser(id) == id \in Subject \ ServiceUser

(* The scope vocabulary of capabilities says environment where resources   *)
(* say env.                                                                *)
ScopeOf(resource) ==
    IF ParseResource(resource) = "env" THEN "environment" ELSE ParseResource(resource)

-----------------------------------------------------------------------------
(* The store.                                                              *)

GetRole(id) == {r \in roles : r.id = id}

ListPluginCapabilities == IF caps = {} THEN {} ELSE {Plugin}

(* One grant per binding and permission of its role.                       *)
ListAuthorizationPolicies ==
    UNION {{[sub |-> b.sub, scope |-> b.scope, perm |-> p] :
              p \in UNION {r.perms : r \in GetRole(b.role)}} : b \in bindings}

(* The parent_resource column; the organisation's is NULL.                 *)
parent_resource(resource) ==
    CASE resource = Env -> Project [] resource = Project -> Org [] OTHER -> "null"

ListAuthorizationResourceRelations ==
    {[resource |-> r, parent |-> parent_resource(r)] : r \in registered \ {Org}}

(* Custom permissions known on a registered resource: a plugin permission  *)
(* registered for its type, any other held by some role.                   *)
ListKnownAuthorizationPermissions(resource, permission) ==
    /\ resource \in registered
    /\ IF permission = Plugin THEN ScopeOf(resource) \in caps
       ELSE \E r \in roles : permission \in r.perms

(* The join of the recursive query: the recorded parents of some rows.     *)
Parents(rows) == {parent_resource(r) : r \in rows} \cap registered

(* Mutant: the walk stops after the parent.                                *)
effective_scopesShallowBug(resource) ==
    LET depth0 == registered \cap {resource} IN
    depth0 \cup Parents(depth0) \cup {resource}

(* The resource itself, recorded or not, and the rows the recursive query  *)
(* finds above it, up to maxAuthorizationResourceDepth.                    *)
effective_scopes(resource) ==
    LET depth0 == registered \cap {resource}
        depth1 == Parents(depth0)
        depth2 == Parents(depth1)
        depth3 == Parents(depth2) IN
    depth0 \cup depth1 \cup depth2 \cup depth3 \cup {resource}

ListEffectiveRoleBindings(resource) ==
    LET scopes == effective_scopes(resource) IN {b \in bindings : b.scope \in scopes}

IsAuthorizationSubjectActive(s) == s \in live

IsOrganizationAdmin(s) ==
    /\ IsHumanUser(s)
    /\ IsAuthorizationSubjectActive(s)
    /\ \E b \in bindings : /\ b.sub = s /\ b.scope = Org
                           /\ \E r \in GetRole(b.role) : r.key = "admin"

-----------------------------------------------------------------------------
(* The instance's decisions.                                               *)

LoadPolicy == [grants |-> ListAuthorizationPolicies, tree |-> ListAuthorizationResourceRelations]

(* Casbin's role manager over the g2 lines: what is reached from resource  *)
(* in any number of steps, itself included, is in every set that holds     *)
(* resource and the parent of each of its members.                         *)
g2(tree, resource) ==
    LET closed == {S \in SUBSET Resources :
                     resource \in S /\ \A e \in tree : e.resource \in S => e.parent \in S} IN
    {x \in Resources : \A S \in closed : x \in S}

(* The Casbin matcher over the snapshot: the permissions s holds on the    *)
(* resource or above it, and whether one satisfies what is asked.          *)
Granted(s, resource) ==
    LET scopes == g2(policy.tree, resource) IN
    {g.perm : g \in {h \in policy.grants : h.sub = s /\ h.scope \in scopes}}

Allows(granted, permission) == \E perm \in granted : permissionMatch(permission, perm)

Enforce(s, resource, permission) == Allows(Granted(s, resource), permission)

Reading == {c \in Proc : op[c].kind = "check" /\ op[c].pc \in {"looked", "loaded"}}

(* ReloadPolicy: the write lock waits for readers; the snapshot is         *)
(* replaced and the caches are emptied.                                    *)
ReloadPolicy ==
    /\ Reading = {}
    /\ policy' = LoadPolicy
    /\ known' = {}

holdsPlatformPermission(s) ==
    s \in Holder /\ IsAuthorizationSubjectActive(s) /\ s \notin Workload

-----------------------------------------------------------------------------
(* Requests.                                                               *)

Become(c, o) == op' = [op EXCEPT ![c] = o]
To(c, pc) == op' = [op EXCEPT ![c].pc = pc]

(* A commit that grants something: checks under way may see it.            *)
Granting(ops) ==
    [c \in Proc |-> IF ops[c].kind = "check" THEN [ops[c] EXCEPT !.clean = FALSE] ELSE ops[c]]

Rest == UNCHANGED <<walk, live>>
Store == UNCHANGED <<roles, lastRole, bindings, registered, caps>>
Cache == UNCHANGED <<policy, known>>
Ghosts == UNCHANGED <<gone, unregistered>>

(* A request arrives.                                                      *)
Begin(c, o) ==
    /\ op[c] = NoOp /\ left > 0
    /\ left' = left - 1
    /\ Become(c, o)
    /\ Store /\ Cache /\ Ghosts /\ Rest

(* A request is answered, with a result or an error.                       *)
Answer(c) ==
    /\ op[c].pc \in {"failed", "done"}
    /\ Become(c, NoOp)
    /\ Store /\ Cache /\ Ghosts /\ Rest /\ UNCHANGED left

(* ListRoles, first statement: read the roles of the organisation.         *)
ListRoles(c) ==
    /\ op[c].kind = "list" /\ op[c].pc = "begin"
    /\ To(c, IF roles = {} THEN "seed" ELSE "done")
    /\ Store /\ Cache /\ Ghosts /\ Rest /\ UNCHANGED left

Builtin ==
    {[id |-> 1, name |-> "Admin", perms |-> {"manage_all"}, key |-> "admin"],
     [id |-> 2, name |-> "Deployer", perms |-> {"write_all"}, key |-> "deployer"],
     [id |-> 3, name |-> "Viewer", perms |-> {"read_all"}, key |-> "viewer"]}

NameTaken(name, id) == \E r \in roles : r.name = name /\ r.id # id

(* One INSERT of the three roles and the upsert of the organisation's      *)
(* resource, in one transaction: a name that is taken by now fails it.     *)
SeedBuiltinOrgRoles(c) ==
    /\ op[c].kind = "list" /\ op[c].pc = "seed"
    /\ IF \E b \in Builtin : NameTaken(b.name, 0)
       THEN UNCHANGED <<roles, registered>> /\ To(c, "failed")
       ELSE /\ roles' = roles \cup Builtin
            /\ registered' = registered \cup {Org}
            /\ To(c, "done")
    /\ UNCHANGED <<lastRole, bindings, caps, left>>
    /\ Cache /\ Ghosts /\ Rest

(* The body is checked against the capabilities registered at this moment. *)
validateRoleWrite(name, permissions) ==
    /\ name \notin {"Admin", "Deployer", "Viewer"}
    /\ permissions # {}
    /\ \A p \in permissions : IsAssignableRolePermission(p) \/ p \in ListPluginCapabilities

ValidateCreate(c) ==
    /\ op[c].kind = "create" /\ op[c].pc = "begin"
    /\ To(c, IF validateRoleWrite(op[c].name, op[c].perms) THEN "write" ELSE "failed")
    /\ Store /\ Cache /\ Ghosts /\ Rest /\ UNCHANGED left

(* One INSERT; the unique constraint on the display name decides.          *)
CreateRole(c) ==
    /\ op[c].kind = "create" /\ op[c].pc = "write"
    /\ IF NameTaken(op[c].name, 0)
       THEN UNCHANGED <<roles, lastRole>> /\ To(c, "failed")
       ELSE /\ lastRole < MaxRole
            /\ lastRole' = lastRole + 1
            /\ roles' = roles \cup {[id |-> lastRole', name |-> op[c].name,
                                     perms |-> op[c].perms, key |-> "none"]}
            /\ To(c, "reload")
    /\ UNCHANGED <<bindings, registered, caps, left>>
    /\ Cache /\ Ghosts /\ Rest

(* UpdateRole, DeleteRole and the membership endpoints first read the      *)
(* role: a missing one is a 404, a built-in one cannot be changed.         *)
ReadRole(c) ==
    /\ op[c].kind \in {"update", "delete", "grant"} /\ op[c].pc = "begin"
    /\ LET found == GetRole(op[c].id)
           frozen == op[c].kind # "grant" /\ \E r \in found : r.key # "none" IN
       To(c, IF found = {} \/ frozen THEN "failed"
             ELSE IF op[c].kind = "update" THEN "validate" ELSE "write")
    /\ Store /\ Cache /\ Ghosts /\ Rest /\ UNCHANGED left

ValidateUpdate(c) ==
    /\ op[c].kind = "update" /\ op[c].pc = "validate"
    /\ To(c, IF validateRoleWrite(op[c].name, op[c].perms) THEN "write" ELSE "failed")
    /\ Store /\ Cache /\ Ghosts /\ Rest /\ UNCHANGED left

UpdateRole(c) ==
    /\ op[c].kind = "update" /\ op[c].pc = "write"
    /\ LET found == GetRole(op[c].id) IN
       IF found = {} \/ NameTaken(op[c].name, op[c].id)
       THEN UNCHANGED <<roles>> /\ To(c, "failed")
       ELSE /\ roles' = (roles \ found) \cup
                   {[r EXCEPT !.name = op[c].name, !.perms = op[c].perms] : r \in found}
            /\ op' = [Granting(op) EXCEPT ![c].pc = "reload"]
    /\ UNCHANGED <<lastRole, bindings, registered, caps, left>>
    /\ Cache /\ Ghosts /\ Rest

(* Mutant: the foreign keys do not stop the deletion.                      *)
DeleteRoleAssignedBug(c) ==
    /\ op[c].kind = "delete" /\ op[c].pc = "write"
    /\ IF GetRole(op[c].id) = {}
       THEN UNCHANGED <<roles>> /\ To(c, "failed")
       ELSE roles' = roles \ GetRole(op[c].id) /\ To(c, "reload")
    /\ UNCHANGED <<lastRole, bindings, registered, caps, left>>
    /\ Cache /\ Ghosts /\ Rest

(* The foreign keys of memberships and service_user_roles refuse to orphan *)
(* a binding.                                                              *)
DeleteRole(c) ==
    /\ op[c].kind = "delete" /\ op[c].pc = "write"
    /\ IF GetRole(op[c].id) = {} \/ \E b \in bindings : b.role = op[c].id
       THEN UNCHANGED <<roles>> /\ To(c, "failed")
       ELSE roles' = roles \ GetRole(op[c].id) /\ To(c, "reload")
    /\ UNCHANGED <<lastRole, bindings, registered, caps, left>>
    /\ Cache /\ Ghosts /\ Rest

(* A membership or service user role is inserted, if its role still        *)
(* exists.                                                                 *)
GrantRole(c) ==
    /\ op[c].kind = "grant" /\ op[c].pc = "write" /\ Cardinality(bindings) < MaxBinding
    /\ IF GetRole(op[c].id) = {}
       THEN UNCHANGED <<bindings, gone>> /\ To(c, "failed")
       ELSE /\ bindings' = bindings \cup {[sub |-> op[c].sub, role |-> op[c].id, scope |-> op[c].scope]}
            /\ gone' = gone \ {op[c].sub}
            /\ op' = [Granting(op) EXCEPT ![c].pc = "reload"]
    /\ UNCHANGED <<roles, lastRole, registered, caps, left, unregistered>>
    /\ Cache /\ Rest

(* One membership is deleted, or every role of a subject in one            *)
(* transaction: an empty replacement, a deleted service user.  (That the   *)
(* only Admin membership stays is in Memberships.)                         *)
RevokeRoles(c) ==
    /\ op[c].kind = "revoke" /\ op[c].pc = "begin"
    /\ LET held == {b \in bindings : b.sub = op[c].sub} IN
       \E removed \in {held} \cup {{b} : b \in held} : bindings' = bindings \ removed
    /\ To(c, "reload")
    /\ UNCHANGED <<roles, lastRole, registered, caps, left>>
    /\ Cache /\ Ghosts /\ Rest

(* ReplacePluginCapabilities: the plugin's rows are deleted and inserted   *)
(* anew in one transaction.                                                *)
ReplacePluginCapabilities(c) ==
    /\ op[c].kind = "replace" /\ op[c].pc = "begin"
    /\ caps' = op[c].scopes
    /\ unregistered' = unregistered \ op[c].scopes
    /\ op' = [Granting(op) EXCEPT ![c].pc = "reload"]
    /\ UNCHANGED <<roles, lastRole, bindings, registered, left, gone>>
    /\ Cache /\ Rest

(* Mutant: the answer does not wait for the reload.                        *)
ReloadAfterWriteSkippedBug(c) ==
    /\ op[c].pc = "reload"
    /\ To(c, "done")
    /\ gone' = IF op[c].kind # "revoke" \/ \E b \in bindings : b.sub = op[c].sub
               THEN gone ELSE gone \cup {op[c].sub}
    /\ unregistered' = IF op[c].kind = "replace" THEN Scopes \ caps ELSE unregistered
    /\ Store /\ Rest /\ Cache /\ UNCHANGED left

(* Every write ends with a synchronous reload, after which it is answered: *)
(* from here on what it removed counts as taken away.                      *)
ReloadAfterWrite(c) ==
    /\ op[c].pc = "reload"
    /\ ReloadPolicy
    /\ To(c, "done")
    /\ gone' = IF op[c].kind # "revoke" \/ \E b \in bindings : b.sub = op[c].sub
               THEN gone ELSE gone \cup {op[c].sub}
    /\ unregistered' = IF op[c].kind = "replace" THEN Scopes \ caps ELSE unregistered
    /\ Store /\ Rest /\ UNCHANGED left

(* The load fails and leaves the old model with an empty cache, or the     *)
(* invalidation cannot be published after it: the committed write is       *)
(* answered with an error.                                                 *)
ReloadFails(c) ==
    /\ op[c].pc = "reload"
    /\ Reading = {}
    /\ policy' \in {policy, LoadPolicy} /\ known' = {}
    /\ To(c, "failed")
    /\ Store /\ Ghosts /\ Rest /\ UNCHANGED left

-----------------------------------------------------------------------------
(* Checks.                                                                 *)

Decided(c, verdict) == op' = [op EXCEPT ![c].pc = "done", ![c].allowed = verdict]

(* InternalAuthorizeInner before the authorizer is asked: an inactive      *)
(* subject, the platform and what is no resource are settled here; member  *)
(* is an old name of read.                                                 *)
InternalAuthorizeInner(c) ==
    /\ op[c].kind = "check" /\ op[c].pc = "begin" /\ ~op[c].public
    /\ CASE ~IsAuthorizationSubjectActive(op[c].sub) -> Decided(c, FALSE)
         [] IsAuthorizationSubjectActive(op[c].sub) /\ op[c].resource = PlatformResource ->
              Decided(c, holdsPlatformPermission(op[c].sub))
         [] IsAuthorizationSubjectActive(op[c].sub) /\ op[c].resource # PlatformResource ->
              IF ParseResource(op[c].resource) = Invalid THEN Decided(c, FALSE)
              ELSE op' = [op EXCEPT ![c].pc = "ask",
                                    ![c].perm = IF @ = "member" THEN "read" ELSE @]
    /\ Store /\ Cache /\ Ghosts /\ Rest /\ UNCHANGED left

(* The public CheckPermissions asks about the caller and leaves its        *)
(* liveness to the authentication before it.                               *)
CheckPermissions(c) ==
    /\ op[c].kind = "check" /\ op[c].pc = "begin" /\ op[c].public
    /\ CASE op[c].resource = PlatformResource -> Decided(c, holdsPlatformPermission(op[c].sub))
         [] op[c].resource # PlatformResource ->
              To(c, IF ParseResource(op[c].resource) = Invalid THEN "failed" ELSE "ask")
    /\ Store /\ Cache /\ Ghosts /\ Rest /\ UNCHANGED left

(* The cache holds one answer per resource and permission.                 *)
GetPermission(resource, permission) ==
    {k \in known : k.resource = resource /\ k.perm = permission}

SetPermission(resource, permission, yes) ==
    (known \ GetPermission(resource, permission)) \cup
        {[resource |-> resource, perm |-> permission, yes |-> yes]}

(* Authorize takes the read lock and looks a custom permission up in the   *)
(* cache of known ones.                                                    *)
Authorize(c) ==
    /\ op[c].kind = "check" /\ op[c].pc = "ask"
    /\ LET r == NormalizeResource(op[c].resource)
           cached == GetPermission(r, op[c].perm) IN
       op' = [op EXCEPT ![c].pc = IF isCustomPermission(op[c].perm) /\ cached = {} THEN "looked" ELSE "loaded",
                        ![c].resource = r,
                        ![c].valid = IF isCustomPermission(op[c].perm)
                                     THEN \E k \in cached : k.yes ELSE TRUE]
    /\ Store /\ Cache /\ Ghosts /\ Rest /\ UNCHANGED left

(* knownCustomPermissions: a miss is read from the database and cached.    *)
knownCustomPermissions(c) ==
    /\ op[c].kind = "check" /\ op[c].pc = "looked"
    /\ LET yes == ListKnownAuthorizationPermissions(op[c].resource, op[c].perm) IN
       /\ op' = [op EXCEPT ![c].pc = "loaded", ![c].valid = yes]
       /\ known' = SetPermission(op[c].resource, op[c].perm, yes)
    /\ Store /\ Ghosts /\ Rest /\ UNCHANGED <<left, policy>>

(* The enforcer decides a valid check; the read lock is released.  An      *)
(* invalid one is a 400 of the public endpoint and a failed check of the   *)
(* internal one.                                                           *)
Decide(c) ==
    /\ op[c].kind = "check" /\ op[c].pc = "loaded"
    /\ Decided(c, op[c].valid /\ Enforce(op[c].sub, op[c].resource, op[c].perm))
    /\ Store /\ Cache /\ Ghosts /\ Rest /\ UNCHANGED left

(* A cached answer expires.                                                *)
Expire ==
    /\ \E k \in known : known' = known \ {k}
    /\ Store /\ Ghosts /\ Rest /\ UNCHANGED <<left, policy, op>>

-----------------------------------------------------------------------------
(* Other writers of the same tables, one statement each.                   *)

(* A user is deleted or a service user deactivated; the bindings stay      *)
(* until they are removed in turn.                                         *)
Deactivate(c) ==
    /\ op[c].kind = "deactivate" /\ op[c].pc = "begin"
    /\ live' = live \ {op[c].sub}
    /\ To(c, "done")
    /\ Store /\ Cache /\ Ghosts /\ UNCHANGED <<left, walk>>

(* The event worker records a resource below its parent or removes it with *)
(* what hangs below it, then reloads (WorkerEvents has its steps).         *)
UpsertAuthorizationResource(c) ==
    /\ op[c].kind = "record" /\ op[c].pc = "begin"
    /\ IF Org \in registered
       THEN registered' = registered \cup {Project, op[c].resource} /\ To(c, "reload")
       ELSE UNCHANGED registered /\ To(c, "failed")
    /\ UNCHANGED <<roles, lastRole, bindings, caps, left>>
    /\ Cache /\ Ghosts /\ Rest

DeleteAuthorizationResource(c) ==
    /\ op[c].kind = "remove" /\ op[c].pc = "begin"
    /\ registered' = registered \ (IF op[c].resource = Project THEN {Project, Env} ELSE {Env})
    /\ To(c, "reload")
    /\ UNCHANGED <<roles, lastRole, bindings, caps, left>>
    /\ Cache /\ Ghosts /\ Rest

-----------------------------------------------------------------------------
(* Listing the users of a project or environment, page by page.            *)

(* The rank of a role: its strongest wildcard, else how much it holds.     *)
roleRank(r) ==
    CASE "manage_all" \in r.perms -> 300
      [] "manage_all" \notin r.perms /\ "write_all" \in r.perms -> 200
      [] r.perms \cap {"manage_all", "write_all"} = {} /\ "read_all" \in r.perms -> 100
      [] OTHER -> Cardinality(r.perms)

(* The role a subject is listed with: the highest rank, the smaller id     *)
(* among equals.                                                           *)
Selected(s, resource) ==
    LET held == UNION {GetRole(b.role) : b \in {b \in ListEffectiveRoleBindings(resource) : b.sub = s}} IN
    CHOOSE r \in held : \A o \in held : \/ roleRank(r) > roleRank(o)
                                        \/ roleRank(r) = roleRank(o) /\ r.id =< o.id

Effective(resource) == {b.sub : b \in ListEffectiveRoleBindings(resource)}

(* The members of a finite set of numbers, smallest first.                 *)
Ascending(S) ==
    CHOOSE f \in [1..Cardinality(S) -> S] : \A i, j \in DOMAIN f : i < j => f[i] < f[j]

(* Mutant: the page begins with the subject the cursor names.              *)
ItemsFromCursorBug(resource, filter, cursor) ==
    Ascending({s \in Effective(resource) \cap filter : s >= cursor})

(* The subjects after the cursor, in the order of their ids.               *)
Items(resource, filter, cursor) ==
    Ascending({s \in Effective(resource) \cap filter : s > cursor})

(* A client sets out to list the users of a project or an environment.     *)
StartWalk(reader, resource, filter) ==
    /\ walk.pc = "idle" /\ left > 0 /\ left' = left - 1
    /\ walk' = [NoWalk EXCEPT !.pc = "page", !.reader = reader, !.resource = resource, !.filter = filter]
    /\ Store /\ Cache /\ Ghosts /\ UNCHANGED <<op, live>>

(* ListProjectUsers or ListEnvironmentUsers answers 403: every page asks   *)
(* again whether the caller may read memberships.                          *)
ForbidPage ==
    /\ walk.pc = "page"
    /\ ~Enforce(walk.reader, walk.resource, "membership_read")
    /\ walk' = NoWalk
    /\ Store /\ Cache /\ Ghosts /\ UNCHANGED <<left, op, live>>

(* One page for a caller who may: the cursor of the next is its last item, *)
(* if items are left.  (Whether a change of the caller's own rights falls  *)
(* between the decision and the query shows in no page.)                   *)
listUsersWithPermissionsOnResource ==
    /\ walk.pc = "page"
    /\ Enforce(walk.reader, walk.resource, "membership_read")
    /\ LET items == Items(walk.resource, walk.filter, walk.cursor)
           page == SubSeq(items, 1, IF Len(items) < PerPage THEN Len(items) ELSE PerPage)
           listed == [i \in DOMAIN page |-> [id |-> page[i], role |-> Selected(page[i], walk.resource).id]] IN
       walk' = [walk EXCEPT !.seen = @ \o listed,
                            !.cursor = IF Len(items) > PerPage THEN page[PerPage] ELSE 0,
                            !.pc = IF Len(items) > PerPage THEN "page" ELSE "done"]
    /\ Store /\ Cache /\ Ghosts /\ UNCHANGED <<left, op, live>>

(* The client has followed the page tokens to the end.                     *)
EndWalk ==
    /\ walk.pc = "done"
    /\ walk' = NoWalk
    /\ Store /\ Cache /\ Ghosts /\ UNCHANGED <<left, op, live>>

-----------------------------------------------------------------------------
(* A new organisation, or one at work: its roles seeded, an administrator, *)
(* a viewer of its project and a plugin.                                   *)
Init ==
    /\ \/ roles = {} /\ bindings = {} /\ registered = {} /\ caps = {}
       \/ /\ roles = Builtin /\ registered = Resources /\ caps = {"environment"}
          /\ \E admin \in Subject \ ServiceUser : bindings =
                {[sub |-> admin, role |-> 1, scope |-> Org]} \cup
                {[sub |-> s, role |-> 3, scope |-> Project] : s \in Subject \ {admin}}
    /\ lastRole = 3
    /\ live = Subject
    /\ policy = LoadPolicy /\ known = {}
    /\ op = [c \in Proc |-> NoOp] /\ left = MaxOps
    /\ walk = NoWalk
    /\ gone = {} /\ unregistered = {} /\ steady = {}

(* A check remembers whether the right it asks about had been taken away   *)
(* by a request answered before it began.                                  *)
Check(s, resource, permission, public) ==
    [kind |-> "check", pc |-> "begin", sub |-> s, resource |-> resource, perm |-> permission,
     public |-> public, valid |-> FALSE, allowed |-> FALSE,
     clean |-> \/ s \in gone /\ resource # PlatformResource
               \/ s \notin live /\ ~public
               \/ permission = Plugin /\ ScopeOf(resource) \in unregistered]

(* The checks asked: an old resource prefix with an old permission name, a *)
(* plugin capability, a platform permission, something that is no resource.*)
Questions ==
    {[resource |-> "org:o", perm |-> "member"], [resource |-> Env, perm |-> Plugin],
     [resource |-> PlatformResource, perm |-> "plugin_manager_write"],
     [resource |-> "user:u", perm |-> "read"]}

Request ==
    {[kind |-> "list", pc |-> "begin"]}
    \cup {[kind |-> "create", pc |-> "begin", name |-> w.name, perms |-> w.perms] : w \in RoleWrites}
    \cup {[kind |-> "update", pc |-> "begin", id |-> i, name |-> w.name, perms |-> w.perms] :
            i \in {1} \cup 4..MaxRole, w \in RoleWrites}
    \cup {[kind |-> "delete", pc |-> "begin", id |-> i] : i \in {1} \cup 4..MaxRole}
    \cup {[kind |-> "grant", pc |-> "begin", id |-> i, sub |-> s, scope |-> r] :
            i \in {1} \cup 4..MaxRole, s \in Subject, r \in {Org, Project}}
    \cup {[kind |-> k, pc |-> "begin", sub |-> s] : k \in {"revoke", "deactivate"}, s \in Subject}
    \cup {[kind |-> k, pc |-> "begin", resource |-> r] : k \in {"record", "remove"}, r \in {Project, Env}}
    \cup {[kind |-> "replace", pc |-> "begin", scopes |-> x] : x \in {{}, {"environment"}}}

Step ==
    \/ \E c \in Proc :
        \/ \E o \in Request : Begin(c, o)
        \/ \E s \in Subject, q \in Questions, public \in BOOLEAN :
              Begin(c, Check(s, q.resource, q.perm, public))
        \/ Answer(c)
        \/ ListRoles(c) \/ SeedBuiltinOrgRoles(c)
        \/ ValidateCreate(c) \/ CreateRole(c)
        \/ ReadRole(c) \/ ValidateUpdate(c) \/ UpdateRole(c) \/ DeleteRole(c)
        \/ GrantRole(c) \/ RevokeRoles(c) \/ ReplacePluginCapabilities(c)
        \/ Deactivate(c) \/ UpsertAuthorizationResource(c) \/ DeleteAuthorizationResource(c)
        \/ ReloadAfterWrite(c) \/ ReloadFails(c)
        \/ InternalAuthorizeInner(c) \/ CheckPermissions(c)
        \/ Authorize(c) \/ knownCustomPermissions(c) \/ Decide(c)
    \/ Expire
    \/ \E s \in Subject : StartWalk(s, Project, ServiceUser) \/ StartWalk(s, Env, Subject)
    \/ listUsersWithPermissionsOnResource
    \/ ForbidPage
    \/ EndWalk

(* Which subjects have been listed users of the walked resource at every   *)
(* moment of the walk.                                                     *)
Observe ==
    steady' = IF walk'.pc = "idle" THEN {}
              ELSE IF walk.pc = "idle" THEN Effective(walk'.resource)
              ELSE IF walk'.pc = "done" /\ walk.pc = "done" THEN steady
              ELSE steady \cap Effective(walk.resource)'

Next == Step /\ Observe

Spec == Init /\ [][Next]_vars

-----------------------------------------------------------------------------
(* Properties.                                                             *)

(* The tables keep their keys: ids and names are unique, a resource row    *)
(* has its parent, and at most one cached answer exists per question.      *)
TypeOK ==
    /\ \A r, o \in roles : (r.id = o.id \/ r.name = o.name) => r = o
    /\ \A r \in roles : /\ r.id \in 1..lastRole /\ r.name \in RoleNames
                        /\ r.perms # {} /\ r.key \in {"admin", "deployer", "viewer", "none"}
    /\ bindings \subseteq [sub : Subject, role : 1..lastRole, scope : Resources]
    /\ registered \in {{}, {Org}, {Org, Project}, Resources}
    /\ caps \subseteq Scopes /\ live \subseteq Subject
    /\ policy.grants \subseteq [sub : Subject, scope : Resources, perm : (UNION RoleBodies) \cup legacyRolePermissions]
    /\ \A k, l \in known : k.resource = l.resource /\ k.perm = l.perm => k = l
    /\ DOMAIN op = Proc /\ left \in 0..MaxOps
    /\ walk.pc \in {"idle", "page", "done"} /\ walk.cursor \in Subject \cup {0}
    /\ gone \subseteq Subject /\ unregistered \subseteq Scopes /\ steady \subseteq Subject

(* SeedBuiltinOrgRoles (roles.go:261) says the built-in roles are one set: *)
(* whatever listings, writes and deletions race, an organisation has all   *)
(* three, exactly as seeded, or none, and no other role bears their names. *)
BuiltinRolesIntact ==
    LET named == {r \in roles : r.name \in {"Admin", "Deployer", "Viewer"} \/ r.key # "none"} IN
    named \in {{}, Builtin}

(* DeleteRole (model/roles.go:113) and the grants that name the role race: *)
(* no binding outlives its role, so no grant silently loses its rights and *)
(* no later role inherits its holders.                                     *)
BindingsResolve == \A b \in bindings : GetRole(b.role) # {}

(* Registry.Replace (registry.go:62) reloads "so an old policy snapshot    *)
(* and its known-permission cache cannot extend that authority": a check   *)
(* that began after the request taking its right away was answered - the   *)
(* capability unregistered, the last role removed, the subject deactivated *)
(* - is not allowed, unless something was granted meanwhile.               *)
RevokedIsRefused ==
    \A c \in Proc : op[c].kind = "check" /\ op[c].clean => ~op[c].allowed

Synced == policy = LoadPolicy

(* IsOrganizationAdmin (organization_admin.go) and the policy engine agree *)
(* though they read different things: whoever the first calls an           *)
(* administrator is allowed a permission of every level, provisioning and  *)
(* each registered plugin capability on every recorded resource            *)
(* (MatchingHierarchy has the rest of the catalogue).                      *)
AdminMayDoEverything ==
    \A s \in Subject : IsOrganizationAdmin(s) /\ Synced =>
        \A r \in registered :
        LET granted == Granted(s, r) IN
        \A p \in {"role_read", "deployment_write", "role_write", "provisioning_write"}
                 \cup ListPluginCapabilities :
            \/ Allows(granted, p) /\ (isCustomPermission(p) => ListKnownAuthorizationPermissions(r, p))
            \/ p = Plugin /\ ScopeOf(r) \notin {x \in Scopes : x \in caps}

(* The user listing walks the recorded tree in SQL, row by row to a depth, *)
(* and joins the roles; the engine has relations and expanded grants of    *)
(* its own.  On a current snapshot it decides about a subject from exactly *)
(* the permissions of the roles the listing finds for it.                  *)
AllowedAsListed ==
    Synced => \A s \in Subject, r \in Resources :
        Granted(s, r) = UNION {UNION {o.perms : o \in GetRole(b.role)} :
                                 b \in {l \in ListEffectiveRoleBindings(r) : l.sub = s}}

(* A client following next_page_token while bindings change sees every     *)
(* subject that was a user of the resource all along exactly once, and     *)
(* nobody twice (permissions.go:80).                                       *)
WalkIsComplete ==
    LET ids == [i \in DOMAIN walk.seen |-> walk.seen[i].id] IN
    /\ IsInjective(ids)
    /\ walk.pc = "done" => steady \cap walk.filter \subseteq Range(ids)

(* What the wildcards confer is a chain; the provisioning permissions and  *)
(* a plugin's capability are satisfied only by themselves and manage_all   *)
(* (authorization.go:293); the old module grants keep only the equivalent  *)
(* operations, none of the recovery and pin powers (authorization.go:289). *)
(* It speaks of operators only, so it is evaluated before the first        *)
(* request.                                                                *)
MatchingHierarchy == left = MaxOps =>
    LET All == permissionCatalog \cup legacyRolePermissions
        S(g) == Satisfied(g, Plugin) \ {"read_all", "write_all"} IN
    /\ S("read_all") \subseteq S("write_all") /\ S("write_all") \subseteq S("manage_all")
    /\ permissionCatalog \cup {Plugin} \subseteq S("manage_all")
    /\ \A p \in {"provisioning_read", "provisioning_write", Plugin}, g \in All \cup {Plugin} :
          p \in S(g) => g \in {p, "manage_all"}
    /\ \A g \in permissionCatalog \ {"module_read", "module_write"} : S(g) = {g}
    /\ S("module_write") \cap {p \in permissionCatalog : permissionLevel(p) # "read"} =
          {"module_write", "module.version.publish", "module.version.promote", "module.archive"}

(* Types, the built-in roles as they were seeded, and no binding to a role *)
(* that is gone.                                                           *)
RolesInv == TypeOK /\ BuiltinRolesIntact /\ BindingsResolve

(* Whenever the snapshot is current: the engine allows exactly what the    *)
(* listed roles satisfy, it refuses nothing to whom the SQL query calls an *)
(* administrator (a custom role may hold as much, so not conversely), and  *)
(* grants satisfy permissions by the table of levels.  The window in which *)
(* the snapshot is behind is RevokedIsRefused's.                           *)
DecisionsAgree == MatchingHierarchy /\ AdminMayDoEverything /\ AllowedAsListed
=============================================================================
