----------------------- MODULE AuthorizationMigration -----------------------
(***************************************************************************)
(* The upgrade of the authorization database from SpiceDB to Casbin: what  *)
(* every replica runs before it serves (Upgrade), what the command line    *)
(* tool does with the same code (preflight, apply, verify, rollback), and  *)
(* the schema migrations both drive.                                       *)
(*                                                                         *)
(* One organization.  RBAC data is its roles and the rows of memberships   *)
(* and service_user_roles; a schema migration is one transaction, so a     *)
(* process may stop between any two.                                       *)
(* A failed statement, an unreachable control plane and a crash all end    *)
(* the process, close its connections and with them release the advisory   *)
(* lock; Kubernetes starts replicas again.                                 *)
(***************************************************************************)
EXTENDS Naturals

CONSTANTS
    Replica,       \* server processes
    Operator,      \* the process that runs authorization-migrate
    Org,           \* the organization's own resource
    Project, Env,
    ProjectOf,     \* [e] the project of an environment
    Role,          \* role ids
    None,          \* no fingerprint, no parent, no lock holder; NULL
    Legacy,        \* LegacySchemaVersion
    Casbin,        \* CasbinSchemaVersion
    Latest,        \* MaxMigrationVersion()
    Start,         \* the databases a deployment begins with
    MaxFaults,     \* bound: crashes, errors and deliberate stops
    MaxWrites      \* bound: changes by clients and by the control plane

Scope == Project \cup Env
Resource == {Org} \cup Scope
Kind == {"user", "service"}
\* A row of memberships or of service_user_roles.  Old memberships have their
\* role in the subject column alone.
Row == [kind : Kind, on : Resource, subject : Role, role : Role \cup {None}]
\* What a row says, what scoped_roles says, and what a fingerprint stands for.
Binding == [kind : Kind, on : Resource, role : Role]
Grant == [on : Scope, role : Role]
Policy == [roles : BOOLEAN, bindings : SUBSET Binding]

ASSUME MigrationAssumption ==
    /\ Legacy \in Nat /\ Casbin \in Nat /\ Latest \in Nat
    /\ 1 < Legacy /\ Casbin = Legacy + 2 /\ Casbin <= Latest
    /\ ProjectOf \in [Env -> Project]
    /\ Operator \notin Replica
    /\ Org \notin Scope /\ Project \cap Env = {}
    /\ None \notin Resource \cup Role \cup Replica \cup {Operator}
    /\ MaxFaults \in Nat /\ MaxWrites \in Nat

\* The databases of earlier and later releases: no role column is NULL after
\* the legacy schema, the state table exists since the Casbin schema, and an
\* upgrade was recorded as reconciled only after every environment had its
\* project.
ASSUME StartAssumption ==
    \A s \in Start :
        /\ s.version \in 0..(Latest + 1) /\ s.roles \in BOOLEAN
        /\ s.rbac \subseteq Row /\ s.scoped \subseteq Grant
        /\ s.version > Legacy => \A b \in s.rbac : b.role # None
        /\ s.parent \in [Resource -> {None, Org} \cup Project]
        /\ \A e \in Env : s.parent[e] \in {None, Org, ProjectOf[e]}
        /\ s.cp \in [Scope -> {"new", "live", "gone"}]
        /\ s.saved \in {None} \cup Policy
        /\ IF s.version < Casbin
           THEN s.state = None
           ELSE /\ s.state \in [policy : {None} \cup Policy, reconciled : BOOLEAN]
                /\ s.state.reconciled => \A e \in Env : s.parent[e] # Org

VARIABLES
    version,  \* the newest applied migration
    roles,    \* does the organization have rows in roles?
    rbac,     \* rows of memberships (of roles) and of service_user_roles
    scoped,   \* the legacy projection scoped_roles
    parent,   \* [r] parent in authorization_resources, Org for Org; None: no row
    state,    \* authorization_migration_state
    lock,     \* holder of the advisory lock
    proc,     \* [p] program counter and locals of Upgrade or rollback
    saved,    \* fingerprint of the operator's last good preflight report
    deployed, \* may Kubernetes start replicas?
    cp,       \* [s] what the control plane knows of a scope: new, live or gone
    events,   \* resources whose deletion or creation IAM has not handled yet
    origin,   \* history: fingerprint with which the upgrade left the legacy
              \* schema, None once the upgrade is recorded
    faults, writes

data == <<roles, rbac, scoped, parent, state, origin>>
env == <<saved, deployed, cp, events, writes>>
vars == <<version, data, lock, proc, env, faults>>

Process == Replica \cup {Operator}
Off == [pc |-> "off", expected |-> None, effective |-> None, state |-> None, listed |-> {}]
NoRow == [r \in Resource |-> None]
FreshState == [policy |-> None, reconciled |-> FALSE]

Init ==
    /\ \E s \in Start :
          /\ version = s.version /\ roles = s.roles /\ rbac = s.rbac
          /\ scoped = s.scoped /\ parent = s.parent /\ state = s.state /\ cp = s.cp
          /\ saved = s.saved
    /\ origin = None
    /\ lock = None
    /\ proc = [p \in Process |-> Off]
    /\ deployed = TRUE
    /\ events = {}
    /\ faults = 0 /\ writes = 0

-----------------------------------------------------------------------------
(* Inspect: the two reports.                                               *)

\* A membership counts by its role, or by its subject while the role is NULL.
Canonical(b) ==
    [kind |-> b.kind, on |-> b.on, role |-> IF b.role = None THEN b.subject ELSE b.role]

\* The roles (which come and go together here) and the bindings.
policyFingerprint == [roles |-> roles, bindings |-> {Canonical(b) : b \in rbac}]

Scopes(bs) == {b.on : b \in bs} \ {Org}
Grants(bs) == {[on |-> b.on, role |-> Canonical(b).role] : b \in {c \in bs : c.on # Org}}

\* Scoped bindings are covered by the projection.  (Identifiers, scopes and
\* role references are well-formed by construction.)
inspectLegacy == Grants(rbac) \subseteq scoped

Live == {s \in Scope : cp[s] = "live"}

listOrganizationIDs == IF roles \/ rbac # {} THEN {Org} ELSE {}

inspectCasbinAnyParentBug ==
    /\ \A b \in rbac : b.role # None
    /\ \A o \in listOrganizationIDs : parent[o] # None
    /\ \A s \in Scopes(rbac) : parent[s] # None

\* No membership without a role, a row for the organization and for every
\* bound scope, projects below the organization, environments below a project.
inspectCasbin ==
    /\ \A b \in rbac : b.role # None
    /\ \A o \in listOrganizationIDs : parent[o] # None
    /\ \A s \in Scopes(rbac) : parent[s] # None
    /\ \A p \in Project : parent[p] \in {None, Org}
    /\ \A e \in Env : parent[e] \in {None} \cup Project

PreflightReady == version = Legacy /\ inspectLegacy
VerifyReady == version \in Casbin..Latest /\ inspectCasbin

-----------------------------------------------------------------------------
(* The schema migrations that touch authorization data.                    *)

CasbinAuthorizationUpDropNullBug ==
    /\ rbac' = {b \in rbac : b.role # None}
    /\ parent' = [r \in Resource |-> IF (r = Org /\ roles) \/ r \in Scopes(scoped) THEN Org ELSE parent[r]]
    /\ scoped' = {}
    /\ origin' = policyFingerprint
    /\ UNCHANGED <<roles, state>>

\* 000030 up: fill in the roles, derive resources from roles and from the
\* projection (environments below the organization for now), drop the latter.
CasbinAuthorizationUp ==
    /\ rbac' = {[b EXCEPT !.role = Canonical(b).role] : b \in rbac}
    /\ parent' = [r \in Resource |-> IF (r = Org /\ roles) \/ r \in Scopes(scoped) THEN Org ELSE parent[r]]
    /\ scoped' = {}
    /\ origin' = policyFingerprint
    /\ UNCHANGED <<roles, state>>

\* 000030 down: the projection again, from both kinds of bindings that have
\* a role; the subjects are as they were.
CasbinAuthorizationDown ==
    /\ scoped' = Grants({b \in rbac : b.role # None})
    /\ parent' = NoRow
    /\ UNCHANGED <<roles, rbac, state, origin>>

\* 000031 up and down: the table that remembers how far the upgrade got.
AutomaticUpgradeUp == state' = FreshState /\ UNCHANGED <<roles, rbac, scoped, parent, origin>>

AutomaticUpgradeDown == state' = None /\ UNCHANGED <<roles, rbac, scoped, parent, origin>>

Up(v) ==
    /\ version' = v
    /\ CASE v = Legacy + 1 -> CasbinAuthorizationUp
         [] v = Casbin -> AutomaticUpgradeUp
         [] OTHER -> UNCHANGED data

Down(v) ==
    /\ version' = v - 1
    /\ CASE v = Legacy + 1 -> CasbinAuthorizationDown
         [] v = Casbin -> AutomaticUpgradeDown

-----------------------------------------------------------------------------
(* Upgrade.                                                                *)

Goto(p, pc) == proc' = [proc EXCEPT ![p].pc = pc]
Unlocked(p) == IF lock = p THEN None ELSE lock

\* The process ends: with an error, or (operator) with its report.
Exit(p, pc) ==
    /\ proc' = [proc EXCEPT ![p] = [Off EXCEPT !.pc = pc]]
    /\ lock' = Unlocked(p)

Idle(p) == proc[p].pc \in {"off", "done"}

\* Kubernetes starts a replica; the operator runs apply with a fingerprint.
Begin(p) ==
    /\ Idle(p)
    /\ IF p = Operator THEN saved # None /\ faults < MaxFaults ELSE deployed
    /\ faults' = IF p = Operator THEN faults + 1 ELSE faults
    /\ proc' = [proc EXCEPT ![p] = [Off EXCEPT !.pc = "lock",
                                               !.expected = IF p = Operator THEN saved ELSE None]]
    /\ UNCHANGED <<version, data, lock, env>>

AcquireLock(p) ==
    /\ proc[p].pc = "lock"
    /\ lock = None
    /\ lock' = p
    /\ Goto(p, "version")
    /\ UNCHANGED <<version, data, env, faults>>

\* The switch over the version found, with the preflight of a legacy database.
CurrentVersion(p) ==
    LET expected == proc[p].expected
        refused == \/ version \in 1..(Legacy - 1)
                   \/ version > Latest
                   \/ version = Legacy /\ ~PreflightReady
                   \/ version = Legacy /\ expected \notin {None, policyFingerprint}
    IN /\ proc[p].pc = "version"
       /\ IF refused
          THEN Exit(p, "off")
          ELSE /\ proc' = [proc EXCEPT ![p].pc = IF version < Casbin THEN "migrate" ELSE "open",
                                       ![p].effective = IF version = Legacy THEN policyFingerprint
                                                        ELSE expected]
               /\ UNCHANGED lock
       /\ UNCHANGED <<version, data, env, faults>>

\* MigrateUp, by Upgrade itself and once more by NewDatabaser: one migration
\* after the other, each in its own transaction.
MigrateUp(p) ==
    /\ proc[p].pc \in {"migrate", "open"}
    /\ IF version < Latest
       THEN Up(version + 1) /\ UNCHANGED proc
       ELSE /\ Goto(p, IF proc[p].pc = "migrate" THEN "open" ELSE "state")
            /\ UNCHANGED <<version, data>>
    /\ UNCHANGED <<lock, env, faults>>

loadMigrationState(p) ==
    /\ proc[p].pc = "state"
    /\ proc' = [proc EXCEPT ![p].state = state, ![p].pc = "verify"]
    /\ UNCHANGED <<version, data, lock, env, faults>>

\* Upgrade returns the database: a replica goes on to serve, the operator's
\* apply has nothing left to check.
Finish(p) ==
    /\ proc' = [proc EXCEPT ![p].pc = IF p = Operator THEN "done" ELSE "serving"]
    /\ lock' = Unlocked(p)

\* The fingerprint that has to be met: once reconciled, whatever is there.
Effective(p) ==
    LET l == proc[p] IN
    IF l.state.reconciled /\ l.expected = None THEN policyFingerprint
    ELSE IF l.effective # None THEN l.effective
    ELSE IF l.state.policy # None THEN l.state.policy
    ELSE policyFingerprint

Verify(p) ==
    LET l == proc[p] IN
    /\ l.pc = "verify"
    /\ IF l.state.reconciled /\ l.expected = None /\ VerifyReady
       THEN Finish(p) /\ UNCHANGED data
       ELSE IF Effective(p) # policyFingerprint
       THEN Exit(p, "off") /\ UNCHANGED data
       ELSE /\ proc' = [proc EXCEPT ![p].effective = Effective(p),
                                    ![p].pc = IF l.state.reconciled /\ VerifyReady THEN "skip" ELSE "list"]
            /\ state' = IF l.state.policy = None THEN [state EXCEPT !.policy = Effective(p)] ELSE state
            /\ UNCHANGED <<lock, roles, rbac, scoped, parent, origin>>
    /\ UNCHANGED <<version, env, faults>>

\* apply on a database that needs nothing.
Skip(p) ==
    /\ proc[p].pc = "skip"
    /\ Finish(p)
    /\ UNCHANGED <<version, data, env, faults>>

\* Reconcile: what the control plane lists for the organization.
loadOrganizationResources(p) ==
    /\ proc[p].pc = "list"
    /\ proc' = [proc EXCEPT ![p].listed = Live,
                            ![p].pc = IF listOrganizationIDs = {} THEN "recheck" ELSE "sync"]
    /\ UNCHANGED <<version, data, lock, env, faults>>

AttachedMissingOnlyBug(tree, listed) ==
    [r \in Resource |-> CASE tree[r] # None -> tree[r]
                          [] r \in listed \cap Env -> ProjectOf[r]
                          [] r \in listed \cup {Org} -> Org
                          [] OTHER -> None]

\* UpsertAuthorizationResource for the organization and what was listed.
Attached(tree, listed) ==
    [r \in Resource |-> CASE r = Org -> Org
                          [] r \in listed \cap Project -> Org
                          [] r \in listed \cap Env -> ProjectOf[r]
                          [] OTHER -> tree[r]]

\* SyncAuthorizationResources stores it in one transaction.
Reconcile(p) ==
    /\ proc[p].pc = "sync"
    /\ parent' = Attached(parent, proc[p].listed)
    /\ Goto(p, "recheck")
    /\ UNCHANGED <<version, roles, rbac, scoped, state, origin, lock, env, faults>>

Recheck(p) ==
    /\ proc[p].pc = "recheck"
    /\ IF VerifyReady /\ policyFingerprint = proc[p].effective
       THEN Goto(p, "mark") /\ UNCHANGED lock
       ELSE Exit(p, "off")
    /\ UNCHANGED <<version, data, env, faults>>

markMigrationReconciled(p) ==
    /\ proc[p].pc = "mark"
    /\ state' = [state EXCEPT !.reconciled = TRUE]
    /\ origin' = None
    /\ Finish(p)
    /\ UNCHANGED <<version, roles, rbac, scoped, parent, env, faults>>

\* A crash, or an error of a statement or of the control plane.
Fail(p) ==
    /\ ~Idle(p)
    /\ faults < MaxFaults
    /\ faults' = faults + 1
    /\ Exit(p, "off")
    /\ UNCHANGED <<version, data, env>>

-----------------------------------------------------------------------------
(* The operator: the other commands of authorization-migrate.              *)

IAMStopped == ~deployed /\ \A r \in Replica : proc[r].pc = "off"

\* The deployment is scaled to zero, and back.
StopIAM ==
    /\ deployed
    /\ faults < MaxFaults
    /\ faults' = faults + 1
    /\ deployed' = FALSE
    /\ proc' = [p \in Process |-> IF p = Operator THEN proc[p] ELSE Off]
    /\ lock' = IF lock \in Replica THEN None ELSE lock
    /\ UNCHANGED <<version, data, saved, cp, events, writes>>

StartIAM ==
    /\ ~deployed
    /\ Idle(Operator)
    /\ deployed' = TRUE
    /\ UNCHANGED <<version, data, lock, proc, saved, cp, events, writes, faults>>

\* preflight: the report guards apply and rollback only if it is good.
Preflight ==
    /\ Idle(Operator)
    /\ PreflightReady
    /\ saved # policyFingerprint
    /\ saved' = policyFingerprint
    /\ UNCHANGED <<version, data, lock, proc, deployed, cp, events, writes, faults>>

\* rollback --confirm-no-rbac-writes: no advisory lock, exactly one version.
Rollback ==
    /\ Idle(Operator)
    /\ IAMStopped
    /\ saved # None
    /\ version = Casbin
    /\ policyFingerprint = saved
    /\ faults < MaxFaults
    /\ faults' = faults + 1
    /\ proc' = [proc EXCEPT ![Operator] = [Off EXCEPT !.pc = "down", !.expected = saved]]
    /\ UNCHANGED <<version, data, lock, env>>

MigrateDownTo ==
    /\ proc[Operator].pc = "down"
    /\ IF version > Legacy
       THEN Down(version) /\ UNCHANGED proc
       ELSE Goto(Operator, "validate") /\ UNCHANGED <<version, data>>
    /\ UNCHANGED <<lock, env, faults>>

validateReport ==
    /\ proc[Operator].pc = "validate"
    /\ Exit(Operator, IF PreflightReady /\ policyFingerprint = proc[Operator].expected
                      THEN "done" ELSE "off")
    /\ UNCHANGED <<version, data, env, faults>>

-----------------------------------------------------------------------------
(* What goes on around it.                                                 *)

Serving == {r \in Replica : proc[r].pc = "serving"}

Write == writes < MaxWrites /\ writes' = writes + 1

\* Requests of clients: the first one seeds the roles, others bind and unbind.
\* A grant asks the control plane for its scope, which may be removed after it.
SeedRoles ==
    /\ Serving # {} /\ Write
    /\ ~roles
    /\ roles' = TRUE
    /\ parent' = [parent EXCEPT ![Org] = Org]
    /\ UNCHANGED <<version, rbac, scoped, state, origin, lock, proc, saved, deployed, cp, events, faults>>

Bind(b) ==
    /\ Serving # {} /\ Write
    /\ roles
    /\ \A c \in rbac : Canonical(c) # b
    /\ b.on \in Scope => cp[b.on] # "new"
    /\ rbac' = rbac \cup {[kind |-> b.kind, on |-> b.on, subject |-> b.role, role |-> b.role]}
    /\ UNCHANGED <<version, roles, scoped, parent, state, origin, lock, proc, saved, deployed, cp, events, faults>>

Unbind(b) ==
    /\ Serving # {} /\ Write
    /\ b \in rbac
    /\ rbac' = rbac \ {b}
    /\ UNCHANGED <<version, roles, scoped, parent, state, origin, lock, proc, saved, deployed, cp, events, faults>>

Create(s) ==
    /\ Write
    /\ cp[s] = "new"
    /\ s \in Env => ProjectOf[s] \in Live
    /\ cp' = [cp EXCEPT ![s] = "live"]
    /\ events' = events \cup {s}
    /\ UNCHANGED <<version, data, lock, proc, saved, deployed, faults>>

Delete(s) ==
    /\ Write
    /\ s \in Live \ events
    /\ s \in Project => \A e \in Live \cap Env : ProjectOf[e] # s
    /\ cp' = [cp EXCEPT ![s] = "gone"]
    /\ events' = events \cup {s}
    /\ UNCHANGED <<version, data, lock, proc, saved, deployed, faults>>

\* The worker of a serving replica handles the event of one resource (before
\* the next change of the same resource; WorkerEvents has the other orders).
HandleEvent(s) ==
    /\ Serving # {}
    /\ s \in events
    /\ events' = events \ {s}
    /\ IF s \in Live
       THEN /\ parent' = Attached(parent, {s} \cup (IF s \in Env THEN {ProjectOf[s]} ELSE {}))
            /\ UNCHANGED rbac
       ELSE /\ parent' = [r \in Resource |-> IF r = s \/ parent[r] = s THEN None ELSE parent[r]]
            /\ rbac' = {b \in rbac : b.on # s}
    /\ UNCHANGED <<version, roles, scoped, state, origin, lock, proc, saved, deployed, cp, writes, faults>>

-----------------------------------------------------------------------------

Step(p) ==
    \/ CurrentVersion(p) \/ MigrateUp(p) \/ loadMigrationState(p) \/ Verify(p) \/ Skip(p)
    \/ loadOrganizationResources(p) \/ Reconcile(p) \/ Recheck(p) \/ markMigrationReconciled(p)

Next ==
    \/ \E p \in Process : Begin(p) \/ AcquireLock(p) \/ Step(p) \/ Fail(p)
    \/ StopIAM \/ StartIAM \/ Preflight \/ Rollback \/ MigrateDownTo \/ validateReport
    \/ SeedRoles
    \/ \E b \in Binding : Bind(b)
    \/ \E b \in rbac : Unbind(b)
    \/ \E s \in Scope : Create(s) \/ Delete(s) \/ HandleEvent(s)

\* Kubernetes restarts what ended, Postgres grants the lock in turn, and a
\* process that holds it goes on.
Fairness ==
    /\ \A r \in Replica : WF_vars(Begin(r)) /\ SF_vars(AcquireLock(r)) /\ WF_vars(Step(r))
    /\ SF_vars(AcquireLock(Operator)) /\ WF_vars(Step(Operator))
    /\ WF_vars(MigrateDownTo) /\ WF_vars(validateReport)

Spec == Init /\ [][Next]_vars /\ Fairness

-----------------------------------------------------------------------------
(* Properties.                                                             *)

TypeOK ==
    /\ version \in 0..(Latest + 1)
    /\ roles \in BOOLEAN
    /\ rbac \subseteq Row
    /\ scoped \subseteq Grant
    /\ origin \in Policy \cup {None}
    /\ parent \in [Resource -> {None, Org} \cup Project]
    /\ state = None \/ state.reconciled \in BOOLEAN
    /\ lock \in Process \cup {None}
    /\ cp \in [Scope -> {"new", "live", "gone"}]
    /\ events \subseteq Scope
    /\ deployed \in BOOLEAN
    /\ faults \in 0..MaxFaults /\ writes \in 0..MaxWrites

\* "IAM exits before serving traffic", "A failed hierarchy check is fail-closed
\* and cannot silently grant access": while a replica serves, the schema is
\* complete, the upgrade was recorded, every user binding names its role, and
\* no environment inherits from anything but its own project.
FailClosed ==
    Serving # {} =>
        /\ version = Latest
        /\ state.reconciled
        /\ \A b \in rbac : b.role # None
        /\ \A e \in Env : parent[e] \in {None, ProjectOf[e]}

\* "RBAC data identity": an upgrade is recorded as done only with the roles and
\* bindings that were there when it left the legacy schema, although a crash
\* loses the fingerprint of the preflight and the attempts that follow take
\* what they find for granted.
UpgradeKeepsPolicy ==
    [][\A p \in Process : proc[p].pc = "mark" /\ proc'[p].pc \in {"serving", "done"} =>
          origin = None \/ policyFingerprint' = origin]_vars

\* A rollback that got as far as the legacy schema finds a database that the
\* preflight accepts, with the RBAC data of the report that guarded it.
RollbackIsClean ==
    proc[Operator].pc = "validate" =>
        PreflightReady /\ policyFingerprint = proc[Operator].expected

\* No restart can help any more: a schema that is older than the legacy one or
\* newer than this binary; legacy data that the preflight refuses; a resource
\* that the control plane no longer lists, as an environment that was never
\* attached to its project or as a binding that has no resource.
Stranded ==
    \/ version \in 1..(Legacy - 1) \/ version > Latest
    \/ version = Legacy /\ ~inspectLegacy
    \/ version > Legacy /\ \E e \in Env \ Live : parent[e] = Org
    \/ version > Legacy /\ \E s \in Scopes(rbac) \ Live : parent[s] = None

\* Once the operator leaves the deployment alone every replica serves in the
\* end, whatever was interrupted before, unless the database is stranded.
EventuallyServes ==
    <>[]deployed => <>[]Stranded \/ \A r \in Replica : <>[](r \in Serving)

\* "Kubernetes can restart it safely: schema changes and reconciliation are
\* idempotent, and the recorded state resumes an interrupted attempt": a
\* database that this binary initialises, or a legacy one that passes the
\* preflight, is brought into service.
RestartIsSafe ==
    <>[]deployed => \A r \in Replica : <>[](r \in Serving)

\* Types, that Upgrade lets nobody serve from an incomplete policy, and that a
\* rollback leaves what the legacy release expects.
MigrationInv == TypeOK /\ FailClosed /\ RollbackIsClean
=============================================================================
