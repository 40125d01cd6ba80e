---------------------------- MODULE WorkerEvents ----------------------------
(***************************************************************************)
(* The resource hierarchy and the bindings scoped to it, kept in step with *)
(* the control plane by the event worker (internal/worker), the scope sync *)
(* of an organization (internal/api/org_actions.go) and the requests that  *)
(* bind a role to a scope (internal/api/roles.go, isScopeValidForRole).    *)
(*                                                                         *)
(* JetStream delivers a message at least once, in any order, up to         *)
(* MaxDeliver times and to several handlers at a time; every statement of  *)
(* a handler can fail, with or without effect.  ReloadPolicy is one step   *)
(* here: PolicyReload shows what it promises.                              *)
(***************************************************************************)
EXTENDS Naturals, FiniteSets

CONSTANTS
    Project,
    Env,
    ProjectOf,  \* [e] the project of an environment
    Slot,       \* MainConsumerConcurrency handlers
    Request,    \* concurrent API requests
    SyncFor,    \* resources that scope.sync events are published for
    None,
    MaxDeliver,
    MaxFaults,  \* bound: failures, panics, expired ack deadlines, restarts
    MaxOps      \* bound: API requests

Resource == Project \cup Env

ASSUME WorkerAssumption ==
    /\ Project \cap Env = {}
    /\ ProjectOf \in [Env -> Project]
    /\ SyncFor \subseteq Resource
    /\ None \notin Resource
    /\ MaxDeliver \in Nat \ {0}
    /\ MaxFaults \in Nat
    /\ MaxOps \in Nat

Kind == {"created", "deleted", "sync"}
Message == Kind \X Resource
Table == {"memberships", "service_user_roles"}

VARIABLES
    cp,       \* [r] the control plane: "new", "live" or "gone"
    msg,      \* [m] JetStream: status and number of deliveries
    slot,     \* [s] the handler: message, program counter and what it read
    req,      \* [q] the API request
    table,    \* authorization_resources
    bindings, \* role bindings of either table, by scope
    policy,   \* what the authorizer has loaded: hierarchy and bindings
    late,     \* history: scopes bound by a request after their deletion
    faults,
    ops

vars == <<cp, msg, slot, req, table, bindings, policy, late, faults, ops>>

NoHandler == [msg |-> None, pc |-> "idle", read |-> {}]
NoRequest == [pc |-> "idle", scope |-> None, in |-> None, todo |-> {}, read |-> {}]

Init ==
    /\ cp = [r \in Resource |-> "new"]
    /\ msg = [m \in Message |-> [status |-> "none", tries |-> 0]]
    /\ slot = [s \in Slot |-> NoHandler]
    /\ req = [q \in Request |-> NoRequest]
    /\ table = {}
    /\ bindings = {}
    /\ policy = [table |-> {}, bindings |-> {}]
    /\ late = {}
    /\ faults = 0
    /\ ops = 0

EnvsOf(p) == {e \in Env : ProjectOf[e] = p}
Live == {r \in Resource : cp[r] = "live"}
Parents(rs) == {ProjectOf[e] : e \in rs \cap Env}

-----------------------------------------------------------------------------
(* The control plane and JetStream.                                        *)

Publish(m) == msg' = [msg EXCEPT ![m].status = "pending"]

CreateResource(r) ==
    /\ cp[r] = "new"
    /\ r \in Env => cp[ProjectOf[r]] = "live"
    /\ cp' = [cp EXCEPT ![r] = "live"]
    /\ Publish(<<"created", r>>)
    /\ UNCHANGED <<slot, req, table, bindings, policy, late, faults, ops>>

\* A project is deleted after its environments.
DeleteResource(r) ==
    /\ cp[r] = "live"
    /\ r \in Project => \A e \in EnvsOf(r) : cp[e] # "live"
    /\ cp' = [cp EXCEPT ![r] = "gone"]
    /\ Publish(<<"deleted", r>>)
    /\ UNCHANGED <<slot, req, table, bindings, policy, late, faults, ops>>

\* A scope.sync event is published for a resource that exists.
RequestSync(r) ==
    /\ r \in SyncFor
    /\ cp[r] = "live"
    /\ msg[<<"sync", r>>].status = "none"
    /\ Publish(<<"sync", r>>)
    /\ UNCHANGED <<cp, slot, req, table, bindings, policy, late, faults, ops>>

EntrySkippingMembershipsBug(m) ==
    CASE m[1] = "created" -> "upsert"
      [] m[1] = "sync" -> "read"
      [] m[1] = "deleted" -> "service_user_roles"

\* Where the handler of a message starts: the branch for its subject.
Entry(m) ==
    CASE m[1] = "created" -> "upsert"
      [] m[1] = "sync" -> "read"
      [] m[1] = "deleted" -> "memberships"

\* The rows that a created event asks for.
Named(m) == IF m[1] = "created" THEN {m[2]} ELSE {}

Deliver(s, m) ==
    /\ slot[s] = NoHandler
    /\ msg[m].status = "pending"
    /\ msg' = [msg EXCEPT ![m] = [status |-> "held", tries |-> @.tries + 1]]
    /\ slot' = [slot EXCEPT ![s] = [msg |-> m, pc |-> Entry(m), read |-> Named(m)]]
    /\ UNCHANGED <<cp, req, table, bindings, policy, late, faults, ops>>

\* What becomes of a message whose delivery failed: after MaxDeliver
\* deliveries it goes to the dead letter queue, before that it is delivered
\* again.  Another delivery may have settled it already.
Again(m) ==
    IF msg[m].status # "held" THEN msg[m]
    ELSE [msg[m] EXCEPT !.status = IF msg[m].tries >= MaxDeliver THEN "dead" ELSE "pending"]

\* AckWait ends while the handler still runs.
AckDeadline(m) ==
    /\ msg[m].status = "held"
    /\ faults < MaxFaults
    /\ faults' = faults + 1
    /\ msg' = [msg EXCEPT ![m] = Again(m)]
    /\ UNCHANGED <<cp, slot, req, table, bindings, policy, late, ops>>

\* The process is restarted: its handlers are gone and the policy is loaded.
Restart ==
    /\ faults < MaxFaults
    /\ faults' = faults + 1
    /\ msg' = [m \in Message |-> IF \E s \in Slot : slot[s].msg = m THEN Again(m) ELSE msg[m]]
    /\ slot' = [s \in Slot |-> NoHandler]
    /\ req' = [q \in Request |-> NoRequest]
    /\ policy' = [table |-> table, bindings |-> bindings]
    /\ UNCHANGED <<cp, table, bindings, late, ops>>

-----------------------------------------------------------------------------
(* The steps of a handler.                                                 *)

Goto(s, pc) == slot' = [slot EXCEPT ![s].pc = pc]
Ack(s) ==
    /\ msg' = [msg EXCEPT ![slot[s].msg].status = "acked"]
    /\ slot' = [slot EXCEPT ![s] = NoHandler]

UpsertedWithoutParentBug(rs) == table \cup rs

\* UpsertAuthorizationResource of the rows and of the projects above them.
Upserted(rs) == table \cup rs \cup Parents(rs)

\* DeleteAuthorizationResource: the rows below are deleted with it.
Deleted(r) == table \ ({r} \cup (IF r \in Project THEN EnvsOf(r) ELSE {}))

Unbound(t, r) == bindings \ {<<t, r>>}

\* What the statement at pc writes.
Writes(s) ==
    LET r == slot[s].msg[2] IN
    /\ table' = CASE slot[s].pc = "upsert" -> Upserted(slot[s].read)
                  [] slot[s].pc = "resource" -> Deleted(r)
                  [] OTHER -> table
    /\ bindings' = IF slot[s].pc \in Table THEN Unbound(slot[s].pc, r) ELSE bindings

After(pc) ==
    CASE pc = "memberships" -> "service_user_roles"
      [] pc = "service_user_roles" -> "resource"
      [] pc \in {"resource", "upsert"} -> "reload"

Statement(s) ==
    /\ slot[s].pc \in Table \cup {"resource", "upsert"}
    /\ Writes(s)
    /\ Goto(s, After(slot[s].pc))
    /\ UNCHANGED <<cp, msg, req, policy, late, faults, ops>>

\* syncScope: the environments of a live project, or the project of a live
\* environment.  A resource that is gone is an error, which Fail covers.
ReadScope(s) ==
    /\ slot[s].pc = "read"
    /\ LET r == slot[s].msg[2] IN
       /\ cp[r] = "live"
       /\ slot' = [slot EXCEPT ![s].pc = "upsert",
                               ![s].read = {r} \cup (IF r \in Project THEN EnvsOf(r) \cap Live ELSE {})]
    /\ UNCHANGED <<cp, msg, req, table, bindings, policy, late, faults, ops>>

\* ReloadPolicy, the last step; Handle returns and the message is acked.
ReloadAndAck(s) ==
    /\ slot[s].pc = "reload"
    /\ policy' = [table |-> table, bindings |-> bindings]
    /\ Ack(s)
    /\ UNCHANGED <<cp, req, table, bindings, late, faults, ops>>

\* A step fails, before or after it took effect, and Handle returns the error.
Fail(s) ==
    /\ slot[s] # NoHandler
    /\ \/ /\ faults < MaxFaults
          /\ faults' = faults + 1
          /\ \/ UNCHANGED <<table, bindings, policy>>
             \/ slot[s].pc # "reload" /\ Writes(s) /\ UNCHANGED policy
             \/ slot[s].pc = "reload" /\ policy' = [table |-> table, bindings |-> bindings] /\ UNCHANGED <<table, bindings>>
       \/ /\ slot[s].pc = "read" /\ cp[slot[s].msg[2]] = "gone"
          /\ UNCHANGED <<table, bindings, policy, faults>>
    /\ msg' = [msg EXCEPT ![slot[s].msg] = Again(slot[s].msg)]
    /\ slot' = [slot EXCEPT ![s] = NoHandler]
    /\ UNCHANGED <<cp, req, late, ops>>

\* An answer of the control plane without the expected body panics; the
\* recovered error is lost and the message is acked.
Panic(s) ==
    /\ slot[s].pc = "read"
    /\ faults < MaxFaults
    /\ faults' = faults + 1
    /\ Ack(s)
    /\ UNCHANGED <<cp, req, table, bindings, policy, late, ops>>

-----------------------------------------------------------------------------
(* API requests.                                                           *)

Begin(q, rec) ==
    /\ req[q] = NoRequest
    /\ ops < MaxOps
    /\ ops' = ops + 1
    /\ req' = [req EXCEPT ![q] = rec]
    /\ UNCHANGED <<cp, msg, slot, table, bindings, policy, late, faults>>

\* isScopeValidForRole asks the control plane; the binding is inserted later.
Grant(q, t, r) ==
    /\ cp[r] = "live"
    /\ Begin(q, [NoRequest EXCEPT !.pc = "insert", !.scope = r, !.in = t])

GrantInsert(q) ==
    /\ req[q].pc = "insert"
    /\ bindings' = bindings \cup {<<req[q].in, req[q].scope>>}
    /\ late' = IF cp[req[q].scope] = "gone" THEN late \cup {req[q].scope} ELSE late
    /\ req' = [req EXCEPT ![q].pc = "reload"]
    /\ UNCHANGED <<cp, msg, slot, table, policy, faults, ops>>

\* InternalSyncOrgScopes: list the projects.
SyncOrg(q) ==
    Begin(q, [NoRequest EXCEPT !.pc = "list", !.todo = Live \cap Project])

\* The environments of one listed project.  A project enters the map with its
\* first environment.
SyncList(q, p) ==
    /\ req[q].pc = "list"
    /\ p \in req[q].todo
    /\ cp[p] = "live"
    /\ req' = [req EXCEPT ![q].todo = @ \ {p}, ![q].read = @ \cup (EnvsOf(p) \cap Live)]
    /\ UNCHANGED <<cp, msg, slot, table, bindings, policy, late, faults, ops>>

\* SyncAuthorizationResources.
SyncUpsert(q) ==
    /\ req[q].pc = "list"
    /\ req[q].todo = {}
    /\ table' = Upserted(req[q].read)
    /\ req' = [req EXCEPT ![q].pc = "reload"]
    /\ UNCHANGED <<cp, msg, slot, bindings, policy, late, faults, ops>>

RequestReloadSkippedBug(q) ==
    /\ req[q].pc = "reload"
    /\ req' = [req EXCEPT ![q] = NoRequest]
    /\ UNCHANGED <<cp, msg, slot, table, bindings, policy, late, faults, ops>>

\* The policy is reloaded and the request answered.
RequestReload(q) ==
    /\ req[q].pc = "reload"
    /\ policy' = [table |-> table, bindings |-> bindings]
    /\ req' = [req EXCEPT ![q] = NoRequest]
    /\ UNCHANGED <<cp, msg, slot, table, bindings, late, faults, ops>>

\* A listed project is gone, or any other step fails.
RequestFails(q) ==
    /\ req[q] # NoRequest
    /\ \/ \E p \in req[q].todo : cp[p] = "gone" /\ UNCHANGED faults
       \/ faults < MaxFaults /\ faults' = faults + 1
    /\ req' = [req EXCEPT ![q] = NoRequest]
    /\ UNCHANGED <<cp, msg, slot, table, bindings, policy, late, ops>>

-----------------------------------------------------------------------------

Next ==
    \/ \E r \in Resource : CreateResource(r) \/ DeleteResource(r) \/ RequestSync(r)
    \/ \E s \in Slot, m \in Message : Deliver(s, m)
    \/ \E m \in Message : AckDeadline(m)
    \/ Restart
    \/ \E s \in Slot : Statement(s) \/ ReadScope(s) \/ ReloadAndAck(s) \/ Fail(s) \/ Panic(s)
    \/ \E q \in Request :
          \/ \E t \in Table, r \in Resource : Grant(q, t, r)
          \/ GrantInsert(q)
          \/ SyncOrg(q)
          \/ \E p \in Project : SyncList(q, p)
          \/ SyncUpsert(q)
          \/ RequestReload(q)
          \/ RequestFails(q)

Spec == Init /\ [][Next]_vars

-----------------------------------------------------------------------------
(* Properties.                                                             *)

TypeOK ==
    /\ cp \in [Resource -> {"new", "live", "gone"}]
    /\ msg \in [Message -> [status : {"none", "pending", "held", "acked", "dead"}, tries : 0..MaxDeliver]]
    /\ \A s \in Slot : slot[s].msg \in Message \cup {None} /\ slot[s].read \subseteq Resource
    /\ \A q \in Request : req[q].scope \in Resource \cup {None} /\ req[q].read \subseteq Env
    /\ table \subseteq Resource
    /\ bindings \subseteq Table \X Resource
    /\ policy \in [table : SUBSET Resource, bindings : SUBSET (Table \X Resource)]
    /\ late \subseteq Resource
    /\ faults \in 0..MaxFaults
    /\ ops \in 0..MaxOps

Status(k, r) == msg[<<k, r>>].status

\* An acked deletion event has taken effect in both binding tables and in the
\* loaded policy, after any retries, duplicates and restarts, and nothing
\* brings the bindings back, unless a request that validated the scope before
\* the deletion binds a role after it.
DeletedLosesAccess ==
    \A r \in Resource \ late : Status("deleted", r) = "acked" =>
        \A t \in Table : <<t, r>> \notin bindings \cup policy.bindings

\* Once the creation event of a resource is acked, the resource stays in the
\* hierarchy and in the loaded policy as long as it exists, with its project
\* if it is an environment: late and repeated events of others, the deletion
\* of sibling environments and the cascade of deletions never remove it.
LiveIsReachable ==
    \A r \in Live : Status("created", r) = "acked" =>
        {r} \cup Parents({r}) \subseteq table \cap policy.table

\* A successful sync-scopes request leaves every environment that it listed
\* and that still exists in the loaded hierarchy, whatever became of events.
SyncRepairs ==
    [][\A q \in Request : req[q].pc = "reload" /\ req'[q] = NoRequest /\ faults' = faults =>
          (req[q].read \cap Live) \cup Parents(req[q].read \cap Live) \subseteq policy'.table]_vars

\* Types, and that a resource whose created event was acknowledged stays in the
\* hierarchy that the handlers and sync-scopes maintain.
WorkerInv == TypeOK /\ LiveIsReachable
=============================================================================
