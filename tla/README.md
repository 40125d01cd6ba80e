# Verification of the platform orchestrator IAM service

TLA+ modules for the parts of `platform-orchestrator-iam` whose correctness
depends on the order of things: the in-memory authorization policy and its
reloads, SCIM provisioning and role reconciliation, the routes by which people
get in and are put out again, the memberships API, roles and the decisions made
from them, the event worker, token authentication with its cache and the keys it
verifies with, the way of a request through the HTTP API, and the upgrade of the
authorization database. TLC checks small instances; TLAPS proves the safety
properties of nine of the modules for every instance.

    tlc -workers 2 -config PolicyReload_one.cfg MCPolicyReload
    tlapm PolicyReload_proofs.tla

`PROJECT.json` maps every definition to the lines it models and lists the runs,
the hazards, the mutations every property detects and the theorems.

## 1. Inventory

The service is one Go binary (`cmd/server`) run as several replicas over one
Postgres database, with NATS between them and the control plane. A replica runs
an HTTP server, a JetStream consumer, an outbox flusher and a cleanup ticker.

| component | state it keeps | operations | what makes it correct |
|---|---|---|---|
| authorizer (`internal/authorization`) | Casbin snapshot, decision and permission cache, `policyMutex`, two channels of capacity one | `Authorize`, `ReloadPolicy`, `ScheduleReloadPolicy`, `processInvalidations`, `Close` | an acknowledged revocation is in force; the cache belongs to the snapshot; peers catch up |
| SCIM (`internal/api/scim_*`, `internal/model/scim_*`) | users, groups, members, group-role mappings, managed memberships | create, patch, replace, delete of users and groups; mappings; reconciliation | roles follow the groups; human grants are not touched; a deprovisioned user stays out |
| user access (`sso`, `login`, `register`, `invitations`, `device_login_requests`) | sessions, invitations, device login requests, memberships | SSO callback, login, redeem, device request / decide / poll, logout, deprovisioning | single use; deprovisioning closes every route |
| memberships API | memberships | create, delete, replace, organization-wide removal | uniqueness, the last Admin, exact replacement |
| token authentication | per-replica cache of lookups | `InternalAuthenticate` | revocation takes effect at once or within the TTL; kinds are not confused |
| service users, platform principals, plugin workloads | tokens, roles, bindings, workload tokens | create, regenerate, delete, bind, exchange, bulk expiry | a plugin workload holds no role and no static token |
| event worker (`internal/worker`) | none of its own; resource rows and bindings | created, deleted and sync events; sync-scopes request | deleted resources lose access, live ones stay reachable |
| roles, permission matching, plugin capabilities | roles, bindings, registered capabilities, resource tree | seed, create, update, delete, grant, replace capabilities, check, list users | no dangling binding, seeded roles whole, a revoked right is refused, listing and decision agree |
| issuer key set, identity providers | cached public keys, ages, a mutex | verify, load, refill | retired keys are dropped, new ones found, nothing outlives its credential |
| authorization migration (`internal/authorizationmigration`, `cmd/authorization-migrate`) | schema version, migration state, resource parents | upgrade, apply, verify, rollback | fail closed, resumable, role data untouched |
| HTTP API (generated server, middlewares, guards) | none; per request the caller and whether it was authorized | 73 operations, SCIM routes | only entitled callers change anything; log-in stays reachable |
| SCIM wire format | none | normalization of PATCH bodies, pages | dialects mean the same; a repeated PATCH changes nothing |
| SSO and e-mail calls; outbox; generated client | - | - | not modelled (section 12) |

How they interact. Every request that changes memberships, roles, service users
or resources commits to Postgres and then calls `ReloadPolicy` (revocations) or
`ScheduleReloadPolicy` (grants) of its own replica, which tells the other
replicas through a NATS invalidation. The worker does the same after each event.
SCIM, the access routes and the memberships API write the same `memberships`
rows in different transactions, with different locks. The token cache reads what
service-user, principal and session operations write.

What is hard to test: a reload that overlaps a commit; a cache filled while the
policy is replaced; two SCIM transactions with locks on overlapping rows; a gate
read before, and used after, a concurrent deprovisioning; a count read without a
lock; events delivered twice, late or reordered, with a failing step in the
middle; a cached token that is revoked meanwhile. `PROJECT.json` lists each with
its line and the property that watches it.

## 2. Plan

Done, in this order: `PolicyReload` with its abstract specification and proofs;
`ScimReconcile`; `UserAccess`; `Memberships`; `WorkerEvents`; `TokenAuth`;
`AuthorizationMigration`; `VerificationKeys`; `Permissions` and `Roles`;
`ApiOperations` and `HttpApi`; `ScimWire`.

| module | EXTENDS or uses | run |
|---|---|---|
| `PolicyView`, `PolicyReload` | `PolicyReload` implements `PolicyView` | `reload_one`, `reload_two` |
| `ScimReconcile`, `ScimWire` | composed in `MCScimReconcile` | `scim` |
| `UserAccess`, `Memberships`, `WorkerEvents`, `TokenAuth` | - | `access`, `memberships`, `worker`, `tokens` |
| `AuthorizationMigration` | - | `upgrade`, `upgrade_restart` |
| `VerificationKeys` | - | `keys` |
| `Permissions`, `Roles` | `Roles` extends `Permissions` | `roles` |
| `ApiOperations`, `HttpApi` | `HttpApi` extends `ApiOperations` | `http` |

The configurations name some properties as conjunctions of the parts that the
sections below describe one by one:

| property | parts |
|---|---|
| `ScimInv`, `WireFormat` | `TypeOK`, `DeprovisionedStaysOut`, `DeleteDeadlocksOnlyByJoin`; `Repeatable`, `Agreement`, `Coverage` |
| `AccessInv`, `DeprovisioningIsFinal` | `TypeOK`, `UsedOnce`; `DeprovisionedStaysOut`, `RevokedStaysRevoked` |
| `MembershipInv`, `WorkerInv` | `MembershipsTypeOK`, `NoPhantomRows`; `TypeOK`, `LiveIsReachable` |
| `TokenInv`, `MigrationInv` | `TypeOK`, `KindsStayApart`, `WorkloadHoldsNothing`; `TypeOK`, `FailClosed`, `RollbackIsClean` |
| `KeysInv`, `TrustFollowsIssuer` | `TypeOK`, `MutexIsReleased`; `TrustEnds`, `RotationIsFollowed`, `KeysAreKept` |
| `RolesInv`, `DecisionsAgree` | `TypeOK`, `BuiltinRolesIntact`, `BindingsResolve`; `MatchingHierarchy`, `AdminMayDoEverything`, `AllowedAsListed` |
| `HttpInv`, `GatewayAgrees` | `TypeOK`, `AuthorizationAsserted`; `IdentityIsEarned`, `LoginIsReachable` |

`PROJECT.json` keeps one mutation per property of a run; for a conjunction it is
one that breaks a single part, so it says nothing of the sensitivity of the
others.

Proofs, each in a module `<component>_proofs`: first `PolicyReload`, then
`Memberships`, `WorkerEvents`, `UserAccess`, `TokenAuth`, `VerificationKeys`,
`ScimReconcile`, `AuthorizationMigration` and `Roles`; `RoleBindings_proofs`
extends both `Roles` and `Memberships`, the two modules that write role bindings
(hence `MembershipsInit`, `MembershipsNext` and so on). Section 12 says what is left to TLC and why.

Next:

1. *Abstract specifications* for the worker (a resource is in or out) and for
   the token cache (a token is valid until at most TTL after its revocation),
   with proofs that the modules implement them.
2. The SCIM profile of a person whom two organizations govern.

## 3. The authorizer: PolicyView, PolicyReload, PolicyReload_proofs

`PolicyReload` models `internal/authorization` and the way requests use it. The
database is a version, the number of committed policy changes. A snapshot is the
two versions its two queries read (`policies`, `relations`); the cache is the
set of versions its entries were computed from. What a policy *says* is left
out, so the model does not tell revocations from grants except by the call that
follows them (`CommitRevoke`, `CommitGrant`).

| model | code |
|---|---|
| `writer`, `readers`, `Lock`, `StartLoad`, `RLock`, `RUnlock` | `policyMutex`; a writer that waits keeps new readers out, as Go's `RWMutex` does |
| `QueryPolicies`, `QueryRelations`, `LoadFails` | `LoadPolicy` under the write lock; both queries see later commits than the lock |
| `Publish`, `PublishFails`, `Fanout`, `LoseMessage` | the invalidation of `ReloadPolicy`, at most once per peer |
| `SelectStop/Ticker/Invalidation/Deferred`, `Debounce`, `Absorb` | `processInvalidations`: Go's `select` picks any ready case |
| `PermissionCached` .. `StoreDecision` | `Authorize` and `knownCustomPermissions` under the read lock |
| `Boot` .. `Subscribe`, `Close`, `Shutdown`, `Crash` | `New`, `Close`, the end of `main` and `zap.L().Fatal` |

`PolicyView` is what a caller may rely on: an instance serves some version of
the policy that only moves forward, acknowledges only what it serves, and starts
again from the database. `ImplementsView` maps the detailed state to it.

Runs:

* `reload_one` - one instance, two requests, its worker, two changes, one
  graceful shutdown, one fault. `AckedVisible`: after a successful synchronous
  reload neither snapshot nor cache is older than the acknowledged change.
  `CacheMatchesSnapshot`, `DeferredNeverLost`, `SnapshotMonotonic`,
  `ImplementsView`. Two requests are what it takes for a check, a reload and the
  worker to meet at the lock; two changes for a reload to be stale.
* `reload_two` - two instances, one request, one fault, under `FairSpec`.
  `InvalidationReaches`: until a fault an acknowledged change has reached every
  peer or is on its way. `Convergence`: every serving instance ends up with
  every committed change, even when the message is lost, because the ticker of
  the peer fires.

Fairness (`FairSpec`): weak fairness of each goroutine's next step and of
`Shutdown`, since a runnable goroutine runs; strong fairness of `Lock`, since a
waiting writer of an `RWMutex` is not overtaken by new readers; the ticker case
is weakly fair with the worker's loop. Nothing is assumed about requests,
message delivery, starts or faults.

### What is proved

For every set of instances and handlers, every assignment of handlers to
instances and all bounds, from `ConstantsAssumption` alone:

`TypeCorrect`, `AckedChangesAreVisible`, `CacheIsConsistent`,
`ReloadsMoveForward`, `DeferredReloadsAreKept`, `InvalidationsReachPeers` and
`ReloadImplementsView` (with the initial-state and step conditions of the
refinement).

`AckedVisible` is not inductive. It speaks of instances that serve, and an
instance forgets its snapshot in a crash, so one has to know that what a booting
instance has read covers what was acknowledged (`ReadInv`, `AckInv`). That a
cached decision matches the snapshot needs that nobody caches during a load,
hence the lock discipline (`LockInv`, `ReaderInv`, `ExclusionInv`), and that a
decision about to be stored was computed from the present bindings (`ReadInv`).
`OrderInv` says that the second query is never behind the first. `TargetInv`
carries a request's own commit through its reload up to the acknowledgement, and
`OffInv` says nothing is left in a stopped instance. `IInv` is their conjunction
and each action preserves each conjunct it can disturb. `DeferredNeverLost`
needs `OwedInv` besides. For `InvalidationsReachPeers` the operator `Reached`
names the places a change can be on its way: the message, the channel, the
worker's reload, the snapshot; while no fault happened each step hands it from
one to the next. The induction is over steps, so it covers any number of
changes and instances.

`Convergence` is liveness under fairness and stays with TLC.

The other proofs modules follow the same plan: an inductive invariant `IInv`
whose conjuncts are named for what they say, which TLC has checked on the
component's run first; lemmas about the records and operators the steps share;
one lemma per action; then the theorems. They hold for all values of the
constants that satisfy the assumptions of the component's module.

## 4. SCIM: ScimReconcile

Requests are transactions that run concurrently under READ COMMITTED. The state
is the committed tables, the row locks (`FOR UPDATE` on groups and SCIM users,
the member rows that a group or user request deletes, the foreign key's `FOR KEY
SHARE` when members are inserted) and for each
transaction its program counter and private writes, which are applied when it
commits. Postgres' deadlock detector aborts any transaction of a cycle
(`DeadlockVictim`, external). Every other actor is an action of one step:
`GrantMembership` and `RevokeMembership` are the memberships API.

A transaction is split where it can wait for a lock or where it reads what
others can still change; statements between two such points are one step.
Finding a group by name and locking it are two steps, as the code re-reads.

A run has clients: a set of records that say which operations they send, to how
many groups, which groups exist at first and how many requests they send. The
choice is made in the initial state.

* `scim` - `Everyone`: all ten operations, one user, one group that does not
  exist at first, five requests, two at a time. `Provider`: two groups that
  exist and are not renamed, five requests of an identity provider.
  `DeprovisionedStaysOut` (reconciliation gives no role back to an inactive or
  deleted user), `HumanGrantsSurvive` (it removes and adopts only what SCIM
  manages), `ReconciledWhenQuiet` (with no request in flight an active user of
  `Provider` holds exactly the mapped roles, deadlock victims included),
  `DeleteDeadlocksOnlyByJoin` (a user deletion is in a deadlock only when it waits
  for a member row of a group that the user joined after `LockScimGroupsForUser`
  had listed the user's groups; a deadlock is a minimal set of transactions each
  of which waits for another of the set),
  `NoLostMemberUpdate` (a PATCH keeps the members of a concurrent PATCH). Also
  explored with two users.

`ScimWire` is what a PATCH body means. A JSON value is a pair of kind and
contents, an operation is normalised as `normalizePatchOps` does it and applied
as the handlers do it. Go visits the attributes of a pathless object in random
order, so normalisation yields a set of operation lists, empty when the request
is rejected. The same run checks, over all bodies of one or two operations from
a table of awkward ones: `Repeatable` (a PATCH that is sent again after
its answer was lost is accepted and changes nothing more), `Agreement`
(capitalised names, textual booleans, filters in paths, single objects and
pathless objects mean what the plain form means, in every attribute order), and
`Coverage` (following `startIndex` by what was returned reads every row of
an unchanging list once, up to 401 rows, with counts on both sides of the cap).
These speak of operators only and are evaluated in the first state.

Proved (`ScimReconcile_proofs`), for any transactions, rows, groups, names and
roles: `ProvisioningIsSafe` (`ScimInv`), `HumanGrantsSurviveEver` and
`NoLostMemberUpdateEver`. None of the three is inductive: all depend on what a
transaction read at an earlier statement. `RequestInv` says, per transaction,
which statements its kind goes through (`ShapeOf`), which locks it holds when
(`LockOf`), that behind the lock of a group the members it read are the members
(`MembersOf`), that a user request which may commit holds its row and saw the
version that is there (`UserOf`), and that a plan concerns rows that are active
behind their locks (`PlanOf`). `RowInv` keeps ids and versions apart. For the
deadlock: everybody in a cycle is waited for, whoever waits for a user deletion
that itself waits for a group is another such deletion and waits for a group
with a smaller id, and a set of ids has a least element; and a deletion that has
come to the member rows holds the group of each row it had listed (`KeepInv`: a
listed group is locked or gone), so that nobody else has such a row. The proof
showed that a
cycle has to be minimal: with three transactions a set in which everybody waits
also contains bystanders, so `WaitCycle` asks for no smaller one.

`RolesFollowGroups` (`ReconciledWhenQuiet`), `NoStaleRoles` and `OneLiveRow` are
proved on top of that from a second invariant, `CInv`. Quiescence says nothing
that an induction could use, so it was strengthened to what holds at every
commit: `SettledOf`, an active row manages exactly the roles its groups map to,
or Viewer. As `ReconciledWhenQuiet` itself, this is about clients that neither
create or rename groups nor grant or revoke by hand (`Calm`); section 13 says what
the other ones can do. A step keeps it only through what a transaction has
computed before its commit, hence three conjuncts per transaction: `KnowsOf` (the
name a group request writes back is the group's, and a mapping request has locked
every group of the name), `CoverOf` (the rows whose roles a group or mapping
request changes are locked by it or still to be locked) and `PlanFits` (a plan is
the difference between what the row holds and what it is to hold, and stays so
until it is applied, because whoever could change either side needs a lock the
transaction has). `LoneOf` says that a person has one live row, counting the one
in the unique index of a request that has not committed, so that no two rows
manage the memberships of one person; `OwnedOf` that each membership belongs to a
row of its person. `NoStaleRoles` is `SettledOf` stated for every committed state:
stronger than what the run checks, since requests may be in flight.
`WireFormat` is about operators over a table of bodies and stays with TLC.

Two rows of one person, two users with overlapping groups and larger bounds are
supported by the constants. Left out: the rows' attributes, sessions and
invitations (`UserAccess`).

## 5. People: UserAccess and Memberships

`UserAccess` models the routes by which a person obtains a role or a session in
one organization and what SCIM deprovisioning deletes, statement by statement.
A statement that writes a row another transaction has written waits for it and
then sees the row as committed; a row that is gone makes it fail (`WriteRow`).
`LockScimUser` admits one SCIM request per user, and the SCIM gate of the SSO
callback and of `RedeemInvitation` selects the same row `FOR UPDATE` (`ScimGate`),
so that a login and a deprovisioning of one user wait for each other. A user
without a SCIM row has none to lock.

* `access` - two users (one also of another organization), two sessions, one
  device request, one invitation, five requests. `UsedOnce`: a device login or
  invitation yields at most one session or membership. `DeprovisionedStaysOut`
  and `RevokedStaysRevoked`: a deprovisioning, whatever requests of the same user
  it overlaps, leaves no role, session or accepted device login, and none comes
  back without reactivation. `raced` names the two windows that no lock covers and
  that the properties leave out (section 13): a login or redemption that found no
  SCIM row, still in flight at the deprovisioning (`raced.role`), and a decision or
  poll in flight between the deletion of the sessions and the commit
  (`raced.credential`).

Proved (`UserAccess_proofs`), for any users, sessions, device requests,
invitations and requests in flight: `UsedOnceEver` (`AccessInv`) and
`DeprovisioningIsFinalEver`. The induction has to follow what a request read
through its later statements: `DocInv` (a row is still as it was read, or gone;
a row that was used is gone) with `LockInv` (what a request wrote is locked by
it) for single use; `GateInv` (who holds the SCIM row, and that a login without
it that meets a deprovisioning has raced), `RoleInv` (a deprovisioning deletes
every role there is, and a login in flight passed a gate that is still open),
`EpochInv` and `RevokeInv` (a credential of an older epoch is on the list of the
deprovisioning that revoked it) for the other.

`Memberships` models the four writers of the `memberships` table with
statement-level snapshots: a check reads committed rows, a delete or insert
happens later, waits for rows that another transaction has deleted and looks
again. A member of `Role` is a role at a scope; `Admin` are those of the Admin
role, since the check of `memberships.go:229` counts them at any scope (an
organization-wide Admin can be deleted while a scoped one is left). A request may
also fail after it has deleted rows (`InsertFails`), which brings them back.

* `memberships` - two users, the Admin role at two scopes and a viewer role, four
  rows, five requests, two at a time; requests, fresh ids and the two scopes are
  symmetric: `NoPhantomRows` (no row deleted twice, no pair of user and role twice),
  `DeletionsHold` (when a deletion, replacement or removal commits, no membership
  its target had when it began is left, even when another request deleted some of
  the rows first and then failed; `seen` remembers them),
  `ReplaceIsExact` (a replacement that overlaps none leaves exactly the new set; of
  two that overlap, both sets can be left).

Proved (`RoleBindings_proofs`), for any users, roles, rows and requests:
`NoPhantomRowsEver` (`MembershipInv`), `ReplaceIsExactEver`,
`DeletionsHoldEver`. `DelInv` says that a row a request has deleted is there and
locked by it until the commit, `NewInv` is the unique constraint among rows that
are not committed yet, `SoloInv` that a request which did not race is alone,
`ReplaceInv` that what it read is still so, and `SeenInv` where a row of the target
is at each statement: gone, to be picked, picked or deleted. The initial rows are
assumed to satisfy the table's unique constraint (`MembershipAssumption`).

## 6. Resources and events: WorkerEvents

The control plane's projects and environments (`cp`), the resource rows
(`table`), the role bindings, the loaded `policy`, the messages and the handler
slots. JetStream delivers a message up to `MaxDeliver` times, again after a
failure, a lost acknowledgement or a restart, in any order and to several
handlers at once. A handler is its list of statements; each is a step that may
fail before or after it took effect. `ReloadPolicy` is one step: `PolicyReload`
is what justifies it. The sync-scopes request lists the control plane page by
page and then writes.

* `worker` - one project, one environment, two handlers, one request, each
  resource created and deleted once, one fault, two deliveries instead of ten
  (one is a retry). `DeletedLosesAccess`: after the deletion is acknowledged no
  binding on the resource is in force. `LiveIsReachable`: an acknowledged
  resource is in the hierarchy under its project. `SyncRepairs`: a completed
  sync-scopes request puts every resource that existed throughout into the
  policy. Two faults were explored for several minutes without an error.

Proved (`WorkerEvents_proofs`), for any hierarchy, number of handlers, requests,
deliveries and faults: `LiveStaysReachable` (`WorkerInv`), `DeletionIsFinal`,
`SyncAlwaysRepairs`. The invariant carries what each handler has done so far:
what a creation handler has written stays while the resource exists
(`CreatedInv`), what a deletion handler has unbound stays unbound
(`DeletedInv`), what sync-scopes listed was there (`RequestInv`), and
`MessageInv` ties events to the changes they report. `LiveInv` states
`LiveIsReachable` row by row with the row above, which a deletion of another
resource might take away.

Assumed of the control plane: a project is deleted after its environments. A
binding whose scope was validated before, and inserted after, the deletion is
excluded from `DeletedLosesAccess` (`late`): the code does not prevent it.

## 7. Tokens: TokenAuth

Principals, roles, bindings, workload tokens, sessions, and per replica the
cache of `GetTokenByHashCache` with the time each entry has left. A lookup and
the caching of its result are two steps, at most `MaxLookup` apart; between them
the lookup of a static token reads the binding in a query of its own. The exchange
of a plugin workload token reads the binding in one step and inserts the token
in another. A token's payload is presented as the kind it was issued for, and a
static token also without its prefix, that is as a session (`Presented`).

* `tokens` - one principal that may be legacy, of the organization or of the
  platform, two payloads, two bindings, one request, TTL of two ticks.
  `RevokedAtOnce`: a session or workload token revoked before the request
  started is refused. `StaticRevocationBounded`: a static token is accepted for
  at most TTL (plus a lookup under way) after its revocation.
  `KindsStayApart`, `WorkloadHoldsNothing`, `NegativesAreFinal` (extending
  negative entries never hides a token that can be valid).

Proved (`TokenAuth_proofs`), for any principals, payloads, bindings, replicas and
requests, every TTL and every duration of a lookup: `KindsStayApartEver`
(`TokenInv`), `RevokedAtOnceEver`, `NegativesAreFinalEver`,
`StaticRevocationIsBounded`. What an answer says was read up to two steps and one
TTL earlier, so the invariant states it of every place an answer can be: the rows
(`RowsInv`), a lookup under way with its age (`StoreInv`), a cache entry with the
time it has left (`CacheInv`: time since the revocation plus time left stay
below the cap) and an accepted request (`AnswerInv`). `GoneInv` says that a
payload without a row was revoked or has expired, which makes negative entries
final. It is assumed that `None` is no principal, payload, binding or kind.

One replica suffices for TLC because caches share nothing; one request in flight meets
every management operation in between. Tokens of legacy bindings are
excluded from `NegativesAreFinal`: removing the roles of such a service user
makes a refused token valid again, and the old negative entry refuses it for a
while longer.

## 8. The database upgrade: AuthorizationMigration

Two replicas run `Upgrade` before they serve, an operator runs
`authorization-migrate` (apply, rollback), the control plane and clients write
meanwhile. A schema migration is one transaction; a process stops between any
two statements, by a crash, an error or a deliberate stop, which releases the
advisory lock, and Kubernetes starts it again. The versions are abstracted to
one below the legacy schema, the legacy one, one between, Casbin's and one
above. Role data is the rows of `memberships` and `service_user_roles`, with the
old memberships whose role is in the subject column alone; migration 30 rewrites
those rows. The fingerprint is what `policyFingerprint` makes of the roles and
the rows, each by its `COALESCE(role, subject)`; the projection `scoped_roles` is
compared with the bindings by scope and role, as the coverage query does. The
roles of the organization come and go together, their names and permissions are
left out (no migration touches them). That IAM does not run during a rollback is
the operator's promise (`--confirm-no-rbac-writes`), not something the command
looks at; the model takes the operator at its word.

* `upgrade` - seven starting databases (fresh, legacy, legacy with an uncovered
  binding, first Casbin release done and half done, older, newer), four faults,
  two writes. `FailClosed`: while a replica serves, the schema is complete, the
  upgrade recorded, every user binding names its role and no environment
  inherits from anything but its project. `UpgradeKeepsPolicy`: an
  upgrade is recorded as done only with the roles and bindings with which it left
  the legacy schema (history variable `origin`), although migration 30 rewrites
  the rows, a crash loses the fingerprint of the preflight, and the attempts that
  follow take what they find. `RollbackIsClean`: a rollback
  that reached the legacy schema passes the preflight with the data of its
  report. `EventuallyServes`: once the operator leaves the deployment alone every
  replica serves in the end, unless the database is `Stranded`.
* `upgrade_restart` (violation) - the same from a fresh or a legacy database
  with one fault, without the exception, as the migration guide states it: a
  crash while the schema of a fresh database is being created leaves a version
  that no later start accepts.

Proved (`AuthorizationMigration_proofs`), for any replicas, projects,
environments and starting databases, and any number of faults and writes:
`UpgradeFailsClosed` (`MigrationInv`) and `UpgradeKeepsPolicyEver`. `FailClosed` speaks
of replicas that serve and is kept by what the others may do meanwhile. The
invariant says that whoever upgrades holds the advisory lock and that a
deployment scaled to zero runs nothing (`LockInv`), what the state table says of
the data (`StateInv`: reconciled means that every binding names its role and no
environment hangs below the organization), how far an upgrade has got
(`PhaseInv`: from the state table on the schema is the latest one, which is why
nobody migrates under a serving replica), and that a rollback, which takes no
lock, runs alone with the data of its report (`UndoOf`), and that the fingerprint
is still `origin` as long as an upgrade that left the legacy schema is not
recorded (`OriginInv`: nobody serves, so nobody writes). `StartAssumption` says
what databases there are: well-typed, a state table exactly from the Casbin
schema on, and an upgrade recorded as reconciled only if it was.
`EventuallyServes` and `RestartIsSafe` are liveness and stay with TLC.

Fairness: a replica is started again (weak, Kubernetes), takes the advisory
lock if it becomes free again and again (strong: Postgres queues the waiters),
and takes its own next step (weak). Nothing is assumed of the operator, faults
or writes.

## 9. Keys: VerificationKeys

One issuer that rotates its keys and is sometimes out of reach, and the cache
that watches it: `KeySet` of the cluster issuer (a mutex, a maximum age,
reloads spaced by an interval) or the map of the Google or Microsoft provider
(no lock, refilled on an unknown key id, never emptied). Time is kept as ages
that stop counting past every limit. A fetch and the storing of its result are
two steps; a map is filled key by key, so another login may read it half full.

* `keys` - two keys (one RSA, the other EC or for encryption), two requests.
  `TrustEnds`: a signature that passes was made with a key published less than
  the maximum age ago, unless the issuer was in trouble. `RotationIsFollowed`: a
  key id published for the reload interval is not refused, whatever unknown key
  ids others asked for. `KeysAreKept`: a failing reload keeps the keys.
  `MutexIsReleased`. `NeverOutlives`: as long as an issued token is
  accepted the ServiceAccount token it was exchanged for is valid, though time
  passes between the check of that token, the computation of the lifetime, the
  insertion and the use (the configured lifetime of 1 and tokens valid for up to
  2 make either of them the shorter one). `LoginSucceeds`: a login
  whose key was published throughout is not refused for its signature, unless a
  refill of the map overlapped it.

Proved (`VerificationKeys_proofs`), for any keys and requests and every interval,
timeout and maximum age that the assumption orders as the code does:
`MutexIsReleasedEver` (`KeysInv`), `TrustFollowsIssuerEver`, `NeverOutlivesEver`,
`LoginSucceedsEver`. `AgeInv` bounds the age of what is held: a key that is no
longer published was withdrawn after the last load, and if the last attempt
brought nothing newer the issuer was in trouble then. `FillInv` follows a refill
of the providers' map: a login that is owed an answer finds its key among those
stored or still to be stored while nobody else refills. `LeftInv` compares what is
left of an issued token with what is left of its credential from the moment the
expiry is computed. (The replica's clock sets an expiry and the database's clock
ends it; the model has one clock.)

Two keys make a rotation, two requests share one load. The interval, the timeout
and the maximum age are 2, 1 and 3 ticks, which keeps the code's order.

## 10. Roles and permissions: Permissions, Roles

`Permissions` is the catalogue, the resources and `permissionMatch`, all
constant. `Roles` has the rows of roles, bindings, resources and capabilities,
the instance's policy and its cache of known custom permissions. A handler
reads, writes and reloads in separate steps; a check holds the read lock, so
no reload happens within it. A reload may fail, with the old snapshot and an empty
cache or, when only the publication failed, with the new snapshot: the write stays
committed, its request is answered with an error and nothing counts as taken away
(`ReloadFails`). A revocation removes one binding or all of a subject's. The engine
has the resource tree as relations and reaches along them in any number of steps
(`g2`); the listing walks the rows to a depth of three (`effective_scopes`). One
client at a time walks through the pages of the user listing, each of which is
authorized anew and may be refused.

* `roles` - two requests at a time, three in all, one custom role, one human and one service
  user, a project and an environment, one plugin with one capability.
  `BuiltinRolesIntact`: an organization has all three built-in roles as seeded
  or none, whoever seeds at the same time. `BindingsResolve`: no binding outlives
  its role. `RevokedIsRefused`: a check that began after the revoking request
  was answered is refused. `AdminMayDoEverything`: whom the SQL query calls an
  administrator the policy allows a permission of every level, provisioning and
  the plugins' capabilities; that `manage_all` covers the rest of the catalogue
  is part of `MatchingHierarchy`. Not conversely: a custom role may hold
  `manage_all` too. `AllowedAsListed`: the permissions from which the engine decides
  about a subject on a resource are those of the roles the listing finds for it,
  no more and no fewer. Both speak of a current snapshot; the window in which it
  lags is the matter of `RevokedIsRefused` and of section 3. `WalkIsComplete`:
  following the page tokens while bindings change yields everybody who was there
  throughout, nobody twice. `MatchingHierarchy`: what the wildcards and the old
  grants confer.

Three requests are a grant, its revocation and a check, or two seeds and a
write.

Proved (`RoleBindings_proofs`), for any requests in flight, any finite set of
subjects, any number of requests and every page size: `RolesInvEver`,
`RevokedIsRefusedEver`, `WalkIsCompleteEver` and `DecisionsAgreeEver`.

* That the built-in roles are whole needs that they have the first three ids and
  that whoever is about to write or delete a role has checked that it is not one
  of them (`RoleRowsInv`, `Validated`): the check and the write are two steps, and
  another request may seed in between.
* `RevokedIsRefused` is about a request that has returned. `GoneInv` and
  `UnregisteredInv` say that what it took away is neither in the tables nor in
  the policy nor in the cache of known permissions; `CleanInv` says, for each
  place a check can be at, why it is going to be refused.
* `WalkInv`: what a client has been given is in ascending order, ends at the
  cursor and lacks nobody who was there throughout up to it. That a sorted list
  of a finite set exists, and has every member once, is `AscendingExists`, by
  induction on the number of members.
* `DecisionsAgree` compares computations over the same rows: the grants of the
  loaded policy along the relations (`EngineReachesChain`: the least closed set), the
  effective bindings of the listing (`QueryWalksChain`: row by row to the depth) and
  the administrator query. Both walks give the same chain only because a recorded
  resource has its parent's row (`TablesInv`). `AllowedIfListed` then equates grants
  and roles, `AdminAllowed` follows an administrator's binding, `Hierarchy` goes
  through the catalogue.

Subjects are assumed to be positive numbers, finitely many, as the rows of a
table are; the order of the numbers is that of the printed ids.

## 11. The HTTP API: ApiOperations, HttpApi

`ApiOperations` holds as tables what the generated server declares: the route
and method of each operation, whether its wrapper sets a security scope, its
parameters and body. `HttpApi` takes one
request through the gateway's authentication call, the wrapper, the decoding of
the body, the asserter and the authentication middleware, the guard at the head
of the handler, the work and the assertion. What the handler does is reduced to
whether it answers or fails. The caller may lose rights, be deactivated or be
bound to a plugin workload at any time; the lookups of a guard may fail. A guard
is one step with the start of the work, so a deactivation between the two counts
as one that comes after the start.

* `http` - every operation with every kind of credential, malformed parameter
  and body, and rights. `EntitledOnly`: work starts only for callers that the
  path entitles (readers, writers, the person itself, live platform permission
  holders that are no plugin workload, the cluster). `DeactivatedChangesNothing`: a deactivated caller starts
  no change below an organization or the platform, although its token is cached.
  `IdentityIsEarned`: behind the gateway nobody but the holder of the credential
  appears as the caller, and the nil identity of the skipped paths reaches no
  operation that asks for one. `LoginIsReachable`: what needs no token is not
  refused for lacking one. `AuthorizationAsserted`: the asserter never fires after
  work was done, which compares the pattern of operations it skips with the heads
  of the handlers; its two firings, on the refusals of `CreateInvitation` without an
  e-mail provider and of `RedeemInvitation` for a caller that is not human, are
  stated in the property.

External and assumed: the gateway replaces the From header by the answer of the
authentication call and does not route `/internal`.

## 12. Bounds, abstractions, what is left out

Every bound is a constant named `Max...`, a client's limit, or the size of a pool
of ids; a run that uses up its pool stops, hence `CHECK_DEADLOCK FALSE` in all
cfgs but those of `PolicyReload` and `HttpApi`. Symmetry is declared for
interchangeable transactions, handlers, requests, sessions, payloads and
bindings, in runs without liveness.

Only model-checked:

* the liveness properties `Convergence`, `EventuallyServes` and `RestartIsSafe`:
  the prover has neither fairness nor `ENABLED`;
* `WireFormat` (section 4): it speaks of the operators of `ScimWire`
  over a fixed table of bodies, all of which the run evaluates;
* `HttpApi`: `HttpInv`, `GatewayAgrees`, `EntitledOnly` and
  `DeactivatedChangesNothing` are about one request and finite tables, and the
  run visits every case there is.

Induction over data. The prover cannot instantiate the induction schemes of its
library, which take an operator as a parameter. The one place that needs it, the
sorted list of section 10, goes through the theorem that a well-founded relation
has minimal elements, which speaks of sets: a counterexample of least size has a
smaller one. `Roles` therefore defines the list by what it is (`Ascending`)
rather than by a sorting operator.

Not modelled: calls to Keycloak and SendGrid (their answers are inputs); the
rendering of SCIM resources, PUT and POST bodies and the filter; cryptographic
verification and claims of subject tokens; the outbox library, which delivers
rows the modelled transactions insert; read-only listings but the two that are
named; configuration, logging and telemetry; the generated client, which builds
requests for the operations of `ApiOperations` in other services.

## 13. Observations

One statement of the repository that the code does not keep is a run that ends
in a violation (`upgrade_restart`); `PROJECT.json` quotes it. Met while
modelling, without a run:

* `reconcileScimUserRoles` continues after a membership conflict
  (`scim_service.go:295`), but the failed INSERT has aborted the transaction, so
  provisioning a user who holds a mapped role by a human grant fails; the comment
  at 197-199 says the conflict is swallowed. `ScimReconcile` models the abort.
* The SCIM gate of the SSO callback and of `RedeemInvitation` locks the user's
  SCIM row (`scim_users.go:289`), but a user who has none yet is not locked: when
  SCIM provisions and deprovisions the user before the login commits, the login
  still inserts its membership. Hence `raced.role` in `UserAccess`.
* Decisions and polls of device logins lock no SCIM row. One that is in flight when
  the deprovisioning deletes the sessions, or begins before it commits, leaves an
  accepted request or a session behind (`device_login_requests.go:218`, `:126`).
  Hence `raced.credential`.
* `LockScimGroupsForUser` (`scim_groups.go:316`) lists the user's groups before the
  user is locked. When the user joins another group in between, the deletion goes
  on to delete the member row of a group it has not locked, while a PATCH of that
  group has deleted the row and waits for the user: the deadlock its comment
  speaks of, which Postgres resolves by aborting one of the two.
* Two overlapping deletions of the last two Admin memberships both pass the check
  of `memberships.go:229`, which locks nothing. No property promises more; `raced` in
  `Memberships` is there because two replacements that overlap can leave both sets.
* `InternalSyncOrgScopes` (`org_actions.go:62`) leaves projects without
  environments out of what it writes and counts them as synced; the operation is
  described as syncing all projects (`openapi/spec.yaml:546`).
* Without an e-mail provider `CreateInvitation` answers 400 before it authorizes
  (`invitations.go:72`), and so does `RedeemInvitation` to a service or system user
  (`invitations.go:271`); the asserter turns both into a server error. The tests
  (`invitations_test.go:90-94`, `:346`, `:356`) call the handlers without it and
  expect the 400.
* Upgrade: an environment deleted in the control plane during the upgrade window
  is recreated below the organization; a binding added late on a removed resource
  fails the coverage check of every replica that restarts; rollback requires
  exactly the first Casbin schema while the binary migrates further, and takes
  no advisory lock; a crash between migration 30 and the storing of the
  fingerprint loses the preflight's fingerprint.
* Keys: an empty published set keeps old keys trusted beyond the maximum age;
  tokens without a key id trigger no reload before it; one key that is not RSA
  fails the whole refill of the Microsoft cache, whose comment
  (`microsoft_oauth.go:93`) speaks of caching only the valid ones; these maps are
  read and written without a lock.
* Roles: the system user may create a role in an organization that has none,
  after which the built-in ones are never seeded; a role keeps an unregistered
  plugin permission, which revives with the next registration; `CheckPermissions`
  asks for no liveness and treats `member` as unknown where `InternalAuthorize`
  normalises it.
* API: `ListProjectUsers` and `ListEnvironmentUsers` ask for no liveness;
  optional bodies left out are nil pointers that a handler may dereference, before
  any write; SCIM and admin routes bypass the asserter.
* SCIM bodies: `active: null` decodes to false and deactivates the user;
  `replace` of `members` without a value empties the group; `members` inside a
  pathless object is ignored; keys of a pathless object that differ only in case
  are applied in random order. Lists are ordered by `created_at` alone, so rows
  of the same instant may change places between two pages.
* `applyGlobalUserFields` (`scim_service.go:731`) counts the organizations that
  govern a user and then writes, under READ COMMITTED: two organizations that
  provision the person at the same time may both write.
* `Close` may stop the worker while a deferred reload is buffered
  (`authorization.go:213`); the comment at 177-178 promises the broadcast. Peers
  see the change with their ticker.
* `DeleteOrgMembership` (`api/memberships.go:238`) tests the not-found answer the
  wrong way round, so a concurrent deletion is reported as an internal error.
* The recovered panic of a handler (`observer.go:16-27`) is assigned after the
  result was fixed, so the message is acknowledged; `WorkerEvents` models it.
* A mapping written while a group of that name is being created
  (`scim_group_mappings.go:79-82`) finds no group to reconcile.
* Two PATCHes of different groups with common members can deadlock through the
  foreign key's share locks (`model/scim_groups.go:224`); one is aborted.
* Two users may decide one device login request
  (`api/device_login_requests.go:245`); the later decision stands.
* Overlapping replacements of one user's memberships (`api/memberships.go:334`)
  merge.
* A created event redelivered after the deletion inserts the row again; nothing
  is bound to it.
