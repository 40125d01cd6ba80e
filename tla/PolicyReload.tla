---------------------------- MODULE PolicyReload ----------------------------
(***************************************************************************)
(* The in-memory authorization policy of every IAM instance and how it is  *)
(* kept up to date (internal/authorization, used by internal/api and       *)
(* internal/worker).                                                       *)
(*                                                                         *)
(* The database is abstracted to a version: the number of committed        *)
(* transactions that changed memberships, roles or resource relations.     *)
(* An instance serves from a snapshot that two separate queries load, and  *)
(* from one cache of decisions and of known custom permissions; both are   *)
(* represented by the database version their data was read at.             *)
(*                                                                         *)
(* Request handlers answer permission checks under the read side of        *)
(* policyMutex, or commit a change and then either call ReloadPolicy       *)
(* (synchronous) or ScheduleReloadPolicy (coalesced).  Every instance also *)
(* runs processInvalidations, the worker.  The worker of instance i is the *)
(* process named i.                                                        *)
(***************************************************************************)
EXTENDS Naturals, FiniteSets

CONSTANTS
    Instance,    \* IAM server processes
    Handler,     \* request goroutines
    Host,        \* the instance a request goroutine runs in
    None,        \* no process holds or awaits the write lock
    MaxVersion,  \* bound: policy changes committed
    MaxCloses,   \* bound: graceful shutdowns
    MaxFaults    \* bound: failed queries, failed publishes, lost messages, crashes

ASSUME ConstantsAssumption ==
    /\ Instance \cap Handler = {}
    /\ Host \in [Handler -> Instance]
    /\ None \notin Instance \cup Handler
    /\ MaxVersion \in Nat
    /\ MaxCloses \in Nat
    /\ MaxFaults \in Nat

Proc == Instance \cup Handler

\* The instance whose memory the process shares.
Home(p) == IF p \in Handler THEN Host[p] ELSE p

VARIABLES
    db,                    \* version of the committed policy tables
    policies,              \* [i] version of the role bindings in the enforcer
    relations,             \* [i] version of the resource hierarchy in the enforcer
    decisions,             \* [i] versions of the cached decisions
    known,                 \* [i] versions of the cached known-permission answers
    writer,                \* [i] who announced or holds policyMutex.Lock
    readers,               \* [i] handlers holding policyMutex.RLock
    pc,                    \* [p] where the goroutine is
    read,                  \* [p] version it read and has not stored yet
    target,                \* [h] version the handler's own commit produced
    broadcast,             \* [i] the worker runs ReloadPolicy, not reloadPolicy
    deferredReloads,       \* [i] the channel of capacity one is full
    invalidationRequests,  \* [i] the channel of capacity one is full
    bus,                   \* [<<o, d>>] NATS messages from o on their way to d
    closing,               \* [i] stopInvalidations is closed
    closes,                \* graceful shutdowns so far
    faults,                \* faults that happened so far
    acked,                 \* [i] latest version a successful ReloadPolicy answered for
    owed,                  \* [i] latest version ScheduleReloadPolicy still owes a reload
    since                  \* [i] database version when the instance subscribed

lockVars == <<writer, readers>>
snapVars == <<policies, relations>>
cacheVars == <<decisions, known>>
chanVars == <<deferredReloads, invalidationRequests, bus>>
ghostVars == <<acked, owed, since>>
vars == <<db, policies, relations, decisions, known, writer, readers, pc, read,
          target, broadcast, deferredReloads, invalidationRequests, bus,
          closing, closes, faults, acked, owed, since>>

Booting == {"boot_policies", "boot_relations", "subscribe"}
Loading == {"policies", "relations"}
WorkerPC == {"off", "select", "debounce", "absorb", "lock", "drain", "publish",
             "stopped"} \cup Booting \cup Loading
HandlerPC == {"idle", "lock", "drain", "publish", "schedule", "permissions",
              "store_permission", "enforce", "store_decision"} \cup Loading
Reading == {"permissions", "store_permission", "enforce", "store_decision"}

\* The HTTP server runs from the end of New until the process exits.
Serving(i) == pc[i] \notin {"off"} \cup Booting
\* Close unsubscribes before it stops the worker.
Subscribed(i) == Serving(i) /\ ~closing[i]

TypeOK ==
    /\ db \in 0..MaxVersion
    /\ policies \in [Instance -> 0..MaxVersion]
    /\ relations \in [Instance -> 0..MaxVersion]
    /\ decisions \in [Instance -> SUBSET (0..MaxVersion)]
    /\ known \in [Instance -> SUBSET (0..MaxVersion)]
    /\ writer \in [Instance -> Proc \cup {None}]
    /\ readers \in [Instance -> SUBSET Handler]
    /\ pc \in [Proc -> WorkerPC \cup HandlerPC]
    /\ \A i \in Instance : pc[i] \in WorkerPC
    /\ \A h \in Handler : pc[h] \in HandlerPC
    /\ read \in [Proc -> 0..MaxVersion]
    /\ target \in [Handler -> 0..MaxVersion]
    /\ broadcast \in [Instance -> BOOLEAN]
    /\ deferredReloads \in [Instance -> BOOLEAN]
    /\ invalidationRequests \in [Instance -> BOOLEAN]
    /\ bus \in [Instance \X Instance -> Nat]
    /\ closing \in [Instance -> BOOLEAN]
    /\ closes \in 0..MaxCloses
    /\ faults \in 0..MaxFaults
    /\ acked \in [Instance -> 0..MaxVersion]
    /\ owed \in [Instance -> 0..MaxVersion]
    /\ since \in [Instance -> 0..MaxVersion]

Init ==
    /\ db = 0
    /\ policies = [i \in Instance |-> 0]
    /\ relations = [i \in Instance |-> 0]
    /\ decisions = [i \in Instance |-> {}]
    /\ known = [i \in Instance |-> {}]
    /\ writer = [i \in Instance |-> None]
    /\ readers = [i \in Instance |-> {}]
    /\ pc = [p \in Proc |-> IF p \in Handler THEN "idle" ELSE "off"]
    /\ read = [p \in Proc |-> 0]
    /\ target = [h \in Handler |-> 0]
    /\ broadcast = [i \in Instance |-> FALSE]
    /\ deferredReloads = [i \in Instance |-> FALSE]
    /\ invalidationRequests = [i \in Instance |-> FALSE]
    /\ bus = [m \in Instance \X Instance |-> 0]
    /\ closing = [i \in Instance |-> FALSE]
    /\ closes = 0
    /\ faults = 0
    /\ acked = [i \in Instance |-> 0]
    /\ owed = [i \in Instance |-> 0]
    /\ since = [i \in Instance |-> 0]

Goto(p, label) == pc' = [pc EXCEPT ![p] = label]
Fault == faults < MaxFaults /\ faults' = faults + 1
\* What a goroutine read is gone when its call returns.
Forget(p) == read' = [read EXCEPT ![p] = 0]

-----------------------------------------------------------------------------
(* Requests that change access: commit, then reload or schedule.           *)

\* The transaction commits; a handler that revoked access then reloads
\* synchronously, one that only granted access schedules the reload.
Commit(h, next) ==
    /\ pc[h] = "idle"
    /\ Serving(Host[h])
    /\ db < MaxVersion
    /\ db' = db + 1
    /\ target' = [target EXCEPT ![h] = db + 1]
    /\ Goto(h, next)
    /\ UNCHANGED <<snapVars, cacheVars, lockVars, read, broadcast, chanVars,
                   closing, closes, faults, ghostVars>>

CommitRevoke(h) == Commit(h, "lock")
CommitGrant(h) == Commit(h, "schedule")

ScheduleReloadPolicy(h) ==
    /\ pc[h] = "schedule"
    /\ Goto(h, "idle")
    /\ deferredReloads' = [deferredReloads EXCEPT ![Host[h]] = TRUE]
    /\ owed' = [owed EXCEPT ![Host[h]] = IF @ < target[h] THEN target[h] ELSE @]
    /\ UNCHANGED <<db, snapVars, cacheVars, lockVars, read, target, broadcast,
                   invalidationRequests, bus, closing, closes, faults, acked, since>>

-----------------------------------------------------------------------------
(* reloadPolicy and ReloadPolicy, for handlers and for the worker.         *)

LockIgnoringWritersBug(p) ==
    /\ pc[p] = "lock"
    /\ writer' = [writer EXCEPT ![Home(p)] = p]
    /\ Goto(p, "drain")
    /\ UNCHANGED <<db, snapVars, cacheVars, readers, read, target, broadcast,
                   chanVars, closing, closes, faults, ghostVars>>

\* policyMutex.Lock first excludes other writers and new readers ...
Lock(p) ==
    /\ pc[p] = "lock"
    /\ writer[Home(p)] = None
    /\ writer' = [writer EXCEPT ![Home(p)] = p]
    /\ Goto(p, "drain")
    /\ UNCHANGED <<db, snapVars, cacheVars, readers, read, target, broadcast,
                   chanVars, closing, closes, faults, ghostVars>>

StartLoadKeepingCacheBug(p) ==
    /\ pc[p] = "drain"
    /\ readers[Home(p)] = {}
    /\ Goto(p, "policies")
    /\ UNCHANGED <<db, snapVars, cacheVars, lockVars, read, target, broadcast,
                   chanVars, closing, closes, faults, ghostVars>>

StartLoadDespiteReadersBug(p) ==
    /\ pc[p] = "drain"
    /\ decisions' = [decisions EXCEPT ![Home(p)] = {}]
    /\ known' = [known EXCEPT ![Home(p)] = {}]
    /\ Goto(p, "policies")
    /\ UNCHANGED <<db, snapVars, lockVars, read, target, broadcast, chanVars,
                   closing, closes, faults, ghostVars>>

\* ... then waits for the readers.  The cached enforcer's LoadPolicy clears
\* the cache before it queries.
StartLoad(p) ==
    /\ pc[p] = "drain"
    /\ readers[Home(p)] = {}
    /\ decisions' = [decisions EXCEPT ![Home(p)] = {}]
    /\ known' = [known EXCEPT ![Home(p)] = {}]
    /\ Goto(p, "policies")
    /\ UNCHANGED <<db, snapVars, lockVars, read, target, broadcast, chanVars,
                   closing, closes, faults, ghostVars>>

QueryPolicies(p) ==
    /\ pc[p] = "policies"
    /\ read' = [read EXCEPT ![p] = db]
    /\ Goto(p, "relations")
    /\ UNCHANGED <<db, snapVars, cacheVars, lockVars, target, broadcast,
                   chanVars, closing, closes, faults, ghostVars>>

\* Where a goroutine continues when reloadPolicy or ReloadPolicy returns: the
\* worker looks at the stop channel only after a deferred reload.
AfterReload(p) ==
    IF p \in Handler THEN "idle"
    ELSE IF broadcast[p] /\ closing[p] THEN "stopped" ELSE "select"

\* The second query, in a statement of its own; the new model replaces the
\* old one and the lock is released.
QueryRelations(p) ==
    /\ pc[p] = "relations"
    /\ policies' = [policies EXCEPT ![Home(p)] = read[p]]
    /\ relations' = [relations EXCEPT ![Home(p)] = db]
    /\ writer' = [writer EXCEPT ![Home(p)] = None]
    /\ Goto(p, IF p \in Handler \/ broadcast[p] THEN "publish" ELSE AfterReload(p))
    /\ UNCHANGED <<db, cacheVars, readers, read, target, broadcast, chanVars,
                   closing, closes, faults, ghostVars>>

\* A deferred reload answers for every version that its first query saw; one
\* that failed in the first query was still attempted after those calls.
Discharge(p) ==
    owed' = IF p \in Instance /\ broadcast[p] /\ (pc[p] = "policies" \/ owed[p] <= read[p])
            THEN [owed EXCEPT ![p] = 0] ELSE owed

\* A query fails: the enforcer keeps the old model, its cache stays cleared.
LoadFails(p) ==
    /\ pc[p] \in Loading
    /\ Fault
    /\ writer' = [writer EXCEPT ![Home(p)] = None]
    /\ Goto(p, AfterReload(p))
    /\ Forget(p)
    /\ Discharge(p)
    /\ UNCHANGED <<db, snapVars, cacheVars, readers, target, broadcast,
                   chanVars, closing, closes, acked, since>>

\* NATS fans a message out to the current subscribers, the publisher included.
Fanout(o) ==
    bus' = [m \in Instance \X Instance |->
              IF m[1] = o /\ Subscribed(m[2]) THEN bus[m] + 1 ELSE bus[m]]

PublishThenAbsorbBug(p) ==
    /\ pc[p] = "publish"
    /\ Fanout(Home(p))
    /\ acked' = IF p \in Handler /\ acked[Home(p)] < target[p]
                THEN [acked EXCEPT ![Home(p)] = target[p]] ELSE acked
    /\ deferredReloads' = [i \in Instance |-> i # p /\ deferredReloads[i]]
    /\ Forget(p)
    /\ Discharge(p)
    /\ Goto(p, AfterReload(p))
    /\ UNCHANGED <<db, snapVars, cacheVars, lockVars, target, broadcast,
                   invalidationRequests, closing, closes, faults, since>>

\* ReloadPolicy returns without an error: the handler may answer the request.
Publish(p) ==
    /\ pc[p] = "publish"
    /\ Fanout(Home(p))
    /\ acked' = IF p \in Handler /\ acked[Home(p)] < target[p]
                THEN [acked EXCEPT ![Home(p)] = target[p]] ELSE acked
    /\ Forget(p)
    /\ Discharge(p)
    /\ Goto(p, AfterReload(p))
    /\ UNCHANGED <<db, snapVars, cacheVars, lockVars, target, broadcast,
                   deferredReloads, invalidationRequests, closing, closes, faults, since>>

PublishFails(p) ==
    /\ pc[p] = "publish"
    /\ Fault
    /\ Forget(p)
    /\ Discharge(p)
    /\ Goto(p, AfterReload(p))
    /\ UNCHANGED <<db, snapVars, cacheVars, lockVars, target, broadcast,
                   chanVars, closing, closes, acked, since>>

-----------------------------------------------------------------------------
(* processInvalidations, the worker of instance i.                         *)

SelectStop(i) ==
    /\ pc[i] = "select"
    /\ closing[i]
    /\ Goto(i, "stopped")
    /\ UNCHANGED <<db, snapVars, cacheVars, lockVars, read, target, broadcast,
                   chanVars, closing, closes, faults, ghostVars>>

SelectTickerLostBug(i) ==
    /\ pc[i] = "select" /\ invalidationRequests[i]
    /\ broadcast' = [broadcast EXCEPT ![i] = FALSE]
    /\ Goto(i, "lock")
    /\ UNCHANGED <<db, snapVars, cacheVars, lockVars, read, target, chanVars,
                   closing, closes, faults, ghostVars>>

SelectTicker(i) ==
    /\ pc[i] = "select"
    /\ broadcast' = [broadcast EXCEPT ![i] = FALSE]
    /\ Goto(i, "lock")
    /\ UNCHANGED <<db, snapVars, cacheVars, lockVars, read, target, chanVars,
                   closing, closes, faults, ghostVars>>

SelectInvalidation(i) ==
    /\ pc[i] = "select"
    /\ invalidationRequests[i]
    /\ invalidationRequests' = [invalidationRequests EXCEPT ![i] = FALSE]
    /\ broadcast' = [broadcast EXCEPT ![i] = FALSE]
    /\ Goto(i, "lock")
    /\ UNCHANGED <<db, snapVars, cacheVars, lockVars, read, target,
                   deferredReloads, bus, closing, closes, faults, ghostVars>>

SelectDeferred(i) ==
    /\ pc[i] = "select"
    /\ deferredReloads[i]
    /\ deferredReloads' = [deferredReloads EXCEPT ![i] = FALSE]
    /\ broadcast' = [broadcast EXCEPT ![i] = TRUE]
    /\ Goto(i, "debounce")
    /\ UNCHANGED <<db, snapVars, cacheVars, lockVars, read, target,
                   invalidationRequests, bus, closing, closes, faults, ghostVars>>

\* The debounce window ends with its timer or with the stop signal.
Debounce(i) ==
    /\ pc[i] = "debounce"
    /\ Goto(i, "absorb")
    /\ UNCHANGED <<db, snapVars, cacheVars, lockVars, read, target, broadcast,
                   chanVars, closing, closes, faults, ghostVars>>

Absorb(i) ==
    /\ pc[i] = "absorb"
    /\ deferredReloads' = [deferredReloads EXCEPT ![i] = FALSE]
    /\ Goto(i, "lock")
    /\ UNCHANGED <<db, snapVars, cacheVars, lockVars, read, target, broadcast,
                   invalidationRequests, bus, closing, closes, faults, ghostVars>>

-----------------------------------------------------------------------------
(* The invalidation bus.                                                   *)

HandleInvalidationTwiceBug(o, d) ==
    /\ bus' = [bus EXCEPT ![<<o, d>>] = @ - 1]
    /\ invalidationRequests' = IF o = d THEN invalidationRequests
                               ELSE [invalidationRequests EXCEPT ![d] = TRUE]
    /\ UNCHANGED <<db, snapVars, cacheVars, lockVars, pc, read, target, broadcast,
                   deferredReloads, closing, closes, faults, ghostVars>>

HandleInvalidationWhenIdleBug(o, d) ==
    /\ bus[<<o, d>>] > 0
    /\ bus' = [bus EXCEPT ![<<o, d>>] = @ - 1]
    /\ invalidationRequests' =
         IF o = d \/ pc[d] # "select" THEN invalidationRequests
         ELSE [invalidationRequests EXCEPT ![d] = TRUE]
    /\ UNCHANGED <<db, snapVars, cacheVars, lockVars, pc, read, target, broadcast,
                   deferredReloads, closing, closes, faults, ghostVars>>

\* The subscription callback drops the instance's own echo and never blocks.
HandleInvalidation(o, d) ==
    /\ bus[<<o, d>>] > 0
    /\ bus' = [bus EXCEPT ![<<o, d>>] = @ - 1]
    /\ invalidationRequests' = IF o = d THEN invalidationRequests
                               ELSE [invalidationRequests EXCEPT ![d] = TRUE]
    /\ UNCHANGED <<db, snapVars, cacheVars, lockVars, pc, read, target, broadcast,
                   deferredReloads, closing, closes, faults, ghostVars>>

\* NATS core delivers at most once.
LoseMessage(o, d) ==
    /\ bus[<<o, d>>] > 0
    /\ Fault
    /\ bus' = [bus EXCEPT ![<<o, d>>] = @ - 1]
    /\ UNCHANGED <<db, snapVars, cacheVars, lockVars, pc, read, target, broadcast,
                   deferredReloads, invalidationRequests, closing, closes, ghostVars>>

-----------------------------------------------------------------------------
(* Authorize.  It holds RLock from the first statement to the last.        *)

RLock(h) ==
    /\ pc[h] = "idle"
    /\ Serving(Host[h])
    /\ writer[Host[h]] = None
    /\ readers' = [readers EXCEPT ![Host[h]] = @ \cup {h}]
    /\ Goto(h, "permissions")
    /\ UNCHANGED <<db, snapVars, cacheVars, writer, read, target, broadcast,
                   chanVars, closing, closes, faults, ghostVars>>

\* The permission is built in, or its answer is cached and not expired.  (A
\* cached version stays a possible answer: expiry can only remove answers.)
PermissionCached(h) ==
    /\ pc[h] = "permissions"
    /\ Goto(h, "enforce")
    /\ UNCHANGED <<db, snapVars, cacheVars, lockVars, read, target, broadcast,
                   chanVars, closing, closes, faults, ghostVars>>

QueryKnownPermissions(h) ==
    /\ pc[h] = "permissions"
    /\ read' = [read EXCEPT ![h] = db]
    /\ Goto(h, "store_permission")
    /\ UNCHANGED <<db, snapVars, cacheVars, lockVars, target, broadcast,
                   chanVars, closing, closes, faults, ghostVars>>

RUnlock(h) ==
    /\ readers' = [readers EXCEPT ![Host[h]] = @ \ {h}]
    /\ Goto(h, "idle")

\* Authorize returns the error of the query.
QueryKnownPermissionsFails(h) ==
    /\ pc[h] = "permissions"
    /\ Fault
    /\ RUnlock(h)
    /\ UNCHANGED <<db, snapVars, cacheVars, writer, read, target, broadcast,
                   chanVars, closing, closes, ghostVars>>

\* An unknown custom permission is Invalid and is never enforced.
StorePermission(h) ==
    /\ pc[h] = "store_permission"
    /\ known' = [known EXCEPT ![Host[h]] = @ \cup {read[h]}]
    /\ \/ Goto(h, "enforce") /\ UNCHANGED readers
       \/ RUnlock(h)
    /\ Forget(h)
    /\ UNCHANGED <<db, snapVars, decisions, writer, target, broadcast,
                   chanVars, closing, closes, faults, ghostVars>>

DecisionCached(h) ==
    /\ pc[h] = "enforce"
    /\ decisions[Host[h]] # {}
    /\ RUnlock(h)
    /\ UNCHANGED <<db, snapVars, cacheVars, writer, read, target, broadcast,
                   chanVars, closing, closes, faults, ghostVars>>

\* The decision is as old as the oldest data it was computed from.
ComputeDecision(h) ==
    /\ pc[h] = "enforce"
    /\ read' = [read EXCEPT ![h] = policies[Host[h]]]
    /\ Goto(h, "store_decision")
    /\ UNCHANGED <<db, snapVars, cacheVars, lockVars, target, broadcast,
                   chanVars, closing, closes, faults, ghostVars>>

StoreDecision(h) ==
    /\ pc[h] = "store_decision"
    /\ decisions' = [decisions EXCEPT ![Host[h]] = @ \cup {read[h]}]
    /\ Forget(h)
    /\ RUnlock(h)
    /\ UNCHANGED <<db, snapVars, known, writer, target, broadcast,
                   chanVars, closing, closes, faults, ghostVars>>

-----------------------------------------------------------------------------
(* The life of an instance.                                                *)

\* New: the enforcer's constructor loads the policy ...
Boot(i) ==
    /\ pc[i] = "off"
    /\ Goto(i, "boot_policies")
    /\ UNCHANGED <<db, snapVars, cacheVars, lockVars, read, target, broadcast,
                   chanVars, closing, closes, faults, ghostVars>>

BootPolicies(i) ==
    /\ pc[i] = "boot_policies"
    /\ read' = [read EXCEPT ![i] = db]
    /\ Goto(i, "boot_relations")
    /\ UNCHANGED <<db, snapVars, cacheVars, lockVars, target, broadcast,
                   chanVars, closing, closes, faults, ghostVars>>

BootRelations(i) ==
    /\ pc[i] = "boot_relations"
    /\ policies' = [policies EXCEPT ![i] = read[i]]
    /\ relations' = [relations EXCEPT ![i] = db]
    /\ Forget(i)
    /\ Goto(i, "subscribe")
    /\ UNCHANGED <<db, cacheVars, lockVars, target, broadcast, chanVars,
                   closing, closes, faults, ghostVars>>

\* ... and only then is the subscription opened and the worker started.
Subscribe(i) ==
    /\ pc[i] = "subscribe"
    /\ since' = [since EXCEPT ![i] = db]
    /\ Goto(i, "select")
    /\ UNCHANGED <<db, snapVars, cacheVars, lockVars, read, target, broadcast,
                   chanVars, closing, closes, faults, acked, owed>>

\* Unsubscribe and close(stopInvalidations); Close then waits for the worker.
Close(i) ==
    /\ Serving(i)
    /\ ~closing[i]
    /\ closes < MaxCloses
    /\ closes' = closes + 1
    /\ closing' = [closing EXCEPT ![i] = TRUE]
    /\ bus' = [m \in Instance \X Instance |-> IF m[2] = i THEN 0 ELSE bus[m]]
    /\ UNCHANGED <<db, snapVars, cacheVars, lockVars, pc, read, target, broadcast,
                   deferredReloads, invalidationRequests, faults, ghostVars>>

\* The process and everything in its memory is gone.
Exit(i) ==
    /\ policies' = [policies EXCEPT ![i] = 0]
    /\ relations' = [relations EXCEPT ![i] = 0]
    /\ decisions' = [decisions EXCEPT ![i] = {}]
    /\ known' = [known EXCEPT ![i] = {}]
    /\ writer' = [writer EXCEPT ![i] = None]
    /\ readers' = [readers EXCEPT ![i] = {}]
    /\ pc' = [p \in Proc |-> IF p = i THEN "off"
                             ELSE IF Home(p) = i THEN "idle" ELSE pc[p]]
    /\ read' = [p \in Proc |-> IF Home(p) = i THEN 0 ELSE read[p]]
    /\ broadcast' = [broadcast EXCEPT ![i] = FALSE]
    /\ deferredReloads' = [deferredReloads EXCEPT ![i] = FALSE]
    /\ invalidationRequests' = [invalidationRequests EXCEPT ![i] = FALSE]
    /\ bus' = [m \in Instance \X Instance |-> IF m[2] = i THEN 0 ELSE bus[m]]
    /\ closing' = [closing EXCEPT ![i] = FALSE]
    /\ owed' = [owed EXCEPT ![i] = 0]
    /\ since' = [since EXCEPT ![i] = 0]
    /\ UNCHANGED <<db, target, closes, acked>>

\* The worker has returned, Close returns and main ends.
Shutdown(i) == pc[i] = "stopped" /\ Exit(i) /\ UNCHANGED faults

\* Also what zap.L().Fatal does to an instance whose New fails.
Crash(i) == pc[i] # "off" /\ Fault /\ Exit(i)

-----------------------------------------------------------------------------

\* Steps of one goroutine that neither start a request nor fail.
ReloadStep(p) ==
    StartLoad(p) \/ QueryPolicies(p) \/ QueryRelations(p) \/ Publish(p)
HandlerStep(h) ==
    \/ ScheduleReloadPolicy(h) \/ PermissionCached(h) \/ QueryKnownPermissions(h)
    \/ StorePermission(h) \/ DecisionCached(h) \/ ComputeDecision(h) \/ StoreDecision(h)
WorkerStep(i) ==
    \/ SelectStop(i) \/ SelectTicker(i) \/ SelectInvalidation(i) \/ SelectDeferred(i)
    \/ Debounce(i) \/ Absorb(i)
BootStep(i) == BootPolicies(i) \/ BootRelations(i) \/ Subscribe(i)

Next ==
    \/ \E h \in Handler : CommitRevoke(h) \/ CommitGrant(h) \/ RLock(h)
                          \/ QueryKnownPermissionsFails(h) \/ HandlerStep(h)
    \/ \E p \in Proc : Lock(p) \/ ReloadStep(p) \/ LoadFails(p) \/ PublishFails(p)
    \/ \E i \in Instance : WorkerStep(i) \/ BootStep(i) \/ Boot(i) \/ Close(i)
                           \/ Shutdown(i) \/ Crash(i)
    \/ \E o, d \in Instance : HandleInvalidation(o, d) \/ LoseMessage(o, d)

Spec == Init /\ [][Next]_vars

\* Goroutines that can run do run, Go's mutex does not starve a writer for
\* ever, select finds a ready ticker and main returns after Close.  Nothing is assumed of message
\* delivery, of restarts or of requests arriving.
Fairness ==
    /\ \A h \in Handler : WF_vars(HandlerStep(h))
    /\ \A p \in Proc : WF_vars(ReloadStep(p)) /\ SF_vars(Lock(p))
    /\ \A i \in Instance : WF_vars(WorkerStep(i)) /\ WF_vars(Shutdown(i))

FairSpec == Spec /\ Fairness

-----------------------------------------------------------------------------
(* Properties.                                                             *)

\* A request that revoked access and was answered after its synchronous
\* ReloadPolicy is in force: neither the enforcer's snapshot nor any cached
\* decision or known-permission answer that an Authorize call on that instance
\* can use is older than it, restarts of the instance included.
AckedVisible ==
    \A i \in Instance : Serving(i) =>
        /\ acked[i] <= policies[i]
        /\ acked[i] <= relations[i]
        /\ \A v \in decisions[i] \cup known[i] : acked[i] <= v

\* "Its policy snapshot and bounded decision cache are refreshed together":
\* no cached decision outlives the role bindings it was computed from.
CacheMatchesSnapshot ==
    \A i \in Instance : decisions[i] \subseteq {policies[i]}

\* While an instance serves, a reload never replaces its policy by an older
\* one, although handlers and worker reload concurrently.
SnapshotMonotonic ==
    [][\A i \in Instance : Serving(i) /\ Serving(i)' =>
          policies[i] <= policies'[i] /\ relations[i] <= relations'[i]]_vars

\* ScheduleReloadPolicy never drops a request of a live instance: what is still
\* owed is buffered in the channel, or the worker has taken it and its first
\* query is ahead, or that query already saw the change.
DeferredNeverLost ==
    \A i \in Instance : owed[i] > 0 /\ pc[i] # "stopped" =>
        \/ deferredReloads[i]
        \/ /\ broadcast[i]
           /\ \/ pc[i] \in {"debounce", "absorb", "lock", "drain", "policies"}
              \/ pc[i] \in {"relations", "publish"} /\ owed[i] <= read[i]

\* As long as nothing failed, an acknowledged change reaches every instance
\* that was subscribed when it was committed without the ticker: the peer has
\* it, or a message, the buffered request or a reload in progress will bring it.
InvalidationReaches ==
    faults = 0 => \A i, j \in Instance :
        i # j /\ Subscribed(j) /\ acked[i] > since[j] =>
            \/ acked[i] <= policies[j]
            \/ bus[<<i, j>>] > 0
            \/ invalidationRequests[j]
            \/ pc[j] \in {"lock", "drain", "policies", "debounce", "absorb"}
            \/ pc[j] = "relations" /\ acked[i] <= read[j]

\* With finitely many faults every instance that keeps serving ends up with
\* every committed change, lost messages and the gap between the first load
\* and the subscription included: the periodic reload is the safety net.
Convergence ==
    \A i \in Instance : \A v \in 1..MaxVersion :
        db >= v ~> (Serving(i) => policies[i] >= v /\ relations[i] >= v)

\* The authorizer implements what PolicyView promises.  The role bindings are
\* the oldest data an answer may be based on.
View == INSTANCE PolicyView WITH
    head <- db,
    serving <- {i \in Instance : Serving(i)},
    view <- [i \in Instance |-> IF Serving(i) THEN policies[i] ELSE 0],
    promised <- acked

ImplementsView == View!ViewSpec
=============================================================================
