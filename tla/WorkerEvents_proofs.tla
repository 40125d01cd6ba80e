------------------------- MODULE WorkerEvents_proofs ------------------------
(***************************************************************************)
(* Proofs about WorkerEvents, for any number of projects, environments,    *)
(* handlers, requests and faults.                                          *)
(***************************************************************************)
EXTENDS WorkerEvents, TLAPS

MessageRecord == [status : {"none", "pending", "held", "acked", "dead"}, tries : 0..MaxDeliver]
HandlerRecord == [msg : Message \cup {None},
                  pc : {"idle", "upsert", "read", "memberships", "service_user_roles", "resource", "reload"},
                  read : SUBSET Resource]
RequestRecord == [pc : {"idle", "insert", "list", "reload"}, scope : Resource \cup {None},
                  in : Table \cup {None}, todo : SUBSET Project, read : SUBSET Env]

\* An environment that exists is in a project that exists.
HierarchyInv == \A e \in Env : cp[e] = "live" => cp[ProjectOf[e]] = "live"

\* An event is published after the change that it reports, and a message that
\* can still be delivered has deliveries left.
MessageInv ==
    /\ \A r \in Resource : /\ cp[r] = "new" => msg[<<"created", r>>].status = "none"
                           /\ cp[r] # "gone" => msg[<<"deleted", r>>].status = "none"
    /\ \A m \in Message : /\ msg[m].status = "none" => msg[m].tries = 0
                          /\ msg[m].status = "pending" => msg[m].tries < MaxDeliver

\* Which statements the handler of a message goes through.
HandlerInv(h, messages) ==
    h # NoHandler =>
        /\ h.msg \in Message
        /\ messages[h.msg].status # "none"
        /\ h.msg[1] = "created" => h.pc \in {"upsert", "reload"} /\ h.read = {h.msg[2]}
        /\ h.msg[1] = "sync" => h.pc \in {"read", "upsert", "reload"}
        /\ h.msg[1] = "deleted" => h.pc \in Table \cup {"resource", "reload"}

\* A row of the hierarchy with the row that it needs above it.
Kept(r, rows) == r \in rows /\ (r \in Env => ProjectOf[r] \in rows)

\* What the handler of a creation event has written stays as long as the
\* resource exists.
CreatedInv(h, state, rows) ==
    h # NoHandler /\ h.msg[1] = "created" /\ h.pc = "reload" =>
        (state[h.msg[2]] = "live" => Kept(h.msg[2], rows))

\* What the handler of a deletion event has unbound stays unbound.
DeletedInv(h, excused, bound) ==
    h # NoHandler /\ h.msg[1] = "deleted" /\ h.msg[2] \notin excused =>
        /\ h.pc # "memberships" => <<"memberships", h.msg[2]>> \notin bound
        /\ h.pc \in {"resource", "reload"} => <<"service_user_roles", h.msg[2]>> \notin bound

\* LiveIsReachable, row by row.
LiveInv ==
    \A r \in Resource : cp[r] = "live" /\ msg[<<"created", r>>].status = "acked" =>
        Kept(r, table) /\ Kept(r, policy.table)

\* What a request has validated or listed was there; what sync-scopes wrote
\* stays as long as it exists.
RequestInv(q, state, rows) ==
    /\ q.pc = "insert" => q.scope \in Resource /\ q.in \in Table /\ q.read = {}
    /\ q.pc # "list" => q.todo = {}
    /\ \A e \in q.read : state[e] # "new"
    /\ q.pc = "reload" => \A e \in q.read : state[e] = "live" => Kept(e, rows)

Types == TypeOK /\ slot \in [Slot -> HandlerRecord] /\ req \in [Request -> RequestRecord]

IInv ==
    /\ Types
    /\ HierarchyInv /\ MessageInv
    /\ \A s \in Slot : HandlerInv(slot[s], msg) /\ CreatedInv(slot[s], cp, table) /\ DeletedInv(slot[s], late, bindings)
    /\ \A q \in Request : RequestInv(req[q], cp, table)
    /\ LiveInv /\ DeletedLosesAccess

-----------------------------------------------------------------------------
USE WorkerAssumption

\* The inductive invariant holds initially.
LEMMA InitIInv == Init => IInv
  <1> SUFFICES ASSUME Init PROVE IInv
    OBVIOUS
  <1>1. NoHandler \in HandlerRecord /\ NoRequest \in RequestRecord
    BY DEF NoHandler, NoRequest, HandlerRecord, RequestRecord
  <1>2. Types
    <2>1. slot \in [Slot -> HandlerRecord] /\ req \in [Request -> RequestRecord]
      BY <1>1 DEF Init
    <2>2. /\ cp \in [Resource -> {"new", "live", "gone"}]
          /\ msg \in [Message -> MessageRecord]
      BY DEF Init, MessageRecord
    <2> QED
      BY <2>1, <2>2 DEF Init, Types, TypeOK, MessageRecord, HandlerRecord, RequestRecord
  <1>3. HierarchyInv /\ MessageInv /\ LiveInv /\ DeletedLosesAccess
    BY DEF Init, HierarchyInv, MessageInv, LiveInv, DeletedLosesAccess, Status, Message, Kind, Resource
  <1>4. \A s \in Slot : HandlerInv(slot[s], msg) /\ CreatedInv(slot[s], cp, table) /\ DeletedInv(slot[s], late, bindings)
    BY DEF Init, HandlerInv, CreatedInv, DeletedInv
  <1>5. \A q \in Request : RequestInv(req[q], cp, table)
    BY DEF Init, RequestInv, NoRequest
  <1> QED
    BY <1>2, <1>3, <1>4, <1>5 DEF IInv

\* The set of parents, row by row.
LEMMA ParentsKept ==
  ASSUME NEW rs \in SUBSET Resource, NEW rows
  PROVE  rs \cup Parents(rs) \subseteq rows <=> \A r \in rs : Kept(r, rows)
  BY DEF Parents, Kept, Resource

\* Where a handler stands.
LEMMA HandlerShape ==
  ASSUME IInv, NEW s \in Slot, slot[s] # NoHandler
  PROVE  /\ slot[s] \in HandlerRecord /\ slot[s].msg \in Message
         /\ slot[s].msg[1] \in Kind /\ slot[s].msg[2] \in Resource
         /\ slot[s].msg = <<slot[s].msg[1], slot[s].msg[2]>>
         /\ slot[s].pc # "idle"
         /\ slot[s].pc \in Table \cup {"resource"} => slot[s].msg[1] = "deleted"
         /\ slot[s].msg[1] = "deleted" => cp[slot[s].msg[2]] = "gone"
         /\ slot[s].msg[1] = "created" => cp[slot[s].msg[2]] # "new"
  <1>1. /\ slot[s] \in HandlerRecord /\ slot[s].msg \in Message
        /\ msg[slot[s].msg].status # "none"
        /\ slot[s].msg[1] = "created" => slot[s].pc \in {"upsert", "reload"}
        /\ slot[s].msg[1] = "sync" => slot[s].pc \in {"read", "upsert", "reload"}
        /\ slot[s].msg[1] = "deleted" => slot[s].pc \in Table \cup {"resource", "reload"}
    BY DEF IInv, Types, HandlerInv
  <1>2. PICK k \in Kind, r \in Resource : slot[s].msg = <<k, r>>
    BY <1>1 DEF Message
  <1>3. k = "created" \/ k = "sync" \/ k = "deleted"
    BY DEF Kind
  <1>4. /\ k = "deleted" => cp[r] = "gone"
        /\ k = "created" => cp[r] # "new"
    BY <1>1, <1>2 DEF IInv, MessageInv
  <1> QED
    BY <1>1, <1>2, <1>3, <1>4 DEF Table

\* A statement of a handler removes only rows of resources that are gone and
\* adds no bindings.
LEMMA WritesKeep ==
  ASSUME IInv, NEW s \in Slot, slot[s] # NoHandler, Writes(s)
  PROVE  /\ table' \subseteq Resource
         /\ bindings' \subseteq bindings
         /\ \A r \in Resource : cp[r] = "live" /\ Kept(r, table) => Kept(r, table')
         /\ slot[s].pc \in Table => <<slot[s].pc, slot[s].msg[2]>> \notin bindings'
         /\ slot[s].pc = "upsert" => \A r \in slot[s].read : Kept(r, table')
  <1>1. slot[s] \in HandlerRecord /\ slot[s].msg[2] \in Resource /\ slot[s].read \subseteq Resource
    BY HandlerShape DEF HandlerRecord
  <1>2. /\ bindings' \subseteq bindings
        /\ slot[s].pc \in Table => <<slot[s].pc, slot[s].msg[2]>> \notin bindings'
    BY DEF Writes, Unbound
  <1>3. CASE slot[s].pc = "upsert"
    <2>1. table' = table \cup (slot[s].read \cup Parents(slot[s].read))
      BY <1>3 DEF Writes, Upserted
    <2>2. slot[s].read \cup Parents(slot[s].read) \subseteq Resource
      BY <1>1 DEF Parents, Resource
    <2>3. \A r \in slot[s].read : Kept(r, table')
      <3>1. slot[s].read \cup Parents(slot[s].read) \subseteq table'
        BY <2>1
      <3> QED
        BY <1>1, <3>1, ParentsKept
    <2> QED
      BY <1>2, <2>1, <2>2, <2>3 DEF Kept, IInv, Types, TypeOK
  <1>4. CASE slot[s].pc = "resource"
    <2>1. table' = Deleted(slot[s].msg[2]) /\ cp[slot[s].msg[2]] = "gone"
      BY <1>4, HandlerShape DEF Writes
    <2> QED
      BY <1>1, <1>2, <1>4, <2>1 DEF Kept, IInv, Types, TypeOK, Deleted, EnvsOf, HierarchyInv, Resource
  <1>5. CASE slot[s].pc \notin {"upsert", "resource"}
    BY <1>2, <1>5 DEF Writes, IInv, Types, TypeOK
  <1> QED
    BY <1>3, <1>4, <1>5

\* What Again makes of a message.
LEMMA AgainStep ==
  ASSUME IInv, NEW m \in Message
  PROVE  /\ Again(m) \in MessageRecord
         /\ msg[m].status # "held" => Again(m) = msg[m]
         /\ msg[m].status = "held" => Again(m).status \in {"pending", "dead"}
         /\ Again(m).status = "pending" => Again(m).tries < MaxDeliver
  <1>1. msg[m] \in MessageRecord
    BY DEF IInv, Types, TypeOK, MessageRecord
  <1>2. msg[m].status = "pending" => msg[m].tries < MaxDeliver
    BY DEF IInv, MessageInv
  <1> QED
    BY <1>1, <1>2 DEF Again, MessageRecord

\* Every step keeps the types.
LEMMA NextTypes == IInv /\ [Next]_vars => Types'
  <1> SUFFICES ASSUME IInv, [Next]_vars PROVE Types'
    OBVIOUS
  <1>0. NoHandler \in HandlerRecord /\ NoRequest \in RequestRecord
    BY DEF NoHandler, NoRequest, HandlerRecord, RequestRecord
  <1> USE DEF IInv, Types
  <1>1. ASSUME NEW r \in Resource, CreateResource(r) \/ DeleteResource(r) \/ RequestSync(r) PROVE Types'
    <2>1. PICK m \in Message : msg' = [msg EXCEPT ![m].status = "pending"]
      BY <1>1 DEF CreateResource, DeleteResource, RequestSync, Publish, Message, Kind
    <2>2. cp' \in [Resource -> {"new", "live", "gone"}] /\ UNCHANGED <<slot, req, table, bindings, policy, late, faults, ops>>
      BY <1>1 DEF CreateResource, DeleteResource, RequestSync, TypeOK, MessageRecord
    <2> QED
      BY <2>1, <2>2 DEF TypeOK, MessageRecord
  <1>2. ASSUME NEW s \in Slot, NEW m \in Message, Deliver(s, m) PROVE Types'
    <2>1. msg[m].tries < MaxDeliver
      BY <1>2 DEF Deliver, MessageInv
    <2>2. [status |-> "held", tries |-> msg[m].tries + 1]
            \in MessageRecord
      BY <2>1 DEF TypeOK, MessageRecord
    <2>3. [msg |-> m, pc |-> Entry(m), read |-> Named(m)] \in HandlerRecord
      BY DEF Message, Kind, Entry, Named, HandlerRecord
    <2> QED
      BY <1>2, <2>2, <2>3 DEF Deliver, TypeOK, MessageRecord, HandlerRecord
  <1>3. ASSUME NEW m \in Message, AckDeadline(m) PROVE Types'
    <2>1. msg' \in [Message -> MessageRecord]
      BY <1>3, AgainStep DEF AckDeadline, TypeOK, MessageRecord
    <2> QED
      BY <1>3, <2>1 DEF AckDeadline, TypeOK, MessageRecord
  <1>4. ASSUME Restart PROVE Types'
    <2>1. \A m \in Message : Again(m) \in MessageRecord
      BY AgainStep
    <2>2. msg' \in [Message -> MessageRecord]
      BY <1>4, <2>1 DEF Restart, TypeOK, MessageRecord
    <2>3. slot' \in [Slot -> HandlerRecord] /\ req' \in [Request -> RequestRecord]
      BY <1>0, <1>4 DEF Restart
    <2> QED
      BY <1>4, <2>2, <2>3 DEF Restart, TypeOK, MessageRecord, HandlerRecord, RequestRecord
  <1>5. ASSUME NEW s \in Slot, Statement(s) PROVE Types'
    <2>1. slot[s] # NoHandler
      BY <1>5 DEF Statement, NoHandler, Table
    <2>2. After(slot[s].pc) \in {"service_user_roles", "resource", "reload"}
      BY <1>5 DEF Statement, After, Table
    <2>3. slot' \in [Slot -> HandlerRecord]
      BY <1>5, <2>2 DEF Statement, Goto, HandlerRecord
    <2>4. table' \subseteq Resource /\ bindings' \subseteq Table \X Resource
      BY <1>5, <2>1, WritesKeep DEF Statement, TypeOK, MessageRecord
    <2> QED
      BY <1>5, <2>3, <2>4 DEF Statement, TypeOK, MessageRecord, HandlerRecord
  <1>6. ASSUME NEW s \in Slot, ReadScope(s) PROVE Types'
    <2>1. slot[s] # NoHandler
      BY <1>6 DEF ReadScope, NoHandler
    <2>2. slot[s].msg[2] \in Resource
      BY <2>1, HandlerShape
    <2>3. slot' \in [Slot -> HandlerRecord]
      <3> DEFINE read == {slot[s].msg[2]} \cup
                         (IF slot[s].msg[2] \in Project THEN EnvsOf(slot[s].msg[2]) \cap Live ELSE {})
      <3>1. read \subseteq Resource
        BY <2>2 DEF Live
      <3>2. slot' = [slot EXCEPT ![s] = [slot[s] EXCEPT !.pc = "upsert", !.read = read]]
        BY <1>6 DEF ReadScope
      <3> HIDE DEF read
      <3> QED
        BY <3>1, <3>2 DEF HandlerRecord
    <2> QED
      BY <1>6, <2>3 DEF ReadScope, TypeOK, MessageRecord, HandlerRecord
  <1>7. ASSUME NEW s \in Slot, ReloadAndAck(s) \/ Panic(s) PROVE Types'
    <2>1. slot[s] # NoHandler
      BY <1>7 DEF ReloadAndAck, Panic, NoHandler
    <2>2. slot[s].msg \in Message
      BY <2>1, HandlerShape
    <2>3. slot' \in [Slot -> HandlerRecord]
      BY <1>0, <1>7 DEF ReloadAndAck, Panic, Ack
    <2>4. msg' \in [Message -> MessageRecord]
      BY SMTT(60), <1>7, <2>2 DEF ReloadAndAck, Panic, Ack, TypeOK, MessageRecord
    <2> QED
      BY <1>7, <2>3, <2>4 DEF ReloadAndAck, Panic, Ack, TypeOK, MessageRecord, HandlerRecord
  <1>8. ASSUME NEW s \in Slot, Fail(s) PROVE Types'
    <2>1. slot[s] # NoHandler
      BY <1>8 DEF Fail
    <2>2. slot[s].msg \in Message
      BY <2>1, HandlerShape
    <2>3. slot' \in [Slot -> HandlerRecord]
      BY <1>0, <1>8 DEF Fail
    <2>4. msg' \in [Message -> MessageRecord]
      BY <1>8, <2>2, AgainStep DEF Fail, TypeOK, MessageRecord
    <2>5. table' \subseteq Resource /\ bindings' \subseteq Table \X Resource
      BY <1>8, <2>1, WritesKeep DEF Fail, TypeOK, MessageRecord
    <2> QED
      BY <1>8, <2>3, <2>4, <2>5 DEF Fail, TypeOK, MessageRecord, HandlerRecord
  <1>9. ASSUME NEW q \in Request, NEW t \in Table, NEW r \in Resource, Grant(q, t, r) PROVE Types'
    <2>1. [NoRequest EXCEPT !.pc = "insert", !.scope = r, !.in = t] \in RequestRecord
      BY DEF NoRequest, RequestRecord
    <2> QED
      BY <1>9, <2>1 DEF Grant, Begin, TypeOK, MessageRecord, RequestRecord
  <1>10. ASSUME NEW q \in Request, GrantInsert(q) PROVE Types'
    <2>1. req[q].scope \in Resource /\ req[q].in \in Table
      BY <1>10 DEF GrantInsert, RequestInv
    <2>2. req' \in [Request -> RequestRecord]
      BY <1>10 DEF GrantInsert, RequestRecord
    <2> QED
      BY <1>10, <2>1, <2>2 DEF GrantInsert, TypeOK, MessageRecord, RequestRecord
  <1>11. ASSUME NEW q \in Request, SyncOrg(q) PROVE Types'
    <2>1. [NoRequest EXCEPT !.pc = "list", !.todo = Live \cap Project] \in RequestRecord
      BY DEF NoRequest, RequestRecord
    <2> QED
      BY <1>11, <2>1 DEF SyncOrg, Begin, TypeOK, MessageRecord, RequestRecord
  <1>12. ASSUME NEW q \in Request, NEW p \in Project, SyncList(q, p) PROVE Types'
    <2>1. req' \in [Request -> RequestRecord]
      <3> DEFINE read == req[q].read \cup (EnvsOf(p) \cap Live)
                 todo == req[q].todo \ {p}
      <3>1. read \subseteq Env /\ todo \subseteq Project
        BY DEF EnvsOf, RequestRecord
      <3>2. req' = [req EXCEPT ![q] = [req[q] EXCEPT !.todo = todo, !.read = read]]
        BY <1>12 DEF SyncList
      <3> HIDE DEF read, todo
      <3>3. [req[q] EXCEPT !.todo = todo, !.read = read] \in RequestRecord
        BY <3>1 DEF RequestRecord
      <3> QED
        BY <3>2, <3>3
    <2> QED
      BY <1>12, <2>1 DEF SyncList, TypeOK, MessageRecord, RequestRecord
  <1>13. ASSUME NEW q \in Request, SyncUpsert(q) PROVE Types'
    <2>1. req' \in [Request -> RequestRecord]
      BY <1>13 DEF SyncUpsert, RequestRecord
    <2>2. table' \subseteq Resource
      BY <1>13 DEF SyncUpsert, Upserted, Parents, RequestRecord, TypeOK, MessageRecord, Resource
    <2> QED
      BY <1>13, <2>1, <2>2 DEF SyncUpsert, TypeOK, MessageRecord, RequestRecord
  <1>14. ASSUME NEW q \in Request, RequestReload(q) \/ RequestFails(q) PROVE Types'
    <2>1. req' \in [Request -> RequestRecord]
      BY <1>0, <1>14 DEF RequestReload, RequestFails
    <2> QED
      BY <1>14, <2>1 DEF RequestReload, RequestFails, TypeOK, MessageRecord, RequestRecord
  <1>15. CASE UNCHANGED vars
    BY <1>15 DEF vars, TypeOK, MessageRecord
  <1> QED
    BY <1>1, <1>2, <1>3, <1>4, <1>5, <1>6, <1>7, <1>8, <1>9, <1>10, <1>11, <1>12, <1>13, <1>14, <1>15 DEF Next

\* What a step that leaves the control plane alone must do to keep the
\* invariant: leave settled messages settled, lose no row of a live resource,
\* bind no scope that is gone, load the policy as it is, and acknowledge an
\* event after its work is done.
MessageStep ==
    \A m \in Message : /\ msg'[m].status = "none" => msg[m].status = "none" /\ msg'[m].tries = msg[m].tries
                       /\ msg[m].status = "none" => msg'[m].status = "none" \/ m[1] = "sync"
                       /\ msg'[m].status = "pending" => msg'[m].tries < MaxDeliver
TableStep == \A r \in Resource : cp[r] = "live" /\ Kept(r, table) => Kept(r, table')
BindingStep ==
    /\ late \subseteq late'
    /\ \A t \in Table, r \in Resource \ late' : cp[r] = "gone" /\ <<t, r>> \in bindings' => <<t, r>> \in bindings
PolicyStep == policy' = policy \/ (policy'.table = table' /\ policy'.bindings = bindings')
AckStep ==
    /\ \A r \in Resource : msg'[<<"created", r>>].status = "acked" =>
          \/ msg[<<"created", r>>].status = "acked"
          \/ policy'.table = table' /\ (cp[r] = "live" => Kept(r, table'))
    /\ \A r \in Resource \ late' : msg'[<<"deleted", r>>].status = "acked" =>
          \/ msg[<<"deleted", r>>].status = "acked"
          \/ policy'.bindings = bindings' /\ \A t \in Table : <<t, r>> \notin bindings'
SlotStep ==
    \A s \in Slot :
        \/ slot'[s] \in {slot[s], NoHandler}
        \/ /\ HandlerInv(slot'[s], msg') /\ CreatedInv(slot'[s], cp', table')
           /\ DeletedInv(slot'[s], late', bindings')
RequestStep == \A q \in Request : req'[q] \in {req[q], NoRequest} \/ RequestInv(req'[q], cp', table')

\* Such a step keeps the invariant.
LEMMA Frame ==
  ASSUME IInv, Types', cp' = cp, MessageStep, TableStep, BindingStep, PolicyStep, AckStep, SlotStep, RequestStep
  PROVE  IInv'
  <1>1. \A r \in Resource : <<"created", r>> \in Message /\ <<"deleted", r>> \in Message
    BY DEF Message, Kind
  <1>2. HierarchyInv'
    BY DEF IInv, HierarchyInv
  <1>3. MessageInv'
    BY <1>1 DEF IInv, MessageInv, MessageStep, Message
  <1>4. ASSUME NEW s \in Slot PROVE HandlerInv(slot'[s], msg') /\ CreatedInv(slot'[s], cp', table') /\ DeletedInv(slot'[s], late', bindings')
    <2>1. CASE slot'[s] = NoHandler
      BY <2>1 DEF HandlerInv, CreatedInv, DeletedInv, NoHandler
    <2>2. CASE slot'[s] = slot[s] /\ slot[s] # NoHandler
      <3>1. HandlerInv(slot[s], msg) /\ CreatedInv(slot[s], cp, table) /\ DeletedInv(slot[s], late, bindings)
        BY DEF IInv
      <3>2. slot[s].msg \in Message /\ slot[s].msg[2] \in Resource
            /\ (slot[s].msg[1] = "deleted" => cp[slot[s].msg[2]] = "gone")
        BY <2>2, HandlerShape
      <3>3. HandlerInv(slot'[s], msg')
        BY <2>2, <3>1, <3>2 DEF HandlerInv, NoHandler, MessageStep
      <3>4. CreatedInv(slot'[s], cp', table')
        BY <2>2, <3>1, <3>2 DEF CreatedInv, NoHandler, TableStep
      <3>5. DeletedInv(slot'[s], late', bindings')
        BY <2>2, <3>1, <3>2 DEF DeletedInv, NoHandler, Table, BindingStep
      <3> QED
        BY <3>3, <3>4, <3>5
    <2> QED
      BY <2>1, <2>2 DEF SlotStep
  <1>5. ASSUME NEW q \in Request PROVE RequestInv(req'[q], cp', table')
    <2>1. CASE req'[q] = NoRequest
      BY <2>1 DEF RequestInv, NoRequest
    <2>2. CASE req'[q] = req[q]
      <3>1. RequestInv(req[q], cp, table) /\ req[q].read \subseteq Resource
        BY DEF IInv, Types, TypeOK, Resource
      <3> QED
        BY <2>2, <3>1 DEF RequestInv, TableStep
    <2> QED
      BY <2>1, <2>2 DEF RequestStep
  <1>6. LiveInv'
    <2> SUFFICES ASSUME NEW r \in Resource, cp[r] = "live", msg'[<<"created", r>>].status = "acked"
                 PROVE  Kept(r, table') /\ Kept(r, policy'.table)
      BY DEF LiveInv, Kept
    <2>1. CASE msg[<<"created", r>>].status = "acked"
      BY <2>1 DEF IInv, LiveInv, TableStep, PolicyStep
    <2>2. CASE policy'.table = table' /\ Kept(r, table')
      BY <2>2
    <2> QED
      BY <2>1, <2>2 DEF AckStep
  <1>7. DeletedLosesAccess'
    <2> SUFFICES ASSUME NEW r \in Resource \ late', msg'[<<"deleted", r>>].status = "acked", NEW t \in Table
                 PROVE  <<t, r>> \notin bindings' \cup policy'.bindings
      BY DEF DeletedLosesAccess, Status
    <2>1. CASE msg[<<"deleted", r>>].status = "acked"
      <3>1. <<t, r>> \notin bindings \cup policy.bindings
        BY <2>1 DEF IInv, DeletedLosesAccess, Status, BindingStep
      <3>2. cp[r] = "gone"
        BY <2>1 DEF IInv, MessageInv
      <3> QED
        BY <3>1, <3>2 DEF BindingStep, PolicyStep
    <2> QED
      BY <2>1 DEF AckStep
  <1> QED
    BY <1>2, <1>3, <1>4, <1>5, <1>6, <1>7 DEF IInv

\* The first publication of an event.
LEMMA PublishStep ==
  ASSUME IInv, NEW m \in Message, msg[m].status = "none", Publish(m)
  PROVE  /\ \A n \in Message \ {m} : msg'[n] = msg[n]
         /\ msg'[m].status = "pending" /\ msg'[m].tries = 0
  <1>1. msg \in [Message -> MessageRecord] /\ msg[m].tries = 0
    BY DEF IInv, Types, TypeOK, MessageRecord, MessageInv
  <1> QED
    BY <1>1 DEF Publish, MessageRecord

\* Every step preserves the inductive invariant.
LEMMA NextIInv == IInv /\ [Next]_vars => IInv'
  <1> SUFFICES ASSUME IInv, [Next]_vars PROVE IInv'
    OBVIOUS
  <1>0. Types /\ Types'
    BY NextTypes DEF IInv
  <1>1. /\ \A m \in Message : msg[m] \in MessageRecord /\ (msg[m].status = "pending" => msg[m].tries < MaxDeliver)
        /\ \A r \in Resource : <<"created", r>> \in Message /\ <<"deleted", r>> \in Message
        /\ \A r \in Resource : <<"sync", r>> \in Message
    BY <1>0 DEF Types, TypeOK, MessageRecord, IInv, MessageInv, Message, Kind
  <1>2. ASSUME NEW r \in Resource, CreateResource(r) PROVE IInv'
    <2>1. /\ cp[r] = "new" /\ cp' = [cp EXCEPT ![r] = "live"]
          /\ r \in Env => cp[ProjectOf[r]] = "live"
          /\ Publish(<<"created", r>>)
          /\ UNCHANGED <<slot, req, table, bindings, policy, late, faults, ops>>
      BY <1>2 DEF CreateResource
    <2>2. /\ \A m \in Message \ {<<"created", r>>} : msg'[m] = msg[m]
          /\ msg'[<<"created", r>>].status = "pending" /\ msg'[<<"created", r>>].tries = 0
      <3>1. msg[<<"created", r>>].status = "none"
        BY <2>1 DEF IInv, MessageInv
      <3> QED
        BY <1>1, <2>1, <3>1, PublishStep
    <2>3. \A x \in Resource : cp'[x] = IF x = r THEN "live" ELSE cp[x]
      BY <1>0, <2>1 DEF Types, TypeOK
    <2>4. HierarchyInv'
      BY <2>1, <2>3 DEF IInv, HierarchyInv, Resource
    <2>5. MessageInv'
      BY <1>1, <2>1, <2>2, <2>3 DEF IInv, MessageInv
    <2>6. ASSUME NEW s \in Slot PROVE HandlerInv(slot'[s], msg') /\ CreatedInv(slot'[s], cp', table') /\ DeletedInv(slot'[s], late', bindings')
      <3>1. CASE slot[s] = NoHandler
        BY <2>1, <3>1 DEF HandlerInv, CreatedInv, DeletedInv, NoHandler
      <3>2. CASE slot[s] # NoHandler
        <4>1. /\ slot[s].msg \in Message /\ slot[s].msg[2] \in Resource
              /\ slot[s].msg[1] = "created" => slot[s].msg[2] # r
          BY <2>1, <3>2, HandlerShape
        <4>2. HandlerInv(slot[s], msg) /\ CreatedInv(slot[s], cp, table) /\ DeletedInv(slot[s], late, bindings)
          BY DEF IInv
        <4>3. HandlerInv(slot'[s], msg')
          BY <2>1, <2>2, <4>1, <4>2 DEF HandlerInv, NoHandler
        <4>4. CreatedInv(slot'[s], cp', table') /\ DeletedInv(slot'[s], late', bindings')
          BY <2>1, <2>3, <4>1, <4>2 DEF CreatedInv, DeletedInv, NoHandler, Kept
        <4> QED
          BY <4>3, <4>4
      <3> QED
        BY <3>1, <3>2
    <2>7. ASSUME NEW q \in Request PROVE RequestInv(req'[q], cp', table')
      <3>1. RequestInv(req[q], cp, table) /\ req[q].read \subseteq Resource
        BY <1>0 DEF IInv, Types, TypeOK, Resource
      <3> QED
        BY <2>1, <2>3, <3>1 DEF RequestInv, Kept
    <2>8. LiveInv' /\ DeletedLosesAccess'
      BY <1>1, <2>1, <2>2, <2>3 DEF IInv, LiveInv, DeletedLosesAccess, Status, Kept
    <2> QED
      BY <1>0, <2>4, <2>5, <2>6, <2>7, <2>8 DEF IInv
  <1>3. ASSUME NEW r \in Resource, DeleteResource(r) PROVE IInv'
    <2>1. /\ cp[r] = "live" /\ cp' = [cp EXCEPT ![r] = "gone"]
          /\ r \in Project => \A e \in EnvsOf(r) : cp[e] # "live"
          /\ Publish(<<"deleted", r>>)
          /\ UNCHANGED <<slot, req, table, bindings, policy, late, faults, ops>>
      BY <1>3 DEF DeleteResource
    <2>2. /\ \A m \in Message \ {<<"deleted", r>>} : msg'[m] = msg[m]
          /\ msg'[<<"deleted", r>>].status = "pending" /\ msg'[<<"deleted", r>>].tries = 0
      <3>1. msg[<<"deleted", r>>].status = "none"
        BY <2>1 DEF IInv, MessageInv
      <3> QED
        BY <1>1, <2>1, <3>1, PublishStep
    <2>3. \A x \in Resource : cp'[x] = IF x = r THEN "gone" ELSE cp[x]
      BY <1>0, <2>1 DEF Types, TypeOK
    <2>4. HierarchyInv'
      BY <2>1, <2>3 DEF IInv, HierarchyInv, Resource, EnvsOf
    <2>5. MessageInv'
      BY <1>1, <2>1, <2>2, <2>3 DEF IInv, MessageInv
    <2>6. ASSUME NEW s \in Slot PROVE HandlerInv(slot'[s], msg') /\ CreatedInv(slot'[s], cp', table') /\ DeletedInv(slot'[s], late', bindings')
      <3>1. CASE slot[s] = NoHandler
        BY <2>1, <3>1 DEF HandlerInv, CreatedInv, DeletedInv, NoHandler
      <3>2. CASE slot[s] # NoHandler
        <4>1. slot[s].msg \in Message /\ slot[s].msg[2] \in Resource
          BY <3>2, HandlerShape
        <4>2. HandlerInv(slot[s], msg) /\ CreatedInv(slot[s], cp, table) /\ DeletedInv(slot[s], late, bindings)
          BY DEF IInv
        <4>3. HandlerInv(slot'[s], msg')
          BY <2>1, <2>2, <4>1, <4>2 DEF HandlerInv, NoHandler
        <4>4. CreatedInv(slot'[s], cp', table') /\ DeletedInv(slot'[s], late', bindings')
          BY <2>1, <2>3, <4>1, <4>2 DEF CreatedInv, DeletedInv, NoHandler, Kept
        <4> QED
          BY <4>3, <4>4
      <3> QED
        BY <3>1, <3>2
    <2>7. ASSUME NEW q \in Request PROVE RequestInv(req'[q], cp', table')
      <3>1. RequestInv(req[q], cp, table) /\ req[q].read \subseteq Resource
        BY <1>0 DEF IInv, Types, TypeOK, Resource
      <3> QED
        BY <2>1, <2>3, <3>1 DEF RequestInv, Kept
    <2>8. LiveInv' /\ DeletedLosesAccess'
      BY <1>1, <2>1, <2>2, <2>3 DEF IInv, LiveInv, DeletedLosesAccess, Status, Kept
    <2> QED
      BY <1>0, <2>4, <2>5, <2>6, <2>7, <2>8 DEF IInv
  <1>4. ASSUME NEW r \in Resource, RequestSync(r) PROVE IInv'
    <2>1. /\ Publish(<<"sync", r>>) /\ msg[<<"sync", r>>].status = "none"
          /\ UNCHANGED <<cp, slot, req, table, bindings, policy, late, faults, ops>>
      BY <1>4 DEF RequestSync
    <2>2. /\ \A m \in Message \ {<<"sync", r>>} : msg'[m] = msg[m]
          /\ msg'[<<"sync", r>>].status = "pending" /\ msg'[<<"sync", r>>].tries = 0
      BY <1>1, <2>1, PublishStep
    <2>3. MessageStep /\ AckStep
      <3>1. <<"sync", r>>[1] = "sync" /\ 0 < MaxDeliver
        OBVIOUS
      <3>2. MessageStep
        BY <1>1, <2>1, <2>2, <3>1 DEF MessageStep
      <3>3. \A x \in Resource : msg'[<<"created", x>>] = msg[<<"created", x>>] /\ msg'[<<"deleted", x>>] = msg[<<"deleted", x>>]
        BY <1>1, <2>2
      <3>4. AckStep
        BY <2>1, <3>3 DEF AckStep
      <3> QED
        BY <3>2, <3>4
    <2>4. TableStep /\ BindingStep /\ PolicyStep /\ SlotStep /\ RequestStep
      BY <2>1 DEF TableStep, BindingStep, PolicyStep, SlotStep, RequestStep
    <2> QED
      BY <1>0, <2>1, <2>3, <2>4, Frame
  <1>5. ASSUME NEW s \in Slot, NEW m \in Message, Deliver(s, m) PROVE IInv'
    <2>1. /\ msg[m].status = "pending"
          /\ msg' = [msg EXCEPT ![m] = [status |-> "held", tries |-> msg[m].tries + 1]]
          /\ slot' = [slot EXCEPT ![s] = [msg |-> m, pc |-> Entry(m), read |-> Named(m)]]
          /\ UNCHANGED <<cp, req, table, bindings, policy, late, faults, ops>>
      BY <1>5 DEF Deliver
    <2>2. /\ \A n \in Message \ {m} : msg'[n] = msg[n]
          /\ msg'[m].status = "held"
      BY <1>0, <2>1 DEF Types, TypeOK
    <2>3. /\ \A x \in Slot \ {s} : slot'[x] = slot[x]
          /\ slot'[s].msg = m /\ slot'[s].pc = Entry(m) /\ slot'[s].read = Named(m)
      BY <1>0, <2>1 DEF Types
    <2>4. HandlerInv(slot'[s], msg') /\ CreatedInv(slot'[s], cp', table') /\ DeletedInv(slot'[s], late', bindings')
      <3>1. m[1] \in Kind /\ m[2] \in Resource
        BY DEF Message
      <3>2. CASE m[1] = "created"
        BY <2>2, <2>3, <3>2 DEF HandlerInv, CreatedInv, DeletedInv, Entry, Named
      <3>3. CASE m[1] = "sync"
        BY <2>2, <2>3, <3>3 DEF HandlerInv, CreatedInv, DeletedInv, Entry, Named
      <3>4. CASE m[1] = "deleted"
        BY <2>2, <2>3, <3>4 DEF HandlerInv, CreatedInv, DeletedInv, Entry, Named, Table
      <3> QED
        BY <3>1, <3>2, <3>3, <3>4 DEF Kind
    <2>5. MessageStep /\ AckStep
      BY <1>1, <2>1, <2>2 DEF MessageStep, AckStep
    <2>6. SlotStep
      BY <2>3, <2>4 DEF SlotStep
    <2>7. TableStep /\ BindingStep /\ PolicyStep /\ RequestStep
      BY <2>1 DEF TableStep, BindingStep, PolicyStep, RequestStep
    <2> QED
      BY <1>0, <2>1, <2>5, <2>6, <2>7, Frame
  <1>6. ASSUME NEW m \in Message, AckDeadline(m) PROVE IInv'
    <2>1. /\ msg[m].status = "held" /\ msg' = [msg EXCEPT ![m] = Again(m)]
          /\ UNCHANGED <<cp, slot, req, table, bindings, policy, late, ops>>
      BY <1>6 DEF AckDeadline
    <2>2. /\ \A n \in Message \ {m} : msg'[n] = msg[n]
          /\ msg'[m].status \in {"pending", "dead"} /\ (msg'[m].status = "pending" => msg'[m].tries < MaxDeliver)
      BY <1>0, <2>1, AgainStep DEF Types, TypeOK
    <2>3. MessageStep /\ AckStep
      BY <1>1, <2>1, <2>2 DEF MessageStep, AckStep
    <2>4. TableStep /\ BindingStep /\ PolicyStep /\ SlotStep /\ RequestStep
      BY <2>1 DEF TableStep, BindingStep, PolicyStep, SlotStep, RequestStep
    <2> QED
      BY <1>0, <2>1, <2>3, <2>4, Frame
  <1>7. ASSUME Restart PROVE IInv'
    <2>1. /\ UNCHANGED <<cp, table, bindings, late, ops>>
          /\ policy'.table = table' /\ policy'.bindings = bindings'
          /\ \A s \in Slot : slot'[s] = NoHandler
          /\ \A q \in Request : req'[q] = NoRequest
          /\ \A m \in Message : msg'[m] = msg[m] \/ msg'[m] = Again(m)
      BY <1>7 DEF Restart
    <2>2. \A m \in Message :
              \/ msg'[m] = msg[m]
              \/ /\ msg[m].status = "held" /\ msg'[m].status \in {"pending", "dead"}
                 /\ msg'[m].status = "pending" => msg'[m].tries < MaxDeliver
      BY <2>1, AgainStep
    <2>3. MessageStep /\ AckStep
      BY <1>1, <2>1, <2>2 DEF MessageStep, AckStep
    <2>4. TableStep /\ BindingStep /\ PolicyStep /\ SlotStep /\ RequestStep
      BY <2>1 DEF TableStep, BindingStep, PolicyStep, SlotStep, RequestStep
    <2> QED
      BY <1>0, <2>1, <2>3, <2>4, Frame
  <1>8. ASSUME NEW s \in Slot, Statement(s) PROVE IInv'
    <2>1. slot[s].pc \in Table \cup {"resource", "upsert"} /\ slot[s] # NoHandler
      BY <1>8 DEF Statement, NoHandler, Table
    <2>2. /\ Writes(s) /\ slot' = [slot EXCEPT ![s].pc = After(slot[s].pc)]
          /\ UNCHANGED <<cp, msg, req, policy, late, faults, ops>>
      BY <1>8 DEF Statement, Goto
    <2>3. /\ \A x \in Slot \ {s} : slot'[x] = slot[x]
          /\ slot'[s].msg = slot[s].msg /\ slot'[s].pc = After(slot[s].pc) /\ slot'[s].read = slot[s].read
      BY <1>0, <2>2 DEF Types, HandlerRecord
    <2>4. /\ bindings' \subseteq bindings
          /\ \A r \in Resource : cp[r] = "live" /\ Kept(r, table) => Kept(r, table')
          /\ slot[s].pc \in Table => <<slot[s].pc, slot[s].msg[2]>> \notin bindings'
          /\ slot[s].pc = "upsert" => \A r \in slot[s].read : Kept(r, table')
      BY <2>1, <2>2, WritesKeep
    <2>5. HandlerInv(slot'[s], msg') /\ CreatedInv(slot'[s], cp', table') /\ DeletedInv(slot'[s], late', bindings')
      <3>1. HandlerInv(slot[s], msg) /\ CreatedInv(slot[s], cp, table) /\ DeletedInv(slot[s], late, bindings)
        BY DEF IInv
      <3>2. slot[s].pc \in Table \cup {"resource"} => slot[s].msg[1] = "deleted"
        BY <2>1, HandlerShape
      <3>3. HandlerInv(slot'[s], msg')
        BY <2>1, <2>2, <2>3, <3>1, <3>2 DEF HandlerInv, After, Table
      <3>4. CreatedInv(slot'[s], cp', table')
        BY <2>1, <2>2, <2>3, <2>4, <3>1, <3>2 DEF CreatedInv, HandlerInv, After, Table
      <3>5. DeletedInv(slot'[s], late', bindings')
        BY <2>1, <2>2, <2>3, <2>4, <3>1, <3>2 DEF DeletedInv, HandlerInv, After, Table
      <3> QED
        BY <3>3, <3>4, <3>5
    <2>6. MessageStep /\ AckStep /\ PolicyStep /\ RequestStep
      BY <1>1, <2>2 DEF MessageStep, AckStep, PolicyStep, RequestStep
    <2>7. TableStep /\ BindingStep
      BY <2>2, <2>4 DEF TableStep, BindingStep
    <2>8. SlotStep
      BY <2>3, <2>5 DEF SlotStep
    <2> QED
      BY <1>0, <2>2, <2>6, <2>7, <2>8, Frame
  <1>9. ASSUME NEW s \in Slot, ReadScope(s) PROVE IInv'
    <2>1. slot[s].pc = "read" /\ slot[s] # NoHandler
      BY <1>9 DEF ReadScope, NoHandler
    <2>2. /\ \A x \in Slot \ {s} : slot'[x] = slot[x]
          /\ slot'[s].msg = slot[s].msg /\ slot'[s].pc = "upsert"
          /\ UNCHANGED <<cp, msg, req, table, bindings, policy, late, faults, ops>>
      BY <1>0, <1>9 DEF ReadScope, Types, HandlerRecord
    <2>3. slot[s].msg[1] = "sync" /\ HandlerInv(slot[s], msg)
      BY <2>1, HandlerShape DEF IInv, HandlerInv, Kind, Table
    <2>4. HandlerInv(slot'[s], msg') /\ CreatedInv(slot'[s], cp', table') /\ DeletedInv(slot'[s], late', bindings')
      BY <2>1, <2>2, <2>3 DEF HandlerInv, CreatedInv, DeletedInv
    <2>5. MessageStep /\ AckStep /\ TableStep /\ BindingStep /\ PolicyStep /\ RequestStep
      BY <1>1, <2>2 DEF MessageStep, AckStep, TableStep, BindingStep, PolicyStep, RequestStep
    <2>6. SlotStep
      BY <2>2, <2>4 DEF SlotStep
    <2> QED
      BY <1>0, <2>2, <2>5, <2>6, Frame
  <1>10. ASSUME NEW s \in Slot, ReloadAndAck(s) PROVE IInv'
    <2>1. slot[s].pc = "reload" /\ slot[s] # NoHandler
      BY <1>10 DEF ReloadAndAck, NoHandler
    <2>2. PICK k \in Kind, x \in Resource : slot[s].msg = <<k, x>>
      BY <2>1, HandlerShape
    <2>3. /\ <<k, x>> \in Message /\ msg[<<k, x>>].status # "none"
          /\ UNCHANGED <<cp, req, table, bindings, late, faults, ops>>
          /\ policy'.table = table' /\ policy'.bindings = bindings'
          /\ slot'[s] = NoHandler /\ \A y \in Slot \ {s} : slot'[y] = slot[y]
      BY <1>0, <1>10, <2>1, <2>2 DEF ReloadAndAck, Ack, Types, IInv, HandlerInv
    <2>4. msg'[<<k, x>>].status = "acked" /\ \A m \in Message \ {<<k, x>>} : msg'[m] = msg[m]
      BY <1>0, <1>10, <2>2, <2>3 DEF ReloadAndAck, Ack, Types, TypeOK
    <2>5. /\ k = "created" /\ cp[x] = "live" => Kept(x, table)
          /\ k = "deleted" /\ x \notin late => \A t \in Table : <<t, x>> \notin bindings
      BY <2>1, <2>2 DEF IInv, CreatedInv, DeletedInv, Table
    <2>6. AckStep
      BY <1>1, <2>3, <2>4, <2>5 DEF AckStep
    <2>7. MessageStep
      BY <1>1, <2>3, <2>4 DEF MessageStep
    <2>8. TableStep /\ BindingStep /\ PolicyStep /\ RequestStep /\ SlotStep
      BY <2>3 DEF TableStep, BindingStep, PolicyStep, RequestStep, SlotStep
    <2> QED
      BY <1>0, <2>3, <2>6, <2>7, <2>8, Frame
  <1>11. ASSUME NEW s \in Slot, Fail(s) PROVE IInv'
    <2>1. slot[s] # NoHandler
      BY <1>11 DEF Fail
    <2>2. slot[s].msg \in Message
      BY <2>1, HandlerShape
    <2>3. /\ msg' = [msg EXCEPT ![slot[s].msg] = Again(slot[s].msg)]
          /\ slot'[s] = NoHandler /\ \A x \in Slot \ {s} : slot'[x] = slot[x]
          /\ UNCHANGED <<cp, req, late, ops>>
      BY <1>0, <1>11 DEF Fail, Types
    <2>4. \A m \in Message :
              \/ msg'[m] = msg[m]
              \/ /\ msg[m].status = "held" /\ msg'[m].status \in {"pending", "dead"}
                 /\ msg'[m].status = "pending" => msg'[m].tries < MaxDeliver
      BY <1>0, <2>2, <2>3, AgainStep DEF Types, TypeOK
    <2>5. MessageStep /\ AckStep
      BY <1>1, <2>4 DEF MessageStep, AckStep
    <2>6. \/ UNCHANGED <<table, bindings, policy>>
          \/ Writes(s) /\ UNCHANGED policy
          \/ UNCHANGED <<table, bindings>> /\ policy'.table = table /\ policy'.bindings = bindings
      BY <1>11 DEF Fail
    <2>7. TableStep /\ BindingStep /\ PolicyStep
      <3>1. CASE Writes(s) /\ UNCHANGED policy
        BY <2>1, <2>3, <3>1, WritesKeep DEF TableStep, BindingStep, PolicyStep
      <3>2. CASE UNCHANGED <<table, bindings>>
        BY <2>3, <2>6, <3>2 DEF TableStep, BindingStep, PolicyStep
      <3> QED
        BY <2>6, <3>1, <3>2
    <2>8. SlotStep /\ RequestStep
      BY <2>3 DEF SlotStep, RequestStep
    <2> QED
      BY <1>0, <2>3, <2>5, <2>7, <2>8, Frame
  <1>12. ASSUME NEW s \in Slot, Panic(s) PROVE IInv'
    <2>1. slot[s].pc = "read" /\ slot[s] # NoHandler
      BY <1>12 DEF Panic, NoHandler
    <2>2. PICK k \in Kind, x \in Resource : slot[s].msg = <<k, x>>
      BY <2>1, HandlerShape
    <2>3. /\ <<k, x>> \in Message /\ msg[<<k, x>>].status # "none" /\ k = "sync"
      BY <2>1, <2>2 DEF IInv, HandlerInv, Kind, Table
    <2>4. /\ UNCHANGED <<cp, req, table, bindings, policy, late, ops>>
          /\ slot'[s] = NoHandler /\ \A y \in Slot \ {s} : slot'[y] = slot[y]
      BY <1>0, <1>12 DEF Panic, Ack, Types
    <2>5. msg'[<<k, x>>].status = "acked" /\ \A m \in Message \ {<<k, x>>} : msg'[m] = msg[m]
      BY <1>0, <1>12, <2>2, <2>3 DEF Panic, Ack, Types, TypeOK
    <2>6. MessageStep
      BY <1>1, <2>3, <2>5 DEF MessageStep
    <2>7. AckStep
      BY <1>1, <2>3, <2>4, <2>5 DEF AckStep
    <2>8. TableStep /\ BindingStep /\ PolicyStep /\ RequestStep /\ SlotStep
      BY <2>4 DEF TableStep, BindingStep, PolicyStep, RequestStep, SlotStep
    <2> QED
      BY <1>0, <2>4, <2>6, <2>7, <2>8, Frame
  <1>13. msg' = msg => MessageStep /\ AckStep
    BY <1>1 DEF MessageStep, AckStep
  <1>14. ASSUME NEW q \in Request, UNCHANGED <<cp, msg, slot, table, bindings, policy, late>>,
                \A x \in Request \ {q} : req'[x] = req[x],
                req'[q] \in {req[q], NoRequest} \/ RequestInv(req'[q], cp', table')
         PROVE  IInv'
    <2>1. TableStep /\ BindingStep /\ PolicyStep /\ SlotStep
      BY <1>14 DEF TableStep, BindingStep, PolicyStep, SlotStep
    <2>2. RequestStep
      BY <1>14 DEF RequestStep
    <2> QED
      BY <1>0, <1>13, <1>14, <2>1, <2>2, Frame
  <1>15. ASSUME NEW q \in Request, NEW t \in Table, NEW r \in Resource, Grant(q, t, r) PROVE IInv'
    <2>1. /\ UNCHANGED <<cp, msg, slot, table, bindings, policy, late>>
          /\ req' = [req EXCEPT ![q] = [NoRequest EXCEPT !.pc = "insert", !.scope = r, !.in = t]]
      BY <1>15 DEF Grant, Begin
    <2>2. /\ \A x \in Request \ {q} : req'[x] = req[x]
          /\ req'[q] = [NoRequest EXCEPT !.pc = "insert", !.scope = r, !.in = t]
      BY <1>0, <2>1 DEF Types
    <2>3. RequestInv(req'[q], cp', table')
      BY <2>2 DEF RequestInv, NoRequest
    <2> QED
      BY <1>14, <2>1, <2>2, <2>3
  <1>16. ASSUME NEW q \in Request, GrantInsert(q) PROVE IInv'
    <2>1. /\ req[q].pc = "insert" /\ RequestInv(req[q], cp, table)
          /\ bindings' = bindings \cup {<<req[q].in, req[q].scope>>}
          /\ late' = IF cp[req[q].scope] = "gone" THEN late \cup {req[q].scope} ELSE late
          /\ req' = [req EXCEPT ![q].pc = "reload"]
          /\ UNCHANGED <<cp, msg, slot, table, policy, faults, ops>>
      BY <1>16 DEF GrantInsert, IInv
    <2>2. BindingStep
      BY <2>1 DEF BindingStep
    <2>3. MessageStep /\ AckStep /\ TableStep /\ PolicyStep /\ SlotStep
      BY <1>1, <2>1 DEF MessageStep, AckStep, TableStep, PolicyStep, SlotStep
    <2>4. RequestStep
      <3>1. /\ \A x \in Request \ {q} : req'[x] = req[x]
            /\ req'[q].pc = "reload" /\ req'[q].read = {} /\ req'[q].todo = {}
        BY <1>0, <2>1 DEF Types, RequestRecord, RequestInv
      <3>2. RequestInv(req'[q], cp', table')
        BY <3>1 DEF RequestInv
      <3> QED
        BY <3>1, <3>2 DEF RequestStep
    <2> QED
      BY <1>0, <2>1, <2>2, <2>3, <2>4, Frame
  <1>17. ASSUME NEW q \in Request, SyncOrg(q) PROVE IInv'
    <2>1. /\ UNCHANGED <<cp, msg, slot, table, bindings, policy, late>>
          /\ req' = [req EXCEPT ![q] = [NoRequest EXCEPT !.pc = "list", !.todo = Live \cap Project]]
      BY <1>17 DEF SyncOrg, Begin
    <2>2. /\ \A x \in Request \ {q} : req'[x] = req[x]
          /\ req'[q] = [NoRequest EXCEPT !.pc = "list", !.todo = Live \cap Project]
      BY <1>0, <2>1 DEF Types
    <2>3. RequestInv(req'[q], cp', table')
      BY <2>2 DEF RequestInv, NoRequest
    <2> QED
      BY <1>14, <2>1, <2>2, <2>3
  <1>18. ASSUME NEW q \in Request, NEW p \in Project, SyncList(q, p) PROVE IInv'
    <2>1. /\ UNCHANGED <<cp, msg, slot, table, bindings, policy, late>> /\ req[q].pc = "list"
          /\ req' = [req EXCEPT ![q] = [req[q] EXCEPT !.todo = req[q].todo \ {p},
                                                      !.read = req[q].read \cup (EnvsOf(p) \cap Live)]]
      BY <1>18 DEF SyncList
    <2>2. /\ \A x \in Request \ {q} : req'[x] = req[x]
          /\ req'[q].pc = "list" /\ req'[q].read = req[q].read \cup (EnvsOf(p) \cap Live)
      BY <1>0, <2>1 DEF Types, RequestRecord
    <2>3. RequestInv(req'[q], cp', table')
      BY <2>1, <2>2 DEF RequestInv, IInv, Live
    <2> QED
      BY <1>14, <2>1, <2>2, <2>3
  <1>19. ASSUME NEW q \in Request, SyncUpsert(q) PROVE IInv'
    <2>1. /\ UNCHANGED <<cp, msg, slot, bindings, policy, late>> /\ req[q].pc = "list" /\ req[q].todo = {}
          /\ table' = table \cup (req[q].read \cup Parents(req[q].read))
          /\ req' = [req EXCEPT ![q].pc = "reload"]
      BY <1>19 DEF SyncUpsert, Upserted
    <2>2. /\ \A x \in Request \ {q} : req'[x] = req[x]
          /\ req'[q].pc = "reload" /\ req'[q].read = req[q].read /\ req'[q].todo = {}
      BY <1>0, <2>1 DEF Types, RequestRecord
    <2>3. \A e \in req[q].read : Kept(e, table')
      <3>1. req[q].read \in SUBSET Resource
        BY <1>0 DEF Types, TypeOK, Resource
      <3>2. req[q].read \cup Parents(req[q].read) \subseteq table'
        BY <2>1
      <3> QED
        BY <3>1, <3>2, ParentsKept
    <2>4. RequestInv(req'[q], cp', table')
      BY <2>1, <2>2, <2>3 DEF RequestInv, IInv
    <2>5. TableStep
      BY <2>1 DEF TableStep, Kept
    <2>6. BindingStep /\ PolicyStep /\ SlotStep
      BY <2>1 DEF BindingStep, PolicyStep, SlotStep
    <2>7. RequestStep
      BY <2>2, <2>4 DEF RequestStep
    <2> QED
      BY <1>0, <1>13, <2>1, <2>5, <2>6, <2>7, Frame
  <1>20. ASSUME NEW q \in Request, RequestReload(q) PROVE IInv'
    <2>1. /\ UNCHANGED <<cp, msg, slot, table, bindings, late, faults, ops>>
          /\ policy'.table = table /\ policy'.bindings = bindings
          /\ \A x \in Request : req'[x] \in {req[x], NoRequest}
      BY <1>0, <1>20 DEF RequestReload, Types
    <2>2. TableStep /\ BindingStep /\ PolicyStep /\ RequestStep /\ SlotStep
      BY <2>1 DEF TableStep, BindingStep, PolicyStep, RequestStep, SlotStep
    <2> QED
      BY <1>0, <1>13, <2>1, <2>2, Frame
  <1>21. ASSUME NEW q \in Request, RequestFails(q) PROVE IInv'
    <2>1. /\ UNCHANGED <<cp, msg, slot, table, bindings, policy, late>>
          /\ req'[q] = NoRequest /\ \A x \in Request \ {q} : req'[x] = req[x]
      BY <1>0, <1>21 DEF RequestFails, Types
    <2> QED
      BY <1>14, <2>1
  <1>22. CASE UNCHANGED vars
    <2>1. TableStep /\ BindingStep /\ PolicyStep /\ RequestStep /\ SlotStep
      BY <1>22 DEF vars, TableStep, BindingStep, PolicyStep, RequestStep, SlotStep
    <2> QED
      BY <1>0, <1>13, <1>22, <2>1, Frame DEF vars
  <1> QED
    BY <1>2, <1>3, <1>4, <1>5, <1>6, <1>7, <1>8, <1>9, <1>10, <1>11, <1>12,
       <1>15, <1>16, <1>17, <1>18, <1>19, <1>20, <1>21, <1>22 DEF Next

\* The inductive invariant always holds.
LEMMA Invariance == Spec => []IInv
  BY InitIInv, NextIInv, PTL DEF Spec

-----------------------------------------------------------------------------

\* Types, and that a resource whose created event was acknowledged stays in
\* the hierarchy and in the loaded policy, with its project, whatever retries,
\* duplicates, restarts, deletions of others and requests happen.
THEOREM LiveStaysReachable == Spec => []WorkerInv
  <1>1. IInv => WorkerInv
    <2> SUFFICES ASSUME IInv, NEW r \in Live, Status("created", r) = "acked"
                 PROVE  {r} \cup Parents({r}) \subseteq table \cap policy.table
      BY DEF IInv, Types, WorkerInv, LiveIsReachable
    <2>1. r \in Resource /\ Kept(r, table) /\ Kept(r, policy.table)
      BY DEF Live, Status, IInv, LiveInv
    <2>2. {r} \cup Parents({r}) \subseteq table
      BY <2>1, ParentsKept
    <2>3. {r} \cup Parents({r}) \subseteq policy.table
      BY <2>1, ParentsKept
    <2> QED
      BY <2>2, <2>3
  <1> QED
    BY <1>1, Invariance, PTL

\* An acknowledged deletion event has removed every binding of the scope from
\* the tables and from the loaded policy, for good, unless a request that had
\* validated the scope before the deletion binds it afterwards.
THEOREM DeletionIsFinal == Spec => []DeletedLosesAccess
  <1>1. IInv => DeletedLosesAccess
    BY DEF IInv
  <1> QED
    BY <1>1, Invariance, PTL

\* A sync-scopes request that succeeds leaves every environment that it listed
\* and that still exists in the loaded hierarchy.
THEOREM SyncAlwaysRepairs == Spec => SyncRepairs
  <1>1. ASSUME IInv, Next, NEW q \in Request, req[q].pc = "reload", req'[q] = NoRequest, faults' = faults
        PROVE  (req[q].read \cap Live) \cup Parents(req[q].read \cap Live) \subseteq policy'.table
    <2>1. req[q] # NoRequest /\ req \in [Request -> RequestRecord] /\ faults \in Nat /\ req[q].todo = {}
      BY <1>1 DEF NoRequest, IInv, Types, TypeOK, RequestInv
    <2>2. req' # req
      BY <1>1, <2>1
    <2>3. faults' # faults + 1
      BY SMTT(60), <1>1, <2>1
    <2>4. PICK x \in Request : /\ req' = [req EXCEPT ![x] = req'[x]]
                               /\ \/ RequestReload(x)
                                  \/ RequestFails(x)
                                  \/ req[x].pc # "reload" /\ req'[x] # NoRequest
      <3>1. ASSUME NEW x \in Request, NEW rec, rec.pc # "idle", Begin(x, rec)
            PROVE  req' = [req EXCEPT ![x] = req'[x]] /\ req[x].pc # "reload" /\ req'[x] # NoRequest
        BY <2>1, <3>1 DEF Begin, NoRequest
      <3>2. \A x \in Request, t \in Table, r \in Resource : Grant(x, t, r) =>
               req' = [req EXCEPT ![x] = req'[x]] /\ req[x].pc # "reload" /\ req'[x] # NoRequest
        BY <3>1 DEF Grant, NoRequest
      <3>3. \A x \in Request : SyncOrg(x) =>
               req' = [req EXCEPT ![x] = req'[x]] /\ req[x].pc # "reload" /\ req'[x] # NoRequest
        BY <3>1 DEF SyncOrg, NoRequest
      <3> QED
        BY ZenonT(60), <1>1, <2>1, <2>2, <2>3, <3>2, <3>3
           DEF Next, CreateResource, DeleteResource, RequestSync, Deliver, AckDeadline, Restart, Statement,
               ReadScope, ReloadAndAck, Fail, Panic, GrantInsert, SyncList, SyncUpsert, RequestReload,
               RequestFails, NoRequest, RequestRecord
    <2>5. x = q
      BY <1>1, <2>1, <2>2, <2>4
    <2>6. RequestReload(q)
      BY <1>1, <2>1, <2>3, <2>4, <2>5 DEF RequestFails
    <2>7. policy'.table = table /\ RequestInv(req[q], cp, table)
      BY <2>6, <1>1 DEF RequestReload, IInv
    <2>8. \A e \in req[q].read \cap Live : Kept(e, policy'.table)
      BY <1>1, <2>7 DEF RequestInv, Live
    <2> QED
      BY <2>8, ParentsKept DEF Live
  <1>2. IInv /\ [Next]_vars =>
          [\A q \in Request : req[q].pc = "reload" /\ req'[q] = NoRequest /\ faults' = faults =>
             (req[q].read \cap Live) \cup Parents(req[q].read \cap Live) \subseteq policy'.table]_vars
    BY <1>1
  <1> QED
    BY <1>2, Invariance, PTL DEF SyncRepairs, Spec
=============================================================================
