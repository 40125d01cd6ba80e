-------------------------- MODULE UserAccess_proofs -------------------------
(***************************************************************************)
(* Proofs about UserAccess, for any number of concurrent requests, users,  *)
(* sessions, device login requests and invitations.                        *)
(***************************************************************************)
EXTENDS UserAccess, TLAPS

Deciding == {"decide_write", "decide_commit"}
Polling == {"poll_delete", "poll_commit"}
Redeeming == {"redeem_insert", "redeem_delete", "redeem_commit"}
Entering == {"sso_insert", "sso_commit"}
Leaving == {"dep_invitations", "dep_sessions", "dep_requests", "dep_commit"}

Types == TypeOK /\ tx \in [Tx -> TxType]

\* Which arguments a request has at which of its statements.
ShapeInv ==
    \A t \in Tx :
        /\ tx[t].pc = "idle" => tx[t] = Idle
        /\ tx[t].pc # "idle" => tx[t].who \in Credential
        /\ tx[t].status # "none" <=> tx[t].pc \in Leaving
        /\ tx[t].pc \in Deciding \cup Polling => tx[t].doc \in Request
        /\ tx[t].pc \in Redeeming => tx[t].doc \in Invitation
        /\ tx[t].pc \notin Leaving => tx[t].sessions = {} /\ tx[t].docs = {} /\ tx[t].roles = {}
        /\ tx[t].pc \in {"dep_invitations", "dep_sessions"} => tx[t].sessions = {}
        /\ tx[t].pc = "dep_invitations" => tx[t].docs = {}

\* A row that a request has written is locked by it.
LockInv ==
    \A t \in Tx :
        /\ tx[t].pc \in {"decide_commit", "poll_commit", "redeem_commit"} => lock[tx[t].doc] = t
        /\ \A x \in tx[t].docs : lock[x] = t

\* What a request read of a row is still so, or the row is gone; and a row that
\* was used is gone.
DocInv ==
    /\ \A q \in Request : /\ request[q] \in Decision => decider[q] \in Credential
                          /\ used[q] # 0 => request[q] = "gone"
    /\ \A v \in Invitation : used[v] # 0 => invitation[v] = "gone"
    /\ \A t \in Tx :
          /\ tx[t].pc = "decide_write" => request[tx[t].doc] # "none"
          /\ tx[t].pc = "decide_commit" => request[tx[t].doc] \notin {"none", "gone"}
          /\ tx[t].pc = "poll_delete" => request[tx[t].doc] \in Decision \cup {"gone"}
          /\ tx[t].pc = "poll_commit" => request[tx[t].doc] \in Decision
          /\ tx[t].pc \in {"redeem_insert", "redeem_delete"} => invitation[tx[t].doc] # "none"
          /\ tx[t].pc = "redeem_commit" => invitation[tx[t].doc] = "open"

\* Every use and every revocation is the work of a request of its own.
CountInv ==
    /\ \A x \in Doc : used[x] <= ops /\ used[x] <= 1
    /\ \A u \in User : epoch[u] <= ops
    /\ \A t \in Tx : /\ tx[t].pc # "idle" => 1 <= ops
                     /\ tx[t].pc \in {"dep_invitations", "dep_sessions"} => epoch[tx[t].who.user] < ops

\* The SCIM row: a deprovisioning holds it, and so does a login or redemption
\* that found one; one that found none and is overtaken by a deprovisioning has
\* raced.
GateInv ==
    \A t \in Tx :
        /\ tx[t].gate # "none" => tx[t].pc \in Granting
        /\ tx[t].status # "none" \/ tx[t].gate # "none" => lock[tx[t].who.user] = t
        /\ \A o \in Tx : /\ tx[t].pc \in Granting /\ tx[t].gate = "none"
                         /\ tx[o].status # "none" /\ tx[o].who.user = tx[t].who.user
                         => tx[t].who.user \in raced.role

\* The deprovisioning of a user that did not race deletes every role of the
\* user, and a request that could give the user a role passed the SCIM gate
\* that is still open.
RoleInv ==
    /\ \A t \in Tx :
          /\ tx[t].status # "none" => scim[tx[t].who.user] # "none"
          /\ tx[t].who.user \notin raced.role =>
                /\ tx[t].status # "none" => roles[tx[t].who.user] \subseteq tx[t].roles
                /\ tx[t].pc \in Granting => scim[tx[t].who.user] \notin Deprovisioned
    /\ DeprovisionedStaysOut

\* A deprovisioning that has a session or a device login request on its list
\* began before the credentials were revoked.
EpochInv ==
    \A t \in Tx : tx[t].status # "none" =>
        /\ tx[t].who.origin <= epoch[tx[t].who.user]
        /\ tx[t].sessions # {} \/ tx[t].pc = "dep_requests" \/ tx[t].docs \cap Request # {} =>
               tx[t].who.origin < epoch[tx[t].who.user]

\* A credential of a user that did not race is current, or on the list of the
\* deprovisioning that revoked it.
RevokeInv ==
    \A u \in User \ raced.credential :
        /\ \A s \in Session : session[s].user = u /\ session[s].origin # epoch[u] =>
               \E t \in Tx : tx[t].status # "none" /\ tx[t].who.user = u /\ s \in tx[t].sessions
        /\ \A q \in Request : request[q] = "accepted" /\ decider[q].user = u /\ decider[q].origin # epoch[u] =>
               \E t \in Tx : /\ tx[t].status # "none" /\ tx[t].who.user = u
                             /\ tx[t].pc = "dep_requests" \/ q \in tx[t].docs
        /\ \A t \in Tx : tx[t].who.user = u /\ tx[t].who.origin # epoch[u] =>
               tx[t].pc \notin Deciding /\ (tx[t].pc \in Polling => tx[t].decision = "rejected")

IInv ==
    /\ Types /\ ShapeInv /\ LockInv /\ DocInv /\ CountInv /\ GateInv /\ RoleInv
    /\ EpochInv /\ RevokeInv
-----------------------------------------------------------------------------
USE AccessAssumption

\* Idle is a request that does nothing.
LEMMA IdleType ==
  /\ Idle \in TxType /\ Idle.pc = "idle" /\ Idle.status = "none" /\ Idle.who.user = None
  /\ Idle.gate = "none" /\ Idle.sessions = {} /\ Idle.docs = {} /\ Idle.roles = {} /\ None \notin User
  BY DEF Idle, TxType, Nobody, Credential, Decision, ScimStatus

\* The inductive invariant holds initially.
LEMMA InitIInv == Init => IInv
  <1> SUFFICES ASSUME Init PROVE IInv
    OBVIOUS
  <1>1. Nobody \in Credential \cup {Nobody} /\ Nobody.user = None
    BY DEF Nobody
  <1>2. \A t \in Tx : tx[t] = Idle
    BY DEF Init
  <1>3. Types
    BY <1>1, IdleType DEF Init, Types, TypeOK, Role, ScimStatus
  <1>4. ShapeInv /\ LockInv
    BY <1>2, IdleType DEF ShapeInv, LockInv, Deciding, Polling, Redeeming, Leaving
  <1>5. DocInv /\ CountInv
    BY <1>2, IdleType DEF Init, DocInv, CountInv, Doc, Decision
  <1>6. GateInv /\ RoleInv /\ EpochInv
    BY <1>2, IdleType DEF Init, GateInv, RoleInv, EpochInv, DeprovisionedStaysOut, Granting
  <1>7. RevokeInv
    BY <1>1, <1>2, IdleType DEF Init, RevokeInv, Deciding, Polling
  <1> QED
    BY <1>3, <1>4, <1>5, <1>6, <1>7 DEF IInv

\* Two requests of one user, one of them a deprovisioning: the other is none,
\* and can give the user a role only if the user has raced.
LEMMA Apart ==
  ASSUME IInv, NEW t \in Tx, NEW o \in Tx, t # o, tx[t].status # "none",
         tx[o].who.user = tx[t].who.user
  PROVE  /\ tx[o].status = "none" /\ tx[o].gate = "none"
         /\ tx[o].pc \in Granting => tx[t].who.user \in raced.role
  BY DEF IInv, GateInv

\* What a request may start with: the rows it read, and the locks it took.
DecideStart(rec, rows) ==
    /\ rec.pc = "decide_write" /\ rec.doc \in Request /\ request[rec.doc] # "none"
    /\ \E s \in Session : rec.who = session[s]
    /\ rec.status = "none" /\ rec.roles = {} /\ rec.gate = "none" /\ rows = {}
    /\ MissRevocation(rec.who.user)

PollStart(rec, rows) ==
    /\ rec.pc = "poll_delete" /\ rec.doc \in Request /\ request[rec.doc] \in Decision
    /\ rec.who = decider[rec.doc] /\ rec.decision = request[rec.doc]
    /\ rec.status = "none" /\ rec.roles = {} /\ rec.gate = "none" /\ rows = {}
    /\ MissRevocation(rec.who.user)

GrantStart(rec, rows) ==
    /\ \/ /\ rec.pc \in {"redeem_insert", "redeem_delete"} /\ rec.doc \in Invitation
          /\ invitation[rec.doc] # "none"
       \/ rec.pc \in Entering
    /\ rec.status = "none" /\ rec.roles = {} /\ rec.gate = scim[rec.who.user]
    /\ ScimGate(rec.who.user) /\ rows = GateRows(rec.who.user)
    /\ UNCHANGED raced

LeaveStart(rec, rows) ==
    /\ rec.pc = "dep_invitations" /\ rec.status # "none" /\ rec.gate = "none"
    /\ rec.roles = roles[rec.who.user] /\ rec.who.origin = epoch[rec.who.user]
    /\ scim[rec.who.user] # "none" /\ lock[rec.who.user] = None /\ rows = {rec.who.user}
    /\ raced' = IF \E o \in Tx : /\ tx[o].who.user = rec.who.user /\ tx[o].gate = "none"
                                 /\ tx[o].pc \in Granting
                THEN [raced EXCEPT !.role = @ \cup {rec.who.user}] ELSE raced

\* What the start of a request leaves and adds.
LEMMA BeginFacts ==
  ASSUME IInv, NEW t \in Tx, NEW rec \in TxType, NEW rows, Begin(t, rec, rows),
         rec.who \in Credential, rec.sessions = {}, rec.docs = {},
         DecideStart(rec, rows) \/ PollStart(rec, rows) \/ GrantStart(rec, rows) \/ LeaveStart(rec, rows)
  PROVE  /\ tx[t] = Idle /\ ops \in Nat /\ ops < MaxOps /\ ops' = ops + 1
         /\ tx' \in [Tx -> TxType] /\ tx'[t] = rec /\ \A o \in Tx \ {t} : tx'[o] = tx[o]
         /\ rec.pc # "idle" /\ rec.who.user \in User
         /\ rows \subseteq {rec.who.user}
         /\ \A x \in Row : lock'[x] = IF x \in rows THEN t ELSE lock[x]
         /\ \A x \in rows : lock[x] = None
         /\ lock' \in [Row -> Tx \cup {None}]
         /\ \A x \in Doc : lock'[x] = lock[x]
         /\ raced' \in [role : SUBSET User, credential : SUBSET User]
         /\ raced.role \subseteq raced'.role /\ raced.credential \subseteq raced'.credential
         /\ UNCHANGED tables
  <1>1. /\ tx[t] = Idle /\ ops \in Nat /\ ops < MaxOps /\ ops' = ops + 1
        /\ tx' = [tx EXCEPT ![t] = rec]
        /\ lock' = [x \in Row |-> IF x \in rows THEN t ELSE lock[x]]
        /\ UNCHANGED tables
    BY DEF Begin, IInv, Types, TypeOK
  <1>2. /\ tx' \in [Tx -> TxType] /\ tx'[t] = rec /\ \A o \in Tx \ {t} : tx'[o] = tx[o]
    BY <1>1 DEF IInv, Types
  <1>3. rec.pc # "idle" /\ rec.who.user \in User
    BY DEF DecideStart, PollStart, GrantStart, LeaveStart, Entering, Credential
  <1>4. rows \subseteq {rec.who.user} /\ \A x \in rows : lock[x] = None
    BY DEF DecideStart, PollStart, GrantStart, LeaveStart, GateRows, ScimGate
  <1>5. /\ lock' \in [Row -> Tx \cup {None}]
        /\ \A x \in Row : lock'[x] = IF x \in rows THEN t ELSE lock[x]
    BY <1>1 DEF IInv, Types, TypeOK
  <1>6. \A x \in Doc : x \in Row /\ x \notin rows
    BY <1>3, <1>4 DEF Doc, Row
  <1>7. raced \in [role : SUBSET User, credential : SUBSET User]
    BY DEF IInv, Types, TypeOK
  <1>8. \/ raced' = raced \/ raced' = [raced EXCEPT !.role = @ \cup {rec.who.user}]
        \/ raced' = [raced EXCEPT !.credential = @ \cup {rec.who.user}]
    BY DEF DecideStart, PollStart, GrantStart, LeaveStart, MissRevocation
  <1>9. /\ raced' \in [role : SUBSET User, credential : SUBSET User]
        /\ raced.role \subseteq raced'.role /\ raced.credential \subseteq raced'.credential
    BY <1>3, <1>7, <1>8
  <1> QED
    BY <1>1, <1>2, <1>3, <1>4, <1>5, <1>6, <1>9

\* A request that starts preserves the invariant, whichever handler it is of.
LEMMA BeginIInv ==
  ASSUME IInv, NEW t \in Tx, NEW rec \in TxType, NEW rows, Begin(t, rec, rows),
         rec.who \in Credential, rec.sessions = {}, rec.docs = {},
         DecideStart(rec, rows) \/ PollStart(rec, rows) \/ GrantStart(rec, rows) \/ LeaveStart(rec, rows)
  PROVE  IInv'
  <1> DEFINE w == rec.who.user
  <1>0. /\ tx[t] = Idle /\ ops \in Nat /\ ops < MaxOps /\ ops' = ops + 1
        /\ tx' \in [Tx -> TxType] /\ tx'[t] = rec /\ \A o \in Tx \ {t} : tx'[o] = tx[o]
        /\ rec.pc # "idle" /\ w \in User
        /\ rows \subseteq {w}
        /\ \A x \in Row : lock'[x] = IF x \in rows THEN t ELSE lock[x]
        /\ \A x \in rows : lock[x] = None
        /\ lock' \in [Row -> Tx \cup {None}]
        /\ \A x \in Doc : lock'[x] = lock[x]
        /\ raced' \in [role : SUBSET User, credential : SUBSET User]
        /\ raced.role \subseteq raced'.role /\ raced.credential \subseteq raced'.credential
        /\ UNCHANGED tables
    BY BeginFacts
  <1>2. Types'
    BY <1>0 DEF IInv, Types, TypeOK, tables
  <1>3. ShapeInv'
    BY <1>0 DEF IInv, ShapeInv, Deciding, Polling, Redeeming, Entering, Leaving,
                DecideStart, PollStart, GrantStart, LeaveStart
  <1>4. LockInv'
    <2>1. \A o \in Tx : tx[o].docs \subseteq Doc
      BY DEF IInv, Types, TxType
    <2>2. \A o \in Tx : tx[o].pc \in {"decide_commit", "poll_commit", "redeem_commit"} => tx[o].doc \in Doc
      BY DEF IInv, ShapeInv, Doc, Deciding, Polling, Redeeming
    <2>3. rec.pc \notin {"decide_commit", "poll_commit", "redeem_commit"}
      BY DEF DecideStart, PollStart, GrantStart, LeaveStart, Entering
    <2> QED
      BY <1>0, <2>1, <2>2, <2>3 DEF IInv, LockInv
  <1>5. DocInv'
    BY <1>0 DEF IInv, DocInv, tables, Entering, DecideStart, PollStart, GrantStart, LeaveStart
  <1>6. CountInv'
    <2>1. \A x \in Doc : used[x] \in Nat
      BY DEF IInv, Types, TypeOK
    <2>2. \A u \in User : epoch[u] \in Nat
      BY DEF IInv, Types, TypeOK
    <2>3. \A o \in Tx : tx[o].pc # "idle" => tx[o].who.user \in User
      BY DEF IInv, ShapeInv, Credential
    <2> QED
      BY <1>0, <2>1, <2>2, <2>3 DEF IInv, CountInv, tables
  <1>7. \A o \in Tx : /\ tx[o].pc \in Granting => tx[o].who.user \in User
                      /\ tx[o].status # "none" => tx[o].who.user \in User
                      /\ tx[o].gate # "none" => tx[o].who.user \in User
    BY DEF IInv, ShapeInv, GateInv, Credential, Leaving, Granting
  <1>8. GateInv'
    <2> SUFFICES ASSUME NEW o \in Tx
                 PROVE  /\ tx'[o].gate # "none" => tx'[o].pc \in Granting
                        /\ tx'[o].status # "none" \/ tx'[o].gate # "none" => lock'[tx'[o].who.user] = o
                        /\ \A p \in Tx : /\ tx'[o].pc \in Granting /\ tx'[o].gate = "none"
                                         /\ tx'[p].status # "none" /\ tx'[p].who.user = tx'[o].who.user
                                         => tx'[o].who.user \in raced'.role
      BY DEF GateInv
    <2>1. CASE o # t
      <3>1. tx'[o] = tx[o]
        BY <1>0, <2>1
      <3>2. tx[o].gate # "none" => tx[o].pc \in Granting
        BY DEF IInv, GateInv
      <3>3. tx[o].status # "none" \/ tx[o].gate # "none" => lock'[tx[o].who.user] = o
        <4>1. ASSUME tx[o].status # "none" \/ tx[o].gate # "none" PROVE lock[tx[o].who.user] = o
          BY <4>1 DEF IInv, GateInv
        <4>2. None \notin Tx
          OBVIOUS
        <4> QED
          BY <1>0, <1>7, <4>1, <4>2 DEF Row
      <3>4. ASSUME NEW p \in Tx, tx[o].pc \in Granting, tx[o].gate = "none",
                   tx'[p].status # "none", tx'[p].who.user = tx[o].who.user
            PROVE  tx[o].who.user \in raced'.role
        <4>2. CASE p # t
          BY <1>0, <3>4, <4>2 DEF IInv, GateInv
        <4>3. CASE p = t
          <5>1. LeaveStart(rec, rows) /\ w = tx[o].who.user
            BY <1>0, <3>4, <4>3 DEF DecideStart, PollStart, GrantStart
          <5>2. raced \in [role : SUBSET User, credential : SUBSET User]
            BY DEF IInv, Types, TypeOK
          <5>3. raced' = [raced EXCEPT !.role = @ \cup {w}]
            BY <3>4, <5>1 DEF LeaveStart
          <5> QED
            BY <5>1, <5>2, <5>3
        <4> QED
          BY <4>2, <4>3
      <3> QED
        BY <3>1, <3>2, <3>3, <3>4
    <2>2. CASE o = t
      <3>1. rec.gate # "none" => rec.pc \in Granting
        BY DEF DecideStart, PollStart, GrantStart, LeaveStart, Granting, Entering
      <3>2. rec.status # "none" \/ rec.gate # "none" => w \in rows
        BY DEF DecideStart, PollStart, GrantStart, LeaveStart, GateRows
      <3>3. ASSUME NEW p \in Tx, rec.pc \in Granting, rec.gate = "none",
                   tx'[p].status # "none", tx'[p].who.user = w
            PROVE  FALSE
        <4>1. GrantStart(rec, rows) /\ scim[w] = "none" /\ rec.status = "none"
          BY <3>3 DEF DecideStart, PollStart, GrantStart, LeaveStart, Granting
        <4>3. tx[p].status # "none" /\ tx[p].who.user = w
          BY <1>0, <3>3, <4>1
        <4> QED
          BY <4>1, <4>3 DEF IInv, RoleInv
      <3> QED
        BY <1>0, <2>2, <3>1, <3>2, <3>3 DEF Row
    <2> QED
      BY <2>1, <2>2
  <1>9. RoleInv'
    <2>1. \A o \in Tx \ {t} :
             /\ tx'[o].status # "none" => scim[tx'[o].who.user] # "none"
             /\ tx'[o].who.user \notin raced'.role =>
                   /\ tx'[o].status # "none" => roles[tx'[o].who.user] \subseteq tx'[o].roles
                   /\ tx'[o].pc \in Granting => scim[tx'[o].who.user] \notin Deprovisioned
      BY <1>0 DEF IInv, RoleInv
    <2>2. /\ rec.status # "none" => scim[w] # "none"
          /\ rec.status # "none" => roles[w] \subseteq rec.roles
          /\ rec.pc \in Granting => scim[w] \notin Deprovisioned
      BY DEF DecideStart, PollStart, GrantStart, LeaveStart, Granting, ScimGate, Deprovisioned
    <2>3. DeprovisionedStaysOut'
      BY <1>0 DEF IInv, RoleInv, DeprovisionedStaysOut, tables
    <2> QED
      BY <1>0, <2>1, <2>2, <2>3 DEF RoleInv, tables
  <1>10. EpochInv'
    <2>1. \A u \in User : epoch[u] \in Nat
      BY DEF IInv, Types, TypeOK
    <2>2. rec.status # "none" => rec.who.origin = epoch[w] /\ rec.pc # "dep_requests"
      BY DEF DecideStart, PollStart, GrantStart, LeaveStart
    <2> QED
      BY <1>0, <2>1, <2>2 DEF IInv, EpochInv, tables
  <1>11. RevokeInv'
    <2> SUFFICES ASSUME NEW u \in User, u \notin raced'.credential
                 PROVE  /\ \A s \in Session : session[s].user = u /\ session[s].origin # epoch[u] =>
                             \E o \in Tx : tx'[o].status # "none" /\ tx'[o].who.user = u /\ s \in tx'[o].sessions
                        /\ \A q \in Request : request[q] = "accepted" /\ decider[q].user = u /\ decider[q].origin # epoch[u] =>
                             \E o \in Tx : /\ tx'[o].status # "none" /\ tx'[o].who.user = u
                                           /\ tx'[o].pc = "dep_requests" \/ q \in tx'[o].docs
                        /\ \A o \in Tx : tx'[o].who.user = u /\ tx'[o].who.origin # epoch[u] =>
                             tx'[o].pc \notin Deciding /\ (tx'[o].pc \in Polling => tx'[o].decision = "rejected")
      BY <1>0 DEF RevokeInv, tables
    <2>1. u \notin raced.credential
      BY <1>0
    <2>2. \A o \in Tx : tx[o].status # "none" => o # t
      BY <1>0, IdleType
    <2>3. ASSUME w = u, MissRevocation(w) PROVE \A o \in Tx : ~Revoking(o, u)
      <3>1. raced \in [role : SUBSET User, credential : SUBSET User]
        BY DEF IInv, Types, TypeOK
      <3> QED
        BY <2>3, <3>1 DEF MissRevocation
    <2>4. \A o \in Tx : tx[o].status # "none" => tx[o].who.user \in User /\ tx[o].who.origin \in Nat
      BY DEF IInv, ShapeInv, Leaving, Credential
    <2>5. \A o \in Tx : epoch[u] \in Nat
      BY DEF IInv, Types, TypeOK
    <2>6. ASSUME w = u, rec.who.origin # epoch[u], rec.pc \in Deciding
          PROVE  FALSE
      <3>0. DecideStart(rec, rows)
        BY <2>6 DEF Deciding, PollStart, GrantStart, LeaveStart, Entering
      <3>1. PICK s \in Session : rec.who = session[s]
        BY <3>0 DEF DecideStart
      <3>2. PICK o \in Tx : tx[o].status # "none" /\ tx[o].who.user = u /\ s \in tx[o].sessions
        BY <2>1, <2>6, <3>1 DEF IInv, RevokeInv
      <3>3. tx[o].who.origin < epoch[u]
        BY <3>2 DEF IInv, EpochInv
      <3> QED
        BY <2>3, <2>4, <2>5, <2>6, <3>0, <3>2, <3>3 DEF Revoking, DecideStart
    <2>7. ASSUME w = u, rec.who.origin # epoch[u], rec.pc \in Polling, rec.decision # "rejected"
          PROVE  FALSE
      <3>0. PollStart(rec, rows)
        BY <2>7 DEF Polling, DecideStart, GrantStart, LeaveStart, Entering
      <3>1. rec.doc \in Request /\ request[rec.doc] = "accepted" /\ rec.who = decider[rec.doc]
        BY <2>7, <3>0 DEF PollStart, Decision
      <3>2. PICK o \in Tx : /\ tx[o].status # "none" /\ tx[o].who.user = u
                            /\ tx[o].pc = "dep_requests" \/ rec.doc \in tx[o].docs
        BY <2>1, <2>7, <3>1 DEF IInv, RevokeInv
      <3>3. tx[o].who.origin < epoch[u]
        BY <3>1, <3>2 DEF IInv, EpochInv
      <3> QED
        BY <2>3, <2>4, <2>5, <2>7, <3>0, <3>2, <3>3 DEF Revoking, PollStart
    <2>8. \A o \in Tx : tx'[o].who.user = u /\ tx'[o].who.origin # epoch[u] =>
             tx'[o].pc \notin Deciding /\ (tx'[o].pc \in Polling => tx'[o].decision = "rejected")
      BY <1>0, <2>1, <2>6, <2>7 DEF IInv, RevokeInv
    <2> QED
      BY <1>0, <2>1, <2>2, <2>8 DEF IInv, RevokeInv
  <1> QED
    BY <1>2, <1>3, <1>4, <1>5, <1>6, <1>8, <1>9, <1>10, <1>11 DEF IInv

\* A request that ends takes nothing with it but its list of revocations: the
\* invariant holds afterwards if it would without the request.
LEMMA FinishFacts ==
  ASSUME IInv, NEW t \in Tx, Finish(t)
  PROVE  /\ tx' \in [Tx -> TxType] /\ tx'[t] = Idle /\ \A o \in Tx \ {t} : tx'[o] = tx[o]
         /\ lock' \in [Row -> Tx \cup {None}]
         /\ \A x \in Row : lock'[x] = IF lock[x] = t THEN None ELSE lock[x]
         /\ raced' = raced /\ ops' = ops
         /\ ShapeInv' /\ LockInv' /\ GateInv'
  <1>1. /\ tx' \in [Tx -> TxType] /\ tx'[t] = Idle /\ \A o \in Tx \ {t} : tx'[o] = tx[o]
        /\ lock' \in [Row -> Tx \cup {None}]
        /\ \A x \in Row : lock'[x] = IF lock[x] = t THEN None ELSE lock[x]
        /\ raced' = raced /\ ops' = ops
    BY IdleType DEF Finish, IInv, Types, TypeOK
  <1>2. ShapeInv'
    BY <1>1, IdleType DEF IInv, ShapeInv, Deciding, Polling, Redeeming, Leaving
  <1>3. LockInv'
    <2>1. \A o \in Tx : tx[o].docs \subseteq Doc
      BY DEF IInv, Types, TxType
    <2>2. \A o \in Tx : tx[o].pc \in {"decide_commit", "poll_commit", "redeem_commit"} => tx[o].doc \in Doc
      BY DEF IInv, ShapeInv, Doc, Deciding, Polling, Redeeming
    <2> QED
      BY <1>1, <2>1, <2>2, IdleType DEF IInv, LockInv, Row
  <1>4. GateInv'
    <2>1. \A o \in Tx : tx[o].status # "none" \/ tx[o].gate # "none" => tx[o].who.user \in Row
      BY DEF IInv, ShapeInv, GateInv, Credential, Leaving, Granting, Row
    <2>3. \A o \in Tx \ {t} : tx[o].status # "none" \/ tx[o].gate # "none" => lock'[tx[o].who.user] = o
      BY <1>1, <2>1 DEF IInv, GateInv
    <2> QED
      BY <1>1, <2>3, IdleType DEF IInv, GateInv, Granting
  <1> QED
    BY <1>1, <1>2, <1>3, <1>4

\* A request that fails preserves the invariant, unless it is a deprovisioning
\* (which does not fail in the model).
LEMMA RollbackIInv ==
  ASSUME IInv, NEW t \in Tx, tx[t].status = "none", Rollback(t)
  PROVE  IInv'
  <1>1. Finish(t) /\ UNCHANGED tables
    BY DEF Rollback
  <1>2. /\ tx'[t] = Idle /\ \A o \in Tx \ {t} : tx'[o] = tx[o]
        /\ tx' \in [Tx -> TxType] /\ lock' \in [Row -> Tx \cup {None}]
        /\ raced' = raced /\ ops' = ops
        /\ ShapeInv' /\ LockInv' /\ GateInv'
    BY <1>1, FinishFacts
  <1>3. Types'
    BY <1>1, <1>2 DEF IInv, Types, TypeOK, tables
  <1>4. DocInv' /\ CountInv'
    BY <1>1, <1>2, IdleType DEF IInv, DocInv, CountInv, tables
  <1>5. RoleInv'
    BY <1>1, <1>2, IdleType DEF IInv, RoleInv, DeprovisionedStaysOut, tables, Granting
  <1>7. EpochInv'
    BY <1>1, <1>2, IdleType DEF IInv, EpochInv, tables
  <1>6. RevokeInv'
    BY <1>1, <1>2, IdleType DEF IInv, RevokeInv, tables, Deciding, Polling
  <1> QED
    BY <1>2, <1>3, <1>4, <1>5, <1>6, <1>7 DEF IInv

\* A request that goes on to its next statement, and may lock the row it uses.
LEMMA StepFacts ==
  ASSUME IInv, NEW t \in Tx, NEW pc, Step(t, pc),
         \/ tx[t].pc = "decide_write" /\ pc = "decide_commit"
         \/ tx[t].pc = "poll_delete" /\ pc = "poll_commit"
         \/ tx[t].pc = "redeem_insert" /\ pc = "redeem_delete"
         \/ tx[t].pc = "redeem_delete" /\ pc = "redeem_commit"
         \/ tx[t].pc = "sso_insert" /\ pc = "sso_commit"
  PROVE  /\ tx' \in [Tx -> TxType] /\ \A o \in Tx \ {t} : tx'[o] = tx[o]
         /\ tx'[t].pc = pc /\ tx'[t].who = tx[t].who /\ tx'[t].doc = tx[t].doc
         /\ tx'[t].decision = tx[t].decision /\ tx'[t].status = tx[t].status /\ tx'[t].roles = tx[t].roles
         /\ tx'[t].gate = tx[t].gate
         /\ tx'[t].sessions = tx[t].sessions /\ tx'[t].docs = tx[t].docs
  BY DEF IInv, Types, TxType, Step

\* Such a step preserves the invariant, if the row is there when it is locked.
LEMMA StepIInv ==
  ASSUME IInv, NEW t \in Tx, NEW pc, Step(t, pc), UNCHANGED <<tables, raced, ops>>,
         \/ /\ tx[t].pc = "decide_write" /\ pc = "decide_commit" /\ request[tx[t].doc] # "gone"
         \/ /\ tx[t].pc = "poll_delete" /\ pc = "poll_commit" /\ request[tx[t].doc] # "gone"
         \/ /\ tx[t].pc = "redeem_insert" /\ pc = "redeem_delete"
         \/ /\ tx[t].pc = "redeem_delete" /\ pc = "redeem_commit" /\ invitation[tx[t].doc] # "gone"
         \/ /\ tx[t].pc = "sso_insert" /\ pc = "sso_commit",
         \/ /\ pc \in {"decide_commit", "poll_commit", "redeem_commit"}
            /\ lock[tx[t].doc] = None /\ lock' = [lock EXCEPT ![tx[t].doc] = t]
         \/ /\ pc \notin {"decide_commit", "poll_commit", "redeem_commit"}
            /\ lock' = lock
  PROVE  IInv'
  <1>1. /\ tx' \in [Tx -> TxType] /\ \A o \in Tx \ {t} : tx'[o] = tx[o]
        /\ tx'[t].pc = pc /\ tx'[t].who = tx[t].who /\ tx'[t].doc = tx[t].doc
        /\ tx'[t].decision = tx[t].decision /\ tx'[t].status = tx[t].status /\ tx'[t].roles = tx[t].roles
        /\ tx'[t].gate = tx[t].gate
        /\ tx'[t].sessions = tx[t].sessions /\ tx'[t].docs = tx[t].docs
    BY StepFacts
  <1>2. /\ pc \in {"decide_commit", "poll_commit", "redeem_commit"} => tx[t].doc \in Doc
        /\ \A o \in Tx : tx[o].docs \subseteq Doc
        /\ \A o \in Tx : tx[o].pc \in {"decide_commit", "poll_commit", "redeem_commit"} => tx[o].doc \in Doc
    BY DEF IInv, Types, TxType, ShapeInv, Doc, Deciding, Polling, Redeeming
  <1>3. Types'
    BY <1>1, <1>2 DEF IInv, Types, TypeOK, tables, Row
  <1>4. ShapeInv'
    BY <1>1 DEF IInv, ShapeInv, Deciding, Polling, Redeeming, Leaving, Idle
  <1>5. LockInv'
    <2>1. \A x \in Doc : lock[x] # None => lock'[x] = lock[x]
      BY DEF IInv, Types, TypeOK, Row
    <2>2. pc \in {"decide_commit", "poll_commit", "redeem_commit"} => lock'[tx[t].doc] = t
      BY <1>2, None \notin Tx DEF IInv, Types, TypeOK, Row
    <2>3. \A o \in Tx : o # None
      OBVIOUS
    <2> QED
      BY <1>1, <1>2, <2>1, <2>2, <2>3 DEF IInv, LockInv
  <1>6. DocInv'
    BY <1>1 DEF IInv, DocInv, ShapeInv, Types, TypeOK, tables, Deciding, Polling, Redeeming
  <1>7. CountInv'
    BY <1>1 DEF IInv, CountInv, tables
  <1>8. GateInv'
    <2>1. \A u \in User : lock'[u] = lock[u]
      BY <1>2 DEF IInv, Types, TypeOK, Row, Doc
    <2>2. \A o \in Tx : /\ tx[o].pc \in Granting => tx[o].who.user \in User
                        /\ tx[o].status # "none" => tx[o].who.user \in User
                        /\ tx[o].gate # "none" => tx[o].who.user \in User
      BY DEF IInv, ShapeInv, GateInv, Credential, Leaving, Granting
    <2>3. \A o \in Tx : /\ tx'[o].who = tx[o].who /\ tx'[o].status = tx[o].status /\ tx'[o].gate = tx[o].gate
                        /\ tx'[o].pc \in Granting <=> tx[o].pc \in Granting
      BY <1>1 DEF Granting
    <2> QED
      BY <2>1, <2>2, <2>3 DEF IInv, GateInv
  <1>11. EpochInv'
    BY <1>1 DEF IInv, EpochInv, ShapeInv, Leaving, tables
  <1>9. RoleInv'
    BY <1>1 DEF IInv, RoleInv, DeprovisionedStaysOut, tables, Granting
  <1>10. RevokeInv'
    BY <1>1 DEF IInv, RevokeInv, tables, Deciding, Polling
  <1> QED
    BY <1>3, <1>4, <1>5, <1>6, <1>7, <1>8, <1>9, <1>10, <1>11 DEF IInv

\* AcceptDeviceLoginRequest and RejectDeviceLoginRequest commit.
LEMMA DecideCommitIInv ==
  ASSUME IInv, NEW t \in Tx, DecideCommit(t)
  PROVE  IInv'
  <1> DEFINE d == tx[t].doc
  <1>1. /\ tx[t].pc = "decide_commit" /\ Finish(t)
        /\ request' = [request EXCEPT ![d] = tx[t].decision]
        /\ decider' = [decider EXCEPT ![d] = tx[t].who]
        /\ UNCHANGED <<scim, roles, session, invitation, expired, epoch, used>>
    BY DEF DecideCommit
  <1>2. /\ tx'[t] = Idle /\ \A o \in Tx \ {t} : tx'[o] = tx[o]
        /\ tx' \in [Tx -> TxType] /\ lock' \in [Row -> Tx \cup {None}]
        /\ raced' = raced /\ ops' = ops
        /\ ShapeInv' /\ LockInv' /\ GateInv'
    BY <1>1, FinishFacts
  <1>3. /\ d \in Request /\ d \in Doc /\ lock[d] = t /\ tx[t].who \in Credential
        /\ tx[t].decision \in Decision /\ tx[t].status = "none" /\ request[d] # "gone"
    BY <1>1 DEF IInv, Types, TxType, ShapeInv, LockInv, DocInv, Deciding, Leaving, Doc
  <1>4. /\ request'[d] = tx[t].decision /\ \A q \in Request \ {d} : request'[q] = request[q]
        /\ decider'[d] = tx[t].who /\ \A q \in Request \ {d} : decider'[q] = decider[q]
    BY <1>1, <1>3 DEF IInv, Types, TypeOK
  <1>5. Types'
    BY <1>1, <1>2, <1>3 DEF IInv, Types, TypeOK
  <1>6. DocInv'
    <2>1. \A o \in Tx \ {t} : tx[o].pc \in {"decide_commit", "poll_commit"} => tx[o].doc # d
      BY <1>3 DEF IInv, LockInv
    <2>2. \A o \in Tx : tx[o].pc \in Deciding \cup Polling => tx[o].doc \in Request
      BY DEF IInv, ShapeInv
    <2> QED
      BY <1>1, <1>2, <1>3, <1>4, <2>1, <2>2, IdleType DEF IInv, DocInv, Decision, Deciding, Polling
  <1>7. CountInv'
    BY <1>1, <1>2, IdleType DEF IInv, CountInv
  <1>8. RoleInv'
    BY <1>1, <1>2, IdleType DEF IInv, RoleInv, DeprovisionedStaysOut, Granting
  <1>9. RevokeInv'
    <2>1. tx[t].who.user \notin raced.credential => tx[t].who.origin = epoch[tx[t].who.user]
      BY <1>1, <1>3 DEF IInv, RevokeInv, Deciding, Credential
    <2> QED
      BY <1>1, <1>2, <1>3, <1>4, <2>1, IdleType DEF IInv, RevokeInv, Deciding, Polling
  <1>10. EpochInv'
    BY <1>1, <1>2, IdleType DEF IInv, EpochInv
  <1> QED
    BY <1>2, <1>5, <1>6, <1>7, <1>8, <1>9, <1>10 DEF IInv

\* PollDeviceLoginRequest commits.
LEMMA PollCommitIInv ==
  ASSUME IInv, NEW t \in Tx, PollCommit(t)
  PROVE  IInv'
  <1> DEFINE d == tx[t].doc
  <1>1. /\ tx[t].pc = "poll_commit" /\ Finish(t)
        /\ request' = [request EXCEPT ![d] = "gone"]
        /\ \/ tx[t].decision # "accepted" /\ UNCHANGED <<session, used>>
           \/ /\ tx[t].decision = "accepted"
              /\ \E s \in Session : Unused(s) /\ session' = [session EXCEPT ![s] = tx[t].who]
              /\ used' = [used EXCEPT ![d] = @ + 1]
        /\ UNCHANGED <<scim, roles, decider, invitation, expired, epoch>>
    BY DEF PollCommit
  <1>2. /\ tx'[t] = Idle /\ \A o \in Tx \ {t} : tx'[o] = tx[o]
        /\ tx' \in [Tx -> TxType] /\ lock' \in [Row -> Tx \cup {None}]
        /\ raced' = raced /\ ops' = ops
        /\ ShapeInv' /\ LockInv' /\ GateInv'
    BY <1>1, FinishFacts
  <1>3. /\ d \in Request /\ d \in Doc /\ d \notin Invitation /\ lock[d] = t /\ tx[t].who \in Credential
        /\ tx[t].status = "none" /\ request[d] \in Decision
    BY <1>1 DEF IInv, Types, TxType, ShapeInv, LockInv, DocInv, Polling, Leaving, Doc
  <1>4. /\ request'[d] = "gone" /\ \A q \in Request \ {d} : request'[q] = request[q]
        /\ used'[d] \in {used[d], used[d] + 1} /\ \A x \in Doc \ {d} : used'[x] = used[x]
    BY <1>1, <1>3 DEF IInv, Types, TypeOK
  <1>5. used[d] = 0 /\ 1 <= ops /\ ops \in 0..MaxOps
    BY <1>1, <1>3 DEF IInv, DocInv, CountInv, Types, TypeOK, Decision
  <1>6. Types'
    <2>1. session' \in [Session -> Credential \cup {Nobody}]
      BY <1>1, <1>3 DEF IInv, Types, TypeOK
    <2>2. used' \in [Doc -> 0..MaxOps]
      BY <1>1, <1>3, <1>5 DEF IInv, Types, TypeOK
    <2> QED
      BY <1>1, <1>2, <2>1, <2>2 DEF IInv, Types, TypeOK
  <1>7. DocInv'
    <2>1. \A o \in Tx \ {t} : tx[o].pc \in {"decide_commit", "poll_commit"} => tx[o].doc # d
      BY <1>3 DEF IInv, LockInv
    <2>2. \A o \in Tx : tx[o].pc \in Deciding \cup Polling => tx[o].doc \in Request
      BY DEF IInv, ShapeInv
    <2>3. \A v \in Invitation : used'[v] = used[v]
      BY <1>3, <1>4 DEF Doc
    <2>4. \A q \in Request : q # d => used'[q] = used[q]
      BY <1>4 DEF Doc
    <2> QED
      BY <1>1, <1>2, <1>3, <1>4, <2>1, <2>2, <2>3, <2>4, IdleType DEF IInv, DocInv, Decision, Deciding, Polling
  <1>8. CountInv'
    BY <1>1, <1>2, <1>4, <1>5, IdleType DEF IInv, CountInv
  <1>9. RoleInv'
    BY <1>1, <1>2, IdleType DEF IInv, RoleInv, DeprovisionedStaysOut, Granting
  <1>10. RevokeInv'
    <2>1. tx[t].decision = "accepted" /\ tx[t].who.user \notin raced.credential => tx[t].who.origin = epoch[tx[t].who.user]
      BY <1>1, <1>3 DEF IInv, RevokeInv, Polling, Credential
    <2>2. \A s \in Session : session'[s] = session[s] \/ (tx[t].decision = "accepted" /\ session'[s] = tx[t].who)
      BY <1>1 DEF IInv, Types, TypeOK
    <2>3. \A o \in Tx : tx[o].status # "none" => tx'[o] = tx[o]
      BY <1>2, <1>3
    <2> QED
      BY <1>1, <1>2, <1>3, <1>4, <2>1, <2>2, <2>3, IdleType DEF IInv, RevokeInv, Deciding, Polling
  <1>11. EpochInv'
    BY <1>1, <1>2, IdleType DEF IInv, EpochInv
  <1> QED
    BY <1>2, <1>6, <1>7, <1>8, <1>9, <1>10, <1>11 DEF IInv

\* RedeemInvitation commits.
LEMMA RedeemCommitIInv ==
  ASSUME IInv, NEW t \in Tx, RedeemCommit(t)
  PROVE  IInv'
  <1> DEFINE d == tx[t].doc
  <1>1. /\ tx[t].pc = "redeem_commit" /\ Finish(t)
        /\ invitation' = [invitation EXCEPT ![d] = "gone"]
        /\ used' = [used EXCEPT ![d] = @ + 1]
        /\ roles' = AddRole(tx[t].who.user, tx[t].role)
        /\ UNCHANGED <<scim, session, request, decider, expired, epoch>>
    BY DEF RedeemCommit
  <1>2. /\ tx'[t] = Idle /\ \A o \in Tx \ {t} : tx'[o] = tx[o]
        /\ tx' \in [Tx -> TxType] /\ lock' \in [Row -> Tx \cup {None}]
        /\ raced' = raced /\ ops' = ops
        /\ ShapeInv' /\ LockInv' /\ GateInv'
    BY <1>1, FinishFacts
  <1>3. /\ d \in Invitation /\ d \in Doc /\ d \notin Request /\ lock[d] = t /\ tx[t].who.user \in User
        /\ tx[t].status = "none" /\ invitation[d] = "open" /\ tx[t].role \in Role \cup {None}
    BY <1>1 DEF IInv, Types, TxType, ShapeInv, LockInv, DocInv, Redeeming, Leaving, Doc, Credential
  <1>4. /\ invitation'[d] = "gone" /\ \A v \in Invitation \ {d} : invitation'[v] = invitation[v]
        /\ used'[d] = used[d] + 1 /\ \A x \in Doc \ {d} : used'[x] = used[x]
        /\ \A u \in User : u # tx[t].who.user => roles'[u] = roles[u]
    BY <1>1, <1>3 DEF IInv, Types, TypeOK, AddRole
  <1>5. used[d] = 0 /\ 1 <= ops /\ ops \in 0..MaxOps
    BY <1>1, <1>3 DEF IInv, DocInv, CountInv, Types, TypeOK
  <1>6. Types'
    <2>1. roles' \in [User -> SUBSET Role]
      BY <1>1, <1>3 DEF IInv, Types, TypeOK, AddRole
    <2>2. used' \in [Doc -> 0..MaxOps]
      BY <1>1, <1>3, <1>5 DEF IInv, Types, TypeOK
    <2> QED
      BY <1>1, <1>2, <2>1, <2>2 DEF IInv, Types, TypeOK
  <1>7. DocInv'
    <2>1. \A o \in Tx \ {t} : tx[o].pc = "redeem_commit" => tx[o].doc # d
      BY <1>3 DEF IInv, LockInv
    <2>2. \A o \in Tx : tx[o].pc \in Redeeming => tx[o].doc \in Invitation
      BY DEF IInv, ShapeInv
    <2>3. \A q \in Request : used'[q] = used[q]
      BY <1>3, <1>4 DEF Doc
    <2>4. \A v \in Invitation : v # d => used'[v] = used[v]
      BY <1>4 DEF Doc
    <2> QED
      BY <1>1, <1>2, <1>3, <1>4, <2>1, <2>2, <2>3, <2>4, IdleType DEF IInv, DocInv, Redeeming
  <1>8. CountInv'
    BY <1>1, <1>2, <1>4, <1>5, IdleType DEF IInv, CountInv
  <1>9. RoleInv'
    <2>1. tx[t].who.user \notin raced.role => scim[tx[t].who.user] \notin Deprovisioned
      BY <1>1, <1>3 DEF IInv, RoleInv, Granting
    <2>2. \A o \in Tx : tx[o].status # "none" /\ tx[o].who.user \notin raced.role =>
             tx[o].who.user # tx[t].who.user /\ tx[o].who.user \in User
      BY <1>1, <1>3, Apart DEF IInv, ShapeInv, Leaving, Credential, Granting
    <2> QED
      BY <1>1, <1>2, <1>4, <2>1, <2>2, IdleType DEF IInv, RoleInv, DeprovisionedStaysOut, Granting
  <1>10. RevokeInv'
    <2>1. \A o \in Tx : tx[o].status # "none" => tx'[o] = tx[o]
      BY <1>2, <1>3
    <2> QED
      BY <1>1, <1>2, <2>1, IdleType DEF IInv, RevokeInv, Deciding, Polling
  <1>11. EpochInv'
    BY <1>1, <1>2, IdleType DEF IInv, EpochInv
  <1> QED
    BY <1>2, <1>6, <1>7, <1>8, <1>9, <1>10, <1>11 DEF IInv

\* GetSsoCallback commits.
LEMMA SsoCommitIInv ==
  ASSUME IInv, NEW t \in Tx, SsoCommit(t)
  PROVE  IInv'
  <1> DEFINE w == tx[t].who.user
  <1>1. /\ tx[t].pc = "sso_commit" /\ Finish(t)
        /\ roles' = AddRole(w, tx[t].role)
        /\ \E s \in Session : Unused(s) /\ session' = [session EXCEPT ![s] = Holder(w)]
        /\ UNCHANGED <<scim, request, decider, invitation, expired, epoch, used>>
    BY DEF SsoCommit
  <1>2. /\ tx'[t] = Idle /\ \A o \in Tx \ {t} : tx'[o] = tx[o]
        /\ tx' \in [Tx -> TxType] /\ lock' \in [Row -> Tx \cup {None}]
        /\ raced' = raced /\ ops' = ops
        /\ ShapeInv' /\ LockInv' /\ GateInv'
    BY <1>1, FinishFacts
  <1>3. w \in User /\ tx[t].status = "none" /\ tx[t].role \in Role \cup {None}
    BY <1>1 DEF IInv, Types, TxType, ShapeInv, Leaving, Credential
  <1>4. /\ \A u \in User : u # w => roles'[u] = roles[u]
        /\ roles' \in [User -> SUBSET Role]
    BY <1>1, <1>3 DEF IInv, Types, TypeOK, AddRole
  <1>5. Holder(w) \in Credential /\ Holder(w).user = w /\ Holder(w).origin = epoch[w]
    BY <1>3 DEF Holder, Credential, IInv, Types, TypeOK
  <1>6. /\ session' \in [Session -> Credential \cup {Nobody}]
        /\ \A s \in Session : session'[s] \in {session[s], Holder(w)}
    BY <1>1, <1>5 DEF IInv, Types, TypeOK
  <1>7. Types'
    BY <1>1, <1>2, <1>4, <1>6 DEF IInv, Types, TypeOK
  <1>8. DocInv' /\ CountInv'
    BY <1>1, <1>2, IdleType DEF IInv, DocInv, CountInv
  <1>9. RoleInv'
    <2>1. w \notin raced.role => scim[w] \notin Deprovisioned
      BY <1>1, <1>3 DEF IInv, RoleInv, Granting
    <2>2. \A o \in Tx : tx[o].status # "none" /\ tx[o].who.user \notin raced.role =>
             tx[o].who.user # w /\ tx[o].who.user \in User
      BY <1>1, <1>3, Apart DEF IInv, ShapeInv, Leaving, Credential, Granting
    <2> QED
      BY <1>1, <1>2, <1>4, <2>1, <2>2, IdleType DEF IInv, RoleInv, DeprovisionedStaysOut, Granting
  <1>10. RevokeInv'
    <2>1. \A o \in Tx : tx[o].status # "none" => tx'[o] = tx[o]
      BY <1>2, <1>3
    <2> QED
      BY <1>1, <1>2, <1>5, <1>6, <2>1, IdleType DEF IInv, RevokeInv, Deciding, Polling
  <1>11. EpochInv'
    BY <1>1, <1>2, IdleType DEF IInv, EpochInv
  <1> QED
    BY <1>2, <1>7, <1>8, <1>9, <1>10, <1>11 DEF IInv

\* DeleteInvitationsByEmail and DeleteDeviceLoginRequestsDecidedBy: the rows are
\* locked and put on the list.
LEMMA DeprovisionDocsIInv ==
  ASSUME IInv, NEW t \in Tx, NEW own \in SUBSET Doc, NEW pc,
         \/ /\ tx[t].pc = "dep_invitations" /\ pc = "dep_sessions" /\ own \cap Request = {}
         \/ /\ tx[t].pc = "dep_requests" /\ pc = "dep_commit"
            /\ \A q \in Request : request[q] \in Decision /\ decider[q].user = tx[t].who.user => q \in own,
         \A x \in own : lock[x] = None,
         lock' \in [Row -> Tx \cup {None}], \A x \in Row : lock'[x] = IF x \in own THEN t ELSE lock[x],
         tx' \in [Tx -> TxType], \A o \in Tx \ {t} : tx'[o] = tx[o],
         tx'[t].pc = pc, tx'[t].docs = tx[t].docs \cup own, tx'[t].who = tx[t].who, tx'[t].status = tx[t].status, tx'[t].gate = tx[t].gate,
         tx'[t].decision = tx[t].decision, tx'[t].roles = tx[t].roles, tx'[t].sessions = tx[t].sessions,
         UNCHANGED <<tables, raced, ops>>
  PROVE  IInv'
  <1>1. tx[t] \in TxType /\ tx[t].docs \subseteq Doc /\ tx[t].status # "none" /\ tx[t].pc \in Leaving
    BY DEF IInv, Types, TxType, ShapeInv, Leaving
  <1>2. /\ tx'[t].pc = pc /\ tx'[t].docs = tx[t].docs \cup own
        /\ tx'[t].who = tx[t].who /\ tx'[t].status = tx[t].status /\ tx'[t].gate = tx[t].gate
        /\ tx'[t].decision = tx[t].decision /\ tx'[t].roles = tx[t].roles /\ tx'[t].sessions = tx[t].sessions
    OBVIOUS
  <1>3. tx' \in [Tx -> TxType] /\ \A o \in Tx \ {t} : tx'[o] = tx[o]
    OBVIOUS
  <1>4. Types'
    BY <1>3 DEF IInv, Types, TypeOK, tables
  <1>5. ShapeInv'
    BY <1>1, <1>2, <1>3 DEF IInv, ShapeInv, Deciding, Polling, Redeeming, Leaving
  <1>6. LockInv'
    <2>1. \A o \in Tx : tx[o].docs \subseteq Doc
      BY DEF IInv, Types, TxType
    <2>2. \A o \in Tx : tx[o].pc \in {"decide_commit", "poll_commit", "redeem_commit"} => tx[o].doc \in Doc
      BY DEF IInv, ShapeInv, Doc, Deciding, Polling, Redeeming
    <2>3. \A x \in Doc : lock[x] # None => lock'[x] = lock[x]
      BY DEF Row
    <2>4. \A x \in own : lock'[x] = t
      BY DEF Row
    <2>5. None \notin Tx
      OBVIOUS
    <2> QED
      BY <1>1, <1>2, <1>3, <2>1, <2>2, <2>3, <2>4, <2>5 DEF IInv, LockInv, Leaving
  <1>7. DocInv' /\ CountInv'
    BY <1>1, <1>2, <1>3 DEF IInv, DocInv, CountInv, tables, Leaving
  <1>8. GateInv'
    <2>1. \A u \in User : lock'[u] = lock[u]
      BY DEF Row, Doc
    <2>2. \A o \in Tx : /\ tx[o].pc \in Granting => tx[o].who.user \in User
                        /\ tx[o].status # "none" => tx[o].who.user \in User
                        /\ tx[o].gate # "none" => tx[o].who.user \in User
      BY DEF IInv, ShapeInv, GateInv, Credential, Leaving, Granting
    <2>3. \A o \in Tx : /\ tx'[o].who = tx[o].who /\ tx'[o].status = tx[o].status /\ tx'[o].gate = tx[o].gate
                        /\ tx'[o].pc \in Granting <=> tx[o].pc \in Granting
      BY <1>2, <1>3 DEF Granting
    <2> QED
      BY <2>1, <2>2, <2>3 DEF IInv, GateInv
  <1>11. EpochInv'
    BY <1>1, <1>2, <1>3 DEF IInv, EpochInv, tables
  <1>9. RoleInv'
    BY <1>1, <1>2, <1>3 DEF IInv, RoleInv, DeprovisionedStaysOut, tables, Granting, Leaving
  <1>10. RevokeInv'
    <2> SUFFICES ASSUME NEW u \in User, u \notin raced.credential
                 PROVE  /\ \A s \in Session : session[s].user = u /\ session[s].origin # epoch[u] =>
                             \E o \in Tx : tx'[o].status # "none" /\ tx'[o].who.user = u /\ s \in tx'[o].sessions
                        /\ \A q \in Request : request[q] = "accepted" /\ decider[q].user = u /\ decider[q].origin # epoch[u] =>
                             \E o \in Tx : /\ tx'[o].status # "none" /\ tx'[o].who.user = u
                                           /\ tx'[o].pc = "dep_requests" \/ q \in tx'[o].docs
                        /\ \A o \in Tx : tx'[o].who.user = u /\ tx'[o].who.origin # epoch[u] =>
                             tx'[o].pc \notin Deciding /\ (tx'[o].pc \in Polling => tx'[o].decision = "rejected")
      BY DEF RevokeInv, tables
    <2>1. \A o \in Tx : tx'[o].who.user = u /\ tx'[o].who.origin # epoch[u] =>
             tx'[o].pc \notin Deciding /\ (tx'[o].pc \in Polling => tx'[o].decision = "rejected")
      BY <1>2, <1>3 DEF IInv, RevokeInv, Deciding, Polling
    <2>2. ASSUME NEW s \in Session, session[s].user = u, session[s].origin # epoch[u]
          PROVE  \E o \in Tx : tx'[o].status # "none" /\ tx'[o].who.user = u /\ s \in tx'[o].sessions
      <3>1. PICK o \in Tx : tx[o].status # "none" /\ tx[o].who.user = u /\ s \in tx[o].sessions
        BY <2>2 DEF IInv, RevokeInv
      <3> QED
        BY <1>2, <1>3, <3>1
    <2>3. ASSUME NEW q \in Request, request[q] = "accepted", decider[q].user = u, decider[q].origin # epoch[u]
          PROVE  \E o \in Tx : /\ tx'[o].status # "none" /\ tx'[o].who.user = u
                               /\ tx'[o].pc = "dep_requests" \/ q \in tx'[o].docs
      <3>1. PICK o \in Tx : /\ tx[o].status # "none" /\ tx[o].who.user = u
                            /\ tx[o].pc = "dep_requests" \/ q \in tx[o].docs
        BY <2>3 DEF IInv, RevokeInv
      <3> QED
        BY <1>2, <1>3, <2>3, <3>1 DEF Decision
    <2> QED
      BY <2>1, <2>2, <2>3
  <1> QED
    BY <1>4, <1>5, <1>6, <1>7, <1>8, <1>9, <1>10, <1>11 DEF IInv

\* DeleteSessionTokensByUserId, if the user has no membership left anywhere.
LEMMA DeprovisionSessionsIInv ==
  ASSUME IInv, NEW t \in Tx, DeprovisionSessions(t)
  PROVE  IInv'
  <1> DEFINE w     == tx[t].who.user
             strip == w \notin Elsewhere /\ roles[w] \subseteq tx[t].roles
             pc    == IF strip THEN "dep_requests" ELSE "dep_commit"
             out   == IF strip THEN {s \in Session : session[s].user = w} ELSE {}
             rec   == [tx[t] EXCEPT !.pc = pc, !.sessions = out]
  <1>1. /\ tx[t].pc = "dep_sessions" /\ tx' = [tx EXCEPT ![t] = rec]
        /\ epoch' = [epoch EXCEPT ![w] = IF strip THEN @ + 1 ELSE @]
        /\ raced' = IF strip /\ \E o \in Tx : tx[o].who.user = w /\ tx[o].pc \in Minting
                    THEN [raced EXCEPT !.credential = @ \cup {w}] ELSE raced
        /\ UNCHANGED <<scim, roles, session, request, decider, invitation, expired, lock, used, ops>>
    BY DEF DeprovisionSessions
  <1>2. /\ tx[t] \in TxType /\ w \in User /\ tx[t].status # "none"
        /\ epoch[w] \in Nat /\ epoch[w] < ops /\ ops \in 0..MaxOps
    BY <1>1 DEF IInv, Types, TypeOK, ShapeInv, CountInv, Leaving, Credential
  <1>3. /\ pc \in {"dep_requests", "dep_commit"} /\ out \subseteq Session
        /\ strip => pc = "dep_requests" /\ \A s \in Session : session[s].user = w => s \in out
    OBVIOUS
  <1>4. /\ \A u \in User \ {w} : epoch'[u] = epoch[u]
        /\ strip => epoch'[w] = epoch[w] + 1
        /\ ~strip => epoch'[w] = epoch[w]
    BY <1>1, <1>2 DEF IInv, Types, TypeOK
  <1>5. epoch' \in [User -> 0..MaxOps]
    BY <1>1, <1>2 DEF IInv, Types, TypeOK
  <1>16. /\ raced' \in [role : SUBSET User, credential : SUBSET User] /\ raced'.role = raced.role
         /\ raced.credential \subseteq raced'.credential
         /\ strip /\ w \notin raced'.credential => \A o \in Tx : tx[o].who.user = w => tx[o].pc \notin Minting
    BY <1>1, <1>2 DEF IInv, Types, TypeOK
  <1> HIDE DEF strip, pc, out
  <1>6. /\ rec \in TxType /\ rec.pc = pc /\ rec.sessions = out /\ rec.who = tx[t].who /\ rec.docs = tx[t].docs
        /\ rec.status = tx[t].status /\ rec.roles = tx[t].roles /\ rec.decision = tx[t].decision
        /\ rec.gate = tx[t].gate
    BY <1>2, <1>3 DEF TxType
  <1>7. tx' \in [Tx -> TxType] /\ tx'[t] = rec /\ \A o \in Tx \ {t} : tx'[o] = tx[o]
    BY <1>1, <1>6 DEF IInv, Types
  <1> HIDE DEF rec
  <1>8. Types'
    BY <1>1, <1>5, <1>7, <1>16 DEF IInv, Types, TypeOK
  <1>9. ShapeInv'
    BY <1>1, <1>2, <1>3, <1>6, <1>7 DEF IInv, ShapeInv, Deciding, Polling, Redeeming, Leaving
  <1>10. LockInv'
    BY <1>1, <1>3, <1>6, <1>7 DEF IInv, LockInv
  <1>11. DocInv'
    BY <1>1, <1>3, <1>6, <1>7 DEF IInv, DocInv
  <1>12. CountInv'
    <2>1. \A o \in Tx \ {t} : tx[o].pc \in Leaving => tx[o].who.user # w /\ tx[o].who.user \in User
      BY <1>2, Apart DEF IInv, ShapeInv, Credential, Leaving
    <2>2. \A u \in User : epoch'[u] <= ops
      BY <1>2, <1>4 DEF IInv, CountInv
    <2>3. \A o \in Tx : tx'[o].pc # "idle" => 1 <= ops
      BY <1>1, <1>6, <1>7 DEF IInv, CountInv
    <2>4. \A o \in Tx : tx'[o].pc \in {"dep_invitations", "dep_sessions"} => epoch'[tx'[o].who.user] < ops
      BY <1>3, <1>4, <1>6, <1>7, <2>1 DEF IInv, CountInv, Leaving
    <2> QED
      BY <1>1, <2>2, <2>3, <2>4 DEF IInv, CountInv
  <1>13. GateInv'
    <2>1. \A o \in Tx : /\ tx'[o].who = tx[o].who /\ tx'[o].status = tx[o].status /\ tx'[o].gate = tx[o].gate
                        /\ tx'[o].pc \in Granting <=> tx[o].pc \in Granting
      BY <1>1, <1>3, <1>6, <1>7 DEF Granting
    <2> QED
      BY <1>1, <1>16, <2>1 DEF IInv, GateInv
  <1>17. EpochInv'
    <2>1. \A o \in Tx : tx[o].status # "none" => tx[o].who.user \in User /\ tx[o].who.origin \in Nat
      BY DEF IInv, ShapeInv, Leaving, Credential
    <2>2. \A u \in User : epoch[u] \in Nat /\ epoch'[u] \in Nat /\ epoch[u] <= epoch'[u]
      BY <1>2, <1>4, <1>5 DEF IInv, Types, TypeOK
    <2>3. ASSUME NEW o \in Tx, o # t, tx[o].status # "none"
          PROVE  /\ tx[o].who.origin <= epoch'[tx[o].who.user]
                 /\ tx[o].sessions # {} \/ tx[o].pc = "dep_requests" \/ tx[o].docs \cap Request # {} =>
                        tx[o].who.origin < epoch'[tx[o].who.user]
      BY <2>1, <2>2, <2>3 DEF IInv, EpochInv
    <2>4. tx[t].who.origin <= epoch[w] /\ (tx[t].docs \cap Request # {} => tx[t].who.origin < epoch[w])
      BY <1>2 DEF IInv, EpochInv
    <2>5. ~strip => out = {} /\ pc # "dep_requests"
      BY DEF strip, out, pc
    <2>6. /\ rec.who.origin <= epoch'[w]
          /\ rec.sessions # {} \/ rec.pc = "dep_requests" \/ rec.docs \cap Request # {} => rec.who.origin < epoch'[w]
      BY <1>2, <1>4, <1>6, <2>1, <2>2, <2>4, <2>5
    <2> QED
      BY <1>6, <1>7, <2>3, <2>6 DEF EpochInv
  <1>14. RoleInv'
    BY <1>1, <1>2, <1>3, <1>6, <1>7, <1>16 DEF IInv, RoleInv, DeprovisionedStaysOut, Granting
  <1>15. RevokeInv'
    <2> SUFFICES ASSUME NEW u \in User, u \notin raced'.credential
                 PROVE  /\ \A s \in Session : session[s].user = u /\ session[s].origin # epoch'[u] =>
                             \E o \in Tx : tx'[o].status # "none" /\ tx'[o].who.user = u /\ s \in tx'[o].sessions
                        /\ \A q \in Request : request[q] = "accepted" /\ decider[q].user = u /\ decider[q].origin # epoch'[u] =>
                             \E o \in Tx : /\ tx'[o].status # "none" /\ tx'[o].who.user = u
                                           /\ tx'[o].pc = "dep_requests" \/ q \in tx'[o].docs
                        /\ \A o \in Tx : tx'[o].who.user = u /\ tx'[o].who.origin # epoch'[u] =>
                             tx'[o].pc \notin Deciding /\ (tx'[o].pc \in Polling => tx'[o].decision = "rejected")
      BY <1>1 DEF RevokeInv
    <2>1. CASE u = w /\ strip
      <3>1. \A o \in Tx \ {t} : tx[o].who.user = w => tx[o].pc \notin Minting
        BY <1>16, <2>1
      <3>2. tx'[t].pc = "dep_requests" /\ tx'[t].status # "none" /\ tx'[t].who.user = w
            /\ \A s \in Session : session[s].user = w => s \in tx'[t].sessions
        BY <1>2, <1>3, <1>6, <1>7, <2>1
      <3> QED
        BY <1>7, <2>1, <3>1, <3>2 DEF Deciding, Polling, Minting
    <2>2. CASE ~(u = w /\ strip)
      <3>1. epoch'[u] = epoch[u] /\ u \notin raced.credential
        BY <1>4, <1>16, <2>2
      <3>2. tx[t].sessions = {} /\ (tx'[t].docs = tx[t].docs) /\ tx[t].pc # "dep_requests"
        BY <1>1, <1>6, <1>7 DEF IInv, ShapeInv
      <3>3. ASSUME NEW s \in Session, session[s].user = u, session[s].origin # epoch'[u]
            PROVE  \E o \in Tx : tx'[o].status # "none" /\ tx'[o].who.user = u /\ s \in tx'[o].sessions
        <4>1. PICK o \in Tx : tx[o].status # "none" /\ tx[o].who.user = u /\ s \in tx[o].sessions
          BY <3>1, <3>3 DEF IInv, RevokeInv
        <4> QED
          BY <1>7, <3>2, <4>1
      <3>4. ASSUME NEW q \in Request, request[q] = "accepted", decider[q].user = u, decider[q].origin # epoch'[u]
            PROVE  \E o \in Tx : /\ tx'[o].status # "none" /\ tx'[o].who.user = u
                                 /\ tx'[o].pc = "dep_requests" \/ q \in tx'[o].docs
        <4>1. PICK o \in Tx : /\ tx[o].status # "none" /\ tx[o].who.user = u
                              /\ tx[o].pc = "dep_requests" \/ q \in tx[o].docs
          BY <3>1, <3>4 DEF IInv, RevokeInv
        <4> QED
          BY <1>2, <1>6, <1>7, <3>2, <4>1
      <3>5. \A o \in Tx : tx'[o].who.user = u /\ tx'[o].who.origin # epoch'[u] =>
               tx'[o].pc \notin Deciding /\ (tx'[o].pc \in Polling => tx'[o].decision = "rejected")
        BY <1>3, <1>6, <1>7, <3>1 DEF IInv, RevokeInv, Deciding, Polling
      <3> QED
        BY <3>3, <3>4, <3>5
    <2> QED
      BY <2>1, <2>2
  <1> QED
    BY <1>8, <1>9, <1>10, <1>11, <1>12, <1>13, <1>14, <1>15, <1>17 DEF IInv

\* The deprovisioning commits.
LEMMA DeprovisionCommitIInv ==
  ASSUME IInv, NEW t \in Tx, DeprovisionCommit(t)
  PROVE  IInv'
  <1> DEFINE w == tx[t].who.user
  <1>1. /\ tx[t].pc = "dep_commit" /\ Finish(t)
        /\ scim' = [scim EXCEPT ![w] = tx[t].status]
        /\ roles' = [roles EXCEPT ![w] = @ \ tx[t].roles]
        /\ session' = [s \in Session |-> IF s \in tx[t].sessions THEN Nobody ELSE session[s]]
        /\ request' = [q \in Request |-> IF q \in tx[t].docs THEN "gone" ELSE request[q]]
        /\ invitation' = [v \in Invitation |-> IF v \in tx[t].docs THEN "gone" ELSE invitation[v]]
        /\ UNCHANGED <<decider, expired, epoch, used>>
    BY DEF DeprovisionCommit
  <1>2. /\ tx'[t] = Idle /\ \A o \in Tx \ {t} : tx'[o] = tx[o]
        /\ tx' \in [Tx -> TxType] /\ lock' \in [Row -> Tx \cup {None}]
        /\ raced' = raced /\ ops' = ops
        /\ ShapeInv' /\ LockInv' /\ GateInv'
    BY <1>1, FinishFacts
  <1>3. w \in User /\ tx[t].status \in Deprovisioned /\ tx[t].status # "none"
    BY <1>1 DEF IInv, Types, TxType, ShapeInv, Leaving, Credential
  <1>4. /\ \A u \in User \ {w} : roles'[u] = roles[u] /\ scim'[u] = scim[u]
        /\ roles'[w] = roles[w] \ tx[t].roles /\ scim'[w] = tx[t].status
    BY <1>1, <1>3 DEF IInv, Types, TypeOK
  <1>5. Types'
    BY <1>1, <1>2, <1>3 DEF IInv, Types, TypeOK, ScimStatus
  <1>6. DocInv'
    <2>1. \A o \in Tx \ {t} : tx[o].pc \in {"decide_commit", "poll_commit", "redeem_commit"} => tx[o].doc \notin tx[t].docs
      BY DEF IInv, LockInv
    <2>2. \A o \in Tx : /\ tx[o].pc \in Deciding \cup Polling => tx[o].doc \in Request
                        /\ tx[o].pc \in Redeeming => tx[o].doc \in Invitation
      BY DEF IInv, ShapeInv
    <2>3. \A q \in Request : request'[q] \in {request[q], "gone"} /\ (q \notin tx[t].docs => request'[q] = request[q])
      BY <1>1
    <2>4. \A v \in Invitation : invitation'[v] \in {invitation[v], "gone"} /\ (v \notin tx[t].docs => invitation'[v] = invitation[v])
      BY <1>1
    <2>5. "gone" \notin Decision
      BY DEF Decision
    <2>6. \A o \in Tx : tx'[o] = tx[o] \/ tx'[o].pc = "idle"
      BY <1>2, IdleType
    <2>7. \A q \in Request : (request'[q] \in Decision => decider'[q] \in Credential) /\ (used'[q] # 0 => request'[q] = "gone")
      BY <1>1, <2>3, <2>5 DEF IInv, DocInv
    <2>8. \A v \in Invitation : used'[v] # 0 => invitation'[v] = "gone"
      BY <1>1, <2>4 DEF IInv, DocInv
    <2>9. ASSUME NEW o \in Tx, tx'[o].pc # "idle"
          PROVE  /\ tx'[o].pc = "decide_write" => request'[tx'[o].doc] # "none"
                 /\ tx'[o].pc = "decide_commit" => request'[tx'[o].doc] \notin {"none", "gone"}
                 /\ tx'[o].pc = "poll_delete" => request'[tx'[o].doc] \in Decision \cup {"gone"}
                 /\ tx'[o].pc = "poll_commit" => request'[tx'[o].doc] \in Decision
                 /\ tx'[o].pc \in {"redeem_insert", "redeem_delete"} => invitation'[tx'[o].doc] # "none"
                 /\ tx'[o].pc = "redeem_commit" => invitation'[tx'[o].doc] = "open"
      BY <1>2, <2>1, <2>2, <2>3, <2>4, <2>6, <2>9, IdleType DEF IInv, DocInv, Deciding, Polling, Redeeming
    <2> QED
      BY <2>7, <2>8, <2>9 DEF DocInv
  <1>7. CountInv'
    BY <1>1, <1>2, IdleType DEF IInv, CountInv
  <1>8. \A o \in Tx \ {t} : tx[o].who.user = w => /\ tx[o].pc \in Granting => w \in raced.role
                                                  /\ tx[o].status = "none"
    BY <1>3, Apart
  <1>11. EpochInv'
    BY <1>1, <1>2, IdleType DEF IInv, EpochInv
  <1>9. RoleInv'
    <2>1. w \notin raced.role => roles'[w] = {}
      BY <1>3, <1>4 DEF IInv, RoleInv
    <2>2. \A o \in Tx : tx[o].pc # "idle" => tx[o].who.user \in User
      BY DEF IInv, ShapeInv, Credential
    <2>3. \A o \in Tx : tx[o].status # "none" => tx[o].who.user \in User
      BY DEF IInv, ShapeInv, Credential, Leaving
    <2> QED
      BY <1>2, <1>4, <1>8, <2>1, <2>2, <2>3, IdleType DEF IInv, RoleInv, DeprovisionedStaysOut, Granting
  <1>10. RevokeInv'
    <2> SUFFICES ASSUME NEW u \in User, u \notin raced.credential
                 PROVE  /\ \A s \in Session : session'[s].user = u /\ session'[s].origin # epoch[u] =>
                             \E o \in Tx : tx'[o].status # "none" /\ tx'[o].who.user = u /\ s \in tx'[o].sessions
                        /\ \A q \in Request : request'[q] = "accepted" /\ decider[q].user = u /\ decider[q].origin # epoch[u] =>
                             \E o \in Tx : /\ tx'[o].status # "none" /\ tx'[o].who.user = u
                                           /\ tx'[o].pc = "dep_requests" \/ q \in tx'[o].docs
                        /\ \A o \in Tx : tx'[o].who.user = u /\ tx'[o].who.origin # epoch[u] =>
                             tx'[o].pc \notin Deciding /\ (tx'[o].pc \in Polling => tx'[o].decision = "rejected")
      BY <1>1, <1>2 DEF RevokeInv
    <2>1. ASSUME NEW s \in Session, session'[s].user = u, session'[s].origin # epoch[u]
          PROVE  \E o \in Tx : tx'[o].status # "none" /\ tx'[o].who.user = u /\ s \in tx'[o].sessions
      <3>1. s \notin tx[t].sessions /\ session'[s] = session[s]
        BY <1>1, <2>1, None \notin User DEF Nobody
      <3>2. PICK o \in Tx : tx[o].status # "none" /\ tx[o].who.user = u /\ s \in tx[o].sessions
        BY <2>1, <3>1 DEF IInv, RevokeInv
      <3> QED
        BY <1>2, <3>1, <3>2
    <2>2. ASSUME NEW q \in Request, request'[q] = "accepted", decider[q].user = u, decider[q].origin # epoch[u]
          PROVE  \E o \in Tx : /\ tx'[o].status # "none" /\ tx'[o].who.user = u
                               /\ tx'[o].pc = "dep_requests" \/ q \in tx'[o].docs
      <3>1. q \notin tx[t].docs /\ request'[q] = request[q]
        BY <1>1, <2>2
      <3>2. PICK o \in Tx : /\ tx[o].status # "none" /\ tx[o].who.user = u
                            /\ tx[o].pc = "dep_requests" \/ q \in tx[o].docs
        BY <2>2, <3>1 DEF IInv, RevokeInv
      <3> QED
        BY <1>1, <1>2, <3>1, <3>2
    <2>3. \A o \in Tx : tx'[o].who.user = u /\ tx'[o].who.origin # epoch[u] =>
             tx'[o].pc \notin Deciding /\ (tx'[o].pc \in Polling => tx'[o].decision = "rejected")
      BY <1>2, IdleType DEF IInv, RevokeInv
    <2> QED
      BY <2>1, <2>2, <2>3
  <1> QED
    BY <1>2, <1>5, <1>6, <1>7, <1>9, <1>10, <1>11 DEF IInv

\* Requests and invitations come, go and expire outside the transactions.
LEMMA DocIInv ==
  ASSUME IInv,
         \/ \E q \in Request : RequestDeviceLogin(q)
         \/ \E v \in Invitation : CreateInvitation(v) \/ RevokeInvitation(v)
         \/ \E x \in Doc : Expire(x)
  PROVE  IInv'
  <1>1. /\ UNCHANGED <<scim, roles, session, decider, lock, tx, epoch, used, raced, ops>>
        /\ expired' \subseteq Doc
        /\ request' \in [Request -> Decision \cup {"none", "pending", "gone"}]
        /\ invitation' \in [Invitation -> {"none", "open", "gone"}]
    BY DEF IInv, Types, TypeOK, RequestDeviceLogin, CreateInvitation, RevokeInvitation, Expire
  <1>2. \A q \in Request : request'[q] = request[q] \/ (request[q] = "none" /\ request'[q] = "pending")
    BY DEF IInv, Types, TypeOK, RequestDeviceLogin, CreateInvitation, RevokeInvitation, Expire
  <1>3. \A v \in Invitation :
          \/ invitation'[v] = invitation[v]
          \/ invitation[v] = "none" /\ invitation'[v] = "open"
          \/ invitation[v] = "open" /\ invitation'[v] = "gone" /\ lock[v] = None
    BY DEF IInv, Types, TypeOK, RequestDeviceLogin, CreateInvitation, RevokeInvitation, Expire
  <1>4. Types'
    BY <1>1 DEF IInv, Types, TypeOK
  <1>5. ShapeInv' /\ LockInv' /\ CountInv' /\ GateInv' /\ RoleInv' /\ EpochInv'
    BY <1>1 DEF IInv, ShapeInv, LockInv, CountInv, GateInv, RoleInv, EpochInv, DeprovisionedStaysOut
  <1>6. DocInv'
    <2>1. \A t \in Tx : /\ tx[t].pc \in Deciding \cup Polling => tx[t].doc \in Request
                        /\ tx[t].pc \in Redeeming => tx[t].doc \in Invitation
                        /\ tx[t].pc = "redeem_commit" => lock[tx[t].doc] # None
      BY DEF IInv, ShapeInv, LockInv
    <2> QED
      BY <1>1, <1>2, <1>3, <2>1 DEF IInv, DocInv, Decision, Deciding, Polling, Redeeming
  <1>7. \A q \in Request : request'[q] = "accepted" => request[q] = "accepted"
    BY <1>2
  <1>8. RevokeInv'
    BY <1>1, <1>7 DEF IInv, RevokeInv
  <1> QED
    BY <1>4, <1>5, <1>6, <1>8 DEF IInv

\* A session is created by a login, or ends.
LEMMA SessionIInv ==
  ASSUME IInv, \/ \E u \in User : LoginSession(u)
               \/ \E s \in Session : EndSession(s)
  PROVE  IInv'
  <1>1. /\ UNCHANGED <<scim, roles, request, decider, invitation, expired, lock, tx, epoch, used, raced>>
        /\ ops \in 0..MaxOps /\ ops' \in 0..MaxOps /\ ops <= ops'
    BY DEF IInv, Types, TypeOK, LoginSession, EndSession
  <1>2. \A u \in User : epoch[u] \in Nat /\ epoch[u] \in 0..MaxOps /\ Holder(u) \in Credential
                        /\ Holder(u).user = u /\ Holder(u).origin = epoch[u]
    BY DEF IInv, Types, TypeOK, Holder, Credential
  <1>3. Nobody.user = None /\ Nobody \in Credential \cup {Nobody}
    BY DEF Nobody
  <1>4. /\ session' \in [Session -> Credential \cup {Nobody}]
        /\ \A s \in Session : \/ session'[s] = session[s] \/ session'[s] = Nobody
                              \/ \E u \in User : session'[s] = Holder(u)
    BY <1>2, <1>3 DEF IInv, Types, TypeOK, LoginSession, EndSession
  <1>5. Types'
    BY <1>1, <1>4 DEF IInv, Types, TypeOK
  <1>6. ShapeInv' /\ LockInv' /\ DocInv' /\ GateInv' /\ RoleInv' /\ EpochInv'
    BY <1>1 DEF IInv, ShapeInv, LockInv, DocInv, GateInv, RoleInv, EpochInv, DeprovisionedStaysOut
  <1>7. CountInv'
    <2>1. \A x \in Doc : used[x] \in Nat
      BY DEF IInv, Types, TypeOK
    <2>2. \A t \in Tx : tx[t].pc # "idle" => tx[t].who.user \in User
      BY DEF IInv, ShapeInv, Credential
    <2> QED
      BY <1>1, <1>2, <2>1, <2>2 DEF IInv, CountInv
  <1>8. RevokeInv'
    <2>1. \A s \in Session, u \in User : session'[s].user = u /\ session'[s].origin # epoch[u] => session'[s] = session[s]
      BY <1>2, <1>3, <1>4
    <2> QED
      BY <1>1, <2>1 DEF IInv, RevokeInv
  <1> QED
    BY <1>5, <1>6, <1>7, <1>8 DEF IInv

\* A user is provisioned or reactivated.
LEMMA ScimActivateIInv ==
  ASSUME IInv, NEW u \in User, ScimActivate(u)
  PROVE  IInv'
  <1>1. /\ UNCHANGED <<session, request, decider, invitation, expired, lock, tx, epoch, used, raced>>
        /\ ops \in 0..MaxOps /\ ops' \in 0..MaxOps /\ ops <= ops'
        /\ scim' = [scim EXCEPT ![u] = "active"]
        /\ lock[u] = None
    BY DEF IInv, Types, TypeOK, ScimActivate
  <1>2. roles' \in [User -> SUBSET Role] /\ \A w \in User \ {u} : roles'[w] = roles[w]
    BY DEF IInv, Types, TypeOK, ScimActivate, AddRole, Role
  <1>3. Types'
    BY <1>1, <1>2 DEF IInv, Types, TypeOK, ScimStatus
  <1>4. ShapeInv' /\ LockInv' /\ DocInv' /\ GateInv' /\ EpochInv' /\ RevokeInv'
    BY <1>1 DEF IInv, ShapeInv, LockInv, DocInv, GateInv, EpochInv, RevokeInv
  <1>5. CountInv'
    <2>1. \A x \in Doc : used[x] \in Nat
      BY DEF IInv, Types, TypeOK
    <2>2. \A w \in User : epoch[w] \in Nat
      BY DEF IInv, Types, TypeOK
    <2>3. \A t \in Tx : tx[t].pc # "idle" => tx[t].who.user \in User
      BY DEF IInv, ShapeInv, Credential
    <2> QED
      BY <1>1, <2>1, <2>2, <2>3 DEF IInv, CountInv
  <1>6. RoleInv'
    <2>1. "active" \notin Deprovisioned
      BY DEF Deprovisioned
    <2>2. scim'[u] = "active" /\ \A w \in User \ {u} : scim'[w] = scim[w]
      BY <1>1 DEF IInv, Types, TypeOK
    <2>3. \A t \in Tx : /\ tx[t].status # "none" => tx[t].who.user \in User \ {u}
                        /\ tx[t].pc # "idle" => tx[t].who.user \in User
      BY <1>1, None \notin Tx DEF IInv, ShapeInv, GateInv, Credential, Leaving
    <2> QED
      BY <1>1, <1>2, <2>1, <2>2, <2>3 DEF IInv, RoleInv, DeprovisionedStaysOut, Granting
  <1> QED
    BY <1>3, <1>4, <1>5, <1>6 DEF IInv

\* An administrator deletes a membership.
LEMMA DeleteOrgMembershipIInv ==
  ASSUME IInv, NEW u \in User, NEW role \in Role, DeleteOrgMembership(u, role)
  PROVE  IInv'
  <1>1. /\ UNCHANGED <<scim, session, request, decider, invitation, expired, lock, tx, epoch, used, raced, ops>>
        /\ roles' = [roles EXCEPT ![u] = @ \ {role}]
    BY DEF DeleteOrgMembership
  <1>2. roles' \in [User -> SUBSET Role] /\ \A w \in User : roles'[w] \subseteq roles[w]
    BY <1>1 DEF IInv, Types, TypeOK
  <1>3. Types'
    BY <1>1, <1>2 DEF IInv, Types, TypeOK
  <1>4. ShapeInv' /\ LockInv' /\ DocInv' /\ CountInv' /\ GateInv' /\ EpochInv' /\ RevokeInv'
    BY <1>1 DEF IInv, ShapeInv, LockInv, DocInv, CountInv, GateInv, EpochInv, RevokeInv
  <1>5. \A t \in Tx : tx[t].status # "none" => tx[t].who.user \in User
    BY DEF IInv, ShapeInv, Leaving, Credential
  <1>6. RoleInv'
    BY <1>1, <1>2, <1>5 DEF IInv, RoleInv, DeprovisionedStaysOut
  <1> QED
    BY <1>3, <1>4, <1>6 DEF IInv

\* The first statement of every request.
LEMMA ReadIInv ==
  ASSUME IInv, NEW t \in Tx,
         \/ \E s \in Session, q \in Request, d \in Decision : DecideRead(t, s, q, d)
         \/ \E q \in Request : PollRead(t, q)
         \/ \E s \in Session, v \in Invitation : RedeemRead(t, s, v)
         \/ \E u \in User : SsoRead(t, u)
         \/ \E u \in User, status \in Deprovisioned : DeprovisionRoles(t, u, status)
  PROVE  IInv'
  <1>0. /\ \A s \in Session : session[s] \in Credential \cup {Nobody}
        /\ \A q \in Request : request[q] \in Decision => decider[q] \in Credential
        /\ \A u \in User : roles[u] \in SUBSET Role /\ Holder(u) \in Credential /\ Holder(u).user = u
        /\ \A c \in Credential : c.user \in User
        /\ \A u \in User : scim[u] \in ScimStatus
        /\ \A v \in Invitation : Invited[v] \in Role
    BY DEF IInv, Types, TypeOK, DocInv, Holder, Credential, Role
  <1>1. ASSUME NEW s \in Session, NEW q \in Request, NEW d \in Decision, DecideRead(t, s, q, d)
        PROVE  IInv'
    <2> DEFINE rec == [Idle EXCEPT !.pc = "decide_write", !.who = session[s], !.doc = q, !.decision = d]
    <2>1. /\ Begin(t, rec, {}) /\ session[s] \in Credential /\ request[q] # "none"
          /\ MissRevocation(session[s].user)
      BY <1>0, <1>1 DEF DecideRead
    <2>2. /\ rec \in TxType /\ rec.pc = "decide_write" /\ rec.who = session[s] /\ rec.doc = q
          /\ rec.status = "none" /\ rec.gate = "none" /\ rec.sessions = {} /\ rec.docs = {} /\ rec.roles = {}
      BY <2>1 DEF Idle, TxType, Doc, ScimStatus
    <2> HIDE DEF rec
    <2> QED
      BY <2>1, <2>2, BeginIInv DEF DecideStart
  <1>2. ASSUME NEW q \in Request, PollRead(t, q)
        PROVE  IInv'
    <2> DEFINE rec == [Idle EXCEPT !.pc = "poll_delete", !.who = decider[q], !.doc = q, !.decision = request[q]]
    <2>1. /\ Begin(t, rec, {}) /\ decider[q] \in Credential /\ request[q] \in Decision
          /\ MissRevocation(decider[q].user)
      BY <1>0, <1>2 DEF PollRead
    <2>2. /\ rec \in TxType /\ rec.pc = "poll_delete" /\ rec.who = decider[q] /\ rec.doc = q /\ rec.decision = request[q]
          /\ rec.status = "none" /\ rec.gate = "none" /\ rec.sessions = {} /\ rec.docs = {} /\ rec.roles = {}
      BY <2>1 DEF Idle, TxType, Doc, ScimStatus
    <2> HIDE DEF rec
    <2> QED
      BY <2>1, <2>2, BeginIInv DEF PollStart
  <1>3. ASSUME NEW s \in Session, NEW v \in Invitation, RedeemRead(t, s, v)
        PROVE  IInv'
    <2> DEFINE u    == session[s].user
               held == Invited[v] \in roles[u]
               rec  == [Idle EXCEPT !.pc = IF held THEN "redeem_delete" ELSE "redeem_insert",
                                    !.who = session[s], !.doc = v, !.gate = scim[u],
                                    !.role = IF held THEN None ELSE Invited[v]]
    <2>1. /\ Begin(t, rec, GateRows(u)) /\ session[s] \in Credential /\ invitation[v] # "none"
          /\ ScimGate(u) /\ UNCHANGED raced
      BY <1>0, <1>3 DEF RedeemRead
    <2>2. /\ rec \in TxType /\ rec.pc \in {"redeem_insert", "redeem_delete"} /\ rec.who = session[s] /\ rec.doc = v
          /\ rec.gate = scim[u] /\ rec.status = "none" /\ rec.sessions = {} /\ rec.docs = {} /\ rec.roles = {}
      BY <1>0, <2>1 DEF Idle, TxType, Doc, Decision, ScimStatus
    <2> HIDE DEF rec
    <2> QED
      BY <2>1, <2>2, BeginIInv DEF GrantStart
  <1>4. ASSUME NEW u \in User, SsoRead(t, u)
        PROVE  IInv'
    <2> DEFINE first == \A w \in User : roles[w] = {}
               rec   == [Idle EXCEPT !.pc = IF roles[u] = {} THEN "sso_insert" ELSE "sso_commit",
                                     !.who = Holder(u), !.gate = scim[u],
                                     !.role = IF roles[u] # {} THEN None ELSE IF first THEN Admin ELSE Viewer]
    <2>1. Begin(t, rec, GateRows(u)) /\ ScimGate(u) /\ UNCHANGED raced
      BY <1>4 DEF SsoRead
    <2> HIDE DEF first
    <2>2. /\ rec \in TxType /\ rec.pc \in Entering /\ rec.who = Holder(u)
          /\ rec.gate = scim[u] /\ rec.status = "none" /\ rec.sessions = {} /\ rec.docs = {} /\ rec.roles = {}
      BY ZenonT(60), <1>0 DEF Idle, TxType, Role, Decision, Entering
    <2> HIDE DEF rec
    <2> QED
      BY <1>0, <2>1, <2>2, BeginIInv DEF GrantStart
  <1>5. ASSUME NEW u \in User, NEW status \in Deprovisioned, DeprovisionRoles(t, u, status)
        PROVE  IInv'
    <2> DEFINE rec == [Idle EXCEPT !.pc = "dep_invitations", !.who = Holder(u),
                                   !.status = status, !.roles = roles[u]]
    <2>1. /\ Begin(t, rec, {u}) /\ lock[u] = None /\ scim[u] # "none"
          /\ raced' = IF \E o \in Tx : tx[o].who.user = u /\ tx[o].gate = "none" /\ tx[o].pc \in Granting
                      THEN [raced EXCEPT !.role = @ \cup {u}] ELSE raced
      BY <1>5 DEF DeprovisionRoles
    <2>2. /\ rec \in TxType /\ rec.pc = "dep_invitations" /\ rec.who = Holder(u)
          /\ rec.gate = "none" /\ rec.status # "none" /\ rec.sessions = {} /\ rec.docs = {} /\ rec.roles = roles[u]
      BY <1>0 DEF Idle, TxType, Decision, Deprovisioned, ScimStatus
    <2> HIDE DEF rec
    <2>3. rec.who \in Credential /\ rec.who.user = u /\ rec.who.origin = epoch[u]
      BY <1>0, <2>2 DEF Holder
    <2> QED
      BY <2>1, <2>2, <2>3, BeginIInv DEF LeaveStart
  <1> QED
    BY <1>1, <1>2, <1>3, <1>4, <1>5

\* The statements in the middle of a request.
LEMMA StatementIInv ==
  ASSUME IInv, NEW t \in Tx,
         \/ DecideWrite(t) \/ PollDelete(t) \/ RedeemInsert(t) \/ RedeemDelete(t) \/ SsoInsert(t)
  PROVE  IInv'
  <1>1. tx[t].status = "none"
    BY DEF IInv, ShapeInv, Leaving, DecideWrite, PollDelete, RedeemInsert, RedeemDelete, SsoInsert
  <1>2. CASE Rollback(t)
    BY <1>1, <1>2, RollbackIInv
  <1>3. CASE ~Rollback(t)
    <2>1. CASE DecideWrite(t)
      BY <1>3, <2>1, StepIInv DEF DecideWrite, WriteRow
    <2>2. CASE PollDelete(t)
      BY <1>3, <2>2, StepIInv DEF PollDelete, WriteRow
    <2>3. CASE RedeemInsert(t)
      BY <1>3, <2>3, StepIInv DEF RedeemInsert, InsertMembership
    <2>4. CASE RedeemDelete(t)
      BY <1>3, <2>4, StepIInv DEF RedeemDelete, WriteRow
    <2>5. CASE SsoInsert(t)
      BY <1>3, <2>5, StepIInv DEF SsoInsert, InsertMembership
    <2> QED
      BY <2>1, <2>2, <2>3, <2>4, <2>5
  <1> QED
    BY <1>2, <1>3

\* The two statements of a deprovisioning that lock rows.
LEMMA DeprovisionRowsIInv ==
  ASSUME IInv, NEW t \in Tx, DeprovisionInvitations(t) \/ DeprovisionRequests(t)
  PROVE  IInv'
  <1>1. CASE DeprovisionInvitations(t)
    <2> DEFINE own == {v \in Invitation : invitation[v] = "open" /\ Addressee[v] = tx[t].who.user}
    <2>1. /\ tx[t].pc = "dep_invitations" /\ \A v \in own : lock[v] = None
          /\ lock' = [x \in Row |-> IF x \in own THEN t ELSE lock[x]]
          /\ tx' = [tx EXCEPT ![t].pc = "dep_sessions", ![t].docs = own]
          /\ UNCHANGED <<tables, raced, ops>>
      BY <1>1 DEF DeprovisionInvitations
    <2>2. own \in SUBSET Doc /\ own \cap Request = {}
      BY DEF Doc
    <2> HIDE DEF own
    <2>3. tx[t].docs = {} /\ tx[t].docs \cup own = own
      BY <2>1 DEF IInv, ShapeInv
    <2>4. /\ tx' \in [Tx -> TxType] /\ \A o \in Tx \ {t} : tx'[o] = tx[o]
          /\ tx'[t].pc = "dep_sessions" /\ tx'[t].docs = tx[t].docs \cup own
          /\ tx'[t].who = tx[t].who /\ tx'[t].status = tx[t].status /\ tx'[t].gate = tx[t].gate
          /\ tx'[t].decision = tx[t].decision /\ tx'[t].roles = tx[t].roles /\ tx'[t].sessions = tx[t].sessions
      <3> DEFINE rec == [tx[t] EXCEPT !.pc = "dep_sessions", !.docs = tx[t].docs \cup own]
      <3>1. tx' = [tx EXCEPT ![t] = rec]
        BY <2>1, <2>3
      <3>2. tx \in [Tx -> TxType] /\ tx[t] \in TxType
        BY DEF IInv, Types
      <3>3. /\ rec \in TxType /\ rec.pc = "dep_sessions" /\ rec.docs = tx[t].docs \cup own
            /\ rec.who = tx[t].who /\ rec.status = tx[t].status /\ rec.gate = tx[t].gate
            /\ rec.decision = tx[t].decision /\ rec.roles = tx[t].roles /\ rec.sessions = tx[t].sessions
        BY <2>2, <3>2 DEF TxType
      <3> HIDE DEF rec
      <3> QED
        BY <3>1, <3>2, <3>3
    <2>5. lock' \in [Row -> Tx \cup {None}] /\ \A x \in Row : lock'[x] = IF x \in own THEN t ELSE lock[x]
      BY <2>1 DEF IInv, Types, TypeOK
    <2> QED
      BY <2>1, <2>2, <2>4, <2>5, DeprovisionDocsIInv
  <1>2. CASE DeprovisionRequests(t)
    <2> DEFINE own == {q \in Request : request[q] \in Decision /\ decider[q].user = tx[t].who.user}
    <2>1. /\ tx[t].pc = "dep_requests" /\ \A q \in own : lock[q] = None
          /\ lock' = [x \in Row |-> IF x \in own THEN t ELSE lock[x]]
          /\ tx' = [tx EXCEPT ![t].pc = "dep_commit", ![t].docs = @ \cup own]
          /\ UNCHANGED <<tables, raced, ops>>
      BY <1>2 DEF DeprovisionRequests
    <2>2. /\ own \in SUBSET Doc
          /\ \A q \in Request : request[q] \in Decision /\ decider[q].user = tx[t].who.user => q \in own
      BY DEF Doc
    <2> HIDE DEF own
    <2>3. /\ tx' \in [Tx -> TxType] /\ \A o \in Tx \ {t} : tx'[o] = tx[o]
          /\ tx'[t].pc = "dep_commit" /\ tx'[t].docs = tx[t].docs \cup own
          /\ tx'[t].who = tx[t].who /\ tx'[t].status = tx[t].status /\ tx'[t].gate = tx[t].gate
          /\ tx'[t].decision = tx[t].decision /\ tx'[t].roles = tx[t].roles /\ tx'[t].sessions = tx[t].sessions
      <3> DEFINE rec == [tx[t] EXCEPT !.pc = "dep_commit", !.docs = tx[t].docs \cup own]
      <3>1. tx' = [tx EXCEPT ![t] = rec]
        BY <2>1
      <3>2. tx \in [Tx -> TxType] /\ tx[t] \in TxType
        BY DEF IInv, Types
      <3>3. /\ rec \in TxType /\ rec.pc = "dep_commit" /\ rec.docs = tx[t].docs \cup own
            /\ rec.who = tx[t].who /\ rec.status = tx[t].status /\ rec.gate = tx[t].gate
            /\ rec.decision = tx[t].decision /\ rec.roles = tx[t].roles /\ rec.sessions = tx[t].sessions
        BY <2>2, <3>2 DEF TxType
      <3> HIDE DEF rec
      <3> QED
        BY <3>1, <3>2, <3>3
    <2>4. lock' \in [Row -> Tx \cup {None}] /\ \A x \in Row : lock'[x] = IF x \in own THEN t ELSE lock[x]
      BY <2>1 DEF IInv, Types, TypeOK
    <2> QED
      BY <2>1, <2>2, <2>3, <2>4, DeprovisionDocsIInv
  <1> QED
    BY <1>1, <1>2

\* Every step preserves the inductive invariant.
LEMMA NextIInv == IInv /\ [Next]_vars => IInv'
  <1> SUFFICES ASSUME IInv, [Next]_vars PROVE IInv'
    OBVIOUS
  <1>1. ASSUME NEW t \in Tx, TxStep(t) PROVE IInv'
    BY <1>1, StatementIInv, DecideCommitIInv, PollCommitIInv, RedeemCommitIInv, SsoCommitIInv,
       DeprovisionRowsIInv, DeprovisionSessionsIInv, DeprovisionCommitIInv DEF TxStep
  <1>2. ASSUME NEW u \in User, LoginSession(u) \/ RegisterUser(u) \/ ScimActivate(u) PROVE IInv'
    BY <1>2, SessionIInv, ScimActivateIInv DEF RegisterUser
  <1>3. CASE UNCHANGED vars
    BY <1>3 DEF IInv, Types, TypeOK, ShapeInv, LockInv, DocInv, CountInv, GateInv,
                RoleInv, EpochInv, DeprovisionedStaysOut, RevokeInv, vars
  <1> QED
    BY <1>1, <1>2, <1>3, ReadIInv, SessionIInv, DocIInv, DeleteOrgMembershipIInv DEF Next

\* The inductive invariant always holds.
LEMMA Invariance == Spec => []IInv
  BY InitIInv, NextIInv, PTL DEF Spec

-----------------------------------------------------------------------------
(* The theorems.                                                           *)

\* A device login request mints at most one session and an invitation is
\* redeemed at most once, and neither once it is revoked, however many requests
\* run at the same time (DeleteDeviceLoginRequest and DeleteInvitation report
\* the number of rows they deleted).
THEOREM UsedOnceEver == Spec => []AccessInv
  <1>1. IInv => AccessInv
    BY DEF IInv, Types, CountInv, DocInv, AccessInv, UsedOnce
  <1> QED
    BY <1>1, Invariance, PTL

\* A deprovisioning is final however it interleaves with logins, redemptions,
\* decisions and polls of the user: no login or invitation gives the user a
\* role afterwards, since the SCIM gates lock the row that the deprovisioning
\* locks, and no session and no accepted device login goes back to a credential
\* that it revoked. Left out are a login or redemption that found no SCIM row to
\* lock, and a decision or poll, which lock none, in flight at the revocation
\* (removeOrgMembershipsAndMaybeSessions, FindScimUserByUserId).
THEOREM DeprovisioningIsFinalEver == Spec => []DeprovisioningIsFinal
  <1>1. IInv => DeprovisionedStaysOut
    BY DEF IInv, RoleInv
  <1>2. IInv => RevokedStaysRevoked
    BY DEF IInv, RevokeInv, RevokedStaysRevoked, Deprovisioning
  <1> QED
    BY <1>1, <1>2, Invariance, PTL DEF DeprovisioningIsFinal
=============================================================================
