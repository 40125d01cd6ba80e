----------------------------- MODULE UserAccess -----------------------------
(***************************************************************************)
(* How people get into one organization and how SCIM deprovisioning takes  *)
(* them out again: sessions, device logins, invitations, the SSO callback  *)
(* and removeOrgMembershipsAndMaybeSessions (internal/api/sso.go,          *)
(* device_login_requests.go, invitations.go, login.go, register.go,        *)
(* logout.go, scim_service.go).                                            *)
(*                                                                         *)
(* Every request that needs more than one statement is a READ COMMITTED    *)
(* transaction: reads see what is committed, a write to a row that another *)
(* transaction has written waits for it and then looks at the row again,   *)
(* and nothing is seen by others before the commit.                        *)
(***************************************************************************)
EXTENDS Naturals, FiniteSets

CONSTANTS
    Tx,         \* concurrent requests
    User,       \* global users
    Elsewhere,  \* users with memberships in another organization
    Session,    \* session tokens
    Request,    \* device login requests
    Invitation, \* invitations to the organization
    Addressee,  \* [v] the user whose address the invitation was sent to
    Invited,    \* [v] the role the invitation grants
    Admin, Viewer, \* the seeded roles
    None,       \* no user, no role, nothing held
    MaxOps      \* bound: transactions and logins started

ASSUME AccessAssumption ==
    /\ Elsewhere \subseteq User
    /\ Addressee \in [Invitation -> User]
    /\ Invited \in [Invitation -> {Admin, Viewer}]
    /\ None \notin User \cup {Admin, Viewer} \cup Tx \cup Session \cup Request \cup Invitation
    /\ Request \cap Invitation = {} /\ User \cap (Request \cup Invitation) = {}
    /\ MaxOps \in Nat

Role == {Admin, Viewer}
Decision == {"accepted", "rejected"}
Deprovisioned == {"inactive", "deleted"}
ScimStatus == Deprovisioned \cup {"none", "active"}
Doc == Request \cup Invitation  \* rows that are consumed when used
Row == Doc \cup User            \* and the SCIM governance row of a user

VARIABLES
    scim,       \* [u] the organization's SCIM record: none, active, inactive, deleted
    roles,      \* [u] role memberships in the organization
    session,    \* [s] owner and origin of a live session
    request,    \* [q] none, pending, accepted, rejected or gone
    decider,    \* [q] who decided, and the origin of the session used for it
    invitation, \* [v] none, open or gone
    expired,    \* rows of Doc whose expires_at has passed
    lock,       \* [x \in Row] the transaction that wrote the row, or selected it FOR UPDATE
    tx,         \* [t] the transaction's program counter, arguments and writes
    epoch,      \* [u] how often deprovisioning revoked every credential of u
    used,       \* [x \in Doc] sessions minted from a request, redemptions
    raced,      \* users whose deprovisioning missed what a request of theirs, in flight at
                \* the time, inserts later: a role, or a session or decision
    ops         \* transactions and logins started

vars == <<scim, roles, session, request, decider, invitation, expired, lock,
          tx, epoch, used, raced, ops>>
tables == <<scim, roles, session, request, decider, invitation, expired, epoch, used>>

\* A credential: whose it is, and the epoch of the login it goes back to.
Credential == [user : User, origin : 0..MaxOps]
Nobody == [user |-> None, origin |-> 0]
\* What a login gives u.
Holder(u) == [user |-> u, origin |-> epoch[u]]

Idle == [pc |-> "idle", who |-> Nobody, doc |-> None, decision |-> "rejected", role |-> None,
         gate |-> "none", status |-> "none", roles |-> {}, sessions |-> {}, docs |-> {}]

Init ==
    /\ scim = [u \in User |-> "none"]
    /\ roles = [u \in User |-> {}]
    /\ session = [s \in Session |-> Nobody]
    /\ request = [q \in Request |-> "none"]
    /\ decider = [q \in Request |-> Nobody]
    /\ invitation = [v \in Invitation |-> "none"]
    /\ expired = {}
    /\ lock = [x \in Row |-> None]
    /\ tx = [t \in Tx |-> Idle]
    /\ epoch = [u \in User |-> 0]
    /\ used = [x \in Doc |-> 0]
    /\ raced = [role |-> {}, credential |-> {}]
    /\ ops = 0

-----------------------------------------------------------------------------
(* Transactions.                                                           *)

\* The request starts, holding the row locks of rows.
Begin(t, rec, rows) ==
    /\ tx[t] = Idle
    /\ ops < MaxOps
    /\ ops' = ops + 1
    /\ tx' = [tx EXCEPT ![t] = rec]
    /\ lock' = [x \in Row |-> IF x \in rows THEN t ELSE lock[x]]
    /\ UNCHANGED tables

Step(t, pc) == tx' = [tx EXCEPT ![t].pc = pc]

\* The transaction ends and its row locks are released.
Finish(t) ==
    /\ tx' = [tx EXCEPT ![t] = Idle]
    /\ lock' = [x \in Row |-> IF lock[x] = t THEN None ELSE lock[x]]
    /\ UNCHANGED <<raced, ops>>

Rollback(t) == Finish(t) /\ UNCHANGED tables

\* A statement that writes the row: it waits for another writer, and when the
\* row is gone by then it affects no rows and the request fails.
WriteRow(t, x, gone, pc) ==
    /\ lock[x] = None
    /\ IF gone
       THEN Rollback(t)
       ELSE /\ lock' = [lock EXCEPT ![x] = t]
            /\ Step(t, pc)
            /\ UNCHANGED <<tables, raced, ops>>

\* A session token that no statement in flight has seen.
Unused(s) == session[s] = Nobody /\ \A t \in Tx : s \notin tx[t].sessions

\* Another transaction is inserting or deleting that membership.
MembershipInFlight(t, u, role) ==
    \E o \in Tx \ {t} :
        /\ tx[o].who.user = u
        /\ \/ tx[o].role = role /\ tx[o].pc \in {"sso_commit", "redeem_delete", "redeem_commit"}
           \/ role \in tx[o].roles

\* CreateMembership: the unique constraint waits for an equal row in flight and
\* fails on a committed one.
InsertMembership(t, pc) ==
    LET u == tx[t].who.user IN
    /\ ~MembershipInFlight(t, u, tx[t].role)
    /\ IF tx[t].role \in roles[u]
       THEN Rollback(t)
       ELSE Step(t, pc) /\ UNCHANGED <<tables, lock, raced, ops>>

AddRole(u, role) == [roles EXCEPT ![u] = @ \cup ({role} \ {None})]

\* findScimUserForOrg and FindScimUsersByPrimaryEmail: the user's SCIM row, if
\* there is one, is selected FOR UPDATE and must not be deprovisioned.
ScimGate(u) == scim[u] # "none" => lock[u] = None /\ scim[u] \notin Deprovisioned
GateRows(u) == IF scim[u] = "none" THEN {} ELSE {u}

\* The deprovisioning t has deleted the user's sessions and has not committed.
Revoking(t, u) ==
    tx[t].status # "none" /\ tx[t].who.user = u /\ tx[t].who.origin # epoch[u]

\* A decision or a poll that starts while a deprovisioning is between the
\* deletion of the user's sessions and its commit: nothing will delete what it
\* inserts.
MissRevocation(u) ==
    raced' = IF \E t \in Tx : Revoking(t, u)
             THEN [raced EXCEPT !.credential = @ \cup {u}] ELSE raced

-----------------------------------------------------------------------------
(* Device logins.                                                          *)

RequestDeviceLogin(q) ==
    /\ request[q] = "none"
    /\ request' = [request EXCEPT ![q] = "pending"]
    /\ UNCHANGED <<scim, roles, session, decider, invitation, expired, lock, tx, epoch, used, raced, ops>>

\* AcceptDeviceLoginRequest and RejectDeviceLoginRequest: the decision is read
\* without a row lock ...
DecideRead(t, s, q, decision) ==
    /\ session[s] # Nobody
    /\ request[q] = "pending"
    /\ Begin(t, [Idle EXCEPT !.pc = "decide_write", !.who = session[s], !.doc = q,
                             !.decision = decision], {})
    /\ MissRevocation(session[s].user)

\* ... and written in a second statement.
DecideWrite(t) ==
    /\ tx[t].pc = "decide_write"
    /\ WriteRow(t, tx[t].doc, request[tx[t].doc] = "gone", "decide_commit")

DecideCommit(t) ==
    /\ tx[t].pc = "decide_commit"
    /\ request' = [request EXCEPT ![tx[t].doc] = tx[t].decision]
    /\ decider' = [decider EXCEPT ![tx[t].doc] = tx[t].who]
    /\ Finish(t)
    /\ UNCHANGED <<scim, roles, session, invitation, expired, epoch, used>>

\* PollDeviceLoginRequest reads the request before its transaction begins; an
\* undecided or expired one is answered at once.
PollRead(t, q) ==
    /\ request[q] \in Decision
    /\ q \notin expired
    /\ Begin(t, [Idle EXCEPT !.pc = "poll_delete", !.who = decider[q], !.doc = q,
                             !.decision = request[q]], {})
    /\ MissRevocation(decider[q].user)

PollDeleteUncheckedBug(t) ==
    /\ tx[t].pc = "poll_delete"
    /\ lock[tx[t].doc] = None
    /\ Step(t, "poll_commit")
    /\ UNCHANGED <<tables, lock, raced, ops>>

PollDelete(t) ==
    /\ tx[t].pc = "poll_delete"
    /\ WriteRow(t, tx[t].doc, request[tx[t].doc] = "gone", "poll_commit")

\* An accepted request becomes a session of whoever accepted it.
PollCommit(t) ==
    /\ tx[t].pc = "poll_commit"
    /\ request' = [request EXCEPT ![tx[t].doc] = "gone"]
    /\ IF tx[t].decision = "accepted"
       THEN \E s \in Session : /\ Unused(s)
                               /\ session' = [session EXCEPT ![s] = tx[t].who]
                               /\ used' = [used EXCEPT ![tx[t].doc] = @ + 1]
       ELSE UNCHANGED <<session, used>>
    /\ Finish(t)
    /\ UNCHANGED <<scim, roles, decider, invitation, expired, epoch>>

-----------------------------------------------------------------------------
(* Invitations.                                                            *)

CreateInvitation(v) ==
    /\ invitation[v] = "none"
    /\ invitation' = [invitation EXCEPT ![v] = "open"]
    /\ UNCHANGED <<scim, roles, session, request, decider, expired, lock, tx, epoch, used, raced, ops>>

\* RevokeInvitation, and DeleteExpiredInvitations for the expired ones.
RevokeInvitation(v) ==
    /\ invitation[v] = "open"
    /\ lock[v] = None
    /\ invitation' = [invitation EXCEPT ![v] = "gone"]
    /\ UNCHANGED <<scim, roles, session, request, decider, expired, lock, tx, epoch, used, raced, ops>>

\* RedeemInvitation: the invitation, the SCIM gate and the memberships are read.
RedeemRead(t, s, v) ==
    /\ session[s] # Nobody
    /\ invitation[v] = "open"
    /\ v \notin expired
    /\ LET u == session[s].user
           held == Invited[v] \in roles[u]
       IN  /\ ScimGate(u)
           /\ Begin(t, [Idle EXCEPT !.pc = IF held THEN "redeem_delete" ELSE "redeem_insert",
                                    !.who = session[s], !.doc = v, !.gate = scim[u],
                                    !.role = IF held THEN None ELSE Invited[v]], GateRows(u))
    /\ UNCHANGED raced

RedeemInsert(t) == tx[t].pc = "redeem_insert" /\ InsertMembership(t, "redeem_delete")

RedeemDelete(t) ==
    /\ tx[t].pc = "redeem_delete"
    /\ WriteRow(t, tx[t].doc, invitation[tx[t].doc] = "gone", "redeem_commit")

RedeemCommit(t) ==
    /\ tx[t].pc = "redeem_commit"
    /\ invitation' = [invitation EXCEPT ![tx[t].doc] = "gone"]
    /\ used' = [used EXCEPT ![tx[t].doc] = @ + 1]
    /\ roles' = AddRole(tx[t].who.user, tx[t].role)
    /\ Finish(t)
    /\ UNCHANGED <<scim, session, request, decider, expired, epoch>>

-----------------------------------------------------------------------------
(* Logins.                                                                 *)

SsoReadUnlockedBug(t, u) ==
    LET first == \A w \in User : roles[w] = {} IN
    /\ scim[u] \notin Deprovisioned
    /\ Begin(t, [Idle EXCEPT !.pc = IF roles[u] = {} THEN "sso_insert" ELSE "sso_commit",
                             !.who = Holder(u), !.gate = scim[u],
                             !.role = IF roles[u] # {} THEN None ELSE IF first THEN Admin ELSE Viewer], {})
    /\ UNCHANGED raced

\* GetSsoCallback: the SCIM gate, then the memberships; a user without any
\* gets one, Admin when the organization has no member at all.
SsoRead(t, u) ==
    LET first == \A w \in User : roles[w] = {} IN
    /\ ScimGate(u)
    /\ Begin(t, [Idle EXCEPT !.pc = IF roles[u] = {} THEN "sso_insert" ELSE "sso_commit",
                             !.who = Holder(u), !.gate = scim[u],
                             !.role = IF roles[u] # {} THEN None ELSE IF first THEN Admin ELSE Viewer],
             GateRows(u))
    /\ UNCHANGED raced

SsoInsert(t) == tx[t].pc = "sso_insert" /\ InsertMembership(t, "sso_commit")

SsoCommit(t) ==
    /\ tx[t].pc = "sso_commit"
    /\ roles' = AddRole(tx[t].who.user, tx[t].role)
    /\ \E s \in Session : Unused(s) /\ session' = [session EXCEPT ![s] = Holder(tx[t].who.user)]
    /\ Finish(t)
    /\ UNCHANGED <<scim, request, decider, invitation, expired, epoch, used>>

\* The identity is enough for a session.
LoginSession(u) ==
    /\ ops < MaxOps
    /\ ops' = ops + 1
    /\ \E s \in Session : /\ Unused(s)
                          /\ session' = [session EXCEPT ![s] = Holder(u)]
    /\ UNCHANGED <<scim, roles, request, decider, invitation, expired, lock, tx, epoch, used, raced>>

\* RegisterUser of an identity that has an account logs it in.
RegisterUser(u) == LoginSession(u)

\* LogoutSession, RevokeUserSessionToken and DeleteExpiredSessionTokens.
EndSession(s) ==
    /\ session[s] # Nobody
    /\ session' = [session EXCEPT ![s] = Nobody]
    /\ UNCHANGED <<scim, roles, request, decider, invitation, expired, lock, tx, epoch, used, raced, ops>>

\* An administrator deletes one of the user's memberships, never the only
\* Admin one.
DeleteOrgMembership(u, role) ==
    /\ role \in roles[u]
    /\ role = Admin => \E w \in User \ {u} : Admin \in roles[w]
    /\ ~MembershipInFlight(None, u, role)
    /\ roles' = [roles EXCEPT ![u] = @ \ {role}]
    /\ UNCHANGED <<scim, session, request, decider, invitation, expired, lock, tx, epoch, used, raced, ops>>

\* The expiry of a request or of an invitation passes.
Expire(x) ==
    /\ x \notin expired
    /\ IF x \in Request THEN request[x] \notin {"none", "gone"} ELSE invitation[x] = "open"
    /\ expired' = expired \cup {x}
    /\ UNCHANGED <<scim, roles, session, request, decider, invitation, lock, tx, epoch, used, raced, ops>>

-----------------------------------------------------------------------------
(* SCIM.  LockScimUser takes the row that the gate of logins and           *)
(* redemptions takes.                                                      *)

Deprovisioning(u) == \E t \in Tx : tx[t].status # "none" /\ tx[t].who.user = u

\* Provisioning and reactivation restore SCIM-managed roles, Viewer at least.
ScimActivate(u) ==
    /\ scim[u] # "active"
    /\ lock[u] = None
    /\ ops < MaxOps
    /\ ops' = ops + 1
    /\ scim' = [scim EXCEPT ![u] = "active"]
    /\ roles[u] = {} => ~MembershipInFlight(None, u, Viewer)
    /\ roles' = IF roles[u] = {} THEN AddRole(u, Viewer) ELSE roles
    /\ UNCHANGED <<session, request, decider, invitation, expired, lock, tx, epoch, used, raced>>

\* A login or a redemption; it holds no lock when it found no SCIM row.
Granting == {"sso_insert", "sso_commit", "redeem_insert", "redeem_delete", "redeem_commit"}
Minting == {"decide_write", "decide_commit", "poll_delete", "poll_commit"}

\* Deactivation and deletion: the memberships committed by now are deleted ...
DeprovisionRoles(t, u, status) ==
    /\ scim[u] \in (IF status = "deleted" THEN {"active", "inactive"} ELSE {"active"})
    /\ lock[u] = None
    /\ Begin(t, [Idle EXCEPT !.pc = "dep_invitations", !.who = Holder(u),
                             !.status = status, !.roles = roles[u]], {u})
    /\ raced' = IF \E o \in Tx : tx[o].who.user = u /\ tx[o].gate = "none"
                                 /\ tx[o].pc \in Granting
                THEN [raced EXCEPT !.role = @ \cup {u}] ELSE raced

\* ... then the invitations sent to the user's addresses ...
DeprovisionInvitations(t) ==
    LET own == {v \in Invitation : invitation[v] = "open" /\ Addressee[v] = tx[t].who.user} IN
    /\ tx[t].pc = "dep_invitations"
    /\ \A v \in own : lock[v] = None
    /\ lock' = [x \in Row |-> IF x \in own THEN t ELSE lock[x]]
    /\ tx' = [tx EXCEPT ![t].pc = "dep_sessions", ![t].docs = own]
    /\ UNCHANGED <<tables, raced, ops>>

\* ... then, if no membership is left anywhere, the sessions ...
DeprovisionSessions(t) ==
    LET u == tx[t].who.user
        strip == u \notin Elsewhere /\ roles[u] \subseteq tx[t].roles
    IN
    /\ tx[t].pc = "dep_sessions"
    /\ tx' = [tx EXCEPT ![t].pc = IF strip THEN "dep_requests" ELSE "dep_commit",
                        ![t].sessions = IF strip THEN {s \in Session : session[s].user = u} ELSE {}]
    /\ epoch' = [epoch EXCEPT ![u] = IF strip THEN @ + 1 ELSE @]
    /\ raced' = IF strip /\ \E o \in Tx : tx[o].who.user = u /\ tx[o].pc \in Minting
                THEN [raced EXCEPT !.credential = @ \cup {u}] ELSE raced
    /\ UNCHANGED <<scim, roles, session, request, decider, invitation, expired, lock, used, ops>>

\* ... and the device login requests the user decided.
DeprovisionRequests(t) ==
    LET own == {q \in Request : request[q] \in Decision /\ decider[q].user = tx[t].who.user} IN
    /\ tx[t].pc = "dep_requests"
    /\ \A q \in own : lock[q] = None
    /\ lock' = [x \in Row |-> IF x \in own THEN t ELSE lock[x]]
    /\ tx' = [tx EXCEPT ![t].pc = "dep_commit", ![t].docs = @ \cup own]
    /\ UNCHANGED <<tables, raced, ops>>

DeprovisionCommit(t) ==
    LET u == tx[t].who.user IN
    /\ tx[t].pc = "dep_commit"
    /\ scim' = [scim EXCEPT ![u] = tx[t].status]
    /\ roles' = [roles EXCEPT ![u] = @ \ tx[t].roles]
    /\ session' = [s \in Session |-> IF s \in tx[t].sessions THEN Nobody ELSE session[s]]
    /\ request' = [q \in Request |-> IF q \in tx[t].docs THEN "gone" ELSE request[q]]
    /\ invitation' = [v \in Invitation |-> IF v \in tx[t].docs THEN "gone" ELSE invitation[v]]
    /\ Finish(t)
    /\ UNCHANGED <<decider, expired, epoch, used>>

-----------------------------------------------------------------------------

TxStep(t) ==
    \/ DecideWrite(t) \/ DecideCommit(t) \/ PollDelete(t) \/ PollCommit(t)
    \/ RedeemInsert(t) \/ RedeemDelete(t) \/ RedeemCommit(t)
    \/ SsoInsert(t) \/ SsoCommit(t)
    \/ DeprovisionInvitations(t) \/ DeprovisionSessions(t) \/ DeprovisionRequests(t)
    \/ DeprovisionCommit(t)

Next ==
    \/ \E t \in Tx : TxStep(t)
    \/ \E t \in Tx, s \in Session, q \in Request, d \in Decision : DecideRead(t, s, q, d)
    \/ \E t \in Tx, q \in Request : PollRead(t, q)
    \/ \E t \in Tx, s \in Session, v \in Invitation : RedeemRead(t, s, v)
    \/ \E t \in Tx, u \in User : SsoRead(t, u)
    \/ \E t \in Tx, u \in User, status \in Deprovisioned : DeprovisionRoles(t, u, status)
    \/ \E u \in User : LoginSession(u) \/ RegisterUser(u) \/ ScimActivate(u)
    \/ \E u \in User, role \in Role : DeleteOrgMembership(u, role)
    \/ \E s \in Session : EndSession(s)
    \/ \E q \in Request : RequestDeviceLogin(q)
    \/ \E v \in Invitation : CreateInvitation(v) \/ RevokeInvitation(v)
    \/ \E x \in Doc : Expire(x)

Spec == Init /\ [][Next]_vars

-----------------------------------------------------------------------------
(* Properties.                                                             *)

TxType == [pc : {"idle", "decide_write", "decide_commit", "poll_delete", "poll_commit",
                 "redeem_insert", "redeem_delete", "redeem_commit", "sso_insert", "sso_commit",
                 "dep_invitations", "dep_sessions", "dep_requests", "dep_commit"},
           who : Credential \cup {Nobody}, doc : Doc \cup {None}, decision : Decision,
           role : Role \cup {None}, gate : ScimStatus, status : Deprovisioned \cup {"none"}, roles : SUBSET Role,
           sessions : SUBSET Session, docs : SUBSET Doc]

TypeOK ==
    /\ scim \in [User -> ScimStatus]
    /\ roles \in [User -> SUBSET Role]
    /\ session \in [Session -> Credential \cup {Nobody}]
    /\ request \in [Request -> Decision \cup {"none", "pending", "gone"}]
    /\ decider \in [Request -> Credential \cup {Nobody}]
    /\ invitation \in [Invitation -> {"none", "open", "gone"}]
    /\ expired \subseteq Doc
    /\ lock \in [Row -> Tx \cup {None}]
    /\ \A t \in Tx : tx[t] \in TxType
    /\ epoch \in [User -> 0..MaxOps]
    /\ used \in [Doc -> 0..MaxOps]
    /\ raced \in [role : SUBSET User, credential : SUBSET User]
    /\ ops \in 0..MaxOps

\* A device login request mints at most one session and an invitation is
\* redeemed at most once, and neither after it was revoked, by whatever
\* requests run at the same time (the row counts of DeleteDeviceLoginRequest
\* and DeleteInvitation).
UsedOnce ==
    /\ \A x \in Doc : used[x] <= 1
    /\ \A t \in Tx : /\ tx[t].pc = "poll_commit" => request[tx[t].doc] \in Decision
                     /\ tx[t].pc = "redeem_commit" => invitation[tx[t].doc] = "open"

\* SCIM deprovisioning is authoritative: "an SSO login must not resurrect
\* access via the membership integrity fallback", and neither may an
\* invitation, however the login, the redemption and the deprovisioning
\* interleave: FindScimUserByUserId locks the row of the user. The exception is
\* a login or redemption that began before the user had a SCIM row to lock and
\* is still in flight at the deprovisioning.
DeprovisionedStaysOut ==
    \A u \in User \ raced.role : scim[u] \in Deprovisioned => roles[u] = {}

\* Once a deprovisioning is through, no live session and no accepted device
\* login request of the user goes back to a credential that it revoked
\* (DeleteSessionTokensByUserId and DeleteDeviceLoginRequestsDecidedBy), unless
\* a decision or a poll of the user was in flight when the sessions were
\* deleted or began before the deletion committed: those take no lock.
RevokedStaysRevoked ==
    \A u \in User \ raced.credential : ~Deprovisioning(u) =>
        /\ \A s \in Session : session[s].user = u => session[s].origin = epoch[u]
        /\ \A q \in Request : request[q] = "accepted" /\ decider[q].user = u =>
               decider[q].origin = epoch[u]

\* Types, and that an invitation (RedeemInvitation) and a device login request
\* (PollDeviceLoginRequest) are good for one use.
AccessInv == TypeOK /\ UsedOnce

\* A deprovisioning is final: the user keeps neither a role nor a way back to a
\* credential that it revoked (removeOrgMembershipsAndMaybeSessions), whatever
\* logins, redemptions, decisions and polls surround it, the two exceptions
\* named above apart.
DeprovisioningIsFinal == DeprovisionedStaysOut /\ RevokedStaysRevoked
=============================================================================
