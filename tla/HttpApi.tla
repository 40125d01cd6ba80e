------------------------------- MODULE HttpApi -------------------------------
(* The way of one request through the API: the gateway's authentication    *)
(* call, the generated wrapper and strict handler, the strict middlewares  *)
(* (AuthAsserter outermost, then AuthMiddleware), the guard at the head of *)
(* the operation's handler, the handler's work, and the assertion that     *)
(* some guard ran.  While the request is under way its caller may lose     *)
(* permissions, be deactivated or be bound to a plugin workload.  What the *)
(* handlers do is the subject of the other modules; here a handler just    *)
(* answers or fails.  Requests for the control plane pass through the same *)
(* gateway and appear as AdminRequest and DeploymentRequest.               *)
EXTENDS ApiOperations

VARIABLES
  req,      \* the request under way
  pc,       \* where it is
  from,     \* the From header the handler sees
  rights,   \* what the caller may do now
  checked,  \* the asserter's payload: some guard marked the request
  answer    \* the status and who gave it

vars == <<req, pc, from, rights, checked, answer>>

Users == {"human", "service"}
Credentials == Users \cup {"none", "unknown", "super"}
Malformable == {"uuid", "query", "page", "header"}
Foreign == {"AdminRequest", "DeploymentRequest"}
InternalOps == Paths.internal \cup AdminOps
ScimOps == DOMAIN ScimRoutes
Op == StrictOps \cup ScimOps \cup Discovery \cup Foreign

NoRequest == [op |-> "", via |-> "", cred |-> "none", bad |-> "none",
              body |-> "json", own |-> FALSE, token |-> FALSE, noEmail |-> FALSE]
NoAnswer == [status |-> 0, by |-> ""]
NoRights == [level |-> 0, holder |-> FALSE, active |-> FALSE, workload |-> FALSE]

(***************************************************************************)
(* Guards: what the head of each handler asks of its caller.               *)
(***************************************************************************)
Org(permission) == [guard |-> "org", permission |-> permission]
OrgHuman(permission) == [guard |-> "orgHuman", permission |-> permission]
Guard(name) == [guard |-> name, permission |-> ""]

\* Handlers that look at no caller.
UnguardedGuards ==
  [op \in {"RegisterUser", "LoginSession", "LogoutSession", "InternalAuthenticate",
           "InternalAuthorize", "InternalRemoveAccessFromOrg", "InternalSyncOrgScopes",
           "InternalCreateOrgMembership", "InternalGetSsoConfiguration",
           "InternalUpdateSsoConfiguration", "InternalListPluginWorkloadBindings",
           "InternalIsOrganizationAdmin"} |-> Guard("none")]

AuthGuards == [CheckPermissions |-> Guard("anyCaller")]

SsoGuardsUnmarkedBug ==    \* mutant: one public handler never marks the request
  [RequestSsoLogin |-> Guard("none"), GetSsoCallback |-> Guard("public")]

SsoGuards ==
  [RequestSsoLogin |-> Guard("public"), GetSsoCallback |-> Guard("public")]

ExchangeGuards == [ExchangePluginWorkloadToken |-> Guard("public")]

DeviceLoginGuards ==
  [RequestDeviceLogin |-> Guard("public"),
   PollDeviceLoginRequest |-> Guard("public"),
   GetDeviceLoginRequest |-> Guard("anyCaller"),
   AcceptDeviceLoginRequest |-> Guard("human"),
   RejectDeviceLoginRequest |-> Guard("human")]

InvitationGuards ==
  [ListInvitations |-> Org("invitation_read"),
   CreateInvitation |-> OrgHuman("invitation_write"),
   RevokeInvitation |-> Org("invitation_write"),
   GetInvitation |-> [guard |-> "token", permission |-> "invitation_write"],
   RedeemInvitation |-> Guard("human")]

MembershipGuardsReadBug ==  \* mutant: deleting a membership asks for the read permission
  [ListOrgMemberships |-> Org("membership_read"),
   ListUserMemberships |-> Guard("self"),
   DeleteOrgMembership |-> Org("membership_read")]

MembershipGuards ==
  [ListOrgMemberships |-> Org("membership_read"),
   ListUserMemberships |-> Guard("self"),
   DeleteOrgMembership |-> Org("membership_write")]

ReplaceGuards == [ReplaceOrgUserMemberships |-> Org("membership_write")]

MemberGuards == [ListMembers |-> Org("membership_read")]

RoleGuards ==
  [GetRole |-> Org("role_read"), ListRoles |-> Org("role_read"),
   CreateRole |-> Org("role_write"), UpdateRole |-> Org("role_write"),
   DeleteRole |-> Org("role_write")]

PermissionGuards == [ListPermissions |-> Org("role_read")]

CapabilityGuards == [ReplacePluginCapabilities |-> Org("plugin_registration_write")]

ScopedUserGuards ==
  [ListProjectUsers |-> [guard |-> "scoped", permission |-> "membership_read"],
   ListEnvironmentUsers |-> [guard |-> "scoped", permission |-> "membership_read"]]

GroupMappingGuards ==
  [ListScimGroupMappings |-> Org("membership_read"),
   UpsertScimGroupMapping |-> Org("membership_write"),
   DeleteScimGroupMapping |-> Org("membership_write")]

ServiceUserGuards ==
  [ListServiceUsers |-> Org("service_user_read"),
   CreateServiceUser |-> OrgHuman("service_user_write"),
   RegenerateServiceUser |-> Org("service_user_write"),
   DeleteServiceUser |-> Org("service_user_write"),
   ReplaceServiceUserRoles |-> Org("service_user_write")]

PrincipalGuards ==
  [ListPlatformPrincipals |-> Guard("platform"),
   GetPlatformPrincipal |-> Guard("platform"),
   CreatePlatformPrincipal |-> Guard("platformHuman"),
   RegeneratePlatformPrincipal |-> Guard("platformHuman"),
   DeletePlatformPrincipal |-> Guard("platform")]

BindingGuards ==
  [CreatePluginWorkloadBinding |-> Guard("platform"),
   ListPluginWorkloadBindings |-> Guard("platform"),
   GetPluginWorkloadBinding |-> Guard("platform"),
   DeletePluginWorkloadBinding |-> Guard("platform")]

SessionTokenGuards ==
  [ListUserSessionTokens |-> Guard("self"), RevokeUserSessionToken |-> Guard("self")]

CurrentUserGuards == [GetCurrentUser |-> Guard("selfHuman")]

UserActionGuards == [DismissPrompt |-> Guard("selfHuman")]

ScimGuards == [op \in ScimOps |-> Org(ScimRoutes[op])]

DiscoveryGuards == [op \in Discovery |-> Guard("none")]

Guards ==
  UnguardedGuards @@ AuthGuards @@ SsoGuards @@ ExchangeGuards
  @@ DeviceLoginGuards @@ InvitationGuards @@ MembershipGuards @@ ReplaceGuards
  @@ MemberGuards @@ RoleGuards @@ PermissionGuards @@ CapabilityGuards
  @@ ScopedUserGuards @@ GroupMappingGuards @@ ServiceUserGuards
  @@ PrincipalGuards @@ BindingGuards @@ SessionTokenGuards
  @@ CurrentUserGuards @@ UserActionGuards @@ ScimGuards @@ DiscoveryGuards

ReadPermissions == {"invitation_read", "membership_read", "role_read",
                    "service_user_read", "provisioning_read"}

\* Level 1 is a role with every read permission, level 2 one with all of them.
Holds(permission) ==
  rights.level >= IF permission \in ReadPermissions THEN 1 ELSE 2

(***************************************************************************)
(* Answers.  An error ends the request at once; a response of the handler  *)
(* still passes the asserter, which the admin and SCIM routes do without.   *)
(***************************************************************************)
Raise(status, by) ==
  /\ pc' = "answered"
  /\ answer' = [status |-> status, by |-> by]

Respond(status) ==
  /\ pc' = IF req.op \in StrictOps \ AdminOps THEN "assert" ELSE "answered"
  /\ answer' = [status |-> status, by |-> "handler"]

(***************************************************************************)
(* Arrival: through the gateway with some credential, or from a service in *)
(* the cluster that states the caller itself.                              *)
(***************************************************************************)
\* workload: the caller is a service user bound to a plugin workload.
AnyRights == [level : 0..2, holder : BOOLEAN, active : BOOLEAN, workload : BOOLEAN]

\* Only the inputs an operation can tell apart vary.
Malformed(op) == IF op \in StrictOps THEN Malformable \cup {"none"} ELSE {"none"}
Sent(op) == IF op \in StrictOps /\ op \notin Reads THEN {"json", "absent", "malformed"}
            ELSE {"json"}
Either(matters) == IF matters THEN BOOLEAN ELSE {FALSE}

\* How the callers' tokens are used: internal operations are not routed by
\* the gateway, and a service in the cluster names a user, itself or nobody.
Arrive(op, cred, bad, body, own, token, noEmail) ==
  /\ pc = "idle"
  /\ \/ /\ op \notin InternalOps
        /\ pc' = "gateway"
        /\ from' = "absent"
     \/ /\ op \notin Foreign
        /\ cred \in Users \cup {"none", "super"}
        /\ pc' = "route"
        /\ from' = CASE cred = "none" -> "absent" [] cred = "super" -> "system"
                     [] OTHER -> cred
  /\ req' = [op |-> op, via |-> IF pc' = "gateway" THEN "gateway" ELSE "cluster",
             cred |-> cred, bad |-> bad, body |-> body, own |-> own, token |-> token,
             noEmail |-> noEmail]
  /\ rights' \in IF cred \in Users THEN AnyRights ELSE {NoRights}
  /\ rights'.workload => cred = "service"
  /\ checked' = FALSE
  /\ answer' = NoAnswer

(***************************************************************************)
(* The gateway asks /internal/authenticate/* about the path and forwards   *)
(* the request with the From header of the reply.                          *)
(***************************************************************************)
skipAuthenticationWideBug ==       \* mutant: every path below /devicelogins
  {"RegisterUser", "LoginSession", "RequestDeviceLogin", "RequestSsoLogin",
   "GetSsoCallback", "PollDeviceLoginRequest", "GetDeviceLoginRequest",
   "DeploymentRequest", "ExchangePluginWorkloadToken"} \cup Discovery

skipAuthentication ==
  {"RegisterUser", "LoginSession", "RequestDeviceLogin", "RequestSsoLogin",
   "GetSsoCallback", "PollDeviceLoginRequest", "DeploymentRequest",
   "ExchangePluginWorkloadToken"} \cup Discovery

\* The request leaves the gateway for its service with this caller.
Forward(caller) ==
  /\ from' = caller
  /\ IF req.op \in Foreign
     THEN Raise(200, "gateway")
     ELSE pc' = "route" /\ UNCHANGED answer

SkipAuthentication ==
  /\ pc = "gateway"
  /\ req.op \in skipAuthentication
  /\ Forward("nil")
  /\ UNCHANGED <<req, rights, checked>>

authenticateSuperUser ==
  /\ pc = "gateway"
  /\ req.op = "AdminRequest"
  /\ IF req.cred = "super"
     THEN Forward("system")
     ELSE Raise(401, "gateway") /\ UNCHANGED from
  /\ UNCHANGED <<req, rights, checked>>

\* A deactivated caller's token is gone from the database but may still be
\* cached.
InternalAuthenticate ==
  /\ pc = "gateway"
  /\ req.op \notin skipAuthentication \cup {"AdminRequest"}
  /\ \/ req.cred \in Users /\ Forward(req.cred)
     \/ /\ req.cred \in Users => ~rights.active
        /\ Raise(401, "gateway")
        /\ UNCHANGED from
  /\ UNCHANGED <<req, rights, checked>>

(***************************************************************************)
(* The generated server: parameters, then body, then the middlewares.      *)
(***************************************************************************)
BindParameters ==
  /\ pc = "route"
  /\ req.op \in StrictOps
  /\ IF req.bad \in Parameters[req.op].params
     THEN Raise(400, "wrapper")
     ELSE pc' = "body" /\ UNCHANGED answer
  /\ UNCHANGED <<req, from, rights, checked>>

BindBody ==
  /\ pc = "body"
  /\ IF \/ Bodies[req.op] = "required" /\ req.body # "json"
        \/ Bodies[req.op] = "optional" /\ req.body = "malformed"
     THEN Raise(400, "wrapper")
     ELSE pc' = "middleware" /\ UNCHANGED answer
  /\ UNCHANGED <<req, from, rights, checked>>

AuthMiddleware ==
  /\ pc = "middleware"
  /\ IF Parameters[req.op].scoped /\ from = "absent"
     THEN Raise(401, "middleware")
     ELSE pc' = "guard" /\ UNCHANGED answer
  /\ UNCHANGED <<req, from, rights, checked>>

\* The SCIM routes have a middleware of their own, discovery has none.
scimAuthMiddleware ==
  /\ pc = "route"
  /\ req.op \in ScimOps \cup Discovery
  /\ IF req.op \in ScimOps /\ from = "absent"
     THEN Raise(401, "middleware")
     ELSE pc' = "guard" /\ UNCHANGED answer
  /\ UNCHANGED <<req, from, rights, checked>>

(***************************************************************************)
(* The guards.  Mark is SetAuthAsserterChecked followed by the handler.    *)
(***************************************************************************)
AtGuard(kinds) == pc = "guard" /\ Guards[req.op].guard \in kinds

Mark ==
  /\ checked' = TRUE
  /\ pc' = "work"
  /\ UNCHANGED answer

Refuse(status) == Raise(status, "guard") /\ UNCHANGED checked

Named == from # "absent"    \* the From header parses as a UUID

NoGuard ==
  /\ AtGuard({"none"})
  /\ pc' = "work"
  /\ UNCHANGED <<req, from, rights, checked, answer>>

SetAuthAsserterChecked ==
  /\ AtGuard({"public", "anyCaller"})
  /\ IF Guards[req.op].guard = "public" \/ Named THEN Mark ELSE Refuse(401)
  /\ UNCHANGED <<req, from, rights>>

\* Accepting or rejecting a device login raises an error for callers that are
\* not human; RedeemInvitation responds, and has not marked the request yet.
HumanOnly ==
  /\ AtGuard({"human"})
  /\ \/ from = "human" /\ Mark
     \/ ~Named /\ Refuse(401)
     \/ /\ Named /\ from # "human"
        /\ IF req.op = "RedeemInvitation"
           THEN Respond(400) /\ UNCHANGED checked
           ELSE Refuse(400)
  /\ UNCHANGED <<req, from, rights>>

checkUserIdSelfAuthorization ==
  /\ AtGuard({"self", "selfHuman"})
  /\ IF \/ from = "system" /\ Guards[req.op].guard = "self"
        \/ from = "human" /\ (req.own \/ req.op = "GetCurrentUser")
     THEN Mark
     ELSE Refuse(IF Named THEN 403 ELSE 401)
  /\ UNCHANGED <<req, from, rights>>

InternalAuthorizeInnerStaleBug ==  \* mutant: the subject's liveness is not looked up
  Holds(Guards[req.op].permission)

InternalAuthorizeInner == rights.active /\ Holds(Guards[req.op].permission)

\* CreateInvitation answers before its guard when there is no e-mail provider.
\* The subject's liveness or its decision may fail to be looked up: a server
\* error, which the SCIM routes report as a refusal.
checkOrgAuthorization ==
  LET asked == from # "system" /\ ~(Guards[req.op].guard = "token" /\ req.token)
  IN  /\ AtGuard({"org", "orgHuman", "token"})
      /\ \/ req.noEmail /\ Respond(400) /\ UNCHANGED checked
         \/ ~req.noEmail /\ ~Named /\ Refuse(401)
         \/ /\ ~req.noEmail /\ Named /\ asked
            /\ \/ ~InternalAuthorizeInner /\ Refuse(403)
               \/ Refuse(IF req.op \in ScimOps THEN 403 ELSE 500)
         \/ /\ ~req.noEmail /\ Named /\ (asked => InternalAuthorizeInner)
            /\ IF Guards[req.op].guard = "orgHuman" /\ from = "service"
               THEN Respond(400) /\ checked' = TRUE
               ELSE Mark
      /\ UNCHANGED <<req, from, rights>>

\* ListProjectUsers and ListEnvironmentUsers mark first, check the cursor, look
\* the resource up in the control plane and ask the policy themselves, without
\* the liveness of the subject.
AuthorizeScoped ==
  /\ AtGuard({"scoped"})
  /\ \/ ~Named /\ Refuse(401)
     \/ Named /\ Holds(Guards[req.op].permission) /\ Mark
     \/ /\ Named
        /\ checked' = TRUE
        /\ \/ ~Holds(Guards[req.op].permission) /\ Respond(403)
           \/ Respond(404)
           \/ \E status \in {400, 500} : Raise(status, "handler")
  /\ UNCHANGED <<req, from, rights>>

isPluginWorkload == from = "service" /\ rights.workload

holdsPlatformPermission == rights.holder /\ rights.active /\ ~isPluginWorkload

checkPlatformPermission ==
  /\ AtGuard({"platform", "platformHuman"})
  /\ \/ ~Named /\ Refuse(401)
     \/ /\ Named /\ from # "system"
        /\ \/ ~holdsPlatformPermission /\ Refuse(403)
           \/ rights.holder /\ Refuse(500)       \* a lookup failed
     \/ /\ from = "system" \/ (Named /\ holdsPlatformPermission)
        /\ IF Guards[req.op].guard = "platformHuman" /\ from = "service"
           THEN Respond(403) /\ checked' = TRUE
           ELSE Mark
  /\ UNCHANGED <<req, from, rights>>

(***************************************************************************)
(* The handler's work, and the assertion on its way out.                   *)
(***************************************************************************)
\* Handlers dereference the body without a nil check, except
\* RequestDeviceLogin, which does not read it; the panic precedes every write.
NilBody == req.op \in StrictOps /\ req.op # "RequestDeviceLogin"
           /\ Bodies[req.op] = "optional" /\ req.body = "absent"

Work ==
  /\ pc = "work"
  /\ \/ Raise(500, "handler")
     \/ ~NilBody /\ \E status \in {200, 400} : Respond(status)
  /\ UNCHANGED <<req, from, rights, checked>>

\* The operations the asserter lets through, by name: of the operations it
\* sees, those below /internal are the ones called Internal.*.
skipOperationPattern ==
  Paths.internal \cup {"RegisterUser", "LoginSession", "LogoutSession"}

AuthAsserter ==
  /\ pc = "assert"
  /\ IF req.op \in skipOperationPattern \/ checked
     THEN pc' = "answered" /\ UNCHANGED answer
     ELSE Raise(500, "asserter")
  /\ UNCHANGED <<req, from, rights, checked>>

Finish ==
  /\ pc = "answered"
  /\ pc' = "idle"
  /\ req' = NoRequest
  /\ from' = "absent"
  /\ rights' = NoRights
  /\ checked' = FALSE
  /\ answer' = NoAnswer

(***************************************************************************)
(* Elsewhere: the caller loses permissions, is deactivated or is bound to  *)
(* a plugin workload meanwhile.                                            *)
(***************************************************************************)
LoseRights ==
  /\ pc \notin {"idle", "answered"}
  /\ rights.level > 0 \/ rights.holder
  /\ \E level \in 0..rights.level : rights' = [rights EXCEPT !.level = level, !.holder = FALSE]
  /\ UNCHANGED <<req, pc, from, checked, answer>>

Deactivate ==
  /\ pc \notin {"idle", "answered"}
  /\ rights.active
  /\ rights' = [rights EXCEPT !.active = FALSE]
  /\ UNCHANGED <<req, pc, from, checked, answer>>

BindWorkload ==
  /\ pc \notin {"idle", "answered"}
  /\ req.cred = "service"
  /\ ~rights.workload
  /\ rights' = [rights EXCEPT !.workload = TRUE]
  /\ UNCHANGED <<req, pc, from, checked, answer>>

Init ==
  /\ req = NoRequest
  /\ pc = "idle"
  /\ from = "absent"
  /\ rights = NoRights
  /\ checked = FALSE
  /\ answer = NoAnswer

Next ==
  \/ /\ pc = "idle"
     /\ \E op \in Op, cred \in Credentials :
          \E bad \in Malformed(op), body \in Sent(op),
             own \in Either(op \in Paths.users), token \in Either(op = "GetInvitation"),
             noEmail \in Either(op = "CreateInvitation") :
               Arrive(op, cred, bad, body, own, token, noEmail)
  \/ SkipAuthentication \/ authenticateSuperUser \/ InternalAuthenticate
  \/ BindParameters \/ BindBody \/ AuthMiddleware \/ scimAuthMiddleware
  \/ NoGuard \/ SetAuthAsserterChecked \/ HumanOnly
  \/ checkUserIdSelfAuthorization \/ checkOrgAuthorization \/ AuthorizeScoped
  \/ checkPlatformPermission
  \/ Work \/ AuthAsserter \/ Finish
  \/ LoseRights \/ Deactivate \/ BindWorkload

Spec == Init /\ [][Next]_vars

(***************************************************************************)
(* Properties.                                                             *)
(***************************************************************************)
\* The variables keep their types.
TypeOK ==
  /\ req = NoRequest \/
       req \in [op : Op, via : {"gateway", "cluster"}, cred : Credentials,
                bad : Malformable \cup {"none"}, body : {"json", "absent", "malformed"},
                own : BOOLEAN, token : BOOLEAN, noEmail : BOOLEAN]
  /\ pc \in {"idle", "gateway", "route", "body", "middleware", "guard", "work",
             "assert", "answered"}
  /\ from \in Users \cup {"absent", "nil", "system"}
  /\ rights \in AnyRights
  /\ checked \in BOOLEAN
  /\ answer \in [status : {0, 200, 400, 401, 403, 404, 500},
                 by : {"", "gateway", "wrapper", "middleware", "guard", "handler",
                       "asserter"}]

Starts == pc = "guard" /\ pc' = "work"
Changes == req.op \notin Reads \cup ScimReads

\* A handler starts working only for a caller its path entitles: below an
\* organization a reader for GET and a writer for anything else (or the holder
\* of an invitation's token), below /users the user, on the platform's
\* resources a configured, live holder that is no plugin workload, even where
\* one was configured by mistake.  The routes, the wrappers' scopes, the
\* gateway's exceptions and the handlers' checks are written in four places.
EntitledOnly ==
  [][ Starts =>
      /\ req.op \in Paths.orgs \cup ScimOps =>
           \/ from = "system"
           \/ from \in Users /\ rights.level >= IF Changes THEN 2 ELSE 1
           \/ req.op = "GetInvitation" /\ req.token /\ from \in Users
           \/ req.op = "RedeemInvitation" /\ from = "human"
      /\ req.op \in Paths.users =>
           \/ from = "system"
           \/ from = "human" /\ (req.own \/ req.op = "GetCurrentUser")
      /\ req.op \in Paths.platform =>
           \/ from = "system"
           \/ from \in Users /\ rights.holder /\ rights.active
              /\ ~(from = "service" /\ rights.workload)
      /\ req.op \in Paths.devicelogins \ {"PollDeviceLoginRequest"} =>
           from \in Users \cup {"system"} ]_vars

\* Once deactivated a caller starts no change below an organization or on the
\* platform's resources, although its token may still be cached and the policy
\* may still list its roles (RedeemInvitation asks for no permission).
DeactivatedChangesNothing ==
  [][ Starts /\ Changes /\ from \in Users /\ ~rights.active =>
      req.op \notin (Paths.orgs \cup ScimOps \cup Paths.platform) \ {"RedeemInvitation"}
    ]_vars

\* The caller a handler sees behind the gateway is the one whose credential
\* was presented; the nil UUID of the skipped paths never reaches an operation
\* that asks for a caller, and nobody becomes the system user there.
IdentityIsEarned ==
  req.via = "gateway" /\ pc # "gateway" =>
    /\ from \in Users => from = req.cred
    /\ from = "system" => req.op = "AdminRequest" /\ req.cred = "super"
    /\ from = "nil" => /\ req.op \in StrictOps => ~Parameters[req.op].scoped
                       /\ req.op \notin ScimOps

\* An operation declared without a security scope is reachable without a
\* token: neither the gateway nor a guard answers 401.
LoginIsReachable ==
  answer.status = 401 /\ answer.by # "handler" /\ req.op \in StrictOps =>
    Parameters[req.op].scoped

\* The asserter never fires on finished work: every handler the asserter does
\* not skip has marked the request before it works, so no change is reported as
\* a server error.  It fires on two refusals a handler responds with before it
\* marks the request: CreateInvitation where no e-mail provider is configured,
\* and RedeemInvitation for a caller that is not human.
AuthorizationAsserted ==
  answer.by = "asserter" =>
    \/ req.op = "CreateInvitation" /\ req.noEmail
    \/ req.op = "RedeemInvitation" /\ from # "human"

\* Types, and that the asserter answers for no handler that has worked.
HttpInv == TypeOK /\ AuthorizationAsserted

\* The gateway's list of open paths and the security scopes of the generated
\* server agree: an identity is never assumed, and a login never needs one.
GatewayAgrees == IdentityIsEarned /\ LoginIsReachable
=============================================================================
