---------------------------- MODULE ApiOperations ----------------------------
(* The operations of the HTTP API as the generated server declares them:   *)
(* where each is routed, whether it asks for a caller, which of its        *)
(* parameters can be malformed and whether it has a body.                  *)
EXTENDS Integers, FiniteSets, TLC

(***************************************************************************)
(* Routes: the operations by the first element of their path, and those    *)
(* registered with GET.                                                    *)
(***************************************************************************)
Paths ==
  [ auth |-> {"CheckPermissions", "RequestDeviceLogin", "LoginSession",
              "LogoutSession", "ExchangePluginWorkloadToken",
              "RegisterUser", "GetSsoCallback", "RequestSsoLogin"},
    users |-> {"GetCurrentUser", "DismissPrompt", "ListUserMemberships",
               "ListUserSessionTokens", "RevokeUserSessionToken"},
    devicelogins |-> {"GetDeviceLoginRequest", "AcceptDeviceLoginRequest",
                      "PollDeviceLoginRequest", "RejectDeviceLoginRequest"},
    internal |-> {"InternalAuthenticate", "InternalAuthorize",
                  "InternalRemoveAccessFromOrg", "InternalSyncOrgScopes",
                  "InternalCreateOrgMembership",
                  "InternalGetSsoConfiguration",
                  "InternalUpdateSsoConfiguration",
                  "InternalListPluginWorkloadBindings"},
    orgs |-> {"ListInvitations", "CreateInvitation", "RevokeInvitation",
              "GetInvitation", "RedeemInvitation", "ListMembers",
              "ListOrgMemberships", "DeleteOrgMembership",
              "ListPermissions", "ReplacePluginCapabilities",
              "ListEnvironmentUsers", "ListProjectUsers", "ListRoles",
              "CreateRole", "DeleteRole", "GetRole", "UpdateRole",
              "ListScimGroupMappings", "DeleteScimGroupMapping",
              "UpsertScimGroupMapping", "ListServiceUsers",
              "CreateServiceUser", "DeleteServiceUser",
              "ReplaceServiceUserRoles", "RegenerateServiceUser",
              "ReplaceOrgUserMemberships"},
    platform |-> {"ListPlatformPrincipals", "CreatePlatformPrincipal",
                  "DeletePlatformPrincipal", "GetPlatformPrincipal",
                  "RegeneratePlatformPrincipal",
                  "ListPluginWorkloadBindings",
                  "CreatePluginWorkloadBinding",
                  "DeletePluginWorkloadBinding", "GetPluginWorkloadBinding"} ]

Reads ==
  { "GetSsoCallback", "GetCurrentUser", "GetDeviceLoginRequest",
    "InternalGetSsoConfiguration", "InternalListPluginWorkloadBindings",
    "ListInvitations", "GetInvitation", "ListMembers", "ListOrgMemberships",
    "ListPermissions", "ListEnvironmentUsers", "ListProjectUsers",
    "ListRoles", "GetRole", "ListScimGroupMappings", "ListServiceUsers",
    "ListPlatformPrincipals", "GetPlatformPrincipal",
    "ListPluginWorkloadBindings", "GetPluginWorkloadBinding",
    "ListUserMemberships", "ListUserSessionTokens" }

(***************************************************************************)
(* Wrappers: an operation is scoped when its wrapper stores the security   *)
(* scopes of the userIdHeader scheme, and a parameter can be malformed as  *)
(* a UUID in the path, a required query value, a page size or cursor, or a *)
(* header given more than once.                                            *)
(***************************************************************************)
Scoped(kinds) == [scoped |-> TRUE, params |-> kinds]

Unscoped(kinds) == [scoped |-> FALSE, params |-> kinds]

SessionParameters ==
  [ CheckPermissions |-> Scoped({}),
    RequestDeviceLogin |-> Unscoped({"header"}),
    LoginSession |-> Unscoped({"header"}) ]

ExchangeParameters ==
  [ LogoutSession |-> Scoped({"header"}),
    ExchangePluginWorkloadToken |-> Unscoped({}),
    RegisterUser |-> Unscoped({"header"}) ]

SsoParameters ==
  [ GetSsoCallback |-> Unscoped({"header"}),
    RequestSsoLogin |-> Unscoped({}), GetCurrentUser |-> Scoped({}) ]

DeviceLoginParameters ==
  [ GetDeviceLoginRequest |-> Scoped({}),
    AcceptDeviceLoginRequest |-> Scoped({"uuid"}),
    PollDeviceLoginRequest |-> Unscoped({"uuid", "query"}),
    RejectDeviceLoginRequest |-> Scoped({"uuid"}) ]

InternalParameters ==
  [ InternalAuthenticate |-> Unscoped({"header"}),
    InternalAuthorize |-> Unscoped({}),
    InternalRemoveAccessFromOrg |-> Unscoped({}),
    InternalSyncOrgScopes |-> Unscoped({}) ]

InternalOrgParameters ==
  [ InternalCreateOrgMembership |-> Unscoped({}),
    InternalGetSsoConfiguration |-> Unscoped({}),
    InternalUpdateSsoConfiguration |-> Unscoped({}),
    InternalListPluginWorkloadBindings |-> Unscoped({"query"}) ]

InvitationParameters ==
  [ ListInvitations |-> Scoped({"page"}), CreateInvitation |-> Scoped({}),
    RevokeInvitation |-> Scoped({"uuid"}),
    GetInvitation |-> Scoped({"uuid"}),
    RedeemInvitation |-> Scoped({"uuid", "query"}) ]

MembershipParameters ==
  [ ListMembers |-> Scoped({"page"}),
    ListOrgMemberships |-> Scoped({"page"}),
    DeleteOrgMembership |-> Scoped({"uuid"}),
    ListPermissions |-> Scoped({}), ReplacePluginCapabilities |-> Scoped({}) ]

ScopedUserParameters ==
  [ ListEnvironmentUsers |-> Scoped({"page"}),
    ListProjectUsers |-> Scoped({"page"}) ]

RoleParameters ==
  [ ListRoles |-> Scoped({"page"}), CreateRole |-> Scoped({}),
    DeleteRole |-> Scoped({"uuid"}), GetRole |-> Scoped({"uuid"}),
    UpdateRole |-> Scoped({"uuid"}) ]

GroupMappingParameters ==
  [ ListScimGroupMappings |-> Scoped({}),
    DeleteScimGroupMapping |-> Scoped({}),
    UpsertScimGroupMapping |-> Scoped({}) ]

ServiceUserParameters ==
  [ ListServiceUsers |-> Scoped({"page"}), CreateServiceUser |-> Scoped({}),
    DeleteServiceUser |-> Scoped({"uuid"}),
    ReplaceServiceUserRoles |-> Scoped({"uuid"}) ]

UserRolesParameters ==
  [ RegenerateServiceUser |-> Scoped({"uuid"}),
    ReplaceOrgUserMemberships |-> Scoped({"uuid"}) ]

PrincipalParameters ==
  [ ListPlatformPrincipals |-> Scoped({}),
    CreatePlatformPrincipal |-> Scoped({}),
    DeletePlatformPrincipal |-> Scoped({"uuid"}),
    GetPlatformPrincipal |-> Scoped({"uuid"}),
    RegeneratePlatformPrincipal |-> Scoped({"uuid"}) ]

BindingParameters ==
  [ ListPluginWorkloadBindings |-> Scoped({}),
    CreatePluginWorkloadBinding |-> Scoped({}),
    DeletePluginWorkloadBinding |-> Scoped({"uuid"}),
    GetPluginWorkloadBinding |-> Scoped({"uuid"}) ]

UserParameters ==
  [ DismissPrompt |-> Scoped({"uuid", "query"}),
    ListUserMemberships |-> Scoped({"uuid", "page"}),
    ListUserSessionTokens |-> Scoped({"uuid", "page"}),
    RevokeUserSessionToken |-> Scoped({"uuid"}) ]

AdminParameters ==
  [ InternalIsOrganizationAdmin |-> Unscoped({"uuid"}) ]

Parameters ==
  SessionParameters @@ ExchangeParameters @@ SsoParameters @@
  DeviceLoginParameters @@ InternalParameters @@ InternalOrgParameters @@
  InvitationParameters @@ MembershipParameters @@ ScopedUserParameters @@
  RoleParameters @@ GroupMappingParameters @@ ServiceUserParameters @@
  UserRolesParameters @@ PrincipalParameters @@ BindingParameters @@
  UserParameters @@ AdminParameters

(***************************************************************************)
(* Strict handlers: no body, a body that must be there, or one whose       *)
(* absence (io.EOF) leaves a nil pointer in the request object.            *)
(***************************************************************************)
SessionBodies ==
  [ CheckPermissions |-> "required", RequestDeviceLogin |-> "optional",
    LoginSession |-> "optional" ]

ExchangeBodies ==
  [ LogoutSession |-> "none", ExchangePluginWorkloadToken |-> "required",
    RegisterUser |-> "optional" ]

SsoBodies ==
  [ GetSsoCallback |-> "none", RequestSsoLogin |-> "optional",
    GetCurrentUser |-> "none" ]

DeviceLoginBodies ==
  [ GetDeviceLoginRequest |-> "none", AcceptDeviceLoginRequest |-> "none",
    PollDeviceLoginRequest |-> "none", RejectDeviceLoginRequest |-> "none" ]

InternalBodies ==
  [ InternalAuthenticate |-> "none", InternalAuthorize |-> "optional",
    InternalRemoveAccessFromOrg |-> "none", InternalSyncOrgScopes |-> "none" ]

InternalOrgBodies ==
  [ InternalCreateOrgMembership |-> "optional",
    InternalGetSsoConfiguration |-> "none",
    InternalUpdateSsoConfiguration |-> "optional",
    InternalListPluginWorkloadBindings |-> "none" ]

InvitationBodies ==
  [ ListInvitations |-> "none", CreateInvitation |-> "optional",
    RevokeInvitation |-> "none", GetInvitation |-> "none",
    RedeemInvitation |-> "none" ]

MembershipBodies ==
  [ ListMembers |-> "none", ListOrgMemberships |-> "none",
    DeleteOrgMembership |-> "none", ListPermissions |-> "none",
    ReplacePluginCapabilities |-> "required" ]

ScopedUserBodies ==
  [ ListEnvironmentUsers |-> "none", ListProjectUsers |-> "none" ]

RoleBodies ==
  [ ListRoles |-> "none", CreateRole |-> "required", DeleteRole |-> "none",
    GetRole |-> "none", UpdateRole |-> "required" ]

GroupMappingBodies ==
  [ ListScimGroupMappings |-> "none", DeleteScimGroupMapping |-> "none",
    UpsertScimGroupMapping |-> "required" ]

ServiceUserBodies ==
  [ ListServiceUsers |-> "none", CreateServiceUser |-> "optional",
    DeleteServiceUser |-> "none", ReplaceServiceUserRoles |-> "optional" ]

UserRolesBodies ==
  [ RegenerateServiceUser |-> "optional",
    ReplaceOrgUserMemberships |-> "optional" ]

PrincipalBodies ==
  [ ListPlatformPrincipals |-> "none",
    CreatePlatformPrincipal |-> "required",
    DeletePlatformPrincipal |-> "none", GetPlatformPrincipal |-> "none",
    RegeneratePlatformPrincipal |-> "required" ]

BindingBodies ==
  [ ListPluginWorkloadBindings |-> "none",
    CreatePluginWorkloadBinding |-> "required",
    DeletePluginWorkloadBinding |-> "none",
    GetPluginWorkloadBinding |-> "none" ]

UserBodies ==
  [ DismissPrompt |-> "none", ListUserMemberships |-> "none",
    ListUserSessionTokens |-> "none", RevokeUserSessionToken |-> "none" ]

AdminBodies ==
  [ InternalIsOrganizationAdmin |-> "none" ]

Bodies ==
  SessionBodies @@ ExchangeBodies @@ SsoBodies @@ DeviceLoginBodies @@
  InternalBodies @@ InternalOrgBodies @@ InvitationBodies @@
  MembershipBodies @@ ScopedUserBodies @@ RoleBodies @@ GroupMappingBodies
  @@ ServiceUserBodies @@ UserRolesBodies @@ PrincipalBodies @@
  BindingBodies @@ UserBodies @@ AdminBodies

(***************************************************************************)
(* The SCIM routes, registered by hand: the permission each one asks for.  *)
(***************************************************************************)
ScimRoutes ==
  [ handleScimListUsers |-> "provisioning_read",
    handleScimCreateUser |-> "provisioning_write",
    handleScimGetUser |-> "provisioning_read",
    handleScimReplaceUser |-> "provisioning_write",
    handleScimPatchUser |-> "provisioning_write",
    handleScimDeleteUser |-> "provisioning_write",
    handleScimListGroups |-> "provisioning_read",
    handleScimCreateGroup |-> "provisioning_write",
    handleScimGetGroup |-> "provisioning_read",
    handleScimReplaceGroup |-> "provisioning_write",
    handleScimPatchGroup |-> "provisioning_write",
    handleScimDeleteGroup |-> "provisioning_write" ]

ScimReads ==
  { "handleScimListUsers", "handleScimGetUser", "handleScimListGroups",
    "handleScimGetGroup" }

Discovery ==
  { "handleScimServiceProviderConfig", "handleScimSchemas", "handleScimSchema",
    "handleScimResourceTypes", "handleScimResourceType" }

StrictOps == DOMAIN Parameters

\* Served by the admin API's strict handler, which has no middlewares.
AdminOps == DOMAIN AdminParameters

=============================================================================
