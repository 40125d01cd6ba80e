----------------------------- MODULE Permissions -----------------------------
(***************************************************************************)
(* What a permission is and which grants satisfy it: the catalogue of      *)
(* shared/authz/permissions.go, the resources a check may name and the     *)
(* permissionMatch function the Casbin matcher calls                       *)
(* (internal/authorization/authorization.go).  Everything here is a        *)
(* constant: the modules that decide or validate EXTEND this one.          *)
(***************************************************************************)
EXTENDS FiniteSets

(* The identifiers of permissionCatalog by level.                          *)
ReadLevel ==
    {"organization_read", "invitation_read", "membership_read", "role_read",
     "service_user_read", "project_read", "environment_read",
     "environment_type_read", "module_read", "module_provider_read",
     "module_rule_read", "module.read", "module.version.read",
     "resource_type_read", "runner_read", "runner_rule_read",
     "active_resource_read", "deployment_read", "metadata_key_read",
     "resource_graph_read", "provisioning_read"}

WriteLevel ==
    {"module.version.publish", "module.version.use-proposed", "module.version.pin",
     "module.version.pin-note", "module.version.unpin", "deployment_write"}

ManageLevel ==
    {"invitation_write", "membership_write", "role_write", "service_user_write",
     "plugin_registration_write", "project_write", "environment_write",
     "environment_type_write", "module_write", "module_provider_write",
     "module_rule_write", "module.archive", "module.version.promote",
     "module.version.deprecate", "module.version.mark-defective",
     "module.version.restore", "module.version.pin-override",
     "module.version.pin-restore", "module.version.pin-defective",
     "module.version.rollback-restricted", "resource_type_write",
     "runner_write", "runner_rule_write", "deployment_debug_read",
     "deployment.outcome.acknowledge", "metadata_key_write", "provisioning_write"}

permissionCatalog == ReadLevel \cup WriteLevel \cup ManageLevel

legacyRolePermissions == {"read", "write", "manage", "read_all", "write_all", "manage_all"}

FindPermission(permission) == permission \in permissionCatalog

IsAssignableRolePermission(permission) ==
    FindPermission(permission) \/ permission \in legacyRolePermissions

(* Anything that is neither legacy nor catalogued: such a permission must  *)
(* be known in the organisation before it is even evaluated.               *)
isCustomPermission(permission) == ~IsAssignableRolePermission(permission)

(* The level a permission belongs to, "none" for an unknown one.           *)
permissionLevel(permission) ==
    CASE permission \in ReadLevel \cup {"read"} -> "read"
      [] permission \in WriteLevel \cup {"write"} -> "write"
      [] permission \in ManageLevel \cup {"manage"} -> "manage"
      [] OTHER -> "none"

legacyModulePermissionMatch(requested, granted) ==
    \/ granted = "module_read" /\ requested \in {"module.read", "module.version.read"}
    \/ /\ granted = "module_write"
       /\ requested \in {"module.version.publish", "module.version.promote", "module.archive"}

(* The levels a wildcard or a bare level sweeps up.                        *)
Sweeps(granted) ==
    CASE granted = "write_all" -> {"read", "write"}
      [] granted \in {"read_all", "read"} -> {"read"}
      [] granted = "write" -> {"write"}
      [] granted = "manage" -> {"manage"}
      [] OTHER -> {}

permissionMatch(asked, granted) ==
    LET requested == IF asked = "member" THEN "read" ELSE asked IN
    \/ requested = granted
    \/ granted = "manage_all"
    \/ legacyModulePermissionMatch(requested, granted)
    \/ /\ requested \notin {"provisioning_read", "provisioning_write"}
       /\ permissionLevel(requested) \in Sweeps(granted)

-----------------------------------------------------------------------------
(* Resources.  One organisation, one project of it and one environment of  *)
(* the project; a check may also name the organisation by its old prefix,  *)
(* the platform, or something that is no resource at all.                  *)
Org     == "organization:o"
Project == "project:p"
Env     == "env:e"

Resources == {Org, Project, Env}
PlatformResource == "platform"
Invalid == "invalid"

ParseResource(resource) ==
    CASE resource = "org:o" -> "organization"
      [] resource = Org -> "organization"
      [] resource = Project -> "project"
      [] resource = Env -> "env"
      [] OTHER -> Invalid

NormalizeResource(resource) ==
    CASE ParseResource(resource) = "organization" -> Org
      [] ParseResource(resource) = "project" -> Project
      [] ParseResource(resource) = "env" -> Env
      [] OTHER -> Invalid

(* What a grant satisfies among the known and one custom permission.       *)
Satisfied(granted, custom) ==
    {p \in permissionCatalog \cup legacyRolePermissions \cup {"member", custom} :
        permissionMatch(p, granted)}

=============================================================================
