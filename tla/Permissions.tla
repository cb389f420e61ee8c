---------------------------- MODULE Permissions ----------------------------
(***************************************************************************)
(* Who may call which endpoint of an organization: the two tables of       *)
(* rights in the code, and the one in the README.                          *)
(***************************************************************************)

Roles == {"ADMIN", "EDITOR", "VIEWER"}

\* @Roles, on the handlers of the controllers.
RequiredRoles ==
    [readOrg       |-> {},                  manageOrg     |-> {"ADMIN"},
     readMembers   |-> {},                  manageMembers |-> {"ADMIN"},
     readProject   |-> {},                  writeProject  |-> {"ADMIN", "EDITOR"},
     deleteProject |-> {"ADMIN"},           readTask      |-> {},
     writeTask     |-> {"ADMIN", "EDITOR"}, deleteTask    |-> {"ADMIN", "EDITOR"},
     readPayments  |-> {"ADMIN"},           payments      |-> {"ADMIN"}]

\* @RequirePermissions, where PermissionsGuard is in use.
RequiredPermissions ==
    [readOrg       |-> {},                 manageOrg     |-> {},
     readMembers   |-> {},                 manageMembers |-> {},
     readProject   |-> {"project:read"},   writeProject  |-> {"project:create", "project:update"},
     deleteProject |-> {"project:delete"}, readTask      |-> {"task:read"},
     writeTask     |-> {"task:create", "task:update"},
     deleteTask    |-> {"task:delete"},
     readPayments  |-> {},                 payments      |-> {}]

Read == {"org:read", "project:read", "task:read"}

Edit == {"project:create", "project:update", "task:create", "task:update", "task:delete"}

RolePermissions ==
    [ADMIN  |-> Read \cup Edit \cup
                {"org:manage", "member:invite", "member:manage", "project:delete",
                 "payment:read", "payment:manage"},
     EDITOR |-> Read \cup Edit,
     VIEWER |-> Read]

\* A mutant: RolesGuard is not in use.
Passes_NoRolesGuard(e, role) == RequiredPermissions[e] \subseteq RolePermissions[role]

\* PermissionsGuard and RolesGuard let a member with this role through.
Passes(e, role) ==
    /\ RequiredPermissions[e] \subseteq RolePermissions[role]
    /\ RequiredRoles[e] # {} => role \in RequiredRoles[e]

\* The RBAC Permissions Matrix of the README, and its API Reference.
Matrix ==
    [readOrg       |-> Roles,             manageOrg     |-> {"ADMIN"},
     readMembers   |-> Roles,             manageMembers |-> {"ADMIN"},
     readProject   |-> Roles,             writeProject  |-> {"EDITOR", "ADMIN"},
     deleteProject |-> {"ADMIN"},         readTask      |-> Roles,
     writeTask     |-> {"EDITOR", "ADMIN"}, deleteTask  |-> {"EDITOR", "ADMIN"},
     readPayments  |-> {"ADMIN"},         payments      |-> {"ADMIN"}]
=============================================================================
