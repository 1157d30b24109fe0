---------------------------- MODULE ProjectAccess ----------------------------
(***************************************************************************)
(* Who may do what with a project: require_project_permission computes the *)
(* role of a user and looks the permission up.                             *)
(***************************************************************************)
CONSTANT None  \* no role

ProjectPermissions == {"view", "edit", "run_ai", "build_memory", "manage", "delete"}
MemberRoles == {"owner", "editor", "viewer"}
Visibilities == {"private", "public"}

ASSUME NoneAssumption == None \notin MemberRoles \cup {"admin"}

RolePermissions(role) ==
  CASE role \in {"admin", "owner"} -> ProjectPermissions
    [] role = "editor"             -> {"view", "edit", "run_ai", "build_memory"}
    [] role = "viewer"             -> {"view"}
    [] OTHER                       -> {}

\* get_project_role: administrators, the owner, members, then anyone if the
\* project is public.  member is the role of the user's row, or None.
ProjectRole(isAdmin, isOwner, member, visibility) ==
  CASE isAdmin                        -> "admin"
    [] ~isAdmin /\ isOwner            -> "owner"
    [] ~isAdmin /\ ~isOwner /\ member # None -> member
    [] OTHER -> IF visibility = "public" THEN "viewer" ELSE None

\* require_project_permission.
Permits(isAdmin, isOwner, member, visibility, permission) ==
  permission \in RolePermissions(ProjectRole(isAdmin, isOwner, member, visibility))
=============================================================================
