------------------------------ MODULE UserRules ------------------------------
(***************************************************************************)
(* Roles, statuses and the rules for changing a role, as the value objects *)
(* UserRole and UserStatus and the entity User state them.                 *)
(***************************************************************************)

UserRoleType == {"free", "paid", "enterprise", "admin"}
UserStatusType == {"active", "inactive", "suspended", "pending_verification"}

\* UserRole.canManageUsers
RoleCanManageUsers(r) == r \in {"admin", "enterprise"}

\* Slip of RoleCanChangeRoleTo: enterprise is let do what admin may not.
RoleCanChangeRoleToAny(r, target) ==
  r = "enterprise" \/ (r = "admin" /\ target # "admin")

\* UserRole.canChangeRoleTo
RoleCanChangeRoleTo(r, target) ==
  r \in {"admin", "enterprise"} /\ target # "admin"

\* canChangeRoleTo throws for a performer who manages nobody and is false
\* for a role that cannot be assigned; either way nothing changes.
CanChangeRoleTo(new, performedByRole) ==
  /\ RoleCanManageUsers(performedByRole)
  /\ RoleCanChangeRoleTo(performedByRole, new)
==============================================================================
