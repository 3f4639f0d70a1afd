-------------------------- MODULE RoleDefinitions --------------------------
(***************************************************************************)
(* What the two places roles live in have in common: the role definitions  *)
(* they keep, and the prefix that decides which of the two a role ID       *)
(* belongs to.                                                             *)
(***************************************************************************)
EXTENDS RoleClosure

CONSTANTS BuiltInRole,   \* the role IDs with the prefix "builtin."
          RoleDef,       \* role definitions (name, scope, tags, flags)
          Absent         \* marks an ID with no entry in a map of roles

ASSUME BuiltInRoleAssumption == BuiltInRole \subseteq RoleID
ASSUME AbsentAssumption == Absent \notin RoleDef
=============================================================================
