------------------------- MODULE RoleAdministration -------------------------
(***************************************************************************)
(* service.go: the role calls of Service over the two places roles live    *)
(* in.  A role ID with the prefix "builtin." belongs to the in-memory      *)
(* registry, any other to the permission store (here the default           *)
(* bootstrapStore); Service routes each call by that prefix and joins the  *)
(* two hierarchies when it expands a role.  Grants play no part in the     *)
(* role calls.                                                             *)
(***************************************************************************)
EXTENDS BuiltInRegistry, BootstrapRoles, Naturals, Sequences

CONSTANTS SyntheticRole,  \* the configured synthetic role IDs, in seeding order
          SyntheticDef    \* the definition EnsureSyntheticRoles writes

ASSUME SyntheticAssumption == SyntheticRole \in Seq(RoleID) /\ SyntheticDef \in RoleDef

vars == <<registryVars, storeVars>>

RoleAdministrationTypeOK ==
    BuiltInRegistryTypeOK /\ BootstrapRolesTypeOK

Init == RegistryInit /\ StoreInit

\* CreateRole; AddBuiltInRole and AddBuiltInTeamRole come to the same for a
\* built-in ID.
ServiceCreateRole(role, def) ==
    \/ role \in BuiltInRole /\ RegisterRole(role, def) /\ UNCHANGED storeVars
    \/ role \notin BuiltInRole /\ CreateRole(role, def) /\ UNCHANGED registryVars

ServiceUpdateRole(role, def) ==
    /\ role \notin BuiltInRole
    /\ UpdateRole(role, def)
    /\ UNCHANGED registryVars

ServiceDeleteRole(role) ==
    /\ role \notin BuiltInRole
    /\ DeleteRole(role)
    /\ UNCHANGED registryVars

ServiceAddRoleInheritance(parent, child) ==
    IF {parent, child} \subseteq BuiltInRole
    THEN AddBuiltInInheritance(parent, child) /\ UNCHANGED storeVars
    ELSE AddRoleInheritance(parent, child) /\ UNCHANGED registryVars

\* Mutant of ServiceAssignRole: the prefix alone makes a built-in role assignable.
AssignRoleByPrefix(principal, role, binding) ==
    /\ AssignRole(principal, role, BuiltInRole, binding)
    /\ UNCHANGED registryVars

\* The registered roles are read before the store's lock is taken.  The
\* registry never forgets a role, so an older answer only refuses more.
ServiceAssignRole(principal, role, binding) ==
    /\ AssignRole(principal, role, Registered, binding)
    /\ UNCHANGED registryVars

ServiceUnassignRole(principal, role, binding) ==
    /\ UnassignRole(principal, role, binding)
    /\ UNCHANGED registryVars

\* The synthetic roles seeding gets to: it stops at the first one that is kept
\* in the store and exists there.
Reached ==
    {SyntheticRole[i] : i \in
        {n \in DOMAIN SyntheticRole : \A m \in 1..n : SyntheticRole[m] \notin Defined}}

EnsureSyntheticRoles ==
    LET mine == {<<r, r>> : r \in Reached \cap BuiltInRole}
        theirs == {<<r, r>> : r \in Reached \ BuiltInRole}
    IN  /\ builtInRoles' = [r \in BuiltInRole |->
                              IF r \in Reached THEN SyntheticDef ELSE builtInRoles[r]]
        /\ customRoles' = [r \in RoleID |->
                              IF r \in Reached \ BuiltInRole THEN SyntheticDef
                              ELSE customRoles[r]]
        /\ builtInClosure' = builtInClosure \cup mine
        /\ roleClosure' = roleClosure \cup theirs
        /\ UNCHANGED <<builtInGrants, builtInInheritance, assignments, roleInheritance>>

Next ==
    \/ \E role \in RoleID, def \in RoleDef : ServiceCreateRole(role, def)
    \/ \E role \in RoleID, def \in RoleDef : ServiceUpdateRole(role, def)
    \/ \E role \in RoleID : ServiceDeleteRole(role)
    \/ \E parent, child \in RoleID : ServiceAddRoleInheritance(parent, child)
    \/ \E principal \in Principal, role \in RoleID, binding \in Binding :
         ServiceAssignRole(principal, role, binding)
    \/ \E principal \in Principal, role \in RoleID, binding \in Binding :
         ServiceUnassignRole(principal, role, binding)
    \/ EnsureSyntheticRoles

Spec == Init /\ [][Next]_vars

\* Mutant of ServiceExpandRoles: the registry expands first, then the store.
ExpandRegistryFirst(roots) ==
    ExpandRoles(ExpandBuiltIns(roots \cap BuiltInRole) \cup roots)

\* ExpandRoles before disabled roles are filtered out: the store expands what
\* is its own, then the registry expands the result.
ServiceExpandRoles(roots) ==
    ExpandBuiltIns(ExpandRoles(roots \ BuiltInRole) \cup roots)

-----------------------------------------------------------------------------
Declared == builtInInheritance \cup roleInheritance

\* The declared edges that lead from a built-in role to a role of the store.
Upward == {e \in Declared : e[1] \in BuiltInRole /\ e[2] \notin BuiltInRole}

(* As long as no built-in role is made to inherit a role of the store, the  *)
(* two-stage expansion misses nothing of the joint hierarchy, although      *)
(* neither closure knows the other's edges (roles_architecture.md: custom   *)
(* roles that inherit built-in roles).                                      *)
ExpandsLayeredHierarchy ==
    LET reach == Reach(Declared)
    IN  Upward = {} =>
          \A root \in RoleID : Inherited(reach, root) \subseteq ServiceExpandRoles({root})

(* Through Service, too, nobody holds a role that is neither registered nor *)
(* defined: the prefix decides in every call alike where a role lives.      *)
ServiceAssignmentsResolve ==
    \A a \in assignments :
        a.role \in IF a.role \in BuiltInRole THEN Registered ELSE Defined
=============================================================================
