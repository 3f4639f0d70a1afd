-------------------------- MODULE BuiltInRegistry --------------------------
(***************************************************************************)
(* builtin_registry.go: the in-memory registry of built-in roles.  Every   *)
(* operation runs under one RWMutex from its first read of the maps to its *)
(* last write, so each is one action.  A call that returns an error, and   *)
(* one that finds its work already done, changes nothing: its action is    *)
(* not enabled.                                                            *)
(***************************************************************************)
EXTENDS RoleDefinitions

CONSTANT Grant   \* grants, equal exactly when grantsEquivalent

ASSUME GrantAssumption == \A g \in Grant : g.owner \in RoleID

VARIABLES builtInRoles, builtInGrants, builtInInheritance, builtInClosure

registryVars == <<builtInRoles, builtInGrants, builtInInheritance, builtInClosure>>

BuiltInRegistryTypeOK ==
    /\ builtInRoles \in [BuiltInRole -> RoleDef \cup {Absent}]
    /\ builtInGrants \subseteq {g \in Grant : g.owner \in BuiltInRole}
    /\ builtInInheritance \subseteq BuiltInRole \X BuiltInRole
    /\ builtInClosure \subseteq BuiltInRole \X BuiltInRole

RegistryInit ==
    /\ builtInRoles = [r \in BuiltInRole |-> Absent]
    /\ builtInGrants = {}
    /\ builtInInheritance = {}
    /\ builtInClosure = {}

\* Mutant of RegisterRole: the prefix of the ID is not checked.
RegisterAnyRole(role, def) ==
    /\ builtInRoles' = [builtInRoles EXCEPT ![role] = def]
    /\ builtInClosure' = builtInClosure \cup {<<role, role>>}
    /\ UNCHANGED <<builtInGrants, builtInInheritance>>

\* Registering again replaces the definition and leaves the hierarchy alone.
RegisterRole(role, def) ==
    /\ role \in BuiltInRole
    /\ builtInRoles' = [builtInRoles EXCEPT ![role] = def]
    /\ builtInClosure' = builtInClosure \cup {<<role, role>>}
    /\ UNCHANGED <<builtInGrants, builtInInheritance>>

\* Mutant of AddBuiltInInheritance: a role may inherit itself.
AddAnyInheritance(parent, child) ==
    /\ {parent, child} \subseteq BuiltInRole
    /\ <<parent, child>> \notin builtInInheritance
    /\ builtInInheritance' = builtInInheritance \cup {<<parent, child>>}
    /\ builtInClosure' = Link(builtInClosure, parent, child)
    /\ UNCHANGED <<builtInRoles, builtInGrants>>

\* AddRoleInheritance; neither role has to be registered.
AddBuiltInInheritance(parent, child) ==
    /\ {parent, child} \subseteq BuiltInRole
    /\ parent # child
    /\ <<parent, child>> \notin builtInInheritance
    /\ builtInInheritance' = builtInInheritance \cup {<<parent, child>>}
    /\ builtInClosure' = Link(builtInClosure, parent, child)
    /\ UNCHANGED <<builtInRoles, builtInGrants>>

AddGrant(grant) ==
    /\ grant.owner \in BuiltInRole
    /\ builtInGrants' = builtInGrants \cup {grant}
    /\ UNCHANGED <<builtInRoles, builtInInheritance, builtInClosure>>

RegistryNext ==
    \/ \E role \in RoleID, def \in RoleDef : RegisterRole(role, def)
    \/ \E parent, child \in RoleID : AddBuiltInInheritance(parent, child)
    \/ \E grant \in Grant : AddGrant(grant)

RegistrySpec == RegistryInit /\ [][RegistryNext]_registryVars

\* Role, Roles
Registered == {r \in BuiltInRole : builtInRoles[r] # Absent}

\* ExpandRoles
ExpandBuiltIns(roots) == Expand(builtInClosure, roots)

-----------------------------------------------------------------------------
(* The closure is kept by extending rows in place as edges arrive, in any   *)
(* order and with cycles: it must still be exactly what a search of the     *)
(* direct edges finds, or expansion hands out or withholds grants.        *)
ClosureIsReachability ==
    LET reach == Reach(builtInInheritance)
    IN  \A root \in RoleID : ExpandBuiltIns({root}) = Inherited(reach, root)

(* Every step of the registry is a step of the role hierarchy, whose        *)
(* relation is recomputed from the edges each time.                         *)
RegistryHierarchy == INSTANCE RoleHierarchy
                WITH edges <- builtInInheritance, inherits <- builtInClosure \cup Identity

ImplementsHierarchy == RegistryHierarchy!HierarchySpec
=============================================================================
