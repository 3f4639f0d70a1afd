--------------------------- MODULE BootstrapRoles ---------------------------
(***************************************************************************)
(* bootstrap_store.go: the roles, the inheritance and the role assignments *)
(* of the in-memory default store.  Each method holds the store's mutex    *)
(* from its first read to its last write, so each is one action; a call    *)
(* that returns an error, or finds nothing to do, is not enabled.  The     *)
(* store's grants and disable marks are left out: no method that writes    *)
(* roles or assignments writes them.                                       *)
(***************************************************************************)
EXTENDS RoleDefinitions

CONSTANTS Principal,    \* users, groups and teams that hold assignments
          Binding,      \* binding values, told apart by their Go types
          TextOf        \* TextOf[b]: how fmt.Sprint renders the values of b

VARIABLES customRoles, assignments, roleInheritance, roleClosure

storeVars == <<customRoles, assignments, roleInheritance, roleClosure>>

RoleAssignment == [principal : Principal, role : RoleID, binding : Binding]

BootstrapRolesTypeOK ==
    /\ customRoles \in [RoleID -> RoleDef \cup {Absent}]
    /\ assignments \subseteq RoleAssignment
    /\ roleInheritance \subseteq RoleID \X RoleID
    /\ roleClosure \subseteq RoleID \X RoleID

StoreInit ==
    /\ customRoles = [r \in RoleID |-> Absent]
    /\ assignments = {}
    /\ roleInheritance = {}
    /\ roleClosure = {}

Defined == {r \in RoleID : customRoles[r] # Absent}

CreateRole(role, def) ==
    /\ role \notin Defined
    /\ customRoles' = [customRoles EXCEPT ![role] = def]
    /\ roleClosure' = roleClosure \cup {<<role, role>>}
    /\ UNCHANGED <<assignments, roleInheritance>>

UpdateRole(role, def) ==
    /\ role \in Defined
    /\ customRoles' = [customRoles EXCEPT ![role] = def]
    /\ UNCHANGED <<assignments, roleInheritance, roleClosure>>

\* Mutant of DeleteRole: the holders keep the role.
DeleteRoleOnly(role) ==
    /\ role \in Defined
    /\ customRoles' = [customRoles EXCEPT ![role] = Absent]
    /\ roleInheritance' = Without(roleInheritance, role)
    /\ roleClosure' = Without(roleClosure, role)
    /\ UNCHANGED assignments

\* Mutant of DeleteRole: the rows of other roles keep the role.
DeleteOwnRow(role) ==
    /\ role \in Defined
    /\ customRoles' = [customRoles EXCEPT ![role] = Absent]
    /\ roleInheritance' = Without(roleInheritance, role)
    /\ roleClosure' = {e \in roleClosure : e[1] # role}
    /\ assignments' = {a \in assignments : a.role # role}

\* The role's own row goes, and the role goes from the other rows; a row that
\* was filled through the role keeps the rest.
DeleteRole(role) ==
    /\ role \in Defined
    /\ customRoles' = [customRoles EXCEPT ![role] = Absent]
    /\ roleInheritance' = Without(roleInheritance, role)
    /\ roleClosure' = Without(roleClosure, role)
    /\ assignments' = {a \in assignments : a.role # role}

\* Neither role has to be defined.
AddRoleInheritance(parent, child) ==
    /\ parent # child
    /\ <<parent, child>> \notin roleInheritance
    /\ roleInheritance' = roleInheritance \cup {<<parent, child>>}
    /\ roleClosure' = Link(roleClosure, parent, child)
    /\ UNCHANGED <<customRoles, assignments>>

\* Mutant of AssignRole: only an equal value counts as already assigned.
AssignRoleExact(principal, role, builtIns, binding) ==
    /\ role \in builtIns \cup Defined
    /\ assignments' = assignments \cup
         {[principal |-> principal, role |-> role, binding |-> binding]}
    /\ UNCHANGED <<customRoles, roleInheritance, roleClosure>>

\* Mutant of AssignRole: the printed text is stored for the value.
AssignRoleText(principal, role, builtIns, binding) ==
    /\ role \in builtIns \cup Defined
    /\ assignments' = assignments \cup
         {[principal |-> principal, role |-> role, binding |-> TextOf[binding]]}
    /\ UNCHANGED <<customRoles, roleInheritance, roleClosure>>

\* Values that print alike count as already assigned (mapEquals).
AssignRole(principal, role, builtIns, binding) ==
    /\ role \in builtIns \cup Defined
    /\ ~ \E a \in assignments : /\ a.principal = principal
                                /\ a.role = role
                                /\ TextOf[a.binding] = TextOf[binding]
    /\ assignments' = assignments \cup
         {[principal |-> principal, role |-> role, binding |-> binding]}
    /\ UNCHANGED <<customRoles, roleInheritance, roleClosure>>

\* Only values of the same type match (BindingValuesEqual).
UnassignRole(principal, role, binding) ==
    /\ [principal |-> principal, role |-> role, binding |-> binding] \in assignments
    /\ assignments' = assignments \
         {[principal |-> principal, role |-> role, binding |-> binding]}
    /\ UNCHANGED <<customRoles, roleInheritance, roleClosure>>

StoreNext ==
    \/ \E role \in RoleID, def \in RoleDef : CreateRole(role, def)
    \/ \E role \in RoleID, def \in RoleDef : UpdateRole(role, def)
    \/ \E role \in RoleID : DeleteRole(role)
    \/ \E parent, child \in RoleID : AddRoleInheritance(parent, child)
    \/ \E principal \in Principal, role \in RoleID, binding \in Binding :
         AssignRole(principal, role, BuiltInRole, binding)
    \/ \E principal \in Principal, role \in RoleID, binding \in Binding :
         UnassignRole(principal, role, binding)

StoreSpec == StoreInit /\ [][StoreNext]_storeVars

\* ExpandRoles
ExpandRoles(roots) == Expand(roleClosure, roots)

-----------------------------------------------------------------------------
(* ExpandRoles misses nothing the direct edges give, whatever was deleted   *)
(* or linked again in between (store.go: "every transitively inherited      *)
(* role").                                                                  *)
ExpandsAllInherited ==
    LET reach == Reach(roleInheritance)
    IN  \A root \in RoleID : Inherited(reach, root) \subseteq ExpandRoles({root})

(* ExpandRoles returns nothing but roles the direct edges give.  DeleteRole *)
(* breaks this: it drops the deleted role from every row and keeps what the *)
(* row held only because of it.  No run checks this.                        *)
ExpandsOnlyInherited ==
    LET reach == Reach(roleInheritance)
    IN  \A root \in RoleID : ExpandRoles({root}) \subseteq Inherited(reach, root)

(* Nobody holds a role that does not exist: an assignment never outlives    *)
(* the role it names, so a role created later under the same ID starts with *)
(* no holders.                                                              *)
AssignmentsResolve ==
    \A a \in assignments : a.role \in BuiltInRole \cup Defined

(* A principal holds a role once per printed binding, however often and     *)
(* with whatever value types it is assigned and unassigned.                 *)
OneAssignmentPerText ==
    \A a, b \in assignments :
        a.principal = b.principal /\ a.role = b.role
          /\ TextOf[a.binding] = TextOf[b.binding] => a = b

(* The closure is a preorder under edges and deletions: every step is one   *)
(* of recomputing it from itself and the new edge, or of taking a role out. *)
StoreHierarchy == INSTANCE RoleHierarchy
                WITH edges <- roleInheritance, inherits <- roleClosure \cup Identity

ImplementsPreorder == StoreHierarchy!PreorderSpec
=============================================================================
