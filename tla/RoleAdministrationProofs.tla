---------------------- MODULE RoleAdministrationProofs ----------------------
(***************************************************************************)
(* The role hierarchy: the registry, the store, and the calls of Service   *)
(* over both, for any roles, any prefix set, any grants, principals and    *)
(* bindings, and any list of synthetic roles.                              *)
(*   1. what Link and Without do to a closure.  No induction over paths is *)
(*      needed: Reachable quantifies over the sets that are closed under   *)
(*      the edges, so a row of a complete closure is itself such a set.    *)
(*   2. the registry.  ClosureIsReachability is not inductive: that the    *)
(*      closure is transitive, holds the edges and is sound is.            *)
(*   3. the store.  After a deletion the closure is no longer sound, so    *)
(*      what is inductive is the half that says nothing is missing.        *)
(*   4. Service.  Each half keeps to its own: the registry's maps mention  *)
(*      built-in roles only, the store defines none of them and holds no   *)
(*      edge between two of them, and each closure is complete for the     *)
(*      edges of its half.                                                 *)
(***************************************************************************)
EXTENDS RoleAdministration, TLAPS

-----------------------------------------------------------------------------
(* 1. The closure                                                           *)

(* Linking two roles of a set R keeps the closure a relation on R, loses no *)
(* pair of it and adds the new edge (AddRoleInheritance).                   *)
LEMMA LinkType ==
    ASSUME NEW R \in SUBSET RoleID, NEW closure \in SUBSET (R \X R),
           NEW parent \in R, NEW child \in R
    PROVE  /\ Link(closure, parent, child) \subseteq R \X R
           /\ closure \subseteq Link(closure, parent, child)
           /\ <<parent, child>> \in Link(closure, parent, child)
<1> DEFINE seeded == closure \cup {<<parent, parent>>, <<child, child>>}
           heirs == Heirs(seeded, parent)
           gained == Inherited(seeded, child)
<1>1. Link(closure, parent, child) = seeded \cup (heirs \X gained)
  BY DEF Link
<1>2. heirs \subseteq R /\ gained \subseteq R
  BY DEF Heirs, Inherited
<1>3. parent \in heirs /\ child \in gained
  BY DEF Heirs, Inherited
<1> HIDE DEF heirs, gained
<1>. QED
  BY <1>1, <1>2, <1>3

(* A transitive closure stays transitive: one pass over the heirs of the    *)
(* parent reaches every row that the new edge changes.                      *)
LEMMA LinkTransitive ==
    ASSUME NEW closure \in SUBSET (RoleID \X RoleID),
           NEW parent \in RoleID, NEW child \in RoleID,
           IsTransitive(closure)
    PROVE  IsTransitive(Link(closure, parent, child))
<1> DEFINE seeded == closure \cup {<<parent, parent>>, <<child, child>>}
           heirs == Heirs(seeded, parent)
           gained == Inherited(seeded, child)
<1>1. Link(closure, parent, child) = seeded \cup (heirs \X gained)
  BY DEF Link
<1>2. IsTransitive(seeded)
  BY DEF IsTransitive
<1>3. SUFFICES ASSUME NEW x \in RoleID, NEW y \in RoleID, NEW z \in RoleID,
                      <<x, y>> \in seeded \cup (heirs \X gained),
                      <<y, z>> \in seeded \cup (heirs \X gained)
               PROVE  <<x, z>> \in seeded \cup (heirs \X gained)
  BY <1>1 DEF IsTransitive
<1>4. CASE <<x, y>> \in seeded /\ <<y, z>> \in seeded
  BY <1>2, <1>4 DEF IsTransitive
<1>5. CASE <<x, y>> \in seeded /\ <<y, z>> \in heirs \X gained
  <2>1. x \in heirs
    BY <1>2, <1>5 DEF IsTransitive, Heirs
  <2>. QED
    BY <2>1, <1>5
<1>6. CASE <<x, y>> \in heirs \X gained /\ <<y, z>> \in seeded
  <2>1. z \in gained
    BY <1>2, <1>6 DEF IsTransitive, Inherited
  <2>. QED
    BY <2>1, <1>6
<1>7. CASE <<x, y>> \in heirs \X gained /\ <<y, z>> \in heirs \X gained
  BY <1>7
<1>. QED
  BY <1>3, <1>4, <1>5, <1>6, <1>7

(* Linking along a new edge adds only pairs that the new edge makes         *)
(* reachable.                                                               *)
LEMMA LinkSound ==
    ASSUME NEW closure, NEW edges,
           NEW parent \in RoleID, NEW child \in RoleID,
           IsSound(closure, edges)
    PROVE  IsSound(Link(closure, parent, child), edges \cup {<<parent, child>>})
<1> DEFINE more == edges \cup {<<parent, child>>}
           seeded == closure \cup {<<parent, parent>>, <<child, child>>}
<1>1. ASSUME NEW S \in ClosedSets(more)
      PROVE  S \in ClosedSets(edges) /\ (parent \in S => child \in S)
  <2>1. S \in ClosedSets(edges)
    BY <1>1 DEF ClosedSets
  <2>2. <<parent, child>> \in more
    OBVIOUS
  <2>3. <<parent, child>>[1] \in S => <<parent, child>>[2] \in S
    BY <1>1, <2>2, Zenon DEF ClosedSets
  <2>. QED
    BY <2>1, <2>3
<1>2. \A a, b \in RoleID : <<a, b>> \in seeded => Reachable(edges, a, b)
  BY DEF IsSound, Reachable
<1>3. SUFFICES ASSUME NEW a \in RoleID, NEW b \in RoleID,
                      <<a, b>> \in Link(closure, parent, child),
                      NEW S \in ClosedSets(more), a \in S
               PROVE  b \in S
  BY DEF IsSound, Reachable
<1>4. CASE <<a, b>> \in seeded
  BY <1>1, <1>2, <1>3, <1>4 DEF Reachable
<1>5. CASE a \in Heirs(seeded, parent) /\ b \in Inherited(seeded, child)
  <2>1. parent \in S
    BY <1>1, <1>2, <1>3, <1>5 DEF Reachable, Heirs
  <2>2. child \in S
    BY <1>1, <1>3, <2>1
  <2>. QED
    BY <1>1, <1>2, <1>3, <1>5, <2>2 DEF Reachable, Inherited
<1>. QED
  BY <1>3, <1>4, <1>5 DEF Link

(* Expanding a role through a complete closure yields at least the roles it *)
(* can reach: what it yields is closed under the edges.                     *)
LEMMA CompleteExpands ==
    ASSUME NEW closure, NEW edges, NEW root \in RoleID,
           edges \subseteq RoleID \X RoleID,
           IsComplete(closure, edges)
    PROVE  Inherited(Reach(edges), root) \subseteq Expand(closure, {root})
<1> DEFINE row == Expand(closure, {root})
<1>1. row = {root} \cup Inherited(closure, root)
  BY DEF Expand
<1>2. row \in SUBSET RoleID /\ root \in row
  BY <1>1 DEF Inherited
<1>3. row \in ClosedSets(edges)
  <2> SUFFICES ASSUME NEW e \in edges, e[1] \in row
               PROVE  e[2] \in row
    BY <1>2 DEF ClosedSets
  <2>1. PICK x \in RoleID, y \in RoleID : e = <<x, y>>
    OBVIOUS
  <2>2. <<x, y>> \in closure
    BY <2>1 DEF IsComplete
  <2>3. x = root \/ <<root, x>> \in closure
    BY <1>1, <2>1 DEF Inherited
  <2>4. <<root, y>> \in closure
    BY <2>2, <2>3 DEF IsComplete, IsTransitive
  <2>. QED
    BY <1>1, <2>1, <2>4 DEF Inherited
<1>. QED
  BY <1>2, <1>3 DEF Inherited, Reach

(* Expanding a role through a complete and sound closure yields exactly the *)
(* roles it can reach (ExpandRoles).                                        *)
LEMMA ExpandIsReach ==
    ASSUME NEW closure, NEW edges, NEW root \in RoleID,
           edges \subseteq RoleID \X RoleID,
           IsComplete(closure, edges), IsSound(closure, edges)
    PROVE  Expand(closure, {root}) = Inherited(Reach(edges), root)
<1> DEFINE row == Expand(closure, {root})
<1>1. row = {root} \cup Inherited(closure, root)
  BY DEF Expand
<1>2. row \subseteq RoleID
  BY <1>1 DEF Inherited
<1>3. ASSUME NEW b \in row
      PROVE  b \in Inherited(Reach(edges), root)
  <2>1. Reachable(edges, root, b)
    <3>1. CASE b = root
      BY <3>1 DEF Reachable
    <3>2. CASE <<root, b>> \in closure
      BY <1>2, <3>2 DEF IsSound
    <3>. QED
      BY <1>1, <3>1, <3>2 DEF Inherited
  <2>. QED
    BY <1>2, <2>1 DEF Inherited, Reach, Reachable
<1>. QED
  BY <1>3, CompleteExpands

(* A complete and sound closure is reachability, up to the self pairs of    *)
(* roles that nothing has mentioned.                                        *)
LEMMA ClosureWithIdentity ==
    ASSUME NEW closure, NEW edges,
           closure \subseteq RoleID \X RoleID, edges \subseteq RoleID \X RoleID,
           IsComplete(closure, edges), IsSound(closure, edges)
    PROVE  closure \cup Identity = Reach(edges)
<1>1. ASSUME NEW a \in RoleID, NEW b \in RoleID
      PROVE  <<a, b>> \in closure \cup Identity <=> <<a, b>> \in Reach(edges)
  <2>1. b \in Expand(closure, {a}) <=> b \in Inherited(Reach(edges), a)
    BY ExpandIsReach
  <2>2. b \in Expand(closure, {a}) <=> <<a, b>> \in closure \cup Identity
    BY DEF Expand, Inherited, Identity
  <2>3. b \in Inherited(Reach(edges), a) <=> <<a, b>> \in Reach(edges)
    BY DEF Inherited
  <2>. QED
    BY <2>1, <2>2, <2>3
<1>2. closure \cup Identity \subseteq RoleID \X RoleID
  BY DEF Identity
<1>3. Reach(edges) \subseteq RoleID \X RoleID
  BY DEF Reach
<1>. QED
  BY <1>1, <1>2, <1>3

(* Linking along a pair that is already there changes nothing but self      *)
(* pairs.                                                                   *)
LEMMA LinkAgain ==
    ASSUME NEW closure \in SUBSET (RoleID \X RoleID),
           NEW parent \in RoleID, NEW child \in RoleID,
           IsTransitive(closure), <<parent, child>> \in closure
    PROVE  Link(closure, parent, child) \cup Identity = closure \cup Identity
<1> DEFINE seeded == closure \cup {<<parent, parent>>, <<child, child>>}
           heirs == Heirs(seeded, parent)
           gained == Inherited(seeded, child)
<1>1. Link(closure, parent, child) = seeded \cup (heirs \X gained)
  BY DEF Link
<1>2. ASSUME NEW x \in heirs, NEW y \in gained
      PROVE  <<x, y>> \in closure
  <2>1. x \in RoleID /\ (x = parent \/ <<x, parent>> \in closure)
    BY <1>2 DEF Heirs
  <2>2. y \in RoleID /\ (y = child \/ <<child, y>> \in closure)
    BY <1>2 DEF Inherited
  <2>3. <<x, child>> \in closure
    BY <2>1 DEF IsTransitive
  <2>. QED
    BY <2>1, <2>2, <2>3 DEF IsTransitive
<1>3. {<<parent, parent>>, <<child, child>>} \subseteq Identity
  BY DEF Identity
<1> HIDE DEF heirs, gained
<1>4. heirs \X gained \subseteq closure
  BY <1>2
<1>. QED
  BY <1>1, <1>3, <1>4

(* Linking a transitive closure along an edge is the same as searching the  *)
(* closure together with that edge.                                         *)
LEMMA LinkIsReach ==
    ASSUME NEW closure \in SUBSET (RoleID \X RoleID),
           NEW parent \in RoleID, NEW child \in RoleID,
           IsTransitive(closure)
    PROVE  Link(closure, parent, child) \cup Identity
             = Reach(closure \cup Identity \cup {<<parent, child>>})
<1> DEFINE linked == Link(closure, parent, child)
           after == linked \cup Identity
           edges == closure \cup Identity \cup {<<parent, child>>}
<1>1. /\ linked \subseteq RoleID \X RoleID
      /\ closure \subseteq linked
      /\ <<parent, child>> \in linked
  BY LinkType
<1>2. Identity \subseteq RoleID \X RoleID
  BY DEF Identity
<1>3. IsTransitive(linked)
  BY LinkTransitive
<1>4. IsSound(closure, closure)
  BY DEF IsSound, Reachable, ClosedSets
<1>5. IsSound(linked, closure \cup {<<parent, child>>})
  BY <1>4, LinkSound
<1> HIDE DEF linked
<1>6. IsComplete(after, edges)
  <2>1. IsTransitive(after)
    BY <1>3 DEF IsTransitive, Identity
  <2>. QED
    BY <1>1, <2>1 DEF IsComplete
<1>7. IsSound(after, edges)
  <2> SUFFICES ASSUME NEW a \in RoleID, NEW b \in RoleID, <<a, b>> \in after,
                      NEW S \in ClosedSets(edges), a \in S
               PROVE  b \in S
    BY DEF IsSound, Reachable
  <2>1. S \in ClosedSets(closure \cup {<<parent, child>>})
    BY DEF ClosedSets
  <2>2. CASE <<a, b>> \in linked
    BY <1>5, <2>1, <2>2 DEF IsSound, Reachable
  <2>3. CASE <<a, b>> \in Identity
    BY <2>3 DEF Identity
  <2>. QED
    BY <2>2, <2>3
<1>8. after \subseteq RoleID \X RoleID /\ edges \subseteq RoleID \X RoleID
  BY <1>1, <1>2
<1>9. after \cup Identity = Reach(edges)
  BY <1>6, <1>7, <1>8, ClosureWithIdentity
<1>. QED
  BY <1>9 DEF linked

(* Removing a role from a relation on role IDs leaves a relation, and       *)
(* leaves a transitive one transitive (DeleteRole).                         *)
LEMMA WithoutTransitive ==
    ASSUME NEW closure, NEW role, IsTransitive(closure)
    PROVE  IsTransitive(Without(closure, role))
BY DEF IsTransitive, Without
-----------------------------------------------------------------------------
(* 2. The registry                                                          *)

(* The inductive invariant of AddRoleInheritance: nothing missing from the  *)
(* closure and nothing in it that the edges do not give.                    *)
ClosureInv ==
    /\ IsComplete(builtInClosure, builtInInheritance)
    /\ IsSound(builtInClosure, builtInInheritance)

(* Every operation keeps the registry's maps within the built-in roles and  *)
(* its grants within those of built-in roles.                               *)
THEOREM RegistryTypeCorrect == RegistrySpec => []BuiltInRegistryTypeOK
<1>1. RegistryInit => BuiltInRegistryTypeOK
  BY DEF RegistryInit, BuiltInRegistryTypeOK
<1>2. BuiltInRegistryTypeOK /\ [RegistryNext]_registryVars => BuiltInRegistryTypeOK'
  <2> SUFFICES ASSUME BuiltInRegistryTypeOK, [RegistryNext]_registryVars
               PROVE  BuiltInRegistryTypeOK'
    OBVIOUS
  <2>1. ASSUME NEW role \in RoleID, NEW def \in RoleDef, RegisterRole(role, def)
        PROVE  BuiltInRegistryTypeOK'
    BY <2>1 DEF RegisterRole, BuiltInRegistryTypeOK
  <2>2. ASSUME NEW parent \in RoleID, NEW child \in RoleID,
               AddBuiltInInheritance(parent, child)
        PROVE  BuiltInRegistryTypeOK'
    <3>1. builtInClosure \in SUBSET (BuiltInRole \X BuiltInRole)
      BY DEF BuiltInRegistryTypeOK
    <3>2. parent \in BuiltInRole /\ child \in BuiltInRole
      BY <2>2 DEF AddBuiltInInheritance
    <3>3. builtInClosure' \subseteq BuiltInRole \X BuiltInRole
      BY <2>2, <3>1, <3>2, LinkType, BuiltInRoleAssumption DEF AddBuiltInInheritance
    <3>. QED
      BY <2>2, <3>3 DEF AddBuiltInInheritance, BuiltInRegistryTypeOK
  <2>3. ASSUME NEW grant \in Grant, AddGrant(grant)
        PROVE  BuiltInRegistryTypeOK'
    BY <2>3 DEF AddGrant, BuiltInRegistryTypeOK
  <2>4. CASE UNCHANGED registryVars
    BY <2>4 DEF registryVars, BuiltInRegistryTypeOK
  <2>. QED
    BY <2>1, <2>2, <2>3, <2>4 DEF RegistryNext
<1>. QED
  BY <1>1, <1>2, PTL DEF RegistrySpec

(* Adding a self pair, as RegisterRole does, disturbs neither half of the   *)
(* closure invariant.                                                       *)
LEMMA SelfPairKeepsClosure ==
    ASSUME NEW closure, NEW edges, NEW role \in RoleID,
           IsComplete(closure, edges), IsSound(closure, edges)
    PROVE  /\ IsComplete(closure \cup {<<role, role>>}, edges)
           /\ IsSound(closure \cup {<<role, role>>}, edges)
<1>1. IsComplete(closure \cup {<<role, role>>}, edges)
  BY DEF IsComplete, IsTransitive
<1>2. IsSound(closure \cup {<<role, role>>}, edges)
  BY DEF IsSound, Reachable
<1>. QED
  BY <1>1, <1>2

(* The closure invariant holds throughout, whatever the order in which      *)
(* roles are registered and edges declared, and through cycles.             *)
THEOREM RegistryClosureInv == RegistrySpec => []ClosureInv
<1>1. RegistryInit => ClosureInv
  BY DEF RegistryInit, ClosureInv, IsComplete, IsSound, IsTransitive
<1>2. BuiltInRegistryTypeOK /\ ClosureInv /\ [RegistryNext]_registryVars
      => ClosureInv'
  <2> SUFFICES ASSUME BuiltInRegistryTypeOK, ClosureInv, [RegistryNext]_registryVars
               PROVE  ClosureInv'
    OBVIOUS
  <2>1. ASSUME NEW role \in RoleID, NEW def \in RoleDef, RegisterRole(role, def)
        PROVE  ClosureInv'
    BY <2>1, SelfPairKeepsClosure DEF RegisterRole, ClosureInv
  <2>2. ASSUME NEW parent \in RoleID, NEW child \in RoleID,
               AddBuiltInInheritance(parent, child)
        PROVE  ClosureInv'
    <3>1. builtInClosure \in SUBSET (RoleID \X RoleID)
      BY BuiltInRoleAssumption DEF BuiltInRegistryTypeOK
    <3>2. IsTransitive(builtInClosure')
      BY <2>2, <3>1, LinkTransitive DEF AddBuiltInInheritance, ClosureInv, IsComplete
    <3>3. builtInInheritance' \subseteq builtInClosure'
      BY <2>2, <3>1, LinkType DEF AddBuiltInInheritance, ClosureInv, IsComplete
    <3>4. IsSound(builtInClosure', builtInInheritance')
      BY <2>2, LinkSound DEF AddBuiltInInheritance, ClosureInv
    <3>. QED
      BY <3>2, <3>3, <3>4 DEF ClosureInv, IsComplete
  <2>3. ASSUME NEW grant \in Grant, AddGrant(grant)
        PROVE  ClosureInv'
    BY <2>3 DEF AddGrant, ClosureInv
  <2>4. CASE UNCHANGED registryVars
    BY <2>4 DEF registryVars, ClosureInv
  <2>. QED
    BY <2>1, <2>2, <2>3, <2>4 DEF RegistryNext
<1>. QED
  BY <1>1, <1>2, RegistryTypeCorrect, PTL DEF RegistrySpec

(* Expanding a built-in role yields exactly the roles that a search of the  *)
(* declared edges would find.                                               *)
THEOREM RegistryExpandsByReachability == RegistrySpec => []ClosureIsReachability
<1>1. BuiltInRegistryTypeOK /\ ClosureInv => ClosureIsReachability
  <2> SUFFICES ASSUME BuiltInRegistryTypeOK, ClosureInv, NEW root \in RoleID
               PROVE  ExpandBuiltIns({root}) = Inherited(Reach(builtInInheritance), root)
    BY DEF ClosureIsReachability
  <2>1. builtInInheritance \subseteq RoleID \X RoleID
    BY BuiltInRoleAssumption DEF BuiltInRegistryTypeOK
  <2>. QED
    BY <2>1, ExpandIsReach DEF ClosureInv, ExpandBuiltIns
<1>. QED
  BY <1>1, RegistryTypeCorrect, RegistryClosureInv, PTL

(* The registry implements the role hierarchy: extending rows in place is   *)
(* the same as recomputing reachability after each declared edge.           *)
THEOREM RegistryImplementsHierarchy == RegistrySpec => ImplementsHierarchy
<1> DEFINE Typed == BuiltInRegistryTypeOK /\ ClosureInv
           mapped == builtInClosure \cup Identity
<1>1. Typed => mapped = Reach(builtInInheritance)
  BY ClosureWithIdentity, BuiltInRoleAssumption DEF BuiltInRegistryTypeOK, ClosureInv
<1>2. Typed' => mapped' = Reach(builtInInheritance')
  <2> SUFFICES ASSUME Typed' PROVE mapped' = Reach(builtInInheritance')
    OBVIOUS
  <2>1. builtInClosure' \subseteq RoleID \X RoleID /\ builtInInheritance' \subseteq RoleID \X RoleID
    BY BuiltInRoleAssumption DEF BuiltInRegistryTypeOK
  <2>2. IsComplete(builtInClosure', builtInInheritance') /\ IsSound(builtInClosure', builtInInheritance')
    BY DEF ClosureInv
  <2>. QED
    BY <2>1, <2>2, ClosureWithIdentity
<1>3. RegistryInit => RegistryHierarchy!HierarchyInit
  <2> SUFFICES ASSUME RegistryInit PROVE RegistryHierarchy!HierarchyInit
    OBVIOUS
  <2>1. BuiltInRegistryTypeOK
    BY DEF RegistryInit, BuiltInRegistryTypeOK
  <2>2. ClosureInv
    BY DEF RegistryInit, ClosureInv, IsComplete, IsSound, IsTransitive
  <2>. QED
    BY <1>1, <2>1, <2>2 DEF RegistryInit, RegistryHierarchy!HierarchyInit, RegistryHierarchy!Reach,
       RegistryHierarchy!Reachable, RegistryHierarchy!ClosedSets, Reach, Reachable, ClosedSets
<1>4. Typed /\ Typed' /\ [RegistryNext]_registryVars
        => [RegistryHierarchy!HierarchyNext]_(RegistryHierarchy!hierarchyVars)
  <2> SUFFICES ASSUME Typed, Typed', [RegistryNext]_registryVars
               PROVE  [RegistryHierarchy!HierarchyNext]_(RegistryHierarchy!hierarchyVars)
    OBVIOUS
  <2>1. ASSUME builtInInheritance' = builtInInheritance
        PROVE  UNCHANGED RegistryHierarchy!hierarchyVars
    BY <1>1, <1>2, <2>1 DEF RegistryHierarchy!hierarchyVars
  <2>2. ASSUME NEW role \in RoleID, NEW def \in RoleDef, RegisterRole(role, def)
        PROVE  UNCHANGED RegistryHierarchy!hierarchyVars
    BY <2>1, <2>2 DEF RegisterRole
  <2>3. ASSUME NEW parent \in RoleID, NEW child \in RoleID,
               AddBuiltInInheritance(parent, child)
        PROVE  RegistryHierarchy!Declare(parent, child)
    BY <1>2, <2>3 DEF AddBuiltInInheritance, RegistryHierarchy!Declare, RegistryHierarchy!Reach,
       RegistryHierarchy!Reachable, RegistryHierarchy!ClosedSets, Reach, Reachable, ClosedSets
  <2>4. ASSUME NEW grant \in Grant, AddGrant(grant)
        PROVE  UNCHANGED RegistryHierarchy!hierarchyVars
    BY <2>1, <2>4 DEF AddGrant
  <2>5. CASE UNCHANGED registryVars
    BY <2>1, <2>5 DEF registryVars
  <2>. QED
    BY <2>2, <2>3, <2>4, <2>5 DEF RegistryNext, RegistryHierarchy!HierarchyNext
<1>. QED
  BY <1>3, <1>4, RegistryTypeCorrect, RegistryClosureInv, PTL
     DEF RegistrySpec, ImplementsHierarchy, RegistryHierarchy!HierarchySpec
-----------------------------------------------------------------------------
(* 3. The store                                                             *)

CompleteInv == IsComplete(roleClosure, roleInheritance)

(* Every operation keeps the store's maps within their types.               *)
THEOREM StoreTypeCorrect == StoreSpec => []BootstrapRolesTypeOK
<1>1. StoreInit => BootstrapRolesTypeOK
  BY DEF StoreInit, BootstrapRolesTypeOK
<1>2. BootstrapRolesTypeOK /\ [StoreNext]_storeVars => BootstrapRolesTypeOK'
  <2> SUFFICES ASSUME BootstrapRolesTypeOK, [StoreNext]_storeVars
               PROVE  BootstrapRolesTypeOK'
    OBVIOUS
  <2>1. ASSUME NEW role \in RoleID, NEW def \in RoleDef, CreateRole(role, def)
        PROVE  BootstrapRolesTypeOK'
    BY <2>1 DEF CreateRole, BootstrapRolesTypeOK
  <2>2. ASSUME NEW role \in RoleID, NEW def \in RoleDef, UpdateRole(role, def)
        PROVE  BootstrapRolesTypeOK'
    BY <2>2 DEF UpdateRole, BootstrapRolesTypeOK
  <2>3. ASSUME NEW role \in RoleID, DeleteRole(role)
        PROVE  BootstrapRolesTypeOK'
    BY <2>3 DEF DeleteRole, Without, BootstrapRolesTypeOK
  <2>4. ASSUME NEW parent \in RoleID, NEW child \in RoleID,
               AddRoleInheritance(parent, child)
        PROVE  BootstrapRolesTypeOK'
    <3>1. roleClosure \in SUBSET (RoleID \X RoleID)
      BY DEF BootstrapRolesTypeOK
    <3>2. roleClosure' \subseteq RoleID \X RoleID
      BY <2>4, <3>1, LinkType DEF AddRoleInheritance
    <3>. QED
      BY <2>4, <3>2 DEF AddRoleInheritance, BootstrapRolesTypeOK
  <2>5. ASSUME NEW principal \in Principal, NEW role \in RoleID, NEW binding \in Binding,
               AssignRole(principal, role, BuiltInRole, binding)
        PROVE  BootstrapRolesTypeOK'
    BY <2>5 DEF AssignRole, RoleAssignment, BootstrapRolesTypeOK
  <2>6. ASSUME NEW principal \in Principal, NEW role \in RoleID, NEW binding \in Binding,
               UnassignRole(principal, role, binding)
        PROVE  BootstrapRolesTypeOK'
    BY <2>6 DEF UnassignRole, BootstrapRolesTypeOK
  <2>7. CASE UNCHANGED storeVars
    BY <2>7 DEF storeVars, BootstrapRolesTypeOK
  <2>. QED
    BY <2>1, <2>2, <2>3, <2>4, <2>5, <2>6, <2>7 DEF StoreNext
<1>. QED
  BY <1>1, <1>2, PTL DEF StoreSpec

(* A step that leaves edges and closure alone keeps the closure complete.   *)
LEMMA CompleteUnchanged ==
    ASSUME CompleteInv, UNCHANGED <<roleInheritance, roleClosure>>
    PROVE  CompleteInv'
BY DEF CompleteInv

(* Creating, linking and deleting roles in any order keeps the closure      *)
(* transitive and every declared edge in it.                                *)
THEOREM StoreClosureComplete == StoreSpec => []CompleteInv
<1>1. StoreInit => CompleteInv
  BY DEF StoreInit, CompleteInv, IsComplete, IsTransitive
<1>2. BootstrapRolesTypeOK /\ CompleteInv /\ [StoreNext]_storeVars => CompleteInv'
  <2> SUFFICES ASSUME BootstrapRolesTypeOK, CompleteInv, [StoreNext]_storeVars
               PROVE  CompleteInv'
    OBVIOUS
  <2>1. ASSUME NEW role \in RoleID, NEW def \in RoleDef, CreateRole(role, def)
        PROVE  CompleteInv'
    BY <2>1 DEF CreateRole, CompleteInv, IsComplete, IsTransitive
  <2>2. ASSUME NEW role \in RoleID, NEW def \in RoleDef, UpdateRole(role, def)
        PROVE  CompleteInv'
    BY <2>2, CompleteUnchanged DEF UpdateRole
  <2>3. ASSUME NEW role \in RoleID, DeleteRole(role)
        PROVE  CompleteInv'
    <3>1. IsTransitive(roleClosure')
      BY <2>3, WithoutTransitive DEF DeleteRole, CompleteInv, IsComplete
    <3>2. roleInheritance' \subseteq roleClosure'
      BY <2>3 DEF DeleteRole, Without, CompleteInv, IsComplete
    <3>. QED
      BY <3>1, <3>2 DEF CompleteInv, IsComplete
  <2>4. ASSUME NEW parent \in RoleID, NEW child \in RoleID,
               AddRoleInheritance(parent, child)
        PROVE  CompleteInv'
    <3>1. roleClosure \in SUBSET (RoleID \X RoleID)
      BY DEF BootstrapRolesTypeOK
    <3>2. IsTransitive(roleClosure')
      BY <2>4, <3>1, LinkTransitive DEF AddRoleInheritance, CompleteInv, IsComplete
    <3>3. roleInheritance' \subseteq roleClosure'
      BY <2>4, <3>1, LinkType DEF AddRoleInheritance, CompleteInv, IsComplete
    <3>. QED
      BY <3>2, <3>3 DEF CompleteInv, IsComplete
  <2>5. ASSUME NEW principal \in Principal, NEW role \in RoleID, NEW binding \in Binding,
               AssignRole(principal, role, BuiltInRole, binding)
        PROVE  CompleteInv'
    BY <2>5, CompleteUnchanged DEF AssignRole
  <2>6. ASSUME NEW principal \in Principal, NEW role \in RoleID, NEW binding \in Binding,
               UnassignRole(principal, role, binding)
        PROVE  CompleteInv'
    BY <2>6, CompleteUnchanged DEF UnassignRole
  <2>7. CASE UNCHANGED storeVars
    BY <2>7, CompleteUnchanged DEF storeVars
  <2>. QED
    BY <2>1, <2>2, <2>3, <2>4, <2>5, <2>6, <2>7 DEF StoreNext
<1>. QED
  BY <1>1, <1>2, StoreTypeCorrect, PTL DEF StoreSpec

(* ExpandRoles never withholds a role that the edges give, however roles    *)
(* were deleted and created again in between.                               *)
THEOREM StoreExpandsAllInherited == StoreSpec => []ExpandsAllInherited
<1>1. BootstrapRolesTypeOK /\ CompleteInv => ExpandsAllInherited
  BY CompleteExpands
     DEF BootstrapRolesTypeOK, CompleteInv, ExpandsAllInherited, ExpandRoles
<1>. QED
  BY <1>1, StoreTypeCorrect, StoreClosureComplete, PTL
-----------------------------------------------------------------------------
(* No assignment outlives its role: DeleteRole removes both at once, and    *)
(* the mark for an undefined role is no definition.                         *)
THEOREM StoreAssignmentsResolve == StoreSpec => []AssignmentsResolve
<1>1. StoreInit => AssignmentsResolve
  BY DEF StoreInit, AssignmentsResolve
<1>2. BootstrapRolesTypeOK /\ AssignmentsResolve /\ [StoreNext]_storeVars
      => AssignmentsResolve'
  <2> SUFFICES ASSUME BootstrapRolesTypeOK, AssignmentsResolve, [StoreNext]_storeVars
               PROVE  AssignmentsResolve'
    OBVIOUS
  <2> USE DEF AssignmentsResolve, Defined
  <2>0. customRoles \in [RoleID -> RoleDef \cup {Absent}] /\ assignments \subseteq RoleAssignment
    BY DEF BootstrapRolesTypeOK
  <2>1. ASSUME NEW role \in RoleID, NEW def \in RoleDef, CreateRole(role, def)
        PROVE  AssignmentsResolve'
    BY <2>0, <2>1, AbsentAssumption DEF CreateRole
  <2>2. ASSUME NEW role \in RoleID, NEW def \in RoleDef, UpdateRole(role, def)
        PROVE  AssignmentsResolve'
    BY <2>0, <2>2, AbsentAssumption DEF UpdateRole
  <2>3. ASSUME NEW role \in RoleID, DeleteRole(role)
        PROVE  AssignmentsResolve'
    BY <2>0, <2>3 DEF DeleteRole
  <2>4. ASSUME NEW parent \in RoleID, NEW child \in RoleID,
               AddRoleInheritance(parent, child)
        PROVE  AssignmentsResolve'
    BY <2>4 DEF AddRoleInheritance
  <2>5. ASSUME NEW principal \in Principal, NEW role \in RoleID, NEW binding \in Binding,
               AssignRole(principal, role, BuiltInRole, binding)
        PROVE  AssignmentsResolve'
    BY <2>5 DEF AssignRole
  <2>6. ASSUME NEW principal \in Principal, NEW role \in RoleID, NEW binding \in Binding,
               UnassignRole(principal, role, binding)
        PROVE  AssignmentsResolve'
    BY <2>6 DEF UnassignRole
  <2>7. CASE UNCHANGED storeVars
    BY <2>7 DEF storeVars
  <2>. QED
    BY <2>1, <2>2, <2>3, <2>4, <2>5, <2>6, <2>7 DEF StoreNext
<1>. QED
  BY <1>1, <1>2, StoreTypeCorrect, PTL DEF StoreSpec

(* No principal ever holds a role twice with bindings that print alike.     *)
THEOREM StoreOneAssignmentPerText == StoreSpec => []OneAssignmentPerText
<1>1. StoreInit => OneAssignmentPerText
  BY DEF StoreInit, OneAssignmentPerText
<1>2. OneAssignmentPerText /\ [StoreNext]_storeVars => OneAssignmentPerText'
  <2> SUFFICES ASSUME OneAssignmentPerText, [StoreNext]_storeVars
               PROVE  OneAssignmentPerText'
    OBVIOUS
  <2>1. ASSUME assignments' \subseteq assignments
        PROVE  OneAssignmentPerText'
    BY <2>1 DEF OneAssignmentPerText
  <2>2. ASSUME NEW role \in RoleID, NEW def \in RoleDef, CreateRole(role, def)
        PROVE  assignments' \subseteq assignments
    BY <2>2 DEF CreateRole
  <2>3. ASSUME NEW role \in RoleID, NEW def \in RoleDef, UpdateRole(role, def)
        PROVE  assignments' \subseteq assignments
    BY <2>3 DEF UpdateRole
  <2>4. ASSUME NEW role \in RoleID, DeleteRole(role)
        PROVE  assignments' \subseteq assignments
    BY <2>4 DEF DeleteRole
  <2>5. ASSUME NEW parent \in RoleID, NEW child \in RoleID,
               AddRoleInheritance(parent, child)
        PROVE  assignments' \subseteq assignments
    BY <2>5 DEF AddRoleInheritance
  <2>6. ASSUME NEW principal \in Principal, NEW role \in RoleID, NEW binding \in Binding,
               AssignRole(principal, role, BuiltInRole, binding)
        PROVE  OneAssignmentPerText'
    BY <2>6 DEF AssignRole, OneAssignmentPerText
  <2>7. ASSUME NEW principal \in Principal, NEW role \in RoleID, NEW binding \in Binding,
               UnassignRole(principal, role, binding)
        PROVE  assignments' \subseteq assignments
    BY <2>7 DEF UnassignRole
  <2>8. CASE UNCHANGED storeVars
    BY <2>1, <2>8 DEF storeVars
  <2>. QED
    BY <2>1, <2>2, <2>3, <2>4, <2>5, <2>6, <2>7, <2>8 DEF StoreNext
<1>. QED
  BY <1>1, <1>2, PTL DEF StoreSpec
-----------------------------------------------------------------------------
(* The store implements the preorder: linking rows in place is recomputing  *)
(* the relation from itself and the new edge, and deleting is erasing.      *)
THEOREM StoreImplementsPreorder == StoreSpec => ImplementsPreorder
<1> DEFINE Typed == BootstrapRolesTypeOK /\ CompleteInv
           mapped == roleClosure \cup Identity
<1> USE DEF StoreHierarchy!Identity, StoreHierarchy!Without, StoreHierarchy!Reach, StoreHierarchy!ClosedSets
<1>1. StoreInit => StoreHierarchy!PreorderInit
  BY DEF StoreInit, StoreHierarchy!PreorderInit, Identity
<1>2. Typed /\ Typed' /\ [StoreNext]_storeVars
      => [StoreHierarchy!PreorderNext]_mapped
  <2> SUFFICES ASSUME Typed, Typed', [StoreNext]_storeVars
               PROVE  [StoreHierarchy!PreorderNext]_mapped
    OBVIOUS
  <2>1. ASSUME NEW role \in RoleID, NEW def \in RoleDef, CreateRole(role, def)
        PROVE  mapped' = mapped
    BY <2>1 DEF CreateRole, Identity
  <2>2. ASSUME NEW role \in RoleID, NEW def \in RoleDef, UpdateRole(role, def)
        PROVE  mapped' = mapped
    BY <2>2 DEF UpdateRole
  <2>3. ASSUME NEW role \in RoleID, DeleteRole(role)
        PROVE  StoreHierarchy!Erase(role)
    <3>1. mapped' = Without(roleClosure, role) \cup Identity
      BY <2>3 DEF DeleteRole
    <3>2. Without(mapped, role) \cup Identity = Without(roleClosure, role) \cup Identity
      BY DEF Without, Identity
    <3>. QED
      BY <3>1, <3>2 DEF StoreHierarchy!Erase, Without, Identity
  <2>4. ASSUME NEW parent \in RoleID, NEW child \in RoleID,
               AddRoleInheritance(parent, child)
        PROVE  mapped' = mapped \/ StoreHierarchy!Connect(parent, child)
    <3>1. roleClosure \in SUBSET (RoleID \X RoleID) /\ IsTransitive(roleClosure)
      BY DEF BootstrapRolesTypeOK, CompleteInv, IsComplete
    <3>2. mapped' = Link(roleClosure, parent, child) \cup Identity
      BY <2>4 DEF AddRoleInheritance
    <3>3. CASE <<parent, child>> \in roleClosure
      BY <3>1, <3>2, <3>3, LinkAgain
    <3>4. CASE <<parent, child>> \notin roleClosure
      <4>1. <<parent, child>> \notin mapped
        BY <2>4, <3>4 DEF AddRoleInheritance, Identity
      <4>2. <<parent, child>> \in mapped'
        BY <3>1, <3>2, LinkType
      <4>3. mapped' = Reach(mapped \cup {<<parent, child>>})
        BY <3>1, <3>2, LinkIsReach
      <4>. QED
        BY <4>1, <4>2, <4>3 DEF StoreHierarchy!Connect, Reach, ClosedSets, Identity
    <3>. QED
      BY <3>3, <3>4
  <2>5. ASSUME NEW principal \in Principal, NEW role \in RoleID, NEW binding \in Binding,
               AssignRole(principal, role, BuiltInRole, binding)
        PROVE  mapped' = mapped
    BY <2>5 DEF AssignRole
  <2>6. ASSUME NEW principal \in Principal, NEW role \in RoleID, NEW binding \in Binding,
               UnassignRole(principal, role, binding)
        PROVE  mapped' = mapped
    BY <2>6 DEF UnassignRole
  <2>7. CASE UNCHANGED storeVars
    BY <2>7 DEF storeVars
  <2>. QED
    BY <2>1, <2>2, <2>3, <2>4, <2>5, <2>6, <2>7 DEF StoreNext, StoreHierarchy!PreorderNext
<1>. QED
  BY <1>1, <1>2, StoreTypeCorrect, StoreClosureComplete, PTL
     DEF StoreSpec, ImplementsPreorder, StoreHierarchy!PreorderSpec
-----------------------------------------------------------------------------
(* 4. Service                                                               *)

(* Every call of Service keeps the maps of both halves within their types;  *)
(* the registry's never mention a role of the store.                        *)
THEOREM AdministrationTypeCorrect == Spec => []RoleAdministrationTypeOK
<1> USE DEF RoleAdministrationTypeOK, BuiltInRegistryTypeOK,
            BootstrapRolesTypeOK
<1>1. Init => RoleAdministrationTypeOK
  BY DEF Init, RegistryInit, StoreInit
<1>2. RoleAdministrationTypeOK /\ [Next]_vars => RoleAdministrationTypeOK'
  <2> SUFFICES ASSUME RoleAdministrationTypeOK, [Next]_vars
               PROVE  RoleAdministrationTypeOK'
    OBVIOUS
  <2> USE DEF registryVars, storeVars
  <2>1. ASSUME NEW role \in RoleID, NEW def \in RoleDef, ServiceCreateRole(role, def)
        PROVE  RoleAdministrationTypeOK'
    <3>1. CASE role \in BuiltInRole /\ RegisterRole(role, def) /\ UNCHANGED storeVars
      BY <3>1 DEF RegisterRole
    <3>2. CASE role \notin BuiltInRole /\ CreateRole(role, def) /\ UNCHANGED registryVars
      BY <3>2 DEF CreateRole
    <3>. QED
      BY <2>1, <3>1, <3>2 DEF ServiceCreateRole
  <2>2. ASSUME NEW role \in RoleID, NEW def \in RoleDef, ServiceUpdateRole(role, def)
        PROVE  RoleAdministrationTypeOK'
    BY <2>2 DEF ServiceUpdateRole, UpdateRole
  <2>3. ASSUME NEW role \in RoleID, ServiceDeleteRole(role)
        PROVE  RoleAdministrationTypeOK'
    BY <2>3 DEF ServiceDeleteRole, DeleteRole, Without
  <2>4. ASSUME NEW parent \in RoleID, NEW child \in RoleID,
               ServiceAddRoleInheritance(parent, child)
        PROVE  RoleAdministrationTypeOK'
    <3>1. CASE {parent, child} \subseteq BuiltInRole
      <4>1. AddBuiltInInheritance(parent, child) /\ UNCHANGED storeVars
        BY <2>4, <3>1 DEF ServiceAddRoleInheritance
      <4>2. builtInClosure' \subseteq BuiltInRole \X BuiltInRole
        BY <3>1, <4>1, LinkType, BuiltInRoleAssumption
           DEF AddBuiltInInheritance
      <4>. QED
        BY <4>1, <4>2 DEF AddBuiltInInheritance
    <3>2. CASE ~ ({parent, child} \subseteq BuiltInRole)
      <4>1. AddRoleInheritance(parent, child) /\ UNCHANGED registryVars
        BY <2>4, <3>2 DEF ServiceAddRoleInheritance
      <4>2. roleClosure' \subseteq RoleID \X RoleID
        BY <4>1, LinkType DEF AddRoleInheritance
      <4>. QED
        BY <4>1, <4>2 DEF AddRoleInheritance
    <3>. QED
      BY <3>1, <3>2
  <2>5. ASSUME NEW principal \in Principal, NEW role \in RoleID, NEW binding \in Binding,
               ServiceAssignRole(principal, role, binding)
        PROVE  RoleAdministrationTypeOK'
    BY <2>5 DEF ServiceAssignRole, AssignRole, RoleAssignment
  <2>6. ASSUME NEW principal \in Principal, NEW role \in RoleID, NEW binding \in Binding,
               ServiceUnassignRole(principal, role, binding)
        PROVE  RoleAdministrationTypeOK'
    BY <2>6 DEF ServiceUnassignRole, UnassignRole, RoleAssignment
  <2>7. ASSUME EnsureSyntheticRoles
        PROVE  RoleAdministrationTypeOK'
    <3>1. Reached \subseteq RoleID
      BY SyntheticAssumption DEF Reached
    <3>2. /\ builtInRoles' \in [BuiltInRole -> RoleDef \cup {Absent}]
          /\ customRoles' \in [RoleID -> RoleDef \cup {Absent}]
      BY <2>7, SyntheticAssumption DEF EnsureSyntheticRoles
    <3>3. /\ builtInClosure' \subseteq BuiltInRole \X BuiltInRole
          /\ roleClosure' \subseteq RoleID \X RoleID
      BY <2>7, <3>1 DEF EnsureSyntheticRoles
    <3>. QED
      BY <2>7, <3>2, <3>3 DEF EnsureSyntheticRoles
  <2>8. CASE UNCHANGED vars
    BY <2>8 DEF vars
  <2>. QED
    BY <2>1, <2>2, <2>3, <2>4, <2>5, <2>6, <2>7, <2>8 DEF Next
<1>. QED
  BY <1>1, <1>2, PTL DEF Spec
-----------------------------------------------------------------------------
StoreKeepsToItsOwn == \A role \in BuiltInRole : customRoles[role] = Absent

(* The store never defines a role with the built-in prefix: CreateRole and  *)
(* the seeding of synthetic roles hand those to the registry.               *)
THEOREM StoreDefinesNoBuiltIn == Spec => []StoreKeepsToItsOwn
<1> USE DEF StoreKeepsToItsOwn
<1>1. Init => StoreKeepsToItsOwn
  BY BuiltInRoleAssumption DEF Init, StoreInit
<1>2. RoleAdministrationTypeOK /\ StoreKeepsToItsOwn /\ [Next]_vars
      => StoreKeepsToItsOwn'
  <2> SUFFICES ASSUME RoleAdministrationTypeOK, StoreKeepsToItsOwn, [Next]_vars
               PROVE  StoreKeepsToItsOwn'
    OBVIOUS
  <2> USE BuiltInRoleAssumption
  <2>0. customRoles \in [RoleID -> RoleDef \cup {Absent}]
    BY DEF RoleAdministrationTypeOK, BootstrapRolesTypeOK
  <2>1. ASSUME NEW role \in RoleID, NEW def \in RoleDef, ServiceCreateRole(role, def)
        PROVE  StoreKeepsToItsOwn'
    BY <2>0, <2>1 DEF ServiceCreateRole, CreateRole, storeVars
  <2>2. ASSUME NEW role \in RoleID, NEW def \in RoleDef, ServiceUpdateRole(role, def)
        PROVE  StoreKeepsToItsOwn'
    BY <2>0, <2>2 DEF ServiceUpdateRole, UpdateRole
  <2>3. ASSUME NEW role \in RoleID, ServiceDeleteRole(role)
        PROVE  StoreKeepsToItsOwn'
    BY <2>0, <2>3 DEF ServiceDeleteRole, DeleteRole
  <2>4. ASSUME NEW parent \in RoleID, NEW child \in RoleID,
               ServiceAddRoleInheritance(parent, child)
        PROVE  StoreKeepsToItsOwn'
    BY <2>4 DEF ServiceAddRoleInheritance, AddRoleInheritance, storeVars
  <2>5. ASSUME NEW principal \in Principal, NEW role \in RoleID, NEW binding \in Binding,
               ServiceAssignRole(principal, role, binding)
        PROVE  StoreKeepsToItsOwn'
    BY <2>5 DEF ServiceAssignRole, AssignRole
  <2>6. ASSUME NEW principal \in Principal, NEW role \in RoleID, NEW binding \in Binding,
               ServiceUnassignRole(principal, role, binding)
        PROVE  StoreKeepsToItsOwn'
    BY <2>6 DEF ServiceUnassignRole, UnassignRole
  <2>7. ASSUME EnsureSyntheticRoles
        PROVE  StoreKeepsToItsOwn'
    BY <2>7 DEF EnsureSyntheticRoles
  <2>8. CASE UNCHANGED vars
    BY <2>8 DEF vars, storeVars
  <2>. QED
    BY <2>1, <2>2, <2>3, <2>4, <2>5, <2>6, <2>7, <2>8 DEF Next
<1>. QED
  BY <1>1, <1>2, AdministrationTypeCorrect, PTL DEF Spec

(* No principal ever holds a role that nobody registered or defined.  The   *)
(* store accepts a role it does not define when the registry knows it, so   *)
(* this rests on the store defining no built-in role.                       *)
THEOREM AdministrationAssignmentsResolve == Spec => []ServiceAssignmentsResolve
<1> USE DEF ServiceAssignmentsResolve, Registered, Defined
<1>1. Init => ServiceAssignmentsResolve
  BY DEF Init, StoreInit
<1>2. /\ RoleAdministrationTypeOK /\ StoreKeepsToItsOwn /\ ServiceAssignmentsResolve
      /\ [Next]_vars
      => ServiceAssignmentsResolve'
  <2> SUFFICES ASSUME RoleAdministrationTypeOK, StoreKeepsToItsOwn, ServiceAssignmentsResolve,
                      [Next]_vars
               PROVE  ServiceAssignmentsResolve'
    OBVIOUS
  <2> USE DEF registryVars, storeVars
  <2>0. /\ builtInRoles \in [BuiltInRole -> RoleDef \cup {Absent}]
        /\ customRoles \in [RoleID -> RoleDef \cup {Absent}]
        /\ \A a \in assignments : a.role \in RoleID
    BY DEF RoleAdministrationTypeOK, BuiltInRegistryTypeOK,
           BootstrapRolesTypeOK, RoleAssignment
  <2>1. ASSUME NEW role \in RoleID, NEW def \in RoleDef, ServiceCreateRole(role, def)
        PROVE  ServiceAssignmentsResolve'
    BY <2>0, <2>1, AbsentAssumption
       DEF ServiceCreateRole, RegisterRole, CreateRole
  <2>2. ASSUME NEW role \in RoleID, NEW def \in RoleDef, ServiceUpdateRole(role, def)
        PROVE  ServiceAssignmentsResolve'
    BY <2>0, <2>2, AbsentAssumption DEF ServiceUpdateRole, UpdateRole
  <2>3. ASSUME NEW role \in RoleID, ServiceDeleteRole(role)
        PROVE  ServiceAssignmentsResolve'
    BY <2>0, <2>3 DEF ServiceDeleteRole, DeleteRole
  <2>4. ASSUME NEW parent \in RoleID, NEW child \in RoleID,
               ServiceAddRoleInheritance(parent, child)
        PROVE  ServiceAssignmentsResolve'
    BY <2>4 DEF ServiceAddRoleInheritance, AddBuiltInInheritance, AddRoleInheritance
  <2>5. ASSUME NEW principal \in Principal, NEW role \in RoleID, NEW binding \in Binding,
               ServiceAssignRole(principal, role, binding)
        PROVE  ServiceAssignmentsResolve'
    <3>1. /\ role \in Registered \cup Defined
          /\ \A a \in assignments' : a \in assignments \/ a.role = role
          /\ UNCHANGED <<builtInRoles, customRoles>>
      BY <2>5 DEF ServiceAssignRole, AssignRole
    <3>. QED
      BY <2>0, <3>1 DEF StoreKeepsToItsOwn
  <2>6. ASSUME NEW principal \in Principal, NEW role \in RoleID, NEW binding \in Binding,
               ServiceUnassignRole(principal, role, binding)
        PROVE  ServiceAssignmentsResolve'
    BY <2>6 DEF ServiceUnassignRole, UnassignRole
  <2>7. ASSUME EnsureSyntheticRoles
        PROVE  ServiceAssignmentsResolve'
    BY <2>0, <2>7, AbsentAssumption, SyntheticAssumption DEF EnsureSyntheticRoles
  <2>8. CASE UNCHANGED vars
    BY <2>8 DEF vars
  <2>. QED
    BY <2>1, <2>2, <2>3, <2>4, <2>5, <2>6, <2>7, <2>8 DEF Next
<1>. QED
  BY <1>1, <1>2, AdministrationTypeCorrect, StoreDefinesNoBuiltIn, PTL DEF Spec
-----------------------------------------------------------------------------
(* Each closure is complete for the edges of its half, and no edge between  *)
(* two built-in roles is kept in the store.                                 *)
HalvesInv ==
    /\ IsComplete(builtInClosure, builtInInheritance)
    /\ IsComplete(roleClosure, roleInheritance)
    /\ roleInheritance \cap (BuiltInRole \X BuiltInRole) = {}

(* Adding an edge to one half, or self pairs to its closure, keeps the      *)
(* closure complete.                                                        *)
LEMMA LinkKeepsComplete ==
    ASSUME NEW edges, NEW closure \in SUBSET (RoleID \X RoleID),
           NEW parent \in RoleID, NEW child \in RoleID,
           IsComplete(closure, edges)
    PROVE  IsComplete(Link(closure, parent, child), edges \cup {<<parent, child>>})
BY LinkType, LinkTransitive DEF IsComplete

LEMMA SeedKeepsComplete ==
    ASSUME NEW edges, NEW closure, NEW R, IsComplete(closure, edges)
    PROVE  IsComplete(closure \cup {<<r, r>> : r \in R}, edges)
BY DEF IsComplete, IsTransitive

(* Whatever calls are made through Service, in whatever order, the two      *)
(* halves stay complete and apart.                                          *)
THEOREM HalvesStayComplete == Spec => []HalvesInv
<1>1. Init => HalvesInv
  BY DEF Init, RegistryInit, StoreInit, HalvesInv, IsComplete, IsTransitive
<1>2. RoleAdministrationTypeOK /\ HalvesInv /\ [Next]_vars => HalvesInv'
  <2> SUFFICES ASSUME RoleAdministrationTypeOK, HalvesInv, [Next]_vars
               PROVE  HalvesInv'
    OBVIOUS
  <2> USE DEF HalvesInv, registryVars, storeVars
  <2>0. /\ builtInClosure \in SUBSET (RoleID \X RoleID)
        /\ roleClosure \in SUBSET (RoleID \X RoleID)
    BY BuiltInRoleAssumption
       DEF RoleAdministrationTypeOK, BuiltInRegistryTypeOK,
           BootstrapRolesTypeOK
  <2>1. ASSUME NEW role \in RoleID, NEW def \in RoleDef, ServiceCreateRole(role, def)
        PROVE  HalvesInv'
    <3>1. /\ IsComplete(builtInClosure \cup {<<role, role>>}, builtInInheritance)
          /\ IsComplete(roleClosure \cup {<<role, role>>}, roleInheritance)
      BY DEF IsComplete, IsTransitive
    <3>. QED
      BY <2>1, <3>1 DEF ServiceCreateRole, RegisterRole, CreateRole
  <2>2. ASSUME NEW role \in RoleID, NEW def \in RoleDef, ServiceUpdateRole(role, def)
        PROVE  HalvesInv'
    BY <2>2 DEF ServiceUpdateRole, UpdateRole
  <2>3. ASSUME NEW role \in RoleID, ServiceDeleteRole(role)
        PROVE  HalvesInv'
    <3>1. /\ roleInheritance' = Without(roleInheritance, role)
          /\ roleClosure' = Without(roleClosure, role)
          /\ UNCHANGED <<builtInInheritance, builtInClosure>>
      BY <2>3 DEF ServiceDeleteRole, DeleteRole, Without
    <3>2. IsTransitive(roleClosure')
      BY <3>1, WithoutTransitive DEF IsComplete
    <3>3. roleInheritance' \subseteq roleClosure' /\ roleInheritance' \subseteq roleInheritance
      BY <3>1 DEF Without, IsComplete
    <3>. QED
      BY <3>1, <3>2, <3>3 DEF IsComplete
  <2>4. ASSUME NEW parent \in RoleID, NEW child \in RoleID,
               ServiceAddRoleInheritance(parent, child)
        PROVE  HalvesInv'
    <3>1. CASE {parent, child} \subseteq BuiltInRole
      <4>1. /\ builtInInheritance' = builtInInheritance \cup {<<parent, child>>}
            /\ builtInClosure' = Link(builtInClosure, parent, child)
            /\ UNCHANGED <<roleInheritance, roleClosure>>
        BY <2>4, <3>1 DEF ServiceAddRoleInheritance, AddBuiltInInheritance
      <4>. QED
        BY <2>0, <4>1, LinkKeepsComplete
    <3>2. CASE ~ ({parent, child} \subseteq BuiltInRole)
      <4>1. /\ roleInheritance' = roleInheritance \cup {<<parent, child>>}
            /\ roleClosure' = Link(roleClosure, parent, child)
            /\ UNCHANGED <<builtInInheritance, builtInClosure>>
        BY <2>4, <3>2 DEF ServiceAddRoleInheritance, AddRoleInheritance
      <4>. QED
        BY <2>0, <3>2, <4>1, LinkKeepsComplete
    <3>. QED
      BY <3>1, <3>2
  <2>5. ASSUME NEW principal \in Principal, NEW role \in RoleID, NEW binding \in Binding,
               ServiceAssignRole(principal, role, binding)
        PROVE  HalvesInv'
    BY <2>5 DEF ServiceAssignRole, AssignRole
  <2>6. ASSUME NEW principal \in Principal, NEW role \in RoleID, NEW binding \in Binding,
               ServiceUnassignRole(principal, role, binding)
        PROVE  HalvesInv'
    BY <2>6 DEF ServiceUnassignRole, UnassignRole
  <2>7. ASSUME EnsureSyntheticRoles
        PROVE  HalvesInv'
    BY <2>7, SeedKeepsComplete DEF EnsureSyntheticRoles
  <2>8. CASE UNCHANGED vars
    BY <2>8 DEF vars
  <2>. QED
    BY <2>1, <2>2, <2>3, <2>4, <2>5, <2>6, <2>7, <2>8 DEF Next
<1>. QED
  BY <1>1, <1>2, AdministrationTypeCorrect, PTL DEF Spec

(* Expanding in the store first and in the registry second misses nothing   *)
(* of the joint hierarchy while no edge leads from a built-in role to one   *)
(* of the store: the result is closed under the edges of both halves.       *)
THEOREM LayeredExpansionComplete == Spec => []ExpandsLayeredHierarchy
<1>1. RoleAdministrationTypeOK /\ HalvesInv => ExpandsLayeredHierarchy
  <2> SUFFICES ASSUME RoleAdministrationTypeOK, HalvesInv, Upward = {},
                      NEW root \in RoleID
               PROVE  Inherited(Reach(Declared), root) \subseteq ServiceExpandRoles({root})
    BY DEF ExpandsLayeredHierarchy
  <2> DEFINE mid == ExpandRoles({root} \ BuiltInRole) \cup {root}
             row == ServiceExpandRoles({root})
  <2>0. /\ builtInInheritance \subseteq BuiltInRole \X BuiltInRole
        /\ builtInClosure \subseteq BuiltInRole \X BuiltInRole
        /\ roleInheritance \subseteq RoleID \X RoleID
        /\ roleClosure \subseteq RoleID \X RoleID
    BY DEF RoleAdministrationTypeOK, BuiltInRegistryTypeOK,
           BootstrapRolesTypeOK
  <2>1. mid = {root} \cup (IF root \in BuiltInRole THEN {} ELSE Inherited(roleClosure, root))
    BY DEF ExpandRoles, Expand, Inherited
  <2>2. row = mid \cup UNION {Inherited(builtInClosure, r) : r \in mid}
    BY DEF ServiceExpandRoles, ExpandBuiltIns, Expand, Inherited
  <2> HIDE DEF mid, row
  <2>3. row \in SUBSET RoleID /\ root \in row
    BY <2>1, <2>2 DEF Inherited
  <2>4. ASSUME NEW x \in RoleID, NEW y \in RoleID, <<x, y>> \in roleInheritance, x \in row
        PROVE  y \in row
    <3>1. x \notin BuiltInRole
      <4> SUFFICES ASSUME x \in BuiltInRole PROVE FALSE
        OBVIOUS
      <4>1. y \notin BuiltInRole
        BY <2>4 DEF HalvesInv
      <4>. QED
        BY <2>4, <4>1 DEF Upward, Declared
    <3>2. x \in mid
      <4>1. ASSUME NEW r, <<r, x>> \in builtInClosure PROVE FALSE
        BY <2>0, <3>1, <4>1
      <4>. QED
        BY <2>2, <2>4, <4>1 DEF Inherited
    <3>3. root \notin BuiltInRole /\ (x = root \/ <<root, x>> \in roleClosure)
      BY <2>1, <3>1, <3>2 DEF Inherited
    <3>4. <<root, y>> \in roleClosure
      BY <2>4, <3>3 DEF HalvesInv, IsComplete, IsTransitive
    <3>. QED
      BY <2>1, <2>2, <3>3, <3>4 DEF Inherited
  <2>5. ASSUME NEW x \in RoleID, NEW y \in RoleID, <<x, y>> \in builtInInheritance, x \in row
        PROVE  y \in row
    <3>1. <<x, y>> \in builtInClosure
      BY <2>5 DEF HalvesInv, IsComplete
    <3>2. CASE x \in mid
      BY <2>2, <3>1, <3>2 DEF Inherited
    <3>3. CASE x \notin mid
      <4>1. PICK r \in mid : <<r, x>> \in builtInClosure
        BY <2>2, <2>5, <3>3 DEF Inherited
      <4>2. r \in RoleID
        BY <2>2, <2>3
      <4>3. <<r, y>> \in builtInClosure
        BY <3>1, <4>1, <4>2 DEF HalvesInv, IsComplete, IsTransitive
      <4>. QED
        BY <2>2, <4>3 DEF Inherited
    <3>. QED
      BY <3>2, <3>3
  <2>6. row \in ClosedSets(Declared)
    <3> SUFFICES ASSUME NEW e \in Declared, e[1] \in row
                 PROVE  e[2] \in row
      BY <2>3 DEF ClosedSets
    <3>1. PICK x \in RoleID, y \in RoleID : e = <<x, y>>
      BY <2>0, BuiltInRoleAssumption DEF Declared
    <3>. QED
      BY <2>4, <2>5, <3>1 DEF Declared
  <2>. QED
    BY <2>3, <2>6 DEF Inherited, Reach, row
<1>. QED
  BY <1>1, AdministrationTypeCorrect, HalvesStayComplete, PTL
=============================================================================
