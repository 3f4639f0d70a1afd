--------------------------- MODULE RoleHierarchy ---------------------------
(***************************************************************************)
(* What role inheritance promises, whatever keeps it: there is a graph of  *)
(* declared edges, and a role inherits exactly the roles it can reach.     *)
(* builtInRegistry and, as long as no role is deleted, bootstrapStore      *)
(* implement this by maintaining a closure step by step.                   *)
(***************************************************************************)
EXTENDS RoleClosure

VARIABLES edges,      \* the declared edges <<parent, child>>
          inherits    \* <<a, b>> \in inherits: expanding a yields b

hierarchyVars == <<edges, inherits>>

HierarchyInit ==
    /\ edges = {}
    /\ inherits = Reach({})

\* parent now inherits all that child does; no role inherits itself.
Declare(parent, child) ==
    /\ parent # child
    /\ edges' = edges \cup {<<parent, child>>}
    /\ inherits' = Reach(edges')

\* role leaves the hierarchy with all of its edges.
Forget(role) ==
    /\ edges' = Without(edges, role)
    /\ inherits' = Reach(edges')

HierarchyNext ==
    \/ \E parent, child \in RoleID : Declare(parent, child)
    \/ \E role \in RoleID : Forget(role)

HierarchySpec == HierarchyInit /\ [][HierarchyNext]_hierarchyVars

-----------------------------------------------------------------------------
(* A weaker promise, over the relation alone: inheriting is a preorder, an  *)
(* edge adds what it makes reachable, and a deleted role is taken out while *)
(* what was inherited through it stays.                                     *)

PreorderInit == inherits = Identity

Connect(parent, child) ==
    /\ <<parent, child>> \in inherits' \ inherits
    /\ inherits' = Reach(inherits \cup {<<parent, child>>})

Erase(role) == inherits' = Without(inherits, role) \cup Identity

PreorderNext ==
    \/ \E parent, child \in RoleID : Connect(parent, child)
    \/ \E role \in RoleID : Erase(role)

PreorderSpec == PreorderInit /\ [][PreorderNext]_inherits
=============================================================================
