---------------------------- MODULE RoleClosure ----------------------------
(***************************************************************************)
(* Role inheritance as data.  builtInRegistry and bootstrapStore keep the  *)
(* same two maps, with the same code:                                      *)
(*   roleInheritance   parent -> set of its direct children                *)
(*   roleClosure       ancestor -> set of everything it inherits           *)
(* Both are relations here: sets of pairs <<parent, child>>.  A role with  *)
(* no entry in the Go map has no pair; a role with an entry has at least   *)
(* the pair with itself, so "no entry" and "no self pair" coincide.        *)
(***************************************************************************)
CONSTANT RoleID   \* every role identifier a caller may name

\* What a role inherits, itself included: the row closure[role].
Inherited(closure, role) == {d \in RoleID : <<role, d>> \in closure}

\* The roles whose row contains role.
Heirs(closure, role) == {a \in RoleID : <<a, role>> \in closure}

\* Mutant of Link: only parent gains child's row, its heirs do not.
LinkParentOnly(closure, parent, child) ==
    LET seeded == closure \cup {<<parent, parent>>, <<child, child>>}
    IN  seeded \cup ({parent} \X Inherited(seeded, child))

\* Mutant of Link: the heirs gain child and not what child inherits.
LinkChildOnly(closure, parent, child) ==
    LET seeded == closure \cup {<<parent, parent>>, <<child, child>>}
    IN  seeded \cup (Heirs(seeded, parent) \X {child})

\* The closure after parent has been made to inherit child: both rows are
\* seeded with themselves, then every heir of parent gets child's whole row.
Link(closure, parent, child) ==
    LET seeded == closure \cup {<<parent, parent>>, <<child, child>>}
    IN  seeded \cup (Heirs(seeded, parent) \X Inherited(seeded, child))

\* A relation with every pair that mentions role removed.
Without(relation, role) == {e \in relation : e[1] # role /\ e[2] # role}

\* ExpandRoles: the given roles and everything their rows hold.
Expand(closure, roots) == roots \cup UNION {Inherited(closure, r) : r \in roots}

-----------------------------------------------------------------------------
(* The reference: reachability in the graph of direct edges, stated without *)
(* recursion.  b is reachable from a when every set of roles that is closed *)
(* under the edges and holds a holds b.                                     *)

ClosedSets(edges) ==
    {S \in SUBSET RoleID : \A e \in edges : e[1] \in S => e[2] \in S}

Reachable(edges, a, b) == \A S \in ClosedSets(edges) : a \in S => b \in S

Reach(edges) ==
    LET closed == ClosedSets(edges)
    IN  {p \in RoleID \X RoleID : \A S \in closed : p[1] \in S => p[2] \in S}

Identity == {<<r, r>> : r \in RoleID}

(* What the operations keep true of a closure, and why it suffices: a       *)
(* transitive relation that holds the edges is not missing anything, and a  *)
(* sound one holds nothing that is not inherited.                           *)

IsTransitive(closure) ==
    \A x, y, z \in RoleID :
        <<x, y>> \in closure /\ <<y, z>> \in closure => <<x, z>> \in closure

IsComplete(closure, edges) == edges \subseteq closure /\ IsTransitive(closure)

IsSound(closure, edges) ==
    \A a, b \in RoleID : <<a, b>> \in closure => Reachable(edges, a, b)
=============================================================================
