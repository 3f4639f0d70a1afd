-------------------------- MODULE MCBootstrapRoles --------------------------
(* Three roles the store can define, so that one can be deleted from the    *)
(* middle of a chain, and a built-in role that exists only for assignments  *)
(* and as the end of an edge.  42 and "42" print alike and differ in type.  *)
EXTENDS BootstrapRoles, Naturals, FiniteSets, TLC

CONSTANTS r1, r2, r3, builtin, user, int42, str42

MCRoleID == {r1, r2, r3, builtin}
MCTextOf == [b \in Binding |-> "42"]
MCSymmetry == Permutations({r1, r2, r3})

\* Bound: states with more than three edges and assignments together are not
\* explored further.  Three edges join two chains or close a cycle through a
\* role that is then deleted; two assignments are enough for a duplicate.
Small == Cardinality(assignments) + Cardinality(roleInheritance) <= 3
=============================================================================
