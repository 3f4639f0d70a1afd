------------------------ MODULE MCRoleAdministration ------------------------
(* Two built-in roles and two of the store: the smallest hierarchy with an  *)
(* edge inside each half and one across.  The synthetic roles are one of    *)
(* each half (the IDs are configurable), so that seeding can stop early.    *)
EXTENDS RoleAdministration, FiniteSets

CONSTANTS b1, b2, c1, c2, user, int42

MCBuiltInRole == {b1, b2}
MCRoleID == MCBuiltInRole \cup {c1, c2}
MCTextOf == [b \in Binding |-> "42"]
MCSyntheticRole == <<c1, b1>>

\* Bound: states with more than three edges and assignments together are not
\* explored further.
Small == Cardinality(assignments) + Cardinality(Declared) <= 3
=============================================================================
