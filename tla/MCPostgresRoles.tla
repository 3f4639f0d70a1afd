-------------------------- MODULE MCPostgresRoles --------------------------
(* Three roles and two sessions: enough for two links, a -> b and b -> c,   *)
(* to overlap so that each misses the other, and for a third to repair it.  *)
EXTENDS PostgresRoles, FiniteSets, Naturals, TLC

CONSTANTS r1, r2, r3, builtin, s1, s2

MCSymmetry == Permutations({r1, r2, r3}) \cup Permutations({s1, s2})

\* Bound: states with more than three committed edges are not explored
\* further.
Small == Cardinality(inheritance) <= 3
=============================================================================
