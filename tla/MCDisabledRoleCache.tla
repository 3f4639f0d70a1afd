------------------------ MODULE MCDisabledRoleCache ------------------------
(* Two threads of one Service race with each other and with the clock; two  *)
(* roles, so that a toggle of one falls between a toggle and a read of the  *)
(* other.  No symmetry: the run checks liveness too.                        *)
EXTENDS DisabledRoleCache

CONSTANTS t1, t2, s1

MCServiceOf == [t \in Thread |-> s1]
=============================================================================
