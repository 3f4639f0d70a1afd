---------------------------- MODULE MCCachedStore ----------------------------
(* Two threads and two keys: a write can change one or both, and a read of  *)
(* the other thread can be anywhere while it does.                          *)
EXTENDS CachedStore, TLC

CONSTANTS k1, k2, v1, v2, t1, t2

MCSymmetry == Permutations({k1, k2}) \cup Permutations({v1, v2}) \cup Permutations({t1, t2})
=============================================================================
