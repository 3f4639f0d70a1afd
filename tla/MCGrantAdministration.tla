----------------------- MODULE MCGrantAdministration -----------------------
(* A plain and a scoped grant of two owners, so that one can be deleted     *)
(* while the other stays.  Two calls at a time, one of them for both: it    *)
(* can fail after the first.  Three rows on pages of one row.               *)
EXTENDS GrantAdministration

CONSTANTS plain, scoped, a, b, t1, t2

MCGrant == {plain, scoped}
MCOwnerOf == [g \in MCGrant |-> IF g = scoped THEN b ELSE a]
MCCreateList == {<<plain>>}
MCEnsureList == {<<plain, scoped>>, <<scoped>>}
MCSymmetry == Permutations({t1, t2})
=============================================================================
