------------------------- MODULE MCBuiltInRegistry -------------------------
(* Four built-in roles: two chains of one edge each and the edge that joins *)
(* them is the first case in which a row has to be copied to an heir of the *)
(* parent.  One custom role, which the registry refuses.                    *)
EXTENDS BuiltInRegistry, TLC

CONSTANTS b1, b2, b3, b4, custom

MCBuiltInRole == {b1, b2, b3, b4}
MCRoleID == MCBuiltInRole \cup {custom}
\* b1 owns the grant; nothing tells the other three apart.
MCSymmetry == Permutations({b2, b3, b4})
MCGrant == {[owner |-> b1], [owner |-> custom]}
=============================================================================
