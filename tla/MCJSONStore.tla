----------------------------- MODULE MCJSONStore -----------------------------
(* One fact of each kind that a call can write, and a team's member, which  *)
(* only SetData brings.                                                     *)
EXTENDS JSONStore, TLC

CONSTANTS t1, t2

MCFact ==
    {[kind |-> "grant", owner |-> "u1"], [kind |-> "assignment", owner |-> "u1"],
     [kind |-> "edge", owner |-> "r1"], [kind |-> "membership", owner |-> "team"]}

MCSymmetry == Permutations({t1, t2})
=============================================================================
