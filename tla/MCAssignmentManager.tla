------------------------ MODULE MCAssignmentManager ------------------------
(* A user, a group, a team; the manager is that of team t1.  "t1 object" are*)
(* binding values that name an object as well: they match the scope and are *)
(* not the ones the manager writes.  "t2" belongs to another team.          *)
EXTENDS AssignmentManager

CONSTANTS owner, guest

u1 == [kind |-> "user", id |-> "u1"]
g1 == [kind |-> "group", id |-> "g1"]
team == [kind |-> "team", id |-> "t1"]

MCPrincipal == {u1, g1, team}

MakeRule(type, roles, kinds, min, max) ==
    [type |-> type, roles |-> roles, kinds |-> kinds, min |-> min, max |-> max]

LastOwner == MakeRule("atLeast", {owner}, Kind, 1, 0)

MCAssignmentRules ==
    {LastOwner,
     MakeRule("combine", {owner, guest}, {}, 0, 0),
     MakeRule("minMax", {guest}, Kind, 0, 1),
     MakeRule("addSelf", {}, {}, 0, 0),
     MakeRule("removeSelf", {owner}, {}, 0, 0)}

MCRemovalRules == {LastOwner}

MCInitial ==
    {[principal |-> u1, role |-> owner, binding |-> "t1"],
     [principal |-> u1, role |-> owner, binding |-> "t1 object"],
     [principal |-> g1, role |-> owner, binding |-> "t1 object"],
     [principal |-> g1, role |-> owner, binding |-> "t2"],
     [principal |-> team, role |-> guest, binding |-> "t2"]}
=============================================================================
