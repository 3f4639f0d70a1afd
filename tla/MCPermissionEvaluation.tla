----------------------- MODULE MCPermissionEvaluation -----------------------
(* One user, one group, one team that holds assignments.  custom inherits   *)
(* base and the built-in role; the user may hold custom, the group base and *)
(* the team the built-in role.                                              *)
EXTENDS EffectivePermissions

MCRole == {"custom", "base", "builtin", "builtin.authenticated"}
MCInherits ==
    [r \in MCRole |-> IF r = "custom" THEN {"custom", "base", "builtin"} ELSE {r}]

Make(owner, effect, scope, variable, fields, expires) ==
    [owner |-> owner, effect |-> effect, scope |-> scope, variable |-> variable,
     fields |-> fields, expires |-> expires]

\* Each kind of owner, scope, restriction and expiry, allows and denies mixed.
MCGrant ==
    {Make("user", "allow", "*", FALSE, {}, 1),
     Make("group", "deny", "t1", FALSE, {}, Never),
     Make("user", "deny", "*", FALSE, {"f"}, Never),
     Make("base", "allow", "t1", FALSE, {}, Never),
     Make("builtin", "allow", "?team", TRUE, {}, Never),
     Make("builtin.authenticated", "allow", "t1", FALSE, {"f"}, Never),
     Make("custom", "deny", "?team", TRUE, {}, 1)}

MCAssignment ==
    {[principal |-> "user", role |-> "custom", binding |-> "*"],
     [principal |-> "group", role |-> "base", binding |-> "t1"],
     [principal |-> "team", role |-> "builtin", binding |-> "t1"]}

MCCovers == {<<"f", "f">>, <<"f", "f.g">>}

MCRequest ==
    {[team |-> "t1", field |-> "whole"],
     [team |-> "", field |-> "whole"],
     [team |-> "t1", field |-> "f.g"]}
=============================================================================
