-------------------------- MODULE AssignmentManager --------------------------
(***************************************************************************)
(* role_assignment_manager.go: administrators assign and remove roles on   *)
(* one resource (a team, an object) under rules.  A call reads the         *)
(* assignments several times, lets every rule look at what it would lead   *)
(* to, and then applies the change one store call after another; nothing   *)
(* keeps the store still in between.                                       *)
(*                                                                         *)
(* The rules look at role IDs only, so what a call keeps of an assignment  *)
(* it read is its role.  Every administrator's manager has the same scope  *)
(* and the same rules.                                                     *)
(***************************************************************************)
EXTENDS Naturals, FiniteSets

CONSTANTS
    Principal,      \* [kind, id]: users, groups and teams
    Role, Managed,  \* roles; managedRoles, those the cleanups go through
    Binding,        \* binding values of an assignment
    InScope,        \* those that match the manager's team and object
    ScopeBinding,   \* the one the manager itself writes
    AssignmentRules, RemovalRules,   \* sets of Rule
    Admin,          \* callers, one call at a time each
    Nobody,         \* the nil assigner
    Initial         \* assignments that may exist at the start

Kind == {"user", "group", "team"}

\* roles: the roles a self rule names, the two of a combination, or the one that
\* is counted.  kinds: all of Kind when the rule's Kind is nil, else that one.
Rule == [type : {"addSelf", "removeSelf", "combine", "minMax", "atLeast"},
         roles : SUBSET Role, kinds : SUBSET Kind, min : Nat, max : Nat]

Assignment == [principal : Principal, role : Role, binding : Binding]

ASSUME PrincipalAssumption == \A p \in Principal : p.kind \in Kind
ASSUME RolesAssumption == IsFiniteSet(Role)
ASSUME ScopeAssumption == ScopeBinding \in InScope /\ InScope \subseteq Binding
ASSUME ManagedAssumption == Managed \subseteq Role
ASSUME NobodyAssumption == Nobody \notin Principal
ASSUME InitialAssumption == Initial \subseteq Assignment
ASSUME RulesAssumption ==
    /\ \A r \in AssignmentRules : r \in Rule
    /\ \A r \in RemovalRules : r \in Rule /\ r.type = "atLeast"

VARIABLES
    assignments,    \* in the store
    pc, call,       \* per administrator: where it is, and what it was asked
    assignee,       \* whose roles are being changed
    wanted,         \* desired: roles the assignee is to hold
    current, proposed,   \* roles held, and to be held, as the rules see them
    rules,          \* rules not yet consulted
    todo,           \* assignments still to be written or removed
    left,           \* principals, or managed roles, a long call has yet to come to
    failed, result  \* an error was collected; what the last call returned

locals == <<call, assignee, wanted, current, proposed, rules, left, failed, result>>
vars == <<assignments, pc, locals, todo>>

Op == {"none", "add", "remove", "bulk", "cleanup", "team"}

NoCall == [op |-> "none", by |-> Nobody, who |-> {}]

AssignmentManagerTypeOK ==
    /\ assignments \subseteq Assignment
    /\ pc \in [Admin -> {"idle", "wanted", "current", "proposed", "rules", "apply",
                         "removal", "bulk", "cleanup", "team"}]
    /\ call \in [Admin -> [op : Op, by : Principal \cup {Nobody}, who : SUBSET Principal]]
    /\ assignee \in [Admin -> Principal \cup {Nobody}]
    /\ wanted \in [Admin -> SUBSET Role]
    /\ current \in [Admin -> SUBSET Role]
    /\ proposed \in [Admin -> SUBSET Role]
    /\ rules \in [Admin -> SUBSET (AssignmentRules \cup RemovalRules)]
    /\ todo \in [Admin -> SUBSET Assignment]
    /\ left \in [Admin -> SUBSET (Principal \cup Role)]
    /\ failed \in [Admin -> BOOLEAN]
    /\ result \in [Admin -> {"none", "ok", "error"}]

Init ==
    /\ assignments \in SUBSET Initial
    /\ pc = [a \in Admin |-> "idle"]
    /\ call = [a \in Admin |-> NoCall]
    /\ assignee = [a \in Admin |-> Nobody]
    /\ wanted = [a \in Admin |-> {}]
    /\ current = [a \in Admin |-> {}]
    /\ proposed = [a \in Admin |-> {}]
    /\ rules = [a \in Admin |-> {}]
    /\ todo = [a \in Admin |-> {}]
    /\ left = [a \in Admin |-> {}]
    /\ failed = [a \in Admin |-> FALSE]
    /\ result = [a \in Admin |-> "none"]

-----------------------------------------------------------------------------
(* What the rules say *)

\* RoleAssignmentsForRoleID and filterAssignmentHitsByScope
Hits(role) == {x \in assignments : x.role = role /\ x.binding \in InScope}

HitsOfKind(roles, kind) ==
    {x \in UNION {Hits(r) : r \in roles} : x.principal.kind = kind}

\* RoleAssignmentsForPrincipal and filterAssignmentsByScope
HitsOf(p) == {x \in assignments : x.principal = p /\ x.binding \in InScope}

Held(p) == {x.role : x \in HitsOf(p)}

\* Mutant of AtLeastRefuses: holders in other scopes count as well.
AtLeastAnywhere(rule, p, cur, prop) ==
    \A k \in rule.kinds :
        LET own(roles) == IF p.kind = k THEN Cardinality(roles \cap rule.roles) ELSE 0
            all == {x \in assignments : x.role \in rule.roles /\ x.principal.kind = k}
        IN  Cardinality(all) + own(prop \ cur) = own(cur \ prop)

\* RequireAtLeastRule counts the kinds after an addition and compares them with
\* what is taken away; Min is only printed.
AtLeastRefuses(rule, p, cur, prop) ==
    \A k \in rule.kinds :
        LET own(roles) == IF p.kind = k THEN Cardinality(roles \cap rule.roles) ELSE 0
        IN  Cardinality(HitsOfKind(rule.roles, k)) + own(prop \ cur) = own(cur \ prop)

\* MinMaxInstancesRule: of the assignments there are, it counts those of the
\* principals that the proposal mentions, which is the assignee.
MinMaxCount(rule, p, prop) ==
    LET counted == {x \in UNION {HitsOfKind(rule.roles, k) : k \in rule.kinds} :
                      x.principal.id = p.id /\ x.role \in prop}
    IN  Cardinality(counted)

\* ValidateAssignment of each rule
Refuses(rule, by, p, cur, prop) ==
    \/ rule.type = "addSelf" /\ by = p
         /\ IF rule.roles = {} THEN prop \ cur # {} ELSE (prop \ cur) \cap rule.roles # {}
    \/ rule.type = "removeSelf" /\ by = p
         /\ IF rule.roles = {} THEN cur \ prop # {} ELSE (cur \ prop) \cap rule.roles # {}
    \/ rule.type = "combine" /\ rule.roles \subseteq prop
    \/ rule.type = "minMax" /\ \/ MinMaxCount(rule, p, prop) < rule.min
                               \/ rule.max > 0 /\ MinMaxCount(rule, p, prop) > rule.max
    \/ rule.type = "atLeast" /\ AtLeastRefuses(rule, p, cur, prop)

\* ValidateRemoval: everybody who has the role is among those to be removed.
RefusesRemoval(rule, who) ==
    \A k \in rule.kinds :
        \A x \in HitsOfKind(rule.roles, k) : k # "team" /\ x.principal \in who

-----------------------------------------------------------------------------
(* The steps of a call *)

Set(f, a, v) == [f EXCEPT ![a] = v]

Goto(a, from, to) == pc[a] = from /\ pc' = Set(pc, a, to)

\* What a call writes to or removes from the store, as the store will be asked.
Own(p, roles) == {[principal |-> p, role |-> r, binding |-> ScopeBinding] : r \in roles}

\* A call begins: op by one principal about others, first at label to.
Begin(a, op, by, who, to) ==
    /\ Goto(a, "idle", to)
    /\ call' = Set(call, a, [op |-> op, by |-> by, who |-> who])
    /\ result' = Set(result, a, "none")
    /\ UNCHANGED <<assignments, wanted, current, proposed, failed>>

AddRoles(a, p, roles, by) ==
    /\ Begin(a, "add", by, {p}, "wanted")
    /\ assignee' = Set(assignee, a, p)
    /\ todo' = Set(todo, a, Own(p, roles))
    /\ UNCHANGED <<rules, left>>

RemoveRoles(a, p, roles, by) ==
    /\ Begin(a, "remove", by, {p}, "wanted")
    /\ assignee' = Set(assignee, a, p)
    /\ todo' = Set(todo, a, Own(p, roles))
    /\ UNCHANGED <<rules, left>>

RemoveBulkUsers(a, who, by) ==
    /\ \A p \in who : p.kind # "team"
    /\ Begin(a, "bulk", by, who, "removal")
    /\ rules' = Set(rules, a, RemovalRules)
    /\ left' = Set(left, a, who)
    /\ UNCHANGED <<assignee, todo>>

CleanupAllRoleAssignments(a) ==
    /\ Begin(a, "cleanup", Nobody, {}, "cleanup")
    /\ left' = Set(left, a, Managed)
    /\ UNCHANGED <<assignee, rules, todo>>

CleanupTeamRoleAssignments(a, team) ==
    /\ team.kind = "team"
    /\ Begin(a, "team", Nobody, {team}, "team")
    /\ assignee' = Set(assignee, a, team)
    /\ UNCHANGED <<rules, todo, left>>

\* The call returns, and its locals are gone.
Return(a, error) ==
    /\ pc' = Set(pc, a, "idle")
    /\ result' = Set(result, a, IF error THEN "error" ELSE "ok")
    /\ assignee' = Set(assignee, a, Nobody)
    /\ wanted' = Set(wanted, a, {}) /\ current' = Set(current, a, {})
    /\ proposed' = Set(proposed, a, {}) /\ rules' = Set(rules, a, {})
    /\ todo' = Set(todo, a, {}) /\ left' = Set(left, a, {})
    /\ failed' = Set(failed, a, FALSE)
    /\ UNCHANGED call

\* AddRoles or RemoveRoles ends; a bulk removal collects the error and goes on
\* with the next principal.
EndOne(a, error) ==
    IF call[a].op = "bulk"
    THEN /\ pc' = Set(pc, a, "bulk")
         /\ failed' = Set(failed, a, failed[a] \/ error)
         /\ todo' = Set(todo, a, {})
         /\ UNCHANGED <<call, assignee, wanted, current, proposed, rules, left, result>>
    ELSE Return(a, error)

-----------------------------------------------------------------------------
(* CanAddRoles, CanRemoveRoles: three reads of the assignee's roles, then   *)
(* the rules                                                                *)

ReadWanted(a) ==
    LET roles == {x.role : x \in todo[a]}
    IN  /\ Goto(a, "wanted", "current")
        /\ wanted' = Set(wanted, a, IF call[a].op = "add" THEN Held(assignee[a]) \cup roles
                                    ELSE Held(assignee[a]) \ roles)
        /\ UNCHANGED <<assignments, call, assignee, current, proposed, rules, todo, left,
                       failed, result>>

\* Mutant of ReadCurrent: roles held in other scopes count as held.
ReadCurrentAnywhere(a) ==
    /\ Goto(a, "current", "proposed")
    /\ current' = Set(current, a,
                      {x.role : x \in {y \in assignments : y.principal = assignee[a]}})
    /\ UNCHANGED <<assignments, call, assignee, wanted, proposed, rules, todo, left,
                   failed, result>>

\* canMakeAssignmentChange
ReadCurrent(a) ==
    /\ Goto(a, "current", "proposed")
    /\ current' = Set(current, a, Held(assignee[a]))
    /\ UNCHANGED <<assignments, call, assignee, wanted, proposed, rules, todo, left,
                   failed, result>>

\* Mutant of ComputeProposed: the rules are shown only what is added.
ProposeAdditions(a) ==
    /\ Goto(a, "proposed", "rules")
    /\ proposed' = Set(proposed, a, wanted[a] \ Held(assignee[a]))
    /\ rules' = Set(rules, a, AssignmentRules)
    /\ UNCHANGED <<assignments, call, assignee, wanted, current, todo, left, failed, result>>

\* computeProposed reads once more and takes the difference from what it finds.
ComputeProposed(a) ==
    LET now == Held(assignee[a])
    IN  /\ Goto(a, "proposed", "rules")
        /\ proposed' = Set(proposed, a,
                           (current[a] \ (now \ wanted[a])) \cup (wanted[a] \ now))
        /\ rules' = Set(rules, a, AssignmentRules)
        /\ UNCHANGED <<assignments, call, assignee, wanted, current, todo, left,
                       failed, result>>

ReadFails(a) ==
    /\ pc[a] \in {"wanted", "current", "proposed"}
    /\ EndOne(a, TRUE)
    /\ UNCHANGED assignments

RefusedBy(a, rule) ==
    Refuses(rule, call[a].by, assignee[a], current[a], proposed[a])

PassRule(a, rule) ==
    /\ pc[a] = "rules" /\ rule \in rules[a]
    /\ ~ RefusedBy(a, rule)
    /\ rules' = Set(rules, a, rules[a] \ {rule})
    /\ UNCHANGED <<assignments, pc, call, assignee, wanted, current, proposed, todo, left,
                   failed, result>>

\* A rule refuses, or cannot read the assignments it counts.
FailRule(a, rule) ==
    /\ pc[a] = "rules" /\ rule \in rules[a]
    /\ RefusedBy(a, rule) \/ rule.type \in {"minMax", "atLeast"}
    /\ EndOne(a, TRUE)
    /\ UNCHANGED assignments

Approve(a) ==
    /\ rules[a] = {}
    /\ Goto(a, "rules", "apply")
    /\ UNCHANGED <<assignments, locals, todo>>

-----------------------------------------------------------------------------
(* The change *)

\* What the store is asked: all but the cleanup of a team name the manager's own
\* binding values, whatever those of the assignment found are.
Asked(a, x) == IF call[a].op = "team" THEN x ELSE [x EXCEPT !.binding = ScopeBinding]

Apply(a, x) ==
    /\ pc[a] = "apply" /\ x \in todo[a]
    /\ IF call[a].op = "add"
       THEN assignments' = assignments \cup {Asked(a, x)}
       ELSE /\ Asked(a, x) \in assignments
            /\ assignments' = assignments \ {Asked(a, x)}
    /\ todo' = Set(todo, a, todo[a] \ {x})
    /\ UNCHANGED <<pc, locals>>

\* Mutant of ApplyFails: a cleanup does not collect the error.
ApplyFailsSilently(a, x) ==
    /\ pc[a] = "apply" /\ x \in todo[a]
    /\ IF call[a].op \in {"cleanup", "team"}
       THEN /\ todo' = Set(todo, a, todo[a] \ {x})
            /\ UNCHANGED <<pc, locals>>
       ELSE EndOne(a, TRUE)
    /\ UNCHANGED assignments

\* The store fails, or has no such assignment to remove.
ApplyFails(a, x) ==
    /\ pc[a] = "apply" /\ x \in todo[a]
    /\ IF call[a].op \in {"cleanup", "team"}
       THEN /\ failed' = Set(failed, a, TRUE)
            /\ todo' = Set(todo, a, todo[a] \ {x})
            /\ UNCHANGED <<pc, call, assignee, wanted, current, proposed, rules, left, result>>
       ELSE EndOne(a, TRUE)
    /\ UNCHANGED assignments

Applied(a) ==
    /\ pc[a] = "apply" /\ todo[a] = {}
    /\ CASE call[a].op = "cleanup" -> pc' = Set(pc, a, "cleanup") /\ UNCHANGED <<locals, todo>>
         [] call[a].op = "team" -> Return(a, failed[a])
         [] OTHER -> EndOne(a, FALSE)
    /\ UNCHANGED assignments

-----------------------------------------------------------------------------
(* RemoveBulkUsers and the cleanups *)

PassRemoval(a, rule) ==
    /\ pc[a] = "removal" /\ rule \in rules[a]
    /\ ~ RefusesRemoval(rule, call[a].who)
    /\ rules' = Set(rules, a, rules[a] \ {rule})
    /\ UNCHANGED <<assignments, pc, call, assignee, wanted, current, proposed, todo, left,
                   failed, result>>

\* The rule refuses, or cannot read the assignments.
FailRemoval(a) ==
    /\ pc[a] = "removal" /\ rules[a] # {}
    /\ Return(a, TRUE)
    /\ UNCHANGED assignments

ApproveRemoval(a) ==
    /\ rules[a] = {}
    /\ Goto(a, "removal", "bulk")
    /\ UNCHANGED <<assignments, locals, todo>>

\* Mutant of BulkNext: the roles are kept and not the assignments.
BulkNextRoles(a, p) ==
    /\ Goto(a, "bulk", "wanted")
    /\ p \in left[a]
    /\ assignee' = Set(assignee, a, p)
    /\ todo' = Set(todo, a, Held(p))
    /\ left' = Set(left, a, left[a] \ {p})
    /\ UNCHANGED <<assignments, call, wanted, current, proposed, rules, failed, result>>

\* Users first, then groups: the roles of the next one are read and removed.
BulkNext(a, p) ==
    /\ Goto(a, "bulk", "wanted")
    /\ p \in left[a]
    /\ p.kind = "user" \/ \A q \in left[a] : q.kind # "user"
    /\ assignee' = Set(assignee, a, p)
    /\ todo' = Set(todo, a, HitsOf(p))
    /\ left' = Set(left, a, left[a] \ {p})
    /\ UNCHANGED <<assignments, call, wanted, current, proposed, rules, failed, result>>

BulkReadFails(a) ==
    /\ pc[a] = "bulk" /\ left[a] # {}
    /\ Return(a, TRUE)
    /\ UNCHANGED assignments

CleanupRole(a, role) ==
    /\ role \in left[a]
    /\ Goto(a, "cleanup", "apply")
    /\ todo' = Set(todo, a, Hits(role))
    /\ left' = Set(left, a, left[a] \ {role})
    /\ UNCHANGED <<assignments, call, assignee, wanted, current, proposed, rules, failed, result>>

CleanupReadFails(a, role) ==
    /\ pc[a] = "cleanup" /\ role \in left[a]
    /\ left' = Set(left, a, left[a] \ {role})
    /\ failed' = Set(failed, a, TRUE)
    /\ UNCHANGED <<assignments, pc, call, assignee, wanted, current, proposed, rules, todo, result>>

EndLoop(a) ==
    /\ pc[a] \in {"bulk", "cleanup"} /\ left[a] = {}
    /\ Return(a, failed[a])
    /\ UNCHANGED assignments

\* Every managed role the team itself holds, whatever the scope.
CleanupTeam(a) ==
    /\ Goto(a, "team", "apply")
    /\ todo' = Set(todo, a, {x \in assignments : x.principal = assignee[a] /\ x.role \in Managed})
    /\ UNCHANGED <<assignments, locals>>

TeamReadFails(a) ==
    /\ pc[a] = "team"
    /\ Return(a, TRUE)
    /\ UNCHANGED assignments

Ask(a) ==
    \/ \E p \in Principal, roles \in SUBSET Role, by \in Principal \cup {Nobody} :
         AddRoles(a, p, roles, by) \/ RemoveRoles(a, p, roles, by)
    \/ \E who \in SUBSET Principal, by \in Principal \cup {Nobody} : RemoveBulkUsers(a, who, by)
    \/ CleanupAllRoleAssignments(a)
    \/ \E p \in Principal : CleanupTeamRoleAssignments(a, p)

Validate(a) ==
    \/ ReadWanted(a) \/ ReadCurrent(a) \/ ComputeProposed(a) \/ ReadFails(a)
    \/ \E rule \in rules[a] : PassRule(a, rule) \/ FailRule(a, rule) \/ PassRemoval(a, rule)
    \/ Approve(a) \/ ApproveRemoval(a) \/ FailRemoval(a)

Change(a) ==
    \/ \E x \in todo[a] : Apply(a, x) \/ ApplyFails(a, x)
    \/ Applied(a)
    \/ \E p \in left[a] : BulkNext(a, p)
    \/ \E role \in left[a] : CleanupRole(a, role) \/ CleanupReadFails(a, role)
    \/ BulkReadFails(a) \/ EndLoop(a) \/ CleanupTeam(a) \/ TeamReadFails(a)

Next == \E a \in Admin : Ask(a) \/ Validate(a) \/ Change(a)

Spec == Init /\ [][Next]_vars

-----------------------------------------------------------------------------
RulesOf(type) == {r \in AssignmentRules : r.type = type}

(* CannotCombineRolesRule: no principal comes to hold both roles within the *)
(* scope, whatever fails half way.  With one administrator at a time this   *)
(* holds; two that are checked before either is applied break it.           *)
NeverCombines ==
    [][\A rule \in RulesOf("combine"), p \in Principal :
         rule.roles \subseteq Held(p)' => rule.roles \subseteq Held(p)]_vars

Holders(rule) == UNION {HitsOfKind(rule.roles, k) : k \in rule.kinds}

(* RequireAtLeastRule, given as a rule for assignments and for removals:    *)
(* only a cleanup takes the role from its last holder in the scope.         *)
LastHolderStays ==
    [][\A rule \in RulesOf("atLeast") \cap RemovalRules :
         Holders(rule) # {} /\ Holders(rule)' = {} =>
             \E a \in Admin : call[a].op \in {"cleanup", "team"}]_vars

(* CannotAddSelfRule and CannotRemoveSelfRule: what a principal asks for    *)
(* itself neither gives it a role it did not hold in the scope nor takes    *)
(* the last assignment of one, if the rule names the role or all roles.     *)
SelfCallsObeyRules ==
    [][\A a \in Admin, p \in Principal :
         pc[a] = "apply" /\ call[a].by = p /\ assignee[a] = p =>
           LET named(rule, roles) == IF rule.roles = {} THEN roles ELSE roles \cap rule.roles
           IN  /\ \A rule \in RulesOf("addSelf") : named(rule, Held(p)' \ Held(p)) = {}
               /\ \A rule \in RulesOf("removeSelf") : named(rule, Held(p) \ Held(p)') = {}]_vars

(* A bulk removal or a cleanup that returns no error left nothing behind,   *)
(* although each asks the store for the manager's own binding values only.  *)
OkMeansGone ==
    \A a \in Admin : pc[a] = "idle" /\ result[a] = "ok" =>
        /\ call[a].op = "bulk" => \A p \in call[a].who : HitsOf(p) = {}
        /\ call[a].op = "cleanup" => \A role \in Managed : Hits(role) = {}
        /\ call[a].op = "team" =>
              \A x \in assignments : x.principal \in call[a].who => x.role \notin Managed
=============================================================================
