----------------------- MODULE AssignmentManagerProofs -----------------------
(***************************************************************************)
(* The role assignment manager.  Types and phases hold however many        *)
(* administrators are at work.  The rest is about one at a time (Alone):   *)
(* what the rules are shown is what the store holds (Proposal), so what    *)
(* has passed holds until the change is applied (Passed), and that gives   *)
(* the rules' promises step by step; and of the assignments a removal has  *)
(* come to, each is still to be removed or stands for a store call that    *)
(* will fail (Pending), so a removal that returns no error left nothing.   *)
(* Two administrators whose rules are both consulted before either change  *)
(* is applied break all of them: no proof could do without Alone.          *)
(***************************************************************************)
EXTENDS AssignmentManager, FiniteSetTheorems, FunctionTheorems, TLAPS

OneByOne == {"add", "remove", "bulk"}
Validating == {"wanted", "current", "proposed", "rules"}

Roles(T) == {x.role : x \in T}

(* How far a call can be with what it was asked, whoever else is at work.   *)
Phase(a) ==
    /\ pc[a] \in Validating => call[a].op \in OneByOne
    /\ pc[a] \in {"removal", "bulk"} => call[a].op = "bulk"
    /\ pc[a] \in {"cleanup", "team"} => call[a].op = pc[a]
    /\ call[a].op \in {"cleanup", "team"} => call[a].by = Nobody
    /\ pc[a] = "apply" => call[a].op # "none"
    /\ pc[a] \in {"idle", "removal", "bulk", "cleanup", "team"} => todo[a] = {}
    /\ pc[a] = "removal" => left[a] = call[a].who
    /\ pc[a] # "idle" /\ call[a].op = "bulk" => left[a] \subseteq Principal
    /\ pc[a] \in {"team", "apply"} /\ call[a].op = "team" =>
          assignee[a] \in Principal /\ call[a].who = {assignee[a]}
    /\ pc[a] \in Validating \cup {"apply"} /\ call[a].op \in OneByOne =>
          assignee[a] \in Principal /\ \A x \in todo[a] : x.principal = assignee[a]

PhaseInv == \A a \in Admin : Phase(a)

(* The three rules that look at nothing but the proposal.                   *)
RefusedOutright(rule, by, p, cur, prop) ==
    \/ rule.type = "addSelf" /\ by = p
         /\ IF rule.roles = {} THEN prop \ cur # {} ELSE (prop \ cur) \cap rule.roles # {}
    \/ rule.type = "removeSelf" /\ by = p
         /\ IF rule.roles = {} THEN cur \ prop # {} ELSE (cur \ prop) \cap rule.roles # {}
    \/ rule.type = "combine" /\ rule.roles \subseteq prop

(* What the rules were shown is what the store holds and what is to be      *)
(* written, until the first store call; then the store is in between.       *)
Proposal(a) ==
    LET held == Held(assignee[a])
        roles == Roles(todo[a])
        one == call[a].op \in OneByOne
        add == call[a].op = "add"
    IN  /\ pc[a] \in {"current", "proposed", "rules"} =>
              wanted[a] = IF add THEN held \cup roles ELSE held \ roles
        /\ pc[a] \in {"proposed", "rules"} => current[a] = held
        /\ pc[a] = "rules" => proposed[a] = wanted[a]
        /\ pc[a] = "apply" /\ one =>
              /\ proposed[a] = wanted[a]
              /\ add => current[a] \subseteq held /\ held \cup roles \subseteq wanted[a]
              /\ ~ add => held \subseteq current[a] /\ roles \cap wanted[a] = {}

ProposalInv == \A a \in Admin : Proposal(a)

(* What a rule that has passed makes sure of, as long as the call goes on.  *)
Passed(a) ==
    pc[a] \in {"rules", "apply"} /\ call[a].op \in OneByOne =>
        /\ pc[a] = "apply" => rules[a] = {}
        /\ \A rule \in AssignmentRules \ rules[a] :
              /\ ~ RefusedOutright(rule, call[a].by, assignee[a], current[a], proposed[a])
              /\ rule.type = "atLeast" /\ call[a].op # "add" /\ Holders(rule) # {} =>
                    \E x \in Holders(rule) : x \notin Own(assignee[a], Roles(todo[a]))

PassedInv == \A a \in Admin : Passed(a)

(* The assignments a bulk removal or a cleanup of roles has come to.        *)
Reached(a) ==
    {x \in assignments :
        /\ x.binding \in InScope
        /\ \/ call[a].op = "bulk" /\ x.principal \in call[a].who \ left[a]
           \/ call[a].op = "cleanup" /\ x.role \in Managed \ left[a]}

(* What the store is asked for when x is to be removed.                     *)
Named(x) == [principal |-> x.principal, role |-> x.role, binding |-> ScopeBinding]

(* Such an assignment is still to be removed, or something that will fail   *)
(* is: what the store would be asked for is no longer there.                *)
Pending(a) ==
    pc[a] # "idle" /\ ~ failed[a] =>
    /\ \A x \in Reached(a) :
          \/ x \in todo[a]
          \/ /\ Named(x) \notin assignments
             /\ \E y \in todo[a] : Named(y) = Named(x)
    /\ pc[a] = "apply" /\ call[a].op = "team" =>
          \A x \in assignments :
              x.principal = assignee[a] /\ x.role \in Managed => x \in todo[a]

PendingInv == \A a \in Admin : Pending(a)

-----------------------------------------------------------------------------
(* 1. Types *)

LEMMA SetType ==
    ASSUME NEW S, NEW f \in [Admin -> S], NEW a \in Admin, NEW v \in S
    PROVE  Set(f, a, v) \in [Admin -> S]
BY DEF Set

(* What is read of the store has its type.                                  *)
LEMMA ReadTypes ==
    ASSUME assignments \subseteq Assignment
    PROVE  /\ \A p : HitsOf(p) \subseteq Assignment /\ Held(p) \subseteq Role
           /\ \A role : Hits(role) \subseteq Assignment
BY DEF HitsOf, Held, Hits, Assignment

LEMMA OwnType ==
    ASSUME NEW p \in Principal, NEW roles \in SUBSET Role
    PROVE  Own(p, roles) \subseteq Assignment
BY ScopeAssumption DEF Own, Assignment

LEMMA InitTypes == Init => AssignmentManagerTypeOK
BY InitialAssumption DEF Init, AssignmentManagerTypeOK, NoCall, Op

LEMMA BeginTypes ==
    ASSUME AssignmentManagerTypeOK, NEW a \in Admin, NEW op \in Op,
           NEW by \in Principal \cup {Nobody}, NEW who \in SUBSET Principal,
           NEW to \in {"wanted", "removal", "cleanup", "team"}, Begin(a, op, by, who, to),
           assignee' \in [Admin -> Principal \cup {Nobody}],
           rules' \in [Admin -> SUBSET (AssignmentRules \cup RemovalRules)],
           todo' \in [Admin -> SUBSET Assignment],
           left' \in [Admin -> SUBSET (Principal \cup Role)]
    PROVE  AssignmentManagerTypeOK'
BY DEF AssignmentManagerTypeOK, Begin, Goto, Set

LEMMA ReturnTypes ==
    ASSUME AssignmentManagerTypeOK, NEW a \in Admin, NEW error \in BOOLEAN, Return(a, error),
           assignments' \subseteq Assignment
    PROVE  AssignmentManagerTypeOK'
BY DEF AssignmentManagerTypeOK, Return, Set

LEMMA EndOneTypes ==
    ASSUME AssignmentManagerTypeOK, NEW a \in Admin, NEW error \in BOOLEAN, EndOne(a, error),
           assignments' \subseteq Assignment
    PROVE  AssignmentManagerTypeOK'
<1>1. CASE call[a].op = "bulk"
    BY <1>1 DEF AssignmentManagerTypeOK, EndOne, Set
<1>2. CASE call[a].op # "bulk"
    BY <1>2, ReturnTypes DEF EndOne
<1> QED BY <1>1, <1>2

LEMMA AskTypes ==
    ASSUME AssignmentManagerTypeOK, NEW a \in Admin, Ask(a)
    PROVE  AssignmentManagerTypeOK'
<1> USE DEF Op
<1>1. ASSUME NEW p \in Principal, NEW roles \in SUBSET Role, NEW by \in Principal \cup {Nobody},
             AddRoles(a, p, roles, by)
      PROVE  AssignmentManagerTypeOK'
    BY <1>1, BeginTypes, OwnType, SetType DEF AddRoles, AssignmentManagerTypeOK
<1>2. ASSUME NEW p \in Principal, NEW roles \in SUBSET Role, NEW by \in Principal \cup {Nobody},
             RemoveRoles(a, p, roles, by)
      PROVE  AssignmentManagerTypeOK'
    BY <1>2, BeginTypes, OwnType, SetType DEF RemoveRoles, AssignmentManagerTypeOK
<1>3. ASSUME NEW who \in SUBSET Principal, NEW by \in Principal \cup {Nobody},
             RemoveBulkUsers(a, who, by)
      PROVE  AssignmentManagerTypeOK'
    BY <1>3, BeginTypes, SetType DEF RemoveBulkUsers, AssignmentManagerTypeOK
<1>4. CASE CleanupAllRoleAssignments(a)
    BY <1>4, BeginTypes, SetType, ManagedAssumption
       DEF CleanupAllRoleAssignments, AssignmentManagerTypeOK
<1>5. ASSUME NEW p \in Principal, CleanupTeamRoleAssignments(a, p)
      PROVE  AssignmentManagerTypeOK'
    BY <1>5, BeginTypes, SetType DEF CleanupTeamRoleAssignments, AssignmentManagerTypeOK
<1> QED BY <1>1, <1>2, <1>3, <1>4, <1>5 DEF Ask

LEMMA ValidateTypes ==
    ASSUME AssignmentManagerTypeOK, NEW a \in Admin, Validate(a)
    PROVE  AssignmentManagerTypeOK'
<1> USE DEF AssignmentManagerTypeOK, Goto, Set
<1>1. CASE ReadWanted(a)
    <2>1. Held(assignee[a]) \subseteq Role /\ {x.role : x \in todo[a]} \subseteq Role
        BY ReadTypes DEF Assignment
    <2> QED BY <1>1, <2>1 DEF ReadWanted
<1>2. CASE ReadCurrent(a)
    BY <1>2, ReadTypes DEF ReadCurrent
<1>3. CASE ComputeProposed(a)
    BY <1>3 DEF ComputeProposed
<1>4. CASE ReadFails(a)
    BY <1>4, EndOneTypes DEF ReadFails
<1>5. ASSUME NEW rule \in rules[a], PassRule(a, rule) \/ PassRemoval(a, rule)
      PROVE  AssignmentManagerTypeOK'
    <2>1. /\ rules' = [rules EXCEPT ![a] = rules[a] \ {rule}]
          /\ UNCHANGED <<assignments, pc, call, assignee, wanted, current, proposed, todo, left,
                         failed, result>>
        BY <1>5 DEF PassRule, PassRemoval
    <2>2. rules' \in [Admin -> SUBSET (AssignmentRules \cup RemovalRules)]
        BY <2>1
    <2> QED BY <2>1, <2>2
<1>6. ASSUME NEW rule \in rules[a], FailRule(a, rule)
      PROVE  AssignmentManagerTypeOK'
    BY <1>6, EndOneTypes DEF FailRule
<1>7. CASE Approve(a) \/ ApproveRemoval(a)
    BY <1>7 DEF Approve, ApproveRemoval, locals
<1>8. CASE FailRemoval(a)
    BY <1>8, ReturnTypes DEF FailRemoval
<1> QED BY <1>1, <1>2, <1>3, <1>4, <1>5, <1>6, <1>7, <1>8 DEF Validate

LEMMA ChangeTypes ==
    ASSUME AssignmentManagerTypeOK, PhaseInv, NEW a \in Admin, Change(a)
    PROVE  AssignmentManagerTypeOK'
<1> USE DEF AssignmentManagerTypeOK, Goto, Set
<1>1. ASSUME NEW x \in todo[a], Apply(a, x)
      PROVE  AssignmentManagerTypeOK'
    <2>1. Asked(a, x) \in Assignment
        BY ScopeAssumption DEF Asked, Assignment
    <2> QED BY <1>1, <2>1 DEF Apply, locals
<1>2. ASSUME NEW x \in todo[a], ApplyFails(a, x)
      PROVE  AssignmentManagerTypeOK'
    <2>1. CASE call[a].op \in {"cleanup", "team"}
        <3>1. /\ failed' = Set(failed, a, TRUE)
              /\ todo' = Set(todo, a, todo[a] \ {x})
              /\ UNCHANGED <<assignments, pc, call, assignee, wanted, current, proposed, rules,
                             left, result>>
            BY <1>2, <2>1 DEF ApplyFails
        <3> QED BY <3>1
    <2>2. CASE call[a].op \notin {"cleanup", "team"}
        <3>1. EndOne(a, TRUE) /\ UNCHANGED assignments
            BY <1>2, <2>2 DEF ApplyFails
        <3> QED BY <3>1, EndOneTypes
    <2> QED BY <2>1, <2>2
<1>3. CASE Applied(a)
    BY <1>3, EndOneTypes, ReturnTypes DEF Applied, locals
<1>4. ASSUME NEW p \in left[a], BulkNext(a, p)
      PROVE  AssignmentManagerTypeOK'
    <2>1. p \in Principal /\ HitsOf(p) \in SUBSET Assignment
        BY <1>4, ReadTypes DEF BulkNext, PhaseInv, Phase
    <2> QED BY <1>4, <2>1 DEF BulkNext
<1>5. ASSUME NEW role \in left[a], CleanupRole(a, role)
      PROVE  AssignmentManagerTypeOK'
    BY <1>5, ReadTypes DEF CleanupRole
<1>6. ASSUME NEW role \in left[a], CleanupReadFails(a, role)
      PROVE  AssignmentManagerTypeOK'
    BY <1>6 DEF CleanupReadFails
<1>7. CASE BulkReadFails(a) \/ TeamReadFails(a)
    BY <1>7, ReturnTypes DEF BulkReadFails, TeamReadFails
<1>8. CASE EndLoop(a)
    BY <1>8, ReturnTypes DEF EndLoop
<1>9. CASE CleanupTeam(a)
    BY <1>9 DEF CleanupTeam, locals
<1> QED BY <1>1, <1>2, <1>3, <1>4, <1>5, <1>6, <1>7, <1>8, <1>9 DEF Change

LEMMA StutterTypes ==
    ASSUME AssignmentManagerTypeOK, UNCHANGED vars
    PROVE  AssignmentManagerTypeOK'
BY DEF AssignmentManagerTypeOK, vars, locals

-----------------------------------------------------------------------------
(* 2. How far a call can be, whoever else is at work *)

LEMMA InitPhase == Init => PhaseInv
BY DEF Init, PhaseInv, Phase, NoCall, OneByOne, Validating

(* A step is one administrator's: it leaves what the others know alone.     *)
OthersStay(a) ==
    \A b \in Admin \ {a} :
        /\ pc'[b] = pc[b] /\ call'[b] = call[b] /\ assignee'[b] = assignee[b]
        /\ todo'[b] = todo[b] /\ left'[b] = left[b]

LEMMA SetOthers ==
    ASSUME NEW S, NEW f \in [Admin -> S], NEW a, NEW v
    PROVE  \A b \in Admin \ {a} : Set(f, a, v)[b] = f[b]
BY DEF Set

LEMMA ReturnOthers ==
    ASSUME AssignmentManagerTypeOK, NEW a \in Admin, NEW error, Return(a, error)
    PROVE  OthersStay(a)
BY DEF AssignmentManagerTypeOK, Return, OthersStay, Set

LEMMA EndOneOthers ==
    ASSUME AssignmentManagerTypeOK, NEW a \in Admin, NEW error, EndOne(a, error)
    PROVE  OthersStay(a)
<1>1. CASE call[a].op = "bulk"
    BY <1>1 DEF AssignmentManagerTypeOK, EndOne, OthersStay, Set
<1>2. CASE call[a].op # "bulk"
    BY <1>2, ReturnOthers DEF EndOne
<1> QED BY <1>1, <1>2

LEMMA StepOthers ==
    ASSUME AssignmentManagerTypeOK, NEW a \in Admin, Ask(a) \/ Validate(a) \/ Change(a)
    PROVE  OthersStay(a)
<1> USE DEF AssignmentManagerTypeOK, Goto, Set
<1>1. CASE Ask(a)
    <2>1. ASSUME NEW p, NEW roles, NEW by, AddRoles(a, p, roles, by) \/ RemoveRoles(a, p, roles, by)
          PROVE  OthersStay(a)
        BY <2>1 DEF AddRoles, RemoveRoles, Begin, OthersStay
    <2>2. ASSUME NEW who, NEW by, RemoveBulkUsers(a, who, by)
          PROVE  OthersStay(a)
        BY <2>2 DEF RemoveBulkUsers, Begin, OthersStay
    <2>3. CASE CleanupAllRoleAssignments(a)
        BY <2>3 DEF CleanupAllRoleAssignments, Begin, OthersStay
    <2>4. ASSUME NEW p, CleanupTeamRoleAssignments(a, p)
          PROVE  OthersStay(a)
        BY <2>4 DEF CleanupTeamRoleAssignments, Begin, OthersStay
    <2> QED BY <1>1, <2>1, <2>2, <2>3, <2>4 DEF Ask
<1>2. CASE Validate(a)
    <2>1. CASE ReadWanted(a) \/ ReadCurrent(a) \/ ComputeProposed(a)
        BY <2>1 DEF ReadWanted, ReadCurrent, ComputeProposed, OthersStay
    <2>2. CASE ReadFails(a) \/ FailRemoval(a) \/ \E rule \in rules[a] : FailRule(a, rule)
        BY <2>2, EndOneOthers, ReturnOthers DEF ReadFails, FailRemoval, FailRule
    <2>3. CASE \E rule \in rules[a] : PassRule(a, rule) \/ PassRemoval(a, rule)
        BY <2>3 DEF PassRule, PassRemoval, OthersStay
    <2>4. CASE Approve(a) \/ ApproveRemoval(a)
        BY <2>4 DEF Approve, ApproveRemoval, locals, OthersStay
    <2> QED BY <1>2, <2>1, <2>2, <2>3, <2>4 DEF Validate
<1>3. CASE Change(a)
    <2>1. CASE \E x \in todo[a] : Apply(a, x)
        BY <2>1 DEF Apply, locals, OthersStay
    <2>2. ASSUME NEW x \in todo[a], ApplyFails(a, x)
          PROVE  OthersStay(a)
        <3>1. CASE call[a].op \in {"cleanup", "team"}
            BY <2>2, <3>1 DEF ApplyFails, OthersStay
        <3>2. CASE call[a].op \notin {"cleanup", "team"}
            BY <2>2, <3>2, EndOneOthers DEF ApplyFails
        <3> QED BY <3>1, <3>2
    <2>3. CASE Applied(a)
        <3>1. CASE call[a].op = "cleanup"
            BY <2>3, <3>1 DEF Applied, locals, OthersStay
        <3>2. CASE call[a].op # "cleanup"
            BY <2>3, <3>2, EndOneOthers, ReturnOthers DEF Applied
        <3> QED BY <3>1, <3>2
    <2>4. CASE \E p \in left[a] : BulkNext(a, p)
        BY <2>4 DEF BulkNext, OthersStay
    <2>5. CASE \E role \in left[a] : CleanupRole(a, role) \/ CleanupReadFails(a, role)
        BY <2>5 DEF CleanupRole, CleanupReadFails, OthersStay
    <2>6. CASE BulkReadFails(a) \/ TeamReadFails(a) \/ EndLoop(a)
        BY <2>6, ReturnOthers DEF BulkReadFails, TeamReadFails, EndLoop
    <2>7. CASE CleanupTeam(a)
        BY <2>7 DEF CleanupTeam, locals, OthersStay
    <2> QED BY <1>3, <2>1, <2>2, <2>3, <2>4, <2>5, <2>6, <2>7 DEF Change
<1> QED BY <1>1, <1>2, <1>3

LEMMA ReturnPhase ==
    ASSUME AssignmentManagerTypeOK, NEW a \in Admin, NEW error, Return(a, error), Phase(a)
    PROVE  Phase(a)'
BY DEF AssignmentManagerTypeOK, Return, Phase, Set, Validating, OneByOne

LEMMA EndOnePhase ==
    ASSUME AssignmentManagerTypeOK, NEW a \in Admin, NEW error, EndOne(a, error), Phase(a),
           pc[a] # "idle"
    PROVE  Phase(a)'
<1>1. CASE call[a].op = "bulk"
    BY <1>1 DEF AssignmentManagerTypeOK, EndOne, Phase, Set, Validating, OneByOne
<1>2. CASE call[a].op # "bulk"
    BY <1>2, ReturnPhase DEF EndOne
<1> QED BY <1>1, <1>2

LEMMA AskPhase ==
    ASSUME AssignmentManagerTypeOK, NEW a \in Admin, Phase(a), Ask(a)
    PROVE  Phase(a)'
<1> USE DEF AssignmentManagerTypeOK, Goto, Set, Begin, Phase, Validating, OneByOne
<1>1. ASSUME NEW p \in Principal, NEW roles, NEW by \in Principal \cup {Nobody},
             AddRoles(a, p, roles, by) \/ RemoveRoles(a, p, roles, by)
      PROVE  Phase(a)'
    <2>1. \A x \in Own(p, roles) : x.principal = p
        BY DEF Own
    <2> QED BY <1>1, <2>1 DEF AddRoles, RemoveRoles
<1>2. ASSUME NEW who \in SUBSET Principal, NEW by, RemoveBulkUsers(a, who, by)
      PROVE  Phase(a)'
    BY <1>2 DEF RemoveBulkUsers
<1>3. CASE CleanupAllRoleAssignments(a)
    BY <1>3 DEF CleanupAllRoleAssignments
<1>4. ASSUME NEW p \in Principal, CleanupTeamRoleAssignments(a, p)
      PROVE  Phase(a)'
    BY <1>4 DEF CleanupTeamRoleAssignments
<1> QED BY <1>1, <1>2, <1>3, <1>4 DEF Ask

LEMMA ValidatePhase ==
    ASSUME AssignmentManagerTypeOK, NEW a \in Admin, Phase(a), Validate(a)
    PROVE  Phase(a)'
<1> USE DEF AssignmentManagerTypeOK, Goto, Set, Phase, Validating, OneByOne
<1>1. CASE ReadWanted(a) \/ ReadCurrent(a) \/ ComputeProposed(a)
    BY <1>1 DEF ReadWanted, ReadCurrent, ComputeProposed
<1>2. CASE ReadFails(a) \/ \E rule \in rules[a] : FailRule(a, rule)
    BY <1>2, EndOnePhase DEF ReadFails, FailRule
<1>3. CASE FailRemoval(a)
    BY <1>3, ReturnPhase DEF FailRemoval
<1>4. CASE \E rule \in rules[a] : PassRule(a, rule) \/ PassRemoval(a, rule)
    BY <1>4 DEF PassRule, PassRemoval
<1>5. CASE Approve(a) \/ ApproveRemoval(a)
    BY <1>5 DEF Approve, ApproveRemoval, locals
<1> QED BY <1>1, <1>2, <1>3, <1>4, <1>5 DEF Validate

LEMMA ChangePhase ==
    ASSUME AssignmentManagerTypeOK, NEW a \in Admin, Phase(a), Change(a)
    PROVE  Phase(a)'
<1> USE DEF AssignmentManagerTypeOK, Goto, Set, Phase, Validating, OneByOne
<1>1. ASSUME NEW x \in todo[a], Apply(a, x)
      PROVE  Phase(a)'
    BY <1>1 DEF Apply, locals
<1>2. ASSUME NEW x \in todo[a], ApplyFails(a, x)
      PROVE  Phase(a)'
    <2>1. CASE call[a].op \in {"cleanup", "team"}
        BY <1>2, <2>1 DEF ApplyFails
    <2>2. CASE call[a].op \notin {"cleanup", "team"}
        BY <1>2, <2>2, EndOnePhase DEF ApplyFails
    <2> QED BY <2>1, <2>2
<1>3. CASE Applied(a)
    <2>1. CASE call[a].op = "cleanup"
        BY <1>3, <2>1 DEF Applied, locals
    <2>2. CASE call[a].op = "team"
        BY <1>3, <2>2, ReturnPhase DEF Applied
    <2>3. CASE call[a].op \notin {"cleanup", "team"}
        BY <1>3, <2>3, EndOnePhase DEF Applied
    <2> QED BY <2>1, <2>2, <2>3
<1>4. ASSUME NEW p \in left[a], BulkNext(a, p)
      PROVE  Phase(a)'
    <2>1. \A x \in HitsOf(p) : x.principal = p
        BY DEF HitsOf
    <2> QED BY <1>4, <2>1 DEF BulkNext
<1>5. ASSUME NEW role \in left[a], CleanupRole(a, role) \/ CleanupReadFails(a, role)
      PROVE  Phase(a)'
    BY <1>5 DEF CleanupRole, CleanupReadFails
<1>6. CASE BulkReadFails(a) \/ TeamReadFails(a) \/ EndLoop(a)
    BY <1>6, ReturnPhase DEF BulkReadFails, TeamReadFails, EndLoop
<1>7. CASE CleanupTeam(a)
    BY <1>7 DEF CleanupTeam, locals
<1> QED BY <1>1, <1>2, <1>3, <1>4, <1>5, <1>6, <1>7 DEF Change

LEMMA NextPhase ==
    ASSUME AssignmentManagerTypeOK, PhaseInv, [Next]_vars
    PROVE  PhaseInv'
<1>1. ASSUME NEW a \in Admin, Ask(a) \/ Validate(a) \/ Change(a)
      PROVE  PhaseInv'
    <2>1. Phase(a)'
        BY <1>1, AskPhase, ValidatePhase, ChangePhase DEF PhaseInv
    <2>2. ASSUME NEW b \in Admin, b # a
          PROVE  Phase(b)'
        BY <1>1, <2>2, StepOthers DEF PhaseInv, Phase, OthersStay
    <2> QED BY <2>1, <2>2 DEF PhaseInv
<1>2. CASE UNCHANGED vars
    BY <1>2 DEF vars, locals, PhaseInv, Phase
<1> QED BY <1>1, <1>2 DEF Next

LEMMA NextTypes ==
    ASSUME AssignmentManagerTypeOK, PhaseInv, [Next]_vars
    PROVE  AssignmentManagerTypeOK'
BY AskTypes, ValidateTypes, ChangeTypes, StutterTypes DEF Next

(* Every variable keeps its type, whatever any number of administrators do. *)
THEOREM AssignmentManagerTypeCorrect == Spec => []AssignmentManagerTypeOK
<1>1. Init => AssignmentManagerTypeOK /\ PhaseInv
    BY InitTypes, InitPhase
<1>2. AssignmentManagerTypeOK /\ PhaseInv /\ [Next]_vars => (AssignmentManagerTypeOK /\ PhaseInv)'
    BY NextTypes, NextPhase
<1> QED BY <1>1, <1>2, PTL DEF Spec

(* Every call is where what it was asked can have brought it: a change is   *)
(* only ever about the assignee, and a cleanup has no assigner.             *)
THEOREM AssignmentManagerPhases == Spec => []PhaseInv
<1>1. Init => AssignmentManagerTypeOK /\ PhaseInv
    BY InitTypes, InitPhase
<1>2. AssignmentManagerTypeOK /\ PhaseInv /\ [Next]_vars => (AssignmentManagerTypeOK /\ PhaseInv)'
    BY NextTypes, NextPhase
<1> QED BY <1>1, <1>2, PTL DEF Spec

-----------------------------------------------------------------------------
(* 3. What the rules were shown, when one administrator is at work *)

LEMMA AskedNames ==
    ASSUME NEW a, NEW x \in Assignment
    PROVE  Asked(a, x) = IF call[a].op = "team" THEN x ELSE Named(x)
BY DEF Asked, Named, Assignment

LEMMA NamedInScope ==
    ASSUME NEW x \in Assignment
    PROVE  /\ Named(x) \in Assignment
           /\ Named(x).principal = x.principal /\ Named(x).role = x.role
           /\ Named(x).binding \in InScope
           /\ Named(Named(x)) = Named(x)
BY ScopeAssumption DEF Named, Assignment

LEMMA HeldIs ==
    ASSUME NEW p
    PROVE  \A role : role \in Held(p) <=>
               \E x \in assignments : x.principal = p /\ x.role = role /\ x.binding \in InScope
BY DEF Held, HitsOf

LEMMA HoldersIs ==
    ASSUME NEW rule
    PROVE  \A x : x \in Holders(rule) <=>
               x \in assignments /\ x.role \in rule.roles /\ x.binding \in InScope
                 /\ x.principal.kind \in rule.kinds
BY DEF Holders, HitsOfKind, Hits

(* The store changes where a call applies its change, and nowhere else.     *)
LEMMA StoreChanges ==
    ASSUME NEW a \in Admin, Ask(a) \/ Validate(a) \/ Change(a),
           ~ \E x \in todo[a] : Apply(a, x)
    PROVE  assignments' = assignments
<1>1. CASE Ask(a)
    BY <1>1 DEF Ask, AddRoles, RemoveRoles, RemoveBulkUsers, CleanupAllRoleAssignments,
                CleanupTeamRoleAssignments, Begin
<1>2. CASE Validate(a)
    BY <1>2 DEF Validate, ReadWanted, ReadCurrent, ComputeProposed, ReadFails, PassRule,
                FailRule, PassRemoval, Approve, ApproveRemoval, FailRemoval
<1>3. CASE Change(a)
    <2>1. CASE \E x \in todo[a] : ApplyFails(a, x)
        BY <2>1 DEF ApplyFails
    <2>2. CASE Applied(a)
        BY <2>2 DEF Applied
    <2> QED
        BY <1>3, <2>1, <2>2
           DEF Change, BulkNext, CleanupRole, CleanupReadFails, BulkReadFails, EndLoop,
               CleanupTeam, TeamReadFails
<1> QED BY <1>1, <1>2, <1>3

(* One step of a change, by what it does to the roles that are held.        *)
LEMMA ApplyAdds ==
    ASSUME AssignmentManagerTypeOK, NEW a \in Admin, NEW x \in todo[a], Apply(a, x),
           call[a].op = "add"
    PROVE  /\ assignments' = assignments \cup {Named(x)}
           /\ \A p : Held(p)' = IF p = x.principal THEN Held(p) \cup {x.role} ELSE Held(p)
<1>1. x \in Assignment
    BY DEF AssignmentManagerTypeOK
<1>2. assignments' = assignments \cup {Named(x)}
    BY <1>1, AskedNames DEF Apply
<1>3. ASSUME NEW p
      PROVE  Held(p)' = IF p = x.principal THEN Held(p) \cup {x.role} ELSE Held(p)
    <2>1. \A role : role \in Held(p)' <=>
             \E y \in assignments' : y.principal = p /\ y.role = role /\ y.binding \in InScope
        BY DEF Held, HitsOf
    <2>2. \A role : role \in Held(p)' <=>
             role \in Held(p) \/ (p = x.principal /\ role = x.role)
        <3>1. ASSUME NEW role
              PROVE  role \in Held(p)' <=>
                         \/ \E y \in assignments : y.principal = p /\ y.role = role
                                                     /\ y.binding \in InScope
                         \/ x.principal = p /\ x.role = role
            BY <1>1, <1>2, <2>1, NamedInScope
        <3> QED BY <3>1, HeldIs
    <2> QED BY <2>2
<1> QED BY <1>2, <1>3

LEMMA ApplyRemoves ==
    ASSUME AssignmentManagerTypeOK, NEW a \in Admin, NEW x \in todo[a], Apply(a, x),
           call[a].op # "add"
    PROVE  /\ assignments' = assignments \ {Asked(a, x)} /\ Asked(a, x) \in assignments
           /\ \A p : Held(p)' \subseteq Held(p)
           /\ Asked(a, x) = Named(x) =>
                 /\ x.role \in Held(x.principal)
                 /\ \A p : Held(p) \ Held(p)' \subseteq
                             IF p = x.principal THEN {x.role} ELSE {}
<1>1. x \in Assignment
    BY DEF AssignmentManagerTypeOK
<1>2. assignments' = assignments \ {Asked(a, x)} /\ Asked(a, x) \in assignments
    BY DEF Apply
<1>3. ASSUME NEW p
      PROVE  \A role : role \in Held(p)' <=>
                 \E y \in assignments' : y.principal = p /\ y.role = role /\ y.binding \in InScope
    BY DEF Held, HitsOf
<1>4. \A p : Held(p)' \subseteq Held(p)
    BY <1>2, <1>3, HeldIs
<1>5. ASSUME Asked(a, x) = Named(x)
      PROVE  /\ x.role \in Held(x.principal)
             /\ \A p : Held(p) \ Held(p)' \subseteq IF p = x.principal THEN {x.role} ELSE {}
    BY <1>1, <1>2, <1>3, <1>5, HeldIs, NamedInScope
<1> QED BY <1>2, <1>4, <1>5

(* Where neither the proposal nor what has passed is of any consequence.    *)
Quiet(a) ==
    \/ pc[a] \notin {"current", "proposed", "rules", "apply"}
    \/ pc[a] = "apply" /\ call[a].op \notin OneByOne

LEMMA QuietHolds ==
    ASSUME NEW a, Quiet(a)'
    PROVE  Proposal(a)' /\ Passed(a)'
BY DEF Quiet, Proposal, Passed, OneByOne

LEMMA ReturnQuiet ==
    ASSUME AssignmentManagerTypeOK, NEW a \in Admin, NEW error, Return(a, error)
    PROVE  Quiet(a)'
BY DEF AssignmentManagerTypeOK, Return, Quiet, Set

LEMMA EndOneQuiet ==
    ASSUME AssignmentManagerTypeOK, NEW a \in Admin, NEW error, EndOne(a, error)
    PROVE  Quiet(a)'
<1>1. CASE call[a].op = "bulk"
    BY <1>1 DEF AssignmentManagerTypeOK, EndOne, Quiet, Set
<1>2. CASE call[a].op # "bulk"
    BY <1>2, ReturnQuiet DEF EndOne
<1> QED BY <1>1, <1>2

LEMMA QuietSteps ==
    ASSUME AssignmentManagerTypeOK, NEW a \in Admin, Phase(a),
           \/ Ask(a) \/ ReadFails(a) \/ FailRemoval(a) \/ ApproveRemoval(a)
           \/ \E rule \in rules[a] : FailRule(a, rule) \/ PassRemoval(a, rule)
           \/ \E x \in todo[a] : ApplyFails(a, x)
           \/ Applied(a)
           \/ \E p \in left[a] : BulkNext(a, p)
           \/ \E role \in left[a] : CleanupRole(a, role) \/ CleanupReadFails(a, role)
           \/ BulkReadFails(a) \/ EndLoop(a) \/ CleanupTeam(a) \/ TeamReadFails(a)
    PROVE  Quiet(a)'
<1> USE DEF AssignmentManagerTypeOK, Goto, Set, Quiet
<1>1. CASE Ask(a)
    BY <1>1 DEF Ask, AddRoles, RemoveRoles, RemoveBulkUsers, CleanupAllRoleAssignments,
                CleanupTeamRoleAssignments, Begin
<1>2. CASE ReadFails(a) \/ \E rule \in rules[a] : FailRule(a, rule)
    BY <1>2, EndOneQuiet DEF ReadFails, FailRule
<1>3. CASE FailRemoval(a) \/ BulkReadFails(a) \/ EndLoop(a) \/ TeamReadFails(a)
    BY <1>3, ReturnQuiet DEF FailRemoval, BulkReadFails, EndLoop, TeamReadFails
<1>4. CASE ApproveRemoval(a) \/ \E rule \in rules[a] : PassRemoval(a, rule)
    BY <1>4 DEF ApproveRemoval, PassRemoval
<1>5. ASSUME NEW x \in todo[a], ApplyFails(a, x)
      PROVE  Quiet(a)'
    <2>1. CASE call[a].op \in {"cleanup", "team"}
        BY <1>5, <2>1 DEF ApplyFails, OneByOne
    <2>2. CASE call[a].op \notin {"cleanup", "team"}
        BY <1>5, <2>2, EndOneQuiet DEF ApplyFails
    <2> QED BY <2>1, <2>2
<1>6. CASE Applied(a)
    <2>1. CASE call[a].op = "cleanup"
        BY <1>6, <2>1 DEF Applied
    <2>2. CASE call[a].op # "cleanup"
        BY <1>6, <2>2, EndOneQuiet, ReturnQuiet DEF Applied
    <2> QED BY <2>1, <2>2
<1>7. CASE \E p \in left[a] : BulkNext(a, p)
    BY <1>7 DEF BulkNext
<1>8. CASE \E role \in left[a] : CleanupRole(a, role) \/ CleanupReadFails(a, role)
    BY <1>8 DEF CleanupRole, CleanupReadFails, Phase, OneByOne
<1>9. CASE CleanupTeam(a)
    BY <1>9 DEF CleanupTeam, locals, Phase, OneByOne
<1> QED BY <1>1, <1>2, <1>3, <1>4, <1>5, <1>6, <1>7, <1>8, <1>9

(* A rule that wants the last holders to stay, and that lets a removal      *)
(* pass, leaves one: some holder that the store will not be asked to remove.*)
LEMMA AtLeastKeepsOne ==
    ASSUME AssignmentManagerTypeOK, NEW rule \in Rule, NEW p \in Principal,
           NEW roles \in SUBSET Role, Holders(rule) # {},
           ~ AtLeastRefuses(rule, p, Held(p), Held(p) \ roles)
    PROVE  \E x \in Holders(rule) : x \notin Own(p, roles)
<1> SUFFICES ASSUME Holders(rule) \subseteq Own(p, roles)
             PROVE  FALSE
    OBVIOUS
<1> DEFINE prop == Held(p) \ roles
           gone == (Held(p) \ prop) \cap rule.roles
<1>1. gone \subseteq Role /\ IsFiniteSet(gone)
    BY ReadTypes, RolesAssumption, FS_Subset DEF AssignmentManagerTypeOK
<1>2. prop \ Held(p) = {}
    OBVIOUS
<1>3. ASSUME NEW k \in rule.kinds
      PROVE  HitsOfKind(rule.roles, k) \subseteq Own(p, roles)
    BY DEF Holders
<1>4. ASSUME NEW k \in rule.kinds, p.kind # k
      PROVE  HitsOfKind(rule.roles, k) = {}
    BY <1>3, <1>4 DEF Own, HitsOfKind
<1>5. ASSUME NEW k \in rule.kinds, p.kind = k
      PROVE  HitsOfKind(rule.roles, k) = Own(p, gone)
    <2>1. ASSUME NEW x \in HitsOfKind(rule.roles, k)
          PROVE  x \in Own(p, gone)
        <3>1. PICK r \in roles : x = [principal |-> p, role |-> r, binding |-> ScopeBinding]
            BY <1>3 DEF Own
        <3>2. x \in assignments /\ x.role \in rule.roles /\ x.binding \in InScope
            BY DEF HitsOfKind, Hits
        <3>3. r \in Held(p) /\ r \in rule.roles
            BY <3>1, <3>2, HeldIs
        <3> QED BY <3>1, <3>3 DEF Own
    <2>2. ASSUME NEW x \in Own(p, gone)
          PROVE  x \in HitsOfKind(rule.roles, k)
        <3>1. PICK r \in gone : x = [principal |-> p, role |-> r, binding |-> ScopeBinding]
            BY DEF Own
        <3>2. PICK y \in assignments : y.principal = p /\ y.role = r /\ y.binding \in InScope
            BY <3>1, HeldIs
        <3>3. y \in HitsOfKind(rule.roles, k)
            BY <1>5, <3>1, <3>2 DEF HitsOfKind, Hits
        <3>4. y = x
            BY <1>3, <3>1, <3>2, <3>3 DEF Own
        <3> QED BY <3>3, <3>4
    <2> QED BY <2>1, <2>2
<1>6. IsFiniteSet(Own(p, gone)) /\ Cardinality(Own(p, gone)) = Cardinality(gone)
    <2> DEFINE f == [r \in gone |-> [principal |-> p, role |-> r, binding |-> ScopeBinding]]
    <2>1. f \in Bijection(gone, Own(p, gone))
        <3>1. f \in [gone -> Own(p, gone)]
            BY DEF Own
        <3>2. \A r, s \in gone : f[r] = f[s] => r = s
            OBVIOUS
        <3>3. \A x \in Own(p, gone) : \E r \in gone : f[r] = x
            BY DEF Own
        <3> QED BY <3>1, <3>2, <3>3, Fun_IsBij
    <2>2. ExistsBijection(gone, Own(p, gone))
        BY <2>1, Fun_ExistsBij
    <2> QED BY <1>1, <2>2, FS_Bijection
<1>7. Cardinality(gone) \in Nat /\ Cardinality({}) = 0
    BY <1>1, FS_CardinalityType, FS_EmptySet
<1>8. ASSUME NEW k \in rule.kinds
      PROVE  Cardinality(HitsOfKind(rule.roles, k))
               + (IF p.kind = k THEN Cardinality((prop \ Held(p)) \cap rule.roles) ELSE 0)
               = IF p.kind = k THEN Cardinality(gone) ELSE 0
    <2>1. Cardinality((prop \ Held(p)) \cap rule.roles) = 0
        <3>1. (prop \ Held(p)) \cap rule.roles = {}
            OBVIOUS
        <3> QED BY <1>7, <3>1
    <2>2. CASE p.kind = k
        <3>1. Cardinality(HitsOfKind(rule.roles, k)) = Cardinality(gone)
            BY <1>5, <1>6, <2>2
        <3> HIDE DEF prop, gone
        <3> QED BY <1>7, <2>1, <2>2, <3>1
    <2>3. CASE p.kind # k
        BY <1>4, <1>7, <2>3
    <2> QED BY <2>2, <2>3
<1> QED BY <1>8 DEF AtLeastRefuses

LEMMA SameStore ==
    ASSUME assignments' = assignments
    PROVE  /\ \A p : Held(p)' = Held(p)
           /\ \A rule : Holders(rule)' = Holders(rule)
BY DEF Held, HitsOf, Holders, HitsOfKind, Hits

LEMMA ReadProposal ==
    ASSUME AssignmentManagerTypeOK, NEW a \in Admin, Proposal(a),
           ReadWanted(a) \/ ReadCurrent(a) \/ ComputeProposed(a)
    PROVE  Proposal(a)' /\ Passed(a)'
<1> USE DEF AssignmentManagerTypeOK, Goto, Set
<1>1. /\ assignments' = assignments /\ assignee' = assignee /\ todo' = todo /\ call' = call
      /\ Held(assignee[a])' = Held(assignee[a])
    BY SameStore DEF ReadWanted, ReadCurrent, ComputeProposed
<1>2. CASE ReadWanted(a)
    <2>1. pc'[a] = "current" /\ wanted'[a] = IF call[a].op = "add"
                                             THEN Held(assignee[a]) \cup Roles(todo[a])
                                             ELSE Held(assignee[a]) \ Roles(todo[a])
        BY <1>2 DEF ReadWanted, Roles
    <2> QED BY <1>1, <2>1 DEF Proposal, Passed
<1>3. CASE ReadCurrent(a)
    <2>1. /\ pc[a] = "current" /\ pc'[a] = "proposed" /\ wanted'[a] = wanted[a]
          /\ current'[a] = Held(assignee[a])
        BY <1>3 DEF ReadCurrent
    <2> QED BY <1>1, <2>1 DEF Proposal, Passed
<1>4. CASE ComputeProposed(a)
    <2>1. /\ pc[a] = "proposed" /\ pc'[a] = "rules" /\ wanted'[a] = wanted[a]
          /\ current'[a] = current[a] /\ rules'[a] = AssignmentRules
          /\ proposed'[a] = (current[a] \ (Held(assignee[a]) \ wanted[a]))
                                \cup (wanted[a] \ Held(assignee[a]))
        BY <1>4 DEF ComputeProposed
    <2>2. current[a] = Held(assignee[a])
        BY <2>1 DEF Proposal
    <2>3. proposed'[a] = wanted[a]
        BY <2>1, <2>2
    <2> QED BY <1>1, <2>1, <2>3 DEF Proposal, Passed
<1> QED BY <1>2, <1>3, <1>4

LEMMA PassProposal ==
    ASSUME AssignmentManagerTypeOK, NEW a \in Admin, Phase(a), Proposal(a), Passed(a),
           NEW rule \in rules[a], PassRule(a, rule)
    PROVE  Proposal(a)' /\ Passed(a)'
<1>1. /\ pc[a] = "rules"
      /\ UNCHANGED <<assignments, pc, call, assignee, wanted, current, proposed, todo>>
      /\ rules'[a] = rules[a] \ {rule}
    BY DEF AssignmentManagerTypeOK, PassRule, Set
<1>2. Held(assignee[a])' = Held(assignee[a]) /\ \A r : Holders(r)' = Holders(r)
    BY <1>1, SameStore
<1>3. Proposal(a)'
    BY <1>1, <1>2 DEF Proposal
<1>4. ~ RefusedOutright(rule, call[a].by, assignee[a], current[a], proposed[a])
    BY DEF PassRule, RefusedBy, Refuses, RefusedOutright
<1>5. ASSUME rule \in AssignmentRules, rule.type = "atLeast", call[a].op # "add",
             Holders(rule) # {}
      PROVE  \E x \in Holders(rule) : x \notin Own(assignee[a], Roles(todo[a]))
    <2>1. assignee[a] \in Principal /\ rule \in Rule /\ Roles(todo[a]) \in SUBSET Role
        BY <1>1, <1>5, RulesAssumption
           DEF AssignmentManagerTypeOK, Phase, Validating, Roles, Assignment
    <2>2. current[a] = Held(assignee[a])
              /\ proposed[a] = Held(assignee[a]) \ Roles(todo[a])
        BY <1>1, <1>5 DEF Proposal
    <2>3. ~ AtLeastRefuses(rule, assignee[a], Held(assignee[a]),
                           Held(assignee[a]) \ Roles(todo[a]))
        BY <1>5, <2>2 DEF PassRule, RefusedBy, Refuses
    <2> QED BY <1>5, <2>1, <2>3, AtLeastKeepsOne
<1>6. Passed(a)'
    BY <1>1, <1>2, <1>4, <1>5 DEF Passed
<1> QED BY <1>3, <1>6

LEMMA ApproveProposal ==
    ASSUME AssignmentManagerTypeOK, NEW a \in Admin, Phase(a), Proposal(a), Passed(a), Approve(a)
    PROVE  Proposal(a)' /\ Passed(a)'
<1>1. /\ pc[a] = "rules" /\ pc'[a] = "apply" /\ rules[a] = {}
      /\ UNCHANGED <<assignments, call, assignee, wanted, current, proposed, rules, todo>>
    BY DEF AssignmentManagerTypeOK, Approve, Goto, Set, locals
<1>2. Held(assignee[a])' = Held(assignee[a]) /\ \A r : Holders(r)' = Holders(r)
    BY <1>1, SameStore
<1>3. Proposal(a)'
    BY <1>1, <1>2 DEF Proposal
<1>4. Passed(a)'
    BY <1>1, <1>2 DEF Passed
<1> QED BY <1>3, <1>4

LEMMA ApplyProposal ==
    ASSUME AssignmentManagerTypeOK, NEW a \in Admin, Phase(a), Proposal(a), Passed(a),
           NEW x \in todo[a], Apply(a, x)
    PROVE  Proposal(a)' /\ Passed(a)'
<1>1. CASE call[a].op \notin OneByOne
    BY <1>1, QuietHolds DEF Quiet, Apply, locals
<1>2. CASE call[a].op \in OneByOne
    <2>1. /\ pc[a] = "apply" /\ todo'[a] = todo[a] \ {x}
          /\ UNCHANGED <<pc, call, assignee, wanted, current, proposed, rules>>
        BY DEF AssignmentManagerTypeOK, Apply, Set, locals
    <2>2. x \in Assignment /\ x.principal = assignee[a]
        BY <1>2, <2>1 DEF AssignmentManagerTypeOK, Phase
    <2>3. Asked(a, x) = Named(x)
        BY <1>2, <2>2, AskedNames DEF OneByOne
    <2>4. Roles(todo'[a]) \subseteq Roles(todo[a]) /\ x.role \in Roles(todo[a])
        BY <2>1 DEF Roles
    <2>5. Proposal(a)'
        <3>1. CASE call[a].op = "add"
            <4>1. Held(assignee[a])' = Held(assignee[a]) \cup {x.role}
                BY <2>1, <2>2, <3>1, ApplyAdds
            <4> QED BY <2>1, <2>4, <3>1, <4>1 DEF Proposal, OneByOne
        <3>2. CASE call[a].op # "add"
            <4>1. Held(assignee[a])' \subseteq Held(assignee[a])
                BY <2>1, <3>2, ApplyRemoves
            <4> QED BY <1>2, <2>1, <2>4, <3>2, <4>1 DEF Proposal
        <3> QED BY <3>1, <3>2
    <2>6. ASSUME NEW rule \in AssignmentRules, rule.type = "atLeast", call[a].op # "add",
                 Holders(rule)' # {}
          PROVE  \E y \in Holders(rule)' : y \notin Own(assignee[a], Roles(todo[a]))
        <3>1. \A y : y \in Holders(rule)' <=> y \in Holders(rule) /\ y # Named(x)
            <4>1. assignments' = assignments \ {Named(x)}
                BY <2>3, <2>6, ApplyRemoves
            <4> QED BY <4>1 DEF Holders, HitsOfKind, Hits
        <3>2. PICK y \in Holders(rule) : y \notin Own(assignee[a], Roles(todo[a]))
            BY <1>2, <2>1, <2>6, <3>1 DEF Passed
        <3>3. Named(x) \in Own(assignee[a], Roles(todo[a]))
            BY <2>2, <2>4 DEF Own, Named
        <3> QED BY <3>1, <3>2, <3>3
    <2>7. Own(assignee[a], Roles(todo'[a])) \subseteq Own(assignee[a], Roles(todo[a]))
        BY <2>4 DEF Own
    <2>8. Passed(a)'
        BY <1>2, <2>1, <2>6, <2>7 DEF Passed
    <2> QED BY <2>5, <2>8
<1> QED BY <1>1, <1>2

Alone == \A a, b \in Admin : a = b

IInv == AssignmentManagerTypeOK /\ PhaseInv /\ ProposalInv /\ PassedInv

LEMMA NextProposal ==
    ASSUME Alone, IInv, [Next]_vars
    PROVE  ProposalInv' /\ PassedInv'
<1> USE DEF IInv
<1>1. ASSUME NEW a \in Admin, Ask(a) \/ Validate(a) \/ Change(a)
      PROVE  Proposal(a)' /\ Passed(a)'
    <2> Phase(a) /\ Proposal(a) /\ Passed(a)
        BY DEF PhaseInv, ProposalInv, PassedInv
    <2>1. CASE ReadWanted(a) \/ ReadCurrent(a) \/ ComputeProposed(a)
        BY <2>1, ReadProposal
    <2>2. CASE \E rule \in rules[a] : PassRule(a, rule)
        BY <2>2, PassProposal
    <2>3. CASE Approve(a)
        BY <2>3, ApproveProposal
    <2>4. CASE \E x \in todo[a] : Apply(a, x)
        BY <2>4, ApplyProposal
    <2> QED
        BY <1>1, <2>1, <2>2, <2>3, <2>4, QuietSteps, QuietHolds DEF Validate, Change
<1>2. CASE UNCHANGED vars
    <2>1. /\ \A p : Held(p)' = Held(p)
          /\ \A rule : Holders(rule)' = Holders(rule)
        BY <1>2, SameStore DEF vars
    <2> QED BY <1>2, <2>1 DEF vars, locals, ProposalInv, PassedInv, Proposal, Passed
<1> QED BY <1>1, <1>2 DEF Next, Alone, ProposalInv, PassedInv

LEMMA InitIInv == Init => IInv
BY InitTypes, InitPhase DEF Init, IInv, ProposalInv, PassedInv, Proposal, Passed

LEMMA NextIInv ==
    ASSUME Alone, IInv, [Next]_vars
    PROVE  IInv'
BY NextTypes, NextPhase, NextProposal DEF IInv

-----------------------------------------------------------------------------
(* 4. What the rules then guarantee of every step *)

CombinesNothing ==
    \A rule \in RulesOf("combine"), p \in Principal :
        rule.roles \subseteq Held(p)' => rule.roles \subseteq Held(p)

KeepsLastHolder ==
    \A rule \in RulesOf("atLeast") \cap RemovalRules :
        Holders(rule) # {} /\ Holders(rule)' = {} =>
            \E a \in Admin : call[a].op \in {"cleanup", "team"}

SelfCallObeys ==
    \A a \in Admin, p \in Principal :
        pc[a] = "apply" /\ call[a].by = p /\ assignee[a] = p =>
            LET named(rule, roles) == IF rule.roles = {} THEN roles ELSE roles \cap rule.roles
            IN  /\ \A rule \in RulesOf("addSelf") : named(rule, Held(p)' \ Held(p)) = {}
                /\ \A rule \in RulesOf("removeSelf") : named(rule, Held(p) \ Held(p)') = {}

LEMMA SameStoreObeys ==
    ASSUME assignments' = assignments
    PROVE  CombinesNothing /\ KeepsLastHolder /\ SelfCallObeys
<1>1. CombinesNothing
    BY SameStore DEF CombinesNothing
<1>2. KeepsLastHolder
    BY SameStore DEF KeepsLastHolder
<1>3. SelfCallObeys
    BY SameStore DEF SelfCallObeys
<1> QED BY <1>1, <1>2, <1>3

(* What is known when an assignment is written or removed, of the roles the *)
(* assignee gains or loses by it.                                           *)
LEMMA ApplyKnows ==
    ASSUME IInv, NEW a \in Admin, NEW x \in todo[a], Apply(a, x), call[a].op \in OneByOne
    PROVE  /\ x \in Assignment /\ x.principal = assignee[a] /\ Asked(a, x) = Named(x)
           /\ \A p : p # assignee[a] => Held(p)' \subseteq Held(p)
           /\ \A p : p = assignee[a] =>
                 /\ Held(p)' \ Held(p) \subseteq proposed[a] \ current[a]
                 /\ Held(p) \ Held(p)' \subseteq current[a] \ proposed[a]
                 /\ call[a].op = "add" => Held(p)' \subseteq proposed[a]
           /\ \A rule \in AssignmentRules :
                 ~ RefusedOutright(rule, call[a].by, assignee[a], current[a], proposed[a])
<1>1. pc[a] = "apply"
    BY DEF Apply
<1>2. x \in Assignment /\ x.principal = assignee[a]
    BY <1>1 DEF IInv, AssignmentManagerTypeOK, PhaseInv, Phase
<1>3. Asked(a, x) = Named(x)
    BY <1>2, AskedNames DEF OneByOne
<1>4. \A rule \in AssignmentRules :
          ~ RefusedOutright(rule, call[a].by, assignee[a], current[a], proposed[a])
    BY <1>1 DEF IInv, PassedInv, Passed
<1>5. x.role \in Roles(todo[a])
    BY DEF Roles
<1>6. CASE call[a].op = "add"
    <2>1. \A p : Held(p)' = IF p = assignee[a] THEN Held(p) \cup {x.role} ELSE Held(p)
        BY <1>2, <1>6, ApplyAdds DEF IInv
    <2>2. current[a] \subseteq Held(assignee[a])
              /\ Held(assignee[a]) \cup Roles(todo[a]) \subseteq proposed[a]
        BY <1>1, <1>6 DEF IInv, ProposalInv, Proposal, OneByOne
    <2> QED BY <1>2, <1>3, <1>4, <1>5, <2>1, <2>2
<1>7. CASE call[a].op # "add"
    <2>1. /\ \A p : Held(p)' \subseteq Held(p)
          /\ x.role \in Held(assignee[a])
          /\ \A p : p = assignee[a] => Held(p) \ Held(p)' \subseteq {x.role}
        BY <1>2, <1>3, <1>7, ApplyRemoves DEF IInv
    <2>2. Held(assignee[a]) \subseteq current[a] /\ Roles(todo[a]) \cap proposed[a] = {}
        BY <1>1, <1>7 DEF IInv, ProposalInv, Proposal
    <2> QED BY <1>2, <1>3, <1>4, <1>5, <1>7, <2>1, <2>2
<1> QED BY <1>6, <1>7

LEMMA ApplyObeys ==
    ASSUME Alone, IInv, NEW a \in Admin, NEW x \in todo[a], Apply(a, x)
    PROVE  CombinesNothing /\ KeepsLastHolder /\ SelfCallObeys
<1> DEFINE p0 == assignee[a]
<1>1. CASE call[a].op \in OneByOne
    <2>1. CombinesNothing
        <3> SUFFICES ASSUME NEW rule \in RulesOf("combine"), NEW p \in Principal,
                            rule.roles \subseteq Held(p)'
                     PROVE  rule.roles \subseteq Held(p)
            BY DEF CombinesNothing
        <3>1. CASE p = p0 /\ call[a].op = "add"
            <4>1. rule.roles \subseteq proposed[a]
                BY <1>1, <3>1, ApplyKnows
            <4> QED BY <1>1, <4>1, ApplyKnows DEF RulesOf, RefusedOutright
        <3>2. CASE p # p0
            BY <1>1, <3>2, ApplyKnows
        <3>3. CASE call[a].op # "add"
            BY <3>3, ApplyRemoves DEF IInv
        <3> QED BY <3>1, <3>2, <3>3
    <2>2. SelfCallObeys
        <3> SUFFICES ASSUME NEW p \in Principal, call[a].by = p, p0 = p
                     PROVE  /\ \A rule \in RulesOf("addSelf") :
                                  IF rule.roles = {} THEN Held(p)' \ Held(p) = {}
                                  ELSE (Held(p)' \ Held(p)) \cap rule.roles = {}
                            /\ \A rule \in RulesOf("removeSelf") :
                                  IF rule.roles = {} THEN Held(p) \ Held(p)' = {}
                                  ELSE (Held(p) \ Held(p)') \cap rule.roles = {}
            BY DEF SelfCallObeys, Alone
        <3>1. /\ Held(p)' \ Held(p) \subseteq proposed[a] \ current[a]
              /\ Held(p) \ Held(p)' \subseteq current[a] \ proposed[a]
            BY <1>1, ApplyKnows
        <3>2. ASSUME NEW rule \in RulesOf("addSelf")
              PROVE  IF rule.roles = {} THEN proposed[a] \ current[a] = {}
                     ELSE (proposed[a] \ current[a]) \cap rule.roles = {}
            BY <1>1, ApplyKnows DEF RulesOf, RefusedOutright
        <3>3. ASSUME NEW rule \in RulesOf("removeSelf")
              PROVE  IF rule.roles = {} THEN current[a] \ proposed[a] = {}
                     ELSE (current[a] \ proposed[a]) \cap rule.roles = {}
            BY <1>1, ApplyKnows DEF RulesOf, RefusedOutright
        <3> QED BY <3>1, <3>2, <3>3
    <2>3. KeepsLastHolder
        <3> SUFFICES ASSUME NEW rule \in RulesOf("atLeast"), Holders(rule) # {},
                            Holders(rule)' = {}
                     PROVE  FALSE
            BY DEF KeepsLastHolder
        <3>1. CASE call[a].op = "add"
            BY <3>1, ApplyAdds, HoldersIs DEF IInv, Holders, HitsOfKind, Hits
        <3>2. CASE call[a].op # "add"
            <4>1. PICK y \in Holders(rule) : y \notin Own(p0, Roles(todo[a]))
                BY <1>1, <3>2 DEF IInv, PassedInv, Passed, Apply, RulesOf
            <4>2. Named(x) \in Own(p0, Roles(todo[a]))
                <5>1. x.principal = p0 /\ x.role \in Roles(todo[a])
                    BY <1>1, ApplyKnows DEF Roles
                <5> QED BY <5>1 DEF Own, Named
            <4>3. assignments' = assignments \ {Named(x)}
                BY <1>1, <3>2, ApplyKnows, ApplyRemoves DEF IInv
            <4>4. y \in Holders(rule)'
                BY <4>1, <4>2, <4>3 DEF Holders, HitsOfKind, Hits
            <4> QED BY <4>4
        <3> QED BY <3>1, <3>2
    <2> QED BY <2>1, <2>2, <2>3
<1>2. CASE call[a].op \notin OneByOne
    <2>1. call[a].op \in {"cleanup", "team"} /\ call[a].by = Nobody /\ call[a].op # "add"
        BY <1>2 DEF IInv, AssignmentManagerTypeOK, PhaseInv, Phase, Apply, OneByOne, Op
    <2>2. CombinesNothing
        BY <2>1, ApplyRemoves DEF IInv, CombinesNothing
    <2>3. KeepsLastHolder
        BY <2>1 DEF KeepsLastHolder
    <2>4. SelfCallObeys
        BY <2>1, NobodyAssumption DEF SelfCallObeys, Alone
    <2> QED BY <2>2, <2>3, <2>4
<1> QED BY <1>1, <1>2

LEMMA StepObeys ==
    ASSUME Alone, IInv, [Next]_vars
    PROVE  CombinesNothing /\ KeepsLastHolder /\ SelfCallObeys
<1>1. ASSUME NEW a \in Admin, Ask(a) \/ Validate(a) \/ Change(a)
      PROVE  CombinesNothing /\ KeepsLastHolder /\ SelfCallObeys
    BY <1>1, StoreChanges, SameStoreObeys, ApplyObeys
<1>2. CASE UNCHANGED vars
    BY <1>2, SameStoreObeys DEF vars
<1> QED BY <1>1, <1>2 DEF Next

(* CannotCombineRolesRule with one administrator at a time: no step of any  *)
(* call, whatever fails half way, makes a principal hold all the roles of a *)
(* combination that it did not hold already.                                *)
THEOREM SingleAdminNeverCombines ==
    ASSUME Alone
    PROVE  Spec => NeverCombines
<1>1. IInv /\ [Next]_vars => IInv'
    BY NextIInv
<1>2. IInv /\ [Next]_vars => [CombinesNothing]_vars
    BY StepObeys
<1>3. Spec => [][CombinesNothing]_vars
    BY InitIInv, <1>1, <1>2, PTL DEF Spec
<1> QED BY <1>3 DEF NeverCombines, CombinesNothing

(* RequireAtLeastRule with one administrator at a time: a role that has     *)
(* holders in the scope loses its last one only to a cleanup.               *)
THEOREM SingleAdminKeepsLastHolder ==
    ASSUME Alone
    PROVE  Spec => LastHolderStays
<1>1. IInv /\ [Next]_vars => IInv'
    BY NextIInv
<1>2. IInv /\ [Next]_vars => [KeepsLastHolder]_vars
    BY StepObeys
<1>3. Spec => [][KeepsLastHolder]_vars
    BY InitIInv, <1>1, <1>2, PTL DEF Spec
<1> QED BY <1>3 DEF LastHolderStays, KeepsLastHolder

(* CannotAddSelfRule and CannotRemoveSelfRule with one administrator at a   *)
(* time: no call of a principal about itself gives it, or takes from it, a  *)
(* role the rules name, neither directly nor within a bulk removal.         *)
THEOREM SingleAdminSelfCallsObey ==
    ASSUME Alone
    PROVE  Spec => SelfCallsObeyRules
<1>1. IInv /\ [Next]_vars => IInv'
    BY NextIInv
<1>2. IInv /\ [Next]_vars => [SelfCallObeys]_vars
    BY StepObeys
<1>3. Spec => [][SelfCallObeys]_vars
    BY InitIInv, <1>1, <1>2, PTL DEF Spec
<1> QED BY <1>3 DEF SelfCallsObeyRules, SelfCallObeys

-----------------------------------------------------------------------------
(* 5. A removal that returns no error, when one administrator is at work *)

LEMMA ReachedIs ==
    ASSUME NEW a
    PROVE  \A x : x \in Reached(a) <=>
               /\ x \in assignments /\ x.binding \in InScope
               /\ \/ call[a].op = "bulk" /\ x.principal \in call[a].who /\ x.principal \notin left[a]
                  \/ call[a].op = "cleanup" /\ x.role \in Managed /\ x.role \notin left[a]
BY DEF Reached

Gone(a) ==
    pc[a] = "idle" /\ result[a] = "ok" =>
        /\ call[a].op = "bulk" => \A p \in call[a].who : HitsOf(p) = {}
        /\ call[a].op = "cleanup" => \A role \in Managed : Hits(role) = {}
        /\ call[a].op = "team" =>
              \A x \in assignments : x.principal \in call[a].who => x.role \notin Managed

(* The call returns: what it has come to is gone, if it has come to all.    *)
LEMMA ReturnGone ==
    ASSUME AssignmentManagerTypeOK, NEW a \in Admin, NEW error \in BOOLEAN, Return(a, error),
           assignments' = assignments,
           ~ error =>
               /\ call[a].op = "bulk" => \A p \in call[a].who : HitsOf(p) = {}
               /\ call[a].op = "cleanup" => \A role \in Managed : Hits(role) = {}
               /\ call[a].op = "team" =>
                     \A x \in assignments : x.principal \in call[a].who => x.role \notin Managed
    PROVE  Pending(a)' /\ Gone(a)'
<1>1. /\ pc'[a] = "idle" /\ call' = call
      /\ result'[a] = IF error THEN "error" ELSE "ok"
    BY DEF AssignmentManagerTypeOK, Return, Set
<1>2. Pending(a)'
    BY <1>1 DEF Pending
<1>3. Gone(a)'
    BY <1>1 DEF Gone, HitsOf, Hits
<1> QED BY <1>2, <1>3

(* One that is not a bulk removal, or a step of one that fails.             *)
LEMMA EndOneGone ==
    ASSUME AssignmentManagerTypeOK, NEW a \in Admin, NEW error \in BOOLEAN, EndOne(a, error),
           call[a].op \in OneByOne, pc[a] # "idle", Pending(a), assignments' = assignments,
           error \/ todo[a] = {}
    PROVE  Pending(a)' /\ Gone(a)'
<1>1. CASE call[a].op = "bulk"
    <2>1. /\ pc'[a] = "bulk" /\ call' = call /\ left' = left
          /\ failed'[a] = (failed[a] \/ error) /\ todo'[a] = {}
        BY <1>1 DEF AssignmentManagerTypeOK, EndOne, Set
    <2>2. Reached(a)' = Reached(a)
        BY <2>1 DEF Reached
    <2>3. Pending(a)'
        BY <2>1, <2>2 DEF Pending
    <2>4. Gone(a)'
        BY <2>1 DEF Gone
    <2> QED BY <2>3, <2>4
<1>2. CASE call[a].op # "bulk"
    <2>1. Return(a, error)
        BY <1>2 DEF EndOne
    <2> QED BY <1>2, <2>1, ReturnGone DEF OneByOne
<1> QED BY <1>1, <1>2

LEMMA AskGone ==
    ASSUME AssignmentManagerTypeOK, NEW a \in Admin, Ask(a)
    PROVE  Pending(a)' /\ Gone(a)'
<1> USE DEF AssignmentManagerTypeOK, Goto, Set
<1>1. pc'[a] # "idle" /\ pc'[a] # "apply"
    BY DEF Ask, AddRoles, RemoveRoles, RemoveBulkUsers, CleanupAllRoleAssignments,
           CleanupTeamRoleAssignments, Begin
<1>2. Reached(a)' = {}
    <2>1. \/ call'[a].op \notin {"bulk", "cleanup"}
          \/ call'[a].op = "bulk" /\ left'[a] = call'[a].who
          \/ call'[a].op = "cleanup" /\ left'[a] = Managed
        BY DEF Ask, AddRoles, RemoveRoles, RemoveBulkUsers, CleanupAllRoleAssignments,
               CleanupTeamRoleAssignments, Begin
    <2> QED BY <2>1 DEF Reached
<1> QED BY <1>1, <1>2 DEF Pending, Gone

LEMMA ValidateGone ==
    ASSUME AssignmentManagerTypeOK, NEW a \in Admin, Phase(a), Pending(a), Validate(a)
    PROVE  Pending(a)' /\ Gone(a)'
<1>1. CASE ReadFails(a) \/ \E rule \in rules[a] : FailRule(a, rule)
    <2>1. /\ EndOne(a, TRUE) /\ assignments' = assignments
          /\ pc[a] \in Validating /\ pc[a] # "idle"
        BY <1>1 DEF ReadFails, FailRule, Validating
    <2> QED BY <2>1, EndOneGone DEF Phase
<1>2. CASE FailRemoval(a)
    BY <1>2, ReturnGone DEF FailRemoval
<1>3. CASE \/ ReadWanted(a) \/ ReadCurrent(a) \/ ComputeProposed(a) \/ Approve(a)
           \/ ApproveRemoval(a)
           \/ \E rule \in rules[a] : PassRule(a, rule) \/ PassRemoval(a, rule)
    <2>1. /\ pc[a] # "idle" /\ pc'[a] # "idle"
          /\ UNCHANGED <<assignments, call, assignee, todo, left, failed>>
          /\ pc'[a] = "apply" => call[a].op # "team"
        BY <1>3 DEF AssignmentManagerTypeOK, Goto, Set, ReadWanted, ReadCurrent, ComputeProposed,
                    Approve, ApproveRemoval, PassRule, PassRemoval, locals, Phase, Validating,
                    OneByOne
    <2>2. Reached(a)' = Reached(a)
        BY <2>1 DEF Reached
    <2> QED BY <2>1, <2>2 DEF Pending, Gone
<1> QED BY <1>1, <1>2, <1>3 DEF Validate

(* A removal takes what the store is asked for: of what the call has come   *)
(* to, that and nothing else.                                               *)
LEMMA ApplyGone ==
    ASSUME AssignmentManagerTypeOK, NEW a \in Admin, Phase(a), Pending(a),
           NEW z \in todo[a], Apply(a, z)
    PROVE  Pending(a)' /\ Gone(a)'
<1>1. /\ pc[a] = "apply" /\ todo'[a] = todo[a] \ {z}
      /\ UNCHANGED <<pc, call, assignee, left, failed>>
      /\ z \in Assignment /\ assignments \subseteq Assignment
    BY DEF AssignmentManagerTypeOK, Apply, Set, locals
<1>2. Gone(a)'
    BY <1>1 DEF Gone
<1>3. CASE failed[a]
    BY <1>1, <1>2, <1>3 DEF Pending
<1>4. CASE ~ failed[a] /\ call[a].op \in {"bulk", "cleanup"}
    <2>1. /\ Asked(a, z) = Named(z) /\ Named(z) \in assignments
          /\ assignments' = assignments \ {Named(z)}
        BY <1>1, <1>4, AskedNames DEF Apply
    <2>2. \A x : x \in Reached(a)' <=> x \in Reached(a) /\ x # Named(z)
        BY <1>1, <2>1 DEF Reached
    <2> SUFFICES ASSUME NEW x \in Reached(a), x # Named(z)
                 PROVE  \/ x \in todo'[a]
                        \/ /\ Named(x) \notin assignments'
                           /\ \E y \in todo'[a] : Named(y) = Named(x)
        BY <1>1, <1>2, <1>4, <2>2 DEF Pending
    <2>3. x \in Assignment /\ x \in assignments
        BY <1>1 DEF Reached
    <2>4. CASE x \in todo[a] /\ x # z
        BY <1>1, <2>4
    <2>5. CASE x = z
        <3>1. Named(z) \in Reached(a)
            BY <1>1, <2>1, <2>5, NamedInScope, ReachedIs
        <3>2. Named(z) \in todo[a]
            BY <1>1, <1>4, <2>1, <3>1, NamedInScope DEF Pending
        <3> QED BY <1>1, <2>1, <2>5, <3>2, NamedInScope
    <2>6. CASE x \notin todo[a]
        <3>1. PICK y \in todo[a] : Named(y) = Named(x) /\ Named(x) \notin assignments
            BY <1>1, <1>4, <2>6 DEF Pending
        <3> QED BY <1>1, <2>1, <3>1
    <2> QED BY <2>4, <2>5, <2>6
<1>5. CASE ~ failed[a] /\ call[a].op = "team"
    <2>1. assignments' = assignments \ {z}
        BY <1>1, <1>5, AskedNames DEF Apply
    <2>2. Reached(a)' = {}
        BY <1>1, <1>5 DEF Reached
    <2> QED BY <1>1, <1>2, <1>5, <2>1, <2>2 DEF Pending
<1>6. CASE call[a].op \notin {"bulk", "cleanup", "team"}
    BY <1>1, <1>2, <1>6 DEF Pending, Reached
<1> QED BY <1>3, <1>4, <1>5, <1>6

LEMMA ChangeGone ==
    ASSUME AssignmentManagerTypeOK, NEW a \in Admin, Phase(a), Pending(a), Change(a)
    PROVE  Pending(a)' /\ Gone(a)'
<1> USE DEF AssignmentManagerTypeOK, Goto, Set
<1>1. CASE \E x \in todo[a] : Apply(a, x)
    BY <1>1, ApplyGone
<1>2. ASSUME NEW x \in todo[a], ApplyFails(a, x)
      PROVE  Pending(a)' /\ Gone(a)'
    <2>1. CASE call[a].op \in {"cleanup", "team"}
        <3>1. pc'[a] = "apply" /\ failed'[a]
            BY <1>2, <2>1 DEF ApplyFails
        <3> QED BY <3>1 DEF Pending, Gone
    <2>2. CASE call[a].op \notin {"cleanup", "team"}
        <3>1. EndOne(a, TRUE) /\ pc[a] = "apply" /\ assignments' = assignments
            BY <1>2, <2>2 DEF ApplyFails
        <3>2. call[a].op \in OneByOne
            BY <2>2, <3>1 DEF Phase, Op, OneByOne
        <3> QED BY <3>1, <3>2, EndOneGone
    <2> QED BY <2>1, <2>2
<1>3. CASE Applied(a)
    <2>1. pc[a] = "apply" /\ todo[a] = {} /\ assignments' = assignments
        BY <1>3 DEF Applied
    <2>2. CASE call[a].op = "cleanup"
        <3>1. /\ pc'[a] = "cleanup" /\ UNCHANGED <<call, left, failed, todo>>
            BY <1>3, <2>2 DEF Applied, locals
        <3>2. Reached(a)' = Reached(a)
            BY <2>1, <3>1 DEF Reached
        <3> QED BY <2>1, <3>1, <3>2 DEF Pending, Gone
    <2>3. CASE call[a].op = "team"
        <3>1. Return(a, failed[a]) /\ call[a].who = {assignee[a]}
            BY <1>3, <2>1, <2>3 DEF Applied, Phase
        <3>2. ~ failed[a] => \A x \in assignments : x.principal \in call[a].who =>
                                                       x.role \notin Managed
            BY <2>1, <2>3, <3>1 DEF Pending
        <3> QED BY <2>1, <2>3, <3>1, <3>2, ReturnGone
    <2>4. CASE call[a].op \notin {"cleanup", "team"}
        <3>1. EndOne(a, FALSE) /\ call[a].op \in OneByOne
            BY <1>3, <2>1, <2>4 DEF Applied, Phase, Op, OneByOne
        <3> QED BY <2>1, <3>1, EndOneGone
    <2> QED BY <2>2, <2>3, <2>4
<1>4. ASSUME NEW p \in left[a], BulkNext(a, p)
      PROVE  Pending(a)' /\ Gone(a)'
    <2>1. /\ pc[a] = "bulk" /\ pc'[a] = "wanted" /\ todo'[a] = HitsOf(p)
          /\ left'[a] = left[a] \ {p} /\ UNCHANGED <<assignments, call, failed>>
          /\ call[a].op = "bulk" /\ todo[a] = {}
        BY <1>4 DEF BulkNext, Phase
    <2>2. ASSUME NEW x \in Reached(a)', ~ failed[a]
          PROVE  x \in todo'[a]
        <3>1. /\ x \in assignments /\ x.binding \in InScope
              /\ x.principal \in call[a].who \ (left[a] \ {p})
            BY <2>1 DEF Reached
        <3>2. x \notin Reached(a)
            BY <2>1, <2>2 DEF Pending
        <3>3. x.principal = p
            BY <2>1, <3>1, <3>2 DEF Reached
        <3> QED BY <2>1, <3>1, <3>3 DEF HitsOf
    <2> QED BY <2>1, <2>2 DEF Pending, Gone
<1>5. ASSUME NEW role \in left[a], CleanupRole(a, role)
      PROVE  Pending(a)' /\ Gone(a)'
    <2>1. /\ pc[a] = "cleanup" /\ pc'[a] = "apply" /\ todo'[a] = Hits(role)
          /\ left'[a] = left[a] \ {role} /\ UNCHANGED <<assignments, call, failed>>
          /\ call[a].op = "cleanup" /\ todo[a] = {}
        BY <1>5 DEF CleanupRole, Phase
    <2>2. ASSUME NEW x \in Reached(a)', ~ failed[a]
          PROVE  x \in todo'[a]
        <3>1. /\ x \in assignments /\ x.binding \in InScope
              /\ x.role \in Managed \ (left[a] \ {role})
            BY <2>1 DEF Reached
        <3>2. x \notin Reached(a)
            BY <2>1, <2>2 DEF Pending
        <3>3. x.role = role
            BY <2>1, <3>1, <3>2 DEF Reached
        <3> QED BY <2>1, <3>1, <3>3 DEF Hits
    <2> QED BY <2>1, <2>2 DEF Pending, Gone
<1>6. ASSUME NEW role \in left[a], CleanupReadFails(a, role)
      PROVE  Pending(a)' /\ Gone(a)'
    BY <1>6 DEF CleanupReadFails, Pending, Gone
<1>7. CASE BulkReadFails(a) \/ TeamReadFails(a)
    BY <1>7, ReturnGone DEF BulkReadFails, TeamReadFails
<1>8. CASE EndLoop(a)
    <2>1. /\ pc[a] \in {"bulk", "cleanup"} /\ left[a] = {} /\ todo[a] = {}
          /\ Return(a, failed[a]) /\ assignments' = assignments
          /\ call[a].op = pc[a]
        BY <1>8 DEF EndLoop, Phase
    <2>2. ASSUME ~ failed[a]
          PROVE  Reached(a) = {}
        BY <2>1, <2>2 DEF Pending
    <2>3. ASSUME ~ failed[a], call[a].op = "bulk", NEW p \in call[a].who
          PROVE  HitsOf(p) = {}
        BY <2>1, <2>2, <2>3 DEF Reached, HitsOf
    <2>4. ASSUME ~ failed[a], call[a].op = "cleanup", NEW role \in Managed
          PROVE  Hits(role) = {}
        BY <2>1, <2>2, <2>4 DEF Reached, Hits
    <2> QED BY <2>1, <2>3, <2>4, ReturnGone
<1>9. CASE CleanupTeam(a)
    <2>1. /\ pc'[a] = "apply" /\ UNCHANGED <<assignments, call, assignee>>
          /\ call[a].op = "team"
          /\ todo'[a] = {x \in assignments : x.principal = assignee[a] /\ x.role \in Managed}
        BY <1>9 DEF CleanupTeam, locals, Phase
    <2>2. Reached(a)' = {}
        BY <2>1 DEF Reached
    <2> QED BY <2>1, <2>2 DEF Pending, Gone
<1> QED BY <1>1, <1>2, <1>3, <1>4, <1>5, <1>6, <1>7, <1>8, <1>9 DEF Change

GInv ==
    /\ AssignmentManagerTypeOK /\ PhaseInv
    /\ PendingInv
    /\ \A a \in Admin : Gone(a)

LEMMA NextGInv ==
    ASSUME Alone, GInv, [Next]_vars
    PROVE  GInv'
<1>1. AssignmentManagerTypeOK' /\ PhaseInv'
    BY NextTypes, NextPhase DEF GInv
<1>2. ASSUME NEW a \in Admin, Ask(a) \/ Validate(a) \/ Change(a)
      PROVE  Pending(a)' /\ Gone(a)'
    BY <1>2, AskGone, ValidateGone, ChangeGone DEF GInv, PhaseInv, PendingInv
<1>3. CASE UNCHANGED vars
    <2>1. /\ \A a : Reached(a)' = Reached(a)
          /\ \A p : HitsOf(p)' = HitsOf(p)
          /\ \A role : Hits(role)' = Hits(role)
        BY <1>3 DEF vars, locals, Reached, HitsOf, Hits
    <2> QED BY <1>1, <1>3, <2>1 DEF GInv, vars, locals, PendingInv, Pending, Gone
<1> QED BY <1>1, <1>2, <1>3 DEF Next, Alone, GInv, PendingInv

(* RemoveBulkUsers and the two cleanups with one administrator at a time:   *)
(* though the store is asked for the manager's own binding values whatever  *)
(* was found, a call that returns no error has left nothing behind.         *)
THEOREM SingleAdminOkMeansGone ==
    ASSUME Alone
    PROVE  Spec => []OkMeansGone
<1>1. Init => GInv
    BY InitTypes, InitPhase DEF Init, GInv, PendingInv, Pending, Gone
<1>2. GInv /\ [Next]_vars => GInv'
    BY NextGInv
<1>3. GInv => OkMeansGone
    BY DEF GInv, Gone, OkMeansGone
<1> QED BY <1>1, <1>2, <1>3, PTL DEF Spec

=============================================================================
