---------------------- MODULE PermissionEvaluationProofs ----------------------
(***************************************************************************)
(* One call of evaluatePermission, for any policy, any number of changes   *)
(* of it and any clock.  Two things are inductive.  What the call knows    *)
(* was so since it began (SeenInv), so that what it concludes is witnessed *)
(* (WitnessInv).  And what stands all through the call is not lost: it is  *)
(* read (ReadInv), and every holder that stands is still to be evaluated,  *)
(* under evaluation, or has nothing to say about the request (Handled), at *)
(* the end the last of the three (StandingInv).  With no changes the two   *)
(* meet, and the answer is that of the policy, as the lists of effective   *)
(* permissions are.                                                        *)
(***************************************************************************)
EXTENDS EffectivePermissions, TLAPS

(* What Applies says, for a request that is a parameter: PointsAt is the    *)
(* part of it about one grant, Via the part about one holder.               *)
PointsAt(q, effect, g, h) ==
    /\ g.effect = effect
    /\ ~ BindingFails(g, h)
    /\ \/ ResolvedScope(g, h) = AnyTeam
       \/ q.team # NoTeam /\ ResolvedScope(g, h) = q.team
    /\ q.team # NoTeam \/ g.scope = AnyTeam \/ g.owner \in BuiltInRole
    /\ LET under == q.field # WholeRequest /\ Restricts(g, q.field)
       IN  IF effect = "deny" THEN g.fields = {} \/ under ELSE ~ under

Via(q, P, effect, h, time) ==
    \E g \in P.grants :
        /\ g.owner \in Owners(P, h)
        /\ ~ IsExpiredAt(g, time)
        /\ PointsAt(q, effect, g, h)

AppliesTo(q, P, effect, time) ==
    \E h \in Holders(P) : Via(q, P, effect, h, time)

Bound(P) == Holders(P) \ {Direct}

Within(P, Q) ==
    /\ P.grants \subseteq Q.grants
    /\ P.assignments \subseteq Q.assignments
    /\ P.memberOf \subseteq Q.memberOf

policy == [grants |-> grants, assignments |-> assignments, memberOf |-> memberOf]

(* What the call knows was so at some time since it began.                  *)
SeenInv ==
    /\ pc = "start" => /\ myGroups = {} /\ toAsk = {} /\ held = {} /\ ~ allowed
                       /\ result = "none" /\ changes = 0 /\ now <= clock
    /\ pc # "start" => Within(policy, seen) /\ Within(standing, policy) /\ now <= clock
    /\ myGroups \subseteq seen.memberOf
    /\ toAsk \subseteq {User} \cup seen.memberOf
    /\ held \subseteq Bound(seen)
    /\ pc = "custom" => /\ current \in Bound(seen)
                        /\ batch \subseteq seen.grants
                        /\ \A g \in batch :
                              g.owner \in Inherits[current.role] \cap BuiltInRole

(* What it has concluded from that, and when it answers.                    *)
WitnessInv ==
    /\ allowed => AppliesTo(request, seen, "allow", now)
    /\ result = "allow" => AppliesTo(request, seen, "allow", now)
    /\ result = "refuse" => ~ allowed \/ AppliesTo(request, seen, "deny", now)
    /\ result # "none" => pc = "done"

(* What stands all through the call is not lost on the way from the         *)
(* memberships to the roles held.                                           *)
Assigned(P, p) ==
    {[role |-> a.role, binding |-> a.binding] :
        a \in {b \in P.assignments : b.principal = p}}

ReadInv ==
    /\ pc \notin {"start", "groups"} => standing.memberOf \cap Group \subseteq myGroups
    /\ pc = "teams" => User \in toAsk /\ standing.memberOf \cap Group \subseteq toAsk
    /\ pc = "roles" =>
         /\ toAsk # {}
         /\ \A p \in {User} \cup standing.memberOf :
              p \in toAsk \/ Assigned(standing, p) \subseteq held
    /\ pc = "direct" => Bound(standing) \subseteq held
    /\ pc = "custom" =>
         \A g \in standing.grants :
             /\ g.owner \in Inherits[current.role] \cap BuiltInRole
             /\ ~ IsExpiredAt(g, clock)
             => g \in batch

(* What is still to be evaluated is held, or is the role under evaluation:  *)
(* nothing else that stands says effect.                                    *)
Handled(effect) ==
    /\ pc \in {"next", "custom"} =>
         /\ ~ Via(request, standing, effect, Direct, clock)
         /\ \A h \in Bound(standing) :
              \/ h \in held
              \/ pc = "custom" /\ h = current
              \/ ~ Via(request, standing, effect, h, clock)

StandingInv ==
    /\ Handled("deny")
    /\ ~ allowed => Handled("allow")
    /\ result = "allow" => ~ AppliesTo(request, standing, "deny", clock)
    /\ result = "refuse" => \/ ~ AppliesTo(request, standing, "allow", clock)
                            \/ AppliesTo(request, seen, "deny", now)

(* Nothing changed.                                                         *)
UndisturbedInv ==
    pc # "start" /\ changes = 0 => standing = policy /\ seen = policy
-----------------------------------------------------------------------------
(* Whatever administrators do is a change from one policy to another.       *)
LEMMA AdministerIsChange ==
    ASSUME PermissionEvaluationTypeOK, Administer
    PROVE  \E gs \in SUBSET Grant, as \in SUBSET Assignment,
              ms \in SUBSET (Group \cup Team) : Change(gs, as, ms)
<1> DEFINE Changed == \E gs \in SUBSET Grant, as \in SUBSET Assignment,
                         ms \in SUBSET (Group \cup Team) : Change(gs, as, ms)
<1>0. /\ grants \in SUBSET Grant /\ assignments \in SUBSET Assignment
      /\ memberOf \in SUBSET (Group \cup Team)
  BY DEF PermissionEvaluationTypeOK
<1>1. ASSUME NEW g \in Grant, CreateGrant(g) PROVE Changed
  <2>1. grants \cup {g} \in SUBSET Grant
    BY <1>0
  <2>. QED
    BY <1>0, <1>1, <2>1 DEF CreateGrant
<1>2. ASSUME NEW owner, DeleteGrantsForOwner(owner) PROVE Changed
  <2>1. {g \in grants : g.owner # owner} \in SUBSET Grant
    BY <1>0
  <2>. QED
    BY <1>0, <1>2, <2>1 DEF DeleteGrantsForOwner
<1>3. ASSUME NEW a \in Assignment, AssignRole(a) PROVE Changed
  <2>1. assignments \cup {a} \in SUBSET Assignment
    BY <1>0
  <2>. QED
    BY <1>0, <1>3, <2>1 DEF AssignRole
<1>4. ASSUME NEW a \in Assignment, UnassignRole(a) PROVE Changed
  <2>1. assignments \ {a} \in SUBSET Assignment
    BY <1>0
  <2>. QED
    BY <1>0, <1>4, <2>1 DEF UnassignRole
<1>5. ASSUME NEW ms \in SUBSET (Group \cup Team), ChangeMembership(ms) PROVE Changed
  BY <1>0, <1>5 DEF ChangeMembership
<1> HIDE DEF Changed
<1>6. Changed
  BY <1>1, <1>2, <1>3, <1>4, <1>5 DEF Administer
<1>. QED
  BY <1>6 DEF Changed

(* Types: the call works on grants, roles and principals that exist.        *)
THEOREM EvaluationTypeCorrect == Spec => []PermissionEvaluationTypeOK
<1>1. Init => PermissionEvaluationTypeOK
  <2> SUFFICES ASSUME Init PROVE PermissionEvaluationTypeOK
    OBVIOUS
  <2>1. 0 \in 0..MaxClock /\ 0 \in 0..MaxChanges
    BY BoundsAssumption
  <2>2. standing \in Policy /\ seen \in Policy
    BY DEF Init, Policy
  <2>. QED
    BY <2>1, <2>2 DEF Init, PermissionEvaluationTypeOK
<1>2. PermissionEvaluationTypeOK /\ [Next]_vars => PermissionEvaluationTypeOK'
  <2> SUFFICES ASSUME PermissionEvaluationTypeOK, [Next]_vars
               PROVE  PermissionEvaluationTypeOK'
    OBVIOUS
  <2> USE DEF PermissionEvaluationTypeOK, policyVars, localVars, Policy
  <2>1. ASSUME Start PROVE PermissionEvaluationTypeOK'
    <3>1. standing' \in Policy /\ seen' \in Policy
      BY <2>1 DEF Start
    <3>. QED
      BY <2>1, <3>1 DEF Start
  <2>2. ASSUME ReadGroups PROVE PermissionEvaluationTypeOK'
    BY <2>2 DEF ReadGroups
  <2>3. ASSUME ReadTeams PROVE PermissionEvaluationTypeOK'
    BY <2>3 DEF ReadTeams
  <2>4. ASSUME NEW p \in toAsk, ReadAssignments(p) PROVE PermissionEvaluationTypeOK'
    <3>1. ASSUME NEW h \in held' PROVE h = NoRole \/ h.role \in Role
      BY <2>4, AssignmentsAssumption, RoleAssumption DEF ReadAssignments
    <3>. QED
      BY <2>4, <3>1 DEF ReadAssignments
  <2>5. ASSUME ReadDirectGrants PROVE PermissionEvaluationTypeOK'
    BY <2>5 DEF ReadDirectGrants, Conclude
  <2>6. ASSUME NEW h \in held, ReadBuiltInGrants(h) PROVE PermissionEvaluationTypeOK'
    BY <2>6 DEF ReadBuiltInGrants, RegistryGrants
  <2>7. ASSUME ReadCustomGrants PROVE PermissionEvaluationTypeOK'
    BY <2>7 DEF ReadCustomGrants, Conclude
  <2>8. ASSUME Finish PROVE PermissionEvaluationTypeOK'
    BY <2>8 DEF Finish
  <2>9. ASSUME NEW gs \in SUBSET Grant, NEW as \in SUBSET Assignment,
               NEW ms \in SUBSET (Group \cup Team), Change(gs, as, ms)
        PROVE  PermissionEvaluationTypeOK'
    <3>1. standing' \in Policy /\ seen' \in Policy
      BY <2>9 DEF Change
    <3>2. changes' \in 0..MaxChanges
      BY <2>9, BoundsAssumption DEF Change
    <3>3. /\ grants' \subseteq Grant /\ assignments' \subseteq Assignment
          /\ memberOf' \subseteq Group \cup Team
      BY <2>9 DEF Change
    <3>. QED
      BY <2>9, <3>1, <3>2, <3>3 DEF Change
  <2>10. ASSUME Tick PROVE PermissionEvaluationTypeOK'
    BY <2>10, BoundsAssumption DEF Tick
  <2>11. CASE UNCHANGED vars
    BY <2>11 DEF vars
  <2>. QED
    BY <2>1, <2>2, <2>3, <2>4, <2>5, <2>6, <2>7, <2>8, <2>9, <2>10, <2>11,
       AdministerIsChange DEF Next, Evaluate
<1>. QED
  BY <1>1, <1>2, PTL DEF Spec
-----------------------------------------------------------------------------
(* More policy, more holders; less policy, fewer.                           *)
LEMMA HoldersGrow ==
    ASSUME NEW P, NEW Q, Within(P, Q)
    PROVE  Holders(P) \subseteq Holders(Q) /\ Bound(P) \subseteq Bound(Q)
BY DEF Within, Holders, Bound

(* What a policy says, a larger one says too; and what it says later it has *)
(* said before, because grants only expire.                                 *)
LEMMA ViaGrows ==
    ASSUME NEW P, NEW Q, Within(P, Q), P.grants \subseteq Grant,
           NEW q, NEW effect, NEW h, NEW early \in Nat, NEW late \in Nat, early <= late,
           Via(q, P, effect, h, late)
    PROVE  Via(q, Q, effect, h, early)
<1>1. PICK g \in P.grants : /\ g.owner \in Owners(P, h)
                            /\ ~ IsExpiredAt(g, late)
                            /\ PointsAt(q, effect, g, h)
  BY DEF Via
<1>2. g \in Q.grants /\ g.owner \in Owners(Q, h)
  BY <1>1 DEF Within, Owners
<1>3. ~ IsExpiredAt(g, early)
  BY <1>1, GrantsAssumption DEF IsExpiredAt
<1>. QED
  BY <1>1, <1>2, <1>3 DEF Via

LEMMA AppliesGrows ==
    ASSUME NEW P, NEW Q, Within(P, Q), P.grants \subseteq Grant,
           NEW q, NEW effect, NEW early \in Nat, NEW late \in Nat, early <= late,
           AppliesTo(q, P, effect, late)
    PROVE  AppliesTo(q, Q, effect, early)
BY HoldersGrow, ViaGrows DEF AppliesTo

(* The reference of PermissionEvaluation is AppliesTo for this request.     *)
LEMMA AppliesIsAppliesTo ==
    ASSUME NEW P, P.grants \subseteq Grant, NEW effect \in {"allow", "deny"}, NEW time
    PROVE  Applies(P, effect, time) <=> AppliesTo(request, P, effect, time)
<1>1. ASSUME NEW g \in P.grants, NEW h
      PROVE  /\ g.effect = effect /\ ~ BindingFails(g, h)
             /\ Concerns(g, h) /\ Decides(g)
             <=> PointsAt(request, effect, g, h)
  BY DEF Concerns, Decides, PointsAt, Restricts
<1>. QED
  BY <1>1 DEF Applies, AppliesTo, Via

(* Neither filter drops a grant that points at the request.                 *)
LEMMA PointsPass ==
    ASSUME NEW effect \in {"allow", "deny"}, NEW g \in Grant, NEW h,
           PointsAt(request, effect, g, h)
    PROVE  /\ g.owner \in BuiltInRole \/ ScopeMatches(g.scope, request.team)
           /\ MatchesTeamScope(ResolvedScope(g, h), request.team)
           /\ MatchesField(g, request.field)
BY DEF PointsAt, ScopeMatches, MatchesTeamScope, ResolvedScope, MatchesField, Restricts

(* What going through a batch finds: a refusal and an allow each rest on a  *)
(* grant that points at the request, and where there is one it is found.    *)
Found(gs, h, effect) ==
    \E g \in gs : ~ IsExpiredAt(g, now) /\ PointsAt(request, effect, g, h)

LEMMA OutcomesFind ==
    ASSUME NEW gs \in SUBSET Grant, NEW h, NEW o \in Outcomes(gs, h),
           \A g \in gs : g.owner \in BuiltInRole \/ ScopeMatches(g.scope, request.team)
    PROVE  /\ o \in {"refuse", "error", "allow", "go on"}
           /\ o = "refuse" => Found(gs, h, "deny")
           /\ o = "allow" => Found(gs, h, "allow")
           /\ o \in {"allow", "go on"} => ~ Found(gs, h, "deny")
           /\ o = "go on" => ~ Found(gs, h, "allow")
<1>1. ASSUME NEW g \in Matching(gs, h, "allow")
      PROVE  g \in gs /\ ~ IsExpiredAt(g, now) /\ PointsAt(request, "allow", g, h)
  BY DEF Matching, PointsAt, MatchesTeamScope, MatchesField, ScopeMatches, Restricts
<1>2. ASSUME NEW g \in Decisive(Matching(gs, h, "deny"))
      PROVE  g \in gs /\ ~ IsExpiredAt(g, now) /\ PointsAt(request, "deny", g, h)
  BY DEF Decisive, Matching, PointsAt, MatchesTeamScope, MatchesField, ScopeMatches, Restricts
<1>3. ASSUME NEW g \in gs, ~ IsExpiredAt(g, now), PointsAt(request, "allow", g, h)
      PROVE  g \in Matching(gs, h, "allow")
  BY <1>3, PointsPass DEF Matching, PointsAt
<1>4. ASSUME NEW g \in gs, ~ IsExpiredAt(g, now), PointsAt(request, "deny", g, h)
      PROVE  g \in Decisive(Matching(gs, h, "deny"))
  <2>1. g \in Matching(gs, h, "deny")
    BY <1>4, PointsPass DEF Matching, PointsAt
  <2>. QED
    BY <1>4, <2>1 DEF Decisive, PointsAt
<1>5. /\ o \in {"refuse", "error", "allow", "go on"}
      /\ o = "refuse" => Decisive(Matching(gs, h, "deny")) # {}
      /\ o = "allow" => Matching(gs, h, "allow") # {}
      /\ o \in {"allow", "go on"} => Decisive(Matching(gs, h, "deny")) = {}
      /\ o = "go on" => Matching(gs, h, "allow") = {}
  BY DEF Outcomes
<1>. QED
  BY <1>1, <1>2, <1>3, <1>4, <1>5 DEF Found
-----------------------------------------------------------------------------
(* A change adds to what was seen and takes from what stands.               *)
LEMMA ChangeWithin ==
    ASSUME PermissionEvaluationTypeOK, SeenInv,
           NEW gs \in SUBSET Grant, NEW as \in SUBSET Assignment,
           NEW ms \in SUBSET (Group \cup Team), Change(gs, as, ms)
    PROVE  /\ Within(seen, seen') /\ Within(standing', standing)
           /\ Within(policy', seen') /\ Within(standing', policy')
           /\ UNCHANGED <<clock, pc, localVars, result>> /\ Underway
BY DEF Change, Within, policy, SeenInv, Underway

\* The parts of the type invariant that the proofs below keep needing.
LEMMA EvaluationTypes ==
    ASSUME PermissionEvaluationTypeOK
    PROVE  /\ clock \in Nat /\ now \in Nat
           /\ grants \subseteq Grant /\ batch \subseteq Grant
           /\ standing.grants \subseteq Grant /\ seen.grants \subseteq Grant
           /\ assignments \subseteq Assignment /\ memberOf \subseteq Group \cup Team
           /\ standing.memberOf \subseteq Group \cup Team
           /\ standing.assignments \subseteq Assignment
           /\ seen.assignments \subseteq Assignment
BY BoundsAssumption DEF PermissionEvaluationTypeOK, Policy

\* A role with a binding, as held, is not the mark for the user and the groups.
LEMMA BoundIsNotDirect ==
    ASSUME NEW r, NEW b
    PROVE  [role |-> r, binding |-> b] # Direct
BY DEF Direct

(* Whatever the call knows has been so since it began: the policy of any    *)
(* moment is within what was seen, what stands is within the policy, and    *)
(* groups, roles held and grants fetched were all seen.                     *)
THEOREM EvaluationKnowsOnlySeen == Spec => []SeenInv
<1>1. Init => SeenInv
  BY DEF Init, SeenInv
<1>2. PermissionEvaluationTypeOK /\ SeenInv /\ [Next]_vars => SeenInv'
  <2> SUFFICES ASSUME PermissionEvaluationTypeOK, SeenInv, [Next]_vars
               PROVE  SeenInv'
    OBVIOUS
  <2> USE EvaluationTypes DEF policyVars, localVars
  <2>1. ASSUME Start PROVE SeenInv'
    <3>1. Within(policy', seen') /\ Within(standing', policy')
      BY <2>1 DEF Start, Within, policy
    <3>. QED
      BY <2>1, <3>1 DEF Start, SeenInv
  <2>2. ASSUME ReadGroups PROVE SeenInv'
    <3>1. memberOf \subseteq seen.memberOf
      BY <2>2 DEF ReadGroups, SeenInv, Within, policy
    <3>. QED
      BY <2>2, <3>1 DEF ReadGroups, SeenInv, policy
  <2>3. ASSUME ReadTeams PROVE SeenInv'
    <3>1. memberOf \subseteq seen.memberOf
      BY <2>3 DEF ReadTeams, SeenInv, Within, policy
    <3>. QED
      BY <2>3, <3>1 DEF ReadTeams, SeenInv, policy
  <2>4. ASSUME NEW p \in toAsk, ReadAssignments(p) PROVE SeenInv'
    <3>1. assignments \subseteq seen.assignments /\ p \in {User} \cup seen.memberOf
      BY <2>4 DEF ReadAssignments, SeenInv, Within, policy
    <3>2. held' \subseteq Bound(seen)
      BY <2>4, <3>1, BoundIsNotDirect DEF ReadAssignments, SeenInv, Bound, Holders
    <3>. QED
      BY <2>4, <3>2 DEF ReadAssignments, SeenInv, policy
  <2>5. ASSUME ReadDirectGrants PROVE SeenInv'
    BY <2>5 DEF ReadDirectGrants, Conclude, SeenInv, policy
  <2>6. ASSUME NEW h \in held, ReadBuiltInGrants(h) PROVE SeenInv'
    <3>1. grants \subseteq seen.grants
      BY <2>6 DEF ReadBuiltInGrants, SeenInv, Within, policy
    <3>2. /\ batch' \subseteq seen.grants
          /\ \A g \in batch' : g.owner \in Inherits[h.role] \cap BuiltInRole
      BY <2>6, <3>1 DEF ReadBuiltInGrants, RegistryGrants
    <3>. QED
      BY <2>6, <3>2 DEF ReadBuiltInGrants, SeenInv, policy
  <2>7. ASSUME ReadCustomGrants PROVE SeenInv'
    BY <2>7 DEF ReadCustomGrants, Conclude, SeenInv, policy
  <2>8. ASSUME Finish PROVE SeenInv'
    BY <2>8 DEF Finish, SeenInv, policy
  <2>9. ASSUME NEW gs \in SUBSET Grant, NEW as \in SUBSET Assignment,
               NEW ms \in SUBSET (Group \cup Team), Change(gs, as, ms)
        PROVE  SeenInv'
    <3>1. /\ Within(seen, seen') /\ Within(policy', seen') /\ Within(standing', policy')
          /\ UNCHANGED <<clock, pc, localVars, result>> /\ Underway
      BY <2>9, ChangeWithin
    <3>2. Bound(seen) \subseteq Bound(seen')
      BY <3>1, HoldersGrow
    <3>. QED
      BY <3>1, <3>2 DEF SeenInv, Within, Underway
  <2>10. ASSUME Tick PROVE SeenInv'
    BY <2>10 DEF Tick, SeenInv, policy, Underway
  <2>11. CASE UNCHANGED vars
    BY <2>11 DEF vars, SeenInv, policy
  <2>. QED
    BY <2>1, <2>2, <2>3, <2>4, <2>5, <2>6, <2>7, <2>8, <2>9, <2>10, <2>11,
       AdministerIsChange DEF Next, Evaluate
<1>. QED
  BY <1>1, <1>2, EvaluationTypeCorrect, PTL DEF Spec
-----------------------------------------------------------------------------
(* What the store and the registry hand out is theirs and passes a filter.  *)
LEMMA StoreGrantsPass ==
    ASSUME PermissionEvaluationTypeOK, NEW owners
    PROVE  /\ StoreGrants(owners) \in SUBSET Grant
           /\ \A g \in StoreGrants(owners) :
                 /\ g \in grants /\ g.owner \in owners
                 /\ g.owner \in BuiltInRole \/ ScopeMatches(g.scope, request.team)
BY EvaluationTypes DEF StoreGrants

(* What phase 1 finds, the policies seen during the call say.               *)
LEMMA DirectIsWitnessed ==
    ASSUME PermissionEvaluationTypeOK, SeenInv, pc = "direct", NEW effect,
           Found(StoreGrants({User} \cup myGroups), Direct, effect)
    PROVE  AppliesTo(request, seen, effect, now)
<1>1. PICK g \in StoreGrants({User} \cup myGroups) :
             ~ IsExpiredAt(g, now) /\ PointsAt(request, effect, g, Direct)
  BY DEF Found
<1>2. g \in seen.grants
  BY StoreGrantsPass DEF SeenInv, Within, policy
<1>3. g.owner \in Owners(seen, Direct)
  BY StoreGrantsPass DEF SeenInv, Owners, PermissionEvaluationTypeOK
<1>4. Direct \in Holders(seen)
  BY DEF Holders
<1>. QED
  BY <1>1, <1>2, <1>3, <1>4 DEF AppliesTo, Via

(* So with what phase 2 finds for the role under evaluation.                *)
LEMMA HeldIsWitnessed ==
    ASSUME PermissionEvaluationTypeOK, SeenInv, pc = "custom", NEW effect,
           \/ Found(batch, current, effect)
           \/ Found(StoreGrants(Inherits[current.role]), current, effect)
    PROVE  AppliesTo(request, seen, effect, now)
<1>1. PICK g \in batch \cup StoreGrants(Inherits[current.role]) :
             ~ IsExpiredAt(g, now) /\ PointsAt(request, effect, g, current)
  BY DEF Found
<1>2. g \in seen.grants
  BY StoreGrantsPass DEF SeenInv, Within, policy
<1>3. current \in Holders(seen) /\ current # Direct
  BY DEF SeenInv, Bound
<1>4. g.owner \in Owners(seen, current)
  BY <1>3, StoreGrantsPass DEF SeenInv, Owners
<1>. QED
  BY <1>1, <1>2, <1>3, <1>4 DEF AppliesTo, Via

(* The two batches of a role: a refusal or an allow comes from one of them, *)
(* going on means that neither has anything to say.                         *)
LEMMA BatchesFind ==
    ASSUME PermissionEvaluationTypeOK, SeenInv, pc = "custom",
           NEW first \in Outcomes(batch, current),
           NEW second \in Outcomes(StoreGrants(Inherits[current.role]), current)
    PROVE  LET o == IF first = "go on" THEN second
                    ELSE IF first = "allow" /\ second # "go on" THEN second ELSE first
               found(e) == \/ Found(batch, current, e)
                           \/ Found(StoreGrants(Inherits[current.role]), current, e)
           IN  /\ o \in {"refuse", "error", "allow", "go on"}
               /\ o = "refuse" => found("deny")
               /\ o = "allow" => found("allow")
               /\ o \in {"allow", "go on"} => ~ found("deny")
               /\ o = "go on" => ~ found("allow")
<1>1. batch \in SUBSET Grant /\ \A g \in batch : g.owner \in BuiltInRole
  BY EvaluationTypes DEF SeenInv
<1>2. /\ first \in {"refuse", "error", "allow", "go on"}
      /\ first = "refuse" => Found(batch, current, "deny")
      /\ first = "allow" => Found(batch, current, "allow")
      /\ first \in {"allow", "go on"} => ~ Found(batch, current, "deny")
      /\ first = "go on" => ~ Found(batch, current, "allow")
  BY <1>1, OutcomesFind
<1> DEFINE gs == StoreGrants(Inherits[current.role])
<1>3. /\ second \in {"refuse", "error", "allow", "go on"}
      /\ second = "refuse" => Found(gs, current, "deny")
      /\ second = "allow" => Found(gs, current, "allow")
      /\ second \in {"allow", "go on"} => ~ Found(gs, current, "deny")
      /\ second = "go on" => ~ Found(gs, current, "allow")
  BY StoreGrantsPass, OutcomesFind
<1>. QED
  BY <1>2, <1>3

(* What the call concludes is witnessed by what it knows, and it concludes  *)
(* only at its end.                                                         *)
THEOREM EvaluationIsWitnessed == Spec => []WitnessInv
<1>1. Init => WitnessInv
  BY DEF Init, WitnessInv
<1>2. PermissionEvaluationTypeOK /\ SeenInv /\ WitnessInv /\ [Next]_vars => WitnessInv'
  <2> SUFFICES ASSUME PermissionEvaluationTypeOK, SeenInv, WitnessInv, [Next]_vars
               PROVE  WitnessInv'
    OBVIOUS
  <2> USE DEF policyVars, localVars
  <2>1. ASSUME Start PROVE WitnessInv'
    BY <2>1 DEF Start, WitnessInv, SeenInv
  <2>2. ASSUME ReadGroups PROVE WitnessInv'
    BY <2>2 DEF ReadGroups, WitnessInv
  <2>3. ASSUME ReadTeams PROVE WitnessInv'
    BY <2>3 DEF ReadTeams, WitnessInv
  <2>4. ASSUME NEW p \in toAsk, ReadAssignments(p) PROVE WitnessInv'
    BY <2>4 DEF ReadAssignments, WitnessInv
  <2>5. ASSUME ReadDirectGrants PROVE WitnessInv'
    <3> DEFINE fetched == StoreGrants({User} \cup myGroups)
    <3>1. PICK o \in Outcomes(fetched, Direct) : Conclude(o, "next")
      BY <2>5 DEF ReadDirectGrants
    <3>2. /\ o \in {"refuse", "error", "allow", "go on"}
          /\ o = "refuse" => Found(fetched, Direct, "deny")
          /\ o = "allow" => Found(fetched, Direct, "allow")
      BY StoreGrantsPass, OutcomesFind
    <3>3. /\ o = "refuse" => AppliesTo(request, seen, "deny", now)
          /\ o = "allow" => AppliesTo(request, seen, "allow", now)
      BY <2>5, <3>2, DirectIsWitnessed DEF ReadDirectGrants
    <3>. QED
      BY <2>5, <3>1, <3>2, <3>3 DEF ReadDirectGrants, Conclude, WitnessInv
  <2>6. ASSUME NEW h \in held, ReadBuiltInGrants(h) PROVE WitnessInv'
    BY <2>6 DEF ReadBuiltInGrants, WitnessInv
  <2>7. ASSUME ReadCustomGrants PROVE WitnessInv'
    <3> DEFINE found(e) == \/ Found(batch, current, e)
                           \/ Found(StoreGrants(Inherits[current.role]), current, e)
    <3>1. PICK o : /\ Conclude(o, "next")
                   /\ o \in {"refuse", "error", "allow", "go on"}
                   /\ o = "refuse" => found("deny")
                   /\ o = "allow" => found("allow")
      <4>1. PICK first \in Outcomes(batch, current),
                 second \in Outcomes(StoreGrants(Inherits[current.role]), current) :
                 Conclude(IF first = "go on" THEN second
                          ELSE IF first = "allow" /\ second # "go on" THEN second ELSE first,
                          "next")
        BY <2>7 DEF ReadCustomGrants
      <4>. QED
        BY <2>7, <4>1, BatchesFind DEF ReadCustomGrants
    <3>2. /\ o = "refuse" => AppliesTo(request, seen, "deny", now)
          /\ o = "allow" => AppliesTo(request, seen, "allow", now)
      BY <2>7, <3>1, HeldIsWitnessed DEF ReadCustomGrants
    <3>. QED
      BY <2>7, <3>1, <3>2 DEF ReadCustomGrants, Conclude, WitnessInv
  <2>8. ASSUME Finish PROVE WitnessInv'
    BY <2>8 DEF Finish, WitnessInv
  <2>9. ASSUME NEW gs \in SUBSET Grant, NEW as \in SUBSET Assignment,
               NEW ms \in SUBSET (Group \cup Team), Change(gs, as, ms)
        PROVE  WitnessInv'
    <3>1. /\ Within(seen, seen') /\ UNCHANGED <<clock, pc, localVars, result>>
      BY <2>9, ChangeWithin
    <3>2. seen.grants \subseteq Grant /\ now \in Nat /\ now <= now
      BY EvaluationTypes
    <3>3. ASSUME NEW effect, AppliesTo(request, seen, effect, now)
          PROVE  AppliesTo(request', seen', effect, now')
      BY <3>1, <3>2, <3>3, AppliesGrows
    <3>. QED
      BY <3>1, <3>3 DEF WitnessInv
  <2>10. ASSUME Tick PROVE WitnessInv'
    BY <2>10 DEF Tick, WitnessInv
  <2>11. CASE UNCHANGED vars
    BY <2>11 DEF vars, WitnessInv
  <2>. QED
    BY <2>1, <2>2, <2>3, <2>4, <2>5, <2>6, <2>7, <2>8, <2>9, <2>10, <2>11,
       AdministerIsChange DEF Next, Evaluate
<1>. QED
  BY <1>1, <1>2, EvaluationTypeCorrect, EvaluationKnowsOnlySeen, PTL DEF Spec

(* An allow answer rests on a grant, a membership and an assignment that    *)
(* were in place during the call, and on no grant expired when it began.    *)
THEOREM EvaluationAllowsWitnessed == Spec => []AllowIsWitnessed
<1>1. PermissionEvaluationTypeOK /\ WitnessInv => AllowIsWitnessed
  BY EvaluationTypes, AppliesIsAppliesTo DEF WitnessInv, AllowIsWitnessed
<1>. QED
  BY <1>1, EvaluationTypeCorrect, EvaluationIsWitnessed, PTL
-----------------------------------------------------------------------------
(* Membership by membership and assignment by assignment, what stands all   *)
(* through the call ends up in what the call holds.                         *)
THEOREM EvaluationReadsAllStanding == Spec => []ReadInv
<1>1. Init => ReadInv
  BY DEF Init, ReadInv
<1>2. PermissionEvaluationTypeOK /\ SeenInv /\ ReadInv /\ [Next]_vars => ReadInv'
  <2> SUFFICES ASSUME PermissionEvaluationTypeOK, SeenInv, ReadInv, [Next]_vars
               PROVE  ReadInv'
    OBVIOUS
  <2> USE DEF policyVars, localVars
  <2>0. pc # "start" => /\ standing.grants \subseteq grants
                        /\ standing.assignments \subseteq assignments
                        /\ standing.memberOf \subseteq memberOf
    BY DEF SeenInv, Within, policy
  <2>1. ASSUME Start PROVE ReadInv'
    BY <2>1 DEF Start, ReadInv
  <2>2. ASSUME ReadGroups PROVE ReadInv'
    BY <2>0, <2>2 DEF ReadGroups, ReadInv
  <2>3. ASSUME ReadTeams PROVE ReadInv'
    <3>1. {User} \cup standing.memberOf \subseteq toAsk'
      BY <2>0, <2>3, EvaluationTypes DEF ReadTeams, ReadInv
    <3>. QED
      BY <2>3, <3>1 DEF ReadTeams, ReadInv
  <2>4. ASSUME NEW p \in toAsk, ReadAssignments(p) PROVE ReadInv'
    <3>1. Assigned(standing, p) \subseteq held' /\ held \subseteq held'
      BY <2>0, <2>4 DEF ReadAssignments, Assigned
    <3>2. \A x \in {User} \cup standing.memberOf :
             x \in toAsk' \/ Assigned(standing, x) \subseteq held'
      BY <2>4, <3>1 DEF ReadAssignments, ReadInv
    <3>3. CASE toAsk' = {}
      <4>1. {[role |-> r, binding |-> NoTeam] : r \in Synthetic} \subseteq held'
        BY <2>4, <3>3 DEF ReadAssignments
      <4>2. ASSUME NEW h \in Bound(standing) PROVE h \in held'
        <5>1. CASE h \in {[role |-> r, binding |-> NoTeam] : r \in Synthetic}
          BY <4>1, <5>1
        <5>2. CASE h \notin {[role |-> r, binding |-> NoTeam] : r \in Synthetic}
          <6>1. PICK a \in standing.assignments :
                       /\ a.principal \in {User} \cup standing.memberOf
                       /\ h = [role |-> a.role, binding |-> a.binding]
            BY <4>2, <5>2 DEF Bound, Holders
          <6>2. h \in Assigned(standing, a.principal)
            BY <6>1 DEF Assigned
          <6>. QED
            BY <3>2, <3>3, <6>1, <6>2
        <5>. QED
          BY <5>1, <5>2
      <4>. QED
        BY <2>4, <3>3, <4>2 DEF ReadAssignments, ReadInv
    <3>4. CASE toAsk' # {}
      BY <2>4, <3>2, <3>4 DEF ReadAssignments, ReadInv
    <3>. QED
      BY <3>3, <3>4
  <2>5. ASSUME ReadDirectGrants PROVE ReadInv'
    BY <2>5 DEF ReadDirectGrants, Conclude, ReadInv
  <2>6. ASSUME NEW h \in held, ReadBuiltInGrants(h) PROVE ReadInv'
    BY <2>0, <2>6 DEF ReadBuiltInGrants, RegistryGrants, ReadInv
  <2>7. ASSUME ReadCustomGrants PROVE ReadInv'
    BY <2>7 DEF ReadCustomGrants, Conclude, ReadInv
  <2>8. ASSUME Finish PROVE ReadInv'
    BY <2>8 DEF Finish, ReadInv
  <2>9. ASSUME NEW gs \in SUBSET Grant, NEW as \in SUBSET Assignment,
               NEW ms \in SUBSET (Group \cup Team), Change(gs, as, ms)
        PROVE  ReadInv'
    <3>1. Within(standing', standing) /\ UNCHANGED <<clock, pc, localVars, result>>
      BY <2>9, ChangeWithin
    <3>2. Bound(standing') \subseteq Bound(standing)
      BY <3>1, HoldersGrow
    <3>3. \A x : Assigned(standing', x) \subseteq Assigned(standing, x)
      BY <3>1 DEF Within, Assigned
    <3>. QED
      BY <3>1, <3>2, <3>3 DEF ReadInv, Within
  <2>10. ASSUME Tick PROVE ReadInv'
    <3>1. \A g \in standing.grants : ~ IsExpiredAt(g, clock') => ~ IsExpiredAt(g, clock)
      BY <2>10, EvaluationTypes, GrantsAssumption DEF Tick, IsExpiredAt
    <3>. QED
      BY <2>10, <3>1 DEF Tick, ReadInv
  <2>11. CASE UNCHANGED vars
    BY <2>11 DEF vars, ReadInv
  <2>. QED
    BY <2>1, <2>2, <2>3, <2>4, <2>5, <2>6, <2>7, <2>8, <2>9, <2>10, <2>11,
       AdministerIsChange DEF Next, Evaluate
<1>. QED
  BY <1>1, <1>2, EvaluationTypeCorrect, EvaluationKnowsOnlySeen, PTL DEF Spec
-----------------------------------------------------------------------------
(* What stands and points at the request is among the grants that each      *)
(* phase fetches: it is in the policy of that moment, passes the filters,   *)
(* and has not expired since the call began.                                *)
LEMMA DirectFindsStanding ==
    ASSUME PermissionEvaluationTypeOK, SeenInv, ReadInv, pc = "direct",
           NEW effect \in {"allow", "deny"}, Via(request, standing, effect, Direct, clock)
    PROVE  Found(StoreGrants({User} \cup myGroups), Direct, effect)
<1>1. PICK g \in standing.grants : /\ g.owner \in Owners(standing, Direct)
                                   /\ ~ IsExpiredAt(g, clock)
                                   /\ PointsAt(request, effect, g, Direct)
  BY DEF Via
<1>2. g \in grants /\ g \in Grant
  BY EvaluationTypes DEF SeenInv, Within, policy
<1>3. g.owner \in {User} \cup myGroups
  BY <1>1 DEF Owners, ReadInv
<1>4. g.owner \notin BuiltInRole
  BY <1>3, OwnersAssumption, RoleAssumption DEF PermissionEvaluationTypeOK
<1>5. ~ IsExpiredAt(g, now)
  BY <1>1, <1>2, EvaluationTypes, GrantsAssumption DEF SeenInv, IsExpiredAt
<1>6. g \in StoreGrants({User} \cup myGroups)
  BY <1>1, <1>2, <1>3, <1>4, PointsPass DEF StoreGrants
<1>. QED
  BY <1>1, <1>5, <1>6 DEF Found

LEMMA HeldFindsStanding ==
    ASSUME PermissionEvaluationTypeOK, SeenInv, ReadInv, pc = "custom",
           NEW effect \in {"allow", "deny"}, Via(request, standing, effect, current, clock)
    PROVE  \/ Found(batch, current, effect)
           \/ Found(StoreGrants(Inherits[current.role]), current, effect)
<1>1. PICK g \in standing.grants : /\ g.owner \in Owners(standing, current)
                                   /\ ~ IsExpiredAt(g, clock)
                                   /\ PointsAt(request, effect, g, current)
  BY DEF Via
<1>2. g \in grants /\ g \in Grant
  BY EvaluationTypes DEF SeenInv, Within, policy
<1>3. g.owner \in Inherits[current.role]
  BY <1>1 DEF Owners, SeenInv, Bound
<1>4. ~ IsExpiredAt(g, now)
  BY <1>1, <1>2, EvaluationTypes, GrantsAssumption DEF SeenInv, IsExpiredAt
<1>5. CASE g.owner \in BuiltInRole
  BY <1>1, <1>3, <1>4, <1>5 DEF ReadInv, Found
<1>6. CASE g.owner \notin BuiltInRole
  <2>1. g \in StoreGrants(Inherits[current.role])
    BY <1>1, <1>2, <1>3, <1>6, PointsPass DEF StoreGrants
  <2>. QED
    BY <1>1, <1>4, <2>1 DEF Found
<1>. QED
  BY <1>5, <1>6

(* A step that leaves the call where it is, and after which no more stands  *)
(* and it is no earlier, loses nothing that is handled.                     *)
LEMMA HandledStays ==
    ASSUME PermissionEvaluationTypeOK, PermissionEvaluationTypeOK',
           NEW effect, Handled(effect),
           Within(standing', standing), clock <= clock', UNCHANGED <<pc, localVars>>
    PROVE  Handled(effect)'
<1>1. Bound(standing') \subseteq Bound(standing)
  BY HoldersGrow
<1>2. clock \in Nat /\ clock' \in Nat
  BY BoundsAssumption DEF PermissionEvaluationTypeOK
<1>3. standing'.grants \subseteq Grant
  BY DEF PermissionEvaluationTypeOK, Policy
<1>4. ASSUME NEW h, Via(request, standing', effect, h, clock')
      PROVE  Via(request, standing, effect, h, clock)
  BY <1>2, <1>3, <1>4, ViaGrows
<1>. QED
  BY <1>1, <1>4 DEF Handled, localVars

(* The call answers "allow" only when no deny that stands points at the     *)
(* request through any holder, and "refuse" only when no allow does or some *)
(* deny was seen: every holder that stands is handled before the answer.    *)
THEOREM EvaluationHandlesStanding == Spec => []StandingInv
<1>1. Init => StandingInv
  BY DEF Init, StandingInv, Handled
<1>2. /\ PermissionEvaluationTypeOK /\ PermissionEvaluationTypeOK'
      /\ SeenInv /\ WitnessInv /\ ReadInv /\ StandingInv
      /\ [Next]_vars
      => StandingInv'
  <2> SUFFICES ASSUME PermissionEvaluationTypeOK, PermissionEvaluationTypeOK',
                      SeenInv, WitnessInv, ReadInv, StandingInv, [Next]_vars
               PROVE  StandingInv'
    OBVIOUS
  <2> USE DEF policyVars, localVars
  <2>1. ASSUME Start PROVE StandingInv'
    BY <2>1 DEF Start, SeenInv, StandingInv, Handled
  <2>2. ASSUME ReadGroups PROVE StandingInv'
    BY <2>2 DEF ReadGroups, WitnessInv, StandingInv, Handled
  <2>3. ASSUME ReadTeams PROVE StandingInv'
    BY <2>3 DEF ReadTeams, WitnessInv, StandingInv, Handled
  <2>4. ASSUME NEW p \in toAsk, ReadAssignments(p) PROVE StandingInv'
    BY <2>4 DEF ReadAssignments, WitnessInv, StandingInv, Handled
  <2>5. ASSUME ReadDirectGrants PROVE StandingInv'
    <3> DEFINE fetched == StoreGrants({User} \cup myGroups)
    <3>1. PICK o \in Outcomes(fetched, Direct) : Conclude(o, "next")
      BY <2>5 DEF ReadDirectGrants
    <3>2. /\ o \in {"refuse", "error", "allow", "go on"}
          /\ o = "refuse" => Found(fetched, Direct, "deny")
          /\ o \in {"allow", "go on"} => ~ Found(fetched, Direct, "deny")
          /\ o = "go on" => ~ Found(fetched, Direct, "allow")
      BY StoreGrantsPass, OutcomesFind
    <3>3. /\ o = "refuse" => AppliesTo(request, seen, "deny", now)
          /\ o \in {"allow", "go on"} => ~ Via(request, standing, "deny", Direct, clock)
          /\ o = "go on" => ~ Via(request, standing, "allow", Direct, clock)
      BY <2>5, <3>2, DirectIsWitnessed, DirectFindsStanding DEF ReadDirectGrants
    <3>4. Bound(standing) \subseteq held
      BY <2>5 DEF ReadDirectGrants, ReadInv
    <3>5. CASE o \in {"refuse", "error"}
      BY <2>5, <3>1, <3>3, <3>5 DEF ReadDirectGrants, Conclude, StandingInv, Handled
    <3>6. CASE o \in {"allow", "go on"}
      BY <2>5, <3>1, <3>3, <3>4, <3>6
         DEF ReadDirectGrants, Conclude, WitnessInv, StandingInv, Handled
    <3>. QED
      BY <3>2, <3>5, <3>6
  <2>6. ASSUME NEW h \in held, ReadBuiltInGrants(h) PROVE StandingInv'
    BY <2>6 DEF ReadBuiltInGrants, WitnessInv, StandingInv, Handled
  <2>7. ASSUME ReadCustomGrants PROVE StandingInv'
    <3> DEFINE found(e) == \/ Found(batch, current, e)
                           \/ Found(StoreGrants(Inherits[current.role]), current, e)
    <3>1. PICK o : /\ Conclude(o, "next")
                   /\ o \in {"refuse", "error", "allow", "go on"}
                   /\ o = "refuse" => found("deny")
                   /\ o \in {"allow", "go on"} => ~ found("deny")
                   /\ o = "go on" => ~ found("allow")
      <4>1. PICK first \in Outcomes(batch, current),
                 second \in Outcomes(StoreGrants(Inherits[current.role]), current) :
                 Conclude(IF first = "go on" THEN second
                          ELSE IF first = "allow" /\ second # "go on" THEN second ELSE first,
                          "next")
        BY <2>7 DEF ReadCustomGrants
      <4>. QED
        BY <2>7, <4>1, BatchesFind DEF ReadCustomGrants
    <3>2. /\ o = "refuse" => AppliesTo(request, seen, "deny", now)
          /\ o \in {"allow", "go on"} => ~ Via(request, standing, "deny", current, clock)
          /\ o = "go on" => ~ Via(request, standing, "allow", current, clock)
      BY <2>7, <3>1, HeldIsWitnessed, HeldFindsStanding DEF ReadCustomGrants
    <3>3. CASE o \in {"refuse", "error"}
      BY <2>7, <3>1, <3>2, <3>3 DEF ReadCustomGrants, Conclude, StandingInv, Handled
    <3>4. CASE o \in {"allow", "go on"}
      BY <2>7, <3>1, <3>2, <3>4
         DEF ReadCustomGrants, Conclude, WitnessInv, StandingInv, Handled
    <3>. QED
      BY <3>1, <3>3, <3>4
  <2>8. ASSUME Finish PROVE StandingInv'
    <3>1. ASSUME NEW effect \in {"allow", "deny"}, Handled(effect)
          PROVE  ~ AppliesTo(request, standing, effect, clock)
      BY <2>8, <3>1 DEF Finish, Handled, AppliesTo, Bound
    <3>. QED
      BY <2>8, <3>1 DEF Finish, StandingInv, Handled
  <2>9. ASSUME NEW gs \in SUBSET Grant, NEW as \in SUBSET Assignment,
               NEW ms \in SUBSET (Group \cup Team), Change(gs, as, ms)
        PROVE  StandingInv'
    <3>1. /\ Within(standing', standing) /\ Underway
          /\ UNCHANGED <<clock, pc, localVars, result>>
      BY <2>9, ChangeWithin
    <3>2. result' = "none" /\ clock <= clock' /\ allowed' = allowed
      BY <3>1, EvaluationTypes DEF WitnessInv, Underway, PermissionEvaluationTypeOK
    <3>. QED
      BY <3>1, <3>2, HandledStays DEF StandingInv
  <2>10. ASSUME Tick PROVE StandingInv'
    <3>1. /\ Within(standing', standing) /\ UNCHANGED <<pc, localVars>>
          /\ result' = "none" /\ clock <= clock' /\ allowed' = allowed
      BY <2>10, EvaluationTypes
         DEF Tick, Within, Underway, WitnessInv, PermissionEvaluationTypeOK
    <3>. QED
      BY <3>1, HandledStays DEF StandingInv
  <2>11. CASE UNCHANGED vars
    BY <2>11 DEF vars, StandingInv, Handled
  <2>. QED
    BY <2>1, <2>2, <2>3, <2>4, <2>5, <2>6, <2>7, <2>8, <2>9, <2>10, <2>11,
       AdministerIsChange DEF Next, Evaluate
<1>. QED
  BY <1>1, <1>2, EvaluationTypeCorrect, EvaluationKnowsOnlySeen, EvaluationIsWitnessed,
     EvaluationReadsAllStanding, PTL DEF Spec

(* A deny that stays in force all through the call, through memberships and *)
(* assignments that do, is never overridden by any interleaving of changes. *)
THEOREM EvaluationStandingDenyWins == Spec => []StandingDenyWins
<1>1. PermissionEvaluationTypeOK /\ StandingInv => StandingDenyWins
  BY EvaluationTypes, AppliesIsAppliesTo DEF StandingInv, StandingDenyWins
<1>. QED
  BY <1>1, EvaluationTypeCorrect, EvaluationHandlesStanding, PTL

(* An allow that stays in force all through the call is honoured, unless a  *)
(* deny was in place at some time during it.                                *)
THEOREM EvaluationStandingAllowHolds == Spec => []StandingAllowHolds
<1>1. PermissionEvaluationTypeOK /\ StandingInv => StandingAllowHolds
  BY EvaluationTypes, AppliesIsAppliesTo DEF StandingInv, StandingAllowHolds
<1>. QED
  BY <1>1, EvaluationTypeCorrect, EvaluationHandlesStanding, PTL
-----------------------------------------------------------------------------
(* While nobody changes the policy, what was seen and what stands are one.  *)
THEOREM EvaluationUndisturbed == Spec => []UndisturbedInv
<1>1. Init => UndisturbedInv
  BY DEF Init, UndisturbedInv
<1>2. PermissionEvaluationTypeOK /\ UndisturbedInv /\ [Next]_vars => UndisturbedInv'
  <2> SUFFICES ASSUME PermissionEvaluationTypeOK, UndisturbedInv, [Next]_vars
               PROVE  UndisturbedInv'
    OBVIOUS
  <2> USE DEF policyVars, localVars, UndisturbedInv, policy
  <2>1. ASSUME Start PROVE UndisturbedInv'
    BY <2>1 DEF Start
  <2>2. ASSUME ReadGroups \/ ReadTeams PROVE UndisturbedInv'
    BY <2>2 DEF ReadGroups, ReadTeams
  <2>3. ASSUME NEW p \in toAsk, ReadAssignments(p) PROVE UndisturbedInv'
    BY <2>3 DEF ReadAssignments
  <2>4. ASSUME ReadDirectGrants PROVE UndisturbedInv'
    BY <2>4 DEF ReadDirectGrants, Conclude
  <2>5. ASSUME NEW h \in held, ReadBuiltInGrants(h) PROVE UndisturbedInv'
    BY <2>5 DEF ReadBuiltInGrants
  <2>6. ASSUME ReadCustomGrants PROVE UndisturbedInv'
    BY <2>6 DEF ReadCustomGrants, Conclude
  <2>7. ASSUME Finish PROVE UndisturbedInv'
    BY <2>7 DEF Finish
  <2>8. ASSUME NEW gs \in SUBSET Grant, NEW as \in SUBSET Assignment,
               NEW ms \in SUBSET (Group \cup Team), Change(gs, as, ms)
        PROVE  UndisturbedInv'
    BY <2>8, BoundsAssumption DEF Change, PermissionEvaluationTypeOK
  <2>9. ASSUME Tick PROVE UndisturbedInv'
    BY <2>9 DEF Tick, Underway
  <2>10. CASE UNCHANGED vars
    BY <2>10 DEF vars
  <2>. QED
    BY <2>1, <2>2, <2>3, <2>4, <2>5, <2>6, <2>7, <2>8, <2>9, <2>10,
       AdministerIsChange DEF Next, Evaluate
<1>. QED
  BY <1>1, <1>2, EvaluationTypeCorrect, PTL DEF Spec

(* A gathered entry is a grant that someone owns who is a holder; and if it *)
(* speaks about the request and gets through the filter of the evaluation,  *)
(* the evaluation has it too.                                               *)
LEMMA GatheredIsOwned ==
    ASSUME NEW team, NEW e \in Gathered(team)
    PROVE  \E h \in Holders(policy) :
             /\ e.grant \in grants /\ e.grant.owner \in Owners(policy, h)
             /\ ~ IsExpiredAt(e.grant, now)
             /\ ~ BindingFails(e.grant, h)
             /\ e.scope = ResolvedScope(e.grant, h)
             /\ e.grant.owner \in BuiltInRole \/ ScopeMatches(e.grant.scope, team)
<1>1. CASE e \in DirectEntries(team)
  <2>1. /\ e.grant \in grants /\ e.grant.owner \in Owners(policy, Direct)
        /\ ~ IsExpiredAt(e.grant, now)
        /\ e.scope = ResolvedScope(e.grant, Direct)
        /\ ScopeMatches(e.grant.scope, team)
    BY <1>1 DEF DirectEntries, Entry, AskStore, Owners, policy
  <2>2. Direct \in Holders(policy) /\ ~ BindingFails(e.grant, Direct)
    BY DEF Holders, BindingFails
  <2>. QED
    BY <2>1, <2>2
<1>2. ASSUME NEW h \in RolesHeld, e \in RoleEntries(h, team)
      PROVE  /\ h \in Holders(policy)
             /\ e.grant \in grants /\ e.grant.owner \in Owners(policy, h)
             /\ ~ IsExpiredAt(e.grant, now)
             /\ ~ BindingFails(e.grant, h)
             /\ e.scope = ResolvedScope(e.grant, h)
             /\ e.grant.owner \in BuiltInRole \/ ScopeMatches(e.grant.scope, team)
  <2>1. h \in Holders(policy)
    BY DEF RolesHeld, Holders, policy
  <2>2. h # Direct
    BY BoundIsNotDirect DEF RolesHeld
  <2>3. PICK g : /\ e = [scope |-> ResolvedScope(g, h), grant |-> g]
                 /\ g \in RegistryGrants(Inherits[h.role])
                          \cup AskStore(Inherits[h.role], team)
                 /\ ~ IsExpiredAt(g, now) /\ ~ BindingFails(g, h)
    BY <1>2 DEF RoleEntries, Entry
  <2>4. /\ g \in grants /\ g.owner \in Inherits[h.role]
        /\ g.owner \in BuiltInRole \/ ScopeMatches(g.scope, team)
    BY <2>3 DEF RegistryGrants, AskStore
  <2>. QED
    BY <2>1, <2>2, <2>3, <2>4 DEF Owners
<1>. QED
  BY <1>1, <1>2 DEF Gathered

(* Conversely, a grant that points at the request is gathered for its team. *)
LEMMA PointsIsGathered ==
    ASSUME PermissionEvaluationTypeOK, now = clock, NEW effect \in {"allow", "deny"},
           NEW h \in Holders(policy), NEW g \in grants,
           g.owner \in Owners(policy, h), ~ IsExpiredAt(g, now),
           PointsAt(request, effect, g, h)
    PROVE  [scope |-> ResolvedScope(g, h), grant |-> g] \in Gathered(request.team)
<1>1. /\ g.owner \in BuiltInRole \/ ScopeMatches(g.scope, request.team)
      /\ MatchesTeamScope(ResolvedScope(g, h), request.team)
  BY EvaluationTypes, PointsPass
<1>2. CASE h = Direct
  <2>1. g.owner \in {User} \cup (memberOf \cap Group)
    BY <1>2 DEF Owners, policy
  <2>2. g.owner \notin BuiltInRole
    BY <2>1, OwnersAssumption, RoleAssumption
  <2>3. [scope |-> ResolvedScope(g, h), grant |-> g] \in DirectEntries(request.team)
    BY <1>1, <1>2, <2>1, <2>2 DEF DirectEntries, Entry, AskStore
  <2>. QED
    BY <2>3 DEF Gathered
<1>3. CASE h # Direct
  <2>1. h \in RolesHeld
    BY <1>3 DEF Holders, RolesHeld, policy
  <2>2. g.owner \in Inherits[h.role] /\ ~ BindingFails(g, h)
    BY <1>3 DEF Owners, PointsAt
  <2>3. g \in RegistryGrants(Inherits[h.role]) \cup AskStore(Inherits[h.role], request.team)
    BY <1>1, <2>2 DEF RegistryGrants, AskStore
  <2>4. [scope |-> ResolvedScope(g, h), grant |-> g] \in RoleEntries(h, request.team)
    BY <1>1, <2>2, <2>3 DEF RoleEntries, Entry
  <2>. QED
    BY <2>1, <2>4 DEF Gathered
<1>. QED
  BY <1>2, <1>3
(* An entry that speaks about a whole request is one the evaluation counts, *)
(* unless it is a variable bound to "*" and the request has no team.        *)
LEMMA EntryApplies ==
    ASSUME PermissionEvaluationTypeOK, Undisturbed, NEW team, NEW e \in Gathered(team),
           Speaks(e.scope), e.grant.effect = "deny" => e.grant.fields = {},
           request.team # NoTeam \/ e.grant.scope = AnyTeam \/ e.grant.owner \in BuiltInRole
    PROVE  AppliesTo(request, policy, e.grant.effect, clock)
<1>1. PICK h \in Holders(policy) :
             /\ e.grant \in grants /\ e.grant.owner \in Owners(policy, h)
             /\ ~ IsExpiredAt(e.grant, now)
             /\ ~ BindingFails(e.grant, h)
             /\ e.scope = ResolvedScope(e.grant, h)
  BY GatheredIsOwned
<1>2. PointsAt(request, e.grant.effect, e.grant, h)
  BY <1>1 DEF PointsAt, Speaks, Undisturbed
<1>. QED
  BY <1>1, <1>2 DEF AppliesTo, Via, Undisturbed, policy

(* What the store's filter lets through for the team of the request is      *)
(* about the request or has a team.                                         *)
LEMMA OwnTeamPasses ==
    ASSUME NEW e \in Gathered(request.team)
    PROVE  request.team # NoTeam \/ e.grant.scope = AnyTeam \/ e.grant.owner \in BuiltInRole
BY GatheredIsOwned DEF ScopeMatches

(* Where the evaluation says so, there is an entry.                         *)
LEMMA AppliesIsGathered ==
    ASSUME PermissionEvaluationTypeOK, Undisturbed, NEW effect \in {"allow", "deny"},
           AppliesTo(request, policy, effect, clock)
    PROVE  \E e \in Gathered(request.team) :
             /\ e.grant.effect = effect /\ Speaks(e.scope)
             /\ effect = "deny" => e.grant.fields = {}
<1>1. PICK h \in Holders(policy), g \in grants :
             /\ g.owner \in Owners(policy, h)
             /\ ~ IsExpiredAt(g, clock)
             /\ PointsAt(request, effect, g, h)
  BY DEF AppliesTo, Via, policy
<1> DEFINE e == [scope |-> ResolvedScope(g, h), grant |-> g]
<1>2. e \in Gathered(request.team)
  BY <1>1, PointsIsGathered DEF Undisturbed
<1>3. /\ g.effect = effect /\ Speaks(ResolvedScope(g, h))
      /\ effect = "deny" => g.fields = {}
  BY <1>1 DEF PointsAt, Speaks, Undisturbed
<1>. QED
  BY <1>2, <1>3

(* An entry that the team "*" brings to light, too.                         *)
LEMMA GatheredForAnyTeam ==
    ASSUME PermissionEvaluationTypeOK, NEW e \in Gathered(request.team),
           \/ e.scope # e.grant.scope \/ e.scope = AnyTeam \/ e.grant.owner \in BuiltInRole
    PROVE  e \in Gathered(AnyTeam)
<1>1. CASE e \in DirectEntries(request.team)
  <2>1. PICK g : /\ e = [scope |-> ResolvedScope(g, Direct), grant |-> g]
                 /\ g \in AskStore({User} \cup (memberOf \cap Group), request.team)
                 /\ ~ IsExpiredAt(g, now)
    BY <1>1 DEF DirectEntries, Entry
  <2>2. g.scope = AnyTeam
    BY <2>1 DEF ResolvedScope, AskStore
  <2>3. g \in AskStore({User} \cup (memberOf \cap Group), AnyTeam)
    BY <2>1, <2>2 DEF AskStore, ScopeMatches
  <2>4. e \in DirectEntries(AnyTeam)
    BY <2>1, <2>3 DEF DirectEntries, Entry
  <2>. QED
    BY <2>4 DEF Gathered
<1>2. ASSUME NEW h \in RolesHeld, e \in RoleEntries(h, request.team)
      PROVE  e \in Gathered(AnyTeam)
  <2>1. PICK g : /\ e = [scope |-> ResolvedScope(g, h), grant |-> g]
                 /\ g \in RegistryGrants(Inherits[h.role])
                          \cup AskStore(Inherits[h.role], request.team)
                 /\ ~ IsExpiredAt(g, now) /\ ~ BindingFails(g, h)
    BY <1>2 DEF RoleEntries, Entry
  <2>2. g.scope \in {AnyTeam, TeamVariable} \/ g.owner \in BuiltInRole
    BY <2>1 DEF ResolvedScope
  <2>3. g \in RegistryGrants(Inherits[h.role]) \cup AskStore(Inherits[h.role], AnyTeam)
    BY <2>1, <2>2, ScopesAssumption DEF AskStore, RegistryGrants, ScopeMatches
  <2>4. e \in RoleEntries(h, AnyTeam)
    BY <2>1, <2>3 DEF RoleEntries, Entry
  <2>. QED
    BY <2>4 DEF Gathered
<1>. QED
  BY <1>1, <1>2 DEF Gathered

(* The lists of effective permissions and the evaluation, two copies of the *)
(* rules, agree on a policy that nobody changes, with the exceptions that   *)
(* ListsAgreeWithEvaluation names and no others.                            *)
THEOREM EvaluationListsAgree == Spec => []ListsAgreeWithEvaluation
<1>1. /\ PermissionEvaluationTypeOK /\ WitnessInv /\ StandingInv /\ UndisturbedInv
      => ListsAgreeWithEvaluation
  <2> SUFFICES ASSUME PermissionEvaluationTypeOK, WitnessInv, StandingInv, UndisturbedInv,
                      Undisturbed
               PROVE  ListedIfAllowed /\ TeamListedIfAllowed /\ RefusedByOtherScope
    BY DEF ListsAgreeWithEvaluation
  <2>0. standing = policy /\ seen = policy /\ now = clock
    BY DEF UndisturbedInv, Undisturbed
  <2> DEFINE Listed == \E e \in Effective(request.team) : Speaks(e.scope)
  <2>1. ASSUME result = "allow" PROVE Listed \/ HiddenByFields
    <3>1. /\ AppliesTo(request, policy, "allow", clock)
          /\ ~ AppliesTo(request, policy, "deny", clock)
      BY <2>0, <2>1 DEF WitnessInv, StandingInv
    <3>2. PICK e \in Gathered(request.team) : e.grant.effect = "allow" /\ Speaks(e.scope)
      BY <3>1, AppliesIsGathered
    <3>3. ASSUME NEW d \in Gathered(request.team), d.grant.effect = "deny", d.scope = e.scope
          PROVE  HiddenByFields
      BY <3>1, <3>2, <3>3, EntryApplies, OwnTeamPasses DEF HiddenByFields
    <3>. QED
      BY <3>2, <3>3 DEF Effective
  <2>2. ASSUME result = "allow" PROVE TeamListedIfAllowed
    <3> SUFFICES ASSUME ~ HiddenByFields, ~ HiddenByBinding,
                        NEW e \in Effective(request.team), Speaks(e.scope),
                        \/ e.scope # e.grant.scope \/ e.scope = AnyTeam
                        \/ e.grant.owner \in BuiltInRole
                 PROVE  \E scope \in AllowedTeams : Speaks(scope)
      BY <2>1, <2>2 DEF TeamListedIfAllowed
    <3>1. e \in Gathered(AnyTeam) /\ e.grant.effect = "allow"
      BY GatheredForAnyTeam DEF Effective
    <3>2. ASSUME NEW d \in Gathered(AnyTeam), d.grant.effect = "deny", d.scope = e.scope
          PROVE  FALSE
      <4>1. d.grant.fields = {} /\ Speaks(d.scope)
        BY <3>2 DEF HiddenByFields
      <4>2. request.team # NoTeam \/ d.grant.scope = AnyTeam
        BY <3>2, <4>1 DEF HiddenByBinding, Speaks
      <4>3. AppliesTo(request, policy, "deny", clock)
        BY <3>2, <4>1, <4>2, EntryApplies
      <4>. QED
        BY <2>0, <2>2, <4>3 DEF StandingInv
    <3>3. e \in Effective(AnyTeam)
      BY <3>1, <3>2 DEF Effective
    <3>. QED
      BY <3>3 DEF AllowedTeams
  <2>3. RefusedByOtherScope
    <3> SUFFICES ASSUME result = "refuse",
                        NEW e \in Effective(request.team), Speaks(e.scope)
                 PROVE  \E d \in Gathered(request.team) :
                          /\ d.grant.effect = "deny" /\ d.grant.fields = {}
                          /\ Speaks(d.scope) /\ d.scope # e.scope
      BY DEF RefusedByOtherScope
    <3>1. e \in Gathered(request.team) /\ e.grant.effect = "allow"
      BY DEF Effective
    <3>2. AppliesTo(request, policy, "allow", clock)
      BY <3>1, EntryApplies, OwnTeamPasses
    <3>3. AppliesTo(request, policy, "deny", clock)
      BY <2>0, <3>2 DEF StandingInv
    <3>4. PICK d \in Gathered(request.team) :
                 d.grant.effect = "deny" /\ Speaks(d.scope) /\ d.grant.fields = {}
      BY <3>3, AppliesIsGathered
    <3>. QED
      BY <3>4 DEF Effective
  <2>. QED
    BY <2>1, <2>2, <2>3 DEF ListedIfAllowed, TeamListedIfAllowed
<1>. QED
  BY <1>1, EvaluationTypeCorrect, EvaluationIsWitnessed, EvaluationHandlesStanding,
     EvaluationUndisturbed, PTL
=============================================================================
