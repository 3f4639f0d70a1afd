------------------------ MODULE PermissionEvaluation ------------------------
(***************************************************************************)
(* service.go: evaluatePermission, one call of HasPermission or            *)
(* HasFieldPermission while administrators change the policy.  The call    *)
(* reads the identity provider, the assignments, the direct grants and     *)
(* then the grants of each held role, one call to a provider or store at a *)
(* time, and nothing holds the policy still in between.                    *)
(*                                                                         *)
(* One request is evaluated for one user, whose permission name every      *)
(* grant here carries.  Scopes are team scopes; object scopes are resolved *)
(* and compared in the same places.  Which roles exist, inherit each other *)
(* and are enabled does not change here (RoleAdministration and            *)
(* DisabledRoleCache are about that).                                      *)
(***************************************************************************)
EXTENDS Naturals, FiniteSets

CONSTANTS
    User, Group, Team,   \* principals; Group and Team are sets
    Role, BuiltInRole,   \* roles the user may hold; those with the prefix
    Inherits,            \* Inherits[r]: r and all roles r inherits
    Synthetic,           \* roles every signed-in user holds without bindings
    Grant,               \* grants that may be made, see GrantFields
    Assignment,          \* [principal, role, binding] that may be made
    Request,             \* [team, field] that may be asked
    AnyTeam, TeamVariable, NoTeam,   \* the scopes "*" and "?team"; no team
    WholeRequest,        \* the field of a request that names none
    Never,               \* the expiry of a grant without one
    Covers,              \* <<restricted, path>>: restricted is path or above it
    MaxClock, MaxChanges \* bounds on time and on changes of the policy

GrantFields == {"owner", "effect", "scope", "variable", "fields", "expires"}

ASSUME RoleAssumption == BuiltInRole \subseteq Role /\ Synthetic \subseteq Role
ASSUME InheritsAssumption ==
    /\ Inherits \in [Role -> SUBSET Role]
    /\ \A r \in Role : r \in Inherits[r]
ASSUME GrantsAssumption ==
    \A g \in Grant : /\ DOMAIN g = GrantFields
                     /\ g.owner \in {User} \cup Group \cup Role
                     /\ g.effect \in {"allow", "deny"}
                     /\ g.variable \in BOOLEAN
                     /\ g.expires = Never \/ g.expires \in Nat
\* An owner is a kind and an ID: no principal is a role.
ASSUME OwnersAssumption == ({User} \cup Group) \cap Role = {}
ASSUME AssignmentsAssumption == \A a \in Assignment : a.role \in Role
ASSUME ScopesAssumption == AnyTeam # NoTeam
ASSUME BoundsAssumption == MaxClock \in Nat /\ MaxChanges \in Nat

VARIABLES
    grants,        \* in the store and, for built-in owners, in the registry
    assignments, memberOf,   \* the assignments; the user's groups and teams
    clock, changes

VARIABLES
    pc, request, now,    \* the call, and its own idea of the time
    myGroups, toAsk,     \* the groups read; principals not yet asked about
    held,                \* [role, binding] read and not yet evaluated
    current, batch,      \* the held role under evaluation, its built-in grants
    allowed, result

\* History: what was in place all through the call, and what at any time in it.
VARIABLES standing, seen

policyVars == <<grants, assignments, memberOf, clock, changes>>
localVars == <<request, now, myGroups, toAsk, held, current, batch, allowed>>
vars == <<policyVars, pc, localVars, result, standing, seen>>

Policy == [grants : SUBSET Grant, assignments : SUBSET Assignment,
           memberOf : SUBSET (Group \cup Team)]

NoRole == [unbound |-> FALSE]

PermissionEvaluationTypeOK ==
    /\ grants \subseteq Grant
    /\ assignments \subseteq Assignment
    /\ memberOf \subseteq Group \cup Team
    /\ clock \in 0..MaxClock /\ changes \in 0..MaxChanges /\ now \in 0..MaxClock
    /\ pc \in {"start", "groups", "teams", "roles", "direct", "next", "custom", "done"}
    /\ request \in Request
    /\ myGroups \subseteq Group /\ toAsk \subseteq {User} \cup Group \cup Team
    /\ \A h \in held \cup {current} : h = NoRole \/ h.role \in Role
    /\ batch \subseteq Grant
    /\ allowed \in BOOLEAN
    /\ result \in {"none", "allow", "refuse", "error"}
    /\ standing \in Policy /\ seen \in Policy

-----------------------------------------------------------------------------
(* Single grants *)

IsExpiredAt(g, time) == g.expires # Never /\ time >= g.expires

\* scopeMatches, the store's filter: a variable may still match any team.
ScopeMatches(scope, team) ==
    \/ scope = AnyTeam
    \/ team # NoTeam /\ scope \in {TeamVariable, team}

\* Mutant of MatchesTeamScope: a request without a team is not filtered.
MatchesTeamIfAny(scope, team) == scope = AnyTeam \/ team = NoTeam \/ scope = team

\* matchesTeamScope, the service's filter
MatchesTeamScope(scope, team) ==
    scope = AnyTeam \/ (team # NoTeam /\ scope = team)

\* fieldPath in one of the grant's restricted fields
Restricts(g, field) == \E f \in g.fields : <<f, field>> \in Covers

\* grantMatchesFieldPath
MatchesField(g, field) ==
    \/ field = WholeRequest
    \/ g.fields = {}
    \/ Restricts(g, field) <=> g.effect = "deny"

\* Stands for the user and the groups, whose grants are not resolved.
Direct == [unbound |-> TRUE]

\* resolveGrantBindings: the binding map of an assignment has one entry, that of
\* the role assigned, and is asked for the entry of the grant's owner.
BindingFails(g, holder) ==
    /\ g.variable /\ holder # Direct
    /\ g.owner # holder.role \/ holder.binding = NoTeam

ResolvedScope(g, holder) ==
    IF g.variable /\ g.scope = TeamVariable /\ holder # Direct
    THEN holder.binding ELSE g.scope

\* Grants of a batch that survive expiry and bind, and match the request.
Matching(gs, holder, effect) ==
    {g \in gs : /\ g.effect = effect
                /\ ~ IsExpiredAt(g, now)
                /\ ~ BindingFails(g, holder)
                /\ MatchesTeamScope(ResolvedScope(g, holder), request.team)
                /\ MatchesField(g, request.field)}

\* A deny with restricted fields says nothing about the request as a whole.
Decisive(denies) == {g \in denies : request.field # WholeRequest \/ g.fields = {}}

\* What going through a batch comes to.  Its order is that of the store, so of
\* the denies and failures in it any may be the first.
Outcomes(gs, holder) ==
    LET refused == Decisive(Matching(gs, holder, "deny")) # {}
        failed == \E g \in gs : ~ IsExpiredAt(g, now) /\ BindingFails(g, holder)
    IN  IF refused \/ failed
        THEN {o \in {"refuse", "error"} : IF o = "refuse" THEN refused ELSE failed}
        ELSE IF Matching(gs, holder, "allow") # {} THEN {"allow"} ELSE {"go on"}

\* The store's GrantsForOwners.
StoreGrants(owners) ==
    {g \in grants : /\ g.owner \in owners \ BuiltInRole
                    /\ ~ IsExpiredAt(g, clock)
                    /\ ScopeMatches(g.scope, request.team)}

\* The registry's: no filter by scope.
RegistryGrants(owners) ==
    {g \in grants : g.owner \in owners \cap BuiltInRole /\ ~ IsExpiredAt(g, clock)}

-----------------------------------------------------------------------------
(* The policy: administrators and the identity provider *)

\* Before the call begins the policy is whatever Init chose, and what happens
\* after it has answered does not matter.
Underway == pc \notin {"start", "done"}

Change(gs, as, ms) ==
    /\ Underway
    /\ changes < MaxChanges
    /\ changes' = changes + 1
    /\ <<gs, as, ms>> # <<grants, assignments, memberOf>>
    /\ grants' = gs /\ assignments' = as /\ memberOf' = ms
    /\ standing' = [grants |-> standing.grants \cap gs,
                    assignments |-> standing.assignments \cap as,
                    memberOf |-> standing.memberOf \cap ms]
    /\ seen' = [grants |-> seen.grants \cup gs,
                assignments |-> seen.assignments \cup as,
                memberOf |-> seen.memberOf \cup ms]
    /\ UNCHANGED <<clock, pc, localVars, result>>

CreateGrant(g) == Change(grants \cup {g}, assignments, memberOf)

\* Grants are only ever deleted together, and never those of a built-in role.
DeleteGrantsForOwner(owner) ==
    /\ owner \notin BuiltInRole
    /\ Change({g \in grants : g.owner # owner}, assignments, memberOf)

AssignRole(a) == Change(grants, assignments \cup {a}, memberOf)

UnassignRole(a) == Change(grants, assignments \ {a}, memberOf)

ChangeMembership(ms) == Change(grants, assignments, ms)

Tick ==
    /\ Underway
    /\ clock < MaxClock
    /\ clock' = clock + 1
    /\ UNCHANGED <<grants, assignments, memberOf, changes, pc, localVars, result,
                   standing, seen>>

-----------------------------------------------------------------------------
(* evaluatePermission *)

Start ==
    /\ pc = "start" /\ pc' = "groups"
    /\ now' = clock
    /\ standing' = [grants |-> grants, assignments |-> assignments, memberOf |-> memberOf]
    /\ seen' = standing'
    /\ UNCHANGED <<policyVars, request, myGroups, toAsk, held, current, batch, allowed, result>>

\* Mutant of ReadGroups: teams are taken for groups.
ReadAllAsGroups ==
    /\ pc = "groups" /\ pc' = "teams"
    /\ myGroups' = memberOf
    /\ toAsk' = {User} \cup memberOf
    /\ UNCHANGED <<policyVars, request, now, held, current, batch, allowed, result, standing, seen>>

\* resolveUserGroupIDs
ReadGroups ==
    /\ pc = "groups" /\ pc' = "teams"
    /\ myGroups' = memberOf \cap Group
    /\ toAsk' = {User} \cup (memberOf \cap Group)
    /\ UNCHANGED <<policyVars, request, now, held, current, batch, allowed, result, standing, seen>>

\* Mutant of ReadTeams: the assignments of teams are not asked for.
SkipTeams ==
    /\ pc = "teams" /\ pc' = "roles"
    /\ UNCHANGED <<policyVars, request, now, myGroups, toAsk, held, current, batch, allowed,
                   result, standing, seen>>

\* resolveUserTeamIDs
ReadTeams ==
    /\ pc = "teams" /\ pc' = "roles"
    /\ toAsk' = toAsk \cup (memberOf \cap Team)
    /\ UNCHANGED <<policyVars, request, now, myGroups, held, current, batch, allowed,
                   result, standing, seen>>

\* resolveRoleAssignmentsForUserGroupsAndTeams: one principal at a time, and at
\* the end the roles nobody assigns.
ReadAssignments(p) ==
    /\ pc = "roles" /\ p \in toAsk
    /\ p = User \/ User \notin toAsk
    /\ toAsk' = toAsk \ {p}
    /\ held' = held
         \cup {[role |-> a.role, binding |-> a.binding] :
                 a \in {b \in assignments : b.principal = p}}
         \cup (IF toAsk' = {} THEN {[role |-> r, binding |-> NoTeam] : r \in Synthetic} ELSE {})
    /\ pc' = IF toAsk' = {} THEN "direct" ELSE "roles"
    /\ UNCHANGED <<policyVars, request, now, myGroups, current, batch, allowed, result,
                   standing, seen>>

\* Mutant of Conclude: the first allow ends the call as well.
ConcludeOnAllow(outcome, otherwise) ==
    IF outcome # "go on"
    THEN /\ pc' = "done" /\ result' = outcome
         /\ UNCHANGED allowed
    ELSE /\ pc' = otherwise
         /\ UNCHANGED <<allowed, result>>

\* Acting on the outcome of a batch: a deny or a failed binding ends the call.
Conclude(outcome, otherwise) ==
    IF outcome \in {"refuse", "error"}
    THEN /\ pc' = "done" /\ result' = outcome
         /\ UNCHANGED allowed
    ELSE /\ pc' = otherwise
         /\ allowed' = (allowed \/ outcome = "allow")
         /\ UNCHANGED result

\* Phase 1: the grants of the user and of the groups.
ReadDirectGrants ==
    /\ pc = "direct"
    /\ \E o \in Outcomes(StoreGrants({User} \cup myGroups), Direct) : Conclude(o, "next")
    /\ UNCHANGED <<policyVars, request, now, myGroups, toAsk, held, current, batch,
                   standing, seen>>

\* Phase 2, per assignment: fetchRoleGrants asks the registry and then the store,
\* and goes through the registry's grants first.
ReadBuiltInGrants(h) ==
    /\ pc = "next" /\ pc' = "custom"
    /\ h \in held
    /\ held' = held \ {h}
    /\ current' = h
    /\ batch' = RegistryGrants(Inherits[h.role])
    /\ UNCHANGED <<policyVars, request, now, myGroups, toAsk, allowed, result, standing, seen>>

ReadCustomGrants ==
    /\ pc = "custom"
    /\ \E first \in Outcomes(batch, current),
         second \in Outcomes(StoreGrants(Inherits[current.role]), current) :
         Conclude(IF first = "go on" THEN second
                  ELSE IF first = "allow" /\ second # "go on" THEN second ELSE first,
                  "next")
    /\ current' = NoRole /\ batch' = {}
    /\ UNCHANGED <<policyVars, request, now, myGroups, toAsk, held, standing, seen>>

Finish ==
    /\ pc = "next" /\ held = {} /\ pc' = "done"
    /\ result' = IF allowed THEN "allow" ELSE "refuse"
    /\ UNCHANGED <<policyVars, localVars, standing, seen>>

Init ==
    /\ grants \in SUBSET Grant
    /\ assignments \in SUBSET Assignment
    /\ memberOf \in SUBSET (Group \cup Team)
    /\ request \in Request
    /\ clock = 0 /\ changes = 0 /\ now = 0
    /\ pc = "start" /\ result = "none"
    /\ myGroups = {} /\ toAsk = {} /\ held = {}
    /\ current = NoRole /\ batch = {} /\ allowed = FALSE
    /\ standing = [grants |-> {}, assignments |-> {}, memberOf |-> {}]
    /\ seen = standing

Evaluate ==
    \/ Start \/ ReadGroups \/ ReadTeams
    \/ \E p \in toAsk : ReadAssignments(p)
    \/ ReadDirectGrants
    \/ \E h \in held : ReadBuiltInGrants(h)
    \/ ReadCustomGrants \/ Finish

Administer ==
    \/ \E g \in Grant : CreateGrant(g)
    \/ \E owner \in {User} \cup Group \cup Role : DeleteGrantsForOwner(owner)
    \/ \E a \in Assignment : AssignRole(a) \/ UnassignRole(a)
    \/ \E ms \in SUBSET (Group \cup Team) : ChangeMembership(ms)

Next == Evaluate \/ Administer \/ Tick

Spec == Init /\ [][Next]_vars

-----------------------------------------------------------------------------
(* The reference: what a policy says of the request, stated from the       *)
(* meaning of a grant and not from the two filters.                        *)

Holders(policy) ==
    {Direct}
      \cup {[role |-> r, binding |-> NoTeam] : r \in Synthetic}
      \cup {[role |-> a.role, binding |-> a.binding] :
              a \in {b \in policy.assignments : b.principal \in {User} \cup policy.memberOf}}

Owners(policy, holder) ==
    IF holder = Direct THEN {User} \cup (policy.memberOf \cap Group)
    ELSE Inherits[holder.role]

\* holder's grant g speaks about the team of the request, if it has one; else
\* about any team.  A variable bound to "*" speaks about any team, too, but for
\* a request without a team only the registry hands out such a grant.
Concerns(g, holder) ==
    /\ \/ ResolvedScope(g, holder) = AnyTeam
       \/ request.team # NoTeam /\ ResolvedScope(g, holder) = request.team
    /\ request.team # NoTeam \/ g.scope = AnyTeam \/ g.owner \in BuiltInRole

\* ... and about the field, or the whole, that it asks for.
Decides(g) ==
    LET under == /\ request.field # WholeRequest
                 /\ \E f \in g.fields : <<f, request.field>> \in Covers
    IN  IF g.effect = "deny"
        THEN g.fields = {} \/ under
        ELSE ~ under

Applies(policy, effect, time) ==
    \E g \in policy.grants, h \in Holders(policy) :
        /\ g.effect = effect
        /\ g.owner \in Owners(policy, h)
        /\ ~ BindingFails(g, h)
        /\ ~ IsExpiredAt(g, time)
        /\ Concerns(g, h) /\ Decides(g)

(* Deny always wins (design.md): a deny that stays in force for the whole   *)
(* call, and applies through memberships and assignments that do, is never  *)
(* overridden, whatever else is granted, assigned or deleted meanwhile.     *)
StandingDenyWins ==
    result = "allow" => ~ Applies(standing, "deny", clock)

(* Nothing is allowed out of thin air: an allow answer rests on an allow    *)
(* grant, a membership and an assignment each of which was in place at some *)
(* time during the call, and on a grant not yet expired when it began.      *)
AllowIsWitnessed ==
    result = "allow" => Applies(seen, "allow", now)

(* An allow that stays in force for the whole call is honoured unless some  *)
(* deny was in place at some time during it.                                *)
StandingAllowHolds ==
    result = "refuse" =>
        ~ Applies(standing, "allow", clock) \/ Applies(seen, "deny", now)

(* A call fails on a variable scope only if an assignment that brings the   *)
(* grant has no value for the variable.  The code fails also when the value *)
(* is there: the grant of an inherited role is looked up under that role's  *)
(* own ID, and the map has only the assigned role: this is false of the     *)
(* code, and no run checks it.                                              *)
FailsOnlyWithoutBinding ==
    result = "error" =>
        \E g \in seen.grants, h \in Holders(seen) :
            /\ h # Direct /\ g.variable
            /\ g.owner \in Inherits[h.role]
            /\ h.binding = NoTeam
=============================================================================
