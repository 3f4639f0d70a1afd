------------------------ MODULE EffectivePermissions ------------------------
(***************************************************************************)
(* service.go: EffectivePermissions and AllowedTeamsForUser, which list    *)
(* what evaluatePermission answers one request at a time.  They read the   *)
(* same places in the same order and work through the grants with a second *)
(* copy of the rules: failed bindings are passed over, direct grants are   *)
(* not filtered by team again, and a deny strikes out the allows with the  *)
(* same key (team scope, object scope, permission) and no others.  The     *)
(* lists are operators on a policy that nobody changes meanwhile; the      *)
(* property compares them with the answer of PermissionEvaluation.         *)
(***************************************************************************)
EXTENDS PermissionEvaluation

\* The store's GrantsForOwners for a base request that names no permission.
AskStore(owners, team) ==
    {g \in grants : /\ g.owner \in owners \ BuiltInRole
                    /\ ~ IsExpiredAt(g, clock)
                    /\ ScopeMatches(g.scope, team)}

\* A grant and the team scope that it comes to.
Entry(gs, holder) == {[scope |-> ResolvedScope(g, holder), grant |-> g] : g \in gs}

\* Phase 1: the grants of the user and of the groups.
DirectEntries(team) ==
    Entry({g \in AskStore({User} \cup (memberOf \cap Group), team) : ~ IsExpiredAt(g, now)},
          Direct)

\* The roles of resolveRoleAssignmentsForUserGroupsAndTeams.
RolesHeld ==
    {[role |-> r, binding |-> NoTeam] : r \in Synthetic}
      \cup {[role |-> a.role, binding |-> a.binding] :
              a \in {b \in assignments : b.principal \in {User} \cup memberOf}}

\* Phase 2, per assignment; for the team "*" the filter by team is left out.
RoleEntries(holder, team) ==
    LET roleIDs == Inherits[holder.role]
    IN  Entry({g \in RegistryGrants(roleIDs) \cup AskStore(roleIDs, team) :
                 /\ ~ IsExpiredAt(g, now)
                 /\ ~ BindingFails(g, holder)
                 /\ team = AnyTeam \/ MatchesTeamScope(ResolvedScope(g, holder), team)},
              holder)

Gathered(team) ==
    DirectEntries(team) \cup UNION {RoleEntries(h, team) : h \in RolesHeld}

\* Mutant of Effective: an allow seen before a deny of its key survives.
EffectiveFirstCome(team) == {e \in Gathered(team) : e.grant.effect = "allow"}

\* accumulateGrant in whatever order: the allows with no deny of their key.
Effective(team) ==
    LET entries == Gathered(team)
    IN  {e \in entries :
           /\ e.grant.effect = "allow"
           /\ \A d \in entries : d.grant.effect = "deny" => d.scope # e.scope}

AllowedTeams == {e.scope : e \in Effective(AnyTeam)}

-----------------------------------------------------------------------------
\* The evaluation of a whole request has ended and the policy is still what it
\* was from beginning to end.
Undisturbed ==
    pc = "done" /\ changes = 0 /\ clock = now /\ request.field = WholeRequest

Speaks(scope) == scope = AnyTeam \/ (request.team # NoTeam /\ scope = request.team)

\* A deny with restricted fields does not refuse a whole request and yet takes
\* its key off the list.
HiddenByFields ==
    \E e \in Gathered(request.team) \cup Gathered(AnyTeam) :
        Speaks(e.scope) /\ e.grant.effect = "deny" /\ e.grant.fields # {}

\* A variable bound to "*" is found for the team "*" and not for a request that
\* has no team.
HiddenByBinding ==
    \E e \in Gathered(AnyTeam) :
        /\ request.team = NoTeam /\ e.grant.effect = "deny"
        /\ e.scope = AnyTeam /\ e.grant.scope # AnyTeam

ListedIfAllowed ==
    result = "allow" =>
        (\E e \in Effective(request.team) : Speaks(e.scope)) \/ HiddenByFields

\* Grants of the store with a fixed team scope are not found for the team "*",
\* so that AllowedTeamsForUser leaves them out.
TeamListedIfAllowed ==
    result = "allow" =>
        \/ \E scope \in AllowedTeams : Speaks(scope)
        \/ HiddenByFields \/ HiddenByBinding
        \/ \E e \in Effective(request.team) :
             e.scope = e.grant.scope /\ e.scope # AnyTeam /\ e.grant.owner \notin BuiltInRole

\* A deny of one scope does not strike out an allow of another.
RefusedByOtherScope ==
    result = "refuse" =>
        \A e \in Effective(request.team) : Speaks(e.scope) =>
            \E d \in Gathered(request.team) :
                /\ d.grant.effect = "deny" /\ d.grant.fields = {}
                /\ Speaks(d.scope) /\ d.scope # e.scope

(* The two copies of the rules agree as far as they can: what the           *)
(* evaluation allows is on the list, except where a deny with restricted    *)
(* fields struck it out, and its team among the allowed teams, except when  *)
(* only a fixed scope grants it or a deny bound to "*" hides it; what the   *)
(* list has and the evaluation refuses is refused by a deny with another    *)
(* team scope and for no other reason, expiry, binding or membership.       *)
ListsAgreeWithEvaluation ==
    Undisturbed => ListedIfAllowed /\ TeamListedIfAllowed /\ RefusedByOtherScope
=============================================================================
