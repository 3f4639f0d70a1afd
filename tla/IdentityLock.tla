---------------------------- MODULE IdentityLock ----------------------------
(***************************************************************************)
(* jsonstore/identity_provider.go and inmemory/identity_provider.go: one   *)
(* sync.RWMutex around the groups of the users, and readers that call each *)
(* other while they hold it: IsUserInTeam calls GetUserTeams, which calls  *)
(* IsUserInGroup for every group entry of a team.  Go's RWMutex does not   *)
(* allow that: once a writer has announced itself, a new RLock waits for   *)
(* the writer, also the one of a reader that the writer is waiting for.    *)
(*                                                                         *)
(* One user is asked about.  TeamMembership never changes in a running     *)
(* process other than by Load; here each group is the one entry of a team, *)
(* so that the teams found are the groups found.                           *)
(***************************************************************************)
EXTENDS FiniteSets, Naturals

CONSTANTS Reader, Writer,  \* the threads that call readers, and those that call writers
          Group,
          Update,          \* the groups a writer may leave the user in
          NoOne            \* no thread: the writers' mutex is free

Caller == Reader \cup Writer

ASSUME IdentityAssumption ==
    NoOne \notin Caller /\ Update \subseteq SUBSET Group /\ Update # {}

VARIABLES inGroup,   \* userGroups[user]
          writer,    \* the writer that has announced itself, or NoOne
          count,     \* per thread: how many read locks it holds
          waiting,   \* threads whose RLock waits for the writer
          step,      \* per thread: where its call goes on
          asked,     \* the group entry it is at
          todo,      \* the group entries it has still to look at
          found,     \* the groups it has found the user in
          during     \* history: what inGroup has been since its call began

lockVars == <<writer, count, waiting>>
callVars == <<step, asked, todo, found, during>>
identityVars == <<inGroup, lockVars, callVars>>

IdentityInit ==
    /\ inGroup = {}
    /\ writer = NoOne
    /\ count = [t \in Caller |-> 0]
    /\ waiting = {}
    /\ step = [t \in Caller |-> "idle"]
    /\ asked = [t \in Caller |-> {}]
    /\ todo = [t \in Caller |-> {}]
    /\ found = [t \in Caller |-> {}]
    /\ during = [t \in Caller |-> {}]

-----------------------------------------------------------------------------
(* sync.RWMutex *)

RLock(t) ==
    /\ writer' = writer
    /\ IF writer = NoOne
       THEN count' = [count EXCEPT ![t] = @ + 1] /\ waiting' = waiting
       ELSE count' = count /\ waiting' = waiting \cup {t}

Release(t, n) ==
    /\ count' = [count EXCEPT ![t] = @ - n]
    /\ UNCHANGED <<writer, waiting>>

\* Unlock hands the lock to every reader that waits, before any other writer.
Unlock ==
    /\ writer' = NoOne
    /\ count' = [t \in Caller |-> IF t \in waiting THEN count[t] + 1 ELSE count[t]]
    /\ waiting' = {}

-----------------------------------------------------------------------------
(* The readers *)

Call(t, at) ==
    /\ step[t] = "idle"
    /\ step' = [step EXCEPT ![t] = at]
    /\ during' = [during EXCEPT ![t] = {inGroup}]
    /\ UNCHANGED <<inGroup, asked>>

Running(t, at) == step[t] = at /\ t \notin waiting

\* GetUserGroups, GetGroupMembers, IsUserInGroup: one lock, one look.
ReadOnce(t) ==
    /\ Call(t, "read")
    /\ RLock(t)
    /\ UNCHANGED <<todo, found>>

FinishRead(t) ==
    /\ Running(t, "read")
    /\ step' = [step EXCEPT ![t] = "idle"]
    /\ during' = [during EXCEPT ![t] = {}]
    /\ Release(t, 1)
    /\ UNCHANGED <<inGroup, asked, todo, found>>

IsUserInTeam(t) ==
    /\ Call(t, "team")
    /\ RLock(t)
    /\ UNCHANGED <<todo, found>>

BeginScan(t) ==
    /\ todo' = [todo EXCEPT ![t] = Group]
    /\ found' = [found EXCEPT ![t] = {}]

\* Mutant of GetUserTeams: the lock is left to IsUserInGroup.
GetUserTeamsUnlocked(t) ==
    /\ Call(t, "scan")
    /\ BeginScan(t)
    /\ UNCHANGED lockVars

GetUserTeams(t) ==
    /\ Call(t, "scan")
    /\ BeginScan(t)
    /\ RLock(t)

\* IsUserInTeam's call of GetUserTeams.
AskTeams(t) ==
    /\ Running(t, "team")
    /\ step' = [step EXCEPT ![t] = "scan"]
    /\ BeginScan(t)
    /\ RLock(t)
    /\ UNCHANGED <<inGroup, asked, during>>

\* GetUserTeams' call of IsUserInGroup for its next group entry.
AskGroup(t, g) ==
    /\ Running(t, "scan")
    /\ g \in todo[t]
    /\ step' = [step EXCEPT ![t] = "look"]
    /\ asked' = [asked EXCEPT ![t] = {g}]
    /\ RLock(t)
    /\ UNCHANGED <<inGroup, todo, found, during>>

LookAtGroup(t) ==
    /\ Running(t, "look")
    /\ step' = [step EXCEPT ![t] = "scan"]
    /\ todo' = [todo EXCEPT ![t] = @ \ asked[t]]
    /\ found' = [found EXCEPT ![t] = @ \cup (asked[t] \cap inGroup)]
    /\ asked' = [asked EXCEPT ![t] = {}]
    /\ Release(t, 1)
    /\ UNCHANGED <<inGroup, during>>

\* Mutant of Answer: IsUserInTeam has no RUnlock of its own.
AnswerUnlockOnce(t) ==
    /\ Running(t, "scan") /\ todo[t] = {}
    /\ step' = [step EXCEPT ![t] = "idle"]
    /\ found' = [found EXCEPT ![t] = {}]
    /\ during' = [during EXCEPT ![t] = {}]
    /\ Release(t, 1)
    /\ UNCHANGED <<inGroup, asked, todo>>

\* All entries looked at: the deferred RUnlocks, and the answer.
Answer(t) ==
    /\ Running(t, "scan") /\ todo[t] = {}
    /\ step' = [step EXCEPT ![t] = "idle"]
    /\ found' = [found EXCEPT ![t] = {}]
    /\ during' = [during EXCEPT ![t] = {}]
    /\ Release(t, count[t])
    /\ UNCHANGED <<inGroup, asked, todo>>

-----------------------------------------------------------------------------
(* The writers: AddUserGroups, SetUserGroups and Load *)

CallWrite(t) ==
    /\ Call(t, "lock")
    /\ UNCHANGED <<lockVars, todo, found>>

\* Lock, first half: one writer at a time announces itself.
Announce(t) ==
    /\ step[t] = "lock" /\ writer = NoOne
    /\ writer' = t
    /\ step' = [step EXCEPT ![t] = "write"]
    /\ UNCHANGED <<inGroup, count, waiting, asked, todo, found, during>>

\* Lock, second half: the readers have left.  What is then done before Unlock
\* nobody sees.  AddUserGroups and Load are over; SetUserGroups goes on to Save.
\* AddUserGroups only adds groups: for it the updates allow more than the code.
WriteGroups(t, groups) ==
    /\ step[t] = "write" /\ \A r \in Caller : count[r] = 0
    /\ inGroup' = groups
    /\ Unlock
    /\ \E at \in {"idle", "save"} :
         /\ step' = [step EXCEPT ![t] = at]
         /\ during' = [r \in Caller |->
                         IF step'[r] = "idle" THEN {} ELSE during[r] \cup {groups}]
    /\ UNCHANGED <<asked, todo, found>>

\* Mutant of Save: the lock is not given back.
SaveLocked(t) ==
    /\ step[t] = "save"
    /\ step' = [step EXCEPT ![t] = "idle"]
    /\ during' = [during EXCEPT ![t] = {}]
    /\ RLock(t)
    /\ UNCHANGED <<inGroup, asked, todo, found>>

\* Save copies the data under a read lock of its own.
Save(t) ==
    /\ step[t] = "save"
    /\ step' = [step EXCEPT ![t] = "read"]
    /\ RLock(t)
    /\ UNCHANGED <<inGroup, asked, todo, found, during>>

-----------------------------------------------------------------------------
Begin(t) ==
    \/ t \in Reader /\ (ReadOnce(t) \/ IsUserInTeam(t) \/ GetUserTeams(t))
    \/ t \in Writer /\ CallWrite(t)

\* The steps of a call under way, Announce apart.
Continue(t) ==
    \/ FinishRead(t) \/ AskTeams(t) \/ LookAtGroup(t) \/ Answer(t)
    \/ \E g \in Group : AskGroup(t, g)
    \/ \E groups \in Update : WriteGroups(t, groups)
    \/ Save(t)

IdentityNext == \E t \in Caller : Begin(t) \/ Announce(t) \/ Continue(t)

\* Nobody has to call, but a call goes on as long as it can.  The mutex between
\* writers passes on to a goroutine that has waited long, whatever others do.
Fairness ==
    \A t \in Caller : WF_identityVars(Continue(t)) /\ SF_identityVars(Announce(t))

IdentitySpec == IdentityInit /\ [][IdentityNext]_identityVars /\ Fairness

-----------------------------------------------------------------------------
\* The deadly embrace: a reader waits for the writer that waits for it.
Embrace == \E t \in waiting : count[t] > 0

\* The call of t can take a step, as far as the lock is concerned.
CanGoOn(t) ==
    \/ step[t] \in {"read", "team", "scan", "look"} /\ t \notin waiting
    \/ step[t] = "lock" /\ writer = NoOne
    \/ step[t] = "write" /\ \A r \in Caller : count[r] = 0
    \/ step[t] = "save"

(* Nothing but the embrace stops the provider: as long as there is none,    *)
(* one of the calls under way can go on, whoever waits for whom.            *)
StopsOnlyByEmbrace ==
    (\E t \in Caller : step[t] # "idle") /\ ~ Embrace => \E t \in Caller : CanGoOn(t)

(* Every call returns, also the one that began while writers kept coming,   *)
(* unless a nested read lock was asked for between a writer's announcement  *)
(* and its turn.  After that no call returns any more: the lock discipline  *)
(* has no other way to hang, and this one is open to any call of            *)
(* GetUserTeams or IsUserInTeam.                                            *)
ReturnsUnlessNested ==
    \A t \in Caller : step[t] # "idle" ~> (step[t] = "idle" \/ Embrace)

(* The teams found are those of one moment of the call: between the group   *)
(* look-ups of one GetUserTeams no writer gets in, although each of them    *)
(* locks and unlocks for itself.                                            *)
TeamsOfOneMoment ==
    \A t \in Caller : Running(t, "scan") /\ todo[t] = {} => found[t] \in during[t]
=============================================================================
