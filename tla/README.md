# go-permissions: a verification project

TLA+ modules of the permission service in this repository, TLC configurations that check them on small
instances, and TLAPS proofs of what matters most for every instance. The reference is the code; every
definition that models code has its lines in `PROJECT.json` under `map`.

- [Inventory](#inventory): the system, component by component
- [Modules](#modules): which module models what, and how
- [Runs](#runs): what TLC checks, within which bounds
- [Where the code and its comments disagree](#where-the-code-and-its-comments-disagree)
- [Fairness](#fairness)
- [Proofs](#proofs)
- [Limits](#limits): what is only model-checked and what is not modelled
- [Plan](#plan): what is next

## Inventory

The library answers "may this user do this here?" from roles, role inheritance, grants and role assignments.
They live in two places: roles whose ID starts with `builtin.` are registered by the program in a registry
inside `Service`; all others are kept by a `PermissionStore`, of which there are several. `Service` routes
every call by that prefix, expands roles through both, and evaluates grants with "deny always wins". Nothing
spans its calls: each store locks itself per operation, and `Service` holds no lock while it combines several.

| Component | State | Operations | What makes it correct | Hard about it |
|---|---|---|---|---|
| Built-in registry, `builtin_registry.go` | roles, direct edges, closure rows, grants | `RegisterRole`, `AddRoleInheritance`, `AddGrant`, reads | expansion = reachability over the edges | rows are extended in place, in any order of edges, with cycles |
| Bootstrap store, `bootstrap_store.go` | roles, assignments, edges, closure, grants, disabled marks | create, update, delete role; link; assign, unassign; grants; disable | expansion complete; no dangling or doubled assignment | deletion edits rows; IDs are used again; two notions of equal bindings |
| Service, administration, `service.go` | registry and store | routing, joint expansion, seeding of synthetic roles | what holds for each half holds for both | two closures, neither knows the other's edges |
| Service, disabled-role cache, `service.go` 470-500 and toggles | map, time of refill, RWMutex | look, refill, disable, enable, invalidate | toggles are obeyed: at once here, within the TTL elsewhere | refill races with toggle; lock held across a store call; several Services |
| Service, evaluation, `evaluatePermission` | none, many reads | `HasPermission`, `HasFieldPermission` | standing denies win, allows are witnessed | policy and clock change between the reads |
| Service, grants | via store and registry | create (bulk), ensure, list, delete | a grant exists once, where evaluation reads it | check-then-create, partial failure, paging by offset |
| Service, lists and reports | none | effective permissions, teams, reports | agree with the evaluation | a second copy of the rules, with other exceptions |
| Role assignment manager, `role_assignment_manager.go` | rules, scope | add, remove, bulk removal, two cleanups | rules keep what they promise; success means done | checked on one read, applied by later calls; partial failure |
| Cached store, `cachedstore/store.go` | TTL cache | nine cached reads, ten writes, flush | bounded staleness | read-through races with write and flush |
| JSON store, `jsonstore/store.go` | memory, file, temporary file | writes, `Save`, `Load` | what was reported saved survives | crash, failing file operations, two savers with one temporary file |
| JSON and in-memory identity providers | users, groups, teams | membership reads, group updates | every call returns; one answer, one moment | RLock taken again by its holder |
| In-memory store, `inmemory/store.go` | as the bootstrap store | as the bootstrap store | as the bootstrap store | no lock, for tests |
| PostgreSQL store, `postgres/store.go` | tables | as the bootstrap store | closure complete and sound; pages miss nothing | transactions under READ COMMITTED that each see half |
| Object types, CRUD names, utilities | one map behind a mutex | registration, name construction | naming | little |

How they interact: `Service` calls `IdentityProvider` (groups, teams), `PermissionStore` and registry; the
manager calls `Service`; the cached store wraps a `PermissionStore`; several `Service`s, in several processes,
may share one database. There are no callbacks and no messages: all interaction is by calls and shared state,
so all hazards are orders of calls and failures between them. `PROJECT.json` lists them, each at its line,
with the properties that would catch it or the reason there is none.

## Modules

| Module | Models | State and actions |
|---|---|---|
| `RoleClosure` | closure algorithm shared by registry and stores | operators only: `Link` copies a child's row to the parent and the parent's heirs, `Without` removes a role, `Expand`; `Reach` is the reference, reachability by definition |
| `RoleDefinitions` | what both places of roles share | constants only: role definitions and the prefix `builtin.` |
| `RoleHierarchy` | abstract specification | two promises: `HierarchySpec` (exact reachability, recomputed) and `PreorderSpec` (inheritance grows by a link, shrinks only by a deletion) |
| `BuiltInRegistry` | `builtin_registry.go` | the four maps; one action per writing method; refines `HierarchySpec` |
| `BootstrapRoles` | roles, inheritance and assignments of `bootstrap_store.go` | one action per writing method; refines `PreorderSpec` |
| `RoleAdministration` | the administrative calls of `Service` | extends both modules above, whose variables are disjoint, and routes by prefix; `EnsureSyntheticRoles` stops at the first error as the code does |
| `DisabledRoleCache` | `getDisabledBuiltInRoles` and the toggles | per Service the cache, its time and its lock; per thread a program counter through look, lock, look again, store call, refill; time |
| `PermissionEvaluation` | `evaluatePermission` with its helpers | one call as a sequence of reads; `Administer` and `Tick` change policy and clock in between |
| `EffectivePermissions` | `EffectivePermissions`, `AllowedTeamsForUser` | operators on the policy of `PermissionEvaluation`, which it extends: the lists a caller gets, compared with the answer of the evaluation |
| `GrantAdministration` | grants of `Service` and of the stores | the rows of one store, whose kind (bootstrap, file, PostgreSQL) is chosen at the start; per thread a program counter through look-ups and writes; one caller that turns pages |
| `AssignmentManager` | `role_assignment_manager.go` | per administrator a program counter through the three reads, the rules and the store calls, each of which may fail |
| `CachedStore` | `cachedstore/store.go` | keys and answers are abstract; per thread look, base read, set; write, flush; writes behind the cache; time |
| `PostgresRoles` | roles and closure of `postgres/store.go` | the three tables as committed; per session the statement its transaction is at and the rows its snapshot led to |
| `IdentityLock` | both identity providers | Go's RWMutex (an announced writer, readers that wait for it) and per thread the call it is in |
| `JSONStore` | `jsonstore/store.go` | memory, two files, per thread a program counter through snapshot, open, write, rename; failures, crash, `Load` |

`MC...` modules give the constants values; `...Proofs` modules hold theorems. Conventions: a program counter
value stands between two steps of the code that another thread can interleave with; when a call returns, its
locals are reset, so that states that differ only in dead variables coincide. Variables called history
(`owed`, `settled`, `standing`, `seen`, `touched`, ...) record what properties refer to and appear in no
guard. What is abstracted: names, formatting, the text of errors, object scopes (resolved and compared in the
same places as team scopes), pages, and permission names, where all grants carry the one that is asked for.

Some points in which a model is more abstract than a first reading of the code suggests:

- `CachedStore`: the nine cached reads have the same shape, so one family of actions stands for them; a key is
  the method with its arguments. `WriteBehind` is both a write by another process and a base store that
  applies a write and reports an error, after which the code leaves the cache as it is.
- `JSONStore`: a file is empty, a snapshot, or garbled. `os.WriteFile` truncates, then writes from the
  beginning of a file that a second thread may have opened too; a longer text leaves its rest behind
  (`Overwritten`), and a descriptor stays with its file through a rename (`fd`).
- `PostgresRoles`: a transaction's `insert ... select` is a snapshot (`Select`), the insertion of what it found
  (`Write`, which waits for uncommitted rows with the same key) and `Commit`. `fresh` and `settled` are
  history: an edge is settled if nothing came into the closure between its snapshot and its commit.
- `GrantAdministration`: a grant stands for all that `grantsEquivalent` identifies. `EnsureGrantForOwner` is
  a list of one. A batch takes its IDs when it is inserted and shows its rows when it is committed, so that
  rows with lower IDs can appear after rows with higher ones. The filters of `ListGrants` are left out: a
  listing of some grants pages as a listing of all.
- `EffectivePermissions`: object scopes are compared where team scopes are and are left out with them.
  Pages are sets, because only what a page leaves out or repeats matters, not the order within it.
- `IdentityLock`: one user is asked about, and each group is the one entry of a team. In the JSON provider a
  team's entry that names the user directly needs no look-up and no step.
- `AssignmentManager`: rules see role IDs only, so of the assignments read only roles are kept. Assignments
  are removed under the binding values that the manager itself writes, as in the code, except by the cleanup
  of a team.

## Runs

All runs finish within five minutes with two workers. Every property has a mutant, an edit to one mapped
definition that a plausible bug would make (listed under `mutants`), which TLC shows to violate it.

| Run | Question | Result | Bounds |
|---|---|---|---|
| `registry` | Is the in-place closure exactly reachability for every order of registering and linking? (`ClosureIsReachability`, `ImplementsHierarchy`) | holds | four built-in roles, one custom one that is refused |
| `bootstrap_roles` | Does expansion miss nothing, do assignments neither dangle nor double? (`ExpandsAllInherited`, `AssignmentsResolve`, `OneAssignmentPerText`, `ImplementsPreorder`) | holds | three roles, one built-in one; `Small`: at most three edges and assignments |
| `role_administration` | Does the two-stage expansion follow every path of a layered hierarchy? (`ExpandsLayeredHierarchy`, `ServiceAssignmentsResolve`) | holds | two roles on each side; `Small` as above |
| `disabled_role_cache` | Are toggles obeyed, does every call return? (`SeesOwnToggles`, `ObeysOldMarks`, `OneRefillPerService`, `EveryCallReturns`) | holds | two threads, two roles; TTL 1, latency 1, clock to 3; no symmetry, because of the liveness |
| `evaluation` | Is one answer consistent with a policy that changes during the call, and with the lists if nothing changes? (`StandingDenyWins`, `AllowIsWitnessed`, `StandingAllowHolds`, `ListsAgreeWithEvaluation`) | holds | every policy of seven grants and three assignments; one change, one tick |
| `assignment_manager` | Do the rules keep their promises, does success mean done? (`NeverCombines`, `LastHolderStays`, `SelfCallsObeyRules`, `OkMeansGone`) | holds | one administrator, five rules, a user, a group and a team, two roles, any failing call |
| `cached_store` | How stale can an answer be? (`BoundedStaleness`, `SeesFlushedWrites`) | holds | two threads, two keys, two answers; TTL 1, latency 1, clock to 3 |
| `json_store` | Is what was reported saved found again? (`SavedSurvives`) | holds | two threads, one fact of each kind, any failure, any number of crashes |
| `postgres_roles` | What can overlapping links lose, and can they invent anything? (`ExpandsSettled`, `ExpandsOnlyLinked`) | holds | three roles, two sessions; `Small`: at most three edges |
| `postgres_built_in` | Does a custom role expand to the built-in role it is linked to? | violated | two custom roles, one built-in one |
| `grants` | When is an ensured grant there once, when at least once, and what do pages miss? (`EnsuredOnce`, `OkMeansPresent`, `PagesReturnOnce`) | holds | two threads, two grants of two owners, one of them scoped; three rows, pages of one row; a store of each kind |
| `identity_lock` | Does every call return, is an answer of one moment? (`ReturnsUnlessNested`, `StopsOnlyByEmbrace`, `TeamsOfOneMoment`) | holds | a reader, a writer, a thread that is both; two groups |

Why the bounds are enough to be interesting. A closure row must be copied to an heir of the parent only when
an edge joins two chains, which takes four roles; a stale row needs a role in the middle of a chain of three.
A toggle races with a refill of another thread, and with the refills of its Service for as long as it has not
invalidated the cache; the clock allows one expiry and a refill after it, and a second role lets a toggle fall
between another toggle and its read. A second Service on the same store adds threads that never share a lock
with these two; the theorems are about any number of Services. One policy change per evaluation suffices to
fall between any two reads and to make old and new reads disagree; `standing` and `seen` then differ. The JSON
store needs two threads for overlapping saves, and a failed save that leaves a longer temporary file takes
three calls. Two links of three roles overlap so that each misses the other, and the third edge repairs it.
Two writers keep each other and a reader waiting; two groups leave a writer room between two look-ups. Pages
of one row over three rows have a first, a middle and a last. `Small` is a state constraint, which cuts off
successors of larger states; the theorems below have no such bound.

What the pass properties leave out, on purpose, is part of what they say:

- `ObeysOldMarks` grants a mark the TTL *and* the time of a refill, because the age of the cache counts from
  the end of the store call. `SeesOwnToggles` and `ObeysOldMarks` leave out calls whose store call failed: the
  code then evaluates as if no role were disabled.
- `SeesFlushedWrites` leaves out a key that some reader held between the base store and the cache when the
  cache was flushed: that reader puts the old answer back, for up to a TTL.
- `ExpandsSettled` speaks of links that nothing disturbed. Two links that overlap do lose paths: with r1 -> r2
  and r2 -> r3 committed by overlapping transactions, r1 never expands to r3, until one edge is added again.
- `EnsuredOnce` excludes, by the history `contested`, grants on which calls overlapped, that came twice in one
  list, or that were also created; and grants with a fixed scope outside the bootstrap store (see below).
- `PagesReturnOnce` lets a listing by offset miss a grant if grants were deleted while it went on.
- `ListsAgreeWithEvaluation` has four exceptions, each with the code's reason: a deny with restricted fields
  takes its key off the list, a fixed scope is not found for the team "*", a deny bound to "*" is found for the
  team "*" and not for a request without a team, and a deny of one scope does not strike out an allow of another.
- `SavedSurvives` promises nothing for calls of `Save` that overlap. They are in the run, and they do go
  wrong: an older snapshot may replace a newer one, or the next start finds an empty or undecodable file.
- All properties of `AssignmentManager` but its types are checked with one administrator, and proved for one at
  a time. With two, both are past the reads before either change is written; the rules are no lock. With
  `Admin = {"a1", "a2"}`, one user, one group and only the rule in question, TLC finds each of `NeverCombines`,
  `LastHolderStays`, `SelfCallsObeyRules` and `OkMeansGone` violated within minutes.
- `StandingDenyWins` and `StandingAllowHolds` do not say what the evaluation does with a variable scope that is
  bound to "*" when the request has no team: the registry's filter, which looks at the resolved scope, lets the
  grant pass, and the store's, which sees the variable, does not. `Concerns` follows the code in this.

## Where the code and its comments disagree

The run `postgres_built_in` looks for a violation and finds it (`findings` quotes the lines): a built-in role
has no row of its own in `role_closure`, so a custom role that is linked to it in the PostgreSQL store, as
`docs/roles_architecture.md` does, does not expand to it.

Three formulas in the modules are false of the code, against a comment of it. No run checks them; put in
place of the properties of the module's run, TLC finds each violated within a minute:

- `ExpandsOnlyInherited` (`BootstrapRoles`): deleting a role leaves its ancestors with its descendants. From
  r2 -> r1 -> r3, with r1 deleted, r2 still expands to r3, although `ExpandRoles` promises the closure of the
  edges. In the PostgreSQL store `DeleteRole` touches neither edges nor closure, nor assignments or grants,
  which `UnassignRole` then refuses to remove ("role not found").
- `FailsOnlyWithoutBinding` (`PermissionEvaluation`): the variable grant of an inherited role ends the whole
  evaluation in an error, because only the assigned role is in the binding map; the comment there says that
  variable scopes resolve correctly. `EffectivePermissions` passes over such a grant.
- `AddedEdgesSurvive` (`JSONStore`): repeating `AddRoleInheritance` after a failed save reports success
  without saving, although it "persists a parent→child direct edge and saves the store".

Others, met while modelling:

- `EnsureGrantForOwner` "keeps startup/bootstrap flows idempotent across store implementations" and
  `EnsureGrantsForOwners` "ensures each provided grant exists once". They look among the answers of
  `GrantsForPrincipal`, which in the JSON, in-memory and PostgreSQL stores asks for an empty request; a fixed
  team or object scope never applies to one. So every start writes another copy of a scoped grant
  (`FoundForNoRequest`). A list that has a grant twice writes it twice.
- Grants of built-in roles that arrive by `CreateGrants` or an ensuring call go to the store, where the
  evaluation, which asks the registry for them, never looks.
- "If teamID "*" is supplied, permissions granted with a team scope will be included as well": the stores
  filter them out first, so that `AllowedTeamsForUser` misses a team that only a fixed scope grants. A deny
  strikes out the allow with its very scope and no narrower one, so that the list can have what the evaluation
  refuses; and a deny of some fields strikes out the whole permission, which the evaluation still allows.
- `IdentityProvider.Save` of the JSON provider copies the groups and drops the team memberships, which are
  then missing after the next start.
- `IsUserInTeam` and `GetUserTeams` ask for a read lock they hold. A writer that announces itself in between
  stops the provider for good (`Embrace`).
- `MinMaxInstancesRule` counts only the assignee's assignments, so a maximum is hardly ever reached (modelled
  as it is, `MinMaxCount`); `RequireAtLeastRule` prints `Min` and does not compare with it;
  `EnsureSyntheticRoles` overwrites a registered built-in role; an edge from a built-in to a custom role is
  stored and never followed.

## Fairness

`DisabledRoleCache` and `IdentityLock` state fairness. In `DisabledRoleCache`, `WF` for each thread's own
steps: the Go scheduler runs every runnable goroutine, and a store call returns or fails (the model's `Fetch`
and `FetchError`). `SF` for a thread that waits for the RWMutex: `sync.RWMutex` lets a blocked writer go ahead
of later readers, lets blocked readers go when a writer leaves, and its inner `sync.Mutex` hands over to a
writer that has waited long, so that a thread that could take the lock again and again does take it. In
`IdentityLock`, `WF` for every step of a call that can go on: a reader that was let in runs, `Unlock` lets in
every reader that waits (so readers need no `SF`), and the writer that has announced itself goes on when the
last reader leaves. `SF` for `Announce`, the inner `sync.Mutex` between writers, as above. No fairness is
assumed for callers, who may stop calling. The deadlock check is off in `identity_lock`, because the code does
stop there; `ReturnsUnlessNested` says when. All other properties are safety properties and need none.

`CachedStore` and `DisabledRoleCache` bound the time between a store's answer and its arrival in the cache by
`Latency`. The code bounds it by nothing; the constant makes the dependence visible instead of hiding it, and
the theorems hold for every value of it.

## Proofs

TLAPS checks the following for all values of the constants, from the `ASSUME`s of each module (which TLC
evaluates in every run).

Every invariant and every action property that a passing run checks is stated by a theorem. Each item names
the inductive invariants, because a property is seldom inductive as it stands.

- `RoleAdministrationProofs` has four parts.
  *The closure*: lemmas about `Link` and `Without`. `Link` keeps a transitive relation transitive, loses no pair
  and adds exactly the pairs that the new edge makes reachable. No induction over paths is needed: `Reachable`
  quantifies over the sets that are closed under the edges, and a row of a complete closure is such a set.
  *The registry*: the closure is transitive, contains the edges and is contained in reachability
  (`RegistryClosureInv`); that gives `ClosureIsReachability` and the refinement `ImplementsHierarchy`. Without
  transitivity, copying rows could miss paths.
  *The store*: after deletions the closure may be too large, so its invariant (`StoreClosureComplete`) keeps only
  transitivity and containment of the edges; that gives `ExpandsAllInherited`, with `AssignmentsResolve`,
  `OneAssignmentPerText` and the refinement `ImplementsPreorder`.
  *Service*: each half keeps to its own. The store defines no built-in role (`StoreDefinesNoBuiltIn`), which makes
  `ServiceAssignmentsResolve` inductive: the store accepts a role it does not define if the registry knows it.
  Each closure is complete for the edges of its half and the store holds no edge between two built-in roles
  (`HalvesStayComplete`); so without upward edges what `ExpandRoles` returns is closed under the edges of both
  halves, which is `ExpandsLayeredHierarchy`.
- `PermissionEvaluationProofs` follows the call. `SeenInv` bounds it from above: what the call holds was all seen,
  and what stands is within the policy of every moment. `WitnessInv` adds what it has concluded from that, which
  gives `AllowIsWitnessed`. `ReadInv` bounds it from below: no membership, assignment or built-in grant that
  stands is lost between the reads. `StandingInv` says of every holder that stands that it is yet to be
  evaluated, under evaluation, or evaluated with every standing grant taken into account; at the answer nothing
  is yet to be evaluated, which gives `StandingDenyWins` and `StandingAllowHolds`. The clock makes the last two
  differ from the first: a grant may expire between `now` and the store's look at its own clock. With
  `UndisturbedInv` (while nobody changes the policy, what was seen and what stands are one) they also give
  `ListsAgreeWithEvaluation`: the proof compares the two copies of the rules grant by grant, and each of the four
  exceptions is a case in which it has no other way out.
- `DisabledRoleCacheProofs`: `CacheLockHeld` and `CacheOneRefill` (mutual exclusion of the refill section);
  `CacheToggleInv`, the agreement of a filled cache and of an answer on its way with every settled toggle,
  gives `SeesOwnToggles`; `CacheAgeInv`, on how old each piece of knowledge can be, gives `ObeysOldMarks`.
- `CachedStoreProofs`: `CachedStoreSettled` (cache and readers' hands agree with the base store on settled
  keys) gives `SeesFlushedWrites`; `CachedStoreAge` gives `BoundedStaleness`.
- `JSONStoreProofs`: `JSONStoreSaveInv` says that a thread alone in `Save` works on a temporary file with
  exactly its copy, that memory and every such copy keep what is owed, and that nothing is owed while saves
  overlap; it gives `SavedSurvives`.
- `PostgresRolesProofs`: the invariant `IInv` says that what settled edges reach has its closure rows
  (`SettledHeld`), that an undisturbed snapshot is what the query would find now (`FreshIsCurrent`), and that
  every row, committed or in a snapshot, is explained by edges (`RowsSound`). The middle part is what makes it
  inductive: a commit adds the rows of a snapshot that may be old. It gives `ExpandsSettled` and
  `ExpandsOnlyLinked` for any number of sessions.
- `AssignmentManagerProofs`: types and phases (`PhaseInv`) for any number of administrators. The rest has the
  hypothesis `Alone`, that there is no second administrator, and is the sequential correctness of the manager
  with every call to the store allowed to fail; without it the conclusions are false, as told under Runs.
  `Proposal`: what the rules are shown is what the store holds and what is to be written. `Passed`: once the
  rules have been consulted, their verdict stays true until the change is applied. They make each store call
  obey the rules, which is `NeverCombines`, `LastHolderStays` and `SelfCallsObeyRules`. `Pending`: each
  assignment that a removal has come to is gone, still to be removed, or found under other binding values, in
  which case the store refuses and the call reports an error; it gives `OkMeansGone`. `Role` is assumed finite,
  because the rules count.
- `GrantAdministrationProofs`, for each kind of store. `NumberInv`: row numbers, those of batches in flight
  included, are handed out once. `PresentInv`: a grant that a call has dealt with is present, about to be written,
  or belongs to an owner whose grants were deleted; at success nothing is about to be written, which is
  `OkMeansPresent`. `OnceInv`: an uncontested grant is on the list of one call at most, and while that call still
  means to write it the store has no copy; so `EnsuredOnce`. `PageInv`: what lies before the cursor and stands was
  returned; for offsets, `Position` counts the rows below an ID, new rows come last, and a deletion is what moves
  the rest forward. It gives `PagesReturnOnce`. That a nonempty page has a least row uses the well-foundedness of
  the natural numbers (`LeastNatural`), and that a page that is not full is the last one uses cardinalities
  (`FullPage`).
- The last part of `JSONStoreProofs` is about `IdentityLock`: a caller that scans holds a read lock from its
  first look-up to its last (`LocksHeld`), no writer can be between, and so what it has found are the user's
  groups of now among those it has looked at (`ScanIsCurrent`). It gives `TeamsOfOneMoment`. With `WriterInv`
  (whoever waits for a lock waits for the announced writer) it also gives `StopsOnlyByEmbrace`: without a nested
  read lock in the wrong place, somebody can always go on.

Each proof has one step per action. Type invariants are proved first and strengthened by what a program
counter implies (a thread in the refill section holds the lock, a thread that writes has a descriptor).

## Limits

Model-checked only: `EveryCallReturns` and `ReturnsUnlessNested`, which are liveness under fairness and need
`ENABLED`, out of the prover's reach (`StopsOnlyByEmbrace`, the part of the second that needs no fairness, is
proved); and what the violation run shows. What a recursive definition computes for every input is out of reach
too; no module that is proved about has one. The theorems about `AssignmentManager` beyond types and phases
assume one administrator, and there is none to be had for more: the code does not promise it.

Not modelled, and why: the data races of `Service` (`s.builtIns.roles` read without its lock, `SetStore`
without any) may end the process and have no sensible next state; the SQL of the PostgreSQL store beyond its
transactions, and its single-statement calls (assignments, disabled marks, `UpdateRole`);
`PrincipalsWithPermission` and `GenerateReport`, which sort and print what other reads return; a crash of the
operating system that loses renamed but unsynchronised files; the in-memory store, whose closure code is that
of the bootstrap store and which has no lock to model; the object type registry and the construction of CRUD
names, single-step and covered by unit tests; examples and the test harness. The components without a module
are listed with `not_modelled` in `PROJECT.json`.

## Plan

Done, in this order: closure and its two users, administration over both, the cache, the evaluation, the
manager, the cached store, the JSON store, the proofs about them; then the PostgreSQL store's closure with its
proofs, grants in all stores, the lists of effective permissions, the identity providers' lock, and the
proofs about administration; then the proofs about the evaluation and the lists, the manager, grants and pages,
and the identity lock, after which every safety property that is checked is also proved.

Next:

1. An abstract specification of bounded staleness that both caches implement, with the refinement proved.
2. An abstract specification of one evaluation as a single read of some policy between `standing` and `seen`.
3. `SetStore` while evaluations run, as a further action of `DisabledRoleCache`.

Runs are kept to a dozen; a new module takes the place of a violation run whose finding is documented here.
