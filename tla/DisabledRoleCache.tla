------------------------- MODULE DisabledRoleCache -------------------------
(***************************************************************************)
(* service.go: which built-in roles are disabled is kept in the permission *)
(* store, shared by every Service, and each Service caches the list for    *)
(* five seconds (getDisabledBuiltInRoles).  Threads evaluate permissions,  *)
(* which reads the list, and toggle roles, which writes the store and then *)
(* invalidates the cache of their own Service.                             *)
(*                                                                         *)
(* disabledCacheMu is an RWMutex.  Under RLock the code only copies        *)
(* memory, so that is one step, possible while no writer holds the lock;   *)
(* Lock is held across the store call that refills the cache.              *)
(***************************************************************************)
EXTENDS Integers

CONSTANTS BuiltInRole,   \* the roles an administrator may disable
          Service,       \* the Service instances that share the store
          Thread,        \* callers
          ServiceOf,     \* ServiceOf[t]: the Service thread t calls
          Free,          \* marks a lock nobody holds
          TTL,           \* the cache's five seconds, in ticks
          Latency,       \* longest time from the store's read to the refill
          MaxClock       \* bound on the clock

ASSUME ServiceAssumption == ServiceOf \in [Thread -> Service]
ASSUME FreeAssumption == Free \notin Thread
ASSUME TimeAssumption ==
    TTL \in Nat \ {0} /\ Latency \in Nat /\ MaxClock \in Nat

VARIABLES
    disabled,     \* the store's list
    clock,        \* monotonic time, as time.Since reads it
    disabledCache, disabledCacheAt, writer,   \* per Service; writer of the lock
    pc, fetched, readAt,    \* per thread: where it is, the list it read and when
    answer,       \* per thread: the list getDisabledBuiltInRoles returned
    failed        \* per thread: the store failed, the caller goes on with {}

\* History: the roles whose mark nobody wrote since the Service's cache was last
\* invalidated; those a call may rely on; when a mark was last written and when
\* a call was answered.
VARIABLES settled, owed, changedAt, answeredAt

cacheVars == <<disabledCache, disabledCacheAt, writer>>
callVars == <<fetched, readAt, answer, failed, answeredAt>>
vars == <<disabled, clock, cacheVars, pc, callVars, settled, owed, changedAt>>

\* The zero time.Time, which is older than any TTL.
ZeroTime == -TTL

Label == {"idle", "check", "lock", "fetch", "fill", "done", "invalidate"}

DisabledRoleCacheTypeOK ==
    /\ disabled \in SUBSET BuiltInRole
    /\ clock \in Nat
    /\ disabledCache \in [Service -> SUBSET BuiltInRole]
    /\ disabledCacheAt \in [Service -> Nat \cup {ZeroTime}]
    /\ writer \in [Service -> Thread \cup {Free}]
    /\ pc \in [Thread -> Label]
    /\ fetched \in [Thread -> SUBSET BuiltInRole]
    /\ readAt \in [Thread -> Nat]
    /\ answer \in [Thread -> SUBSET BuiltInRole]
    /\ failed \in [Thread -> BOOLEAN]
    /\ settled \in [Service -> SUBSET BuiltInRole]
    /\ owed \in [Thread -> SUBSET BuiltInRole]
    /\ changedAt \in [BuiltInRole -> Nat]
    /\ answeredAt \in [Thread -> Nat]

\* Another process may have disabled roles before; the caches start empty.
Init ==
    /\ disabled \in SUBSET BuiltInRole
    /\ clock = 0
    /\ disabledCache = [s \in Service |-> {}]
    /\ disabledCacheAt = [s \in Service |-> ZeroTime]
    /\ writer = [s \in Service |-> Free]
    /\ pc = [t \in Thread |-> "idle"]
    /\ fetched = [t \in Thread |-> {}]
    /\ readAt = [t \in Thread |-> 0]
    /\ answer = [t \in Thread |-> {}]
    /\ failed = [t \in Thread |-> FALSE]
    /\ settled = [s \in Service |-> BuiltInRole]
    /\ owed = [t \in Thread |-> {}]
    /\ changedAt = [r \in BuiltInRole |-> 0]
    /\ answeredAt = [t \in Thread |-> 0]

\* Mutant of Fresh: a list as old as the TTL is still used.
FreshAtTTL(s) == clock - disabledCacheAt[s] <= TTL

Fresh(s) == clock - disabledCacheAt[s] < TTL

Goto(t, from, to) == pc[t] = from /\ pc' = [pc EXCEPT ![t] = to]

Acquire(t) ==
    /\ writer[ServiceOf[t]] = Free
    /\ writer' = [writer EXCEPT ![ServiceOf[t]] = t]

Release(t) == writer' = [writer EXCEPT ![ServiceOf[t]] = Free]

Answer(t, list, error) ==
    /\ answer' = [answer EXCEPT ![t] = list]
    /\ failed' = [failed EXCEPT ![t] = error]
    /\ answeredAt' = [answeredAt EXCEPT ![t] = clock]

-----------------------------------------------------------------------------
(* getDisabledBuiltInRoles *)

Call(t) ==
    /\ Goto(t, "idle", "check")
    /\ owed' = [owed EXCEPT ![t] = settled[ServiceOf[t]]]
    /\ UNCHANGED <<disabled, clock, cacheVars, callVars, settled, changedAt>>

\* The first look, under RLock.
CheckHit(t) ==
    /\ Fresh(ServiceOf[t])
    /\ writer[ServiceOf[t]] = Free
    /\ Goto(t, "check", "done")
    /\ Answer(t, disabledCache[ServiceOf[t]], FALSE)
    /\ UNCHANGED <<disabled, clock, cacheVars, fetched, readAt, settled, owed, changedAt>>

CheckMiss(t) ==
    /\ ~ Fresh(ServiceOf[t])
    /\ writer[ServiceOf[t]] = Free
    /\ Goto(t, "check", "lock")
    /\ UNCHANGED <<disabled, clock, cacheVars, callVars, settled, owed, changedAt>>

\* The second look, under Lock: somebody may have filled the cache meanwhile.
RecheckHit(t) ==
    /\ Fresh(ServiceOf[t])
    /\ writer[ServiceOf[t]] = Free
    /\ Goto(t, "lock", "done")
    /\ Answer(t, disabledCache[ServiceOf[t]], FALSE)
    /\ UNCHANGED <<disabled, clock, cacheVars, fetched, readAt, settled, owed, changedAt>>

\* Mutant of RecheckMiss: the lock is not kept for the store call.
RecheckMissUnlocked(t) ==
    /\ ~ Fresh(ServiceOf[t])
    /\ writer[ServiceOf[t]] = Free
    /\ Goto(t, "lock", "fetch")
    /\ UNCHANGED <<disabled, clock, cacheVars, callVars, settled, owed, changedAt>>

RecheckMiss(t) ==
    /\ ~ Fresh(ServiceOf[t])
    /\ Acquire(t)
    /\ Goto(t, "lock", "fetch")
    /\ UNCHANGED <<disabled, clock, disabledCache, disabledCacheAt, callVars,
                   settled, owed, changedAt>>

\* The store reads its list while the thread holds Lock.
Fetch(t) ==
    /\ Goto(t, "fetch", "fill")
    /\ fetched' = [fetched EXCEPT ![t] = disabled]
    /\ readAt' = [readAt EXCEPT ![t] = clock]
    /\ UNCHANGED <<disabled, clock, cacheVars, answer, failed, answeredAt,
                   settled, owed, changedAt>>

\* Mutant of FetchError: the error path forgets to unlock.
FetchErrorLocked(t) ==
    /\ Goto(t, "fetch", "done")
    /\ Answer(t, {}, TRUE)
    /\ UNCHANGED <<disabled, clock, cacheVars, fetched, readAt, settled, owed, changedAt>>

\* The error leaves the cache alone; expandRolesCached and the other callers go
\* on as if no role were disabled.
FetchError(t) ==
    /\ Goto(t, "fetch", "done")
    /\ Release(t)
    /\ Answer(t, {}, TRUE)
    /\ UNCHANGED <<disabled, clock, disabledCache, disabledCacheAt, fetched, readAt,
                   settled, owed, changedAt>>

\* The age counts from here, not from the store's read.
Fill(t) ==
    /\ Goto(t, "fill", "done")
    /\ disabledCache' = [disabledCache EXCEPT ![ServiceOf[t]] = fetched[t]]
    /\ disabledCacheAt' = [disabledCacheAt EXCEPT ![ServiceOf[t]] = clock]
    /\ Release(t)
    /\ Answer(t, fetched[t], FALSE)
    /\ fetched' = [fetched EXCEPT ![t] = {}]
    /\ readAt' = [readAt EXCEPT ![t] = 0]
    /\ UNCHANGED <<disabled, clock, settled, owed, changedAt>>

\* The locals of the call are gone.
Return(t) ==
    /\ Goto(t, "done", "idle")
    /\ answer' = [answer EXCEPT ![t] = {}]
    /\ failed' = [failed EXCEPT ![t] = FALSE]
    /\ answeredAt' = [answeredAt EXCEPT ![t] = 0]
    /\ owed' = [owed EXCEPT ![t] = {}]
    /\ UNCHANGED <<disabled, clock, cacheVars, fetched, readAt, settled, changedAt>>

-----------------------------------------------------------------------------
(* DisableBuiltInRole and EnableBuiltInRole: the store first, then the      *)
(* cache.  A store error returns before either.                             *)

Toggle(t, role, list) ==
    /\ Goto(t, "idle", "invalidate")
    /\ disabled' = list
    /\ changedAt' = [changedAt EXCEPT ![role] = clock]
    /\ settled' = [s \in Service |-> settled[s] \ {role}]
    /\ owed' = [u \in Thread |-> owed[u] \ {role}]
    /\ UNCHANGED <<clock, cacheVars, callVars>>

DisableBuiltInRole(t, role) == Toggle(t, role, disabled \cup {role})

EnableBuiltInRole(t, role) == Toggle(t, role, disabled \ {role})

\* Mutant of InvalidateDisabledCache: it does not wait for the lock.
InvalidateUnlocked(t) ==
    /\ Goto(t, "invalidate", "idle")
    /\ disabledCacheAt' = [disabledCacheAt EXCEPT ![ServiceOf[t]] = ZeroTime]
    /\ settled' = [settled EXCEPT ![ServiceOf[t]] = BuiltInRole]
    /\ UNCHANGED <<disabled, clock, disabledCache, writer, callVars, owed, changedAt>>

\* Mutant of InvalidateDisabledCache: the time is set back past the TTL.
InvalidateByAge(t) ==
    /\ writer[ServiceOf[t]] = Free
    /\ Goto(t, "invalidate", "idle")
    /\ disabledCacheAt' = [disabledCacheAt EXCEPT ![ServiceOf[t]] = clock - TTL - 1]
    /\ settled' = [settled EXCEPT ![ServiceOf[t]] = BuiltInRole]
    /\ UNCHANGED <<disabled, clock, disabledCache, writer, callVars, owed, changedAt>>

InvalidateDisabledCache(t) ==
    /\ writer[ServiceOf[t]] = Free
    /\ Goto(t, "invalidate", "idle")
    /\ disabledCacheAt' = [disabledCacheAt EXCEPT ![ServiceOf[t]] = ZeroTime]
    /\ settled' = [settled EXCEPT ![ServiceOf[t]] = BuiltInRole]
    /\ UNCHANGED <<disabled, clock, disabledCache, writer, callVars, owed, changedAt>>

\* Time passes, but no refill takes longer than Latency.
Tick ==
    /\ clock < MaxClock
    /\ \A t \in Thread : pc[t] = "fill" => clock < readAt[t] + Latency
    /\ clock' = clock + 1
    /\ UNCHANGED <<disabled, cacheVars, pc, callVars, settled, owed, changedAt>>

Waiting(t) ==
    CheckHit(t) \/ CheckMiss(t) \/ RecheckHit(t) \/ RecheckMiss(t) \/ InvalidateDisabledCache(t)

Working(t) == Fetch(t) \/ FetchError(t) \/ Fill(t) \/ Return(t)

Next ==
    \/ \E t \in Thread : Call(t) \/ Waiting(t) \/ Working(t)
    \/ \E t \in Thread, role \in BuiltInRole :
         DisableBuiltInRole(t, role) \/ EnableBuiltInRole(t, role)
    \/ Tick

\* A thread that is not waiting for the lock goes on, the store's answer
\* included; one that waits gets the lock if it is free again and again
\* (sync.Mutex hands over to a starving waiter).
Fairness == \A t \in Thread : WF_vars(Working(t)) /\ SF_vars(Waiting(t))

Spec == Init /\ [][Next]_vars /\ Fairness

-----------------------------------------------------------------------------
(* A refill that is under way when a role is toggled cannot put the old     *)
(* list back: once DisableBuiltInRole or EnableBuiltInRole has returned,    *)
(* every later call on that Service sees every mark that nobody has written *)
(* since the call that returned.                                            *)
SeesOwnToggles ==
    \A t \in Thread : pc[t] = "done" /\ ~ failed[t] =>
        \A r \in owed[t] : r \in answer[t] <=> r \in disabled

(* On every Service, whoever toggled the role: a mark is obeyed once it is  *)
(* older than the TTL and the time a refill may take.  The TTL alone is not *)
(* enough, because the age counts from the end of the store call.           *)
ObeysOldMarks ==
    \A t \in Thread : pc[t] = "done" /\ ~ failed[t] =>
        \A r \in BuiltInRole :
            changedAt[r] + TTL + Latency <= answeredAt[t] =>
                (r \in answer[t] <=> r \in disabled)

(* Lock is held from the second look to the refill or the error: at most    *)
(* one thread of a Service asks the store.                                  *)
OneRefillPerService ==
    \A t, u \in Thread :
        /\ pc[t] \in {"fetch", "fill"} /\ pc[u] \in {"fetch", "fill"}
        /\ ServiceOf[t] = ServiceOf[u]
        => t = u

(* Every evaluation and every toggle returns: no thread waits for ever for  *)
(* a lock that another holds across its store call.                         *)
EveryCallReturns ==
    \A t \in Thread : pc[t] # "idle" ~> pc[t] = "idle"
=============================================================================
