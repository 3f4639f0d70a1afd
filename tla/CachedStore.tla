----------------------------- MODULE CachedStore -----------------------------
(***************************************************************************)
(* cachedstore/store.go: a permission store in front of another one.  The  *)
(* nine cached reads keep their answers, each under a key made of the      *)
(* method and its arguments, for TTL; every write goes to the base store   *)
(* and then flushes the whole cache.  The cache locks itself for each Get, *)
(* Set and Flush; nothing is held from one to the next, nor across a call  *)
(* of the base store.                                                      *)
(*                                                                         *)
(* A key's answer is an element of Value; what a write changes is which    *)
(* answers the base store would now give.                                  *)
(***************************************************************************)
EXTENDS Integers

CONSTANTS Key, Value, Thread,
          None,         \* no entry, no key, no value
          TTL,          \* lifetime of an entry, in ticks
          Latency,      \* longest time from the base store's answer to the Set
          MaxClock      \* bound on the clock

ASSUME NoneAssumption == None \notin Key \cup Value
ASSUME TimeAssumption == TTL \in Nat \ {0} /\ Latency \in Nat /\ MaxClock \in Nat

VARIABLES
    base,         \* base[k]: what the base store answers
    cache,        \* cache[k]: None, or the value kept and when it expires
    clock,
    pc, key, got, readAt,   \* per thread: the call, the answer read and when
    answer, answeredAt      \* per thread: what the call returns, and since when

\* History: until when the base store gave an answer it no longer gives; the keys
\* nobody wrote since the last flush, if no answer was on its way then; whether a
\* call is about one of these.
VARIABLES lastTrue, settled, owed

callVars == <<got, readAt, answer, answeredAt>>
vars == <<base, cache, clock, pc, key, callVars, lastTrue, settled, owed>>

Entry == [value : Value, expires : Nat]

CachedStoreTypeOK ==
    /\ base \in [Key -> Value]
    /\ cache \in [Key -> Entry \cup {None}]
    /\ clock \in Nat
    /\ pc \in [Thread -> {"idle", "get", "base", "set", "done", "flush"}]
    /\ key \in [Thread -> Key \cup {None}]
    /\ got \in [Thread -> Value \cup {None}]
    /\ readAt \in [Thread -> Nat]
    /\ answer \in [Thread -> Value \cup {None}]
    /\ answeredAt \in [Thread -> Nat]
    /\ lastTrue \in [Key -> [Value -> Nat]]
    /\ settled \subseteq Key
    /\ owed \in [Thread -> BOOLEAN]

Init ==
    /\ base \in [Key -> Value]
    /\ cache = [k \in Key |-> None]
    /\ clock = 0
    /\ pc = [t \in Thread |-> "idle"]
    /\ key = [t \in Thread |-> None]
    /\ got = [t \in Thread |-> None]
    /\ readAt = [t \in Thread |-> 0]
    /\ answer = [t \in Thread |-> None]
    /\ answeredAt = [t \in Thread |-> 0]
    /\ lastTrue = [k \in Key |-> [v \in Value |-> 0]]
    /\ settled = Key
    /\ owed = [t \in Thread |-> FALSE]

Goto(t, from, to) == pc[t] = from /\ pc' = [pc EXCEPT ![t] = to]

Answer(t, value) ==
    /\ answer' = [answer EXCEPT ![t] = value]
    /\ answeredAt' = [answeredAt EXCEPT ![t] = clock]

\* Get finds an entry until its expiry has passed.
Live(k) == cache[k] # None /\ clock <= cache[k].expires

-----------------------------------------------------------------------------
(* A read: RoleDefinitions, RoleDefinition, RoleAssignmentsForPrincipal,    *)
(* RoleAssignmentsForRoleID, GrantsForPrincipal, ExpandRoles,               *)
(* GrantsForOwners, PrincipalsWithGrant and ListGrants are alike.           *)

Read(t, k) ==
    /\ Goto(t, "idle", "get")
    /\ key' = [key EXCEPT ![t] = k]
    /\ owed' = [owed EXCEPT ![t] = k \in settled]
    /\ UNCHANGED <<base, cache, clock, callVars, lastTrue, settled>>

\* Mutant of Hit: a hit prolongs the entry.
HitRenews(t) ==
    /\ Goto(t, "get", "done")
    /\ Live(key[t])
    /\ Answer(t, cache[key[t]].value)
    /\ cache' = [cache EXCEPT ![key[t]].expires = clock + TTL]
    /\ UNCHANGED <<base, clock, key, got, readAt, lastTrue, settled, owed>>

Hit(t) ==
    /\ Goto(t, "get", "done")
    /\ Live(key[t])
    /\ Answer(t, cache[key[t]].value)
    /\ UNCHANGED <<base, cache, clock, key, got, readAt, lastTrue, settled, owed>>

Miss(t) ==
    /\ Goto(t, "get", "base")
    /\ ~ Live(key[t])
    /\ UNCHANGED <<base, cache, clock, key, callVars, lastTrue, settled, owed>>

ReadBase(t) ==
    /\ Goto(t, "base", "set")
    /\ got' = [got EXCEPT ![t] = base[key[t]]]
    /\ readAt' = [readAt EXCEPT ![t] = clock]
    /\ UNCHANGED <<base, cache, clock, key, answer, answeredAt, lastTrue, settled, owed>>

\* An error is returned and not kept.
ReadBaseFails(t) ==
    /\ Goto(t, "base", "idle")
    /\ key' = [key EXCEPT ![t] = None]
    /\ owed' = [owed EXCEPT ![t] = FALSE]
    /\ UNCHANGED <<base, cache, clock, callVars, lastTrue, settled>>

\* Mutant of SetWithTTL: the entry never expires (go-cache's NoExpiration).
SetForever(t) ==
    /\ Goto(t, "set", "done")
    /\ cache' = [cache EXCEPT ![key[t]] = [value |-> got[t], expires |-> -1]]
    /\ Answer(t, got[t])
    /\ got' = [got EXCEPT ![t] = None]
    /\ readAt' = [readAt EXCEPT ![t] = 0]
    /\ UNCHANGED <<base, clock, key, lastTrue, settled, owed>>

SetWithTTL(t) ==
    /\ Goto(t, "set", "done")
    /\ cache' = [cache EXCEPT ![key[t]] = [value |-> got[t], expires |-> clock + TTL]]
    /\ Answer(t, got[t])
    /\ got' = [got EXCEPT ![t] = None]
    /\ readAt' = [readAt EXCEPT ![t] = 0]
    /\ UNCHANGED <<base, clock, key, lastTrue, settled, owed>>

\* The locals of the call are gone.
Return(t) ==
    /\ Goto(t, "done", "idle")
    /\ key' = [key EXCEPT ![t] = None]
    /\ answer' = [answer EXCEPT ![t] = None]
    /\ answeredAt' = [answeredAt EXCEPT ![t] = 0]
    /\ owed' = [owed EXCEPT ![t] = FALSE]
    /\ UNCHANGED <<base, cache, clock, got, readAt, lastTrue, settled>>

-----------------------------------------------------------------------------
(* A write: the base store, then the cache *)

\* The base store now answers b.
Change(b) ==
    LET changed == {k \in Key : b[k] # base[k]}
    IN  /\ changed # {}
        /\ base' = b
        /\ lastTrue' = [k \in Key |->
                          IF k \in changed THEN [lastTrue[k] EXCEPT ![base[k]] = clock]
                          ELSE lastTrue[k]]
        /\ settled' = settled \ changed
        /\ owed' = [t \in Thread |-> owed[t] /\ key[t] \notin changed]

\* CreateGrant, AssignRole, ..., EnableBuiltInRole
Write(t, b) ==
    /\ Goto(t, "idle", "flush")
    /\ Change(b)
    /\ UNCHANGED <<cache, clock, key, callVars>>

\* Another process writes to the base store, or the base store applies a write
\* and reports an error, on which the cache is left as it is.
WriteBehind(b) ==
    /\ Change(b)
    /\ UNCHANGED <<cache, clock, pc, key, callVars>>

\* The keys for which no answer read before is still to be put into the cache.
Unread == {k \in Key : \A t \in Thread : pc[t] = "set" => key[t] # k}

\* Mutant of Flush: only what has expired is dropped (go-cache's DeleteExpired).
FlushExpired(t) ==
    /\ Goto(t, "flush", "idle")
    /\ cache' = [k \in Key |-> IF Live(k) THEN cache[k] ELSE None]
    /\ settled' = Unread
    /\ UNCHANGED <<base, clock, key, callVars, lastTrue, owed>>

\* InvalidateAll, after a write
Flush(t) ==
    /\ Goto(t, "flush", "idle")
    /\ cache' = [k \in Key |-> None]
    /\ settled' = Unread
    /\ UNCHANGED <<base, clock, key, callVars, lastTrue, owed>>

\* InvalidateAll, called from outside
InvalidateAll ==
    /\ cache' = [k \in Key |-> None]
    /\ settled' = Unread
    /\ UNCHANGED <<base, clock, pc, key, callVars, lastTrue, owed>>

\* Time passes, but no answer takes longer than Latency to reach the cache.
Tick ==
    /\ clock < MaxClock
    /\ \A t \in Thread : pc[t] = "set" => clock < readAt[t] + Latency
    /\ clock' = clock + 1
    /\ UNCHANGED <<base, cache, pc, key, callVars, lastTrue, settled, owed>>

Next ==
    \/ \E t \in Thread, k \in Key : Read(t, k)
    \/ \E t \in Thread :
         \/ Hit(t) \/ Miss(t) \/ ReadBase(t) \/ ReadBaseFails(t) \/ SetWithTTL(t)
         \/ Return(t) \/ Flush(t)
    \/ \E b \in [Key -> Value] : WriteBehind(b) \/ \E t \in Thread : Write(t, b)
    \/ InvalidateAll
    \/ Tick

Spec == Init /\ [][Next]_vars

-----------------------------------------------------------------------------
(* No answer is older than the lifetime of an entry and the time a read may *)
(* take, whoever wrote and whether or not the cache was flushed: what a     *)
(* call returns is what the base store answered at most that long ago.      *)
BoundedStaleness ==
    \A t \in Thread : pc[t] = "done" =>
        \/ answer[t] = base[key[t]]
        \/ answeredAt[t] <= lastTrue[key[t]][answer[t]] + TTL + Latency

(* A write that has returned is seen by every later call, unless a read of  *)
(* the same key was between the base store and the cache when the cache was *)
(* flushed.                                                                 *)
SeesFlushedWrites ==
    \A t \in Thread : pc[t] = "done" /\ owed[t] => answer[t] = base[key[t]]
=============================================================================
