----------------------- MODULE DisabledRoleCacheProofs -----------------------
(***************************************************************************)
(* The cache of disabled roles, for any Services, threads, TTL and         *)
(* latency.                                                                *)
(***************************************************************************)
EXTENDS DisabledRoleCache, TLAPS

(* Every step of every thread keeps the store, the caches and the threads'   *)
(* locals within their types.                                               *)
THEOREM CacheTypeCorrect == Spec => []DisabledRoleCacheTypeOK
<1>1. Init => DisabledRoleCacheTypeOK
  BY ServiceAssumption, TimeAssumption DEF Init, DisabledRoleCacheTypeOK, ZeroTime, Label
<1>2. DisabledRoleCacheTypeOK /\ [Next]_vars => DisabledRoleCacheTypeOK'
  <2> SUFFICES ASSUME DisabledRoleCacheTypeOK, [Next]_vars
               PROVE  DisabledRoleCacheTypeOK'
    OBVIOUS
  <2>1. ASSUME NEW t \in Thread, Call(t)
        PROVE  DisabledRoleCacheTypeOK'
    BY <2>1, ServiceAssumption DEF Call, Goto, Label, cacheVars, callVars,
       DisabledRoleCacheTypeOK
  <2>2. ASSUME NEW t \in Thread, CheckHit(t)
        PROVE  DisabledRoleCacheTypeOK'
    BY <2>2, ServiceAssumption DEF CheckHit, Goto, Answer, Label, cacheVars,
       DisabledRoleCacheTypeOK
  <2>3. ASSUME NEW t \in Thread, CheckMiss(t)
        PROVE  DisabledRoleCacheTypeOK'
    BY <2>3, ServiceAssumption DEF CheckMiss, Goto, Label, cacheVars, callVars,
       DisabledRoleCacheTypeOK
  <2>4. ASSUME NEW t \in Thread, RecheckHit(t)
        PROVE  DisabledRoleCacheTypeOK'
    BY <2>4, ServiceAssumption DEF RecheckHit, Goto, Answer, Label, cacheVars,
       DisabledRoleCacheTypeOK
  <2>5. ASSUME NEW t \in Thread, RecheckMiss(t)
        PROVE  DisabledRoleCacheTypeOK'
    BY <2>5, ServiceAssumption DEF RecheckMiss, Goto, Acquire, Label, callVars,
       DisabledRoleCacheTypeOK
  <2>6. ASSUME NEW t \in Thread, Fetch(t)
        PROVE  DisabledRoleCacheTypeOK'
    BY <2>6, ServiceAssumption DEF Fetch, Goto, Label, cacheVars, DisabledRoleCacheTypeOK
  <2>7. ASSUME NEW t \in Thread, FetchError(t)
        PROVE  DisabledRoleCacheTypeOK'
    BY <2>7, ServiceAssumption DEF FetchError, Goto, Release, Answer, Label,
       DisabledRoleCacheTypeOK
  <2>8. ASSUME NEW t \in Thread, Fill(t)
        PROVE  DisabledRoleCacheTypeOK'
    BY <2>8, ServiceAssumption DEF Fill, Goto, Release, Answer, Label,
       DisabledRoleCacheTypeOK
  <2>9. ASSUME NEW t \in Thread, Return(t)
        PROVE  DisabledRoleCacheTypeOK'
    BY <2>9, ServiceAssumption DEF Return, Goto, Label, cacheVars, DisabledRoleCacheTypeOK
  <2>10. ASSUME NEW t \in Thread, InvalidateDisabledCache(t)
        PROVE  DisabledRoleCacheTypeOK'
    BY <2>10, ServiceAssumption DEF InvalidateDisabledCache, Goto, Label, callVars,
       DisabledRoleCacheTypeOK
  <2>11. ASSUME NEW t \in Thread, NEW role \in BuiltInRole, NEW list,
               list \in {disabled \cup {role}, disabled \ {role}}, Toggle(t, role, list)
        PROVE  DisabledRoleCacheTypeOK'
    BY <2>11, ServiceAssumption DEF Toggle, Goto, Label, cacheVars, callVars,
       DisabledRoleCacheTypeOK
  <2>12. ASSUME Tick
        PROVE  DisabledRoleCacheTypeOK'
    BY <2>12, ServiceAssumption DEF Tick, Label, cacheVars, callVars,
       DisabledRoleCacheTypeOK
  <2>13. CASE UNCHANGED vars
    BY <2>13 DEF vars, cacheVars, callVars, DisabledRoleCacheTypeOK
  <2>. QED
    BY <2>1, <2>2, <2>3, <2>4, <2>5, <2>6, <2>7, <2>8, <2>9, <2>10, <2>11, <2>12, <2>13 DEF
       Next, Waiting, Working, DisableBuiltInRole, EnableBuiltInRole
<1>. QED
  BY <1>1, <1>2, PTL DEF Spec

(* Whoever asks the store or is about to refill holds the lock.             *)
LockInv == \A t \in Thread : pc[t] \in {"fetch", "fill"} => writer[ServiceOf[t]] = t

(* The lock is held from the second look to the refill or the error, on     *)
(* every path.                                                              *)
THEOREM CacheLockHeld == Spec => []LockInv
<1>1. Init => LockInv
  BY DEF Init, LockInv
<1>2. DisabledRoleCacheTypeOK /\ LockInv /\ [Next]_vars => LockInv'
  <2> SUFFICES ASSUME DisabledRoleCacheTypeOK, LockInv, [Next]_vars
               PROVE  LockInv'
    OBVIOUS
  <2>1. ASSUME NEW t \in Thread, Call(t)
        PROVE  LockInv'
    BY <2>1, ServiceAssumption, FreeAssumption DEF Call, Goto, cacheVars, callVars,
       DisabledRoleCacheTypeOK, LockInv
  <2>2. ASSUME NEW t \in Thread, CheckHit(t)
        PROVE  LockInv'
    BY <2>2, ServiceAssumption, FreeAssumption DEF CheckHit, Goto, cacheVars,
       DisabledRoleCacheTypeOK, LockInv
  <2>3. ASSUME NEW t \in Thread, CheckMiss(t)
        PROVE  LockInv'
    BY <2>3, ServiceAssumption, FreeAssumption DEF CheckMiss, Goto, cacheVars, callVars,
       DisabledRoleCacheTypeOK, LockInv
  <2>4. ASSUME NEW t \in Thread, RecheckHit(t)
        PROVE  LockInv'
    BY <2>4, ServiceAssumption, FreeAssumption DEF RecheckHit, Goto, cacheVars,
       DisabledRoleCacheTypeOK, LockInv
  <2>5. ASSUME NEW t \in Thread, RecheckMiss(t)
        PROVE  LockInv'
    BY <2>5, ServiceAssumption, FreeAssumption DEF RecheckMiss, Goto, Acquire, callVars,
       DisabledRoleCacheTypeOK, LockInv
  <2>6. ASSUME NEW t \in Thread, Fetch(t)
        PROVE  LockInv'
    BY <2>6, ServiceAssumption, FreeAssumption DEF Fetch, Goto, cacheVars,
       DisabledRoleCacheTypeOK, LockInv
  <2>7. ASSUME NEW t \in Thread, FetchError(t)
        PROVE  LockInv'
    BY <2>7, ServiceAssumption, FreeAssumption DEF FetchError, Goto, Release,
       DisabledRoleCacheTypeOK, LockInv
  <2>8. ASSUME NEW t \in Thread, Fill(t)
        PROVE  LockInv'
    BY <2>8, ServiceAssumption, FreeAssumption DEF Fill, Goto, Release,
       DisabledRoleCacheTypeOK, LockInv
  <2>9. ASSUME NEW t \in Thread, Return(t)
        PROVE  LockInv'
    BY <2>9, ServiceAssumption, FreeAssumption DEF Return, Goto, cacheVars,
       DisabledRoleCacheTypeOK, LockInv
  <2>10. ASSUME NEW t \in Thread, InvalidateDisabledCache(t)
        PROVE  LockInv'
    BY <2>10, ServiceAssumption, FreeAssumption DEF InvalidateDisabledCache, Goto,
       callVars, DisabledRoleCacheTypeOK, LockInv
  <2>11. ASSUME NEW t \in Thread, NEW role \in BuiltInRole, NEW list,
               list \in {disabled \cup {role}, disabled \ {role}}, Toggle(t, role, list)
        PROVE  LockInv'
    BY <2>11, ServiceAssumption, FreeAssumption DEF Toggle, Goto, cacheVars, callVars,
       DisabledRoleCacheTypeOK, LockInv
  <2>12. ASSUME Tick
        PROVE  LockInv'
    BY <2>12, ServiceAssumption, FreeAssumption DEF Tick, cacheVars, callVars,
       DisabledRoleCacheTypeOK, LockInv
  <2>13. CASE UNCHANGED vars
    BY <2>13 DEF vars, cacheVars, LockInv
  <2>. QED
    BY <2>1, <2>2, <2>3, <2>4, <2>5, <2>6, <2>7, <2>8, <2>9, <2>10, <2>11, <2>12, <2>13 DEF
       Next, Waiting, Working, DisableBuiltInRole, EnableBuiltInRole
<1>. QED
  BY <1>1, <1>2, CacheTypeCorrect, PTL DEF Spec

(* At most one thread of a Service asks the store at a time.                *)
THEOREM CacheOneRefill == Spec => []OneRefillPerService
<1>1. LockInv => OneRefillPerService
  BY DEF LockInv, OneRefillPerService
<1>. QED
  BY <1>1, CacheLockHeld, PTL

-----------------------------------------------------------------------------
(* The list a Service holds, or is about to put into its cache, is right on *)
(* the roles that are settled for it; a call is owed nothing else.          *)
CacheRight ==
    \A s \in Service : disabledCacheAt[s] # ZeroTime =>
        \A r \in settled[s] : r \in disabledCache[s] <=> r \in disabled

FillRight ==
    \A t \in Thread : pc[t] = "fill" =>
        \A r \in settled[ServiceOf[t]] : r \in fetched[t] <=> r \in disabled

OwedSettled == \A t \in Thread : owed[t] \subseteq settled[ServiceOf[t]]

ToggleInv == CacheRight /\ FillRight /\ OwedSettled /\ SeesOwnToggles

(* A cache that was never filled, or was invalidated, is not fresh.         *)
LEMMA FreshIsFilled ==
    ASSUME DisabledRoleCacheTypeOK, NEW s \in Service, Fresh(s)
    PROVE  disabledCacheAt[s] # ZeroTime
BY TimeAssumption DEF DisabledRoleCacheTypeOK, Fresh, ZeroTime

(* A refill under way cannot outlive an invalidation of its Service, because *)
(* both need the lock: that is what keeps the cache right.                   *)
THEOREM CacheToggleInv == Spec => []ToggleInv
<1>1. Init => ToggleInv
  BY DEF Init, ToggleInv, CacheRight, FillRight, OwedSettled, SeesOwnToggles
<1>2. DisabledRoleCacheTypeOK /\ LockInv /\ ToggleInv /\ [Next]_vars => ToggleInv'
  <2> SUFFICES ASSUME DisabledRoleCacheTypeOK, LockInv, ToggleInv, [Next]_vars
               PROVE  ToggleInv'
    OBVIOUS
  <2>1. ASSUME NEW t \in Thread, Call(t)
        PROVE  ToggleInv'
    BY <2>1, ServiceAssumption, FreeAssumption, FreshIsFilled DEF Call, Goto, cacheVars,
       callVars, DisabledRoleCacheTypeOK, LockInv, ToggleInv, CacheRight, FillRight,
       OwedSettled, SeesOwnToggles
  <2>2. ASSUME NEW t \in Thread, CheckHit(t)
        PROVE  ToggleInv'
    BY <2>2, ServiceAssumption, FreeAssumption, FreshIsFilled DEF CheckHit, Goto, Answer,
       cacheVars, DisabledRoleCacheTypeOK, LockInv, ToggleInv, CacheRight, FillRight,
       OwedSettled, SeesOwnToggles
  <2>3. ASSUME NEW t \in Thread, CheckMiss(t)
        PROVE  ToggleInv'
    BY <2>3, ServiceAssumption, FreeAssumption, FreshIsFilled DEF CheckMiss, Goto,
       cacheVars, callVars, DisabledRoleCacheTypeOK, LockInv, ToggleInv, CacheRight,
       FillRight, OwedSettled, SeesOwnToggles
  <2>4. ASSUME NEW t \in Thread, RecheckHit(t)
        PROVE  ToggleInv'
    BY <2>4, ServiceAssumption, FreeAssumption, FreshIsFilled DEF RecheckHit, Goto, Answer,
       cacheVars, DisabledRoleCacheTypeOK, LockInv, ToggleInv, CacheRight, FillRight,
       OwedSettled, SeesOwnToggles
  <2>5. ASSUME NEW t \in Thread, RecheckMiss(t)
        PROVE  ToggleInv'
    BY <2>5, ServiceAssumption, FreeAssumption, FreshIsFilled DEF RecheckMiss, Goto,
       Acquire, callVars, DisabledRoleCacheTypeOK, LockInv, ToggleInv, CacheRight,
       FillRight, OwedSettled, SeesOwnToggles
  <2>6. ASSUME NEW t \in Thread, Fetch(t)
        PROVE  ToggleInv'
    BY <2>6, ServiceAssumption, FreeAssumption, FreshIsFilled DEF Fetch, Goto, cacheVars,
       DisabledRoleCacheTypeOK, LockInv, ToggleInv, CacheRight, FillRight, OwedSettled,
       SeesOwnToggles
  <2>7. ASSUME NEW t \in Thread, FetchError(t)
        PROVE  ToggleInv'
    BY <2>7, ServiceAssumption, FreeAssumption, FreshIsFilled DEF FetchError, Goto,
       Release, Answer, DisabledRoleCacheTypeOK, LockInv, ToggleInv, CacheRight, FillRight,
       OwedSettled, SeesOwnToggles
  <2>8. ASSUME NEW t \in Thread, Fill(t)
        PROVE  ToggleInv'
    BY <2>8, ServiceAssumption, FreeAssumption, FreshIsFilled DEF Fill, Goto, Release,
       Answer, DisabledRoleCacheTypeOK, LockInv, ToggleInv, CacheRight, FillRight,
       OwedSettled, SeesOwnToggles
  <2>9. ASSUME NEW t \in Thread, Return(t)
        PROVE  ToggleInv'
    BY <2>9, ServiceAssumption, FreeAssumption, FreshIsFilled DEF Return, Goto, cacheVars,
       DisabledRoleCacheTypeOK, LockInv, ToggleInv, CacheRight, FillRight, OwedSettled,
       SeesOwnToggles
  <2>10. ASSUME NEW t \in Thread, InvalidateDisabledCache(t)
        PROVE  ToggleInv'
    BY <2>10, ServiceAssumption, FreeAssumption, FreshIsFilled DEF InvalidateDisabledCache,
       Goto, callVars, DisabledRoleCacheTypeOK, LockInv, ToggleInv, CacheRight, FillRight,
       OwedSettled, SeesOwnToggles
  <2>11. ASSUME NEW t \in Thread, NEW role \in BuiltInRole, NEW list,
               list \in {disabled \cup {role}, disabled \ {role}}, Toggle(t, role, list)
        PROVE  ToggleInv'
    BY <2>11, ServiceAssumption, FreeAssumption, FreshIsFilled DEF Toggle, Goto, cacheVars,
       callVars, DisabledRoleCacheTypeOK, LockInv, ToggleInv, CacheRight, FillRight,
       OwedSettled, SeesOwnToggles
  <2>12. ASSUME Tick
        PROVE  ToggleInv'
    BY <2>12, ServiceAssumption, FreeAssumption, FreshIsFilled DEF Tick, cacheVars,
       callVars, DisabledRoleCacheTypeOK, LockInv, ToggleInv, CacheRight, FillRight,
       OwedSettled, SeesOwnToggles
  <2>13. CASE UNCHANGED vars
    BY <2>13 DEF vars, cacheVars, callVars, ToggleInv, CacheRight, FillRight, OwedSettled,
       SeesOwnToggles
  <2>. QED
    BY <2>1, <2>2, <2>3, <2>4, <2>5, <2>6, <2>7, <2>8, <2>9, <2>10, <2>11, <2>12, <2>13 DEF
       Next, Waiting, Working, DisableBuiltInRole, EnableBuiltInRole
<1>. QED
  BY <1>1, <1>2, CacheTypeCorrect, CacheLockHeld, PTL DEF Spec

(* Once a toggle has returned, every later call on that Service sees it.    *)
THEOREM CacheSeesOwnToggles == Spec => []SeesOwnToggles
<1>1. ToggleInv => SeesOwnToggles
  BY DEF ToggleInv
<1>. QED
  BY <1>1, CacheToggleInv, PTL

-----------------------------------------------------------------------------
(* What is in a cache or on its way into it is right about every mark that  *)
(* is older than the store's read; no time stamp lies in the future.        *)
StampsPast ==
    /\ \A s \in Service : disabledCacheAt[s] <= clock
    /\ \A t \in Thread : readAt[t] <= clock /\ answeredAt[t] <= clock

FillAge ==
    \A t \in Thread : pc[t] = "fill" =>
        /\ clock <= readAt[t] + Latency
        /\ \A r \in BuiltInRole :
             changedAt[r] < readAt[t] => (r \in fetched[t] <=> r \in disabled)

CacheAge ==
    \A s \in Service : disabledCacheAt[s] # ZeroTime =>
        \A r \in BuiltInRole : changedAt[r] + Latency < disabledCacheAt[s] =>
            (r \in disabledCache[s] <=> r \in disabled)

(* A list still fresh enough to be answered with is right on old marks.      *)
LEMMA FreshObeysOldMarks ==
    ASSUME DisabledRoleCacheTypeOK, CacheAge, NEW s \in Service, Fresh(s),
           NEW r \in BuiltInRole, changedAt[r] + TTL + Latency <= clock
    PROVE  r \in disabledCache[s] <=> r \in disabled
<1>1. disabledCacheAt[s] # ZeroTime
  BY FreshIsFilled
<1>2. changedAt[r] + Latency < disabledCacheAt[s]
  BY <1>1, TimeAssumption DEF DisabledRoleCacheTypeOK, Fresh
<1>. QED
  BY <1>1, <1>2 DEF CacheAge

AgeInv == StampsPast /\ FillAge /\ CacheAge /\ ObeysOldMarks

(* However late a refill comes after the store's read, up to the latency,    *)
(* and whichever Service toggles.                                           *)
THEOREM CacheAgeInv == Spec => []AgeInv
<1>1. Init => AgeInv
  BY TimeAssumption DEF Init, AgeInv, StampsPast, FillAge, CacheAge, ObeysOldMarks, ZeroTime
<1>2. DisabledRoleCacheTypeOK /\ AgeInv /\ [Next]_vars => AgeInv'
  <2> SUFFICES ASSUME DisabledRoleCacheTypeOK, AgeInv, [Next]_vars
               PROVE  AgeInv'
    OBVIOUS
  <2>1. ASSUME NEW t \in Thread, Call(t)
        PROVE  AgeInv'
    BY <2>1, ServiceAssumption, TimeAssumption, FreshIsFilled DEF Call, Goto, Fresh,
       ZeroTime, cacheVars, callVars, DisabledRoleCacheTypeOK, AgeInv, StampsPast, FillAge,
       CacheAge, ObeysOldMarks
  <2>2. ASSUME NEW t \in Thread, CheckHit(t)
        PROVE  AgeInv'
    <3>1. \A r \in BuiltInRole : changedAt[r] + TTL + Latency <= clock =>
            (r \in disabledCache[ServiceOf[t]] <=> r \in disabled)
      BY <2>2, ServiceAssumption, FreshObeysOldMarks DEF CheckHit, AgeInv
    <3>2. StampsPast' /\ FillAge' /\ CacheAge'
      BY <2>2 DEF CheckHit, Goto, Answer, cacheVars, DisabledRoleCacheTypeOK, AgeInv,
         StampsPast, FillAge, CacheAge
    <3>3. ObeysOldMarks'
      BY <2>2, <3>1 DEF CheckHit, Goto, Answer, cacheVars, DisabledRoleCacheTypeOK, AgeInv,
         ObeysOldMarks
    <3>. QED
      BY <3>2, <3>3 DEF AgeInv
  <2>3. ASSUME NEW t \in Thread, CheckMiss(t)
        PROVE  AgeInv'
    BY <2>3, ServiceAssumption, TimeAssumption, FreshIsFilled DEF CheckMiss, Goto, Fresh,
       ZeroTime, cacheVars, callVars, DisabledRoleCacheTypeOK, AgeInv, StampsPast, FillAge,
       CacheAge, ObeysOldMarks
  <2>4. ASSUME NEW t \in Thread, RecheckHit(t)
        PROVE  AgeInv'
    <3>1. \A r \in BuiltInRole : changedAt[r] + TTL + Latency <= clock =>
            (r \in disabledCache[ServiceOf[t]] <=> r \in disabled)
      BY <2>4, ServiceAssumption, FreshObeysOldMarks DEF RecheckHit, AgeInv
    <3>2. StampsPast' /\ FillAge' /\ CacheAge'
      BY <2>4 DEF RecheckHit, Goto, Answer, cacheVars, DisabledRoleCacheTypeOK, AgeInv,
         StampsPast, FillAge, CacheAge
    <3>3. ObeysOldMarks'
      BY <2>4, <3>1 DEF RecheckHit, Goto, Answer, cacheVars, DisabledRoleCacheTypeOK,
         AgeInv, ObeysOldMarks
    <3>. QED
      BY <3>2, <3>3 DEF AgeInv
  <2>5. ASSUME NEW t \in Thread, RecheckMiss(t)
        PROVE  AgeInv'
    BY <2>5, ServiceAssumption, TimeAssumption, FreshIsFilled DEF RecheckMiss, Goto,
       Acquire, Fresh, ZeroTime, callVars, DisabledRoleCacheTypeOK, AgeInv, StampsPast,
       FillAge, CacheAge, ObeysOldMarks
  <2>6. ASSUME NEW t \in Thread, Fetch(t)
        PROVE  AgeInv'
    BY <2>6, ServiceAssumption, TimeAssumption, FreshIsFilled DEF Fetch, Goto, Fresh,
       ZeroTime, cacheVars, DisabledRoleCacheTypeOK, AgeInv, StampsPast, FillAge, CacheAge,
       ObeysOldMarks
  <2>7. ASSUME NEW t \in Thread, FetchError(t)
        PROVE  AgeInv'
    BY <2>7, ServiceAssumption, TimeAssumption, FreshIsFilled DEF FetchError, Goto,
       Release, Answer, Fresh, ZeroTime, DisabledRoleCacheTypeOK, AgeInv, StampsPast,
       FillAge, CacheAge, ObeysOldMarks
  <2>8. ASSUME NEW t \in Thread, Fill(t)
        PROVE  AgeInv'
    BY <2>8, ServiceAssumption, TimeAssumption, FreshIsFilled DEF Fill, Goto, Release,
       Answer, Fresh, ZeroTime, DisabledRoleCacheTypeOK, AgeInv, StampsPast, FillAge,
       CacheAge, ObeysOldMarks
  <2>9. ASSUME NEW t \in Thread, Return(t)
        PROVE  AgeInv'
    BY <2>9, ServiceAssumption, TimeAssumption, FreshIsFilled DEF Return, Goto, Fresh,
       ZeroTime, cacheVars, DisabledRoleCacheTypeOK, AgeInv, StampsPast, FillAge, CacheAge,
       ObeysOldMarks
  <2>10. ASSUME NEW t \in Thread, InvalidateDisabledCache(t)
        PROVE  AgeInv'
    BY <2>10, ServiceAssumption, TimeAssumption, FreshIsFilled DEF InvalidateDisabledCache,
       Goto, Fresh, ZeroTime, callVars, DisabledRoleCacheTypeOK, AgeInv, StampsPast,
       FillAge, CacheAge, ObeysOldMarks
  <2>11. ASSUME NEW t \in Thread, NEW role \in BuiltInRole, NEW list,
               list \in {disabled \cup {role}, disabled \ {role}}, Toggle(t, role, list)
        PROVE  AgeInv'
    BY <2>11, ServiceAssumption, TimeAssumption, FreshIsFilled DEF Toggle, Goto, Fresh,
       ZeroTime, cacheVars, callVars, DisabledRoleCacheTypeOK, AgeInv, StampsPast, FillAge,
       CacheAge, ObeysOldMarks
  <2>12. ASSUME Tick
        PROVE  AgeInv'
    BY <2>12, ServiceAssumption, TimeAssumption, FreshIsFilled DEF Tick, Fresh, ZeroTime,
       cacheVars, callVars, DisabledRoleCacheTypeOK, AgeInv, StampsPast, FillAge, CacheAge,
       ObeysOldMarks
  <2>13. CASE UNCHANGED vars
    BY <2>13 DEF vars, cacheVars, callVars, AgeInv, StampsPast, FillAge, CacheAge,
       ObeysOldMarks
  <2>. QED
    BY <2>1, <2>2, <2>3, <2>4, <2>5, <2>6, <2>7, <2>8, <2>9, <2>10, <2>11, <2>12, <2>13 DEF
       Next, Waiting, Working, DisableBuiltInRole, EnableBuiltInRole
<1>. QED
  BY <1>1, <1>2, CacheTypeCorrect, PTL DEF Spec

(* A mark older than the TTL and the latency is obeyed by every Service.    *)
THEOREM CacheObeysOldMarks == Spec => []ObeysOldMarks
<1>1. AgeInv => ObeysOldMarks
  BY DEF AgeInv
<1>. QED
  BY <1>1, CacheAgeInv, PTL
==============================================================================
