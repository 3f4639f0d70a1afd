-------------------------- MODULE CachedStoreProofs --------------------------
(***************************************************************************)
(* The caching store, for any keys, answers, threads, TTL and latency.     *)
(***************************************************************************)
EXTENDS CachedStore, TLAPS

(* A call under way has a key, and its answer once it has been read.        *)
FlowInv ==
    \A t \in Thread :
        /\ pc[t] \in {"get", "base", "set", "done"} => key[t] \in Key
        /\ pc[t] = "set" => got[t] \in Value
        /\ pc[t] = "done" => answer[t] \in Value

TypeInv == CachedStoreTypeOK /\ FlowInv

LEMMA TypeInvariant == Spec => []TypeInv
<1>1. Init => TypeInv
  BY DEF Init, TypeInv, CachedStoreTypeOK, FlowInv
<1>2. TypeInv /\ [Next]_vars => TypeInv'
  <2> SUFFICES ASSUME TypeInv, [Next]_vars
               PROVE  TypeInv'
    OBVIOUS
  <2>1. ASSUME NEW t \in Thread, NEW k \in Key, Read(t, k)
        PROVE  TypeInv'
    BY <2>1 DEF Read, Goto, callVars, TypeInv, CachedStoreTypeOK, FlowInv
  <2>2. ASSUME NEW t \in Thread, Hit(t)
        PROVE  TypeInv'
    BY <2>2, NoneAssumption DEF Hit, Goto, Answer, Live, Entry, TypeInv,
       CachedStoreTypeOK, FlowInv
  <2>3. ASSUME NEW t \in Thread, Miss(t)
        PROVE  TypeInv'
    BY <2>3 DEF Miss, Goto, Live, callVars, TypeInv, CachedStoreTypeOK, FlowInv
  <2>4. ASSUME NEW t \in Thread, ReadBase(t)
        PROVE  TypeInv'
    BY <2>4 DEF ReadBase, Goto, TypeInv, CachedStoreTypeOK, FlowInv
  <2>5. ASSUME NEW t \in Thread, ReadBaseFails(t)
        PROVE  TypeInv'
    BY <2>5 DEF ReadBaseFails, Goto, callVars, TypeInv, CachedStoreTypeOK, FlowInv
  <2>6. ASSUME NEW t \in Thread, SetWithTTL(t)
        PROVE  TypeInv'
    BY <2>6, TimeAssumption DEF SetWithTTL, Goto, Answer, Entry, TypeInv,
       CachedStoreTypeOK, FlowInv
  <2>7. ASSUME NEW t \in Thread, Return(t)
        PROVE  TypeInv'
    BY <2>7 DEF Return, Goto, TypeInv, CachedStoreTypeOK, FlowInv
  <2>8. ASSUME NEW b \in [Key -> Value], Change(b), UNCHANGED <<cache, clock, key, callVars>>,
               pc' = pc \/ \E t \in Thread : Goto(t, "idle", "flush")
        PROVE  TypeInv'
    BY <2>8 DEF Change, Goto, callVars, TypeInv, CachedStoreTypeOK, FlowInv
  <2>9. ASSUME NEW t \in Thread, Flush(t)
        PROVE  TypeInv'
    BY <2>9 DEF Flush, Goto, Unread, callVars, TypeInv, CachedStoreTypeOK, FlowInv
  <2>10. ASSUME InvalidateAll
        PROVE  TypeInv'
    BY <2>10 DEF InvalidateAll, Unread, callVars, TypeInv, CachedStoreTypeOK, FlowInv
  <2>11. ASSUME Tick
        PROVE  TypeInv'
    BY <2>11 DEF Tick, callVars, TypeInv, CachedStoreTypeOK, FlowInv
  <2>12. CASE UNCHANGED vars
    BY <2>12 DEF vars, callVars, TypeInv, CachedStoreTypeOK, FlowInv
  <2>. QED
    BY <2>1, <2>2, <2>3, <2>4, <2>5, <2>6, <2>7, <2>8, <2>9, <2>10, <2>11, <2>12 DEF Next,
       Write, WriteBehind, Goto
<1>. QED
  BY <1>1, <1>2, PTL DEF Spec

(* The cache, the calls and the clock stay within their types.              *)
THEOREM CachedStoreTypeCorrect == Spec => []CachedStoreTypeOK
  BY TypeInvariant, PTL DEF TypeInv

-----------------------------------------------------------------------------
(* Nothing in the cache, or on its way there, differs from the base store.  *)
Current(k) ==
    /\ cache[k] # None => cache[k].value = base[k]
    /\ \A t \in Thread : pc[t] = "set" /\ key[t] = k => got[t] = base[k]

SettledInv ==
    /\ \A k \in settled : Current(k)
    /\ \A t \in Thread : owed[t] /\ pc[t] \in {"get", "base", "set", "done"} =>
         Current(key[t]) /\ (pc[t] = "done" => answer[t] = base[key[t]])

(* The keys of settled are current, and what is current stays so until the  *)
(* base store is written: a flush empties the cache but not the hands of a  *)
(* reader, which is why it settles only the keys no reader holds.           *)
THEOREM CachedStoreSettled == Spec => []SettledInv
<1>1. Init => SettledInv
  BY DEF Init, SettledInv, Current
<1>2. TypeInv /\ SettledInv /\ [Next]_vars => SettledInv'
  <2> SUFFICES ASSUME TypeInv, SettledInv, [Next]_vars
               PROVE  SettledInv'
    OBVIOUS
  <2>1. ASSUME NEW t \in Thread, NEW k \in Key, Read(t, k)
        PROVE  SettledInv'
    <3>1. /\ base' = base /\ cache' = cache /\ got' = got /\ answer' = answer
          /\ settled' = settled /\ pc[t] = "idle"
          /\ pc' = [pc EXCEPT ![t] = "get"] /\ key' = [key EXCEPT ![t] = k]
          /\ owed' = [owed EXCEPT ![t] = k \in settled]
      BY <2>1 DEF Read, Goto, callVars
    <3>2. /\ pc'[t] = "get" /\ key'[t] = k /\ owed'[t] = (k \in settled)
          /\ \A s \in Thread \ {t} : pc'[s] = pc[s] /\ key'[s] = key[s] /\ owed'[s] = owed[s]
      BY <3>1 DEF TypeInv, CachedStoreTypeOK
    <3>3. \A j \in Key : Current(j) => Current(j)'
      BY <3>1, <3>2 DEF Current
    <3>4. \A j \in settled' : Current(j)'
      BY <3>1, <3>3 DEF SettledInv, TypeInv, CachedStoreTypeOK
    <3>5. ASSUME NEW s \in Thread, owed'[s], pc'[s] \in {"get", "base", "set", "done"}
          PROVE  Current(key[s])' /\ (pc'[s] = "done" => answer'[s] = base'[key'[s]])
      <4>1. CASE s = t
        BY <4>1, <3>1, <3>2, <3>4, <3>5
      <4>2. CASE s # t
        <5>1. Current(key[s]) /\ (pc[s] = "done" => answer[s] = base[key[s]])
          BY <4>2, <3>2, <3>5 DEF SettledInv
        <5>2. key[s] \in Key /\ key'[s] = key[s] /\ pc'[s] = pc[s]
          BY <4>2, <3>2, <3>5 DEF TypeInv, FlowInv
        <5>. QED
          BY <5>1, <5>2, <3>1, <3>3
      <4>. QED
        BY <4>1, <4>2
    <3>. QED
      BY <3>4, <3>5 DEF SettledInv
  <2>2. ASSUME NEW t \in Thread, Hit(t)
        PROVE  SettledInv'
    BY <2>2, NoneAssumption DEF Hit, Goto, Answer, Live, TypeInv, CachedStoreTypeOK,
       FlowInv, SettledInv, Current
  <2>3. ASSUME NEW t \in Thread, Miss(t)
        PROVE  SettledInv'
    BY <2>3 DEF Miss, Goto, Live, callVars, TypeInv, CachedStoreTypeOK, FlowInv,
       SettledInv, Current
  <2>4. ASSUME NEW t \in Thread, ReadBase(t)
        PROVE  SettledInv'
    BY <2>4 DEF ReadBase, Goto, TypeInv, CachedStoreTypeOK, FlowInv, SettledInv, Current
  <2>5. ASSUME NEW t \in Thread, ReadBaseFails(t)
        PROVE  SettledInv'
    BY <2>5 DEF ReadBaseFails, Goto, callVars, TypeInv, CachedStoreTypeOK, FlowInv,
       SettledInv, Current
  <2>6. ASSUME NEW t \in Thread, SetWithTTL(t)
        PROVE  SettledInv'
    BY <2>6, NoneAssumption DEF SetWithTTL, Goto, Answer, TypeInv, CachedStoreTypeOK,
       FlowInv, SettledInv, Current
  <2>7. ASSUME NEW t \in Thread, Return(t)
        PROVE  SettledInv'
    BY <2>7 DEF Return, Goto, TypeInv, CachedStoreTypeOK, FlowInv, SettledInv, Current
  <2>8. ASSUME NEW b \in [Key -> Value], Change(b), UNCHANGED <<cache, clock, key, callVars>>,
               pc' = pc \/ \E t \in Thread : Goto(t, "idle", "flush")
        PROVE  SettledInv'
    <3>. DEFINE changed == {k \in Key : b[k] # base[k]}
    <3>1. \A k \in Key \ changed : base'[k] = base[k]
      BY <2>8 DEF Change
    <3>2. /\ cache' = cache /\ key' = key /\ got' = got /\ answer' = answer
          /\ settled' = settled \ changed
          /\ owed' = [t \in Thread |-> owed[t] /\ key[t] \notin changed]
      BY <2>8 DEF Change, callVars
    <3>3. \A t \in Thread : pc'[t] = pc[t] \/ pc'[t] = "flush"
      BY <2>8 DEF Goto, TypeInv, CachedStoreTypeOK
    <3>4. ASSUME NEW k \in Key \ changed, Current(k)
          PROVE  Current(k)'
      BY <3>1, <3>2, <3>3, <3>4 DEF Current
    <3>5. \A k \in settled' : Current(k)'
      BY <3>2, <3>4 DEF SettledInv, TypeInv, CachedStoreTypeOK
    <3>6. ASSUME NEW t \in Thread, owed'[t], pc'[t] \in {"get", "base", "set", "done"}
          PROVE  Current(key[t])' /\ (pc'[t] = "done" => answer'[t] = base'[key[t]])
      <4>1. owed[t] /\ key[t] \in Key \ changed /\ pc'[t] = pc[t]
        BY <3>2, <3>3, <3>6 DEF TypeInv, CachedStoreTypeOK, FlowInv
      <4>2. Current(key[t]) /\ (pc[t] = "done" => answer[t] = base[key[t]])
        BY <4>1, <3>6 DEF SettledInv
      <4>. QED
        BY <4>1, <4>2, <3>1, <3>2, <3>4
    <3>. QED
      BY <3>2, <3>5, <3>6 DEF SettledInv
  <2>9. ASSUME NEW t \in Thread, Flush(t)
        PROVE  SettledInv'
    BY <2>9 DEF Flush, Goto, Unread, callVars, TypeInv, CachedStoreTypeOK, FlowInv,
       SettledInv, Current
  <2>10. ASSUME InvalidateAll
        PROVE  SettledInv'
    BY <2>10 DEF InvalidateAll, Unread, callVars, TypeInv, CachedStoreTypeOK, FlowInv,
       SettledInv, Current
  <2>11. ASSUME Tick
        PROVE  SettledInv'
    BY <2>11 DEF Tick, callVars, TypeInv, CachedStoreTypeOK, FlowInv, SettledInv, Current
  <2>12. CASE UNCHANGED vars
    BY <2>12 DEF vars, callVars, TypeInv, CachedStoreTypeOK, FlowInv, SettledInv, Current
  <2>. QED
    BY <2>1, <2>2, <2>3, <2>4, <2>5, <2>6, <2>7, <2>8, <2>9, <2>10, <2>11, <2>12 DEF Next,
       Write, WriteBehind, Goto
<1>. QED
  BY <1>1, <1>2, TypeInvariant, PTL DEF Spec

(* A write that has returned is seen by every later call unless a read of   *)
(* the same key was between the base store and the cache at its flush.      *)
THEOREM CachedStoreSeesFlushedWrites == Spec => []SeesFlushedWrites
<1>1. SettledInv => SeesFlushedWrites
  BY DEF SettledInv, SeesFlushedWrites
<1>. QED
  BY <1>1, CachedStoreSettled, PTL

-----------------------------------------------------------------------------
(* v is what the base store answers for k, or did until some time from time *)
(* on.                                                                      *)
TrueSince(k, v, time) == v = base[k] \/ time <= lastTrue[k][v]

AgeInv ==
    /\ \A k \in Key : cache[k] # None =>
         /\ cache[k].expires <= clock + TTL
         /\ TrueSince(k, cache[k].value, cache[k].expires - TTL - Latency)
    /\ \A t \in Thread :
         /\ pc[t] = "set" =>
              /\ readAt[t] <= clock /\ clock <= readAt[t] + Latency
              /\ TrueSince(key[t], got[t], readAt[t])
         /\ pc[t] = "done" =>
              /\ answeredAt[t] <= clock
              /\ TrueSince(key[t], answer[t], answeredAt[t] - TTL - Latency)

(* How old the knowledge in the cache, in a reader's hands and in an answer *)
(* can be.                                                                  *)
THEOREM CachedStoreAge == Spec => []AgeInv
<1>1. Init => AgeInv
  BY DEF Init, AgeInv
<1>2. TypeInv /\ AgeInv /\ [Next]_vars => AgeInv'
  <2> SUFFICES ASSUME TypeInv, AgeInv, [Next]_vars
               PROVE  AgeInv'
    OBVIOUS
  <2>1. ASSUME NEW t \in Thread, NEW k \in Key, Read(t, k)
        PROVE  AgeInv'
    BY <2>1, TimeAssumption DEF Read, Goto, callVars, Entry, TypeInv, CachedStoreTypeOK,
       FlowInv, AgeInv, TrueSince
  <2>2. ASSUME NEW t \in Thread, Hit(t)
        PROVE  AgeInv'
    BY <2>2, TimeAssumption, NoneAssumption DEF Hit, Goto, Answer, Live, Entry, TypeInv,
       CachedStoreTypeOK, FlowInv, AgeInv, TrueSince
  <2>3. ASSUME NEW t \in Thread, Miss(t)
        PROVE  AgeInv'
    BY <2>3, TimeAssumption DEF Miss, Goto, Live, callVars, Entry, TypeInv,
       CachedStoreTypeOK, FlowInv, AgeInv, TrueSince
  <2>4. ASSUME NEW t \in Thread, ReadBase(t)
        PROVE  AgeInv'
    BY <2>4, TimeAssumption DEF ReadBase, Goto, Entry, TypeInv, CachedStoreTypeOK,
       FlowInv, AgeInv, TrueSince
  <2>5. ASSUME NEW t \in Thread, ReadBaseFails(t)
        PROVE  AgeInv'
    BY <2>5, TimeAssumption DEF ReadBaseFails, Goto, callVars, Entry, TypeInv,
       CachedStoreTypeOK, FlowInv, AgeInv, TrueSince
  <2>6. ASSUME NEW t \in Thread, SetWithTTL(t)
        PROVE  AgeInv'
    BY <2>6, TimeAssumption, NoneAssumption DEF SetWithTTL, Goto, Answer, Entry, TypeInv,
       CachedStoreTypeOK, FlowInv, AgeInv, TrueSince
  <2>7. ASSUME NEW t \in Thread, Return(t)
        PROVE  AgeInv'
    BY <2>7, TimeAssumption DEF Return, Goto, Entry, TypeInv, CachedStoreTypeOK, FlowInv,
       AgeInv, TrueSince
  <2>8. ASSUME NEW b \in [Key -> Value], Change(b), UNCHANGED <<cache, clock, key, callVars>>,
               pc' = pc \/ \E t \in Thread : Goto(t, "idle", "flush")
        PROVE  AgeInv'
    BY <2>8, TimeAssumption DEF Change, Goto, callVars, Entry, TypeInv, CachedStoreTypeOK,
       FlowInv, AgeInv, TrueSince
  <2>9. ASSUME NEW t \in Thread, Flush(t)
        PROVE  AgeInv'
    BY <2>9, TimeAssumption DEF Flush, Goto, Unread, callVars, TypeInv, CachedStoreTypeOK,
       FlowInv, AgeInv, TrueSince
  <2>10. ASSUME InvalidateAll
        PROVE  AgeInv'
    BY <2>10, TimeAssumption DEF InvalidateAll, Unread, callVars, Entry, TypeInv,
       CachedStoreTypeOK, FlowInv, AgeInv, TrueSince
  <2>11. ASSUME Tick
        PROVE  AgeInv'
    BY <2>11, TimeAssumption DEF Tick, callVars, Entry, TypeInv, CachedStoreTypeOK,
       FlowInv, AgeInv, TrueSince
  <2>12. CASE UNCHANGED vars
    BY <2>12 DEF vars, callVars, Entry, TypeInv, CachedStoreTypeOK, FlowInv, AgeInv,
       TrueSince
  <2>. QED
    BY <2>1, <2>2, <2>3, <2>4, <2>5, <2>6, <2>7, <2>8, <2>9, <2>10, <2>11, <2>12 DEF Next,
       Write, WriteBehind, Goto
<1>. QED
  BY <1>1, <1>2, TypeInvariant, PTL DEF Spec

(* No answer is older than the lifetime of an entry and the time a read may *)
(* take.                                                                    *)
THEOREM CachedStoreBoundedStaleness == Spec => []BoundedStaleness
<1>1. TypeInv /\ AgeInv => BoundedStaleness
  BY TimeAssumption DEF TypeInv, CachedStoreTypeOK, FlowInv, AgeInv, TrueSince, BoundedStaleness
<1>. QED
  BY <1>1, TypeInvariant, CachedStoreAge, PTL
=============================================================================
