------------------------- MODULE MemoryCache_proofs -------------------------
(***************************************************************************)
(* Proofs about MemoryCache, for every set of calls, keys and TTLs and any *)
(* length of the clock: types, what a hit means, and that an eviction that *)
(* comes late never removes an entry of a key used without TTLs.           *)
(***************************************************************************)
EXTENDS MemoryCache, TLAPS

(* The entry e was stored under key k by one of the operations after the   *)
(* first n - 1, and was not deleted.                                       *)
StoredSince(e, k, n) ==
  e # None /\ \E i \in 1 .. Len(log[k]) : i >= n /\ log[k][i] = e

(* What the map holds was stored last; what a Get holds on to was stored   *)
(* under its key and current when Get was called or later, and a Get that  *)
(* evicts read an entry with a TTL.                                        *)
CallInv(c) ==
  /\ since[c] <= Len(log[key[c]])
  /\ pc[c] \in {"check", "evict"} => StoredSince(entry[c], key[c], since[c])
  /\ pc[c] = "evict" => entry[c].expiresAt # NoTTL
  /\ pc[c] \in {"idle", "store", "read", "check"} => ~result[c].hit

LastStored(k) ==
  items[k] # None => log[k] # <<>> /\ items[k] = log[k][Len(log[k])]

IInv ==
  /\ TypeOK
  /\ \A k \in Keys : LastStored(k)
  /\ \A c \in Calls : CallInv(c)
  /\ HitIsCurrent
  /\ UntimedKeysKeep

-----------------------------------------------------------------------------
(* Nothing is stored and no Get has answered before the first step.        *)
LEMMA InitialInvariant == Init => IInv
<1> SUFFICES ASSUME Init PROVE IInv
  OBVIOUS
<1>1. TypeOK
  BY CacheAssumption DEF Init, TypeOK, Time, NothingYet
<1>2. (\A k \in Keys : LastStored(k)) /\ UntimedKeysKeep
  BY DEF Init, LastStored, UntimedKeysKeep
<1>3. (\A c \in Calls : CallInv(c)) /\ HitIsCurrent
  BY DEF Init, CallInv, HitIsCurrent, NothingYet
<1> QED
  BY <1>1, <1>2, <1>3 DEF IInv

(* Appending to the log of a key keeps what is known of every entry in it. *)
LEMMA AppendKeeps ==
  ASSUME TypeOK, NEW k \in Keys, NEW x \in Entry \cup {None},
         log' = [log EXCEPT ![k] = Append(@, x)]
  PROVE  /\ \A j \in Keys : Len(log'[j]) >= Len(log[j]) /\ Len(log'[j]) \in Nat
         /\ \A j \in Keys, i \in Nat : i \in 1 .. Len(log[j]) => log'[j][i] = log[j][i]
         /\ Len(log'[k]) = Len(log[k]) + 1 /\ log'[k][Len(log'[k])] = x
         /\ \A j \in Keys \ {k} : log'[j] = log[j]
         /\ log' \in [Keys -> Seq(Entry \cup {None})]
  BY DEF TypeOK

(* Operations that store under one key: Set and Delete.                    *)
LEMMA StoreStep ==
  ASSUME IInv, NEW c \in Calls, NEW x \in Entry \cup {None},
         items' = [items EXCEPT ![key[c]] = x],
         log' = [log EXCEPT ![key[c]] = Append(@, x)],
         pc' = [pc EXCEPT ![c] = "done"],
         pc[c] \in {"idle", "store"},
         UNCHANGED <<now, key, entry, result, since>>
  PROVE  IInv'
<1>1. key[c] \in Keys /\ TypeOK
  BY DEF IInv, TypeOK
<1>2. /\ \A j \in Keys : Len(log'[j]) >= Len(log[j]) /\ Len(log'[j]) \in Nat
      /\ \A j \in Keys, i \in Nat : i \in 1 .. Len(log[j]) => log'[j][i] = log[j][i]
      /\ Len(log'[key[c]]) = Len(log[key[c]]) + 1 /\ log'[key[c]][Len(log'[key[c]])] = x
      /\ \A j \in Keys \ {key[c]} : log'[j] = log[j]
      /\ log' \in [Keys -> Seq(Entry \cup {None})]
  BY <1>1, AppendKeeps
<1>3. TypeOK'
  BY <1>1, <1>2 DEF TypeOK
<1>4. ASSUME NEW k \in Keys PROVE LastStored(k)'
  <2>1. CASE k = key[c]
    <3>1. Len(log'[k]) # 0 /\ log'[k][Len(log'[k])] = x /\ items'[k] = x
      BY <1>1, <1>2, <2>1 DEF TypeOK
    <3> QED
      BY <3>1 DEF LastStored
  <2>2. CASE k # key[c]
    <3>1. items'[k] = items[k] /\ log'[k] = log[k]
      BY <1>1, <1>2, <2>2 DEF TypeOK
    <3> QED
      BY <3>1 DEF IInv, LastStored
  <2> QED
    BY <2>1, <2>2
<1>5. ASSUME NEW d \in Calls PROVE CallInv(d)'
  <2>1. CallInv(d) /\ key[d] \in Keys /\ since[d] \in Nat /\ Len(log[key[d]]) \in Nat
    BY DEF IInv, TypeOK
  <2> QED
    BY <1>1, <1>2, <2>1 DEF CallInv, StoredSince, TypeOK
<1>6. HitIsCurrent'
  <2> SUFFICES ASSUME NEW d \in Calls, result[d].hit
               PROVE  \E i \in 1 .. Len(log'[key[d]]) :
                        LET e == log'[key[d]][i]
                        IN /\ i >= since[d]
                           /\ e # None
                           /\ e.value = result[d].value
                           /\ e.expiresAt = NoTTL \/ result[d].at <= e.expiresAt
    BY DEF HitIsCurrent
  <2>1. PICK i \in 1 .. Len(log[key[d]]) :
          LET e == log[key[d]][i]
          IN /\ i >= since[d]
             /\ e # None
             /\ e.value = result[d].value
             /\ e.expiresAt = NoTTL \/ result[d].at <= e.expiresAt
    BY DEF IInv, HitIsCurrent
  <2>2. key[d] \in Keys /\ Len(log[key[d]]) \in Nat
    BY DEF IInv, TypeOK
  <2>3. i \in 1 .. Len(log'[key[d]]) /\ log'[key[d]][i] = log[key[d]][i]
    BY <1>2, <2>2
  <2> QED
    BY <2>1, <2>3
<1>7. UntimedKeysKeep'
  <2> SUFFICES ASSUME NEW k \in Keys, log'[k] # <<>>,
                      \A i \in 1 .. Len(log'[k]) : log'[k][i] # None => log'[k][i].expiresAt = NoTTL
               PROVE  items'[k] = log'[k][Len(log'[k])]
    BY DEF UntimedKeysKeep
  <2>1. CASE k = key[c]
    BY <1>1, <1>2, <2>1 DEF TypeOK
  <2>2. CASE k # key[c]
    BY <1>1, <1>2, <2>2 DEF IInv, TypeOK, UntimedKeysKeep
  <2> QED
    BY <2>1, <2>2
<1> QED
  BY <1>3, <1>4, <1>5, <1>6, <1>7 DEF IInv

(* The eviction removes an entry of a key that was used with a TTL.        *)
LEMMA EvictStep ==
  ASSUME IInv, NEW c \in Calls, GetEvict(c) PROVE IInv'
<1> USE DEF GetEvict
<1>1. TypeOK' /\ (\A k \in Keys : LastStored(k)')
  BY DEF IInv, TypeOK, LastStored
<1>2. (\A d \in Calls : CallInv(d)')
  BY DEF IInv, TypeOK, CallInv, StoredSince
<1>3. HitIsCurrent'
  BY DEF IInv, HitIsCurrent
<1>4. UntimedKeysKeep'
  <2> SUFFICES ASSUME NEW k \in Keys, log[k] # <<>>,
                      \A i \in 1 .. Len(log[k]) : log[k][i] # None => log[k][i].expiresAt = NoTTL
               PROVE  items'[k] = log[k][Len(log[k])]
    BY DEF UntimedKeysKeep
  <2>1. k # key[c]
    BY DEF IInv, CallInv, StoredSince
  <2> QED
    BY <2>1 DEF IInv, TypeOK, UntimedKeysKeep
<1> QED
  BY <1>1, <1>2, <1>3, <1>4 DEF IInv

(* Steps of a Set or a Get that leave the map as it is.                    *)
LEMMA QuietStep ==
  ASSUME IInv, NEW c \in Calls, SetBegin(c) \/ GetBegin(c) \/ GetRead(c) \/ GetCheck(c)
  PROVE  IInv'
<1>1. UNCHANGED <<items, now, key, log>>
  BY DEF SetBegin, GetBegin, GetRead, GetCheck
<1>2. (\A k \in Keys : LastStored(k)') /\ UntimedKeysKeep'
  BY <1>1 DEF IInv, LastStored, UntimedKeysKeep
<1>3. CASE SetBegin(c)
  <2>1. \A ttl \in TTLs \cup {NoTTL} : Deadline(ttl) \in Expiry
    BY CacheAssumption DEF Deadline, Expiry, IInv, TypeOK, Time
  <2>2. TypeOK'
    BY <1>3, <2>1 DEF SetBegin, IInv, TypeOK, Entry
  <2>3. \A d \in Calls : CallInv(d)'
    BY <1>3 DEF SetBegin, IInv, TypeOK, CallInv, StoredSince
  <2>4. HitIsCurrent'
    BY <1>3 DEF SetBegin, IInv, HitIsCurrent
  <2> QED
    BY <1>2, <2>2, <2>3, <2>4 DEF IInv
<1>4. CASE GetBegin(c)
  <2>1. Len(log[key[c]]) \in Nat
    BY DEF IInv, TypeOK
  <2>2. TypeOK'
    BY <1>4, <2>1 DEF GetBegin, IInv, TypeOK
  <2>3. \A d \in Calls : CallInv(d)'
    BY <1>4, <2>1 DEF GetBegin, IInv, TypeOK, CallInv, StoredSince
  <2>4. HitIsCurrent'
    BY <1>4 DEF GetBegin, IInv, TypeOK, CallInv, HitIsCurrent
  <2> QED
    BY <1>2, <2>2, <2>3, <2>4 DEF IInv
<1>5. CASE GetRead(c)
  <2>1. TypeOK'
    BY <1>5 DEF GetRead, IInv, TypeOK
  <2>2. ASSUME items[key[c]] # None
        PROVE  StoredSince(items[key[c]], key[c], since[c])
    <3>1. LastStored(key[c]) /\ Len(log[key[c]]) \in Nat \ {0} /\ since[c] <= Len(log[key[c]])
      BY <2>2 DEF IInv, TypeOK, CallInv, LastStored
    <3> QED
      BY <2>2, <3>1 DEF LastStored, StoredSince
  <2>3. \A d \in Calls : CallInv(d)'
    BY <1>5, <2>2 DEF GetRead, IInv, TypeOK, CallInv, StoredSince
  <2>4. HitIsCurrent'
    BY <1>5 DEF GetRead, IInv, HitIsCurrent
  <2> QED
    BY <1>2, <2>1, <2>3, <2>4 DEF IInv
<1>6. CASE GetCheck(c)
  <2>1. StoredSince(entry[c], key[c], since[c]) /\ entry[c] \in Entry
    BY <1>6 DEF GetCheck, IInv, CallInv, StoredSince, TypeOK
  <2>2. TypeOK'
    <3>1. entry[c].value \in Calls /\ now \in Time
      BY <2>1 DEF Entry, IInv, TypeOK
    <3> DEFINE hit == [hit |-> TRUE, value |-> entry[c].value, at |-> now]
               Outcome == [hit : BOOLEAN, value : Calls \cup {None}, at : Time]
    <3>2. hit \in Outcome
      BY <3>1
    <3>3. result' = result \/ result' = [result EXCEPT ![c] = hit]
      BY <1>6 DEF GetCheck
    <3>4. result' \in [Calls -> Outcome]
      <4> HIDE DEF hit, Outcome
      <4>1. result \in [Calls -> Outcome]
        BY DEF IInv, TypeOK, Outcome
      <4> QED
        BY <3>2, <3>3, <4>1
    <3> QED
      BY <1>6, <3>4 DEF GetCheck, IInv, TypeOK
  <2>3. \A d \in Calls : CallInv(d)'
    BY <1>6, <2>1 DEF GetCheck, IInv, TypeOK, CallInv, StoredSince, Expired
  <2>4. HitIsCurrent'
    <3> SUFFICES ASSUME NEW d \in Calls, result'[d].hit
                 PROVE  \E i \in 1 .. Len(log[key[d]]) :
                          LET e == log[key[d]][i]
                          IN /\ i >= since[d]
                             /\ e # None
                             /\ e.value = result'[d].value
                             /\ e.expiresAt = NoTTL \/ result'[d].at <= e.expiresAt
      BY <1>6 DEF GetCheck, HitIsCurrent
    <3>1. CASE result'[d] = result[d]
      BY <3>1 DEF IInv, HitIsCurrent
    <3>2. CASE d = c /\ ~Expired(entry[c], now) /\ result'[c] = [hit |-> TRUE, value |-> entry[c].value, at |-> now]
      <4>1. entry[c].expiresAt = NoTTL \/ now <= entry[c].expiresAt
        BY <2>1, <3>2 DEF Expired, Entry, Expiry, IInv, TypeOK, Time
      <4> QED
        BY <2>1, <3>2, <4>1 DEF StoredSince
    <3> QED
      BY <1>6, <3>1, <3>2 DEF GetCheck, IInv, TypeOK
  <2> QED
    BY <1>2, <2>2, <2>3, <2>4 DEF IInv
<1> QED
  BY <1>3, <1>4, <1>5, <1>6

-----------------------------------------------------------------------------
(* IInv is inductive.                                                      *)
THEOREM CacheInvariant == Spec => []IInv
<1>1. IInv /\ [Next]_vars => IInv'
  <2> SUFFICES ASSUME IInv, [Next]_vars PROVE IInv'
    OBVIOUS
  <2>1. CASE Tick
    <3>1. TypeOK'
      BY <2>1, CacheAssumption DEF Tick, IInv, TypeOK, Time
    <3> QED
      BY <2>1, <3>1 DEF Tick, IInv, LastStored, CallInv, StoredSince, HitIsCurrent, UntimedKeysKeep
  <2>2. ASSUME NEW c \in Calls, SetStore(c) PROVE IInv'
    BY <2>2, StoreStep DEF SetStore, IInv, TypeOK
  <2>3. ASSUME NEW c \in Calls, Delete(c) PROVE IInv'
    BY <2>3, StoreStep DEF Delete
  <2>4. CASE UNCHANGED vars
    BY <2>4 DEF vars, IInv, TypeOK, LastStored, CallInv, StoredSince, HitIsCurrent, UntimedKeysKeep
  <2> QED
    BY <2>1, <2>2, <2>3, <2>4, EvictStep, QuietStep DEF Next, Terminated
<1> QED
  BY InitialInvariant, <1>1, PTL DEF Spec

(* Every variable keeps its type.                                          *)
THEOREM TypeCorrect == Spec => []TypeOK
<1>1. IInv => TypeOK
  BY DEF IInv
<1> QED
  BY CacheInvariant, <1>1, PTL

(* A hit had not expired, and was not outdated when Get was called.        *)
THEOREM HitsAreCurrent == Spec => []HitIsCurrent
<1>1. IInv => HitIsCurrent
  BY DEF IInv
<1> QED
  BY CacheInvariant, <1>1, PTL

(* The gap between Get's two locks costs a key nothing as long as it is    *)
(* used without TTLs.                                                      *)
THEOREM UntimedEntriesStay == Spec => []UntimedKeysKeep
<1>1. IInv => UntimedKeysKeep
  BY DEF IInv
<1> QED
  BY CacheInvariant, <1>1, PTL
=============================================================================
