--------------------------- MODULE Services_proofs ---------------------------
(***************************************************************************)
(* Proofs about Services, for any number of callers, requests, items,      *)
(* users, nodes, points and measurements.  A step of the composition is a  *)
(* step or a stutter of each part, so what is proved of the lifecycle and  *)
(* of the secrets carries over; the token buckets, the time series, the    *)
(* graph, the vectors and the items are proved here.                       *)
(***************************************************************************)
EXTENDS Services, FiniteSetTheorems, SequenceTheorems, TLAPS

(* The parts once more, each with its theorems.                            *)
LP == INSTANCE ConnectorLifecycle_proofs WITH
  built <- lBuilt, app <- lApp, client <- lClient, ref <- lRef,
  once <- lOnce, caller <- lCaller, closer <- lCloser, health <- lHealth,
  closeResult <- lCloseResult, late <- lLate, broken <- lBroken,
  closes <- lCloses, Callers <- Goroutines
SP == INSTANCE SecretStore_proofs WITH
  secret <- sSecret, call <- sCall, deleted <- sDeleted, calls <- sCalls,
  Requests <- SecretRequests

(* A step of the composition moves at most the part in focus.              *)
LEMMA OneInFocus ==
  ASSUME [Next]_vars
  PROVE  /\ Lifecycle!Next \/ UNCHANGED connVars
         /\ Secrets!Next \/ UNCHANGED secretVars
         /\ Limiter!Next \/ UNCHANGED limitVars
         /\ Series!Next \/ UNCHANGED measVars
         /\ Store!Next \/ UNCHANGED itemVars
         /\ Graph!Next \/ UNCHANGED graphVars
         /\ Vectors!Next \/ UNCHANGED vectorVars
BY DEF Next, vars, GraphStep, ItemStep, LifecycleStep, SecretStep, SeriesStep, VectorStep,
       LimiterStep

-----------------------------------------------------------------------------
(* The connectors and their clients.                                       *)
LEMMA SameLifecycle ==
  /\ Lifecycle!LifecycleAssumption <=> LP!LifecycleAssumption
  /\ Lifecycle!Init <=> LP!Init
  /\ Lifecycle!Next <=> LP!Next
  /\ connVars' = connVars => UNCHANGED LP!vars
<1>1. Lifecycle!LifecycleAssumption <=> LP!LifecycleAssumption
  BY DEF LP!LifecycleAssumption, Lifecycle!LifecycleAssumption
<1>2. Lifecycle!Init <=> LP!Init
  BY DEF LP!Init, Lifecycle!Init, LP!Conn, Lifecycle!Conn
<1>3. Lifecycle!Next <=> LP!Next
  BY DEF
    Lifecycle!Next, Lifecycle!Conn, Lifecycle!Build, Lifecycle!Ping, Lifecycle!HealthDone,
    Lifecycle!CloseBegin, Lifecycle!CloseNext, Lifecycle!Begin, Lifecycle!Check,
    Lifecycle!Fetch, Lifecycle!Finish, Lifecycle!Create, Lifecycle!FirstTime,
    Lifecycle!ClosesOk, Lifecycle!ClosesBadly, Lifecycle!StartAt, Lifecycle!Following,
    Lifecycle!clientVars, Lifecycle!closeVars,
    LP!Next, LP!Conn, LP!Build, LP!Ping, LP!HealthDone,
    LP!CloseBegin, LP!CloseNext, LP!Begin, LP!Check,
    LP!Fetch, LP!Finish, LP!Create, LP!FirstTime,
    LP!ClosesOk, LP!ClosesBadly, LP!StartAt, LP!Following,
    LP!clientVars, LP!closeVars
<1>4. connVars' = connVars => UNCHANGED LP!vars
  BY DEF connVars, LP!vars, LP!clientVars, LP!closeVars
<1> QED
  BY <1>1, <1>2, <1>3, <1>4

LEMMA LifecycleRuns == Spec => LP!Spec
<1>1. Init => LP!Init
  BY SameLifecycle DEF Init
<1>2. [Next]_vars => [LP!Next]_(LP!vars)
  BY OneInFocus, SameLifecycle
<1> QED
  BY <1>1, <1>2, PTL DEF Spec, LP!Spec

(* connectors.go: a Close that returns nil has released every client that  *)
(* was not created since it began.                                         *)
THEOREM ServicesCloseReleases == Spec => []CloseReleases
<1>1. LP!LifecycleAssumption
  BY SameLifecycle, PartsAssumption
<1>2. LP!CloseReleases => CloseReleases
  BY DEF CloseReleases, LP!CloseReleases, Lifecycle!CloseReleases, LP!Closers,
         Lifecycle!Closers, LP!Conn, Lifecycle!Conn
<1> QED
  BY <1>1, <1>2, LP!CloseReleasesAll, LifecycleRuns, PTL

(* getClient: a call finds its client missing only after a Close that sets *)
(* the field to nil, after a failed creation, or in a connector that never *)
(* makes its lazy client (qdrant.go:35).                                   *)
THEOREM ServicesMissing == Spec => []MissingHasACause
<1>1. LP!LifecycleAssumption
  BY SameLifecycle, PartsAssumption
<1>2. LP!MissingHasACause => MissingHasACause
  BY DEF MissingHasACause, LP!MissingHasACause, Lifecycle!MissingHasACause,
         LP!NeverMade, Lifecycle!NeverMade, LP!Conn, Lifecycle!Conn
<1> QED
  BY <1>1, <1>2, LP!MissingIsExplained, LifecycleRuns, PTL

(* The sync.Once of a lazy client: what was closed is never opened again.  *)
THEOREM ServicesClosedForGood == Spec => ClosedStaysClosed
<1>1. LP!LifecycleAssumption
  BY SameLifecycle, PartsAssumption
<1>2. LP!ClosedStaysClosed => ClosedStaysClosed
  <2>1. [\A i \in LP!Conn : lClient[i] = "closed" => lClient'[i] = "closed"]_(LP!vars)
        => [\A i \in Lifecycle!Conn : lClient[i] = "closed" => lClient'[i] = "closed"]_(Lifecycle!vars)
    BY DEF LP!Conn, Lifecycle!Conn, LP!vars, LP!clientVars, LP!closeVars,
           Lifecycle!vars, Lifecycle!clientVars, Lifecycle!closeVars
  <2> QED
    BY <2>1, PTL DEF LP!ClosedStaysClosed, ClosedStaysClosed, Lifecycle!ClosedStaysClosed
<1> QED
  BY <1>1, <1>2, LP!ClosedForGood, LifecycleRuns, PTL

-----------------------------------------------------------------------------
(* The secrets.                                                            *)
LEMMA SameSecrets ==
  /\ Secrets!SecretAssumption <=> SP!SecretAssumption
  /\ Secrets!Init <=> SP!Init
  /\ Secrets!Next <=> SP!Next
  /\ secretVars' = secretVars => UNCHANGED SP!vars
<1>1. Secrets!SecretAssumption <=> SP!SecretAssumption
  BY DEF SP!SecretAssumption, Secrets!SecretAssumption
<1>2. Secrets!Init <=> SP!Init
  BY DEF SP!Init, Secrets!Init, SP!NoValue, Secrets!NoValue, SP!NoSecret, Secrets!NoSecret
<1>3. Secrets!Next <=> SP!Next
  BY DEF
    Secrets!Next, Secrets!Purge, Secrets!Begin, Secrets!Refuse, Secrets!Unavailable,
    Secrets!Return, Secrets!CreateSecret, Secrets!PutSecretValue, Secrets!DeleteSecret,
    Secrets!GetSecretValue, Secrets!Ends, Secrets!Changes, Secrets!OnConflict,
    Secrets!RefusedAtOnce, Secrets!FirstCall, Secrets!Encode, Secrets!Decode,
    Secrets!NoValue, Secrets!NoSecret,
    SP!Next, SP!Purge, SP!Begin, SP!Refuse, SP!Unavailable,
    SP!Return, SP!CreateSecret, SP!PutSecretValue, SP!DeleteSecret,
    SP!GetSecretValue, SP!Ends, SP!Changes, SP!OnConflict,
    SP!RefusedAtOnce, SP!FirstCall, SP!Encode, SP!Decode,
    SP!NoValue, SP!NoSecret
<1>4. secretVars' = secretVars => UNCHANGED SP!vars
  BY DEF secretVars, SP!vars
<1> QED
  BY <1>1, <1>2, <1>3, <1>4

LEMMA SecretsRun == Spec => SP!Spec
<1>1. Init => SP!Init
  BY SameSecrets DEF Init
<1>2. [Next]_vars => [SP!Next]_(SP!vars)
  BY OneInFocus, SameSecrets
<1> QED
  BY <1>1, <1>2, PTL DEF Spec, SP!Spec

(* secretmanager.go: Set is refused only because of a deletion or a nil.   *)
THEOREM ServicesSetRefused == Spec => []SetRefusedOnlyByDeletion
<1>1. SP!SecretAssumption
  BY SameSecrets, PartsAssumption
<1>2. SP!SetRefusedOnlyByDeletion => SetRefusedOnlyByDeletion
  BY DEF SetRefusedOnlyByDeletion, SP!SetRefusedOnlyByDeletion,
         Secrets!SetRefusedOnlyByDeletion, SP!RefusedAtOnce, Secrets!RefusedAtOnce
<1> QED
  BY <1>1, <1>2, SP!RefusalsAreDeletions, SecretsRun, PTL

(* The register of the instance is that of the part.                       *)
LEMMA SameRegister ==
  /\ SP!Register!Init => Secrets!Register!Init
  /\ SP!Register!Next => Secrets!Register!Next
  /\ UNCHANGED SP!Register!vars => UNCHANGED Secrets!Register!vars
<1>1. SP!stored = Secrets!stored /\ SP!doing = Secrets!doing
  BY DEF SP!stored, SP!doing, SP!Decode, SP!NoSecret, SP!NoValue,
         Secrets!stored, Secrets!doing, Secrets!Decode, Secrets!NoSecret, Secrets!NoValue
<1>2. SP!stored' = Secrets!stored' /\ SP!doing' = Secrets!doing'
  BY DEF SP!stored, SP!doing, SP!Decode, SP!NoSecret, SP!NoValue,
         Secrets!stored, Secrets!doing, Secrets!Decode, Secrets!NoSecret, Secrets!NoValue
<1>3. /\ \A v : SP!ReadBack(v) = Secrets!ReadBack(v)
      /\ SP!NoSecret = Secrets!NoSecret /\ SP!NoValue = Secrets!NoValue
  BY DEF SP!ReadBack, SP!NoSecret, SP!NoValue,
         Secrets!ReadBack, Secrets!NoSecret, Secrets!NoValue
<1>4. SP!Register!Init => Secrets!Register!Init
  BY <1>1, <1>3 DEF SP!Register!Init, Secrets!Register!Init
<1>5. SP!Register!Next => Secrets!Register!Next
  BY <1>1, <1>2, <1>3 DEF SP!Register!Next, SP!Register!Start, SP!Register!Succeed, SP!Register!Fail,
     SP!Register!Return, SP!Register!Effect, SP!Register!Ends,
     Secrets!Register!Next, Secrets!Register!Start, Secrets!Register!Succeed,
     Secrets!Register!Fail, Secrets!Register!Return, Secrets!Register!Effect,
     Secrets!Register!Ends
<1>6. UNCHANGED SP!Register!vars => UNCHANGED Secrets!Register!vars
  BY <1>1, <1>2 DEF SP!Register!vars, Secrets!Register!vars
<1> QED
  BY <1>4, <1>5, <1>6

(* Theorem: to concurrent callers the secret of secretmanager.go is a      *)
(* register, in the composition as by itself.                              *)
THEOREM ServicesSecretsAreARegister == Spec => Secrets!ImplementsContract
<1>1. SP!SecretAssumption
  BY SameSecrets, PartsAssumption
<1>2. [SP!Register!Next]_(SP!Register!vars) => [Secrets!Register!Next]_(Secrets!Register!vars)
  BY SameRegister
<1>3. SP!ImplementsContract => Secrets!ImplementsContract
  BY <1>2, SameRegister, PTL
  DEF SP!ImplementsContract, Secrets!ImplementsContract, SP!Register!Spec, Secrets!Register!Spec
<1> QED
  BY <1>1, <1>3, SP!SecretsAreARegister, SecretsRun, PTL

-----------------------------------------------------------------------------
(* The local rate limiter.  Callers that find the key absent at once make  *)
(* one bucket, for each looks again under the write lock.                  *)
Buckets == [limit : Limits, burst : Limits, tokens : Int, lastEvent : Nat]
Places == {"idle", "create", "compare", "limit", "burst", "wait", "sleep", "admitted", "refused"}
LimiterTypes ==
  /\ oNow \in 0 .. MaxTime /\ oOverlapped \in BOOLEAN
  /\ oEntry \in {0, 1} /\ Len(oLimiters) = oEntry
  /\ oLimiters \in Seq(Buckets)
  /\ oCaller \in [Waiters -> [limit : Limits, at : Places, lim : {0, 1}, until : Nat]]
  /\ \A c \in Waiters :
       oCaller[c].lim = (IF oCaller[c].at \in {"idle", "create"} THEN 0 ELSE 1)
  /\ \A c \in Waiters : oCaller[c].lim <= oEntry

(* Who has begun, and who has a token, now or by second t.                 *)
Begun == {c \in Waiters : oCaller[c].at # "idle"}
Admitted == {c \in Waiters : oCaller[c].at = "admitted"}
Reserved == {c \in Waiters : oCaller[c].at \in {"admitted", "sleep"}}
Served(t) ==
  {c \in Waiters : oCaller[c].at = "admitted" \/ (oCaller[c].at = "sleep" /\ oCaller[c].until <= t)}

(* The bucket never gives more than a burst and the rate of a limit l: the *)
(* tokens reserved and those left, and by each second those served.        *)
Within(l) ==
  /\ \A d \in Begun : oCaller[d].limit <= l
  /\ \A i \in DOMAIN oLimiters :
       /\ oLimiters[i].limit <= l
       /\ oLimiters[i].tokens + Cardinality(Reserved) <= l * (1 + oNow)
  /\ \A t \in Nat : t >= oNow => Cardinality(Served(t)) <= l * (1 + t)
Rates ==
  /\ IsFiniteSet(Begun) /\ (Begun = {} => oEntry = 0)
  /\ Begun # {} => \E c \in Begun : Within(oCaller[c].limit)

(* Without overlapping callers of different limits, those inside agree,    *)
(* and a bucket differs from its limit only in the hands of a caller that  *)
(* is about to set its burst.                                              *)
Retuned ==
  ~oOverlapped =>
    /\ \A c, d \in Waiters :
         Limiter!Inside(c) /\ Limiter!Inside(d) => oCaller[c].limit = oCaller[d].limit
    /\ \A i \in DOMAIN oLimiters :
         /\ \A c \in Waiters : oCaller[c].at = "burst" => oLimiters[i].limit = oCaller[c].limit
         /\ oLimiters[i].burst = oLimiters[i].limit \/ \E c \in Waiters : oCaller[c].at = "burst"

LimiterInv == LimiterTypes /\ Rates /\ Retuned

(* A second of waiting for each limit tokens missing is enough.            *)
LEMMA WaitCovers ==
  ASSUME NEW l \in Nat \ {0}, NEW left \in Int, left < 0
  PROVE  /\ (l - 1 - left) \div l \in Nat
         /\ l * ((l - 1 - left) \div l) >= -left
         /\ (l - 1 - left) \div l > 0
OBVIOUS

LEMMA OneBucket ==
  ASSUME NEW e \in Buckets, NEW s \in Seq(Buckets), Len(s) = 0
  PROVE  /\ Append(s, e) \in Seq(Buckets) /\ Len(Append(s, e)) = 1
         /\ Append(s, e)[1] = e /\ DOMAIN Append(s, e) = {1}
OBVIOUS

LEMMA SameBuckets ==
  ASSUME NEW s \in Seq(Buckets), NEW f \in [DOMAIN s -> Buckets]
  PROVE  f \in Seq(Buckets) /\ Len(f) = Len(s)
<1>1. DOMAIN s = 1 .. Len(s) /\ Len(s) \in Nat
  OBVIOUS
<1> QED
  BY <1>1

LEMMA TheBucket ==
  ASSUME LimiterTypes, NEW i \in DOMAIN oLimiters
  PROVE  /\ oLimiters[i] \in Buckets /\ oLimiters[i].limit \in Nat \ {0}
         /\ oLimiters[i].tokens \in Int /\ oLimiters[i].burst \in Nat \ {0}
         /\ i = 1 /\ oEntry = 1 /\ DOMAIN oLimiters = {1}
<1>1. DOMAIN oLimiters = 1 .. Len(oLimiters)
  BY DEF LimiterTypes
<1>2. i = 1 /\ oEntry = 1 /\ DOMAIN oLimiters = {1}
  BY <1>1 DEF LimiterTypes
<1>3. oLimiters[i] \in Buckets
  BY <1>1 DEF LimiterTypes
<1> QED
  BY <1>2, <1>3, ServicesAssumption DEF Buckets

LEMMA Seats ==
  ASSUME Rates, LimiterTypes
  PROVE  /\ \A S \in SUBSET Begun : IsFiniteSet(S) /\ Cardinality(S) \in Nat
         /\ \A S \in SUBSET Begun : \A T \in SUBSET S : Cardinality(T) <= Cardinality(S)
         /\ \A S \in SUBSET Begun : \A c \in S : Cardinality(S \ {c}) = Cardinality(S) - 1
         /\ \A S \in SUBSET Begun : \A c \in Begun : Cardinality(S \cup {c}) <= Cardinality(S) + 1
         /\ Reserved \subseteq Begun /\ \A t : Served(t) \subseteq Begun
         /\ \A t : Served(t) \subseteq Reserved
         /\ \A c \in Waiters : oCaller[c].limit \in Nat \ {0}
<1>1. IsFiniteSet(Begun)
  BY DEF Rates
<1>2. \A S \in SUBSET Begun : IsFiniteSet(S) /\ Cardinality(S) \in Nat
  BY <1>1, FS_Subset, FS_CardinalityType
<1>3. \A S \in SUBSET Begun : \A T \in SUBSET S : Cardinality(T) <= Cardinality(S)
  BY <1>2, FS_Subset
<1>4. \A S \in SUBSET Begun : \A c \in S : Cardinality(S \ {c}) = Cardinality(S) - 1
  BY <1>2, FS_RemoveElement
<1>5. ASSUME NEW S \in SUBSET Begun, NEW c \in Begun PROVE Cardinality(S \cup {c}) <= Cardinality(S) + 1
  BY <1>2, FS_AddElement
<1>6. \A c \in Waiters : oCaller[c].limit \in Nat \ {0}
  BY ServicesAssumption DEF LimiterTypes
<1> QED
  BY <1>2, <1>3, <1>4, <1>5, <1>6 DEF Reserved, Served, Begun

(* A step that gives nobody a token keeps the rates.                       *)
LEMMA RatesKept ==
  ASSUME LimiterTypes, Rates, oNow' = oNow, Begun' = Begun, Begun # {} \/ oEntry' = oEntry,
         \A d \in Waiters : oCaller'[d].limit = oCaller[d].limit,
         Reserved' \subseteq Reserved,
         \A t \in Nat : t >= oNow => Served(t)' \subseteq Served(t),
         \A i \in DOMAIN oLimiters' :
           /\ i \in DOMAIN oLimiters /\ oLimiters'[i].tokens \in Int
           /\ oLimiters'[i].tokens + Cardinality(Reserved') <= oLimiters[i].tokens + Cardinality(Reserved)
           /\ \/ oLimiters'[i].limit = oLimiters[i].limit
              \/ \E d \in Begun : oLimiters'[i].limit = oCaller[d].limit
  PROVE  Rates'
<1>1. IsFiniteSet(Begun') /\ (Begun' = {} => oEntry' = 0)
  BY DEF Rates
<1>2. ASSUME Begun # {} PROVE \E c \in Begun : Within(oCaller[c].limit)'
  <2>1. PICK c \in Begun : Within(oCaller[c].limit)
    BY <1>2 DEF Rates
  <2>2. PICK l : l = oCaller[c].limit
    OBVIOUS
  <2>3. c \in Waiters /\ l \in Nat /\ Within(l) /\ oCaller'[c].limit = l
    BY <2>1, <2>2, Seats DEF Begun
  <2>4. oNow \in Nat
    BY ServicesAssumption DEF LimiterTypes
  <2>5. /\ Cardinality(Reserved) \in Nat /\ Cardinality(Reserved') \in Nat
        /\ \A t \in Nat : t >= oNow =>
             /\ Cardinality(Served(t)) \in Nat /\ Cardinality(Served(t)') \in Nat
             /\ Cardinality(Served(t)') <= Cardinality(Served(t))
    <3>1. Reserved' \subseteq Begun /\ Reserved \subseteq Begun
      BY Seats
    <3>2. ASSUME NEW t \in Nat, t >= oNow
          PROVE  Served(t)' \subseteq Served(t) /\ Served(t) \subseteq Begun /\ Served(t)' \subseteq Begun
      <4>1. Served(t) \subseteq Begun
        BY Seats
      <4> QED
        BY <3>2, <4>1
    <3> QED
      BY <3>1, <3>2, Seats
  <2>6. \A d \in Begun' : oCaller'[d].limit <= l
    BY <2>3 DEF Within, Begun
  <2>7. ASSUME NEW i \in DOMAIN oLimiters'
        PROVE  /\ oLimiters'[i].limit <= l
               /\ oLimiters'[i].tokens + Cardinality(Reserved') <= l * (1 + oNow)
    <3>1. i \in DOMAIN oLimiters /\ oLimiters[i].limit <= l /\ oLimiters[i].tokens \in Int
      BY <2>3, TheBucket DEF Within
    <3>2. oLimiters'[i].limit <= l
      BY <2>3, <3>1 DEF Within
    <3>3. oLimiters[i].tokens + Cardinality(Reserved) <= l * (1 + oNow)
      BY <2>3, <3>1 DEF Within
    <3>4. l * (1 + oNow) \in Int
      BY <2>3, <2>4
    <3> QED
      BY <2>5, <3>1, <3>2, <3>3, <3>4
  <2>8. ASSUME NEW t \in Nat, t >= oNow PROVE Cardinality(Served(t)') <= l * (1 + t)
    <3>1. Cardinality(Served(t)) <= l * (1 + t)
      BY <2>3, <2>8 DEF Within
    <3>2. l * (1 + t) \in Int
      BY <2>3
    <3> QED
      BY <2>5, <2>8, <3>1, <3>2
  <2>9. Within(l)'
    BY <2>6, <2>7, <2>8 DEF Within
  <2>10. Within(oCaller[c].limit)'
    BY <2>3, <2>9
  <2> QED
    BY <2>10
<1> QED
  BY <1>1, <1>2 DEF Rates

(* A caller with tag c moves from a to b.                                  *)
LEMMA CallerMoves ==
  ASSUME LimiterTypes, NEW c \in Waiters, NEW x, oCaller' = [oCaller EXCEPT ![c] = x],
         x \in [limit : Limits, at : Places, lim : {0, 1}, until : Nat],
         x.limit = oCaller[c].limit,
         x.lim = (IF x.at \in {"idle", "create"} THEN 0 ELSE 1),
         x.lim <= oEntry', oEntry <= oEntry', oEntry' \in {0, 1}
  PROVE  /\ oCaller' \in [Waiters -> [limit : Limits, at : Places, lim : {0, 1}, until : Nat]]
         /\ \A d \in Waiters :
              oCaller'[d].lim = (IF oCaller'[d].at \in {"idle", "create"} THEN 0 ELSE 1)
         /\ \A d \in Waiters : oCaller'[d].lim <= oEntry'
         /\ \A d \in Waiters : oCaller'[d].limit = oCaller[d].limit
         /\ oCaller'[c] = x /\ \A d \in Waiters : d # c => oCaller'[d] = oCaller[d]
<1>1. oCaller'[c] = x /\ \A d \in Waiters : d # c => oCaller'[d] = oCaller[d]
  BY DEF LimiterTypes
<1>2. oCaller' \in [Waiters -> [limit : Limits, at : Places, lim : {0, 1}, until : Nat]]
  BY DEF LimiterTypes
<1>3. ASSUME NEW d \in Waiters
      PROVE  /\ oCaller'[d].lim = (IF oCaller'[d].at \in {"idle", "create"} THEN 0 ELSE 1)
             /\ oCaller'[d].lim <= oEntry'
             /\ oCaller'[d].limit = oCaller[d].limit
  <2>1. CASE d = c
    BY <1>1, <2>1
  <2>2. CASE d # c
    <3>1. oCaller[d].lim <= oEntry /\ oCaller[d].lim \in {0, 1} /\ oEntry \in {0, 1}
      BY DEF LimiterTypes
    <3>2. oCaller'[d] = oCaller[d]
      BY <1>1, <2>2
    <3>3. oCaller[d].lim = (IF oCaller[d].at \in {"idle", "create"} THEN 0 ELSE 1)
      BY DEF LimiterTypes
    <3> QED
      BY <3>1, <3>2, <3>3
  <2> QED
    BY <2>1, <2>2
<1> QED
  BY <1>1, <1>2, <1>3

LEMMA LookupStep == ASSUME LimiterInv, NEW c \in Waiters, Limiter!Lookup(c) PROVE LimiterInv'
<1>0. LimiterTypes /\ Rates /\ Retuned
  BY DEF LimiterInv
<1>1. PICK x : /\ oCaller' = [oCaller EXCEPT ![c] = x] /\ oCaller[c].at = "idle"
               /\ x = [oCaller[c] EXCEPT !.lim = oEntry, !.at = IF oEntry = 0 THEN "create" ELSE "compare"]
  BY <1>0 DEF Limiter!Lookup, LimiterTypes
<1>2. UNCHANGED <<oLimiters, oEntry, oNow>>
  BY DEF Limiter!Lookup
<1>3. /\ x \in [limit : Limits, at : Places, lim : {0, 1}, until : Nat]
      /\ x.limit = oCaller[c].limit /\ x.at \in {"create", "compare"} /\ x.lim = oEntry
      /\ x.lim = (IF x.at \in {"idle", "create"} THEN 0 ELSE 1)
  BY <1>0, <1>1 DEF LimiterTypes, Places
<1>4. /\ oCaller' \in [Waiters -> [limit : Limits, at : Places, lim : {0, 1}, until : Nat]]
      /\ \A d \in Waiters :
           oCaller'[d].lim = (IF oCaller'[d].at \in {"idle", "create"} THEN 0 ELSE 1)
      /\ \A d \in Waiters : oCaller'[d].lim <= oEntry'
      /\ \A d \in Waiters : oCaller'[d].limit = oCaller[d].limit
      /\ oCaller'[c] = x /\ \A d \in Waiters : d # c => oCaller'[d] = oCaller[d]
  BY <1>0, <1>1, <1>2, <1>3, CallerMoves DEF LimiterTypes
<1>5. oOverlapped' = (oOverlapped \/ \E d \in Waiters : Limiter!Inside(d) /\ oCaller[d].limit # oCaller[c].limit)
  BY DEF Limiter!Lookup
<1>6. LimiterTypes'
  BY <1>0, <1>2, <1>4, <1>5 DEF LimiterTypes
<1>7. Begun' = Begun \cup {c} /\ Reserved' = Reserved /\ \A t : Served(t)' = Served(t)
  BY <1>1, <1>3, <1>4 DEF Begun, Reserved, Served
<1>8. Rates'
  <2>1. IsFiniteSet(Begun')
    BY <1>0, <1>7, FS_AddElement DEF Rates
  <2>2. \E d \in Begun' : Within(oCaller[d].limit)'
    <3>1. PICK k : k = oCaller[c].limit
      OBVIOUS
    <3>2. k \in Nat /\ oCaller'[c].limit = k
      BY <1>0, <1>4, <3>1, Seats
    <3>3. oNow \in Nat
      BY <1>0, ServicesAssumption DEF LimiterTypes
    <3>4. CASE Begun = {}
      <4>1. Begun' = {c} /\ Reserved = {} /\ \A t : Served(t) = {}
        BY <1>0, <1>7, <3>4, Seats
      <4>2. \A i \in DOMAIN oLimiters : FALSE
        BY <1>0, <3>4, TheBucket DEF Rates
      <4>3. Cardinality({}) = 0 /\ \A t \in Nat : k * (1 + t) \in Nat
        BY <3>2, FS_EmptySet
      <4>4. \A d \in Begun' : oCaller'[d].limit <= k
        BY <3>2, <4>1
      <4>5. \A s \in Nat : Cardinality(Served(s)') <= k * (1 + s)
        <5>1. \A s : Cardinality(Served(s)') = 0
          BY <1>7, <4>1, <4>3
        <5> QED
          BY <4>3, <5>1
      <4>6. Within(k)'
        BY <1>2, <4>2, <4>4, <4>5 DEF Within
      <4> QED
        BY <3>2, <4>1, <4>6
    <3>5. CASE Begun # {}
      <4>1. PICK e \in Begun : Within(oCaller[e].limit)
        BY <1>0, <3>5 DEF Rates
      <4>2. PICK l : l = oCaller[e].limit
        OBVIOUS
      <4>3. e \in Waiters /\ l \in Nat /\ Within(l)
        BY <1>0, <4>1, <4>2, Seats DEF Begun
      <4>4. PICK m \in {l, k} : m >= l /\ m >= k
        BY <3>2, <4>3
      <4>5. m \in Nat /\ \E d \in Begun' : oCaller'[d].limit = m
        BY <1>4, <1>7, <3>2, <4>1, <4>2, <4>3, <4>4
      <4>6. \A t \in Nat : l * (1 + t) <= m * (1 + t)
        BY <4>3, <4>4, <4>5
      <4>7. \A d \in Begun' : oCaller'[d].limit <= m
        <5>1. \A d \in Begun : oCaller[d].limit <= l /\ oCaller[d].limit \in Nat
          BY <1>0, <4>3, Seats DEF Within, Begun
        <5>2. \A d \in Begun : oCaller[d].limit <= m
          BY <4>3, <4>4, <4>5, <5>1
        <5> QED
          BY <1>4, <1>7, <3>2, <4>4, <5>2 DEF Begun
      <4>8. ASSUME NEW i \in DOMAIN oLimiters
            PROVE  /\ oLimiters[i].limit <= m
                   /\ oLimiters[i].tokens + Cardinality(Reserved) <= m * (1 + oNow)
        <5>1. oLimiters[i].limit \in Nat /\ oLimiters[i].tokens \in Int /\ Cardinality(Reserved) \in Nat
          BY <1>0, TheBucket, Seats
        <5>2. oLimiters[i].limit <= l /\ oLimiters[i].tokens + Cardinality(Reserved) <= l * (1 + oNow)
          BY <4>3 DEF Within
        <5>3. l * (1 + oNow) \in Int /\ m * (1 + oNow) \in Int /\ l * (1 + oNow) <= m * (1 + oNow)
          BY <3>3, <4>3, <4>5, <4>6
        <5> QED
          BY <4>3, <4>4, <4>5, <5>1, <5>2, <5>3
      <4>9. ASSUME NEW t \in Nat, t >= oNow PROVE Cardinality(Served(t)) <= m * (1 + t)
        <5>1. Cardinality(Served(t)) \in Nat /\ Cardinality(Served(t)) <= l * (1 + t)
          BY <1>0, <4>3, <4>9, Seats DEF Within
        <5>2. l * (1 + t) \in Int /\ m * (1 + t) \in Int
          BY <4>3, <4>5
        <5> QED
          BY <4>6, <5>1, <5>2
      <4>10. Within(m)'
        BY <1>2, <1>7, <4>7, <4>8, <4>9 DEF Within
      <4> QED
        BY <4>5, <4>10
    <3> QED
      BY <3>4, <3>5
  <2> QED
    BY <1>7, <2>1, <2>2 DEF Rates
<1>9. Retuned'
  <2>1. ASSUME ~oOverlapped' PROVE ~oOverlapped /\ \A d \in Waiters : Limiter!Inside(d) => oCaller[d].limit = oCaller[c].limit
    BY <1>5, <2>1
  <2>2. ~Limiter!Inside(c) /\ \A d \in Waiters : d # c => (Limiter!Inside(d)' <=> Limiter!Inside(d))
    BY <1>1, <1>4 DEF Limiter!Inside
  <2>3. \A d \in Waiters : oCaller'[d].at = "burst" <=> oCaller[d].at = "burst"
    BY <1>1, <1>3, <1>4
  <2>4. ASSUME ~oOverlapped', NEW d \in Waiters, NEW e \in Waiters, Limiter!Inside(d)', Limiter!Inside(e)'
        PROVE  oCaller'[d].limit = oCaller'[e].limit
    <3>1. d # c /\ e # c => oCaller[d].limit = oCaller[e].limit
      BY <1>0, <2>1, <2>2, <2>4 DEF Retuned
    <3> QED
      BY <1>4, <2>1, <2>2, <2>4, <3>1
  <2> QED
    BY <1>0, <1>2, <1>4, <2>1, <2>3, <2>4 DEF Retuned
<1> QED
  BY <1>6, <1>8, <1>9 DEF LimiterInv

-----------------------------------------------------------------------------
(* A caller that has begun moves on, and takes no token by that.           *)
LEMMA RatesElsewhere ==
  ASSUME LimiterTypes, Rates, oNow' = oNow, NEW c \in Waiters, NEW x,
         oCaller'[c] = x, \A d \in Waiters : d # c => oCaller'[d] = oCaller[d],
         x.limit = oCaller[c].limit, oCaller[c].at # "idle", x.at # "idle",
         \/ x.at \notin {"admitted", "sleep"}
         \/ x.at = "admitted" /\ oCaller[c].at = "sleep" /\ oCaller[c].until <= oNow,
         \A i \in DOMAIN oLimiters' :
           /\ i \in DOMAIN oLimiters
           /\ \/ oLimiters'[i].tokens = oLimiters[i].tokens
              \/ /\ oLimiters'[i].tokens = oLimiters[i].tokens + 1
                 /\ oCaller[c].at = "sleep" /\ x.at \notin {"admitted", "sleep"}
           /\ oLimiters'[i].limit \in {oLimiters[i].limit, oCaller[c].limit}
  PROVE  Rates'
<1>1. Begun' = Begun /\ c \in Begun
  BY DEF Begun
<1>2. \A d \in Waiters : oCaller'[d].limit = oCaller[d].limit
  OBVIOUS
<1>3. Reserved' \subseteq Reserved /\ (x.at \notin {"admitted", "sleep"} => Reserved' \subseteq Reserved \ {c})
  BY DEF Reserved
<1>4. oNow \in Nat
  BY ServicesAssumption DEF LimiterTypes
<1>5. ASSUME NEW t \in Nat, t >= oNow PROVE Served(t)' \subseteq Served(t)
  <2>1. oCaller[c].until \in Nat
    BY DEF LimiterTypes
  <2>2. x.at = "admitted" => c \in Served(t)
    BY <1>4, <1>5, <2>1 DEF Served
  <2> QED
    BY <2>2 DEF Served
<1>6. /\ Cardinality(Reserved') \in Nat /\ Cardinality(Reserved) \in Nat
      /\ Cardinality(Reserved') <= Cardinality(Reserved)
      /\ x.at \notin {"admitted", "sleep"} /\ oCaller[c].at = "sleep" =>
           Cardinality(Reserved') <= Cardinality(Reserved) - 1
  <2>1. Reserved \subseteq Begun /\ Reserved' \subseteq Begun /\ Reserved \ {c} \subseteq Begun
    BY <1>3, Seats
  <2>2. oCaller[c].at = "sleep" => Cardinality(Reserved \ {c}) = Cardinality(Reserved) - 1
    BY <2>1, Seats DEF Reserved
  <2> QED
    BY <1>3, <2>1, <2>2, Seats
<1>7. ASSUME NEW i \in DOMAIN oLimiters'
      PROVE  /\ i \in DOMAIN oLimiters /\ oLimiters'[i].tokens \in Int
             /\ oLimiters'[i].tokens + Cardinality(Reserved') <= oLimiters[i].tokens + Cardinality(Reserved)
             /\ \/ oLimiters'[i].limit = oLimiters[i].limit
                \/ \E d \in Begun : oLimiters'[i].limit = oCaller[d].limit
  <2>1. i \in DOMAIN oLimiters /\ oLimiters[i].tokens \in Int
    BY TheBucket
  <2> QED
    BY <1>1, <1>6, <2>1
<1> QED
  BY <1>1, <1>2, <1>3, <1>5, <1>7, RatesKept

LEMMA RetunedKept ==
  ASSUME Retuned, oOverlapped' = oOverlapped,
         \A d \in Waiters : /\ oCaller'[d].limit = oCaller[d].limit
                            /\ oCaller'[d].at = "burst" <=> oCaller[d].at = "burst"
                            /\ Limiter!Inside(d)' => Limiter!Inside(d),
         \A i \in DOMAIN oLimiters' :
           /\ i \in DOMAIN oLimiters
           /\ oLimiters'[i].limit = oLimiters[i].limit /\ oLimiters'[i].burst = oLimiters[i].burst
  PROVE  Retuned'
<1>1. ASSUME ~oOverlapped, NEW c \in Waiters, NEW d \in Waiters, Limiter!Inside(c)', Limiter!Inside(d)'
      PROVE  oCaller'[c].limit = oCaller'[d].limit
  BY <1>1 DEF Retuned
<1>2. ASSUME ~oOverlapped, NEW i \in DOMAIN oLimiters'
      PROVE  /\ \A c \in Waiters : oCaller'[c].at = "burst" => oLimiters'[i].limit = oCaller'[c].limit
             /\ oLimiters'[i].burst = oLimiters'[i].limit \/ \E c \in Waiters : oCaller'[c].at = "burst"
  BY <1>2 DEF Retuned
<1> QED
  BY <1>1, <1>2 DEF Retuned

(* Another look at the map, the comparison, and waking up.                 *)
LEMMA QuietStep ==
  ASSUME LimiterInv, NEW c \in Waiters,
         \/ Limiter!Create(c) /\ oEntry # 0
         \/ Limiter!Compare(c)
         \/ Limiter!Wake(c)
  PROVE  LimiterInv'
<1>0. LimiterTypes /\ Rates /\ Retuned
  BY DEF LimiterInv
<1>1. UNCHANGED <<oLimiters, oEntry, oNow, oOverlapped>>
  BY DEF Limiter!Create, Limiter!Compare, Limiter!Wake, Limiter!ThereMeanwhile
<1>2. PICK x : /\ oCaller' = [oCaller EXCEPT ![c] = x]
               /\ \/ /\ oCaller[c].at = "create" /\ oEntry # 0
                     /\ x = [oCaller[c] EXCEPT !.lim = oEntry, !.at = "compare"]
                  \/ /\ oCaller[c].at = "compare"
                     /\ \E at \in {"limit", "wait"} : x = [oCaller[c] EXCEPT !.at = at]
                  \/ /\ oCaller[c].at = "sleep" /\ oCaller[c].until <= oNow
                     /\ x = [oCaller[c] EXCEPT !.at = "admitted"]
  <2>1. CASE Limiter!Create(c) /\ oEntry # 0
    BY <1>0, <2>1 DEF Limiter!Create, Limiter!ThereMeanwhile, LimiterTypes
  <2>2. CASE Limiter!Compare(c)
    <3>1. PICK at \in {"limit", "wait"} : oCaller' = [oCaller EXCEPT ![c].at = at]
      BY <2>2 DEF Limiter!Compare, Limiter!Goto
    <3>2. oCaller' = [oCaller EXCEPT ![c] = [oCaller[c] EXCEPT !.at = at]]
      BY <1>0, <3>1 DEF LimiterTypes
    <3> QED
      BY <2>2, <3>2 DEF Limiter!Compare
  <2>3. CASE Limiter!Wake(c)
    BY <1>0, <2>3 DEF Limiter!Wake, Limiter!Goto, LimiterTypes
  <2> QED
    BY <2>1, <2>2, <2>3
<1>3. /\ x \in [limit : Limits, at : Places, lim : {0, 1}, until : Nat]
      /\ x.limit = oCaller[c].limit /\ x.lim = 1 /\ oEntry = 1
      /\ x.at \in {"compare", "limit", "wait", "admitted"}
      /\ oCaller[c].at \in {"create", "compare", "sleep"}
      /\ x.at = "admitted" => oCaller[c].at = "sleep" /\ oCaller[c].until <= oNow
  <2>1. oCaller[c] \in [limit : Limits, at : Places, lim : {0, 1}, until : Nat]
    BY <1>0 DEF LimiterTypes
  <2>2. oEntry \in {0, 1} /\ oCaller[c].lim <= oEntry
        /\ oCaller[c].lim = (IF oCaller[c].at \in {"idle", "create"} THEN 0 ELSE 1)
    BY <1>0 DEF LimiterTypes
  <2>3. oEntry = 1
    BY <1>2, <2>2
  <2> QED
    BY <1>2, <2>1, <2>2, <2>3 DEF Places
<1>4. /\ oCaller' \in [Waiters -> [limit : Limits, at : Places, lim : {0, 1}, until : Nat]]
      /\ \A d \in Waiters :
           oCaller'[d].lim = (IF oCaller'[d].at \in {"idle", "create"} THEN 0 ELSE 1)
      /\ \A d \in Waiters : oCaller'[d].lim <= oEntry'
      /\ \A d \in Waiters : oCaller'[d].limit = oCaller[d].limit
      /\ oCaller'[c] = x /\ \A d \in Waiters : d # c => oCaller'[d] = oCaller[d]
  <2>1. x.lim = (IF x.at \in {"idle", "create"} THEN 0 ELSE 1) /\ x.lim <= oEntry' /\ oEntry <= oEntry'
    BY <1>1, <1>3
  <2> QED
    BY <1>0, <1>1, <1>2, <1>3, <2>1, CallerMoves
<1>5. LimiterTypes'
  BY <1>0, <1>1, <1>4 DEF LimiterTypes
<1>6. Rates'
  BY <1>0, <1>1, <1>3, <1>4, RatesElsewhere
<1>7. Retuned'
  <2>1. \A d \in Waiters : /\ oCaller'[d].at = "burst" <=> oCaller[d].at = "burst"
                           /\ Limiter!Inside(d)' => Limiter!Inside(d)
    BY <1>3, <1>4 DEF Limiter!Inside
  <2> QED
    BY <1>0, <1>1, <1>4, <2>1, RetunedKept
<1> QED
  BY <1>5, <1>6, <1>7 DEF LimiterInv

(* The first caller makes the bucket: nobody has taken a token yet.        *)
LEMMA CreateStep ==
  ASSUME LimiterInv, NEW c \in Waiters, Limiter!Create(c), oEntry = 0 PROVE LimiterInv'
<1>0. LimiterTypes /\ Rates /\ Retuned
  BY DEF LimiterInv
<1>1. PICK l : l = oCaller[c].limit
  OBVIOUS
<1>2. PICK e : e = [limit |-> l, burst |-> l, tokens |-> l, lastEvent |-> 0]
  OBVIOUS
<1>3. /\ oCaller[c].at = "create" /\ oLimiters' = Append(oLimiters, e) /\ oEntry' = Len(oLimiters) + 1
      /\ oCaller' = [oCaller EXCEPT ![c].lim = Len(oLimiters) + 1, ![c].at = "compare"]
      /\ UNCHANGED <<oNow, oOverlapped>>
  BY <1>1, <1>2 DEF Limiter!Create, Limiter!ThereMeanwhile
<1>4. l \in Limits /\ l \in Nat \ {0} /\ e \in Buckets /\ oLimiters \in Seq(Buckets) /\ Len(oLimiters) = 0
  <2>1. l \in Limits /\ l \in Nat \ {0}
    BY <1>0, <1>1, ServicesAssumption DEF LimiterTypes
  <2>2. e \in Buckets
    BY <1>2, <2>1 DEF Buckets
  <2> QED
    BY <1>0, <2>1, <2>2 DEF LimiterTypes
<1>5. /\ oLimiters' \in Seq(Buckets) /\ Len(oLimiters') = 1 /\ oEntry' = 1
      /\ oLimiters'[1] = e /\ DOMAIN oLimiters' = {1}
  BY <1>3, <1>4, OneBucket
<1>6. PICK x : /\ oCaller' = [oCaller EXCEPT ![c] = x]
               /\ x = [oCaller[c] EXCEPT !.lim = 1, !.at = "compare"]
  BY <1>0, <1>3, <1>4 DEF LimiterTypes
<1>7. /\ x \in [limit : Limits, at : Places, lim : {0, 1}, until : Nat]
      /\ x.limit = oCaller[c].limit /\ x.lim = 1 /\ x.at = "compare"
  BY <1>0, <1>6 DEF LimiterTypes, Places
<1>8. /\ oCaller' \in [Waiters -> [limit : Limits, at : Places, lim : {0, 1}, until : Nat]]
      /\ \A d \in Waiters :
           oCaller'[d].lim = (IF oCaller'[d].at \in {"idle", "create"} THEN 0 ELSE 1)
      /\ \A d \in Waiters : oCaller'[d].lim <= oEntry'
      /\ \A d \in Waiters : oCaller'[d].limit = oCaller[d].limit
      /\ oCaller'[c] = x /\ \A d \in Waiters : d # c => oCaller'[d] = oCaller[d]
  <2>1. x.lim = (IF x.at \in {"idle", "create"} THEN 0 ELSE 1) /\ x.lim <= oEntry' /\ oEntry <= oEntry'
    BY <1>5, <1>7
  <2> QED
    BY <1>0, <1>5, <1>6, <1>7, <2>1, CallerMoves
<1>9. LimiterTypes'
  BY <1>0, <1>3, <1>5, <1>8 DEF LimiterTypes
<1>10. \A d \in Waiters : oCaller[d].at \in {"idle", "create"}
  <2>1. \A d \in Waiters : oCaller[d].lim <= 0 /\ oCaller[d].lim \in {0, 1}
    BY <1>0 DEF LimiterTypes
  <2> QED
    BY <1>0, <2>1 DEF LimiterTypes
<1>11. Rates'
  <2>1. Begun' = Begun /\ c \in Begun
    BY <1>3, <1>7, <1>8 DEF Begun
  <2>2. Reserved' = {} /\ \A t : Served(t)' = {}
    BY <1>7, <1>8, <1>10 DEF Reserved, Served
  <2>3. PICK b \in Begun : Within(oCaller[b].limit)
    BY <1>0, <2>1 DEF Rates
  <2>4. PICK k : k = oCaller[b].limit
    OBVIOUS
  <2>5. k \in Nat /\ Within(k) /\ oCaller'[b].limit = k /\ l <= k
    BY <1>0, <1>1, <1>8, <2>1, <2>3, <2>4, Seats DEF Begun, Within
  <2>6. oNow \in Nat /\ Cardinality({}) = 0 /\ \A t \in Nat : k * (1 + t) \in Nat /\ k <= k * (1 + t)
    BY <1>0, <2>5, FS_EmptySet, ServicesAssumption DEF LimiterTypes
  <2>7. \A d \in Begun' : oCaller'[d].limit <= k
    BY <1>8, <2>1, <2>5 DEF Within, Begun
  <2>8. \A t \in Nat : Cardinality(Served(t)') <= k * (1 + t)
    BY <2>2, <2>6
  <2>9. oLimiters'[1].limit <= k /\ oLimiters'[1].tokens + Cardinality(Reserved') <= k * (1 + oNow)
    <3>1. l <= k * (1 + oNow)
      BY <1>4, <2>5, <2>6
    <3> QED
      BY <1>2, <1>4, <1>5, <2>2, <2>5, <2>6, <3>1
  <2>10. Within(k)'
    BY <1>3, <1>5, <2>7, <2>8, <2>9 DEF Within
  <2> QED
    BY <1>0, <2>1, <2>5, <2>10 DEF Rates
<1>12. Retuned'
  <2>1. \A d \in Waiters : Limiter!Inside(d)' => Limiter!Inside(d)
    BY <1>3, <1>8 DEF Limiter!Inside
  <2>2. \A d \in Waiters : oCaller'[d].at # "burst"
    BY <1>7, <1>8, <1>10
  <2> QED
    BY <1>0, <1>2, <1>3, <1>5, <1>8, <2>1, <2>2 DEF Retuned
<1> QED
  BY <1>9, <1>11, <1>12 DEF LimiterInv

(* The limit is set, then the burst.                                       *)
LEMMA RetuneStep ==
  ASSUME LimiterInv, NEW c \in Waiters, Limiter!SetLimit(c) \/ Limiter!SetBurst(c) PROVE LimiterInv'
<1>0. LimiterTypes /\ Rates /\ Retuned
  BY DEF LimiterInv
<1>1. /\ UNCHANGED <<oEntry, oNow, oOverlapped>>
      /\ oCaller[c].at \in {"limit", "burst"}
  BY DEF Limiter!SetLimit, Limiter!SetBurst
<1>2. PICK l : l = oCaller[c].limit
  OBVIOUS
<1>3. /\ l \in Limits /\ oCaller[c].lim = 1 /\ oEntry = 1 /\ DOMAIN oLimiters = {1}
      /\ oLimiters[1] \in Buckets /\ oLimiters \in Seq(Buckets) /\ Len(oLimiters) = 1
  <2>1. /\ oCaller[c].lim = 1 /\ oCaller[c].lim <= oEntry /\ oEntry \in {0, 1} /\ Len(oLimiters) = oEntry
        /\ oLimiters \in Seq(Buckets) /\ l \in Limits
    BY <1>0, <1>1, <1>2 DEF LimiterTypes
  <2>2. oEntry = 1 /\ DOMAIN oLimiters = {1}
    BY <2>1
  <2> QED
    BY <1>0, <2>1, <2>2, TheBucket
<1>4. PICK e : /\ oLimiters' = [oLimiters EXCEPT ![1] = e]
               /\ \/ /\ oCaller[c].at = "limit" /\ e = [oLimiters[1] EXCEPT !.limit = l]
                     /\ oCaller' = [oCaller EXCEPT ![c].at = "burst"]
                  \/ /\ oCaller[c].at = "burst" /\ e = [oLimiters[1] EXCEPT !.burst = l]
                     /\ oCaller' = [oCaller EXCEPT ![c].at = "wait"]
  BY <1>2, <1>3 DEF Limiter!SetLimit, Limiter!SetBurst, Limiter!Goto
<1>5. /\ e \in Buckets /\ e.tokens = oLimiters[1].tokens
      /\ oCaller[c].at = "limit" => e.limit = l /\ e.burst = oLimiters[1].burst
      /\ oCaller[c].at = "burst" => e.burst = l /\ e.limit = oLimiters[1].limit
  BY <1>3, <1>4 DEF Buckets
<1>6. oLimiters' \in Seq(Buckets) /\ Len(oLimiters') = 1 /\ DOMAIN oLimiters' = {1} /\ oLimiters'[1] = e
  <2>1. oLimiters' \in [DOMAIN oLimiters -> Buckets]
    BY <1>3, <1>4, <1>5
  <2> QED
    BY <1>3, <1>4, <2>1, SameBuckets
<1>7. PICK at \in {"burst", "wait"} :
        /\ oCaller' = [oCaller EXCEPT ![c].at = at]
        /\ at = "burst" <=> oCaller[c].at = "limit"
  BY <1>4
<1>8. PICK x : oCaller' = [oCaller EXCEPT ![c] = x] /\ x = [oCaller[c] EXCEPT !.at = at]
  BY <1>0, <1>7 DEF LimiterTypes
<1>9. /\ x \in [limit : Limits, at : Places, lim : {0, 1}, until : Nat]
      /\ x.limit = oCaller[c].limit /\ x.lim = 1 /\ x.at = at
  BY <1>0, <1>3, <1>8 DEF LimiterTypes, Places
<1>10. /\ oCaller' \in [Waiters -> [limit : Limits, at : Places, lim : {0, 1}, until : Nat]]
       /\ \A d \in Waiters :
            oCaller'[d].lim = (IF oCaller'[d].at \in {"idle", "create"} THEN 0 ELSE 1)
       /\ \A d \in Waiters : oCaller'[d].lim <= oEntry'
       /\ \A d \in Waiters : oCaller'[d].limit = oCaller[d].limit
       /\ oCaller'[c] = x /\ \A d \in Waiters : d # c => oCaller'[d] = oCaller[d]
  <2>1. x.lim = (IF x.at \in {"idle", "create"} THEN 0 ELSE 1) /\ x.lim <= oEntry' /\ oEntry <= oEntry'
    BY <1>1, <1>3, <1>9
  <2> QED
    BY <1>0, <1>1, <1>3, <1>8, <1>9, <2>1, CallerMoves
<1>11. LimiterTypes'
  BY <1>0, <1>1, <1>3, <1>6, <1>10 DEF LimiterTypes
<1>12. Rates'
  <2>1. oLimiters'[1].tokens = oLimiters[1].tokens /\ oLimiters'[1].limit \in {oLimiters[1].limit, l}
    BY <1>1, <1>5, <1>6
  <2> QED
    BY <1>0, <1>1, <1>2, <1>3, <1>6, <1>9, <1>10, <2>1, RatesElsewhere
<1>13. Retuned'
  <2>1. \A d \in Waiters : Limiter!Inside(d)' => Limiter!Inside(d)
    BY <1>1, <1>10 DEF Limiter!Inside
  <2>2. Limiter!Inside(c)
    BY <1>1 DEF Limiter!Inside
  <2>3. ASSUME ~oOverlapped PROVE \A d \in Waiters : Limiter!Inside(d) => oCaller[d].limit = l
    BY <1>0, <1>2, <2>2, <2>3 DEF Retuned
  <2>4. ASSUME ~oOverlapped, oCaller[c].at = "burst" PROVE oLimiters[1].limit = l
    BY <1>0, <1>2, <1>3, <2>4 DEF Retuned
  <2>5. ASSUME ~oOverlapped, NEW d \in Waiters, NEW b \in Waiters, Limiter!Inside(d)', Limiter!Inside(b)'
        PROVE  oCaller'[d].limit = oCaller'[b].limit
    BY <1>10, <2>1, <2>3, <2>5
  <2>6. ASSUME ~oOverlapped, NEW d \in Waiters, oCaller'[d].at = "burst" PROVE e.limit = oCaller'[d].limit
    <3>1. oCaller'[d].limit = l
      BY <1>10, <2>1, <2>3, <2>6 DEF Limiter!Inside
    <3>2. e.limit = l
      BY <1>1, <1>5, <2>4, <2>6
    <3> QED
      BY <3>1, <3>2
  <2>7. ASSUME ~oOverlapped PROVE e.burst = e.limit \/ \E b \in Waiters : oCaller'[b].at = "burst"
    BY <1>1, <1>5, <1>7, <1>9, <1>10, <2>4, <2>7
  <2> QED
    BY <1>1, <1>6, <2>5, <2>6, <2>7 DEF Retuned
<1> QED
  BY <1>11, <1>12, <1>13 DEF LimiterInv

(* A caller that gives up returns its token at most.                       *)
LEMMA GiveUpStep == ASSUME LimiterInv, NEW c \in Waiters, Limiter!Cancel(c) PROVE LimiterInv'
<1>0. LimiterTypes /\ Rates /\ Retuned
  BY DEF LimiterInv
<1>1. /\ UNCHANGED <<oEntry, oNow, oOverlapped>> /\ oCaller[c].at \in {"wait", "sleep"}
      /\ oCaller' = [oCaller EXCEPT ![c].at = "refused"]
  BY DEF Limiter!Cancel, Limiter!Goto
<1>2. /\ oCaller[c].lim = 1 /\ oEntry = 1 /\ DOMAIN oLimiters = {1}
      /\ oLimiters[1] \in Buckets /\ oLimiters \in Seq(Buckets) /\ Len(oLimiters) = 1
  <2>1. /\ oCaller[c].lim = 1 /\ oCaller[c].lim <= oEntry /\ oEntry \in {0, 1} /\ Len(oLimiters) = oEntry
        /\ oLimiters \in Seq(Buckets)
    BY <1>0, <1>1 DEF LimiterTypes
  <2>2. oEntry = 1 /\ DOMAIN oLimiters = {1}
    BY <2>1
  <2> QED
    BY <1>0, <2>1, <2>2, TheBucket
<1>3. \/ oLimiters' = oLimiters
      \/ oCaller[c].at = "sleep" /\ oLimiters' = [oLimiters EXCEPT ![1].tokens = @ + 1]
  BY <1>2 DEF Limiter!Cancel
<1>4. PICK e \in Buckets :
        /\ oLimiters' = [oLimiters EXCEPT ![1] = e]
        /\ e.limit = oLimiters[1].limit /\ e.burst = oLimiters[1].burst
        /\ \/ e.tokens = oLimiters[1].tokens
           \/ e.tokens = oLimiters[1].tokens + 1 /\ oCaller[c].at = "sleep"
  <2>1. CASE oLimiters' = oLimiters
    <3>1. oLimiters' = [oLimiters EXCEPT ![1] = oLimiters[1]]
      BY <1>2, <2>1
    <3> QED
      BY <1>2, <3>1
  <2>2. CASE oCaller[c].at = "sleep" /\ oLimiters' = [oLimiters EXCEPT ![1].tokens = @ + 1]
    <3>1. oLimiters' = [oLimiters EXCEPT ![1] = [oLimiters[1] EXCEPT !.tokens = @ + 1]]
      BY <1>2, <2>2
    <3>2. [oLimiters[1] EXCEPT !.tokens = @ + 1] \in Buckets
      BY <1>2 DEF Buckets
    <3>3. /\ [oLimiters[1] EXCEPT !.tokens = @ + 1].limit = oLimiters[1].limit
          /\ [oLimiters[1] EXCEPT !.tokens = @ + 1].burst = oLimiters[1].burst
          /\ [oLimiters[1] EXCEPT !.tokens = @ + 1].tokens = oLimiters[1].tokens + 1
      BY <1>2 DEF Buckets
    <3> QED
      BY <2>2, <3>1, <3>2, <3>3
  <2> QED
    BY <1>3, <2>1, <2>2
<1>5. oLimiters' \in Seq(Buckets) /\ Len(oLimiters') = 1 /\ DOMAIN oLimiters' = {1} /\ oLimiters'[1] = e
  <2>1. oLimiters' \in [DOMAIN oLimiters -> Buckets]
    BY <1>2, <1>4
  <2> QED
    BY <1>2, <1>4, <2>1, SameBuckets
<1>6. PICK x : oCaller' = [oCaller EXCEPT ![c] = x] /\ x = [oCaller[c] EXCEPT !.at = "refused"]
  BY <1>0, <1>1 DEF LimiterTypes
<1>7. /\ x \in [limit : Limits, at : Places, lim : {0, 1}, until : Nat]
      /\ x.limit = oCaller[c].limit /\ x.lim = 1 /\ x.at = "refused"
  BY <1>0, <1>2, <1>6 DEF LimiterTypes, Places
<1>8. /\ oCaller' \in [Waiters -> [limit : Limits, at : Places, lim : {0, 1}, until : Nat]]
      /\ \A d \in Waiters :
           oCaller'[d].lim = (IF oCaller'[d].at \in {"idle", "create"} THEN 0 ELSE 1)
      /\ \A d \in Waiters : oCaller'[d].lim <= oEntry'
      /\ \A d \in Waiters : oCaller'[d].limit = oCaller[d].limit
      /\ oCaller'[c] = x /\ \A d \in Waiters : d # c => oCaller'[d] = oCaller[d]
  <2>1. x.lim = (IF x.at \in {"idle", "create"} THEN 0 ELSE 1) /\ x.lim <= oEntry' /\ oEntry <= oEntry'
    BY <1>1, <1>2, <1>7
  <2> QED
    BY <1>0, <1>1, <1>2, <1>6, <1>7, <2>1, CallerMoves
<1>9. LimiterTypes'
  BY <1>0, <1>1, <1>2, <1>5, <1>8 DEF LimiterTypes
<1>10. Rates'
  BY <1>0, <1>1, <1>2, <1>4, <1>5, <1>7, <1>8, RatesElsewhere
<1>11. Retuned'
  <2>1. \A d \in Waiters : /\ oCaller'[d].at = "burst" <=> oCaller[d].at = "burst"
                           /\ Limiter!Inside(d)' => Limiter!Inside(d)
    BY <1>1, <1>7, <1>8 DEF Limiter!Inside
  <2> QED
    BY <1>0, <1>1, <1>2, <1>4, <1>5, <1>8, <2>1, RetunedKept
<1> QED
  BY <1>9, <1>10, <1>11 DEF LimiterInv

(* A token now, or one for a second to come.                               *)
LEMMA WaitStep == ASSUME LimiterInv, NEW c \in Waiters, Limiter!Wait(c) PROVE LimiterInv'
<1>0. LimiterTypes /\ Rates /\ Retuned
  BY DEF LimiterInv
<1>1. /\ UNCHANGED <<oEntry, oNow, oOverlapped>> /\ oCaller[c].at = "wait"
  BY DEF Limiter!Wait
<1>2. /\ oCaller[c].lim = 1 /\ oEntry = 1 /\ DOMAIN oLimiters = {1}
      /\ oLimiters[1] \in Buckets /\ oLimiters \in Seq(Buckets) /\ Len(oLimiters) = 1
  <2>1. /\ oCaller[c].lim = 1 /\ oCaller[c].lim <= oEntry /\ oEntry \in {0, 1} /\ Len(oLimiters) = oEntry
        /\ oLimiters \in Seq(Buckets)
    BY <1>0, <1>1 DEF LimiterTypes
  <2>2. oEntry = 1 /\ DOMAIN oLimiters = {1}
    BY <2>1
  <2> QED
    BY <1>0, <2>1, <2>2, TheBucket
<1>3. PICK m : m = oLimiters[1]
  OBVIOUS
<1>4. PICK left : left = (IF m.tokens > m.burst THEN m.burst ELSE m.tokens) - 1
  OBVIOUS
<1>5. PICK w : w = (IF left >= 0 THEN 0 ELSE (m.limit - 1 - left) \div m.limit)
  OBVIOUS
<1>6. /\ oLimiters' = [oLimiters EXCEPT ![1] = [m EXCEPT !.tokens = left, !.lastEvent = oNow + w]]
      /\ oCaller' = [oCaller EXCEPT ![c].until = oNow + w,
                                   ![c].at = IF w = 0 THEN "admitted" ELSE "sleep"]
  BY <1>2, <1>3, <1>4, <1>5 DEF Limiter!Wait
<1>7. /\ m.limit \in Nat \ {0} /\ m.tokens \in Int /\ m.burst \in Nat \ {0} /\ m \in Buckets
      /\ left \in Int /\ left <= m.tokens - 1 /\ oNow \in Nat
  <2>1. m.limit \in Nat \ {0} /\ m.tokens \in Int /\ m.burst \in Nat \ {0} /\ m \in Buckets
    BY <1>0, <1>2, <1>3, TheBucket
  <2> QED
    BY <1>0, <1>4, <2>1, ServicesAssumption DEF LimiterTypes
<1>8. w \in Nat /\ (left < 0 => m.limit * w >= -left)
  <2>1. PICK l \in Nat \ {0} : l = m.limit
    BY <1>7
  <2>2. CASE left >= 0
    BY <1>5, <1>7, <2>2
  <2>3. CASE left < 0
    <3>1. (l - 1 - left) \div l \in Nat /\ l * ((l - 1 - left) \div l) >= -left
      BY <1>7, <2>3, WaitCovers
    <3>2. w = (l - 1 - left) \div l
      BY <1>5, <1>7, <2>1, <2>3
    <3> QED
      BY <2>1, <3>1, <3>2
  <2> QED
    BY <1>7, <2>2, <2>3
<1>9. PICK e : e = [m EXCEPT !.tokens = left, !.lastEvent = oNow + w]
  OBVIOUS
<1>10. e \in Buckets /\ e.tokens = left /\ e.limit = m.limit /\ e.burst = m.burst
  <2>1. oNow + w \in Nat
    BY <1>7, <1>8
  <2> QED
    BY <1>7, <1>9, <2>1 DEF Buckets
<1>11. oLimiters' \in Seq(Buckets) /\ Len(oLimiters') = 1 /\ DOMAIN oLimiters' = {1} /\ oLimiters'[1] = e
  <2>1. oLimiters' \in [DOMAIN oLimiters -> Buckets]
    BY <1>2, <1>6, <1>9, <1>10
  <2> QED
    BY <1>2, <1>6, <1>9, <2>1, SameBuckets
<1>12. PICK x : /\ oCaller' = [oCaller EXCEPT ![c] = x]
                /\ x = [oCaller[c] EXCEPT !.until = oNow + w,
                                          !.at = IF w = 0 THEN "admitted" ELSE "sleep"]
  BY <1>0, <1>6 DEF LimiterTypes
<1>13. /\ x \in [limit : Limits, at : Places, lim : {0, 1}, until : Nat]
       /\ x.limit = oCaller[c].limit /\ x.lim = 1 /\ x.until = oNow + w
       /\ x.at = (IF w = 0 THEN "admitted" ELSE "sleep")
  <2>1. oCaller[c] \in [limit : Limits, at : Places, lim : {0, 1}, until : Nat]
    BY <1>0 DEF LimiterTypes
  <2>2. oNow + w \in Nat
    BY <1>7, <1>8
  <2> QED
    BY <1>2, <1>12, <2>1, <2>2 DEF Places
<1>14. /\ oCaller' \in [Waiters -> [limit : Limits, at : Places, lim : {0, 1}, until : Nat]]
       /\ \A d \in Waiters :
            oCaller'[d].lim = (IF oCaller'[d].at \in {"idle", "create"} THEN 0 ELSE 1)
       /\ \A d \in Waiters : oCaller'[d].lim <= oEntry'
       /\ \A d \in Waiters : oCaller'[d].limit = oCaller[d].limit
       /\ oCaller'[c] = x /\ \A d \in Waiters : d # c => oCaller'[d] = oCaller[d]
  <2>1. x.lim = (IF x.at \in {"idle", "create"} THEN 0 ELSE 1) /\ x.lim <= oEntry' /\ oEntry <= oEntry'
    BY <1>1, <1>2, <1>13
  <2> QED
    BY <1>0, <1>1, <1>2, <1>12, <1>13, <2>1, CallerMoves
<1>15. LimiterTypes'
  BY <1>0, <1>1, <1>2, <1>11, <1>14 DEF LimiterTypes
<1>16. Begun' = Begun /\ c \in Begun /\ Reserved' = Reserved \cup {c}
  BY <1>1, <1>13, <1>14 DEF Begun, Reserved
<1>17. ASSUME NEW t \in Nat, t >= oNow
       PROVE  /\ t < oNow + w => Served(t)' \subseteq Served(t)
              /\ Served(t)' \subseteq Reserved \cup {c}
  <2>1. t < oNow + w => w # 0
    BY <1>7, <1>8, <1>17
  <2>2. c \notin Served(t)' \/ t >= oNow + w
    BY <1>7, <1>8, <1>13, <1>14, <2>1 DEF Served
  <2>3. \A d \in Waiters : d # c => (d \in Served(t)' <=> d \in Served(t))
    BY <1>14 DEF Served
  <2>4. Served(t) \subseteq Reserved
    BY <1>0, Seats
  <2>5. Served(t)' \subseteq Waiters
    BY DEF Served
  <2>6. t \in Int /\ oNow + w \in Int
    BY <1>7, <1>8
  <2> QED
    BY <2>2, <2>3, <2>4, <2>5, <2>6
<1>18. Rates'
  <2>1. PICK b \in Begun : Within(oCaller[b].limit)
    BY <1>0, <1>16 DEF Rates
  <2>2. PICK k : k = oCaller[b].limit
    OBVIOUS
  <2>3. /\ k \in Nat /\ Within(k) /\ oCaller'[b].limit = k
        /\ m.limit <= k /\ m.tokens + Cardinality(Reserved) <= k * (1 + oNow)
    BY <1>0, <1>2, <1>3, <1>14, <2>1, <2>2, Seats DEF Begun, Within
  <2>4. /\ Cardinality(Reserved) \in Nat /\ Cardinality(Reserved \cup {c}) \in Nat
        /\ Cardinality(Reserved \cup {c}) <= Cardinality(Reserved) + 1
    <3>1. Reserved \subseteq Begun /\ Reserved \cup {c} \subseteq Begun
      BY <1>0, <1>16, Seats
    <3> QED
      BY <1>0, <1>16, <3>1, Seats
  <2>5. /\ k * (1 + oNow) \in Int
        /\ left + Cardinality(Reserved \cup {c}) <= k * (1 + oNow)
    <3>1. k * (1 + oNow) \in Int
      BY <1>7, <2>3
    <3> QED
      BY <1>7, <2>3, <2>4, <3>1
  <2>6. ASSUME NEW t \in Nat, t >= oNow PROVE Cardinality(Served(t)') <= k * (1 + t)
    <3>1. k * (1 + t) \in Int
      BY <2>3
    <3>2. CASE t < oNow + w
      <4>1. Served(t)' \subseteq Served(t) /\ Served(t) \subseteq Begun /\ Served(t)' \subseteq Begun
        <5>1. Served(t) \subseteq Begun
          BY <1>0, Seats
        <5> QED
          BY <1>17, <2>6, <3>2, <5>1
      <4>2. /\ Cardinality(Served(t)') <= Cardinality(Served(t))
            /\ Cardinality(Served(t)') \in Nat /\ Cardinality(Served(t)) \in Nat
        BY <1>0, <4>1, Seats
      <4>3. Cardinality(Served(t)) <= k * (1 + t)
        BY <2>3, <2>6 DEF Within
      <4> QED
        BY <3>1, <4>2, <4>3
    <3>3. CASE t >= oNow + w
      <4>1. Served(t)' \subseteq Reserved \cup {c} /\ Reserved \cup {c} \subseteq Begun
        BY <1>0, <1>16, <1>17, <2>6, Seats
      <4>2. /\ Cardinality(Served(t)') <= Cardinality(Reserved \cup {c})
            /\ Cardinality(Served(t)') \in Nat
        BY <1>0, <4>1, Seats
      <4>3. Cardinality(Served(t)') <= k * (1 + oNow) - left
        BY <1>7, <2>4, <2>5, <4>2
      <4>4. -left <= k * w
        <5>1. m.limit * w <= k * w /\ k * w \in Int /\ m.limit * w \in Int /\ k * w >= 0
          BY <1>7, <1>8, <2>3
        <5> QED
          BY <1>7, <1>8, <5>1
      <4>5. k * (1 + oNow) + k * w <= k * (1 + t)
        <5>1. k * (1 + oNow) + k * w = k * (1 + oNow + w)
          BY <1>7, <1>8, <2>3
        <5>2. 1 + oNow + w <= 1 + t /\ 1 + oNow + w \in Nat /\ 1 + t \in Nat
          BY <1>7, <1>8, <2>6, <3>3
        <5>3. k * (1 + oNow + w) <= k * (1 + t)
          BY <2>3, <5>2
        <5> QED
          BY <5>1, <5>3
      <4>6. k * w \in Int
        BY <1>8, <2>3
      <4> QED
        BY <1>7, <2>5, <3>1, <4>2, <4>3, <4>4, <4>5, <4>6
    <3> QED
      BY <1>7, <1>8, <3>2, <3>3
  <2>7. \A d \in Begun' : oCaller'[d].limit <= k
    BY <1>14, <1>16, <2>3 DEF Within, Begun
  <2>8. oLimiters'[1].limit <= k /\ oLimiters'[1].tokens + Cardinality(Reserved') <= k * (1 + oNow)
    BY <1>10, <1>11, <1>16, <2>3, <2>5
  <2>9. Within(k)'
    BY <1>1, <1>11, <2>6, <2>7, <2>8 DEF Within
  <2> QED
    BY <1>0, <1>1, <1>16, <2>3, <2>9 DEF Rates
<1>19. Retuned'
  <2>1. \A d \in Waiters : /\ oCaller'[d].at = "burst" <=> oCaller[d].at = "burst"
                           /\ Limiter!Inside(d)' => Limiter!Inside(d)
    BY <1>1, <1>13, <1>14 DEF Limiter!Inside
  <2> QED
    BY <1>0, <1>1, <1>2, <1>3, <1>10, <1>11, <1>14, <2>1, RetunedKept
<1> QED
  BY <1>15, <1>18, <1>19 DEF LimiterInv

(* A second adds the rate to the bucket.                                   *)
LEMMA SecondStep == ASSUME LimiterInv, Limiter!Tick PROVE LimiterInv'
<1>0. LimiterTypes /\ Rates /\ Retuned
  BY DEF LimiterInv
<1>1. /\ oNow < MaxTime /\ oNow' = oNow + 1 /\ UNCHANGED <<oEntry, oCaller, oOverlapped>>
      /\ oLimiters' = [i \in DOMAIN oLimiters |->
           [oLimiters[i] EXCEPT !.tokens =
             IF oLimiters[i].tokens + oLimiters[i].limit > oLimiters[i].burst
             THEN oLimiters[i].burst ELSE oLimiters[i].tokens + oLimiters[i].limit]]
  BY DEF Limiter!Tick
<1>2. oNow \in Nat /\ MaxTime \in Nat /\ oNow + 1 \in 0 .. MaxTime
  BY <1>0, <1>1, ServicesAssumption DEF LimiterTypes
<1>3. ASSUME NEW i \in DOMAIN oLimiters
      PROVE  /\ oLimiters'[i] \in Buckets
             /\ oLimiters'[i].limit = oLimiters[i].limit /\ oLimiters'[i].burst = oLimiters[i].burst
             /\ oLimiters'[i].tokens \in Int
             /\ oLimiters'[i].tokens <= oLimiters[i].tokens + oLimiters[i].limit
  <2>1. /\ oLimiters[i] \in Buckets /\ oLimiters[i].limit \in Nat /\ oLimiters[i].tokens \in Int
        /\ oLimiters[i].burst \in Nat
    BY <1>0, TheBucket
  <2>2. PICK n : n = (IF oLimiters[i].tokens + oLimiters[i].limit > oLimiters[i].burst
                      THEN oLimiters[i].burst ELSE oLimiters[i].tokens + oLimiters[i].limit)
    OBVIOUS
  <2>3. n \in Int /\ n <= oLimiters[i].tokens + oLimiters[i].limit
    BY <2>1, <2>2
  <2>4. oLimiters'[i] = [oLimiters[i] EXCEPT !.tokens = n]
    BY <1>1, <2>2
  <2> QED
    BY <2>1, <2>3, <2>4 DEF Buckets
<1>4. oLimiters' \in Seq(Buckets) /\ Len(oLimiters') = Len(oLimiters) /\ DOMAIN oLimiters' = DOMAIN oLimiters
  <2>1. oLimiters' \in [DOMAIN oLimiters -> Buckets] /\ oLimiters \in Seq(Buckets)
    BY <1>0, <1>1, <1>3 DEF LimiterTypes
  <2> QED
    BY <2>1, SameBuckets
<1>5. LimiterTypes'
  BY <1>0, <1>1, <1>2, <1>4 DEF LimiterTypes
<1>6. Begun' = Begun /\ Reserved' = Reserved /\ \A t : Served(t)' = Served(t)
  BY <1>1 DEF Begun, Reserved, Served
<1>7. Rates'
  <2>1. ASSUME Begun # {} PROVE \E b \in Begun : Within(oCaller[b].limit)'
    <3>1. PICK b \in Begun : Within(oCaller[b].limit)
      BY <1>0, <2>1 DEF Rates
    <3>2. PICK k : k = oCaller[b].limit
      OBVIOUS
    <3>3. k \in Nat /\ Within(k) /\ oCaller'[b].limit = k
      BY <1>0, <1>1, <3>1, <3>2, Seats DEF Begun
    <3>4. ASSUME NEW i \in DOMAIN oLimiters
          PROVE  /\ oLimiters'[i].limit <= k
                 /\ oLimiters'[i].tokens + Cardinality(Reserved) <= k * (1 + (oNow + 1))
      <4>1. oLimiters[i].limit <= k /\ oLimiters[i].tokens + Cardinality(Reserved) <= k * (1 + oNow)
        BY <3>3 DEF Within
      <4>2. k * (1 + (oNow + 1)) = k * (1 + oNow) + k /\ k * (1 + oNow) \in Int
        BY <1>2, <3>3
      <4>3. Cardinality(Reserved) \in Nat /\ oLimiters[i].tokens \in Int /\ oLimiters[i].limit \in Nat
        BY <1>0, Seats, TheBucket
      <4> QED
        BY <1>3, <3>3, <4>1, <4>2, <4>3
    <3>5. \A t \in Nat : t >= oNow + 1 => Cardinality(Served(t)) <= k * (1 + t)
      BY <1>2, <3>3 DEF Within
    <3>6. Within(k)'
      BY <1>1, <1>4, <1>6, <3>3, <3>4, <3>5 DEF Within
    <3>7. Within(oCaller[b].limit)'
      BY <3>3, <3>6
    <3> QED
      BY <3>7
  <2> QED
    BY <1>0, <1>1, <1>6, <2>1 DEF Rates
<1>8. Retuned'
  <2>1. \A d \in Waiters : Limiter!Inside(d)' => Limiter!Inside(d)
    BY <1>1 DEF Limiter!Inside
  <2> QED
    BY <1>0, <1>1, <1>3, <1>4, <2>1, RetunedKept
<1> QED
  BY <1>5, <1>7, <1>8 DEF LimiterInv

LEMMA LimiterStart == ASSUME Limiter!Init PROVE LimiterInv
<1>1. oLimiters = <<>> /\ oEntry = 0 /\ oNow = 0 /\ oOverlapped = FALSE
  BY DEF Limiter!Init
<1>2. oCaller \in [Waiters -> [limit : Limits, at : {"idle"}, lim : {0}, until : {0}]]
  BY DEF Limiter!Init
<1>3. LimiterTypes
  <2>1. oLimiters \in Seq(Buckets) /\ Len(oLimiters) = 0
    BY <1>1
  <2>2. \A c \in Waiters : oCaller[c].at = "idle" /\ oCaller[c].lim = 0
    BY <1>2
  <2>3. oCaller \in [Waiters -> [limit : Limits, at : Places, lim : {0, 1}, until : Nat]]
    BY <1>2 DEF Places
  <2>4. oNow \in 0 .. MaxTime
    BY <1>1, ServicesAssumption
  <2>5. \A c \in Waiters : /\ oCaller[c].lim = (IF oCaller[c].at \in {"idle", "create"} THEN 0 ELSE 1)
                           /\ oCaller[c].lim <= oEntry
    BY <1>1, <2>2
  <2> QED
    BY <1>1, <2>1, <2>3, <2>4, <2>5 DEF LimiterTypes
<1>4. Rates
  <2>1. Begun = {}
    BY <1>2 DEF Begun
  <2> QED
    BY <1>1, <2>1, FS_EmptySet DEF Rates
<1>5. Retuned
  <2>1. \A c \in Waiters : ~Limiter!Inside(c) /\ oCaller[c].at # "burst"
    BY <1>2 DEF Limiter!Inside
  <2>2. DOMAIN oLimiters = {}
    BY <1>1
  <2> QED
    BY <2>1, <2>2 DEF Retuned
<1> QED
  BY <1>3, <1>4, <1>5 DEF LimiterInv

(* The inductive invariant of the limiter: the types, the tokens given by  *)
(* each second, and who is about to retune the bucket.                     *)
THEOREM LimiterInvariant == Spec => []LimiterInv
<1>1. Init => LimiterInv
  BY LimiterStart DEF Init
<1>2. LimiterInv /\ [Next]_vars => LimiterInv'
  <2> SUFFICES ASSUME LimiterInv, [Next]_vars PROVE LimiterInv'
    OBVIOUS
  <2>1. CASE Limiter!Next
    BY <2>1, LookupStep, CreateStep, QuietStep, RetuneStep, WaitStep, GiveUpStep, SecondStep
       DEF Limiter!Next
  <2>2. CASE UNCHANGED limitVars
    BY <2>2 DEF limitVars, LimiterInv, LimiterTypes, Rates, Within, Begun, Reserved, Served, Retuned,
                Limiter!Inside
  <2> QED
    BY <2>1, <2>2, OneInFocus
<1> QED
  BY <1>1, <1>2, PTL DEF Spec

(* memory.go: the callers that share a bucket get a burst and the rate of  *)
(* the highest limit any of them brought, and only overlapping callers     *)
(* leave a bucket with the limit of one and the burst of another.          *)
THEOREM ServicesBucketIsShared == Spec => []BucketIsShared
<1>1. LimiterInv => Limiter!RateIsShared
  <2> SUFFICES ASSUME LimiterInv
               PROVE  Admitted # {} =>
                        \E c \in Begun : Cardinality(Admitted) <= oCaller[c].limit * (1 + oNow)
    BY DEF Limiter!RateIsShared, Limiter!Cardinality, Cardinality, Begun, Admitted
  <2> HAVE Admitted # {}
  <2>1. LimiterTypes /\ Rates /\ oNow \in Nat
    BY ServicesAssumption DEF LimiterInv, LimiterTypes
  <2>2. Begun # {}
    BY DEF Admitted, Begun
  <2>3. PICK c \in Begun : Within(oCaller[c].limit)
    BY <2>1, <2>2 DEF Rates
  <2>4. Admitted \subseteq Served(oNow) /\ Served(oNow) \subseteq Begun
    BY <2>1, Seats DEF Served, Admitted
  <2>5. /\ Cardinality(Admitted) <= Cardinality(Served(oNow))
        /\ Cardinality(Admitted) \in Nat /\ Cardinality(Served(oNow)) \in Nat
    <3>1. Admitted \subseteq Begun
      BY <2>4
    <3> QED
      BY <2>1, <2>4, <3>1, Seats
  <2>6. Cardinality(Served(oNow)) <= oCaller[c].limit * (1 + oNow)
    BY <2>1, <2>3 DEF Within
  <2>7. oCaller[c].limit * (1 + oNow) \in Int
    <3>1. oCaller[c].limit \in Nat
      BY <2>1, Seats DEF Begun
    <3> QED
      BY <2>1, <3>1
  <2>8. Cardinality(Admitted) <= oCaller[c].limit * (1 + oNow)
    BY <2>5, <2>6, <2>7
  <2> QED
    BY <2>8
<1>2. LimiterInv => Limiter!MixedOnlyByOverlap
  BY DEF LimiterInv, Retuned, Limiter!MixedOnlyByOverlap
<1>3. LimiterInv => BucketIsShared
  BY <1>1, <1>2 DEF BucketIsShared
<1> QED
  BY <1>3, LimiterInvariant, PTL

-----------------------------------------------------------------------------
(* The time series.                                                        *)
StatementNames == {"table", "hypertable", "retention", "compress", "policy", "index", "insert", "drop"}
Kinds == {"hypertable", "retention", "policy", "index"}
Chunks == {r.chunk : r \in MeasurementRequests} \cup {0}
Retentions == {r.retention : r \in MeasurementRequests} \cup {0}
Compressions == {r.compression : r \in MeasurementRequests} \cup {0}
Written == UNION {r.points : r \in MeasurementRequests}
Tables == [exists : BOOLEAN, hyper : {n \in Chunks : n >= 0},
           retention : {n \in Retentions : n >= 0}, compress : BOOLEAN,
           policy : {n \in Compressions : n >= 0}, rows : SUBSET Written]
ElementsOf(s) == {s[i] : i \in DOMAIN s}
Ahead(c) == ElementsOf(mCall[c].todo)

SeriesTypes ==
  /\ mTables \in [Names -> Tables]
  /\ mIndexOn \in [Names -> Names \cup {"none"}]
  /\ mCall \in [Callers -> [req : MeasurementRequests, todo : Seq(StatementNames),
                            result : {"idle", "running", "ok", "error"}]]
  /\ \A c \in Callers : mCall[c].todo = <<>> <=> mCall[c].result # "running"
  /\ mKept \in [Callers -> SUBSET Kinds]
  /\ mDropped \subseteq Callers /\ mCalls \in 0 .. MaxCalls

(* An interval is the one asked for, or was there before.                  *)
Holds(kept, s, interval, asked) == interval > 0 /\ (s \in kept \/ interval = asked)

(* The statements a creation has left behind did what they were for, and   *)
(* only a drop of the name, as the database folds it, undoes it: whoever   *)
(* owns the index, its name folds to the one the index is found under.     *)
Progress(c) ==
  LET req == mCall[c].req
      t == mTables[req.name]
  IN req.op = "create" /\ mCall[c].result \in {"running", "ok"} /\ c \notin mDropped
       /\ Fold(req.name) = req.name =>
       /\ "hypertable" \in Ahead(c) \/ Holds(mKept[c], "hypertable", t.hyper, req.chunk)
       /\ \/ "index" \in Ahead(c)
          \/ /\ mIndexOn[req.name] # "none"
             /\ "index" \in mKept[c] \/ mIndexOn[req.name] = req.name
       /\ req.retention > 0 =>
            "retention" \in Ahead(c) \/ Holds(mKept[c], "retention", t.retention, req.retention)
       /\ req.compression > 0 =>
            "policy" \in Ahead(c) \/ Holds(mKept[c], "policy", t.policy, req.compression)

(* A policy is added only when one is asked for.                           *)
Due(todo, r) ==
  /\ "retention" \in ElementsOf(todo) => r.retention > 0
  /\ "policy" \in ElementsOf(todo) => r.compression > 0

SeriesInv ==
  /\ SeriesTypes
  /\ \A c \in Callers : Due(mCall[c].todo, mCall[c].req)
  /\ \A n \in Names : mIndexOn[n] # "none" => Fold(mIndexOn[n]) = n
  /\ \A c \in Callers : Progress(c)

LEMMA Members ==
  ASSUME NEW S, NEW s \in Seq(S)
  PROVE  \A e : e \in ElementsOf(s) <=> \E i \in 1 .. Len(s) : s[i] = e
<1>1. DOMAIN s = 1 .. Len(s)
  OBVIOUS
<1> QED
  BY <1>1 DEF ElementsOf

LEMMA Joined ==
  ASSUME NEW S, NEW s \in Seq(S), NEW t \in Seq(S)
  PROVE  s \o t \in Seq(S) /\ ElementsOf(s \o t) = ElementsOf(s) \cup ElementsOf(t)
<1>1. s \o t \in Seq(S) /\ Len(s \o t) = Len(s) + Len(t)
  OBVIOUS
<1>2. /\ \A i \in 1 .. Len(s) : (s \o t)[i] = s[i]
      /\ \A i \in 1 .. Len(t) : (s \o t)[Len(s) + i] = t[i]
  OBVIOUS
<1>3. ASSUME NEW i \in 1 .. Len(s \o t)
      PROVE  (s \o t)[i] \in ElementsOf(s) \cup ElementsOf(t)
  <2>1. CASE i <= Len(s)
    BY <1>1, <1>2, <2>1 DEF ElementsOf
  <2>2. CASE i > Len(s)
    <3>1. i - Len(s) \in 1 .. Len(t) /\ i = Len(s) + (i - Len(s))
      BY <1>1, <2>2
    <3>2. (s \o t)[i] = t[i - Len(s)]
      BY <1>2, <3>1
    <3> QED
      BY <3>1, <3>2 DEF ElementsOf
  <2> QED
    BY <1>1, <2>1, <2>2
<1>4. ASSUME NEW e \in ElementsOf(s) \cup ElementsOf(t) PROVE \E i \in 1 .. Len(s \o t) : (s \o t)[i] = e
  <2>1. CASE e \in ElementsOf(s)
    BY <1>1, <1>2, <2>1 DEF ElementsOf
  <2>2. CASE e \in ElementsOf(t)
    <3>1. PICK i \in 1 .. Len(t) : t[i] = e
      BY <2>2 DEF ElementsOf
    <3>2. Len(s) + i \in 1 .. Len(s \o t) /\ (s \o t)[Len(s) + i] = e
      BY <1>1, <1>2, <3>1
    <3> QED
      BY <3>2
  <2> QED
    BY <2>1, <2>2
<1>5. \A e : e \in ElementsOf(s \o t) <=> \E i \in 1 .. Len(s \o t) : (s \o t)[i] = e
  BY <1>1, Members
<1>6. \A e : e \in ElementsOf(s \o t) <=> e \in ElementsOf(s) \cup ElementsOf(t)
  BY <1>3, <1>4, <1>5
<1> QED
  BY <1>1, <1>6

LEMMA NoneOrFew ==
  /\ <<>> \in Seq(StatementNames) /\ ElementsOf(<<>>) = {}
  /\ \A a \in StatementNames : <<a>> \in Seq(StatementNames) /\ ElementsOf(<<a>>) = {a}
  /\ \A a, b \in StatementNames : <<a, b>> \in Seq(StatementNames) /\ ElementsOf(<<a, b>>) = {a, b}
<1>1. <<>> \in Seq(StatementNames) /\ ElementsOf(<<>>) = {}
  BY DEF ElementsOf
<1>2. ASSUME NEW a \in StatementNames PROVE <<a>> \in Seq(StatementNames) /\ ElementsOf(<<a>>) = {a}
  BY DEF ElementsOf
<1>3. ASSUME NEW a \in StatementNames, NEW b \in StatementNames
      PROVE  <<a, b>> \in Seq(StatementNames) /\ ElementsOf(<<a, b>>) = {a, b}
  BY DEF ElementsOf
<1> QED
  BY <1>1, <1>2, <1>3

(* What an operation sends.                                                *)
LEMMA StatementsOf ==
  ASSUME NEW r \in MeasurementRequests
  PROVE  /\ Series!Statements(r) \in Seq(StatementNames)
         /\ Due(Series!Statements(r), r)
         /\ r.op = "create" =>
              /\ {"hypertable", "index"} \subseteq ElementsOf(Series!Statements(r))
              /\ r.retention > 0 => "retention" \in ElementsOf(Series!Statements(r))
              /\ r.compression > 0 => "policy" \in ElementsOf(Series!Statements(r))
<1>1. r.op \in {"create", "write", "drop"}
  BY SeriesAssumption
<1>2. CASE r.op = "create"
  <2>1. PICK a : a = (IF r.retention > 0 THEN <<"retention">> ELSE <<>>)
    OBVIOUS
  <2>2. PICK b : b = (IF r.compression > 0 THEN <<"compress", "policy">> ELSE <<>>)
    OBVIOUS
  <2>3. /\ a \in Seq(StatementNames) /\ b \in Seq(StatementNames)
        /\ ElementsOf(a) = (IF r.retention > 0 THEN {"retention"} ELSE {})
        /\ ElementsOf(b) = (IF r.compression > 0 THEN {"compress", "policy"} ELSE {})
    BY <2>1, <2>2, NoneOrFew DEF StatementNames
  <2>4. PICK first, last : first = <<"table", "hypertable">> /\ last = <<"index">>
    OBVIOUS
  <2>5. /\ first \in Seq(StatementNames) /\ last \in Seq(StatementNames)
        /\ ElementsOf(first) = {"table", "hypertable"} /\ ElementsOf(last) = {"index"}
    BY <2>4, NoneOrFew DEF StatementNames
  <2>6. PICK u : u = first \o a
    OBVIOUS
  <2>7. u \in Seq(StatementNames) /\ ElementsOf(u) = ElementsOf(first) \cup ElementsOf(a)
    <3>1. first \in Seq(StatementNames) /\ a \in Seq(StatementNames)
      BY <2>3, <2>5
    <3> QED
      BY <2>6, <3>1, Joined
  <2>8. PICK v : v = u \o b
    OBVIOUS
  <2>9. v \in Seq(StatementNames) /\ ElementsOf(v) = ElementsOf(u) \cup ElementsOf(b)
    BY <2>3, <2>7, <2>8, Joined
  <2>10. v \o last \in Seq(StatementNames) /\ ElementsOf(v \o last) = ElementsOf(v) \cup ElementsOf(last)
    BY <2>5, <2>9, Joined
  <2>11. Series!Statements(r) = v \o last
    BY <1>2, <2>1, <2>2, <2>4, <2>6, <2>8 DEF Series!Statements
  <2>12. ElementsOf(Series!Statements(r))
           = {"table", "hypertable", "index"}
             \cup (IF r.retention > 0 THEN {"retention"} ELSE {})
             \cup (IF r.compression > 0 THEN {"compress", "policy"} ELSE {})
    BY <2>3, <2>5, <2>7, <2>9, <2>10, <2>11
  <2>13. Due(Series!Statements(r), r)
    BY <2>12 DEF Due
  <2>14. Series!Statements(r) \in Seq(StatementNames)
    BY <2>10, <2>11
  <2> QED
    BY <2>12, <2>13, <2>14
<1>3. CASE r.op = "write"
  <2>1. Series!Statements(r) \in {<<>>, <<"insert">>}
    BY <1>3 DEF Series!Statements
  <2>2. <<"insert">> \in Seq(StatementNames) /\ ElementsOf(<<"insert">>) = {"insert"}
    BY NoneOrFew DEF StatementNames
  <2>3. CASE Series!Statements(r) = <<>>
    BY <1>3, <2>3, NoneOrFew DEF Due
  <2>4. CASE Series!Statements(r) = <<"insert">>
    BY <1>3, <2>2, <2>4 DEF Due
  <2> QED
    BY <2>1, <2>3, <2>4
<1>4. CASE r.op = "drop"
  <2>1. Series!Statements(r) = <<"drop">>
    BY <1>4 DEF Series!Statements
  <2>2. "drop" \in StatementNames
    BY DEF StatementNames
  <2> QED
    BY <1>4, <2>1, <2>2, NoneOrFew DEF Due
<1> QED
  BY <1>1, <1>2, <1>3, <1>4

LEMMA Front ==
  ASSUME NEW s \in Seq(StatementNames), s # <<>>
  PROVE  /\ Tail(s) \in Seq(StatementNames) /\ Head(s) \in ElementsOf(s)
         /\ ElementsOf(s) = {Head(s)} \cup ElementsOf(Tail(s)) /\ Head(s) \in StatementNames
<1>1. /\ Tail(s) \in Seq(StatementNames) /\ Len(s) \in Nat /\ Len(s) > 0 /\ Len(Tail(s)) = Len(s) - 1
      /\ Head(s) = s[1] /\ \A i \in 1 .. Len(s) - 1 : Tail(s)[i] = s[i + 1]
      /\ Head(s) \in StatementNames
  OBVIOUS
<1>2. ASSUME NEW i \in 1 .. Len(s), i # 1 PROVE s[i] \in ElementsOf(Tail(s))
  <2>1. i - 1 \in 1 .. Len(Tail(s)) /\ Tail(s)[i - 1] = s[i]
    BY <1>1, <1>2
  <2> QED
    BY <1>1, <2>1, Members
<1>3. ASSUME NEW i \in 1 .. Len(Tail(s)) PROVE Tail(s)[i] \in ElementsOf(s)
  <2>1. i + 1 \in 1 .. Len(s) /\ Tail(s)[i] = s[i + 1]
    BY <1>1
  <2> QED
    BY <2>1, Members
<1>4. 1 \in 1 .. Len(s)
  BY <1>1
<1>5. Head(s) \in ElementsOf(s)
  BY <1>1, <1>4, Members
<1>6. \A e : e \in ElementsOf(s) <=> e \in {Head(s)} \cup ElementsOf(Tail(s))
  <2>1. /\ \A e : e \in ElementsOf(s) <=> \E i \in 1 .. Len(s) : s[i] = e
        /\ \A e : e \in ElementsOf(Tail(s)) <=> \E i \in 1 .. Len(Tail(s)) : Tail(s)[i] = e
    BY <1>1, Members
  <2> QED
    BY <1>1, <1>2, <1>3, <1>5, <2>1
<1> QED
  BY <1>1, <1>5, <1>6

(* What a statement of another call, or of this one, leaves standing.      *)
Keeps(n) ==
  /\ mTables[n].hyper > 0 => mTables'[n].hyper = mTables[n].hyper
  /\ mTables[n].retention > 0 => mTables'[n].retention = mTables[n].retention
  /\ mTables[n].policy > 0 => mTables'[n].policy = mTables[n].policy
  /\ mIndexOn[n] # "none" => mIndexOn'[n] = mIndexOn[n]

LEMMA EffectTypes ==
  ASSUME SeriesInv, NEW c \in Callers, mCall[c].result = "running"
  PROVE  /\ mCall[c].req \in MeasurementRequests /\ mCall[c].req.name \in Names
         /\ Fold(mCall[c].req.name) \in Names
         /\ mCall[c].todo \in Seq(StatementNames) /\ mCall[c].todo # <<>>
         /\ Head(mCall[c].todo) \in StatementNames /\ Head(mCall[c].todo) \in Ahead(c)
         /\ Tail(mCall[c].todo) \in Seq(StatementNames)
         /\ Ahead(c) = {Head(mCall[c].todo)} \cup ElementsOf(Tail(mCall[c].todo))
<1>1. /\ mCall[c].req \in MeasurementRequests /\ mCall[c].todo \in Seq(StatementNames)
      /\ mCall[c].todo # <<>>
  BY DEF SeriesInv, SeriesTypes
<1>2. mCall[c].req.name \in Names /\ Fold(mCall[c].req.name) \in Names
  BY <1>1, SeriesAssumption, ServicesAssumption
<1> QED
  BY <1>1, <1>2, Front DEF Ahead

LEMMA EffectOnTables ==
  ASSUME SeriesInv, NEW c \in Callers, mCall[c].result = "running", Series!Effect(c)
  PROVE  /\ mTables' \in [Names -> Tables]
         /\ mIndexOn' \in [Names -> Names \cup {"none"}]
         /\ \A n \in Names : mIndexOn'[n] # "none" => Fold(mIndexOn'[n]) = n
         /\ mDropped \subseteq mDropped' /\ mDropped' \subseteq Callers
         /\ mKept' \in [Callers -> SUBSET Kinds]
         /\ \A d \in Callers : mKept[d] \subseteq mKept'[d]
         /\ \A n \in Names :
              Keeps(n) \/ \A d \in Callers : mCall[d].req.name = n /\ Fold(n) = n => d \in mDropped'
<1>1. PICK s, req, own, folded :
        /\ s = Head(mCall[c].todo) /\ req = mCall[c].req /\ own = req.name /\ folded = Fold(own)
  OBVIOUS
<1>2. /\ req \in MeasurementRequests /\ own \in Names /\ folded \in Names /\ s \in StatementNames
      /\ s \in Ahead(c)
  BY <1>1, EffectTypes
<1>3. /\ mTables' = Series!After(s, req) /\ mIndexOn' = Series!IndexAfter(s, req)
      /\ mDropped' = IF s = "drop"
           THEN mDropped \cup {d \in Callers : Fold(mCall[d].req.name) = folded} ELSE mDropped
  BY <1>1 DEF Series!Effect
<1>4. /\ mTables \in [Names -> Tables] /\ mIndexOn \in [Names -> Names \cup {"none"}]
      /\ mDropped \subseteq Callers
      /\ \A n \in Names : mIndexOn[n] # "none" => Fold(mIndexOn[n]) = n
  BY DEF SeriesInv, SeriesTypes
<1>5. /\ mDropped \subseteq mDropped' /\ mDropped' \subseteq Callers
      /\ mKept' \in [Callers -> SUBSET Kinds]
      /\ \A d \in Callers : mKept[d] \subseteq mKept'[d]
  <2>1. mKept \in [Callers -> SUBSET Kinds]
    BY DEF SeriesInv, SeriesTypes
  <2>2. mKept' = IF Series!Finds(s, req) THEN [mKept EXCEPT ![c] = @ \cup {s}] ELSE mKept
    BY <1>1 DEF Series!Effect
  <2>3. Series!Finds(s, req) => s \in Kinds
    BY <1>2 DEF Series!Finds, Kinds, StatementNames
  <2> QED
    BY <1>3, <1>4, <2>1, <2>2, <2>3
<1>6. /\ req.retention \in Retentions /\ (s = "retention" => req.retention > 0)
      /\ req.compression \in Compressions /\ (s = "policy" => req.compression > 0)
      /\ req.chunk \in Chunks /\ req.points \subseteq Written
      /\ s = "hypertable" => mTables[folded].hyper > 0 \/ req.chunk > 0
  <2>1. Due(mCall[c].todo, req)
    BY <1>1 DEF SeriesInv
  <2>2. s = "hypertable" => mTables[folded].hyper > 0 \/ req.chunk > 0
    BY <1>1 DEF Series!Effect, Series!Works
  <2> QED
    BY <1>1, <1>2, <2>1, <2>2 DEF Retentions, Compressions, Chunks, Written, Due, Ahead
<1>i. /\ \A x \in Chunks : x \in Int
      /\ \A x \in Retentions : x \in Int
      /\ \A x \in Compressions : x \in Int
  BY SeriesAssumption DEF Chunks, Retentions, Compressions
<1>7. "none" \notin Names
  BY SeriesAssumption
<1>8. CASE s \notin {"index", "drop"}
  <2>1. mIndexOn' = mIndexOn
    BY <1>3, <1>8 DEF Series!IndexAfter
  <2>2. PICK n \in Names, t \in Tables :
          /\ mTables' = [mTables EXCEPT ![n] = t]
          /\ mTables[n].hyper > 0 => t.hyper = mTables[n].hyper
          /\ mTables[n].retention > 0 => t.retention = mTables[n].retention
          /\ mTables[n].policy > 0 => t.policy = mTables[n].policy
    <3>1. mTables[own] \in Tables /\ mTables[folded] \in Tables
      BY <1>2, <1>4
    <3>2. CASE s = "table"
      <4>1. mTables' = [mTables EXCEPT ![own] = [mTables[own] EXCEPT !.exists = TRUE]]
        BY <1>1, <1>2, <1>3, <1>4, <3>2 DEF Series!After
      <4>2. [mTables[own] EXCEPT !.exists = TRUE] \in Tables
        BY <3>1 DEF Tables
      <4> QED
        BY <1>2, <3>1, <4>1, <4>2 DEF Tables
    <3>3. CASE s = "hypertable"
      <4>1. PICK k : k = Series!IfNotExists(mTables[folded].hyper, req.chunk)
        OBVIOUS
      <4>2. mTables' = [mTables EXCEPT ![folded] = [mTables[folded] EXCEPT !.hyper = k]]
        BY <1>1, <1>2, <1>3, <1>4, <3>3, <4>1 DEF Series!After
      <4>3. /\ k \in Chunks /\ k > 0
            /\ mTables[folded].hyper > 0 => k = mTables[folded].hyper
        BY <1>6, <1>i, <3>1, <3>3, <4>1 DEF Tables, Series!IfNotExists
      <4>4. [mTables[folded] EXCEPT !.hyper = k] \in Tables
        BY <1>i, <3>1, <4>3 DEF Tables
      <4> QED
        BY <1>2, <3>1, <4>2, <4>3, <4>4 DEF Tables
    <3>4. CASE s = "retention"
      <4>1. PICK k : k = Series!IfNotExists(mTables[folded].retention, req.retention)
        OBVIOUS
      <4>2. mTables' = [mTables EXCEPT ![folded] = [mTables[folded] EXCEPT !.retention = k]]
        BY <1>1, <1>2, <1>3, <1>4, <3>4, <4>1 DEF Series!After
      <4>3. /\ k \in Retentions /\ k > 0
            /\ mTables[folded].retention > 0 => k = mTables[folded].retention
        BY <1>6, <1>i, <3>1, <3>4, <4>1 DEF Tables, Series!IfNotExists
      <4>4. [mTables[folded] EXCEPT !.retention = k] \in Tables
        BY <1>i, <3>1, <4>3 DEF Tables
      <4> QED
        BY <1>2, <3>1, <4>2, <4>3, <4>4 DEF Tables
    <3>5. CASE s = "compress"
      <4>1. mTables' = [mTables EXCEPT ![own] = [mTables[own] EXCEPT !.compress = TRUE]]
        BY <1>1, <1>2, <1>3, <1>4, <3>5 DEF Series!After
      <4>2. [mTables[own] EXCEPT !.compress = TRUE] \in Tables
        BY <3>1 DEF Tables
      <4> QED
        BY <1>2, <3>1, <4>1, <4>2 DEF Tables
    <3>6. CASE s = "policy"
      <4>1. PICK k : k = Series!IfNotExists(mTables[folded].policy, req.compression)
        OBVIOUS
      <4>2. mTables' = [mTables EXCEPT ![folded] = [mTables[folded] EXCEPT !.policy = k]]
        BY <1>1, <1>2, <1>3, <1>4, <3>6, <4>1 DEF Series!After
      <4>3. /\ k \in Compressions /\ k > 0
            /\ mTables[folded].policy > 0 => k = mTables[folded].policy
        BY <1>6, <1>i, <3>1, <3>6, <4>1 DEF Tables, Series!IfNotExists
      <4>4. [mTables[folded] EXCEPT !.policy = k] \in Tables
        BY <1>i, <3>1, <4>3 DEF Tables
      <4> QED
        BY <1>2, <3>1, <4>2, <4>3, <4>4 DEF Tables
    <3>7. CASE s = "insert"
      <4>1. mTables' = [mTables EXCEPT ![own] = [mTables[own] EXCEPT !.rows = @ \cup req.points]]
        BY <1>1, <1>2, <1>3, <1>4, <3>7 DEF Series!After
      <4>2. [mTables[own] EXCEPT !.rows = @ \cup req.points] \in Tables
        BY <1>6, <3>1 DEF Tables
      <4> QED
        BY <1>2, <3>1, <4>1, <4>2 DEF Tables
    <3> QED
      BY <1>2, <1>8, <3>2, <3>3, <3>4, <3>5, <3>6, <3>7 DEF StatementNames
  <2>3. \A k \in Names : Keeps(k)
    BY <1>4, <2>1, <2>2 DEF Keeps
  <2>4. mTables' \in [Names -> Tables]
    BY <1>4, <2>2
  <2> QED
    BY <1>4, <1>5, <2>1, <2>3, <2>4
<1>9. CASE s = "index"
  <2>1. mTables' = mTables
    BY <1>3, <1>9 DEF Series!After
  <2>2. PICK m : m = (IF mIndexOn[folded] = "none" THEN own ELSE mIndexOn[folded])
    OBVIOUS
  <2>3. mIndexOn' = [mIndexOn EXCEPT ![folded] = m]
    BY <1>1, <1>3, <1>4, <1>9, <2>2 DEF Series!IndexAfter
  <2>4. m \in Names /\ m # "none" /\ Fold(m) = folded
    BY <1>1, <1>2, <1>4, <1>7, <2>2
  <2>5. mIndexOn' \in [Names -> Names \cup {"none"}]
    BY <1>4, <2>3, <2>4
  <2>6. \A n \in Names : mIndexOn'[n] # "none" => Fold(mIndexOn'[n]) = n
    BY <1>4, <2>3, <2>4
  <2>7. \A k \in Names : Keeps(k)
    BY <1>4, <2>1, <2>2, <2>3, <2>4 DEF Keeps
  <2> QED
    BY <1>4, <1>5, <2>1, <2>5, <2>6, <2>7
<1>10. CASE s = "drop"
  <2>1. mTables' = [mTables EXCEPT ![own] = Series!NoTable]
    BY <1>1, <1>3, <1>10 DEF Series!After
  <2>2. mIndexOn' = [n \in Names |-> IF mIndexOn[n] = own THEN "none" ELSE mIndexOn[n]]
    BY <1>1, <1>3, <1>10 DEF Series!IndexAfter
  <2>3. Series!NoTable \in Tables
    BY DEF Series!NoTable, Tables, Chunks, Retentions, Compressions
  <2>4. mTables' \in [Names -> Tables] /\ mIndexOn' \in [Names -> Names \cup {"none"}]
    BY <1>4, <2>1, <2>2, <2>3
  <2>5. \A n \in Names : mIndexOn'[n] # "none" => Fold(mIndexOn'[n]) = n
    BY <1>4, <2>2
  <2>6. ASSUME NEW n \in Names, NEW d \in Callers, mCall[d].req.name = n, Fold(n) = n, d \notin mDropped'
        PROVE  Keeps(n)
    <3>1. n # folded
      BY <1>3, <1>10, <2>6
    <3>2. n # own
      BY <1>1, <2>6, <3>1
    <3>3. mTables'[n] = mTables[n]
      BY <1>4, <2>1, <3>2
    <3>4. mIndexOn[n] # "none" => mIndexOn[n] # own
      BY <1>1, <1>4, <3>1
    <3> QED
      BY <2>2, <3>3, <3>4 DEF Keeps
  <2> QED
    BY <1>5, <2>4, <2>5, <2>6
<1> QED
  BY <1>8, <1>9, <1>10

(* What the statement is for.                                              *)
LEMMA EffectOfOwn ==
  ASSUME SeriesInv, NEW c \in Callers, mCall[c].result = "running", Series!Effect(c),
         NEW n \in Names, n = mCall[c].req.name, Fold(n) = n
  PROVE  /\ Head(mCall[c].todo) = "hypertable" =>
              Holds(mKept'[c], "hypertable", mTables'[n].hyper, mCall[c].req.chunk)
         /\ Head(mCall[c].todo) = "retention" =>
              Holds(mKept'[c], "retention", mTables'[n].retention, mCall[c].req.retention)
         /\ Head(mCall[c].todo) = "policy" =>
              Holds(mKept'[c], "policy", mTables'[n].policy, mCall[c].req.compression)
         /\ Head(mCall[c].todo) = "index" =>
              mIndexOn'[n] # "none" /\ ("index" \in mKept'[c] \/ mIndexOn'[n] = n)
<1>1. PICK s, req : s = Head(mCall[c].todo) /\ req = mCall[c].req
  OBVIOUS
<1>2. /\ mTables' = Series!After(s, req) /\ mIndexOn' = Series!IndexAfter(s, req)
      /\ mKept' = IF Series!Finds(s, req) THEN [mKept EXCEPT ![c] = @ \cup {s}] ELSE mKept
      /\ Series!Works(s, req)
  BY <1>1 DEF Series!Effect
<1>3. mTables \in [Names -> Tables] /\ mIndexOn \in [Names -> Names \cup {"none"}] /\ mTables[n] \in Tables
  BY DEF SeriesInv, SeriesTypes
<1>k. mKept'[c] = IF Series!Finds(s, req) THEN mKept[c] \cup {s} ELSE mKept[c]
  BY <1>2 DEF SeriesInv, SeriesTypes
<1>4. /\ "none" \notin Names
      /\ req.retention \in Int /\ (s = "retention" => req.retention > 0)
      /\ req.compression \in Int /\ (s = "policy" => req.compression > 0)
      /\ req.chunk \in Int
  <2>1. Due(mCall[c].todo, req)
    BY <1>1 DEF SeriesInv
  <2> QED
    BY <1>1, <2>1, EffectTypes, SeriesAssumption DEF Due, Ahead
<1>i. /\ mTables[n].hyper \in Int /\ mTables[n].hyper >= 0
      /\ mTables[n].retention \in Int /\ mTables[n].retention >= 0
      /\ mTables[n].policy \in Int /\ mTables[n].policy >= 0
  BY <1>3, SeriesAssumption DEF Tables, Chunks, Retentions, Compressions
<1>5. CASE s = "hypertable"
  <2>1. mTables'[n].hyper = Series!IfNotExists(mTables[n].hyper, req.chunk)
    BY <1>1, <1>2, <1>3, <1>5 DEF Series!After, Tables
  <2>2. mTables[n].hyper > 0 => "hypertable" \in mKept'[c]
    BY <1>1, <1>5, <1>k DEF Series!Finds
  <2>3. mTables[n].hyper > 0 \/ req.chunk > 0
    BY <1>1, <1>2, <1>5 DEF Series!Works
  <2> QED
    BY <1>1, <1>4, <1>5, <1>i, <2>1, <2>2, <2>3 DEF Holds, Series!IfNotExists
<1>6. CASE s = "retention"
  <2>1. mTables'[n].retention = Series!IfNotExists(mTables[n].retention, req.retention)
    BY <1>1, <1>2, <1>3, <1>6 DEF Series!After, Tables
  <2>2. mTables[n].retention > 0 => "retention" \in mKept'[c]
    BY <1>1, <1>6, <1>k DEF Series!Finds
  <2> QED
    BY <1>1, <1>4, <1>6, <1>i, <2>1, <2>2 DEF Holds, Series!IfNotExists
<1>7. CASE s = "policy"
  <2>1. mTables'[n].policy = Series!IfNotExists(mTables[n].policy, req.compression)
    BY <1>1, <1>2, <1>3, <1>7 DEF Series!After, Tables
  <2>2. mTables[n].policy > 0 => "policy" \in mKept'[c]
    BY <1>1, <1>7, <1>k DEF Series!Finds
  <2> QED
    BY <1>1, <1>4, <1>7, <1>i, <2>1, <2>2 DEF Holds, Series!IfNotExists
<1>8. CASE s = "index"
  <2>1. mIndexOn[n] # "none" => "index" \in mKept'[c]
    BY <1>1, <1>8, <1>k DEF Series!Finds
  <2>2. mIndexOn'[n] = IF mIndexOn[n] = "none" THEN n ELSE mIndexOn[n]
    BY <1>1, <1>2, <1>3, <1>8 DEF Series!IndexAfter
  <2> QED
    BY <1>1, <1>4, <1>8, <2>1, <2>2
<1> QED
  BY <1>1, <1>5, <1>6, <1>7, <1>8

(* A step of call c, whose effect is E: the other calls keep their record. *)
LEMMA OthersProgress ==
  ASSUME SeriesInv, NEW c \in Callers,
         \A d \in Callers : d # c => mCall'[d] = mCall[d],
         mDropped \ {c} \subseteq mDropped',
         \A d \in Callers : d # c => mKept[d] \subseteq mKept'[d],
         \A n \in Names :
           Keeps(n) \/ \A d \in Callers : mCall[d].req.name = n /\ Fold(n) = n => d \in mDropped'
  PROVE  \A d \in Callers : d # c => Progress(d)'
<1> SUFFICES ASSUME NEW d \in Callers, d # c PROVE Progress(d)'
  OBVIOUS
<1>1. mCall'[d] = mCall[d] /\ Ahead(d)' = Ahead(d)
  BY DEF Ahead
<1>2. d \notin mDropped' => d \notin mDropped
  OBVIOUS
<1>3. PICK n \in Names : n = mCall[d].req.name
  <2>1. mCall[d].req \in MeasurementRequests
    BY DEF SeriesInv, SeriesTypes
  <2> QED
    BY <2>1, SeriesAssumption
<1>4. Keeps(n) \/ d \in mDropped' \/ Fold(n) # n
  BY <1>3
<1>5. Progress(d)
  BY DEF SeriesInv
<1>6. CASE d \in mDropped' \/ Fold(n) # n
  BY <1>1, <1>3, <1>6 DEF Progress
<1>7. CASE Keeps(n) /\ d \notin mDropped' /\ Fold(n) = n
  <2>1. mKept[d] \subseteq mKept'[d]
    OBVIOUS
  <2>2. /\ \A a : Holds(mKept[d], "hypertable", mTables[n].hyper, a) =>
                  Holds(mKept'[d], "hypertable", mTables'[n].hyper, a)
        /\ \A a : Holds(mKept[d], "retention", mTables[n].retention, a) =>
                  Holds(mKept'[d], "retention", mTables'[n].retention, a)
        /\ \A a : Holds(mKept[d], "policy", mTables[n].policy, a) =>
                  Holds(mKept'[d], "policy", mTables'[n].policy, a)
    BY <1>7, <2>1 DEF Holds, Keeps
  <2> QED
    BY <1>1, <1>2, <1>3, <1>5, <1>7, <2>1, <2>2 DEF Progress, Keeps
<1> QED
  BY <1>4, <1>6, <1>7

(* A call with its statements left and its result replaced.                *)
LEMMA CallRecord ==
  ASSUME NEW x \in [req : MeasurementRequests, todo : Seq(StatementNames),
                    result : {"idle", "running", "ok", "error"}], NEW t, NEW o
  PROVE  [x EXCEPT !.todo = t, !.result = o] = [req |-> x.req, todo |-> t, result |-> o]
<1> DEFINE y == [x EXCEPT !.todo = t, !.result = o]
           z == [req |-> x.req, todo |-> t, result |-> o]
<1>1. DOMAIN x = {"req", "todo", "result"}
  OBVIOUS
<1>2. DOMAIN y = {"req", "todo", "result"} /\ DOMAIN z = {"req", "todo", "result"}
  BY <1>1
<1>3. y = [f \in {"req", "todo", "result"} |-> y[f]]
  BY <1>1
<1>4. z = [f \in {"req", "todo", "result"} |-> z[f]]
  OBVIOUS
<1>5. y["req"] = z["req"] /\ y["todo"] = z["todo"] /\ y["result"] = z["result"]
  BY <1>1
<1>6. \A f \in {"req", "todo", "result"} : y[f] = z[f]
  BY <1>5
<1> HIDE DEF y, z
<1>7. y = z
  BY <1>3, <1>4, <1>6
<1> QED
  BY <1>7 DEF y, z

(* A call with its result replaced.                                        *)
LEMMA CallEnd ==
  ASSUME NEW x \in [req : MeasurementRequests, todo : Seq(StatementNames),
                    result : {"idle", "running", "ok", "error"}], NEW o
  PROVE  [x EXCEPT !.result = o] = [req |-> x.req, todo |-> x.todo, result |-> o]
<1> DEFINE y == [x EXCEPT !.result = o]
           z == [req |-> x.req, todo |-> x.todo, result |-> o]
<1>1. DOMAIN x = {"req", "todo", "result"}
  OBVIOUS
<1>3. y = [f \in {"req", "todo", "result"} |-> y[f]]
  BY <1>1
<1>4. z = [f \in {"req", "todo", "result"} |-> z[f]]
  OBVIOUS
<1>5. y["req"] = z["req"] /\ y["todo"] = z["todo"] /\ y["result"] = z["result"]
  BY <1>1
<1>6. \A f \in {"req", "todo", "result"} : y[f] = z[f]
  BY <1>5
<1> HIDE DEF y, z
<1>7. y = z
  BY <1>3, <1>4, <1>6
<1> QED
  BY <1>7 DEF y, z

(* The step is that of a call that ends, idles or starts anew.             *)
LEMMA CallTypes ==
  ASSUME SeriesInv, NEW c \in Callers, NEW r \in MeasurementRequests, NEW todo \in Seq(StatementNames),
         NEW result \in {"idle", "running", "ok", "error"},
         todo = <<>> <=> result # "running",
         mCall' = [mCall EXCEPT ![c] = [req |-> r, todo |-> todo, result |-> result]],
         Due(todo, r)
  PROVE  /\ mCall' \in [Callers -> [req : MeasurementRequests, todo : Seq(StatementNames),
                                    result : {"idle", "running", "ok", "error"}]]
         /\ \A d \in Callers : mCall'[d].todo = <<>> <=> mCall'[d].result # "running"
         /\ \A d \in Callers : Due(mCall'[d].todo, mCall'[d].req)
         /\ \A d \in Callers : d # c => mCall'[d] = mCall[d]
         /\ mCall'[c] = [req |-> r, todo |-> todo, result |-> result]
<1>1. /\ mCall'[c] = [req |-> r, todo |-> todo, result |-> result]
      /\ \A d \in Callers : d # c => mCall'[d] = mCall[d]
  BY DEF SeriesInv, SeriesTypes
<1>2. mCall' \in [Callers -> [req : MeasurementRequests, todo : Seq(StatementNames),
                              result : {"idle", "running", "ok", "error"}]]
  BY DEF SeriesInv, SeriesTypes
<1>3. ASSUME NEW d \in Callers
      PROVE  /\ mCall'[d].todo = <<>> <=> mCall'[d].result # "running"
             /\ Due(mCall'[d].todo, mCall'[d].req)
  <2>1. CASE d = c
    BY <1>1, <2>1
  <2>2. CASE d # c
    BY <1>1, <2>2 DEF SeriesInv, SeriesTypes
  <2> QED
    BY <2>1, <2>2
<1> QED
  BY <1>1, <1>2, <1>3

LEMMA BeginStep == ASSUME SeriesInv, NEW c \in Callers, Series!Begin(c) PROVE SeriesInv'
<1>1. PICK r \in MeasurementRequests :
        mCall' = [mCall EXCEPT ![c] =
          [req |-> r, todo |-> Series!Statements(r),
           result |-> IF Series!Statements(r) = <<>> THEN "ok" ELSE "running"]]
  BY DEF Series!Begin
<1>2. /\ mCalls < MaxCalls /\ mCalls' = mCalls + 1 /\ mDropped' = mDropped \ {c}
      /\ mKept' = [mKept EXCEPT ![c] = {}]
      /\ UNCHANGED <<mTables, mIndexOn>>
  BY DEF Series!Begin
<1>3. PICK todo, result : /\ todo = Series!Statements(r)
                          /\ result = (IF todo = <<>> THEN "ok" ELSE "running")
  OBVIOUS
<1>4. /\ todo \in Seq(StatementNames) /\ Due(todo, r)
      /\ result \in {"idle", "running", "ok", "error"} /\ (todo = <<>> <=> result # "running")
  BY <1>3, StatementsOf
<1>5. mCall' = [mCall EXCEPT ![c] = [req |-> r, todo |-> todo, result |-> result]]
  BY <1>1, <1>3
<1>6. /\ mCall' \in [Callers -> [req : MeasurementRequests, todo : Seq(StatementNames),
                                 result : {"idle", "running", "ok", "error"}]]
      /\ \A d \in Callers : mCall'[d].todo = <<>> <=> mCall'[d].result # "running"
      /\ \A d \in Callers : Due(mCall'[d].todo, mCall'[d].req)
      /\ \A d \in Callers : d # c => mCall'[d] = mCall[d]
      /\ mCall'[c] = [req |-> r, todo |-> todo, result |-> result]
  BY <1>4, <1>5, CallTypes
<1>7. SeriesTypes'
  <2>1. /\ mCalls' \in 0 .. MaxCalls /\ mDropped' \subseteq Callers
        /\ mKept' \in [Callers -> SUBSET Kinds]
    BY <1>2, ServicesAssumption DEF SeriesInv, SeriesTypes
  <2> QED
    BY <1>2, <1>6, <2>1 DEF SeriesInv, SeriesTypes
<1>8. Progress(c)'
  <2>1. Ahead(c)' = ElementsOf(todo)
    BY <1>6 DEF Ahead
  <2>2. r.op = "create" =>
          /\ {"hypertable", "index"} \subseteq ElementsOf(todo)
          /\ r.retention > 0 => "retention" \in ElementsOf(todo)
          /\ r.compression > 0 => "policy" \in ElementsOf(todo)
    BY <1>3, StatementsOf
  <2> QED
    BY <1>6, <2>1, <2>2 DEF Progress
<1>9. \A d \in Callers : d # c => Progress(d)'
  <2>1. \A d \in Callers : d # c => mKept[d] \subseteq mKept'[d]
    BY <1>2 DEF SeriesInv, SeriesTypes
  <2> QED
    BY <1>2, <1>6, <2>1, OthersProgress DEF Keeps
<1> QED
  BY <1>2, <1>6, <1>7, <1>8, <1>9 DEF SeriesInv

(* A call that stops, with or without the effect of its statement.         *)
LEMMA StopStep ==
  ASSUME SeriesInv, NEW c \in Callers, Series!Broken(c) \/ Series!Return(c)
                      \/ (Series!Statement(c) /\ Series!OnError(c))
  PROVE  SeriesInv'
<1>1. mCall[c] \in [req : MeasurementRequests, todo : Seq(StatementNames),
                    result : {"idle", "running", "ok", "error"}]
  BY DEF SeriesInv, SeriesTypes
<1>2. PICK r \in MeasurementRequests : r = mCall[c].req
  BY <1>1
<1>3. PICK result \in {"idle", "error"} :
        mCall' = [mCall EXCEPT ![c] = [req |-> r, todo |-> <<>>, result |-> result]]
  <2>1. CASE Series!Return(c)
    <3>1. mCall[c].todo = <<>>
      BY <2>1 DEF Series!Return, SeriesInv, SeriesTypes
    <3>2. mCall' = [mCall EXCEPT ![c] = [mCall[c] EXCEPT !.result = "idle"]]
      BY <2>1 DEF Series!Return, SeriesInv, SeriesTypes
    <3>3. [mCall[c] EXCEPT !.result = "idle"]
            = [req |-> mCall[c].req, todo |-> mCall[c].todo, result |-> "idle"]
      BY <1>1, CallEnd
    <3>4. mCall' = [mCall EXCEPT ![c] = [req |-> r, todo |-> <<>>, result |-> "idle"]]
      BY <1>2, <3>1, <3>2, <3>3
    <3> QED
      BY <3>4
  <2>2. CASE mCall' = [mCall EXCEPT ![c].todo = <<>>, ![c].result = "error"]
    <3>1. mCall' = [mCall EXCEPT ![c] = [mCall[c] EXCEPT !.todo = <<>>, !.result = "error"]]
      BY <2>2 DEF SeriesInv, SeriesTypes
    <3>2. [mCall[c] EXCEPT !.todo = <<>>, !.result = "error"]
            = [req |-> mCall[c].req, todo |-> <<>>, result |-> "error"]
      BY <1>1, CallRecord
    <3>3. mCall' = [mCall EXCEPT ![c] = [req |-> r, todo |-> <<>>, result |-> "error"]]
      BY <1>2, <3>1, <3>2
    <3> QED
      BY <3>3
  <2> QED
    BY <2>1, <2>2 DEF Series!Broken, Series!OnError
<1>4. <<>> \in Seq(StatementNames) /\ Due(<<>>, r)
  BY NoneOrFew DEF Due
<1>5. /\ mCall' \in [Callers -> [req : MeasurementRequests, todo : Seq(StatementNames),
                                 result : {"idle", "running", "ok", "error"}]]
      /\ \A d \in Callers : mCall'[d].todo = <<>> <=> mCall'[d].result # "running"
      /\ \A d \in Callers : Due(mCall'[d].todo, mCall'[d].req)
      /\ \A d \in Callers : d # c => mCall'[d] = mCall[d]
      /\ mCall'[c] = [req |-> r, todo |-> <<>>, result |-> result]
  BY <1>3, <1>4, CallTypes
<1>6. /\ mTables' \in [Names -> Tables]
      /\ mIndexOn' \in [Names -> Names \cup {"none"}]
      /\ \A n \in Names : mIndexOn'[n] # "none" => Fold(mIndexOn'[n]) = n
      /\ mDropped \subseteq mDropped' /\ mDropped' \subseteq Callers
      /\ mKept' \in [Callers -> SUBSET Kinds]
      /\ \A d \in Callers : d # c => mKept[d] \subseteq mKept'[d]
      /\ \A n \in Names :
           Keeps(n) \/ \A d \in Callers : mCall[d].req.name = n /\ Fold(n) = n => d \in mDropped'
  <2>1. CASE Series!Effect(c) /\ mCall[c].result = "running"
    BY <2>1, EffectOnTables
  <2>2. CASE UNCHANGED <<mTables, mIndexOn, mDropped>> /\ mKept' \in {mKept, [mKept EXCEPT ![c] = {}]}
    BY <2>2 DEF SeriesInv, SeriesTypes, Keeps
  <2>3. CASE Series!Statement(c) /\ Series!OnError(c) /\ Series!Effect(c)
    BY <2>1, <2>3 DEF Series!Statement
  <2> QED
    BY <2>1, <2>2, <2>3 DEF Series!Broken, Series!Return, Series!Statement
<1>7. SeriesTypes'
  <2>1. mCalls' = mCalls
    BY DEF Series!Broken, Series!Return, Series!Statement
  <2> QED
    BY <1>5, <1>6, <2>1 DEF SeriesInv, SeriesTypes
<1>8. Progress(c)'
  BY <1>5 DEF Progress
<1>9. \A d \in Callers : d # c => Progress(d)'
  BY <1>5, <1>6, OthersProgress
<1> QED
  BY <1>5, <1>6, <1>7, <1>8, <1>9 DEF SeriesInv

(* A statement that works.                                                 *)
LEMMA StatementStep ==
  ASSUME SeriesInv, NEW c \in Callers, Series!Statement(c), Series!Effect(c), ~Series!OnError(c)
  PROVE  SeriesInv'
<1>1. PICK r, todo, result :
        /\ r = mCall[c].req /\ todo = Tail(mCall[c].todo)
        /\ result = (IF todo = <<>> THEN "ok" ELSE "running")
  OBVIOUS
<1>2. mCall[c].result = "running"
  BY DEF Series!Statement
<1>3. /\ r \in MeasurementRequests /\ todo \in Seq(StatementNames)
      /\ Ahead(c) = {Head(mCall[c].todo)} \cup ElementsOf(todo)
      /\ r.name \in Names
  BY <1>1, <1>2, EffectTypes
<1>4. mCall' = [mCall EXCEPT ![c] = [req |-> r, todo |-> todo, result |-> result]]
  <2>1. mCall' = [mCall EXCEPT ![c].todo = Tail(@),
                               ![c].result = IF Tail(mCall[c].todo) = <<>> THEN "ok" ELSE @]
    BY DEF Series!Statement
  <2>2. mCall[c] \in [req : MeasurementRequests, todo : Seq(StatementNames),
                      result : {"idle", "running", "ok", "error"}]
    BY DEF SeriesInv, SeriesTypes
  <2>3. mCall' = [mCall EXCEPT ![c] = [mCall[c] EXCEPT !.todo = todo, !.result = result]]
    BY <1>1, <1>2, <2>1 DEF SeriesInv, SeriesTypes
  <2>4. [mCall[c] EXCEPT !.todo = todo, !.result = result]
          = [req |-> mCall[c].req, todo |-> todo, result |-> result]
    BY <2>2, CallRecord
  <2> QED
    BY <1>1, <2>3, <2>4
<1>5. /\ mCall' \in [Callers -> [req : MeasurementRequests, todo : Seq(StatementNames),
                                 result : {"idle", "running", "ok", "error"}]]
      /\ \A d \in Callers : mCall'[d].todo = <<>> <=> mCall'[d].result # "running"
      /\ \A d \in Callers : Due(mCall'[d].todo, mCall'[d].req)
      /\ \A d \in Callers : d # c => mCall'[d] = mCall[d]
      /\ mCall'[c] = [req |-> r, todo |-> todo, result |-> result]
  <2>1. /\ result \in {"idle", "running", "ok", "error"} /\ (todo = <<>> <=> result # "running")
        /\ Due(todo, r)
    BY <1>1, <1>3 DEF SeriesInv, Due, Ahead
  <2> QED
    BY <1>3, <1>4, <2>1, CallTypes
<1>6. /\ mTables' \in [Names -> Tables]
      /\ mIndexOn' \in [Names -> Names \cup {"none"}]
      /\ \A n \in Names : mIndexOn'[n] # "none" => Fold(mIndexOn'[n]) = n
      /\ mDropped \subseteq mDropped' /\ mDropped' \subseteq Callers
      /\ mKept' \in [Callers -> SUBSET Kinds]
      /\ \A d \in Callers : d # c => mKept[d] \subseteq mKept'[d]
      /\ \A n \in Names :
           Keeps(n) \/ \A d \in Callers : mCall[d].req.name = n /\ Fold(n) = n => d \in mDropped'
  BY <1>2, EffectOnTables
<1>7. SeriesTypes'
  <2>1. mCalls' = mCalls
    BY DEF Series!Statement
  <2> QED
    BY <1>5, <1>6, <2>1 DEF SeriesInv, SeriesTypes
<1>8. Progress(c)'
  <2>1. PICK n \in Names : n = r.name
    BY <1>3
  <2>2. CASE c \in mDropped' \/ Fold(n) # n
    BY <1>5, <2>1, <2>2 DEF Progress
  <2>3. CASE c \notin mDropped' /\ Fold(n) = n
    <3>1. Keeps(n) /\ c \notin mDropped
      BY <1>1, <1>6, <2>1, <2>3
    <3>2. /\ Head(mCall[c].todo) = "hypertable" =>
               Holds(mKept'[c], "hypertable", mTables'[n].hyper, r.chunk)
          /\ Head(mCall[c].todo) = "retention" =>
               Holds(mKept'[c], "retention", mTables'[n].retention, r.retention)
          /\ Head(mCall[c].todo) = "policy" =>
               Holds(mKept'[c], "policy", mTables'[n].policy, r.compression)
          /\ Head(mCall[c].todo) = "index" =>
               mIndexOn'[n] # "none" /\ ("index" \in mKept'[c] \/ mIndexOn'[n] = n)
      BY <1>1, <1>2, <2>1, <2>3, EffectOfOwn
    <3>5. mKept[c] \subseteq mKept'[c]
      BY <1>2, EffectOnTables
    <3>6. /\ \A a : Holds(mKept[c], "hypertable", mTables[n].hyper, a) =>
                    Holds(mKept'[c], "hypertable", mTables'[n].hyper, a)
          /\ \A a : Holds(mKept[c], "retention", mTables[n].retention, a) =>
                    Holds(mKept'[c], "retention", mTables'[n].retention, a)
          /\ \A a : Holds(mKept[c], "policy", mTables[n].policy, a) =>
                    Holds(mKept'[c], "policy", mTables'[n].policy, a)
      BY <3>1, <3>5 DEF Holds, Keeps
    <3>3. Progress(c)
      BY DEF SeriesInv
    <3>4. Ahead(c)' = ElementsOf(todo)
      BY <1>5 DEF Ahead
    <3> QED
      BY <1>1, <1>2, <1>3, <1>5, <2>1, <2>3, <3>1, <3>2, <3>3, <3>4, <3>5, <3>6 DEF Progress, Keeps
  <2> QED
    BY <2>2, <2>3
<1>9. \A d \in Callers : d # c => Progress(d)'
  BY <1>5, <1>6, OthersProgress
<1> QED
  BY <1>5, <1>6, <1>7, <1>8, <1>9 DEF SeriesInv

(* The inductive invariant of the time series: the types, and what the     *)
(* statements a creation has left behind did.                              *)
THEOREM SeriesInvariant == Spec => []SeriesInv
<1>1. Init => SeriesInv
  <2> SUFFICES ASSUME Series!Init PROVE SeriesInv
    BY DEF Init
  <2>1. PICK r \in MeasurementRequests :
          mCall = [c \in Callers |-> [req |-> r, todo |-> <<>>, result |-> "idle"]]
    BY SeriesAssumption DEF Series!Init
  <2>2. /\ mTables = [n \in Names |-> Series!NoTable] /\ mIndexOn = [n \in Names |-> "none"]
        /\ mDropped = {} /\ mKept = [c \in Callers |-> {}] /\ mCalls = 0
    BY DEF Series!Init
  <2>3. Series!NoTable \in Tables
    BY DEF Series!NoTable, Tables, Chunks, Retentions, Compressions
  <2>4. <<>> \in Seq(StatementNames) /\ ElementsOf(<<>>) = {}
    BY NoneOrFew
  <2>5. SeriesTypes
    BY <2>1, <2>2, <2>3, <2>4, ServicesAssumption DEF SeriesTypes
  <2> QED
    BY <2>1, <2>2, <2>4, <2>5 DEF SeriesInv, Progress, Due
<1>2. SeriesInv /\ [Next]_vars => SeriesInv'
  <2> SUFFICES ASSUME SeriesInv, [Next]_vars PROVE SeriesInv'
    OBVIOUS
  <2>1. CASE Series!Next
    <3>1. PICK c \in Callers : Series!Begin(c) \/ Series!Statement(c) \/ Series!Broken(c) \/ Series!Return(c)
      BY <2>1 DEF Series!Next
    <3>2. Series!Statement(c) => Series!OnError(c) \/ Series!Effect(c)
      BY DEF Series!Statement
    <3> QED
      BY <3>1, <3>2, BeginStep, StopStep, StatementStep
  <2>2. CASE UNCHANGED measVars
    BY <2>2 DEF measVars, SeriesInv, SeriesTypes, Progress, Ahead
  <2> QED
    BY <2>1, <2>2, OneInFocus
<1> QED
  BY <1>1, <1>2, PTL DEF Spec

(* CreateMeasurement: whatever other creations, writes and failures came   *)
(* in between, a creation that returns nil left what was asked for, or the *)
(* policies and the index that its statements found there.                 *)
THEOREM ServicesCreatedAsAsked == Spec => []CreatedAsAsked
<1>1. SeriesInv => CreatedAsAsked
  <2> SUFFICES ASSUME SeriesInv, NEW c \in Callers, Series!Created(c),
                      Fold(mCall[c].req.name) = mCall[c].req.name
               PROVE  LET req == mCall[c].req
                          t == mTables[req.name]
                      IN /\ Holds(mKept[c], "hypertable", t.hyper, req.chunk)
                         /\ req.retention > 0 =>
                              Holds(mKept[c], "retention", t.retention, req.retention)
                         /\ req.compression > 0 =>
                              Holds(mKept[c], "policy", t.policy, req.compression)
                         /\ mIndexOn[req.name] # "none"
                         /\ "index" \in mKept[c] \/ mIndexOn[req.name] = req.name
    BY DEF CreatedAsAsked, Series!CreatedAsAsked, Holds
  <2>1. Progress(c) /\ mCall[c].todo = <<>>
    BY DEF SeriesInv, SeriesTypes, Series!Created
  <2>2. Ahead(c) = {}
    BY <2>1, NoneOrFew DEF Ahead
  <2> QED
    BY <2>1, <2>2 DEF Progress, Series!Created
<1> QED
  BY <1>1, SeriesInvariant, PTL

(* QueryRange and QueryAggregate over adjacent ranges.                     *)
LEMMA Ranges ==
  ASSUME SeriesTypes, NEW n \in Names, NEW s \in Times, NEW m \in Times, NEW e \in Times,
         s <= m, m <= e
  PROVE  /\ Series!Query(n, s, e) = Series!Query(n, s, m) \cup Series!Query(n, m, e)
         /\ Series!Query(n, s, m) \cap Series!Query(n, m, e) = {}
<1>1. \A r \in mTables[n].rows : r.time \in Int
  <2>1. mTables[n].rows \subseteq Written
    BY DEF SeriesTypes, Tables
  <2> QED
    BY <2>1, SeriesAssumption DEF Written
<1>2. s \in Int /\ m \in Int /\ e \in Int
  BY SeriesAssumption
<1> QED
  BY <1>1, <1>2 DEF Series!Query, Series!InRange

(* Reading an aggregation fails on a row without a tag or, but for COUNT,  *)
(* on a group without a field.                                             *)
LEMMA Failing ==
  ASSUME NEW n, NEW s, NEW e, NEW type
  PROVE  Series!AggregateFails(n, type, s, e) <=>
           \E q \in Series!Query(n, s, e) :
             \/ q.tag = NoTag
             \/ /\ type # "count"
                /\ \A r \in Series!Query(n, s, e) : Series!Group(r) = Series!Group(q) => ~r.field
<1>1. PICK rows : rows = Series!Query(n, s, e)
  OBVIOUS
<1>2. PICK groups : groups = Series!Aggregate(n, s, e)
  OBVIOUS
<1>3. /\ DOMAIN groups = {Series!Group(r) : r \in rows}
      /\ \A g \in DOMAIN groups : groups[g] = {r \in rows : Series!Group(r) = g}
  BY <1>1, <1>2 DEF Series!Aggregate
<1>4. Series!AggregateFails(n, type, s, e) <=>
        \E g \in DOMAIN groups : g[2] = NoTag \/ (type # "count" /\ \A r \in groups[g] : ~r.field)
  BY <1>2 DEF Series!AggregateFails
<1>5. \A q : Series!Group(q)[2] = q.tag
  BY DEF Series!Group
<1>6. \A q \in rows : groups[Series!Group(q)] = {r \in rows : Series!Group(r) = Series!Group(q)}
  BY <1>3
<1>7. (\E g \in DOMAIN groups : g[2] = NoTag \/ (type # "count" /\ \A r \in groups[g] : ~r.field))
        <=> \E q \in rows : \/ Series!Group(q)[2] = NoTag
                            \/ type # "count" /\ \A r \in groups[Series!Group(q)] : ~r.field
  BY <1>3
<1> QED
  BY <1>1, <1>4, <1>5, <1>6, <1>7

(* timescale.go: adjacent ranges divide the points, and aggregating over   *)
(* both fails only when aggregating over one does.                         *)
THEOREM ServicesRangesAddUp == Spec => []RangesAddUp
<1>1. SeriesInv => RangesAddUp
  <2> SUFFICES ASSUME SeriesInv, NEW n \in Names, NEW s \in Times, NEW m \in Times, NEW e \in Times,
                      s <= m, m <= e
               PROVE  /\ Series!Query(n, s, e) = Series!Query(n, s, m) \cup Series!Query(n, m, e)
                      /\ Series!Query(n, s, m) \cap Series!Query(n, m, e) = {}
                      /\ Series!AggregateFails(n, "count", s, e) <=>
                           Series!AggregateFails(n, "count", s, m) \/ Series!AggregateFails(n, "count", m, e)
                      /\ Series!AggregateFails(n, "avg", s, e) =>
                           Series!AggregateFails(n, "avg", s, m) \/ Series!AggregateFails(n, "avg", m, e)
    BY DEF RangesAddUp, Series!RangesAddUp
  <2>1. PICK all, left, right : /\ all = Series!Query(n, s, e) /\ left = Series!Query(n, s, m)
                                /\ right = Series!Query(n, m, e)
    OBVIOUS
  <2>2. all = left \cup right /\ left \cap right = {}
    BY <2>1, Ranges DEF SeriesInv
  <2>3. /\ Series!AggregateFails(n, "count", s, e) <=> \E q \in all : q.tag = NoTag
        /\ Series!AggregateFails(n, "count", s, m) <=> \E q \in left : q.tag = NoTag
        /\ Series!AggregateFails(n, "count", m, e) <=> \E q \in right : q.tag = NoTag
    BY <2>1, Failing
  <2>4. /\ Series!AggregateFails(n, "avg", s, e) <=>
             \E q \in all : \/ q.tag = NoTag
                            \/ \A r \in all : Series!Group(r) = Series!Group(q) => ~r.field
        /\ Series!AggregateFails(n, "avg", s, m) <=>
             \E q \in left : \/ q.tag = NoTag
                             \/ \A r \in left : Series!Group(r) = Series!Group(q) => ~r.field
        /\ Series!AggregateFails(n, "avg", m, e) <=>
             \E q \in right : \/ q.tag = NoTag
                              \/ \A r \in right : Series!Group(r) = Series!Group(q) => ~r.field
    BY <2>1, Failing
  <2> QED
    BY <2>1, <2>2, <2>3, <2>4
<1> QED
  BY <1>1, SeriesInvariant, PTL

-----------------------------------------------------------------------------
(* The graph.  The contract sees the users at the ends of the              *)
(* relationships, and a call as applied from the MERGE that found all.     *)
PairsOf(f) == {{e[1][1], e[2][1]} : e \in f}
ArrowsOf(f) == {<<e[1][1], e[2][1]>> : e \in f}
Joins(f, u, v) == \A e \in f : e[1][1] = u /\ e[2][1] = v
SocialPhase == [c \in Callers |->
  IF gPhase[c] \in {"ok", "error"} THEN gPhase[c]
  ELSE IF gPhase[c] = "committed"
          \/ (gPhase[c] = "merging" /\ gReq[c].op # "upsert" /\ Graph!AllFound(c))
  THEN "applied" ELSE "asked"]

GraphTypes ==
  /\ gUniqueIDs \in BOOLEAN /\ gNodes \subseteq Users \X (1 .. MaxCopies)
  /\ gFriend \subseteq gNodes \X gNodes /\ gBlock \subseteq gNodes \X gNodes
  /\ gReq \in [Callers -> GraphRequests \cup {NoRequest}]
  /\ gPhase \in [Callers -> {"ok", "error", "begun", "merging", "committed"}]
  /\ gFound \in [Callers -> [a : SUBSET gNodes, b : SUBSET gNodes,
                             edges : SUBSET (gNodes \X gNodes)]]
  /\ gCalls \in 0 .. MaxCalls

(* What a MERGE found are nodes of the users of its request, and stay.     *)
MergeFound(c) ==
  LET e == Graph!Ends(gReq[c]) IN
  /\ gPhase[c] \in {"begun", "merging", "committed"} => gReq[c] \in GraphRequests
  /\ gPhase[c] = "merging" =>
       /\ gReq[c].op \in {"upsert", "link", "block"}
       /\ \A n \in gFound[c].a : n[1] = e[1]
       /\ \A n \in gFound[c].b : n[1] = e[2]
       /\ gFound[c].edges \subseteq gFound[c].a \X gFound[c].b

(* Friendships are stored from the smaller id to the larger, and with the  *)
(* constraint a user has one node.                                         *)
GraphInv ==
  /\ GraphTypes
  /\ \A e \in gFriend : e[1][1] <= e[2][1]
  /\ gUniqueIDs => \A m, n \in gNodes : m[1] = n[1] => m = n
  /\ \A c \in Callers : MergeFound(c)

(* orderedPair names the users of a request once, the smaller first.       *)
LEMMA EndsOfRequest ==
  ASSUME NEW r \in GraphRequests
  PROVE  /\ Graph!Ends(r)[1] \in Users /\ Graph!Ends(r)[2] \in Users
         /\ Graph!Ends(r)[1] \in Int /\ Graph!Ends(r)[2] \in Int
         /\ r.op \in {"link", "unlink"} =>
              /\ Graph!Ends(r)[1] <= Graph!Ends(r)[2]
              /\ {Graph!Ends(r)[1], Graph!Ends(r)[2]} = {r.a, r.b}
         /\ r.op \notin {"link", "unlink"} =>
              Graph!Ends(r)[1] = r.a /\ Graph!Ends(r)[2] = r.b
<1>1. r.a \in Users /\ r.b \in Users /\ r.a \in Int /\ r.b \in Int
  BY ServicesAssumption, GraphAssumption
<1>2. CASE r.op \in {"link", "unlink"} /\ r.a <= r.b
  <2>1. Graph!Ends(r) = <<r.a, r.b>>
    BY <1>2 DEF Graph!Ends, Graph!orderedPair
  <2> QED
    BY <1>1, <1>2, <2>1
<1>3. CASE r.op \in {"link", "unlink"} /\ ~(r.a <= r.b)
  <2>1. Graph!Ends(r) = <<r.b, r.a>>
    BY <1>3 DEF Graph!Ends, Graph!orderedPair
  <2> QED
    BY <1>1, <1>3, <2>1
<1>4. CASE r.op \notin {"link", "unlink"}
  <2>1. Graph!Ends(r) = <<r.a, r.b>>
    BY <1>4 DEF Graph!Ends
  <2> QED
    BY <1>1, <1>4, <2>1
<1> QED
  BY <1>2, <1>3, <1>4

(* Relationships between the nodes of two users add one pair.              *)
LEMMA AddedPair ==
  ASSUME NEW f, NEW new, NEW u, NEW v, new # {}, Joins(new, u, v)
  PROVE  PairsOf(f \cup new) = PairsOf(f) \cup {{u, v}}
BY DEF PairsOf, Joins

LEMMA AddedArrow ==
  ASSUME NEW f, NEW new, NEW u, NEW v, new # {}, Joins(new, u, v)
  PROVE  ArrowsOf(f \cup new) = ArrowsOf(f) \cup {<<u, v>>}
BY DEF ArrowsOf, Joins

(* All relationships between the nodes of two users gone, the pair is: for *)
(* friendships because their direction is that of the ids.                 *)
Between(N, u, v) == {n \in N : n[1] = u} \X {n \in N : n[1] = v}
Ordered(f) == \A e \in f : e[1][1] \in Int /\ e[2][1] \in Int /\ e[1][1] <= e[2][1]

LEMMA EdgesBetween ==
  ASSUME NEW N, NEW f \in SUBSET (N \X N), NEW u, NEW v
  PROVE  \A e \in f : e \in Between(N, u, v) <=> e[1][1] = u /\ e[2][1] = v
<1>1. \A e \in f : e = <<e[1], e[2]>> /\ e[1] \in N /\ e[2] \in N
  OBVIOUS
<1> QED
  BY <1>1 DEF Between

LEMMA RemovedPair ==
  ASSUME NEW N, NEW f \in SUBSET (N \X N), NEW u \in Int, NEW v \in Int, u <= v, Ordered(f)
  PROVE  PairsOf(f \ Between(N, u, v)) = PairsOf(f) \ {{u, v}}
<1>1. ASSUME NEW e \in f
      PROVE  {e[1][1], e[2][1]} = {u, v} <=> e \in Between(N, u, v)
  <2>1. e[1][1] \in Int /\ e[2][1] \in Int /\ e[1][1] <= e[2][1]
    BY DEF Ordered
  <2>2. {e[1][1], e[2][1]} = {u, v} <=> e[1][1] = u /\ e[2][1] = v
    BY <2>1
  <2> QED
    BY <2>2, EdgesBetween
<1> QED
  BY <1>1 DEF PairsOf

LEMMA RemovedArrow ==
  ASSUME NEW N, NEW f \in SUBSET (N \X N), NEW u \in Int, NEW v \in Int
  PROVE  ArrowsOf(f \ Between(N, u, v)) = ArrowsOf(f) \ {<<u, v>>}
<1>1. \A e \in f : <<e[1][1], e[2][1]>> = <<u, v>> <=> e \in Between(N, u, v)
  BY EdgesBetween
<1> QED
  BY <1>1 DEF ArrowsOf

(* The nodes a MERGE binds are nodes of the user, one by one.              *)
LEMMA BoundNodes ==
  ASSUME GraphInv, NEW u, NEW ns \in SUBSET gNodes, \A n \in ns : n[1] = u
  PROVE  /\ Graph!Bound(u, ns) # {} /\ \A n \in Graph!Bound(u, ns) : n[1] = u
         /\ ns # {} => Graph!Bound(u, ns) = ns
         /\ gUniqueIDs => \A m, n \in gNodes \cup Graph!Bound(u, ns) : m[1] = n[1] => m = n
<1> DEFINE new == {<<u, Graph!Cardinality(Graph!MatchUser(u)) + 1>>}
<1>1. /\ \A n \in Graph!MatchUser(u) : n \in gNodes /\ n[1] = u
      /\ \A n \in gNodes : n[1] = u => n \in Graph!MatchUser(u)
  BY DEF Graph!MatchUser
<1>2. new # {} /\ \A n \in new : n[1] = u
  OBVIOUS
<1>3. Graph!Bound(u, ns) =
        IF (IF gUniqueIDs THEN Graph!MatchUser(u) ELSE ns) # {}
        THEN (IF gUniqueIDs THEN Graph!MatchUser(u) ELSE ns) ELSE new
  BY DEF Graph!Bound
<1> HIDE DEF new
<1>4. Graph!Bound(u, ns) # {} /\ \A n \in Graph!Bound(u, ns) : n[1] = u
  BY <1>1, <1>2, <1>3
<1>5. ns # {} => Graph!Bound(u, ns) = ns
  <2>1. CASE gUniqueIDs
    <3>1. \A m, n \in gNodes : m[1] = n[1] => m = n
      BY <2>1 DEF GraphInv
    <3>2. ns # {} => Graph!MatchUser(u) = ns
      BY <1>1, <3>1
    <3> QED
      BY <1>3, <2>1, <3>2
  <2> QED
    BY <1>3, <2>1
<1>6. ASSUME gUniqueIDs, NEW m \in gNodes \cup Graph!Bound(u, ns),
             NEW n \in gNodes \cup Graph!Bound(u, ns), m[1] = n[1]
      PROVE  m = n
  <2>1. \A k, l \in gNodes : k[1] = l[1] => k = l
    BY <1>6 DEF GraphInv
  <2>2. CASE Graph!MatchUser(u) # {}
    BY <1>1, <1>3, <1>6, <2>1, <2>2
  <2>3. CASE Graph!MatchUser(u) = {}
    <3>1. Graph!Bound(u, ns) = new /\ \A k \in gNodes : k[1] # u
      BY <1>1, <1>3, <1>6, <2>3
    <3>2. \A k, l \in new : k = l
      BY DEF new
    <3> QED
      BY <1>2, <1>6, <2>1, <3>1, <3>2
  <2> QED
    BY <2>2, <2>3
<1> QED
  BY <1>4, <1>5, <1>6

(* What a step leaves to show: a caller that asks nothing new keeps what   *)
(* its MERGE found, whatever the others add.                               *)
LEMMA MergeFoundStays ==
  ASSUME NEW c \in Callers, MergeFound(c), gReq'[c] = gReq[c], gFound'[c] = gFound[c],
         gPhase'[c] = gPhase[c]
  PROVE  MergeFound(c)'
BY DEF MergeFound, Graph!Ends, Graph!orderedPair

(* A caller that is neither asking nor merging.                            *)
LEMMA MergeFoundTrivial ==
  ASSUME NEW c \in Callers, gPhase'[c] \notin {"begun", "merging", "committed"}
  PROVE  MergeFound(c)'
BY DEF MergeFound

LEMMA GraphInit == ASSUME Graph!Init PROVE GraphInv
<1>1. /\ gUniqueIDs \in BOOLEAN /\ gNodes = {} /\ gFriend = {} /\ gBlock = {}
      /\ gReq = [c \in Callers |-> NoRequest] /\ gPhase = [c \in Callers |-> "ok"]
      /\ gFound = [c \in Callers |-> [a |-> {}, b |-> {}, edges |-> {}]] /\ gCalls = 0
  BY DEF Graph!Init, Graph!Nothing
<1>2. GraphTypes
  BY <1>1, ServicesAssumption DEF GraphTypes
<1>3. \A c \in Callers : MergeFound(c)
  BY <1>1 DEF MergeFound
<1> QED
  BY <1>1, <1>2, <1>3 DEF GraphInv

(* A step that only moves a call forward or back.                          *)
LEMMA GraphMoves ==
  ASSUME GraphInv, NEW c \in Callers,
         Graph!Call(c) \/ Graph!Merge(c) \/ Graph!Return(c) \/ Graph!Fail(c) \/ Graph!Retry(c)
  PROVE  GraphInv'
<1>1. /\ gUniqueIDs' = gUniqueIDs /\ gNodes' = gNodes /\ gFriend' = gFriend /\ gBlock' = gBlock
      /\ \A d \in Callers : d # c =>
           gReq'[d] = gReq[d] /\ gPhase'[d] = gPhase[d] /\ gFound'[d] = gFound[d]
  BY DEF Graph!Call, Graph!Merge, Graph!Return, Graph!Fail, Graph!Retry, Graph!graphVars,
         GraphInv, GraphTypes
<1>2. gReq' \in [Callers -> GraphRequests \cup {NoRequest}]
  BY DEF Graph!Call, Graph!Merge, Graph!Return, Graph!Fail, Graph!Retry,
         GraphInv, GraphTypes
<1>3. gPhase' \in [Callers -> {"ok", "error", "begun", "merging", "committed"}]
  BY DEF Graph!Call, Graph!Merge, Graph!Return, Graph!Fail, Graph!Retry,
         GraphInv, GraphTypes
<1>4. gFound' \in [Callers -> [a : SUBSET gNodes, b : SUBSET gNodes,
                               edges : SUBSET (gNodes \X gNodes)]]
  <2>1. Graph!Nothing \in [a : SUBSET gNodes, b : SUBSET gNodes,
                           edges : SUBSET (gNodes \X gNodes)]
    BY DEF Graph!Nothing
  <2>2. gFound \in [Callers -> [a : SUBSET gNodes, b : SUBSET gNodes,
                               edges : SUBSET (gNodes \X gNodes)]]
    BY DEF GraphInv, GraphTypes
  <2>3. CASE Graph!Merge(c)
    <3> DEFINE as == Graph!MatchUser(Graph!Ends(gReq[c])[1])
               bs == Graph!MatchUser(Graph!Ends(gReq[c])[2])
               es == (as \X bs) \cap Graph!Stored(gReq[c])
    <3>1. gFound' = [gFound EXCEPT ![c] = [a |-> as, b |-> bs, edges |-> es]]
      BY <2>3 DEF Graph!Merge
    <3>2. as \subseteq gNodes /\ bs \subseteq gNodes
      BY DEF Graph!MatchUser
    <3> HIDE DEF as, bs
    <3>3. es \subseteq gNodes \X gNodes
      BY <3>2
    <3> QED
      BY <2>2, <3>1, <3>2, <3>3
  <2>4. CASE gFound' = gFound \/ gFound' = [gFound EXCEPT ![c] = Graph!Nothing]
    BY <2>1, <2>2, <2>4
  <2> QED
    BY <2>3, <2>4 DEF Graph!Call, Graph!Return, Graph!Fail, Graph!Retry
<1>5. gCalls' \in 0 .. MaxCalls
  BY ServicesAssumption DEF Graph!Call, Graph!Merge, Graph!Return, Graph!Fail, Graph!Retry,
         GraphInv, GraphTypes
<1>6. MergeFound(c)'
  <2>1. CASE Graph!Call(c)
    <3>1. gReq'[c] \in GraphRequests /\ gPhase'[c] # "merging"
      BY <2>1 DEF Graph!Call, GraphInv, GraphTypes
    <3> QED
      BY <3>1 DEF MergeFound
  <2>2. CASE Graph!Merge(c)
    <3> DEFINE e == Graph!Ends(gReq[c])
    <3>1. /\ gFound'[c].a = Graph!MatchUser(e[1]) /\ gFound'[c].b = Graph!MatchUser(e[2])
          /\ gFound'[c].edges \subseteq gFound'[c].a \X gFound'[c].b
          /\ gReq' = gReq /\ gPhase[c] = "begun" /\ gReq[c].op \in {"upsert", "link", "block"}
      BY <2>2 DEF Graph!Merge, Graph!Merges, GraphInv, GraphTypes
    <3>2. /\ \A n \in gFound'[c].a : n[1] = e[1]
          /\ \A n \in gFound'[c].b : n[1] = e[2]
      BY <3>1 DEF Graph!MatchUser
    <3>3. gReq[c] \in GraphRequests
      BY <3>1 DEF GraphInv, MergeFound
    <3>4. Graph!Ends(gReq[c])' = e
      BY <3>1 DEF Graph!Ends, Graph!orderedPair
    <3> HIDE DEF e
    <3> QED
      BY <3>1, <3>2, <3>3, <3>4 DEF MergeFound
  <2>3. CASE Graph!Return(c) \/ Graph!Fail(c)
    <3>1. gPhase'[c] \in {"ok", "error"}
      BY <2>3 DEF Graph!Return, Graph!Fail, GraphInv, GraphTypes
    <3> QED
      BY <3>1, MergeFoundTrivial
  <2>4. CASE Graph!Retry(c)
    <3>1. gPhase[c] = "merging" /\ gPhase'[c] = "begun" /\ gReq'[c] = gReq[c]
      BY <2>4 DEF Graph!Retry, GraphInv, GraphTypes
    <3> QED
      BY <3>1 DEF MergeFound, GraphInv
  <2> QED
    BY <2>1, <2>2, <2>3, <2>4
<1>7. ASSUME NEW d \in Callers PROVE MergeFound(d)'
  BY <1>1, <1>6, MergeFoundStays DEF GraphInv
<1>8. GraphTypes'
  BY <1>1, <1>2, <1>3, <1>4, <1>5 DEF GraphInv, GraphTypes
<1> QED
  BY <1>1, <1>7, <1>8 DEF GraphInv

(* A commit: what was not found is created, or what is found is deleted.   *)
LEMMA GraphCommitMerge ==
  ASSUME GraphInv, NEW c \in Callers, Graph!CommitMerge(c)
  PROVE  GraphInv'
<1> DEFINE r == gReq[c]
           u == Graph!Ends(r)[1]
           v == Graph!Ends(r)[2]
           as == Graph!Bound(u, gFound[c].a)
           bs == Graph!Bound(v, gFound[c].b)
           new == (as \X bs) \ gFound[c].edges
<1>1. /\ gPhase[c] = "merging" /\ as \cup bs \subseteq Users \X (1 .. MaxCopies)
      /\ gPhase' = [gPhase EXCEPT ![c] = "committed"]
      /\ gNodes' = gNodes \cup as \cup bs
      /\ gFriend' = (IF r.op = "link" THEN gFriend \cup new ELSE gFriend)
      /\ gBlock' = (IF r.op = "block" THEN gBlock \cup new ELSE gBlock)
      /\ gFound' = [gFound EXCEPT ![c] = Graph!Nothing]
      /\ gUniqueIDs' = gUniqueIDs /\ gReq' = gReq /\ gCalls' = gCalls
  BY DEF Graph!CommitMerge, Graph!Node
<1>2. /\ r \in GraphRequests /\ gFound[c].a \subseteq gNodes /\ gFound[c].b \subseteq gNodes
      /\ \A n \in gFound[c].a : n[1] = u
      /\ \A n \in gFound[c].b : n[1] = v
  BY <1>1 DEF GraphInv, GraphTypes, MergeFound
<1>3. u \in Int /\ v \in Int /\ (r.op = "link" => u <= v)
  BY <1>2, EndsOfRequest
<1>4. /\ \A n \in as : n[1] = u
      /\ \A n \in bs : n[1] = v
      /\ gUniqueIDs => \A m, n \in gNodes \cup as : m[1] = n[1] => m = n
      /\ gUniqueIDs => \A m, n \in gNodes \cup bs : m[1] = n[1] => m = n
  <2>1. ASSUME NEW w, NEW ns \in SUBSET gNodes, \A n \in ns : n[1] = w
        PROVE  /\ \A n \in Graph!Bound(w, ns) : n[1] = w
               /\ gUniqueIDs => \A m, n \in gNodes \cup Graph!Bound(w, ns) :
                                  m[1] = n[1] => m = n
    BY <2>1, BoundNodes
  <2> HIDE DEF u, v
  <2>2. /\ \A n \in as : n[1] = u
        /\ gUniqueIDs => \A m, n \in gNodes \cup as : m[1] = n[1] => m = n
    BY <1>2, <2>1
  <2>3. /\ \A n \in bs : n[1] = v
        /\ gUniqueIDs => \A m, n \in gNodes \cup bs : m[1] = n[1] => m = n
    BY <1>2, <2>1
  <2> QED
    BY <2>2, <2>3
<1>5. gUniqueIDs /\ u = v => as = bs
  <2>1. gUniqueIDs => as = (IF Graph!MatchUser(u) # {} THEN Graph!MatchUser(u)
                            ELSE {<<u, Graph!Cardinality(Graph!MatchUser(u)) + 1>>})
    BY DEF Graph!Bound
  <2>2. gUniqueIDs => bs = (IF Graph!MatchUser(v) # {} THEN Graph!MatchUser(v)
                            ELSE {<<v, Graph!Cardinality(Graph!MatchUser(v)) + 1>>})
    BY DEF Graph!Bound
  <2> QED
    BY <2>1, <2>2
<1> HIDE DEF as, bs, u, v, r
<1>6. \A e \in new : e[1] \in as /\ e[2] \in bs
  <2>1. \A e \in as \X bs : e[1] \in as /\ e[2] \in bs
    OBVIOUS
  <2> QED
    BY <2>1
<1>7. new \subseteq gNodes' \X gNodes'
  BY <1>1
<1>8. gFriend \subseteq gNodes' \X gNodes' /\ gBlock \subseteq gNodes' \X gNodes'
  BY <1>1 DEF GraphInv, GraphTypes
<1>9. gFriend' \subseteq gNodes' \X gNodes' /\ gBlock' \subseteq gNodes' \X gNodes'
  BY <1>1, <1>7, <1>8
<1>10. \A e \in gFriend' : e[1][1] <= e[2][1]
  <2>1. CASE r.op = "link"
    <3>1. \A e \in new : e[1][1] <= e[2][1]
      BY <1>3, <1>4, <1>6, <2>1
    <3> QED
      BY <1>1, <2>1, <3>1 DEF GraphInv
  <2> QED
    BY <1>1, <2>1 DEF GraphInv
<1>11. ASSUME gUniqueIDs, NEW m \in gNodes', NEW n \in gNodes', m[1] = n[1] PROVE m = n
  <2>1. CASE u = v
    BY <1>1, <1>4, <1>5, <1>11, <2>1
  <2>2. CASE u # v
    BY <1>1, <1>4, <1>11, <2>2
  <2> QED
    BY <2>1, <2>2
<1>12. gFound' \in [Callers -> [a : SUBSET gNodes', b : SUBSET gNodes',
                                edges : SUBSET (gNodes' \X gNodes')]]
  <2>1. Graph!Nothing \in [a : SUBSET gNodes', b : SUBSET gNodes',
                           edges : SUBSET (gNodes' \X gNodes')]
    BY DEF Graph!Nothing
  <2>2. [a : SUBSET gNodes, b : SUBSET gNodes, edges : SUBSET (gNodes \X gNodes)]
          \subseteq [a : SUBSET gNodes', b : SUBSET gNodes',
                     edges : SUBSET (gNodes' \X gNodes')]
    BY <1>1
  <2>3. gFound \in [Callers -> [a : SUBSET gNodes', b : SUBSET gNodes',
                               edges : SUBSET (gNodes' \X gNodes')]]
    BY <2>2 DEF GraphInv, GraphTypes
  <2> QED
    BY <1>1, <2>1, <2>3
<1>13. GraphTypes'
  <2>1. gNodes' \subseteq Users \X (1 .. MaxCopies)
    BY <1>1 DEF GraphInv, GraphTypes
  <2>2. gPhase' \in [Callers -> {"ok", "error", "begun", "merging", "committed"}]
    BY <1>1 DEF GraphInv, GraphTypes
  <2> QED
    BY <1>1, <1>9, <1>12, <2>1, <2>2 DEF GraphInv, GraphTypes
<1>14. ASSUME NEW d \in Callers PROVE MergeFound(d)'
  <2>1. CASE d = c
    <3>1. gPhase'[c] = "committed" /\ gReq'[c] \in GraphRequests
      BY <1>1, <1>2 DEF GraphInv, GraphTypes, r
    <3> QED
      BY <2>1, <3>1 DEF MergeFound
  <2>2. CASE d # c
    <3>1. gReq'[d] = gReq[d] /\ gPhase'[d] = gPhase[d] /\ gFound'[d] = gFound[d]
      BY <1>1, <2>2 DEF GraphInv, GraphTypes
    <3> QED
      BY <3>1, MergeFoundStays DEF GraphInv
  <2> QED
    BY <2>1, <2>2
<1> QED
  BY <1>1, <1>10, <1>11, <1>13, <1>14 DEF GraphInv

LEMMA GraphCommitDelete ==
  ASSUME GraphInv, NEW c \in Callers, Graph!CommitDelete(c)
  PROVE  GraphInv'
<1>1. /\ gPhase[c] = "begun" /\ gPhase' = [gPhase EXCEPT ![c] = "committed"]
      /\ gFriend' \subseteq gFriend /\ gBlock' \subseteq gBlock
      /\ gNodes' = gNodes /\ gUniqueIDs' = gUniqueIDs /\ gReq' = gReq /\ gCalls' = gCalls
      /\ gFound' = gFound
  BY DEF Graph!CommitDelete
<1>2. GraphTypes'
  BY <1>1 DEF GraphInv, GraphTypes
<1>3. ASSUME NEW d \in Callers PROVE MergeFound(d)'
  <2>1. CASE d = c
    <3>1. gPhase'[c] = "committed" /\ gReq'[c] \in GraphRequests
      BY <1>1 DEF GraphInv, GraphTypes, MergeFound
    <3> QED
      BY <2>1, <3>1 DEF MergeFound
  <2>2. CASE d # c
    <3>1. gReq'[d] = gReq[d] /\ gPhase'[d] = gPhase[d] /\ gFound'[d] = gFound[d]
      BY <1>1, <2>2 DEF GraphInv, GraphTypes
    <3> QED
      BY <3>1, MergeFoundStays DEF GraphInv
  <2> QED
    BY <2>1, <2>2
<1> QED
  BY <1>1, <1>2, <1>3 DEF GraphInv

LEMMA GraphSame == ASSUME GraphInv, UNCHANGED graphVars PROVE GraphInv'
<1>1. \A c \in Callers : MergeFound(c)'
  BY MergeFoundStays DEF graphVars, GraphInv
<1> QED
  BY <1>1 DEF graphVars, GraphInv, GraphTypes

LEMMA GraphStepInv == ASSUME GraphInv, [Next]_vars PROVE GraphInv'
<1>1. CASE UNCHANGED graphVars
  BY <1>1, GraphSame
<1>2. CASE Graph!Next
  <2>1. PICK c \in Callers :
          \/ Graph!Call(c) \/ Graph!Merge(c) \/ Graph!Return(c) \/ Graph!Fail(c) \/ Graph!Retry(c)
          \/ Graph!CommitMerge(c) \/ Graph!CommitDelete(c)
    BY <1>2 DEF Graph!Next
  <2> QED
    BY <2>1, GraphMoves, GraphCommitMerge, GraphCommitDelete
<1> QED
  BY <1>1, <1>2, OneInFocus

(* The inductive invariant of the graph: types, the direction friendships  *)
(* are stored in, one node per user under the constraint, and what a MERGE *)
(* has found.                                                              *)
THEOREM GraphInvariant == Spec => []GraphInv
<1>1. Init => GraphInv
  BY GraphInit DEF Init
<1>2. GraphInv /\ [Next]_vars => GraphInv'
  BY GraphStepInv
<1> QED
  BY <1>1, <1>2, PTL DEF Spec

(* The steps of the contract, over what it sees of the graph.              *)
LEMMA SocialSteps ==
  ASSUME NEW c \in Callers
  PROVE  /\ (/\ SocialPhase[c] \in {"ok", "error"} /\ UNCHANGED <<gFriend, gBlock>>
             /\ \E r \in GraphRequests :
                  /\ gReq' = [gReq EXCEPT ![c] = r]
                  /\ \E p \in {"asked"} \cup (IF r.a = r.b THEN {"ok", "error"} ELSE {}) :
                       SocialPhase' = [SocialPhase EXCEPT ![c] = p])
              => Graph!Social!Next
         /\ (/\ SocialPhase[c] = "asked" /\ gReq' = gReq
             /\ SocialPhase' = [SocialPhase EXCEPT ![c] = "applied"]
             /\ PairsOf(gFriend)' =
                  (IF gReq[c].op = "link" THEN PairsOf(gFriend) \cup {{gReq[c].a, gReq[c].b}}
                   ELSE IF gReq[c].op = "unlink" THEN PairsOf(gFriend) \ {{gReq[c].a, gReq[c].b}}
                   ELSE PairsOf(gFriend))
             /\ ArrowsOf(gBlock)' =
                  (IF gReq[c].op = "block" THEN ArrowsOf(gBlock) \cup {<<gReq[c].a, gReq[c].b>>}
                   ELSE IF gReq[c].op = "unblock"
                   THEN ArrowsOf(gBlock) \ {<<gReq[c].a, gReq[c].b>>}
                   ELSE ArrowsOf(gBlock)))
              => Graph!Social!Next
         /\ (/\ SocialPhase[c] = "applied" /\ gReq[c].op \in {"link", "block"}
             /\ SocialPhase' = [SocialPhase EXCEPT ![c] = "asked"]
             /\ UNCHANGED <<gFriend, gBlock, gReq>>)
              => Graph!Social!Next
         /\ (/\ \/ SocialPhase[c] = "applied"
                   /\ SocialPhase' = [SocialPhase EXCEPT ![c] = "ok"]
                \/ SocialPhase[c] \in {"asked", "applied"}
                   /\ SocialPhase' = [SocialPhase EXCEPT ![c] = "error"]
             /\ UNCHANGED <<gFriend, gBlock, gReq>>)
              => Graph!Social!Next
<1>1. ASSUME SocialPhase[c] \in {"ok", "error"}, UNCHANGED <<gFriend, gBlock>>,
             \E r \in GraphRequests :
               /\ gReq' = [gReq EXCEPT ![c] = r]
               /\ \E p \in {"asked"} \cup (IF r.a = r.b THEN {"ok", "error"} ELSE {}) :
                    SocialPhase' = [SocialPhase EXCEPT ![c] = p]
      PROVE  Graph!Social!Ask(c)
  BY <1>1 DEF SocialPhase, Graph!Social!Ask
<1>2. ASSUME SocialPhase[c] = "asked", gReq' = gReq,
             SocialPhase' = [SocialPhase EXCEPT ![c] = "applied"],
             PairsOf(gFriend)' =
               (IF gReq[c].op = "link" THEN PairsOf(gFriend) \cup {{gReq[c].a, gReq[c].b}}
                ELSE IF gReq[c].op = "unlink" THEN PairsOf(gFriend) \ {{gReq[c].a, gReq[c].b}}
                ELSE PairsOf(gFriend)),
             ArrowsOf(gBlock)' =
               (IF gReq[c].op = "block" THEN ArrowsOf(gBlock) \cup {<<gReq[c].a, gReq[c].b>>}
                ELSE IF gReq[c].op = "unblock"
                THEN ArrowsOf(gBlock) \ {<<gReq[c].a, gReq[c].b>>}
                ELSE ArrowsOf(gBlock))
      PROVE  Graph!Social!Apply(c)
  BY <1>2 DEF SocialPhase, PairsOf, ArrowsOf, Graph!Social!Apply
<1>3. ASSUME SocialPhase[c] = "applied", gReq[c].op \in {"link", "block"},
             SocialPhase' = [SocialPhase EXCEPT ![c] = "asked"],
             UNCHANGED <<gFriend, gBlock, gReq>>
      PROVE  Graph!Social!Repeat(c)
  BY <1>3 DEF SocialPhase, Graph!Social!Repeat
<1>4. ASSUME \/ SocialPhase[c] = "applied"
                /\ SocialPhase' = [SocialPhase EXCEPT ![c] = "ok"]
             \/ SocialPhase[c] \in {"asked", "applied"}
                /\ SocialPhase' = [SocialPhase EXCEPT ![c] = "error"],
             UNCHANGED <<gFriend, gBlock, gReq>>
      PROVE  Graph!Social!Answer(c)
  BY <1>4 DEF SocialPhase, Graph!Social!Answer
<1> QED
  BY <1>1, <1>2, <1>3, <1>4 DEF Graph!Social!Next

(* A call the contract sees as it was, and a step that shows it nothing.   *)
LEMMA SocialPhaseOf ==
  /\ SocialPhase = [d \in Callers |-> SocialPhase[d]]
  /\ \A d \in Callers : SocialPhase[d] =
       IF gPhase[d] \in {"ok", "error"} THEN gPhase[d]
       ELSE IF gPhase[d] = "committed"
               \/ (gPhase[d] = "merging" /\ gReq[d].op # "upsert" /\ Graph!AllFound(d))
       THEN "applied" ELSE "asked"
BY DEF SocialPhase

LEMMA SocialPhaseNext ==
  ASSUME NEW c \in Callers, NEW p,
         \A d \in Callers : d # c =>
           gReq'[d] = gReq[d] /\ gPhase'[d] = gPhase[d] /\ gFound'[d] = gFound[d],
         p = IF gPhase'[c] \in {"ok", "error"} THEN gPhase'[c]
             ELSE IF gPhase'[c] = "committed"
                     \/ (gPhase'[c] = "merging" /\ gReq'[c].op # "upsert" /\ Graph!AllFound(c)')
             THEN "applied" ELSE "asked"
  PROVE  SocialPhase' = [SocialPhase EXCEPT ![c] = p]
<1>1. \A d \in Callers : d # c => (Graph!AllFound(d)' <=> Graph!AllFound(d))
  BY DEF Graph!AllFound
<1>2. \A d \in Callers : d # c => SocialPhase'[d] = SocialPhase[d]
  BY <1>1 DEF SocialPhase
<1>3. SocialPhase'[c] = p
  BY DEF SocialPhase
<1>4. /\ SocialPhase' = [d \in Callers |-> SocialPhase'[d]]
      /\ SocialPhase = [d \in Callers |-> SocialPhase[d]]
  BY DEF SocialPhase
<1> QED
  BY <1>2, <1>3, <1>4

LEMMA SocialStutter ==
  ASSUME UNCHANGED <<gFriend, gBlock, gReq>>, SocialPhase' = SocialPhase
  PROVE  UNCHANGED Graph!Social!vars
BY DEF Graph!Social!vars, SocialPhase

(* Each step of a call is, to the contract, a step of that call or none.   *)
LEMMA CallIsAsk ==
  ASSUME GraphInv, NEW c \in Callers, Graph!Call(c)
  PROVE  Graph!Social!Next
<1>1. PICK r \in GraphRequests :
        /\ gReq' = [gReq EXCEPT ![c] = r]
        /\ gPhase' = [gPhase EXCEPT ![c] =
             IF r.op = "upsert" \/ r.a # r.b THEN "begun"
             ELSE IF r.op \in Graph!Merges THEN "error" ELSE "ok"]
  BY DEF Graph!Call
<1>2. gPhase[c] \in {"ok", "error"} /\ UNCHANGED <<gFriend, gBlock, gFound>>
  BY DEF Graph!Call, Graph!graphVars
<1>3. PICK p \in {"asked"} \cup (IF r.a = r.b THEN {"ok", "error"} ELSE {}) :
        p = IF gPhase'[c] \in {"ok", "error"} THEN gPhase'[c] ELSE "asked"
  BY <1>1 DEF GraphInv, GraphTypes
<1>4. gPhase'[c] \in {"begun", "error", "ok"}
  BY <1>1 DEF GraphInv, GraphTypes
<1>5. SocialPhase' = [SocialPhase EXCEPT ![c] = p]
  <2>1. \A d \in Callers : d # c =>
          gReq'[d] = gReq[d] /\ gPhase'[d] = gPhase[d] /\ gFound'[d] = gFound[d]
    BY <1>1, <1>2 DEF GraphInv, GraphTypes
  <2> QED
    BY <1>3, <1>4, <2>1, SocialPhaseNext
<1>6. SocialPhase[c] \in {"ok", "error"}
  BY <1>2 DEF SocialPhase
<1> QED
  BY <1>1, <1>2, <1>5, <1>6, SocialSteps

(* A MERGE that found everything takes effect here, and changes nothing    *)
(* the contract sees but that.                                             *)
LEMMA MergeMayApply ==
  ASSUME GraphInv, NEW c \in Callers, Graph!Merge(c)
  PROVE  Graph!Social!Next \/ UNCHANGED Graph!Social!vars
<1> DEFINE r == gReq[c]
           e == Graph!Ends(r)
<1>1. /\ gPhase[c] = "begun" /\ gPhase' = [gPhase EXCEPT ![c] = "merging"]
      /\ gFriend' = gFriend /\ gBlock' = gBlock /\ gReq' = gReq
      /\ r.op \in {"upsert", "link", "block"}
      /\ gFound' = [gFound EXCEPT ![c] =
           [a |-> Graph!MatchUser(e[1]), b |-> Graph!MatchUser(e[2]),
            edges |-> (Graph!MatchUser(e[1]) \X Graph!MatchUser(e[2])) \cap Graph!Stored(r)]]
  BY DEF Graph!Merge, Graph!Merges, Graph!graphVars
<1>2. r \in GraphRequests
  BY <1>1 DEF GraphInv, MergeFound
<1>3. \A d \in Callers : d # c =>
        gReq'[d] = gReq[d] /\ gPhase'[d] = gPhase[d] /\ gFound'[d] = gFound[d]
  BY <1>1 DEF GraphInv, GraphTypes
<1>4. gPhase'[c] = "merging" /\ gReq'[c] = r
  BY <1>1 DEF GraphInv, GraphTypes
<1>5. SocialPhase[c] = "asked"
  BY <1>1 DEF SocialPhase
<1>6. CASE ~(r.op # "upsert" /\ Graph!AllFound(c)')
  <2>1. SocialPhase' = [SocialPhase EXCEPT ![c] = "asked"]
    BY <1>3, <1>4, <1>6, SocialPhaseNext
  <2>2. SocialPhase' = SocialPhase
    BY <1>5, <2>1, SocialPhaseOf
  <2> QED
    BY <1>1, <2>2, SocialStutter
<1>7. CASE r.op # "upsert" /\ Graph!AllFound(c)'
  <2> DEFINE as == Graph!MatchUser(e[1])
             bs == Graph!MatchUser(e[2])
  <2>1. SocialPhase' = [SocialPhase EXCEPT ![c] = "applied"]
    BY <1>3, <1>4, <1>7, SocialPhaseNext
  <2>2. /\ gFound'[c].a = as /\ gFound'[c].b = bs
        /\ gFound'[c].edges = (as \X bs) \cap Graph!Stored(r)
    BY <1>1 DEF GraphInv, GraphTypes
  <2>3. as # {} /\ bs # {} /\ (as \X bs) \cap Graph!Stored(r) = as \X bs
    BY <1>7, <2>2 DEF Graph!AllFound
  <2>4. PICK m \in as, n \in bs : <<m, n>> \in Graph!Stored(r)
    <3> HIDE DEF as, bs
    <3>1. PICK m \in as : TRUE
      BY <2>3
    <3>2. PICK n \in bs : TRUE
      BY <2>3
    <3> QED
      BY <2>3, <3>1, <3>2
  <2>5. m[1] = e[1] /\ n[1] = e[2]
    BY DEF Graph!MatchUser
  <2> HIDE DEF as, bs, e
  <2>6. CASE r.op = "link"
    <3>1. <<m, n>> \in gFriend
      BY <2>4, <2>6 DEF Graph!Stored
    <3>2. {m[1], n[1]} \in PairsOf(gFriend)
      <4>1. <<m, n>>[1] = m /\ <<m, n>>[2] = n
        OBVIOUS
      <4> QED
        BY <3>1, <4>1 DEF PairsOf
    <3>3. {e[1], e[2]} = {r.a, r.b}
      BY <1>2, <2>6, EndsOfRequest DEF e
    <3>4. {r.a, r.b} \in PairsOf(gFriend)
      BY <2>5, <3>2, <3>3
    <3>5. PairsOf(gFriend)' = PairsOf(gFriend) \cup {{r.a, r.b}}
      BY <1>1, <3>4 DEF PairsOf
    <3>6. ArrowsOf(gBlock)' = ArrowsOf(gBlock)
      BY <1>1 DEF ArrowsOf
    <3> QED
      BY <1>1, <1>5, <2>1, <2>6, <3>5, <3>6, SocialSteps
  <2>7. CASE r.op = "block"
    <3>1. <<m, n>> \in gBlock
      BY <2>4, <2>7 DEF Graph!Stored
    <3>2. <<m[1], n[1]>> \in ArrowsOf(gBlock)
      <4>1. <<m, n>>[1] = m /\ <<m, n>>[2] = n
        OBVIOUS
      <4> QED
        BY <3>1, <4>1 DEF ArrowsOf
    <3>3. e[1] = r.a /\ e[2] = r.b
      BY <1>2, <2>7, EndsOfRequest DEF e
    <3>4. <<r.a, r.b>> \in ArrowsOf(gBlock)
      BY <2>5, <3>2, <3>3
    <3>5. ArrowsOf(gBlock)' = ArrowsOf(gBlock) \cup {<<r.a, r.b>>}
      BY <1>1, <3>4 DEF ArrowsOf
    <3>6. PairsOf(gFriend)' = PairsOf(gFriend)
      BY <1>1 DEF PairsOf
    <3> QED
      BY <1>1, <1>5, <2>1, <2>7, <3>5, <3>6, SocialSteps
  <2> QED
    BY <1>1, <1>7, <2>6, <2>7
<1> QED
  BY <1>6, <1>7

(* A commit of a MERGE that found everything adds nothing; of another, it  *)
(* adds the pair.                                                          *)
LEMMA CommitMayApply ==
  ASSUME GraphInv, NEW c \in Callers, Graph!CommitMerge(c)
  PROVE  Graph!Social!Next \/ UNCHANGED Graph!Social!vars
<1> DEFINE r == gReq[c]
           u == Graph!Ends(r)[1]
           v == Graph!Ends(r)[2]
           as == Graph!Bound(u, gFound[c].a)
           bs == Graph!Bound(v, gFound[c].b)
           new == (as \X bs) \ gFound[c].edges
<1>1. /\ gPhase[c] = "merging" /\ gPhase' = [gPhase EXCEPT ![c] = "committed"]
      /\ gFriend' = (IF r.op = "link" THEN gFriend \cup new ELSE gFriend)
      /\ gBlock' = (IF r.op = "block" THEN gBlock \cup new ELSE gBlock)
      /\ gReq' = gReq
      /\ gFound' = [gFound EXCEPT ![c] = Graph!Nothing]
  BY DEF Graph!CommitMerge
<1>2. /\ r \in GraphRequests /\ r.op \in {"upsert", "link", "block"}
      /\ gFound[c].a \subseteq gNodes /\ gFound[c].b \subseteq gNodes
      /\ gFound[c].edges \subseteq gFound[c].a \X gFound[c].b
      /\ \A n \in gFound[c].a : n[1] = u
      /\ \A n \in gFound[c].b : n[1] = v
  BY <1>1 DEF GraphInv, GraphTypes, MergeFound
<1>3. /\ as # {} /\ bs # {}
      /\ \A n \in as : n[1] = u
      /\ \A n \in bs : n[1] = v
      /\ gFound[c].a # {} => as = gFound[c].a
      /\ gFound[c].b # {} => bs = gFound[c].b
  <2>1. ASSUME NEW w, NEW ns \in SUBSET gNodes, \A n \in ns : n[1] = w
        PROVE  /\ Graph!Bound(w, ns) # {} /\ \A n \in Graph!Bound(w, ns) : n[1] = w
               /\ ns # {} => Graph!Bound(w, ns) = ns
    BY <2>1, BoundNodes
  <2> HIDE DEF u, v
  <2>2. as # {} /\ (\A n \in as : n[1] = u) /\ (gFound[c].a # {} => as = gFound[c].a)
    BY <1>2, <2>1
  <2>3. bs # {} /\ (\A n \in bs : n[1] = v) /\ (gFound[c].b # {} => bs = gFound[c].b)
    BY <1>2, <2>1
  <2> QED
    BY <2>2, <2>3
<1>4. /\ r.op = "link" => {u, v} = {r.a, r.b}
      /\ r.op = "block" => u = r.a /\ v = r.b
  BY <1>2, EndsOfRequest
<1>5. \A d \in Callers : d # c =>
        gReq'[d] = gReq[d] /\ gPhase'[d] = gPhase[d] /\ gFound'[d] = gFound[d]
  BY <1>1 DEF GraphInv, GraphTypes
<1>6. gPhase'[c] = "committed"
  BY <1>1 DEF GraphInv, GraphTypes
<1>7. SocialPhase' = [SocialPhase EXCEPT ![c] = "applied"]
  BY <1>5, <1>6, SocialPhaseNext
<1> HIDE DEF as, bs, u, v
<1>8. Graph!AllFound(c) <=> new = {}
  <2>1. ASSUME new = {} PROVE Graph!AllFound(c)
    <3>1. as \X bs \subseteq gFound[c].edges
      BY <2>1
    <3>2. as \X bs \subseteq gFound[c].a \X gFound[c].b
      BY <1>2, <3>1
    <3>3. PICK m \in as, n \in bs : <<m, n>> \in gFound[c].a \X gFound[c].b
      <4>1. PICK m \in as : TRUE
        BY <1>3
      <4>2. PICK n \in bs : TRUE
        BY <1>3
      <4> QED
        BY <3>2, <4>1, <4>2
    <3>4. gFound[c].a # {} /\ gFound[c].b # {}
      BY <3>3
    <3> QED
      BY <1>2, <1>3, <3>1, <3>4 DEF Graph!AllFound
  <2>2. ASSUME Graph!AllFound(c) PROVE new = {}
    BY <1>3, <2>2 DEF Graph!AllFound
  <2> QED
    BY <2>1, <2>2
<1>9. new \subseteq as \X bs
  OBVIOUS
<1>10. /\ new # {} => /\ PairsOf(gFriend \cup new) = PairsOf(gFriend) \cup {{u, v}}
                      /\ ArrowsOf(gBlock \cup new) = ArrowsOf(gBlock) \cup {<<u, v>>}
  <2> HIDE DEF new
  <2>1. Joins(new, u, v)
    BY <1>3, <1>9 DEF Joins
  <2>2. ASSUME new # {} PROVE PairsOf(gFriend \cup new) = PairsOf(gFriend) \cup {{u, v}}
    BY <2>1, <2>2, AddedPair
  <2>3. ASSUME new # {} PROVE ArrowsOf(gBlock \cup new) = ArrowsOf(gBlock) \cup {<<u, v>>}
    BY <2>1, <2>3, AddedArrow
  <2> QED
    BY <2>2, <2>3
<1> HIDE DEF new
<1>11. CASE r.op # "upsert" /\ new = {}
  <2>1. SocialPhase[c] = "applied"
    BY <1>1, <1>8, <1>11 DEF SocialPhase
  <2>2. SocialPhase' = SocialPhase
    BY <1>7, <2>1, SocialPhaseOf
  <2>3. gFriend' = gFriend /\ gBlock' = gBlock
    BY <1>1, <1>11
  <2> QED
    BY <1>1, <2>2, <2>3, SocialStutter
<1>12. CASE r.op = "upsert" \/ new # {}
  <2>1. SocialPhase[c] = "asked"
    BY <1>1, <1>8, <1>12 DEF SocialPhase
  <2>2. PairsOf(gFriend)' = (IF r.op = "link" THEN PairsOf(gFriend) \cup {{r.a, r.b}}
                             ELSE PairsOf(gFriend))
    <3>1. PairsOf(gFriend)' = PairsOf(gFriend')
      BY DEF PairsOf
    <3> QED
      BY <1>1, <1>4, <1>10, <1>12, <3>1
  <2>3. ArrowsOf(gBlock)' = (IF r.op = "block" THEN ArrowsOf(gBlock) \cup {<<r.a, r.b>>}
                             ELSE ArrowsOf(gBlock))
    <3>1. ArrowsOf(gBlock)' = ArrowsOf(gBlock')
      BY DEF ArrowsOf
    <3> QED
      BY <1>1, <1>4, <1>10, <1>12, <3>1
  <2> QED
    BY <1>1, <1>2, <1>7, <2>1, <2>2, <2>3, SocialSteps
<1> QED
  BY <1>11, <1>12

(* An unlink or an unblock takes effect when it commits.                   *)
LEMMA DeleteApplies ==
  ASSUME GraphInv, NEW c \in Callers, Graph!CommitDelete(c)
  PROVE  Graph!Social!Next
<1> DEFINE r == gReq[c]
           u == Graph!Ends(r)[1]
           v == Graph!Ends(r)[2]
           gone == Between(gNodes, u, v)
<1>1. /\ gPhase[c] = "begun" /\ gPhase' = [gPhase EXCEPT ![c] = "committed"]
      /\ r.op \notin {"upsert", "link", "block"}
      /\ gFriend' = (IF r.op = "unlink" THEN gFriend \ gone ELSE gFriend)
      /\ gBlock' = (IF r.op = "unblock" THEN gBlock \ gone ELSE gBlock)
      /\ gReq' = gReq /\ gFound' = gFound
  BY DEF Graph!CommitDelete, Graph!MatchUser, Graph!Merges, Between
<1>2. r \in GraphRequests
  BY <1>1 DEF GraphInv, MergeFound
<1>3. /\ u \in Int /\ v \in Int
      /\ r.op = "unlink" => u <= v /\ {u, v} = {r.a, r.b}
      /\ r.op = "unblock" => u = r.a /\ v = r.b
  BY <1>2, EndsOfRequest
<1>4. SocialPhase' = [SocialPhase EXCEPT ![c] = "applied"]
  <2>1. \A d \in Callers : d # c =>
          gReq'[d] = gReq[d] /\ gPhase'[d] = gPhase[d] /\ gFound'[d] = gFound[d]
    BY <1>1 DEF GraphInv, GraphTypes
  <2>2. gPhase'[c] = "committed"
    BY <1>1 DEF GraphInv, GraphTypes
  <2> QED
    BY <2>1, <2>2, SocialPhaseNext
<1>5. SocialPhase[c] = "asked"
  BY <1>1 DEF SocialPhase
<1> HIDE DEF u, v
<1>6. PairsOf(gFriend)' = (IF r.op = "unlink" THEN PairsOf(gFriend) \ {{r.a, r.b}}
                           ELSE PairsOf(gFriend))
  <2>1. PairsOf(gFriend)' = PairsOf(gFriend')
    BY DEF PairsOf
  <2>2. gFriend \in SUBSET (gNodes \X gNodes)
    BY DEF GraphInv, GraphTypes
  <2>3. Ordered(gFriend)
    <3>1. \A e \in gFriend : e[1] \in gNodes /\ e[2] \in gNodes /\ e[1][1] <= e[2][1]
      BY <2>2 DEF GraphInv
    <3>2. \A n \in gNodes : n[1] \in Int
      BY ServicesAssumption DEF GraphInv, GraphTypes
    <3> QED
      BY <3>1, <3>2 DEF Ordered
  <2>4. ASSUME u <= v PROVE PairsOf(gFriend \ gone) = PairsOf(gFriend) \ {{u, v}}
    BY <1>3, <2>2, <2>3, <2>4, RemovedPair
  <2> HIDE DEF gone
  <2> QED
    BY <1>1, <1>3, <2>1, <2>4
<1>7. ArrowsOf(gBlock)' = (IF r.op = "unblock" THEN ArrowsOf(gBlock) \ {<<r.a, r.b>>}
                           ELSE ArrowsOf(gBlock))
  <2>1. ArrowsOf(gBlock)' = ArrowsOf(gBlock')
    BY DEF ArrowsOf
  <2>2. gBlock \in SUBSET (gNodes \X gNodes)
    BY DEF GraphInv, GraphTypes
  <2>3. ArrowsOf(gBlock \ gone) = ArrowsOf(gBlock) \ {<<u, v>>}
    BY <1>3, <2>2, RemovedArrow
  <2> HIDE DEF gone
  <2> QED
    BY <1>1, <1>3, <2>1, <2>3
<1> HIDE DEF gone
<1> QED
  BY <1>1, <1>4, <1>5, <1>6, <1>7, SocialSteps

(* The answer, the failure, and the retry that undoes what was applied.    *)
LEMMA AnswerOrRetry ==
  ASSUME GraphInv, NEW c \in Callers, Graph!Return(c) \/ Graph!Fail(c) \/ Graph!Retry(c)
  PROVE  Graph!Social!Next \/ UNCHANGED Graph!Social!vars
<1>1. /\ UNCHANGED <<gFriend, gBlock, gReq>>
      /\ \A d \in Callers : d # c =>
           gReq'[d] = gReq[d] /\ gPhase'[d] = gPhase[d] /\ gFound'[d] = gFound[d]
  BY DEF Graph!Return, Graph!Fail, Graph!Retry, Graph!graphVars, GraphInv, GraphTypes
<1>2. CASE Graph!Return(c)
  <2>1. gPhase[c] = "committed" /\ gPhase'[c] = "ok"
    BY <1>2 DEF Graph!Return, GraphInv, GraphTypes
  <2>2. SocialPhase' = [SocialPhase EXCEPT ![c] = "ok"]
    BY <1>1, <2>1, SocialPhaseNext
  <2>3. SocialPhase[c] = "applied"
    BY <2>1 DEF SocialPhase
  <2> QED
    BY <1>1, <2>2, <2>3, SocialSteps
<1>3. CASE Graph!Fail(c)
  <2>1. gPhase[c] \in {"begun", "merging", "committed"} /\ gPhase'[c] = "error"
    BY <1>3 DEF Graph!Fail, GraphInv, GraphTypes
  <2>2. SocialPhase' = [SocialPhase EXCEPT ![c] = "error"]
    BY <1>1, <2>1, SocialPhaseNext
  <2>3. SocialPhase[c] \in {"asked", "applied"}
    BY <2>1 DEF SocialPhase
  <2> QED
    BY <1>1, <2>2, <2>3, SocialSteps
<1>4. CASE Graph!Retry(c)
  <2>1. gPhase[c] = "merging" /\ gPhase'[c] = "begun"
    BY <1>4 DEF Graph!Retry, GraphInv, GraphTypes
  <2>2. SocialPhase' = [SocialPhase EXCEPT ![c] = "asked"]
    BY <1>1, <2>1, SocialPhaseNext
  <2>3. gReq[c].op \in {"upsert", "link", "block"}
    BY <2>1 DEF GraphInv, MergeFound
  <2>4. CASE SocialPhase[c] = "applied"
    <3>1. gReq[c].op \in {"link", "block"}
      BY <2>1, <2>3, <2>4, SocialPhaseOf
    <3> QED
      BY <1>1, <2>2, <2>4, <3>1, SocialSteps
  <2>5. CASE SocialPhase[c] = "asked"
    <3>1. SocialPhase' = SocialPhase
      BY <2>2, <2>5, SocialPhaseOf
    <3> QED
      BY <1>1, <3>1, SocialStutter
  <2>6. SocialPhase[c] \in {"asked", "applied"}
    BY <2>1 DEF SocialPhase
  <2> QED
    BY <2>4, <2>5, <2>6
<1> QED
  BY <1>2, <1>3, <1>4

(* neo4j.go: to its callers the graph, whatever copies of a user there are *)
(* and whatever is retried, is that of SocialGraph.                        *)
THEOREM GraphIsSocial == Spec => Graph!ImplementsContract
<1>1. Init => Graph!Social!Init
  BY DEF Init, Graph!Init, Graph!Social!Init
<1>2. GraphInv /\ [Next]_vars => [Graph!Social!Next]_(Graph!Social!vars)
  <2> SUFFICES ASSUME GraphInv, [Next]_vars
               PROVE  Graph!Social!Next \/ UNCHANGED Graph!Social!vars
    OBVIOUS
  <2>1. CASE UNCHANGED graphVars
    <3>1. SocialPhase' = SocialPhase /\ UNCHANGED <<gFriend, gBlock, gReq>>
      <4>1. UNCHANGED <<gFriend, gBlock, gReq, gPhase, gFound>>
        BY <2>1 DEF graphVars
      <4> QED
        BY <4>1 DEF SocialPhase, Graph!AllFound
    <3> QED
      BY <3>1, SocialStutter
  <2>2. CASE Graph!Next
    <3>1. PICK c \in Callers :
            \/ Graph!Call(c) \/ Graph!Merge(c) \/ Graph!CommitMerge(c) \/ Graph!CommitDelete(c)
            \/ Graph!Return(c) \/ Graph!Fail(c) \/ Graph!Retry(c)
      BY <2>2 DEF Graph!Next
    <3> QED
      BY <3>1, CallIsAsk, MergeMayApply, CommitMayApply, DeleteApplies, AnswerOrRetry
  <2> QED
    BY <2>1, <2>2, OneInFocus
<1> QED
  BY <1>1, <1>2, GraphInvariant, PTL DEF Spec, Graph!ImplementsContract, Graph!Social!Spec

-----------------------------------------------------------------------------
(* Numbers: the least of a set of naturals.                                *)
LEMMA Least ==
  ASSUME NEW T \in SUBSET Nat, T # {}
  PROVE  \E x \in T : \A y \in T : x <= y
<1> DEFINE R == OpToRel(<, Nat)
<1>1. PICK x \in T : \A y \in T : ~ (<<y, x>> \in R)
  <2>1. IsWellFoundedOn(R, Nat)
    BY NatLessThanWellFounded
  <2> HIDE DEF R
  <2> QED
    BY <2>1, WFMin
<1>2. \A y \in T : ~ (y < x)
  BY <1>1 DEF OpToRel
<1> QED
  BY <1>2

-----------------------------------------------------------------------------
(* The vectors.  Of a collection the index by ULID sees the payload of the *)
(* point whose ULID it is, and which ULIDs belong to numbered points.      *)
IndexOf(p) ==
  IF p = NoCollection THEN NoCollection
  ELSE [id \in {Vectors!UlidString(q) : q \in DOMAIN p} |->
          p[CHOOSE q \in DOMAIN p : Vectors!UlidString(q) = id]]
LegacyOf(p) ==
  IF p = NoCollection THEN {}
  ELSE {Vectors!UlidString(q) : q \in {r \in DOMAIN p : r.kind = "num"}}

Stored == Vectors!StoredPoints
Payloads == Vectors!Payloads
UlidType == [time : Nat, entropy : Nat, form : {"upper", "lower", "short"}]
BatchType == Seq([id : UlidType, payload : Payloads])

LEMMA EntryOf ==
  ASSUME NEW b \in BatchType, NEW i \in DOMAIN b
  PROVE  b[i].id \in UlidType /\ b[i].payload \in Payloads /\ i \in 1 .. Len(b)
<1> DEFINE T == [id : UlidType, payload : Payloads]
<1>1. b \in Seq(T)
  BY DEF BatchType
<1> HIDE DEF T
<1>2. i \in 1 .. Len(b) /\ b[i] \in T
  BY <1>1
<1> QED
  BY <1>2 DEF T

(* What is stored is a numbered point or has an entropy, so no two points  *)
(* have one ULID.                                                          *)
LEMMA PointsOf ==
  /\ \A p \in Stored : \/ \E t \in Nat : p = [kind |-> "num", time |-> t, entropy |-> 0]
                       \/ \E t \in Nat, e \in Nat \ {0} :
                            p = [kind |-> "uuid", time |-> t, entropy |-> e]
  /\ \A p, q \in Stored : Vectors!UlidString(p) = Vectors!UlidString(q) => p = q
<1>1. ASSUME NEW p \in Stored
      PROVE  \/ \E t \in Nat : p = [kind |-> "num", time |-> t, entropy |-> 0]
             \/ \E t \in Nat, e \in Nat \ {0} : p = [kind |-> "uuid", time |-> t, entropy |-> e]
  <2>1. CASE p \in {Vectors!Number(t) : t \in LegacyTimes}
    <3>1. PICK t \in LegacyTimes : p = Vectors!Number(t)
      BY <2>1
    <3> QED
      BY <3>1, PartsAssumption DEF Vectors!VectorAssumption, Vectors!Number
  <2>2. CASE p \notin {Vectors!Number(t) : t \in LegacyTimes}
    <3>1. PICK r \in VectorRequests : r.op = "upsert"
            /\ \E i \in DOMAIN r.batch : p = Vectors!Uuid(r.batch[i].id)
      BY <2>2 DEF Stored, Vectors!StoredPoints
    <3>0. PICK i \in DOMAIN r.batch : p = Vectors!Uuid(r.batch[i].id)
      BY <3>1
    <3>2. /\ r.batch \in BatchType
          /\ r.batch[i].id.entropy # 0
      BY <3>0, <3>1, PartsAssumption DEF Vectors!VectorAssumption, BatchType, UlidType, Payloads
    <3>3. r.batch[i].id \in UlidType
      BY <3>0, <3>2, EntryOf
    <3>4. r.batch[i].id.time \in Nat /\ r.batch[i].id.entropy \in Nat \ {0}
      BY <3>2, <3>3 DEF UlidType
    <3> QED
      BY <3>0, <3>4 DEF Vectors!Uuid
  <2> QED
    BY <2>1, <2>2
<1>2. ASSUME NEW p \in Stored
      PROVE  /\ p.entropy = 0 => \E t \in Nat : p = [kind |-> "num", time |-> t, entropy |-> 0]
             /\ p.entropy # 0 => \E t \in Nat, e \in Nat :
                  p = [kind |-> "uuid", time |-> t, entropy |-> e]
  <2>1. CASE \E t \in Nat : p = [kind |-> "num", time |-> t, entropy |-> 0]
    BY <2>1
  <2>2. CASE \E t \in Nat, e \in Nat \ {0} : p = [kind |-> "uuid", time |-> t, entropy |-> e]
    BY <2>2
  <2> QED
    BY <1>1, <2>1, <2>2
<1>3. ASSUME NEW p \in Stored, NEW q \in Stored,
             Vectors!UlidString(p) = Vectors!UlidString(q)
      PROVE  p = q
  <2>1. p.time = q.time /\ p.entropy = q.entropy
    <3>1. Vectors!UlidString(p).time = p.time /\ Vectors!UlidString(p).entropy = p.entropy
      BY DEF Vectors!UlidString
    <3>2. Vectors!UlidString(q).time = q.time /\ Vectors!UlidString(q).entropy = q.entropy
      BY DEF Vectors!UlidString
    <3> QED
      BY <1>3, <3>1, <3>2
  <2>2. CASE p.entropy = 0
    <3>1. PICK t \in Nat : p = [kind |-> "num", time |-> t, entropy |-> 0]
      BY <1>2, <2>2
    <3>2. PICK s \in Nat : q = [kind |-> "num", time |-> s, entropy |-> 0]
      BY <1>2, <2>1, <2>2
    <3> QED
      BY <2>1, <3>1, <3>2
  <2>3. CASE p.entropy # 0
    <3>1. PICK t \in Nat, e \in Nat : p = [kind |-> "uuid", time |-> t, entropy |-> e]
      BY <1>2, <2>3
    <3>2. PICK s \in Nat, f \in Nat : q = [kind |-> "uuid", time |-> s, entropy |-> f]
      BY <1>2, <2>1, <2>3
    <3> QED
      BY <2>1, <3>1, <3>2
  <2> QED
    BY <2>2, <2>3
<1> QED
  BY <1>1, <1>3

LEMMA OneUlid ==
  ASSUME NEW p \in Stored, NEW q \in Stored, Vectors!UlidString(p) = Vectors!UlidString(q)
  PROVE  p = q
BY PointsOf

(* The index of a collection has the payload of each point at its ULID.    *)
LEMMA IndexEntries ==
  ASSUME NEW S \in SUBSET Stored, NEW P \in [S -> Payloads]
  PROVE  /\ P # NoCollection /\ IndexOf(P) # NoCollection
         /\ IndexOf(P) = [id \in DOMAIN IndexOf(P) |-> IndexOf(P)[id]]
         /\ DOMAIN IndexOf(P) = {Vectors!UlidString(q) : q \in S}
         /\ \A q \in S : IndexOf(P)[Vectors!UlidString(q)] = P[q]
         /\ LegacyOf(P) = {Vectors!UlidString(q) : q \in {r \in S : r.kind = "num"}}
<1> DEFINE U == {Vectors!UlidString(q) : q \in S}
           F == [id \in U |-> P[CHOOSE q \in S : Vectors!UlidString(q) = id]]
<1>1. \A ids \in SUBSET (Stored \cup {Vectors!UlidString(p) : p \in Stored}) :
        NoCollection \notin [ids -> Payloads]
  BY PartsAssumption DEF Vectors!VectorAssumption, Stored, Payloads
<1>2. P # NoCollection
  BY <1>1
<1>3. DOMAIN P = S
  OBVIOUS
<1>4. IndexOf(P) = F
  BY <1>2, <1>3 DEF IndexOf
<1>5. ASSUME NEW q \in S
      PROVE  (CHOOSE r \in S : Vectors!UlidString(r) = Vectors!UlidString(q)) = q
  <2> DEFINE r == CHOOSE r \in S : Vectors!UlidString(r) = Vectors!UlidString(q)
  <2>1. r \in S /\ Vectors!UlidString(r) = Vectors!UlidString(q)
    OBVIOUS
  <2> HIDE DEF r
  <2>2. r = q
    BY <2>1, OneUlid
  <2> QED
    BY <2>2 DEF r
<1>6. \A q \in S : F[Vectors!UlidString(q)] = P[q]
  BY <1>5
<1>7. F \in [U -> Payloads]
  <2>1. \A id \in U : F[id] \in Payloads
    BY <1>6
  <2> QED
    BY <2>1
<1>8. F # NoCollection
  <2>1. U \in SUBSET (Stored \cup {Vectors!UlidString(p) : p \in Stored})
    OBVIOUS
  <2> HIDE DEF F, U
  <2> QED
    BY <1>1, <1>7, <2>1
<1>9. LegacyOf(P) = {Vectors!UlidString(q) : q \in {r \in S : r.kind = "num"}}
  BY <1>2, <1>3 DEF LegacyOf
<1>10. DOMAIN F = U /\ F = [id \in DOMAIN F |-> F[id]]
  OBVIOUS
<1> HIDE DEF F
<1> QED
  BY <1>2, <1>4, <1>6, <1>8, <1>9, <1>10

(* An index is that of a collection when it has its entries.               *)
LEMMA IndexIs ==
  ASSUME NEW S \in SUBSET Stored, NEW P \in [S -> Payloads], NEW G,
         DOMAIN G = {Vectors!UlidString(q) : q \in S}, G = [id \in DOMAIN G |-> G[id]],
         \A q \in S : G[Vectors!UlidString(q)] = P[q]
  PROVE  IndexOf(P) = G
<1>1. /\ IndexOf(P) = [id \in DOMAIN IndexOf(P) |-> IndexOf(P)[id]]
      /\ DOMAIN IndexOf(P) = {Vectors!UlidString(q) : q \in S}
      /\ \A q \in S : IndexOf(P)[Vectors!UlidString(q)] = P[q]
  BY IndexEntries
<1>2. \A id \in DOMAIN G : IndexOf(P)[id] = G[id]
  BY <1>1
<1> QED
  BY <1>1, <1>2

(* The spelling of an id is that of its point, and tells ids apart as the  *)
(* points do.                                                              *)
LEMMA Spelling ==
  ASSUME NEW a \in UlidType, NEW b \in UlidType
  PROVE  /\ Vectors!CanonicalId(a) = Vectors!UlidString(Vectors!Uuid(a))
         /\ Vectors!CanonicalId(a) = Vectors!CanonicalId(b) <=> Vectors!Uuid(a) = Vectors!Uuid(b)
         /\ Vectors!CanonicalId(a) = Vectors!UlidString(Vectors!Uuid(b))
              <=> Vectors!Uuid(a) = Vectors!Uuid(b)
<1>1. ASSUME NEW x \in UlidType
      PROVE  Vectors!CanonicalId(x) = Vectors!UlidString(Vectors!Uuid(x))
  <2> DEFINE y == [x EXCEPT !.form = "upper"]
             z == [time |-> x.time, entropy |-> x.entropy, form |-> "upper"]
  <2>1. DOMAIN x = {"time", "entropy", "form"}
    BY DEF UlidType
  <2>2. y = [f \in {"time", "entropy", "form"} |-> y[f]]
    BY <2>1
  <2>3. z = [f \in {"time", "entropy", "form"} |-> z[f]]
    OBVIOUS
  <2>4. y["time"] = z["time"] /\ y["entropy"] = z["entropy"] /\ y["form"] = z["form"]
    BY <2>1
  <2>5. \A f \in {"time", "entropy", "form"} : y[f] = z[f]
    BY <2>4
  <2> HIDE DEF y, z
  <2>6. y = z
    BY <2>2, <2>3, <2>5
  <2> QED
    BY <2>6 DEF y, z, Vectors!CanonicalId, Vectors!UlidString, Vectors!Uuid
<1>2. ASSUME NEW x \in UlidType, NEW y \in UlidType,
             Vectors!UlidString(Vectors!Uuid(x)) = Vectors!UlidString(Vectors!Uuid(y))
      PROVE  Vectors!Uuid(x) = Vectors!Uuid(y)
  <2>1. /\ Vectors!UlidString(Vectors!Uuid(x)).time = x.time
        /\ Vectors!UlidString(Vectors!Uuid(x)).entropy = x.entropy
    BY DEF Vectors!UlidString, Vectors!Uuid
  <2>2. /\ Vectors!UlidString(Vectors!Uuid(y)).time = y.time
        /\ Vectors!UlidString(Vectors!Uuid(y)).entropy = y.entropy
    BY DEF Vectors!UlidString, Vectors!Uuid
  <2>3. x.time = y.time /\ x.entropy = y.entropy
    BY <1>2, <2>1, <2>2
  <2> QED
    BY <2>3 DEF Vectors!Uuid
<1>3. Vectors!CanonicalId(a) = Vectors!UlidString(Vectors!Uuid(a))
  BY <1>1
<1>4. Vectors!CanonicalId(b) = Vectors!UlidString(Vectors!Uuid(b))
  BY <1>1
<1>5. Vectors!UlidString(Vectors!Uuid(a)) = Vectors!UlidString(Vectors!Uuid(b))
        <=> Vectors!Uuid(a) = Vectors!Uuid(b)
  BY <1>2
<1> QED
  BY <1>3, <1>4, <1>5

(* What is written to a point, and to the entry of the index that it is.   *)
Uuids == {Vectors!Uuid(a) : a \in UlidType}
WriteType ==
  {w \in [op : {"upsert", "delete"}, point : Uuids, payload : Payloads] :
     w.op = "upsert" => w.point \in Stored}
EntryFor(w) == [op |-> w.op, id |-> Vectors!UlidString(w.point), payload |-> w.payload]

LEMMA UuidIs ==
  ASSUME NEW p \in Uuids
  PROVE  p = [kind |-> "uuid", time |-> p.time, entropy |-> p.entropy]
BY DEF Uuids, Vectors!Uuid

LEMMA UuidsDiffer ==
  ASSUME NEW p \in Uuids, NEW q \in Uuids, Vectors!UlidString(p) = Vectors!UlidString(q)
  PROVE  p = q
<1>1. /\ Vectors!UlidString(p).time = p.time /\ Vectors!UlidString(p).entropy = p.entropy
      /\ Vectors!UlidString(q).time = q.time /\ Vectors!UlidString(q).entropy = q.entropy
  BY DEF Vectors!UlidString
<1>2. p.time = q.time /\ p.entropy = q.entropy
  BY <1>1
<1>3. p = [kind |-> "uuid", time |-> p.time, entropy |-> p.entropy]
  BY UuidIs
<1>4. q = [kind |-> "uuid", time |-> q.time, entropy |-> q.entropy]
  BY UuidIs
<1> QED
  BY <1>2, <1>3, <1>4

LEMMA WriteIs ==
  ASSUME NEW w \in WriteType
  PROVE  /\ w.op \in {"upsert", "delete"} /\ w.point \in Uuids /\ w.payload \in Payloads
         /\ w.op = "upsert" => w.point \in Stored
         /\ w = [op |-> w.op, point |-> w.point, payload |-> w.payload]
BY DEF WriteType

LEMMA OneEntry ==
  ASSUME NEW v \in WriteType, NEW w \in WriteType, EntryFor(v) = EntryFor(w)
  PROVE  v = w
<1>1. /\ EntryFor(v).op = v.op /\ EntryFor(v).payload = v.payload
      /\ EntryFor(v).id = Vectors!UlidString(v.point)
  BY DEF EntryFor
<1>2. /\ EntryFor(w).op = w.op /\ EntryFor(w).payload = w.payload
      /\ EntryFor(w).id = Vectors!UlidString(w.point)
  BY DEF EntryFor
<1>3. v.point \in Uuids /\ w.point \in Uuids
  BY WriteIs
<1>4. v.point = w.point
  BY <1>1, <1>2, <1>3, UuidsDiffer
<1>5. v = [op |-> v.op, point |-> v.point, payload |-> v.payload]
  BY WriteIs
<1>6. w = [op |-> w.op, point |-> w.point, payload |-> w.payload]
  BY WriteIs
<1> QED
  BY <1>1, <1>2, <1>4, <1>5, <1>6

(* The points of a batch, and what the batch writes.                       *)
PointsIn(b) == {Vectors!Uuid(b[i].id) : i \in DOMAIN b}
LastIn(b) == {i \in DOMAIN b : \A j \in DOMAIN b :
                Vectors!Uuid(b[j].id) = Vectors!Uuid(b[i].id) => j <= i}
WriteOf(op, b, i) ==
  [op |-> op, point |-> Vectors!Uuid(b[i].id), payload |-> b[i].payload]
EntriesFor(W) == {EntryFor(w) : w \in W}

LEMMA BatchWrites ==
  ASSUME NEW b \in BatchType, NEW op \in {"upsert", "delete"},
         op = "upsert" => PointsIn(b) \subseteq Stored
  PROVE  /\ Vectors!Writes(op, b) \in SUBSET WriteType
         /\ EntriesFor(Vectors!Writes(op, b)) = Vectors!Index!Entries(op, b)
<1>1. Vectors!Writes(op, b) = {WriteOf(op, b, i) : i \in LastIn(b)}
  BY DEF Vectors!Writes, WriteOf, LastIn
<1>2. \A i \in DOMAIN b : b[i].id \in UlidType /\ b[i].payload \in Payloads
  BY EntryOf
<1>3. ASSUME NEW i \in DOMAIN b
      PROVE  WriteOf(op, b, i) \in WriteType
  <2>1. Vectors!Uuid(b[i].id) \in Uuids
    BY <1>2 DEF Uuids
  <2>2. op = "upsert" => Vectors!Uuid(b[i].id) \in Stored
    BY DEF PointsIn
  <2>3. PICK u \in Uuids, y \in Payloads : u = Vectors!Uuid(b[i].id) /\ y = b[i].payload
    BY <1>2, <2>1
  <2> QED
    BY <2>2, <2>3 DEF WriteOf, WriteType
<1>4. ASSUME NEW i \in DOMAIN b
      PROVE  EntryFor(WriteOf(op, b, i))
               = [op |-> op, id |-> Vectors!CanonicalId(b[i].id), payload |-> b[i].payload]
  <2>1. Vectors!CanonicalId(b[i].id) = Vectors!UlidString(Vectors!Uuid(b[i].id))
    BY <1>2, Spelling
  <2> QED
    BY <2>1 DEF EntryFor, WriteOf
<1>5. LastIn(b) = {i \in DOMAIN b : \A j \in DOMAIN b :
                     Vectors!CanonicalId(b[j].id) = Vectors!CanonicalId(b[i].id) => j <= i}
  <2>1. \A i, j \in DOMAIN b : Vectors!CanonicalId(b[j].id) = Vectors!CanonicalId(b[i].id)
                                <=> Vectors!Uuid(b[j].id) = Vectors!Uuid(b[i].id)
    BY <1>2, Spelling
  <2> QED
    BY <2>1 DEF LastIn
<1>6. Vectors!Index!Entries(op, b)
        = {[op |-> op, id |-> Vectors!CanonicalId(b[i].id), payload |-> b[i].payload] :
             i \in LastIn(b)}
  BY <1>5 DEF Vectors!Index!Entries
<1>7. LastIn(b) \subseteq DOMAIN b
  BY DEF LastIn
<1> HIDE DEF LastIn
<1>8. EntriesFor(Vectors!Writes(op, b)) = Vectors!Index!Entries(op, b)
  BY <1>1, <1>4, <1>6, <1>7 DEF EntriesFor
<1> QED
  BY <1>1, <1>3, <1>7, <1>8

(* What a write makes of the points, and an entry of the index.            *)
WrittenTo(P, w) ==
  IF w.op = "delete" THEN [p \in DOMAIN P \ {w.point} |-> P[p]]
  ELSE [p \in DOMAIN P \cup {w.point} |-> IF p = w.point THEN w.payload ELSE P[p]]
EnteredIn(G, L, e) ==
  IF e.op = "upsert"
  THEN [id \in DOMAIN G \cup {e.id} |-> IF id = e.id THEN e.payload ELSE G[id]]
  ELSE [id \in DOMAIN G \ ({e.id} \ L) |-> G[id]]

(* One entry is written: that of the point, whichever payload it had.      *)
LEMMA UpsertWrites ==
  ASSUME NEW S \in SUBSET Stored, NEW P \in [S -> Payloads],
         NEW w \in WriteType, w.op = "upsert"
  PROVE  /\ WrittenTo(P, w) \in [S \cup {w.point} -> Payloads]
         /\ S \cup {w.point} \in SUBSET Stored
         /\ IndexOf(WrittenTo(P, w)) = EnteredIn(IndexOf(P), LegacyOf(P), EntryFor(w))
<1> DEFINE at == w.point
           id0 == Vectors!UlidString(w.point)
           W == [id \in DOMAIN IndexOf(P) \cup {id0} |->
                   IF id = id0 THEN w.payload ELSE IndexOf(P)[id]]
<1>1. w.point \in Stored /\ w.payload \in Payloads
  BY WriteIs
<1>2. PICK T \in SUBSET Stored : T = S \cup {w.point}
  BY <1>1
<1>3. WrittenTo(P, w) = [p \in T |-> IF p = w.point THEN w.payload ELSE P[p]]
  BY <1>2 DEF WrittenTo
<1>4. PICK Q \in [T -> Payloads] : Q = WrittenTo(P, w)
  BY <1>1, <1>2, <1>3
<1>5. /\ DOMAIN IndexOf(P) = {Vectors!UlidString(q) : q \in S}
      /\ \A q \in S : IndexOf(P)[Vectors!UlidString(q)] = P[q]
  BY IndexEntries
<1>6. /\ EntryFor(w).op = "upsert" /\ EntryFor(w).id = id0
      /\ EntryFor(w).payload = w.payload
  BY DEF EntryFor
<1>7. EnteredIn(IndexOf(P), LegacyOf(P), EntryFor(w)) = W
  BY <1>6 DEF EnteredIn
<1>8. DOMAIN W = {Vectors!UlidString(q) : q \in T}
  BY <1>2, <1>5
<1>9. W = [id \in DOMAIN W |-> W[id]]
  OBVIOUS
<1>10. ASSUME NEW q \in T
       PROVE  W[Vectors!UlidString(q)] = Q[q]
  <2>1. Vectors!UlidString(q) = id0 <=> q = w.point
    BY <1>1, OneUlid
  <2>2. Vectors!UlidString(q) \in DOMAIN IndexOf(P) \cup {id0}
    BY <1>2, <1>5
  <2>3. Q[q] = IF q = w.point THEN w.payload ELSE P[q]
    BY <1>3, <1>4
  <2> HIDE DEF id0
  <2>4. CASE q = w.point
    BY <2>1, <2>2, <2>3, <2>4
  <2>5. CASE q # w.point
    BY <1>2, <1>5, <2>1, <2>2, <2>3, <2>5
  <2> QED
    BY <2>4, <2>5
<1> HIDE DEF W
<1>11. IndexOf(Q) = W
  BY <1>8, <1>9, <1>10, IndexIs
<1> QED
  BY <1>2, <1>4, <1>7, <1>11

(* One entry goes, unless the ULID is that of a numbered point: its point  *)
(* has no UUID and stays.                                                  *)
LEMMA DeleteRemoves ==
  ASSUME NEW S \in SUBSET Stored, NEW P \in [S -> Payloads],
         NEW w \in WriteType, w.op = "delete"
  PROVE  /\ WrittenTo(P, w) \in [S \ {w.point} -> Payloads]
         /\ IndexOf(WrittenTo(P, w)) = EnteredIn(IndexOf(P), LegacyOf(P), EntryFor(w))
<1> DEFINE id0 == Vectors!UlidString(w.point)
           gone == {id0} \ LegacyOf(P)
           W == [id \in DOMAIN IndexOf(P) \ gone |-> IndexOf(P)[id]]
<1>1. w.point \in Uuids /\ w.point.kind = "uuid"
  <2>1. w.point \in Uuids
    BY WriteIs
  <2>2. w.point = [kind |-> "uuid", time |-> w.point.time, entropy |-> w.point.entropy]
    BY <2>1, UuidIs
  <2> QED
    BY <2>1, <2>2
<1>2. PICK T \in SUBSET Stored : T = S \ {w.point}
  OBVIOUS
<1>3. WrittenTo(P, w) = [p \in T |-> P[p]]
  BY <1>2 DEF WrittenTo
<1>4. PICK Q \in [T -> Payloads] : Q = WrittenTo(P, w)
  BY <1>2, <1>3
<1>5. /\ DOMAIN IndexOf(P) = {Vectors!UlidString(q) : q \in S}
      /\ \A q \in S : IndexOf(P)[Vectors!UlidString(q)] = P[q]
      /\ LegacyOf(P) = {Vectors!UlidString(q) : q \in {r \in S : r.kind = "num"}}
  BY IndexEntries
<1>6. EntryFor(w).op = "delete" /\ EntryFor(w).id = id0
  BY DEF EntryFor
<1>7. EnteredIn(IndexOf(P), LegacyOf(P), EntryFor(w)) = W
  BY <1>6 DEF EnteredIn
<1>8. ASSUME NEW q \in S
      PROVE  Vectors!UlidString(q) \in gone <=> q = w.point
  <2>1. ASSUME q = w.point
        PROVE  Vectors!UlidString(q) \in gone
    <3>1. Vectors!UlidString(q) \notin LegacyOf(P)
      <4>1. SUFFICES ASSUME NEW r \in S, r.kind = "num",
                            Vectors!UlidString(r) = Vectors!UlidString(q)
                     PROVE  FALSE
        BY <1>5
      <4>2. r = q
        BY <4>1, OneUlid
      <4> QED
        BY <1>1, <2>1, <4>1, <4>2
    <3> QED
      BY <2>1, <3>1
  <2>2. ASSUME Vectors!UlidString(q) \in gone
        PROVE  q = w.point
    <3>1. Vectors!UlidString(q) = Vectors!UlidString(w.point)
          /\ Vectors!UlidString(q) \notin LegacyOf(P)
      BY <2>2
    <3>2. q.kind # "num"
      BY <1>5, <3>1
    <3>3. PICK t \in Nat, e \in Nat : q = [kind |-> "uuid", time |-> t, entropy |-> e]
      BY <3>2, PointsOf
    <3>4. q = [kind |-> "uuid", time |-> q.time, entropy |-> q.entropy]
      BY <3>3
    <3>5. w.point = [kind |-> "uuid", time |-> w.point.time, entropy |-> w.point.entropy]
      BY <1>1, UuidIs
    <3>6. q.time = w.point.time /\ q.entropy = w.point.entropy
      <4>1. /\ Vectors!UlidString(q).time = q.time
            /\ Vectors!UlidString(q).entropy = q.entropy
        BY DEF Vectors!UlidString
      <4>2. /\ Vectors!UlidString(w.point).time = w.point.time
            /\ Vectors!UlidString(w.point).entropy = w.point.entropy
        BY DEF Vectors!UlidString
      <4> QED
        BY <3>1, <4>1, <4>2
    <3> QED
      BY <3>4, <3>5, <3>6
  <2> QED
    BY <2>1, <2>2
<1> HIDE DEF gone
<1>9. DOMAIN W = {Vectors!UlidString(q) : q \in T}
  <2>1. \A id : id \in DOMAIN W <=> id \in DOMAIN IndexOf(P) /\ id \notin gone
    OBVIOUS
  <2> QED
    BY <1>2, <1>5, <1>8, <2>1
<1>10. ASSUME NEW q \in T
       PROVE  W[Vectors!UlidString(q)] = Q[q]
  <2>1. Vectors!UlidString(q) \in DOMAIN IndexOf(P) \ gone
    BY <1>2, <1>5, <1>8
  <2> QED
    BY <1>2, <1>3, <1>4, <1>5, <2>1
<1>11. W = [id \in DOMAIN W |-> W[id]]
  OBVIOUS
<1> HIDE DEF W
<1>12. IndexOf(Q) = W
  BY <1>9, <1>10, <1>11, IndexIs
<1> QED
  BY <1>2, <1>4, <1>7, <1>12 DEF gone

LEMMA WriteApplies ==
  ASSUME NEW S \in SUBSET Stored, IsFiniteSet(S), NEW P \in [S -> Payloads],
         NEW w \in WriteType
  PROVE  /\ \E T \in SUBSET Stored : IsFiniteSet(T) /\ WrittenTo(P, w) \in [T -> Payloads]
         /\ IndexOf(WrittenTo(P, w)) = EnteredIn(IndexOf(P), LegacyOf(P), EntryFor(w))
         /\ LegacyOf(WrittenTo(P, w)) = LegacyOf(P)
<1>1. w.op \in {"upsert", "delete"} /\ w.point.kind = "uuid"
  <2>1. w.point \in Uuids /\ w.op \in {"upsert", "delete"}
    BY WriteIs
  <2>2. w.point = [kind |-> "uuid", time |-> w.point.time, entropy |-> w.point.entropy]
    BY <2>1, UuidIs
  <2> QED
    BY <2>1, <2>2
<1>2. PICK T \in SUBSET Stored :
        /\ T \in {S \cup {w.point}, S \ {w.point}} /\ WrittenTo(P, w) \in [T -> Payloads]
        /\ IndexOf(WrittenTo(P, w)) = EnteredIn(IndexOf(P), LegacyOf(P), EntryFor(w))
  <2>1. CASE w.op = "upsert"
    BY <2>1, UpsertWrites
  <2>2. CASE w.op = "delete"
    BY <2>2, DeleteRemoves
  <2> QED
    BY <1>1, <2>1, <2>2
<1>3. IsFiniteSet(T)
  <2>1. IsFiniteSet(S \cup {w.point})
    BY FS_AddElement
  <2>2. IsFiniteSet(S \ {w.point})
    BY FS_Subset
  <2> QED
    BY <1>2, <2>1, <2>2
<1>4. {r \in T : r.kind = "num"} = {r \in S : r.kind = "num"}
  BY <1>1, <1>2
<1>5. PICK Q \in [T -> Payloads] : Q = WrittenTo(P, w)
  BY <1>2
<1>6. LegacyOf(Q) = {Vectors!UlidString(q) : q \in {r \in T : r.kind = "num"}}
  BY IndexEntries
<1>7. LegacyOf(P) = {Vectors!UlidString(q) : q \in {r \in S : r.kind = "num"}}
  BY IndexEntries
<1> QED
  BY <1>2, <1>3, <1>4, <1>5, <1>6, <1>7

(* The accepted batches, as the contract sees them.                        *)
Batches == SUBSET WriteType
QueueType == Seq(Batches)
PendingOf(q) == [i \in DOMAIN q |-> EntriesFor(q[i])]

EntrySets == SUBSET {EntryFor(w) : w \in WriteType}

LEMMA PendingIs ==
  ASSUME NEW q \in QueueType, NEW n \in Nat, n = Len(q)
  PROVE  /\ PendingOf(q) \in Seq(EntrySets) /\ Len(PendingOf(q)) = n
         /\ PendingOf(q) = [i \in 1 .. n |-> EntriesFor(q[i])]
         /\ \A i \in 1 .. n : q[i] \in Batches /\ PendingOf(q)[i] = EntriesFor(q[i])
<1>1. DOMAIN q = 1 .. n /\ \A i \in 1 .. n : q[i] \in Batches
  BY DEF QueueType
<1>2. PendingOf(q) = [i \in 1 .. n |-> EntriesFor(q[i])]
  BY <1>1 DEF PendingOf
<1>3. \A i \in 1 .. n : EntriesFor(q[i]) \in EntrySets
  BY <1>1 DEF EntriesFor, EntrySets, Batches
<1>4. PendingOf(q) \in Seq(EntrySets) /\ Len(PendingOf(q)) = n
  BY <1>2, <1>3
<1> QED
  BY <1>1, <1>2, <1>4

LEMMA PendingOn ==
  ASSUME NEW q \in QueueType, NEW W \in Batches
  PROVE  /\ Append(q, W) \in QueueType
         /\ PendingOf(Append(q, W)) = Append(PendingOf(q), EntriesFor(W))
<1>1. PICK n \in Nat : n = Len(q)
  BY DEF QueueType
<1>2. q \in Seq(Batches)
  BY DEF QueueType
<1>3. PICK r \in Seq(Batches) :
        r = Append(q, W) /\ Len(r) = n + 1 /\ r[n + 1] = W /\ \A i \in 1 .. n : r[i] = q[i]
  <2>1. /\ Append(q, W) \in Seq(Batches) /\ Len(Append(q, W)) = Len(q) + 1
        /\ \A i \in 1 .. Len(q) : Append(q, W)[i] = q[i]
        /\ Append(q, W)[Len(q) + 1] = W
    BY <1>2, AppendProperties
  <2> QED
    BY <1>1, <2>1
<1>4. PICK z \in Seq(EntrySets) :
        z = PendingOf(q) /\ Len(z) = n /\ \A i \in 1 .. n : z[i] = EntriesFor(q[i])
  BY <1>1, PendingIs
<1>5. PICK y \in EntrySets : y = EntriesFor(W)
  BY DEF EntriesFor, EntrySets, Batches
<1>6. PICK a \in Seq(EntrySets) :
        a = Append(z, y) /\ Len(a) = n + 1 /\ a[n + 1] = y /\ \A i \in 1 .. n : a[i] = z[i]
  <2>1. /\ Append(z, y) \in Seq(EntrySets) /\ Len(Append(z, y)) = Len(z) + 1
        /\ \A i \in 1 .. Len(z) : Append(z, y)[i] = z[i]
        /\ Append(z, y)[Len(z) + 1] = y
    BY AppendProperties
  <2> QED
    BY <1>4, <2>1
<1>7. PICK m \in Nat : m = n + 1
  OBVIOUS
<1>8. r \in QueueType
  BY DEF QueueType
<1>9. PICK b \in Seq(EntrySets) :
        b = PendingOf(r) /\ Len(b) = m /\ \A i \in 1 .. m : b[i] = EntriesFor(r[i])
  BY <1>3, <1>7, <1>8, PendingIs
<1>10. \A i \in 1 .. m : b[i] = a[i]
  BY <1>3, <1>4, <1>5, <1>6, <1>7, <1>9
<1>11. b = a
  BY <1>6, <1>7, <1>9, <1>10, SeqEqual
<1> QED
  BY <1>3, <1>4, <1>5, <1>6, <1>8, <1>9, <1>11

LEMMA PendingOff ==
  ASSUME NEW q \in QueueType, q # <<>>
  PROVE  /\ Tail(q) \in QueueType /\ Head(q) \in Batches
         /\ PendingOf(q) # <<>> /\ Head(PendingOf(q)) = EntriesFor(Head(q))
         /\ PendingOf(Tail(q)) = Tail(PendingOf(q))
         /\ \A w \in Head(q) :
              /\ [q EXCEPT ![1] = @ \ {w}] \in QueueType
              /\ PendingOf([q EXCEPT ![1] = @ \ {w}])
                   = [PendingOf(q) EXCEPT ![1] = @ \ {EntryFor(w)}]
<1>1. q \in Seq(Batches)
  BY DEF QueueType
<1>2. PICK n \in Nat : n = Len(q) /\ n > 0
  BY <1>1
<1>3. PICK z \in Seq(EntrySets) :
        z = PendingOf(q) /\ Len(z) = n /\ \A i \in 1 .. n : z[i] = EntriesFor(q[i])
  BY <1>2, PendingIs
<1>4. 1 \in 1 .. n /\ z # <<>>
  BY <1>2, <1>3
<1>5. Head(q) = q[1] /\ Head(z) = z[1] /\ q[1] \in Batches
  BY <1>1, <1>2, <1>3, <1>4
<1>6. Head(q) \in Batches /\ Head(z) = EntriesFor(Head(q))
  BY <1>3, <1>4, <1>5
<1>7. Tail(q) \in QueueType /\ PendingOf(Tail(q)) = Tail(z)
  <2>1. PICK m \in Nat : m = n - 1
    BY <1>2
  <2>2. PICK t \in Seq(Batches) :
          t = Tail(q) /\ Len(t) = m /\ \A i \in 1 .. m : t[i] = q[i + 1]
    <3>1. /\ Tail(q) \in Seq(Batches) /\ Len(Tail(q)) = m
          /\ \A i \in 1 .. Len(Tail(q)) : Tail(q)[i] = q[i + 1]
      BY <1>1, <1>2, <2>1, HeadTailProperties
    <3> QED
      BY <3>1
  <2>3. PICK a \in Seq(EntrySets) :
          a = Tail(z) /\ Len(a) = m /\ \A i \in 1 .. m : a[i] = z[i + 1]
    <3>1. /\ Tail(z) \in Seq(EntrySets) /\ Len(Tail(z)) = m
          /\ \A i \in 1 .. Len(Tail(z)) : Tail(z)[i] = z[i + 1]
      BY <1>3, <1>4, <2>1, HeadTailProperties
    <3> QED
      BY <3>1
  <2>4. t \in QueueType
    BY DEF QueueType
  <2>5. PICK b \in Seq(EntrySets) :
          b = PendingOf(t) /\ Len(b) = m /\ \A i \in 1 .. m : b[i] = EntriesFor(t[i])
    BY <2>2, <2>4, PendingIs
  <2>6. \A i \in 1 .. m : b[i] = a[i]
    <3>1. \A i \in 1 .. m : i + 1 \in 1 .. n
      BY <2>1
    <3> QED
      BY <1>3, <2>2, <2>3, <2>5, <3>1
  <2>7. b = a
    BY <2>3, <2>5, <2>6, SeqEqual
  <2> QED
    BY <2>2, <2>3, <2>4, <2>5, <2>7
<1>8. ASSUME NEW w \in Head(q)
      PROVE  /\ [q EXCEPT ![1] = @ \ {w}] \in QueueType
             /\ PendingOf([q EXCEPT ![1] = @ \ {w}]) = [z EXCEPT ![1] = @ \ {EntryFor(w)}]
  <2>1. PICK W \in Batches : W = q[1] \ {w}
    BY <1>5 DEF Batches
  <2>2. [q EXCEPT ![1] = @ \ {w}] = [q EXCEPT ![1] = W]
    BY <2>1
  <2>3. PICK r \in Seq(Batches) :
          /\ r = [q EXCEPT ![1] = W] /\ Len(r) = n
          /\ \A i \in 1 .. n : r[i] = IF i = 1 THEN W ELSE q[i]
    <3>1. /\ [q EXCEPT ![1] = W] \in Seq(Batches) /\ Len([q EXCEPT ![1] = W]) = Len(q)
          /\ \A j \in 1 .. Len(q) : [q EXCEPT ![1] = W][j] = IF j = 1 THEN W ELSE q[j]
      <4>1. 1 \in 1 .. Len(q)
        BY <1>2, <1>4
      <4> QED
        BY <1>1, <4>1, ExceptSeq
    <3> QED
      BY <1>2, <3>1
  <2>4. r \in QueueType
    BY DEF QueueType
  <2>5. EntriesFor(W) = EntriesFor(q[1]) \ {EntryFor(w)}
    <3>1. \A v \in q[1] : EntryFor(v) = EntryFor(w) => v = w
      BY <1>5, OneEntry DEF Batches
    <3> QED
      BY <2>1, <3>1 DEF EntriesFor
  <2>6. PICK y \in EntrySets : y = EntriesFor(W)
    BY DEF EntriesFor, EntrySets, Batches
  <2>7. z[1] \ {EntryFor(w)} = y
    BY <1>3, <1>4, <2>5, <2>6
  <2>8. [z EXCEPT ![1] = @ \ {EntryFor(w)}] = [z EXCEPT ![1] = y]
    BY <2>7
  <2>9. PICK a \in Seq(EntrySets) :
          /\ a = [z EXCEPT ![1] = y] /\ Len(a) = n
          /\ \A i \in 1 .. n : a[i] = IF i = 1 THEN y ELSE z[i]
    <3>1. /\ [z EXCEPT ![1] = y] \in Seq(EntrySets) /\ Len([z EXCEPT ![1] = y]) = Len(z)
          /\ \A j \in 1 .. Len(z) : [z EXCEPT ![1] = y][j] = IF j = 1 THEN y ELSE z[j]
      <4>1. 1 \in 1 .. Len(z)
        BY <1>3, <1>4
      <4> QED
        BY <1>1, <4>1, ExceptSeq
    <3> QED
      BY <1>3, <3>1
  <2>10. PICK b \in Seq(EntrySets) :
           b = PendingOf(r) /\ Len(b) = n /\ \A i \in 1 .. n : b[i] = EntriesFor(r[i])
    BY <2>3, <2>4, PendingIs
  <2>11. \A i \in 1 .. n : b[i] = a[i]
    <3>1. ASSUME NEW i \in 1 .. n
          PROVE  b[i] = a[i]
      <4>1. b[i] = EntriesFor(r[i])
        BY <2>10
      <4>2. CASE i = 1
        BY <2>3, <2>6, <2>9, <4>1, <4>2
      <4>3. CASE i # 1
        BY <1>3, <2>3, <2>9, <4>1, <4>3
      <4> QED
        BY <4>2, <4>3
    <3> QED
      BY <3>1
  <2>12. b = a
    BY <2>9, <2>10, <2>11, SeqEqual
  <2> QED
    BY <2>2, <2>3, <2>4, <2>8, <2>9, <2>10, <2>12
<1> QED
  BY <1>3, <1>4, <1>6, <1>7, <1>8

(* One-to-one images have the same size; one Cardinality is the others.    *)
LEMMA SameSize ==
  ASSUME NEW A, IsFiniteSet(A), NEW f, DOMAIN f = A, f = [x \in A |-> f[x]],
         \A x, y \in A : f[x] = f[y] => x = y
  PROVE  Cardinality({f[x] : x \in A}) = Cardinality(A)
<1> DEFINE T == {f[x] : x \in A}
<1>1. f \in Bijection(A, T)
  BY DEF Bijection, Injection, Surjection, IsInjective
<1>2. ExistsBijection(A, T)
  BY <1>1 DEF ExistsBijection
<1> HIDE DEF T
<1>3. Cardinality(T) = Cardinality(A)
  BY <1>2, FS_Bijection
<1> QED
  BY <1>3 DEF T

LEMMA OneCardinality ==
  ASSUME NEW A
  PROVE  /\ Vectors!Cardinality(A) = Cardinality(A)
         /\ Vectors!Index!Cardinality(A) = Cardinality(A)
<1>1. Vectors!Cardinality(A) = Cardinality(A)
  BY DEF Vectors!Cardinality, Cardinality
<1>2. Vectors!Index!Cardinality(A) = Cardinality(A)
  BY DEF Vectors!Index!Cardinality, Cardinality
<1> QED
  BY <1>1, <1>2

(* buildQdrantFilter: Qdrant selects what the caller's filter means.       *)
HoldsBuilt(c, payload) ==
  /\ c.field \in DOMAIN payload
  /\ IF c.match # None THEN payload[c.field] = c.match
     ELSE Vectors!Inside(payload[c.field], c.range)
HoldsWritten(c, payload) ==
  /\ c.field \in DOMAIN payload
  /\ c.match # None => payload[c.field] = c.match.value
  /\ c.range # None => Vectors!Inside(payload[c.field], c.range)

LEMMA ConditionMeans ==
  ASSUME NEW c, NEW payload, Vectors!WellFormed(c)
  PROVE  /\ Vectors!BuildCondition(c) # None
         /\ HoldsBuilt(Vectors!BuildCondition(c), payload) <=> HoldsWritten(c, payload)
<1>1. c.field # "" /\ Vectors!BuildCondition(c) # None
  BY DEF Vectors!WellFormed
<1>2. CASE c.match = None
  <2>1. c.range # None /\ ~Vectors!KnownMatch(c)
    BY <1>2 DEF Vectors!WellFormed, Vectors!KnownMatch
  <2>2. Vectors!BuildCondition(c) = [field |-> c.field, match |-> None, range |-> c.range]
    BY <1>1, <2>1 DEF Vectors!BuildCondition
  <2>3. PICK d : d = Vectors!BuildCondition(c)
    OBVIOUS
  <2>4. d.field = c.field /\ d.match = None /\ d.range = c.range
    BY <2>2, <2>3
  <2>5. HoldsBuilt(d, payload) <=> HoldsWritten(c, payload)
    BY <1>2, <2>1, <2>4 DEF HoldsBuilt, HoldsWritten
  <2> QED
    BY <1>1, <2>3, <2>5
<1>3. CASE c.match # None
  <2>1. Vectors!KnownMatch(c) /\ c.match.value # None /\ c.range = None
    BY <1>3 DEF Vectors!WellFormed
  <2>2. Vectors!BuildCondition(c) = [field |-> c.field, match |-> c.match.value, range |-> None]
    BY <1>1, <2>1 DEF Vectors!BuildCondition
  <2>3. PICK d : d = Vectors!BuildCondition(c)
    OBVIOUS
  <2>4. d.field = c.field /\ d.match = c.match.value /\ d.range = None
    BY <2>2, <2>3
  <2>5. HoldsBuilt(d, payload) <=> HoldsWritten(c, payload)
    BY <1>3, <2>1, <2>4 DEF HoldsBuilt, HoldsWritten
  <2> QED
    BY <1>1, <2>3, <2>5
<1> QED
  BY <1>2, <1>3

LEMMA FilterMeans ==
  ASSUME NEW filter, NEW payload,
         \A c \in filter.must \cup filter.should \cup filter.mustNot : Vectors!WellFormed(c)
  PROVE  Vectors!Selects(Vectors!BuildFilter(filter), payload)
           <=> Vectors!MeetsAsWritten(filter, payload)
<1> DEFINE Built(s) == {Vectors!BuildCondition(c) : c \in s} \ {None}
<1>1. ASSUME NEW s, \A c \in s : Vectors!WellFormed(c)
      PROVE  /\ (\A d \in Built(s) : HoldsBuilt(d, payload))
                  <=> \A c \in s : HoldsWritten(c, payload)
             /\ (\A d \in Built(s) : ~HoldsBuilt(d, payload))
                  <=> \A c \in s : ~HoldsWritten(c, payload)
             /\ (\E d \in Built(s) : HoldsBuilt(d, payload))
                  <=> \E c \in s : HoldsWritten(c, payload)
             /\ Built(s) = {} <=> s = {}
  <2>1. \A c \in s : /\ Vectors!BuildCondition(c) \in Built(s)
                     /\ HoldsBuilt(Vectors!BuildCondition(c), payload) <=> HoldsWritten(c, payload)
    BY <1>1, ConditionMeans
  <2>2. \A d \in Built(s) : \E c \in s : d = Vectors!BuildCondition(c)
    OBVIOUS
  <2> HIDE DEF Built
  <2> QED
    BY <2>1, <2>2
<1>2. Vectors!BuildFilter(filter) =
        [must |-> Built(filter.must), should |-> Built(filter.should),
         mustNot |-> Built(filter.mustNot)]
  BY DEF Vectors!BuildFilter
<1> HIDE DEF Built
<1>3. Vectors!Selects(Vectors!BuildFilter(filter), payload)
        <=> /\ \A d \in Built(filter.must) : HoldsBuilt(d, payload)
            /\ Built(filter.should) = {} \/ \E d \in Built(filter.should) : HoldsBuilt(d, payload)
            /\ \A d \in Built(filter.mustNot) : ~HoldsBuilt(d, payload)
  BY <1>2 DEF Vectors!Selects, HoldsBuilt
<1>4. Vectors!MeetsAsWritten(filter, payload)
        <=> /\ \A c \in filter.must : HoldsWritten(c, payload)
            /\ filter.should = {} \/ \E c \in filter.should : HoldsWritten(c, payload)
            /\ \A c \in filter.mustNot : ~HoldsWritten(c, payload)
  BY DEF Vectors!MeetsAsWritten, HoldsWritten
<1>5. (\A d \in Built(filter.must) : HoldsBuilt(d, payload))
        <=> \A c \in filter.must : HoldsWritten(c, payload)
  BY <1>1
<1>6. (Built(filter.should) = {} \/ \E d \in Built(filter.should) : HoldsBuilt(d, payload))
        <=> (filter.should = {} \/ \E c \in filter.should : HoldsWritten(c, payload))
  BY <1>1
<1>7. (\A d \in Built(filter.mustNot) : ~HoldsBuilt(d, payload))
        <=> \A c \in filter.mustNot : ~HoldsWritten(c, payload)
  BY <1>1
<1> QED
  BY <1>3, <1>4, <1>5, <1>6, <1>7

(* A search: what Qdrant finds are entries of the index that meet the      *)
(* filter, and as many as the limit allows.                                *)
Hits(P, filter) == {p \in DOMAIN P : Vectors!Selects(Vectors!BuildFilter(filter), P[p])}
Meeting(G, filter) == {id \in DOMAIN G : Vectors!MeetsAsWritten(filter, G[id])}
FoundOf(P, found) == {[id |-> Vectors!UlidString(p), payload |-> P[p]] : p \in found}
AtMost(n, limit) == IF n < limit THEN n ELSE limit

LEMMA SearchFinds ==
  ASSUME NEW S \in SUBSET Stored, IsFiniteSet(S), NEW P \in [S -> Payloads],
         NEW filter, NEW found \in SUBSET Hits(P, filter),
         \A c \in filter.must \cup filter.should \cup filter.mustNot : Vectors!WellFormed(c)
  PROVE  /\ FoundOf(P, found) \subseteq
              {[id |-> id, payload |-> IndexOf(P)[id]] : id \in Meeting(IndexOf(P), filter)}
         /\ Cardinality(FoundOf(P, found)) = Cardinality(found) /\ Cardinality(found) \in Nat
         /\ Cardinality(Meeting(IndexOf(P), filter)) = Cardinality(Hits(P, filter))
         /\ Cardinality(Hits(P, filter)) \in Nat
<1>1. DOMAIN P = S
  OBVIOUS
<1>2. Hits(P, filter) \subseteq S /\ found \subseteq S
  BY <1>1 DEF Hits
<1>3. /\ DOMAIN IndexOf(P) = {Vectors!UlidString(q) : q \in S}
      /\ \A q \in S : IndexOf(P)[Vectors!UlidString(q)] = P[q]
  BY IndexEntries
<1>4. \A payload : Vectors!Selects(Vectors!BuildFilter(filter), payload)
                     <=> Vectors!MeetsAsWritten(filter, payload)
  BY FilterMeans
<1>5. IsFiniteSet(found) /\ IsFiniteSet(Hits(P, filter))
  BY <1>2, FS_Subset
<1>6. \A p, q \in S : Vectors!UlidString(p) = Vectors!UlidString(q) => p = q
  BY PointsOf
<1>7. Meeting(IndexOf(P), filter) = {Vectors!UlidString(p) : p \in Hits(P, filter)}
  BY <1>1, <1>3, <1>4 DEF Meeting, Hits
<1>8. FoundOf(P, found) \subseteq
        {[id |-> id, payload |-> IndexOf(P)[id]] : id \in Meeting(IndexOf(P), filter)}
  BY <1>2, <1>3, <1>7 DEF FoundOf
<1>9. Cardinality(Meeting(IndexOf(P), filter)) = Cardinality(Hits(P, filter))
  <2> DEFINE A == Hits(P, filter)
             f == [p \in A |-> Vectors!UlidString(p)]
  <2>1. \A x, y \in A : f[x] = f[y] => x = y
    BY <1>2, <1>6
  <2>2. DOMAIN f = A /\ f = [p \in A |-> f[p]]
    OBVIOUS
  <2>3. {f[p] : p \in A} = {Vectors!UlidString(p) : p \in A}
    OBVIOUS
  <2> HIDE DEF f, A
  <2>4. Cardinality({f[p] : p \in A}) = Cardinality(A)
    BY <1>5, <2>1, <2>2, SameSize DEF A
  <2> QED
    BY <1>7, <2>3, <2>4 DEF A
<1>10. Cardinality(FoundOf(P, found)) = Cardinality(found)
  <2> DEFINE f == [p \in found |-> [id |-> Vectors!UlidString(p), payload |-> P[p]]]
  <2>1. ASSUME NEW x \in found, NEW y \in found, f[x] = f[y]
        PROVE  x = y
    <3>1. f[x].id = Vectors!UlidString(x)
      OBVIOUS
    <3>2. f[y].id = Vectors!UlidString(y)
      OBVIOUS
    <3> QED
      BY <1>2, <1>6, <2>1, <3>1, <3>2
  <2>2. DOMAIN f = found /\ f = [p \in found |-> f[p]]
    OBVIOUS
  <2>3. {f[p] : p \in found} = FoundOf(P, found)
    BY DEF FoundOf
  <2> HIDE DEF f
  <2>4. Cardinality({f[p] : p \in found}) = Cardinality(found)
    BY <1>5, <2>1, <2>2, SameSize
  <2> QED
    BY <2>3, <2>4
<1>11. Cardinality(found) \in Nat /\ Cardinality(Hits(P, filter)) \in Nat
  BY <1>5, FS_CardinalityType
<1> QED
  BY <1>8, <1>9, <1>10, <1>11

(* Collections in use, and the calls of the callers.                       *)
Answer == SUBSET [id : UlidType, payload : Payloads]
CallType ==
  [req : VectorRequests, at : {"idle", "embed", "send", "done"},
   result : {"idle", "running", "ok", "error"}, found : Answer]
IsCollection(p) == \E S \in SUBSET Stored : IsFiniteSet(S) /\ p \in [S -> Payloads]

(* A call is answered once the service or the embedding has answered.      *)
InStep == \A c \in Callers : /\ vCall[c].at = "idle" <=> vCall[c].result = "idle"
                             /\ vCall[c].at \in {"embed", "send"} <=> vCall[c].result = "running"

VectorInv ==
  /\ vPoints = NoCollection \/ IsCollection(vPoints)
  /\ vQueue \in QueueType
  /\ vCall \in [Callers -> CallType] /\ vCalls \in 0 .. MaxCalls
  /\ InStep

LEMMA RequestsAre ==
  ASSUME NEW r \in VectorRequests
  PROVE  /\ r.batch \in BatchType /\ r.threshold \in BOOLEAN /\ r.limit \in Int
         /\ r.op = "upsert" => PointsIn(r.batch) \subseteq Stored
         /\ \A c \in r.filter.must \cup r.filter.should \cup r.filter.mustNot :
              Vectors!WellFormed(c)
         /\ Vectors!Limit(r) \in Nat
<1>1. /\ r.batch \in BatchType /\ r.threshold \in BOOLEAN /\ r.limit \in Int
      /\ \A c \in r.filter.must \cup r.filter.should \cup r.filter.mustNot :
           Vectors!WellFormed(c)
      /\ DefaultLimit \in Nat
  BY PartsAssumption DEF Vectors!VectorAssumption, BatchType, UlidType, Payloads
<1>2. r.op = "upsert" => PointsIn(r.batch) \subseteq Stored
  BY DEF PointsIn, Stored, Vectors!StoredPoints
<1> QED
  BY <1>1, <1>2 DEF Vectors!Limit

(* The request as the contract sees it, its limit that of the search.      *)
Meant(r) == [r EXCEPT !.limit = Vectors!Limit(r)]

LEMMA MeantIs ==
  ASSUME NEW r \in VectorRequests
  PROVE  /\ Meant(r).op = r.op /\ Meant(r).batch = r.batch /\ Meant(r).filter = r.filter
         /\ Meant(r).threshold = r.threshold /\ Meant(r).limit = Vectors!Limit(r)
<1>1. r = [op |-> r.op, collection |-> r.collection, batch |-> r.batch,
           filter |-> r.filter, limit |-> r.limit, threshold |-> r.threshold]
  BY PartsAssumption DEF Vectors!VectorAssumption
<1>2. DOMAIN r = {"op", "collection", "batch", "filter", "limit", "threshold"}
  BY <1>1
<1> QED
  BY <1>2 DEF Meant

Done == [c \in Callers |-> [req |-> Meant(vCall[c].req), result |-> vCall[c].result,
                            found |-> vCall[c].found]]

LEMMA DoneOf ==
  /\ Done = [c \in Callers |-> Done[c]]
  /\ \A c \in Callers : Done[c] = [req |-> Meant(vCall[c].req), result |-> vCall[c].result,
                                   found |-> vCall[c].found]
BY DEF Done

(* A call that only moves on, ends, or starts.                             *)
LEMMA DoneNext ==
  ASSUME NEW c \in Callers, NEW y, vCall \in [Callers -> CallType],
         vCall' = [vCall EXCEPT ![c] = y]
  PROVE  Done' = [Done EXCEPT ![c] = [req |-> Meant(y.req), result |-> y.result,
                                      found |-> y.found]]
<1>1. vCall'[c] = y
  OBVIOUS
<1>2. \A d \in Callers : d # c => vCall'[d] = vCall[d]
  OBVIOUS
<1>3. Done'[c] = [req |-> Meant(y.req), result |-> y.result, found |-> y.found]
  BY <1>1 DEF Done
<1>4. \A d \in Callers : d # c => Done'[d] = Done[d]
  BY <1>2 DEF Done
<1>5. Done' = [d \in Callers |-> Done'[d]] /\ Done = [d \in Callers |-> Done[d]]
  BY DEF Done
<1> QED
  BY <1>3, <1>4, <1>5

(* EXCEPT on the fields of a call, as a record.                            *)
Ended(x, at, result, found) == [x EXCEPT !.at = at, !.result = result, !.found = found]
Answered(x, result, found) == [x EXCEPT !.result = result, !.found = found]

LEMMA CallEnds ==
  ASSUME NEW x \in CallType, NEW at, NEW result, NEW found
  PROVE  Ended(x, at, result, found)
           = [req |-> x.req, at |-> at, result |-> result, found |-> found]
<1> DEFINE y == [x EXCEPT !.at = at, !.result = result, !.found = found]
           z == [req |-> x.req, at |-> at, result |-> result, found |-> found]
<1>1. DOMAIN x = {"req", "at", "result", "found"}
  BY DEF CallType
<1>2. y = [f \in {"req", "at", "result", "found"} |-> y[f]]
  BY <1>1
<1>3. z = [f \in {"req", "at", "result", "found"} |-> z[f]]
  OBVIOUS
<1>4. /\ y["req"] = z["req"] /\ y["at"] = z["at"]
      /\ y["result"] = z["result"] /\ y["found"] = z["found"]
  BY <1>1
<1>5. \A f \in {"req", "at", "result", "found"} : y[f] = z[f]
  BY <1>4
<1> HIDE DEF y, z
<1>6. y = z
  BY <1>2, <1>3, <1>5
<1> QED
  BY <1>6 DEF y, z, Ended

LEMMA AnswerEnds ==
  ASSUME NEW x, DOMAIN x = {"req", "result", "found"}, NEW result, NEW found
  PROVE  Answered(x, result, found)
           = [req |-> x.req, result |-> result, found |-> found]
<1> DEFINE y == [x EXCEPT !.result = result, !.found = found]
           z == [req |-> x.req, result |-> result, found |-> found]
<1>1. y = [f \in {"req", "result", "found"} |-> y[f]]
  OBVIOUS
<1>2. z = [f \in {"req", "result", "found"} |-> z[f]]
  OBVIOUS
<1>3. y["req"] = z["req"] /\ y["result"] = z["result"] /\ y["found"] = z["found"]
  OBVIOUS
<1>4. \A f \in {"req", "result", "found"} : y[f] = z[f]
  BY <1>3
<1> HIDE DEF y, z
<1>5. y = z
  BY <1>1, <1>2, <1>4
<1> QED
  BY <1>5 DEF y, z, Answered

LEMMA CallMoves ==
  ASSUME NEW x \in CallType, NEW at
  PROVE  [x EXCEPT !.at = at]
           = [req |-> x.req, at |-> at, result |-> x.result, found |-> x.found]
<1> DEFINE y == [x EXCEPT !.at = at]
           z == [req |-> x.req, at |-> at, result |-> x.result, found |-> x.found]
<1>1. DOMAIN x = {"req", "at", "result", "found"}
  BY DEF CallType
<1>2. y = [f \in {"req", "at", "result", "found"} |-> y[f]]
  BY <1>1
<1>3. z = [f \in {"req", "at", "result", "found"} |-> z[f]]
  OBVIOUS
<1>4. /\ y["req"] = z["req"] /\ y["at"] = z["at"]
      /\ y["result"] = z["result"] /\ y["found"] = z["found"]
  BY <1>1
<1>5. \A f \in {"req", "at", "result", "found"} : y[f] = z[f]
  BY <1>4
<1> HIDE DEF y, z
<1>6. y = z
  BY <1>2, <1>3, <1>5
<1> QED
  BY <1>6 DEF y, z

CallEndsAs(c, at, result, found) ==
  vCall' = [vCall EXCEPT ![c].at = at, ![c].result = result, ![c].found = found]
DoneEndsAs(c, result, found) ==
  Done' = [Done EXCEPT ![c].result = result, ![c].found = found]

LEMMA VectorEnds ==
  ASSUME VectorInv, NEW c \in Callers, NEW result \in {"idle", "ok", "error"},
         NEW found \in Answer, NEW at,
         CallEndsAs(c, at, result, found),
         at = IF result = "idle" THEN "idle" ELSE "done"
  PROVE  /\ DoneEndsAs(c, result, found)
         /\ vCall' \in [Callers -> CallType]
         /\ InStep'
<1>1. vCall \in [Callers -> CallType]
  BY DEF VectorInv
<1>2. PICK x \in CallType : x = vCall[c]
  BY <1>1
<1>3. PICK y \in CallType : y = [req |-> x.req, at |-> at, result |-> result, found |-> found]
  BY DEF CallType
<1>4. y.req = x.req /\ y.at = at /\ y.result = result /\ y.found = found
  BY <1>3
<1>5. vCall' = [vCall EXCEPT ![c] = y]
  <2>1. vCall' = [vCall EXCEPT ![c] = Ended(vCall[c], at, result, found)]
    BY <1>1 DEF Ended, CallEndsAs
  <2>2. Ended(x, at, result, found) = y
    BY <1>3, CallEnds
  <2> QED
    BY <1>2, <2>1, <2>2
<1>6. /\ vCall' \in [Callers -> CallType] /\ vCall'[c] = y
      /\ \A d \in Callers : d # c => vCall'[d] = vCall[d]
  BY <1>1, <1>5
<1>7. Done' = [Done EXCEPT ![c] = [req |-> Meant(y.req), result |-> y.result,
                                   found |-> y.found]]
  BY <1>1, <1>5, DoneNext
<1>8. Done[c] = [req |-> Meant(x.req), result |-> x.result, found |-> x.found]
  BY <1>2 DEF Done
<1>9. Done' = [Done EXCEPT ![c].result = result, ![c].found = found]
  <2>1. PICK d : d = Done[c]
    OBVIOUS
  <2>2. DOMAIN d = {"req", "result", "found"} /\ d.req = Meant(x.req)
    BY <1>8, <2>1
  <2>3. Answered(d, result, found) = [req |-> d.req, result |-> result, found |-> found]
    BY <2>2, AnswerEnds
  <2>4. Done' = [Done EXCEPT ![c] = Answered(Done[c], result, found)]
    BY <1>4, <1>7, <2>1, <2>2, <2>3
  <2>5. Done = [e \in Callers |-> Done[e]]
    BY DEF Done
  <2> QED
    BY <2>4, <2>5 DEF Answered
<1>10. ASSUME NEW d \in Callers
       PROVE  /\ vCall'[d].at = "idle" <=> vCall'[d].result = "idle"
              /\ vCall'[d].at \in {"embed", "send"} <=> vCall'[d].result = "running"
  <2>1. CASE d = c
    BY <1>4, <1>6, <2>1
  <2>2. CASE d # c
    BY <1>6, <2>2 DEF VectorInv, InStep
  <2> QED
    BY <2>1, <2>2
<1> QED
  BY <1>6, <1>9, <1>10 DEF InStep, DoneEndsAs

(* The effect of a call on the index and on the accepted batches, and the  *)
(* steps of the contract over what it sees; l and m are the batches before *)
(* and after.                                                              *)
EffectOn(req, p, q, l, m) ==
  \/ /\ req.op \in {"upsert", "delete"} /\ IndexOf(p) # NoCollection
     /\ Vectors!Index!AllValid(req.batch)
     /\ m = Append(l, Vectors!Index!Entries(req.op, req.batch))
     /\ IndexOf(q) = IndexOf(p) /\ LegacyOf(q) = LegacyOf(p)
  \/ /\ req.op = "create collection" /\ IndexOf(p) = NoCollection
     /\ IndexOf(q) = [id \in {} |-> NoCollection] /\ LegacyOf(q) = {} /\ m = l
  \/ /\ req.op = "delete collection"
     /\ IndexOf(q) = NoCollection /\ LegacyOf(q) = {} /\ m = <<>>

LEMMA EffectIs ==
  ASSUME NEW c \in Callers, NEW req, req = Done[c].req,
         EffectOn(req, vPoints, vPoints', PendingOf(vQueue), PendingOf(vQueue'))
  PROVE  Vectors!Index!Effect(Done[c].req)
<1>1. CASE /\ req.op \in {"upsert", "delete"} /\ IndexOf(vPoints) # NoCollection
           /\ Vectors!Index!AllValid(req.batch)
           /\ PendingOf(vQueue')
                = Append(PendingOf(vQueue), Vectors!Index!Entries(req.op, req.batch))
           /\ IndexOf(vPoints') = IndexOf(vPoints) /\ LegacyOf(vPoints') = LegacyOf(vPoints)
  BY <1>1 DEF IndexOf, LegacyOf, PendingOf, EntriesFor, EntryFor, Vectors!Index!Effect
<1>2. CASE /\ req.op = "create collection" /\ IndexOf(vPoints) = NoCollection
           /\ IndexOf(vPoints') = [id \in {} |-> NoCollection] /\ LegacyOf(vPoints') = {}
           /\ PendingOf(vQueue') = PendingOf(vQueue)
  BY <1>2 DEF IndexOf, LegacyOf, PendingOf, EntriesFor, EntryFor, Vectors!Index!Effect
<1>3. CASE /\ req.op = "delete collection" /\ IndexOf(vPoints') = NoCollection
           /\ LegacyOf(vPoints') = {} /\ PendingOf(vQueue') = <<>>
  BY <1>3 DEF IndexOf, LegacyOf, PendingOf, EntriesFor, EntryFor, Vectors!Index!Effect
<1> QED
  BY <1>1, <1>2, <1>3 DEF EffectOn

(* What the contract sees of the collection does not change.               *)
SameCollection == vPoints' = vPoints /\ vQueue' = vQueue

LEMMA SameIndex ==
  ASSUME SameCollection
  PROVE  /\ IndexOf(vPoints)' = IndexOf(vPoints) /\ LegacyOf(vPoints)' = LegacyOf(vPoints)
         /\ PendingOf(vQueue)' = PendingOf(vQueue)
BY DEF SameCollection, IndexOf, LegacyOf, PendingOf

LEMMA StartIs ==
  ASSUME NEW c \in Callers, NEW r \in VectorRequests, Done[c].result = "idle",
         SameCollection,
         Done' = [Done EXCEPT ![c] = [req |-> Meant(r), result |-> "running", found |-> {}]]
  PROVE  Vectors!Index!Start(c)
<1>1. \E x \in {Meant(q) : q \in VectorRequests} :
        Done' = [Done EXCEPT ![c] = [req |-> x, result |-> "running", found |-> {}]]
  OBVIOUS
<1>2. /\ IndexOf(vPoints)' = IndexOf(vPoints) /\ LegacyOf(vPoints)' = LegacyOf(vPoints)
      /\ PendingOf(vQueue)' = PendingOf(vQueue)
  BY SameIndex
<1> QED
  BY <1>1, <1>2, Zenon
  DEF Done, Meant, IndexOf, LegacyOf, PendingOf, EntriesFor, EntryFor, Vectors!Index!Start

LEMMA ChangeIs ==
  ASSUME NEW c \in Callers, NEW result \in {"ok", "error"}, Done[c].result = "running",
         EffectOn(Done[c].req, vPoints, vPoints', PendingOf(vQueue), PendingOf(vQueue')),
         Done' = [Done EXCEPT ![c].result = result, ![c].found = {}]
  PROVE  Vectors!Index!Succeed(c) \/ Vectors!Index!Fail(c)
<1>1. Vectors!Index!Effect(Done[c].req)
  BY EffectIs
<1>2. CASE result = "ok"
  BY <1>1, <1>2 DEF Done, Meant, Vectors!Index!Succeed, Vectors!Index!Ends
<1>3. CASE result = "error"
  BY <1>1, <1>3 DEF Done, Meant, Vectors!Index!Fail, Vectors!Index!Ends
<1> QED
  BY <1>2, <1>3

LEMMA FailIs ==
  ASSUME NEW c \in Callers, Done[c].result = "running", SameCollection,
         Done' = [Done EXCEPT ![c].result = "error", ![c].found = {}]
  PROVE  Vectors!Index!Fail(c)
BY DEF Done, Meant, SameCollection, Vectors!Index!Fail, Vectors!Index!Ends

LEMMA ReturnIs ==
  ASSUME NEW c \in Callers, Done[c].result \in {"ok", "error"}, SameCollection,
         Done' = [Done EXCEPT ![c].result = "idle", ![c].found = {}]
  PROVE  Vectors!Index!Return(c)
BY DEF Done, Meant, SameCollection, Vectors!Index!Return, Vectors!Index!Ends

LEMMA QueryIs ==
  ASSUME NEW c \in Callers, NEW found, Done[c].result = "running", SameCollection,
         vPoints # NoCollection, IndexOf(vPoints) # NoCollection, Done[c].req.op = "query",
         found \subseteq {[id |-> id, payload |-> IndexOf(vPoints)[id]] :
                            id \in Meeting(IndexOf(vPoints), Done[c].req.filter)},
         Cardinality(found) \in
           (IF Done[c].req.threshold THEN 0
            ELSE AtMost(Cardinality(Meeting(IndexOf(vPoints), Done[c].req.filter)),
                        Done[c].req.limit)) .. Done[c].req.limit,
         Done' = [Done EXCEPT ![c].result = "ok", ![c].found = found]
  PROVE  Vectors!Index!Succeed(c)
<1>1. Vectors!Index!Answers(Done[c].req, found)
  <2>1. Vectors!Index!Cardinality(found) = Cardinality(found)
    BY OneCardinality
  <2>2. Vectors!Index!Cardinality(Meeting(IndexOf(vPoints), Done[c].req.filter))
          = Cardinality(Meeting(IndexOf(vPoints), Done[c].req.filter))
    BY OneCardinality
  <2>3. PICK req : req = Done[c].req
    OBVIOUS
  <2>4. Vectors!Index!Answers(req, found)
    BY <2>1, <2>2, <2>3 DEF Vectors!Index!Answers, Meeting, AtMost, IndexOf
  <2> QED
    BY <2>3, <2>4
<1>2. Done'[c].found = found /\ Done'[c].result = "ok"
  BY DEF Done
<1>3. /\ Vectors!Index!Answers(Done[c].req, Done'[c].found)
      /\ Done' = [Done EXCEPT ![c].result = "ok", ![c].found = Done'[c].found]
  BY <1>1, <1>2
<1>4. Done[c].req.op = "query" /\ Done[c].result = "running" /\ Done'[c].result = "ok"
  BY <1>2
<1>5. /\ IndexOf(vPoints)' = IndexOf(vPoints) /\ LegacyOf(vPoints)' = LegacyOf(vPoints)
      /\ PendingOf(vQueue)' = PendingOf(vQueue)
  BY SameIndex
<1> QED
  BY <1>3, <1>4, <1>5, Zenon
  DEF Done, Meant, IndexOf, LegacyOf, PendingOf, EntriesFor, EntryFor, Vectors!Index!Succeed, Vectors!Index!Ends

LEMMA VectorInit == ASSUME Vectors!Init PROVE VectorInv /\ Vectors!Index!Init
<1>1. PICK r \in VectorRequests :
        vCall = [c \in Callers |-> [req |-> r, at |-> "idle", result |-> "idle", found |-> {}]]
  BY PartsAssumption DEF Vectors!Init, Vectors!VectorAssumption
<1>2. [req |-> r, at |-> "idle", result |-> "idle", found |-> {}] \in CallType
  BY DEF CallType, Answer
<1>3. vCall \in [Callers -> CallType] /\ vCalls \in 0 .. MaxCalls
  <2>1. vCall \in [Callers -> CallType]
    BY <1>1, <1>2
  <2>2. vCalls = 0 /\ MaxCalls \in Nat
    BY PartsAssumption DEF Vectors!Init, Vectors!VectorAssumption
  <2> QED
    BY <2>1, <2>2
<1>4. vPoints = NoCollection
      \/ vPoints = [p \in {Vectors!Number(t) : t \in LegacyTimes} |-> LegacyPayload]
  BY DEF Vectors!Init
<1>5. ASSUME vPoints = [p \in {Vectors!Number(t) : t \in LegacyTimes} |-> LegacyPayload]
      PROVE  /\ IsCollection(vPoints)
             /\ \A p \in DOMAIN vPoints : p.kind = "num"
  <2> DEFINE S == {Vectors!Number(t) : t \in LegacyTimes}
             f == [t \in LegacyTimes |-> Vectors!Number(t)]
  <2>1. f \in Surjection(LegacyTimes, S)
    BY DEF Surjection
  <2>2. IsFiniteSet(LegacyTimes)
    BY PartsAssumption DEF Vectors!VectorAssumption, Vectors!IsFiniteSet, IsFiniteSet
  <2>3. IsFiniteSet(S)
    BY <2>1, <2>2, FS_Surjection
  <2>4. S \in SUBSET Stored
    BY DEF Stored, Vectors!StoredPoints
  <2>5. LegacyPayload \in Payloads
    BY DEF Payloads, Vectors!Payloads
  <2>6. vPoints \in [S -> Payloads]
    BY <1>5, <2>5
  <2>7. \A p \in S : p.kind = "num"
    BY DEF Vectors!Number
  <2> QED
    BY <2>3, <2>4, <2>6, <2>7 DEF IsCollection
<1>9. vQueue = <<>>
  BY DEF Vectors!Init
<1>10. vQueue \in QueueType
  BY <1>9 DEF QueueType
<1>12. InStep
  BY <1>1 DEF InStep
<1>6. VectorInv
  BY <1>3, <1>4, <1>5, <1>10, <1>12 DEF VectorInv
<1>7. IndexOf(vPoints) = NoCollection \/ DOMAIN IndexOf(vPoints) = LegacyOf(vPoints)
  <2>1. CASE vPoints = NoCollection
    BY <2>1 DEF IndexOf
  <2>2. CASE vPoints # NoCollection
    <3>1. IsCollection(vPoints) /\ \A p \in DOMAIN vPoints : p.kind = "num"
      BY <1>4, <1>5, <2>2
    <3>2. PICK S \in SUBSET Stored : vPoints \in [S -> Payloads]
      BY <3>1 DEF IsCollection
    <3>3. /\ DOMAIN IndexOf(vPoints) = {Vectors!UlidString(q) : q \in S}
          /\ LegacyOf(vPoints) = {Vectors!UlidString(q) : q \in {r1 \in S : r1.kind = "num"}}
      BY <3>2, IndexEntries
    <3>4. {r1 \in S : r1.kind = "num"} = S
      BY <3>1, <3>2
    <3> QED
      BY <3>3, <3>4
  <2> QED
    BY <2>1, <2>2
<1>8. \A c \in Callers : Done[c].result = "idle" /\ Done[c].found = {}
  BY <1>1 DEF Done
<1>13. PendingOf(vQueue) = <<>>
  BY <1>9 DEF PendingOf
<1>11. Vectors!Index!Init
  BY <1>7, <1>8, <1>13, Zenon
  DEF IndexOf, LegacyOf, PendingOf, EntriesFor, EntryFor, Done, Meant, Vectors!Index!Init
<1> QED
  BY <1>6, <1>11

(* A batch that is accepted is accepted by the contract too, and so for    *)
(* the collection itself.                                                  *)
LEMMA ValidBatch ==
  ASSUME NEW r \in VectorRequests, ~Vectors!Refused(r)
  PROVE  Vectors!Index!AllValid(r.batch)
BY DEF Vectors!Refused, Vectors!Index!AllValid

LEMMA BatchEffect ==
  ASSUME VectorInv, NEW c \in Callers, NEW op \in {"upsert", "delete"}, Vectors!Accept(c, op)
  PROVE  /\ vPoints' = vPoints /\ vQueue' \in QueueType
         /\ EffectOn(Done[c].req, vPoints, vPoints', PendingOf(vQueue), PendingOf(vQueue'))
<1>1. PICK r \in VectorRequests : r = vCall[c].req
  BY DEF VectorInv, CallType
<1>2. /\ r.op = op /\ ~Vectors!Refused(r) /\ vPoints # NoCollection
      /\ vPoints' = vPoints /\ vQueue' = Append(vQueue, Vectors!Writes(op, r.batch))
  BY <1>1 DEF Vectors!Accept, Vectors!Sending
<1>3. PICK b \in BatchType : b = r.batch /\ (op = "upsert" => PointsIn(b) \subseteq Stored)
  BY <1>2, RequestsAre
<1>4. PICK W \in Batches :
        W = Vectors!Writes(op, b) /\ EntriesFor(W) = Vectors!Index!Entries(op, b)
  BY <1>3, BatchWrites DEF Batches
<1>5. vQueue' = Append(vQueue, W)
  BY <1>2, <1>3, <1>4
<1>6. vQueue \in QueueType
  BY DEF VectorInv
<1>7. PICK q \in QueueType :
        q = vQueue' /\ PendingOf(q) = Append(PendingOf(vQueue), EntriesFor(W))
  BY <1>5, <1>6, PendingOn
<1>8. PICK S \in SUBSET Stored : vPoints \in [S -> Payloads]
  BY <1>2 DEF VectorInv, IsCollection
<1>9. IndexOf(vPoints) # NoCollection
  BY <1>8, IndexEntries
<1>10. Done[c].req.op = op /\ Done[c].req.batch = b
  BY <1>1, <1>2, <1>3, MeantIs DEF Done
<1>11. Vectors!Index!AllValid(b)
  BY <1>2, <1>3, ValidBatch
<1>12. PendingOf(q) = Append(PendingOf(vQueue), Vectors!Index!Entries(op, b))
  BY <1>4, <1>7
<1>13. EffectOn(Done[c].req, vPoints, vPoints', PendingOf(vQueue), PendingOf(q))
  BY <1>2, <1>9, <1>10, <1>11, <1>12 DEF EffectOn
<1> QED
  BY <1>2, <1>7, <1>13

LEMMA CollectionEffect ==
  ASSUME VectorInv, NEW c \in Callers,
         Vectors!CreateCollection(c) \/ Vectors!DeleteCollection(c)
  PROVE  /\ vPoints' = NoCollection \/ IsCollection(vPoints')
         /\ vQueue' \in QueueType
         /\ EffectOn(Done[c].req, vPoints, vPoints', PendingOf(vQueue), PendingOf(vQueue'))
<1>1. PICK r \in VectorRequests : r = vCall[c].req
  BY DEF VectorInv, CallType
<1>2. Done[c].req.op = r.op
  BY <1>1, MeantIs DEF Done
<1>3. CASE Vectors!CreateCollection(c)
  <2>1. r.op = "create collection" /\ vPoints = NoCollection /\ vPoints' = [p \in {} |-> None]
       /\ vQueue' = vQueue
    BY <1>1, <1>3 DEF Vectors!CreateCollection, Vectors!Sending
  <2>2. PICK S \in SUBSET Stored : S = {}
    OBVIOUS
  <2>3. PICK q \in [S -> Payloads] : q = vPoints'
    BY <2>1, <2>2
  <2>4. IsFiniteSet(S)
    BY <2>2, FS_EmptySet
  <2>5. DOMAIN IndexOf(q) = {} /\ IndexOf(q) = [id \in DOMAIN IndexOf(q) |-> IndexOf(q)[id]]
        /\ LegacyOf(q) = {}
    <3>1. /\ DOMAIN IndexOf(q) = {Vectors!UlidString(p) : p \in S}
          /\ IndexOf(q) = [id \in DOMAIN IndexOf(q) |-> IndexOf(q)[id]]
          /\ LegacyOf(q) = {Vectors!UlidString(p) : p \in {r1 \in S : r1.kind = "num"}}
      BY IndexEntries
    <3> QED
      BY <2>2, <3>1
  <2>6. IndexOf(q) = [id \in {} |-> NoCollection]
    BY <2>5
  <2>7. IndexOf(vPoints) = NoCollection
    BY <2>1 DEF IndexOf
  <2>8. PendingOf(vQueue') = PendingOf(vQueue) /\ vQueue' \in QueueType
    BY <2>1 DEF VectorInv
  <2> QED
    BY <1>2, <2>1, <2>3, <2>4, <2>5, <2>6, <2>7, <2>8 DEF EffectOn, IsCollection
<1>4. CASE Vectors!DeleteCollection(c)
  <2>1. r.op = "delete collection" /\ vPoints' = NoCollection /\ vQueue' = <<>>
    BY <1>1, <1>4 DEF Vectors!DeleteCollection, Vectors!Sending
  <2>2. IndexOf(vPoints') = NoCollection /\ LegacyOf(vPoints') = {}
    BY <2>1 DEF IndexOf, LegacyOf
  <2>3. PendingOf(vQueue') = <<>> /\ vQueue' \in QueueType
    <3>1. PICK q : q = vQueue'
      OBVIOUS
    <3>2. q = <<>>
      BY <2>1, <3>1
    <3>4. q \in QueueType
      BY <3>2 DEF QueueType
    <3>3. PendingOf(q) = <<>>
      BY <3>2 DEF PendingOf
    <3> QED
      BY <3>1, <3>3, <3>4
  <2> QED
    BY <1>2, <2>1, <2>2, <2>3 DEF EffectOn
<1> QED
  BY <1>3, <1>4

(* Each action keeps the invariant and is a step of the index, or none.    *)
VectorStepMeans ==
  /\ VectorInv'
  /\ Vectors!Index!Next \/ UNCHANGED Vectors!Index!vars

LEMMA NothingFound == {} \in Answer
BY DEF Answer

LEMMA BeginMeans ==
  ASSUME VectorInv, NEW c \in Callers, Vectors!Begin(c)
  PROVE  VectorStepMeans
<1>1. PICK r \in VectorRequests : vCall' = [vCall EXCEPT ![c] =
        [req |-> r, at |-> IF r.op = "query" THEN "embed" ELSE "send",
         result |-> "running", found |-> {}]]
  BY DEF Vectors!Begin
<1>2. /\ vCall[c].at = "idle" /\ vCalls < MaxCalls /\ vCalls' = vCalls + 1
      /\ SameCollection
  BY DEF Vectors!Begin, SameCollection
<1>3. PICK y \in CallType : y = [req |-> r, at |-> IF r.op = "query" THEN "embed" ELSE "send",
                                 result |-> "running", found |-> {}]
  <2>1. (IF r.op = "query" THEN "embed" ELSE "send") \in {"idle", "embed", "send", "done"}
    OBVIOUS
  <2>2. [req |-> r, at |-> IF r.op = "query" THEN "embed" ELSE "send",
         result |-> "running", found |-> {}] \in CallType
    BY <2>1, NothingFound DEF CallType
  <2> QED
    BY <2>2
<1>4. /\ y.req = r /\ y.at \in {"embed", "send"} /\ y.result = "running" /\ y.found = {}
  BY <1>3
<1>5. vCall \in [Callers -> CallType] /\ vCall' = [vCall EXCEPT ![c] = y]
  BY <1>1, <1>3 DEF VectorInv
<1>6. Done' = [Done EXCEPT ![c] = [req |-> Meant(r), result |-> "running", found |-> {}]]
  BY <1>4, <1>5, DoneNext
<1>7. Done[c].result = "idle"
  BY <1>2 DEF Done, VectorInv, InStep
<1>8. Vectors!Index!Start(c)
  BY <1>2, <1>6, <1>7, StartIs
<1>9. /\ vCall' \in [Callers -> CallType] /\ vCall'[c] = y
      /\ \A d \in Callers : d # c => vCall'[d] = vCall[d]
  BY <1>5
<1>10. ASSUME NEW d \in Callers
       PROVE  /\ vCall'[d].at = "idle" <=> vCall'[d].result = "idle"
              /\ vCall'[d].at \in {"embed", "send"} <=> vCall'[d].result = "running"
  <2>1. CASE d = c
    BY <1>4, <1>9, <2>1
  <2>2. CASE d # c
    BY <1>9, <2>2 DEF VectorInv, InStep
  <2> QED
    BY <2>1, <2>2
<1>11. vCalls' \in 0 .. MaxCalls
  <2>1. MaxCalls \in Nat
    BY PartsAssumption DEF Vectors!VectorAssumption
  <2> QED
    BY <1>2, <2>1 DEF VectorInv
<1>12. (vPoints = NoCollection \/ IsCollection(vPoints))' /\ (vQueue \in QueueType)'
  BY <1>2 DEF VectorInv, IsCollection, SameCollection
<1>13. VectorInv'
  BY <1>9, <1>10, <1>11, <1>12 DEF VectorInv, InStep
<1> QED
  BY <1>8, <1>13 DEF VectorStepMeans, Vectors!Index!Next

LEMMA EmbedMeans ==
  ASSUME VectorInv, NEW c \in Callers, Vectors!Embed(c)
  PROVE  VectorStepMeans
<1>1. /\ vCall[c].at = "embed" /\ vCall' = [vCall EXCEPT ![c].at = "send"]
      /\ SameCollection /\ vCalls' = vCalls
  BY DEF Vectors!Embed, SameCollection
<1>2. PICK x \in CallType : x = vCall[c]
  BY DEF VectorInv
<1>3. PICK y \in CallType : y = [req |-> x.req, at |-> "send", result |-> x.result,
                                 found |-> x.found]
  BY DEF CallType
<1>4. y.req = x.req /\ y.at = "send" /\ y.result = x.result /\ y.found = x.found
  BY <1>3
<1>5. vCall \in [Callers -> CallType] /\ vCall' = [vCall EXCEPT ![c] = y]
  <2>1. [x EXCEPT !.at = "send"] = y
    BY <1>3, CallMoves
  <2> QED
    BY <1>1, <1>2, <2>1 DEF VectorInv
<1>6. /\ vCall' \in [Callers -> CallType] /\ vCall'[c] = y
      /\ \A d \in Callers : d # c => vCall'[d] = vCall[d]
  BY <1>5
<1>7. Done' = Done
  <2>1. \A d \in Callers : /\ vCall'[d].req = vCall[d].req /\ vCall'[d].result = vCall[d].result
                           /\ vCall'[d].found = vCall[d].found
    BY <1>2, <1>4, <1>6
  <2> QED
    BY <2>1 DEF Done
<1>8. /\ IndexOf(vPoints)' = IndexOf(vPoints) /\ LegacyOf(vPoints)' = LegacyOf(vPoints)
      /\ PendingOf(vQueue)' = PendingOf(vQueue)
  BY <1>1, SameIndex
<1>9. UNCHANGED Vectors!Index!vars
  BY <1>7, <1>8
  DEF Done, Meant, IndexOf, LegacyOf, PendingOf, EntriesFor, EntryFor, Vectors!Index!vars
<1>10. ASSUME NEW d \in Callers
       PROVE  /\ vCall'[d].at = "idle" <=> vCall'[d].result = "idle"
              /\ vCall'[d].at \in {"embed", "send"} <=> vCall'[d].result = "running"
  <2>1. CASE d = c
    BY <1>1, <1>2, <1>4, <1>6, <2>1 DEF VectorInv, InStep
  <2>2. CASE d # c
    BY <1>6, <2>2 DEF VectorInv, InStep
  <2> QED
    BY <2>1, <2>2
<1>11. VectorInv'
  BY <1>1, <1>6, <1>10 DEF VectorInv, InStep, IsCollection, SameCollection
<1> QED
  BY <1>9, <1>11 DEF VectorStepMeans

LEMMA FailMeans ==
  ASSUME VectorInv, NEW c \in Callers, Vectors!Fail(c)
  PROVE  VectorStepMeans
<1>1. /\ vCall[c].at \in {"embed", "send"} /\ SameCollection /\ vCalls' = vCalls
      /\ vCall' = [vCall EXCEPT ![c].at = "done", ![c].result = "error", ![c].found = {}]
  BY DEF Vectors!Fail, Vectors!Ends, SameCollection
<1>2. /\ DoneEndsAs(c, "error", {})
      /\ vCall' \in [Callers -> CallType]
      /\ InStep'
  <2>1. CallEndsAs(c, "done", "error", {})
    BY <1>1 DEF CallEndsAs
  <2> QED
    BY <2>1, NothingFound, VectorEnds
<1>3. Done[c].result = "running"
  BY <1>1 DEF VectorInv, Done, InStep
<1>4. Vectors!Index!Fail(c)
  BY <1>1, <1>2, <1>3, FailIs DEF DoneEndsAs
<1>5. VectorInv'
  BY <1>1, <1>2 DEF VectorInv, IsCollection, SameCollection
<1> QED
  BY <1>4, <1>5 DEF VectorStepMeans, Vectors!Index!Next

LEMMA ReturnMeans ==
  ASSUME VectorInv, NEW c \in Callers, Vectors!Return(c)
  PROVE  VectorStepMeans
<1>1. /\ vCall[c].at = "done" /\ SameCollection /\ vCalls' = vCalls
      /\ vCall' = [vCall EXCEPT ![c].at = "idle", ![c].result = "idle", ![c].found = {}]
  BY DEF Vectors!Return, SameCollection
<1>2. /\ DoneEndsAs(c, "idle", {})
      /\ vCall' \in [Callers -> CallType]
      /\ InStep'
  <2>1. CallEndsAs(c, "idle", "idle", {})
    BY <1>1 DEF CallEndsAs
  <2> QED
    BY <2>1, NothingFound, VectorEnds
<1>3. Done[c].result \in {"ok", "error"}
  <2>1. PICK x \in CallType : x = vCall[c]
    BY DEF VectorInv
  <2>2. x.result \in {"idle", "running", "ok", "error"}
    BY DEF CallType
  <2>3. x.result # "idle" /\ x.result # "running"
    BY <1>1, <2>1 DEF VectorInv, InStep
  <2> QED
    BY <2>1, <2>2, <2>3 DEF Done
<1>4. Vectors!Index!Return(c)
  BY <1>1, <1>2, <1>3, ReturnIs DEF DoneEndsAs
<1>5. VectorInv'
  BY <1>1, <1>2 DEF VectorInv, IsCollection, SameCollection
<1> QED
  BY <1>4, <1>5 DEF VectorStepMeans, Vectors!Index!Next

(* A batch, or a change of the collection, whose answer may be lost.       *)
LEMMA ChangeMeans ==
  ASSUME VectorInv, NEW c \in Callers, vCall[c].at = "send", Vectors!Answered(c),
         EffectOn(Done[c].req, vPoints, vPoints', PendingOf(vQueue), PendingOf(vQueue')),
         vCalls' = vCalls, vPoints' = NoCollection \/ IsCollection(vPoints'),
         vQueue' \in QueueType
  PROVE  VectorStepMeans
<1>1. PICK result \in {"ok", "error"} :
        vCall' = [vCall EXCEPT ![c].at = "done", ![c].result = result, ![c].found = {}]
  BY DEF Vectors!Answered, Vectors!Ends
<1>2. /\ DoneEndsAs(c, result, {})
      /\ vCall' \in [Callers -> CallType]
      /\ InStep'
  <2>1. CallEndsAs(c, "done", result, {})
    BY <1>1 DEF CallEndsAs
  <2> QED
    BY <2>1, NothingFound, VectorEnds
<1>3. Done[c].result = "running"
  BY DEF VectorInv, Done, InStep
<1>4. Vectors!Index!Succeed(c) \/ Vectors!Index!Fail(c)
  BY <1>2, <1>3, ChangeIs DEF DoneEndsAs
<1>5. VectorInv'
  BY <1>2 DEF VectorInv, IsCollection
<1> QED
  BY <1>4, <1>5 DEF VectorStepMeans, Vectors!Index!Next

LEMMA SearchMeans ==
  ASSUME VectorInv, NEW c \in Callers, Vectors!Search(c)
  PROVE  VectorStepMeans
<1>1. PICK r \in VectorRequests : r = vCall[c].req
  BY DEF VectorInv, CallType
<1>2. /\ vCall[c].at = "send" /\ r.op = "query" /\ vPoints # NoCollection
      /\ SameCollection /\ vCalls' = vCalls
  BY <1>1 DEF Vectors!Search, Vectors!Sending, SameCollection
<1>3. PICK S \in SUBSET Stored : IsFiniteSet(S) /\ vPoints \in [S -> Payloads]
  BY <1>2 DEF VectorInv, IsCollection
<1>4. PICK P \in [S -> Payloads] : P = vPoints
  BY <1>3
<1>5. PICK found \in SUBSET Hits(P, r.filter) :
        /\ Cardinality(found) <= AtMost(Cardinality(Hits(P, r.filter)), Vectors!Limit(r))
        /\ \/ r.threshold
           \/ Cardinality(found) = AtMost(Cardinality(Hits(P, r.filter)), Vectors!Limit(r))
        /\ vCall' = [vCall EXCEPT ![c].at = "done", ![c].result = "ok",
                                  ![c].found = FoundOf(P, found)]
  <2>1. PICK found \in SUBSET Hits(vPoints, vCall[c].req.filter) :
          /\ Vectors!Cardinality(found) <=
               (IF Vectors!Cardinality(Hits(vPoints, vCall[c].req.filter))
                     < Vectors!Limit(vCall[c].req)
                THEN Vectors!Cardinality(Hits(vPoints, vCall[c].req.filter))
                ELSE Vectors!Limit(vCall[c].req))
          /\ \/ vCall[c].req.threshold
             \/ Vectors!Cardinality(found) =
                  (IF Vectors!Cardinality(Hits(vPoints, vCall[c].req.filter))
                        < Vectors!Limit(vCall[c].req)
                   THEN Vectors!Cardinality(Hits(vPoints, vCall[c].req.filter))
                   ELSE Vectors!Limit(vCall[c].req))
          /\ vCall' = [vCall EXCEPT ![c].at = "done", ![c].result = "ok",
                                    ![c].found = FoundOf(vPoints, found)]
    BY DEF Vectors!Search, Vectors!Ends, Hits, FoundOf
  <2>2. Vectors!Cardinality(found) = Cardinality(found)
    BY OneCardinality
  <2>3. Vectors!Cardinality(Hits(P, r.filter)) = Cardinality(Hits(P, r.filter))
    BY OneCardinality
  <2> QED
    BY <1>1, <1>4, <2>1, <2>2, <2>3 DEF AtMost
<1>6. /\ \A f \in r.filter.must \cup r.filter.should \cup r.filter.mustNot :
           Vectors!WellFormed(f)
      /\ Vectors!Limit(r) \in Nat /\ r.threshold \in BOOLEAN
  BY RequestsAre
<1>7. /\ FoundOf(P, found) \subseteq
           {[id |-> id, payload |-> IndexOf(P)[id]] : id \in Meeting(IndexOf(P), r.filter)}
      /\ Cardinality(FoundOf(P, found)) = Cardinality(found) /\ Cardinality(found) \in Nat
      /\ Cardinality(Meeting(IndexOf(P), r.filter)) = Cardinality(Hits(P, r.filter))
      /\ Cardinality(Hits(P, r.filter)) \in Nat
  BY <1>3, <1>6, SearchFinds
<1>8. FoundOf(P, found) \in Answer
  <2>1. \A p \in found : p \in S /\ P[p] \in Payloads
    BY DEF Hits
  <2>2. \A p \in found : Vectors!UlidString(p) \in UlidType
    <3>1. ASSUME NEW p \in found
          PROVE  p.time \in Nat /\ p.entropy \in Nat
      <4>1. p \in Stored
        BY <2>1
      <4>2. CASE \E t \in Nat : p = [kind |-> "num", time |-> t, entropy |-> 0]
        BY <4>2
      <4>3. CASE \E t \in Nat, e \in Nat \ {0} : p = [kind |-> "uuid", time |-> t, entropy |-> e]
        BY <4>3
      <4> QED
        BY <4>1, <4>2, <4>3, PointsOf
    <3> QED
      BY <3>1 DEF Vectors!UlidString, UlidType
  <2> QED
    BY <2>1, <2>2 DEF FoundOf, Answer
<1>9. PICK ans \in Answer : ans = FoundOf(P, found)
  BY <1>8
<1>10. /\ DoneEndsAs(c, "ok", ans)
       /\ vCall' \in [Callers -> CallType]
       /\ InStep'
  <2>1. CallEndsAs(c, "done", "ok", ans)
    BY <1>5, <1>9 DEF CallEndsAs
  <2> QED
    BY <2>1, VectorEnds
<1>11. /\ Done[c].result = "running" /\ Done[c].req = Meant(r)
  BY <1>1, <1>2 DEF VectorInv, Done, InStep
<1>12. /\ Meant(r).op = "query" /\ Meant(r).filter = r.filter
       /\ Meant(r).threshold = r.threshold /\ Meant(r).limit = Vectors!Limit(r)
  BY <1>2, MeantIs
<1>13. Cardinality(ans) \in
         (IF r.threshold THEN 0
          ELSE AtMost(Cardinality(Meeting(IndexOf(P), r.filter)), Vectors!Limit(r)))
           .. Vectors!Limit(r)
  <2>1. PICK n \in Nat, h \in Nat, l \in Nat :
          n = Cardinality(found) /\ h = Cardinality(Hits(P, r.filter)) /\ l = Vectors!Limit(r)
    BY <1>6, <1>7
  <2>2. Cardinality(ans) = n /\ Cardinality(Meeting(IndexOf(P), r.filter)) = h
    BY <1>7, <1>9, <2>1
  <2>3. n <= AtMost(h, l) /\ (r.threshold \/ n = AtMost(h, l))
    BY <1>5, <2>1
  <2>4. AtMost(h, l) <= l /\ AtMost(h, l) \in Nat
    BY DEF AtMost
  <2>5. n \in (IF r.threshold THEN 0 ELSE AtMost(h, l)) .. l
    BY <1>6, <2>3, <2>4
  <2> QED
    BY <2>1, <2>2, <2>5
<1>14. IndexOf(P) # NoCollection
  BY IndexEntries
<1>15. Vectors!Index!Succeed(c)
  <2>1. ans \subseteq {[id |-> id, payload |-> IndexOf(vPoints)[id]] :
                         id \in Meeting(IndexOf(vPoints), Done[c].req.filter)}
    BY <1>4, <1>7, <1>9, <1>11, <1>12
  <2>2. Cardinality(ans) \in
          (IF Done[c].req.threshold THEN 0
           ELSE AtMost(Cardinality(Meeting(IndexOf(vPoints), Done[c].req.filter)),
                       Done[c].req.limit)) .. Done[c].req.limit
    BY <1>4, <1>11, <1>12, <1>13
  <2> QED
    BY <1>2, <1>4, <1>10, <1>11, <1>12, <1>14, <2>1, <2>2, QueryIs DEF DoneEndsAs
<1>16. VectorInv'
  BY <1>2, <1>10 DEF VectorInv, IsCollection, SameCollection
<1> QED
  BY <1>15, <1>16 DEF VectorStepMeans, Vectors!Index!Next

(* A write of the oldest batch, or its end.                                *)
LEMMA ApplyMeans ==
  ASSUME VectorInv, Vectors!Apply
  PROVE  VectorStepMeans
<1>1. vQueue # <<>> /\ vPoints # NoCollection /\ vCall' = vCall /\ vCalls' = vCalls
  BY DEF Vectors!Apply
<1>2. PICK S \in SUBSET Stored : IsFiniteSet(S) /\ vPoints \in [S -> Payloads]
  BY <1>1 DEF VectorInv, IsCollection
<1>3. IndexOf(vPoints) # NoCollection
  BY <1>2, IndexEntries
<1>4. PICK q \in QueueType : q = vQueue
  BY DEF VectorInv
<1>5. /\ Tail(q) \in QueueType /\ Head(q) \in Batches
      /\ PendingOf(q) # <<>> /\ Head(PendingOf(q)) = EntriesFor(Head(q))
      /\ PendingOf(Tail(q)) = Tail(PendingOf(q))
      /\ \A w \in Head(q) :
           /\ [q EXCEPT ![1] = @ \ {w}] \in QueueType
           /\ PendingOf([q EXCEPT ![1] = @ \ {w}])
                = [PendingOf(q) EXCEPT ![1] = @ \ {EntryFor(w)}]
  BY <1>1, <1>4, PendingOff
<1>6. Done' = Done
  BY <1>1 DEF Done
<1>7. CASE Head(q) = {} /\ vQueue' = Tail(q) /\ vPoints' = vPoints
  <2>1. Head(PendingOf(vQueue)) = {} /\ PendingOf(vQueue)' = Tail(PendingOf(vQueue))
    <3>1. PICK t \in QueueType : t = vQueue' /\ PendingOf(t) = Tail(PendingOf(q))
      BY <1>5, <1>7
    <3>2. EntriesFor({}) = {}
      BY DEF EntriesFor
    <3> QED
      BY <1>4, <1>5, <1>7, <3>1, <3>2
  <2>2. IndexOf(vPoints)' = IndexOf(vPoints) /\ LegacyOf(vPoints)' = LegacyOf(vPoints)
    BY <1>7 DEF IndexOf, LegacyOf
  <2>3. PendingOf(vQueue) # <<>>
    BY <1>4, <1>5
  <2>4. Vectors!Index!Settle
    BY <1>3, <1>6, <2>1, <2>2, <2>3, Zenon
    DEF IndexOf, LegacyOf, PendingOf, EntriesFor, EntryFor, Done, Meant, Vectors!Index!Settle
  <2>5. VectorInv'
    BY <1>1, <1>5, <1>7 DEF VectorInv, InStep, IsCollection
  <2> QED
    BY <2>4, <2>5 DEF VectorStepMeans, Vectors!Index!Next
<1>8. ASSUME NEW w \in Head(q), vPoints' = Vectors!Applied(w), vQueue' = [q EXCEPT ![1] = @ \ {w}]
      PROVE  VectorStepMeans
  <2>1. PICK P \in [S -> Payloads] : P = vPoints
    BY <1>2
  <2>2. w \in WriteType
    BY <1>5 DEF Batches
  <2>3. vPoints' = WrittenTo(P, w)
    BY <1>8, <2>1 DEF Vectors!Applied, WrittenTo
  <2>4. /\ \E T \in SUBSET Stored : IsFiniteSet(T) /\ WrittenTo(P, w) \in [T -> Payloads]
        /\ IndexOf(WrittenTo(P, w)) = EnteredIn(IndexOf(P), LegacyOf(P), EntryFor(w))
        /\ LegacyOf(WrittenTo(P, w)) = LegacyOf(P)
    BY <1>2, <2>2, WriteApplies
  <2>5. PICK e : e = EntryFor(w)
    OBVIOUS
  <2>6. e \in Head(PendingOf(vQueue))
    BY <1>4, <1>5, <2>5 DEF EntriesFor
  <2>7. PendingOf(vQueue') = [PendingOf(vQueue) EXCEPT ![1] = @ \ {e}]
    <3>1. PICK t \in QueueType :
            t = vQueue' /\ PendingOf(t) = [PendingOf(q) EXCEPT ![1] = @ \ {EntryFor(w)}]
      BY <1>5, <1>8
    <3> QED
      BY <1>4, <2>5, <3>1
  <2>8. /\ IndexOf(vPoints') = EnteredIn(IndexOf(vPoints), LegacyOf(vPoints), e)
        /\ LegacyOf(vPoints') = LegacyOf(vPoints)
    BY <2>1, <2>3, <2>4, <2>5
  <2>9. IndexOf(vPoints') = Vectors!Index!With(e)
    BY <2>8, Zenon DEF EnteredIn, IndexOf, LegacyOf, Vectors!Index!With
  <2>10. PendingOf(vQueue) # <<>>
    BY <1>4, <1>5
  <2>11. Vectors!Index!Settle
    BY <1>3, <1>6, <2>6, <2>7, <2>8, <2>9, <2>10, Zenon
    DEF IndexOf, LegacyOf, PendingOf, EntriesFor, EntryFor, Done, Meant, Vectors!Index!Settle
  <2>12. IsCollection(vPoints') /\ vQueue' \in QueueType
    BY <1>5, <1>8, <2>3, <2>4 DEF IsCollection
  <2>13. VectorInv'
    BY <1>1, <2>12 DEF VectorInv, InStep, IsCollection
  <2> QED
    BY <2>11, <2>13 DEF VectorStepMeans, Vectors!Index!Next
<1> QED
  BY <1>4, <1>7, <1>8 DEF Vectors!Apply

LEMMA VectorStepIs ==
  ASSUME VectorInv, Vectors!Next \/ UNCHANGED vectorVars
  PROVE  VectorStepMeans
<1>1. CASE UNCHANGED vectorVars
  <2>1. SameCollection /\ vCall' = vCall /\ vCalls' = vCalls
    BY <1>1 DEF vectorVars, SameCollection
  <2>2. VectorInv'
    BY <2>1 DEF VectorInv, InStep, IsCollection, SameCollection
  <2>3. Done' = Done
    BY <2>1 DEF Done
  <2>4. /\ IndexOf(vPoints)' = IndexOf(vPoints) /\ LegacyOf(vPoints)' = LegacyOf(vPoints)
        /\ PendingOf(vQueue)' = PendingOf(vQueue)
    BY <2>1, SameIndex
  <2>5. UNCHANGED Vectors!Index!vars
    BY <2>3, <2>4
    DEF Done, Meant, IndexOf, LegacyOf, PendingOf, EntriesFor, EntryFor, Vectors!Index!vars
  <2> QED
    BY <2>2, <2>5 DEF VectorStepMeans
<1>2. ASSUME NEW c \in Callers, NEW op \in {"upsert", "delete"}, Vectors!Accept(c, op)
      PROVE  VectorStepMeans
  <2>1. vCall[c].at = "send" /\ Vectors!Answered(c) /\ vCalls' = vCalls
    BY <1>2 DEF Vectors!Accept, Vectors!Sending
  <2>2. /\ vPoints' = vPoints /\ vQueue' \in QueueType
        /\ EffectOn(Done[c].req, vPoints, vPoints', PendingOf(vQueue), PendingOf(vQueue'))
    BY <1>2, BatchEffect
  <2>3. vPoints' = NoCollection \/ IsCollection(vPoints')
    BY <2>2 DEF VectorInv, IsCollection
  <2> QED
    BY <2>1, <2>2, <2>3, ChangeMeans
<1>3. ASSUME NEW c \in Callers, Vectors!BatchUpsert(c) \/ Vectors!BatchDelete(c)
      PROVE  VectorStepMeans
  BY <1>2, <1>3 DEF Vectors!BatchUpsert, Vectors!BatchDelete
<1>4. ASSUME NEW c \in Callers, Vectors!CreateCollection(c) \/ Vectors!DeleteCollection(c)
      PROVE  VectorStepMeans
  <2>1. vCall[c].at = "send" /\ Vectors!Answered(c) /\ vCalls' = vCalls
    BY <1>4 DEF Vectors!CreateCollection, Vectors!DeleteCollection, Vectors!Sending
  <2> QED
    BY <1>4, <2>1, CollectionEffect, ChangeMeans
<1>5. CASE Vectors!Apply
  BY <1>5, ApplyMeans
<1>6. CASE Vectors!Next /\ ~Vectors!Apply
  <2>1. PICK c \in Callers :
          \/ Vectors!Begin(c) \/ Vectors!Fail(c) \/ Vectors!Embed(c) \/ Vectors!Return(c)
          \/ Vectors!BatchUpsert(c) \/ Vectors!BatchDelete(c) \/ Vectors!Search(c)
          \/ Vectors!CreateCollection(c) \/ Vectors!DeleteCollection(c)
    BY <1>6 DEF Vectors!Next
  <2> QED
    BY <1>3, <1>4, <2>1, BeginMeans, EmbedMeans, FailMeans, ReturnMeans, SearchMeans
<1> QED
  BY <1>1, <1>5, <1>6

THEOREM VectorInvariant == Spec => []VectorInv
<1>1. Init => VectorInv
  BY VectorInit DEF Init
<1>2. VectorInv /\ [Next]_vars => VectorInv'
  BY OneInFocus, VectorStepIs DEF VectorStepMeans
<1> QED
  BY <1>1, <1>2, PTL DEF Spec

(* Theorem: what concurrent callers see of a collection is an index by     *)
(* ULID (VectorIndex): batches of qdrant.go are accepted whole and applied *)
(* afterwards in their order, an entry at a time, the last entry of an id  *)
(* wins, deletions miss the points an older program numbered, and a query  *)
(* answers entries that meet its filter as it was written.                 *)
THEOREM VectorsAreAnIndex == Spec => Vectors!ImplementsContract
<1>1. Init => Vectors!Index!Init
  BY VectorInit DEF Init
<1>2. VectorInv /\ [Next]_vars => [Vectors!Index!Next]_(Vectors!Index!vars)
  BY OneInFocus, VectorStepIs DEF VectorStepMeans
<1> QED
  BY <1>1, <1>2, VectorInvariant, PTL DEF Spec, Vectors!ImplementsContract, Vectors!Index!Spec

(* Theorem: neo4j.go, secretmanager.go and qdrant.go each do, for every    *)
(* number of concurrent callers, what SocialGraph, SecretRegister and      *)
(* VectorIndex promise.                                                    *)
THEOREM ServicesContractsAreImplemented == Spec => ContractsAreImplemented
BY GraphIsSocial, ServicesSecretsAreARegister, VectorsAreAnIndex DEF ContractsAreImplemented

-----------------------------------------------------------------------------
(* The items.  A key has the item that was written under it, if any.       *)
Rows == [Store!Keys -> Items \cup {Absent}]
Keyed(store) == \A k \in Store!Keys : store[k] # Absent => Store!Key(store[k]) = k

(* What may be seen of a key: what is in the table, and older versions.    *)
Versions(seen, store) ==
  /\ seen \in [Store!Keys -> SUBSET (Items \cup {Absent})]
  /\ \A k \in Store!Keys :
       /\ store[k] \in seen[k]
       /\ \A m \in seen[k] : m # Absent => Store!Key(m) = k

(* A client that may yet make, or has made, a second user unwarned.        *)
Live(c) == ~iSignup[c].blind /\ (iSignup[c].phase = "create" \/ Store!SignedUp(c))

SignupType == [phase : {"idle", "create", "done"}, blind : BOOLEAN]

ItemInv ==
  /\ iTable \in Rows /\ Keyed(iTable) /\ Versions(iSeen, iTable)
  /\ iEntries \in Store!SetToSeqs(Store!Registered)
  /\ iSignup \in [Clients -> SignupType] /\ iWrites \in 0 .. MaxWrites
  /\ \A c \in Clients : iTable[Store!Key(Store!UserOf(c))] \in {Absent, Store!UserOf(c)}
  /\ \A c \in Clients : Store!SignedUp(c) => iSignup[c].phase = "done"
  /\ \A c, d \in Clients : c # d /\ Identity[c] = Identity[d] => ~(Live(c) /\ Live(d))

LEMMA ItemsAre ==
  ASSUME NEW m \in Items
  PROVE  /\ m.model \in {"user", "document", "chunk"} /\ m.id \in 0 .. 9 /\ m.attr \in 0 .. 9
         /\ m # Absent /\ Store!Key(m) \in Store!Keys
BY PartsAssumption, ServicesAssumption DEF Store!ItemAssumption, Store!Keys

LEMMA UsersAre ==
  ASSUME NEW c \in Clients
  PROVE  /\ Store!UserOf(c) \in Items /\ Store!UserOf(c).model = "user"
         /\ Store!UserOf(c).id = NewUser[c] /\ Store!UserOf(c).attr = Identity[c]
         /\ \A m \in Writers \cup InitialItems : Store!Key(m) # Store!Key(Store!UserOf(c))
BY PartsAssumption DEF Store!ItemAssumption, Store!UserOf

LEMMA UsersDiffer ==
  ASSUME NEW c \in Clients, NEW d \in Clients, c # d
  PROVE  Store!Key(Store!UserOf(c)) # Store!Key(Store!UserOf(d))
<1>1. NewUser[c] # NewUser[d]
  BY PartsAssumption DEF Store!ItemAssumption
<1>2. Store!UserOf(c).model = "user" /\ Store!UserOf(c).id = NewUser[c]
  BY UsersAre
<1>3. Store!UserOf(d).model = "user" /\ Store!UserOf(d).id = NewUser[d]
  BY UsersAre
<1>4. Store!Key(Store!UserOf(c))[1] = <<"USER#", NewUser[c]>>
  BY <1>2 DEF Store!Key, Store!PK
<1>5. Store!Key(Store!UserOf(d))[1] = <<"USER#", NewUser[d]>>
  BY <1>3 DEF Store!Key, Store!PK
<1> QED
  BY <1>1, <1>4, <1>5

LEMMA ItemInit == Store!Init => ItemInv
<1> SUFFICES ASSUME Store!Init PROVE ItemInv
  OBVIOUS
<1>1. /\ iTable = [k \in Store!Keys |->
           IF \E m \in InitialItems : Store!Key(m) = k
           THEN CHOOSE m \in InitialItems : Store!Key(m) = k ELSE Absent]
      /\ iSeen = [k \in Store!Keys |-> {iTable[k]}] /\ iEntries \in Store!SetToSeqs(Store!Registered)
      /\ iSignup = [c \in Clients |-> [phase |-> "idle", blind |-> FALSE]] /\ iWrites = 0
  BY DEF Store!Init
<1>2. ASSUME NEW k \in Store!Keys
      PROVE  iTable[k] = Absent \/ (iTable[k] \in InitialItems /\ Store!Key(iTable[k]) = k)
  BY <1>1
<1>3. InitialItems \subseteq Items
  BY ServicesAssumption
<1>4. iTable \in Rows
  <2>1. \A k \in Store!Keys : iTable[k] \in Items \cup {Absent}
    BY <1>2, <1>3
  <2> QED
    BY <1>1, <2>1 DEF Rows
<1>5. Keyed(iTable)
  BY <1>2 DEF Keyed
<1>6. \A c \in Clients : iTable[Store!Key(Store!UserOf(c))] = Absent
  <2>1. TAKE c \in Clients
  <2>2. Store!Key(Store!UserOf(c)) \in Store!Keys
    BY UsersAre, ItemsAre
  <2>3. \A m \in InitialItems : Store!Key(m) # Store!Key(Store!UserOf(c))
    BY UsersAre
  <2> QED
    BY <1>2, <2>2, <2>3
<1>7. \A c \in Clients : ~Store!SignedUp(c)
  BY <1>6 DEF Store!SignedUp
<1>8. iSignup \in [Clients -> SignupType]
  BY <1>1 DEF SignupType
<1>9. \A c \in Clients : ~Live(c)
  BY <1>1, <1>7 DEF Live
<1>10. iWrites \in 0 .. MaxWrites
  BY <1>1, ServicesAssumption
<1>11. Versions(iSeen, iTable)
  <2>1. \A k \in Store!Keys : iTable[k] \in Items \cup {Absent}
    BY <1>4 DEF Rows
  <2> QED
    BY <1>1, <1>5, <2>1 DEF Versions, Keyed
<1> QED
  BY <1>1, <1>4, <1>5, <1>6, <1>7, <1>8, <1>9, <1>10, <1>11 DEF ItemInv

(* A finite set of integers has a greatest element; a finite set can be    *)
(* put in the order of an injective numbering.                             *)
LEMMA FiniteMax ==
  ASSUME NEW S \in SUBSET Int, IsFiniteSet(S), S # {}
  PROVE  \E x \in S : \A y \in S : y <= x
<1> DEFINE Bad(Q) == Q # {} /\ ~ \E x \in Q : \A y \in Q : y <= x
           T == {n \in Nat : \E Q \in SUBSET S : Cardinality(Q) = n /\ Bad(Q)}
<1>1. ASSUME T # {} PROVE FALSE
  <2>1. T \in SUBSET Nat
    OBVIOUS
  <2> HIDE DEF T
  <2>2. PICK n \in T : \A k \in T : n <= k
    BY <1>1, <2>1, Least
  <2>3. PICK Q \in SUBSET S : Cardinality(Q) = n /\ Bad(Q)
    BY <2>2 DEF T
  <2>4. IsFiniteSet(Q)
    BY FS_Subset
  <2>5. PICK x \in Q : TRUE
    BY <2>3
  <2>6. PICK P \in SUBSET S : P = Q \ {x}
    OBVIOUS
  <2>7. IsFiniteSet(P) /\ Cardinality(P) = Cardinality(Q) - 1
    BY <2>4, <2>5, <2>6, FS_RemoveElement
  <2>8. Cardinality(P) \in Nat /\ Cardinality(Q) \in Nat
    BY <2>4, <2>7, FS_CardinalityType
  <2>9. ~Bad(P)
    <3>1. Cardinality(P) \notin T
      BY <2>1, <2>2, <2>3, <2>7, <2>8
    <3> QED
      BY <2>8, <3>1 DEF T
  <2>10. CASE P = {}
    <3>1. Q = {x}
      BY <2>5, <2>6, <2>10
    <3> QED
      BY <2>3, <3>1
  <2>11. CASE P # {}
    <3>1. PICK y \in P : \A z \in P : z <= y
      BY <2>9, <2>11
    <3>2. \A z \in Q : z = x \/ z \in P
      BY <2>6
    <3>3. x \in Int /\ y \in Int /\ y \in Q /\ P \subseteq Int /\ Q \subseteq Int
      BY <2>6
    <3>4. CASE x <= y
      BY <2>3, <3>1, <3>2, <3>3, <3>4
    <3>5. CASE ~ (x <= y)
      <4>1. \A z \in Q : z <= x
        BY <3>1, <3>2, <3>3, <3>5
      <4> QED
        BY <2>3, <4>1
    <3> QED
      BY <3>4, <3>5
  <2> QED
    BY <2>10, <2>11
<1>2. Cardinality(S) \in Nat
  BY FS_CardinalityType
<1>3. ~Bad(S)
  BY <1>1, <1>2
<1> QED
  BY <1>3

Ascending(r, s) == \A i, j \in DOMAIN s : i < j => r[s[i]] < r[s[j]]

LEMMA Sortable ==
  ASSUME NEW R, IsFiniteSet(R), NEW r \in [R -> Int], \A x, y \in R : r[x] = r[y] => x = y
  PROVE  \E s \in [1 .. Cardinality(R) -> R] : Ascending(r, s)
<1> DEFINE Bad(Q) == ~ \E s \in [1 .. Cardinality(Q) -> Q] : Ascending(r, s)
           T == {n \in Nat : \E Q \in SUBSET R : Cardinality(Q) = n /\ Bad(Q)}
<1>1. ASSUME T # {} PROVE FALSE
  <2>1. T \in SUBSET Nat
    OBVIOUS
  <2> HIDE DEF T
  <2>2. PICK n \in T : \A k \in T : n <= k
    BY <1>1, <2>1, Least
  <2>3. PICK Q \in SUBSET R : Cardinality(Q) = n /\ Bad(Q)
    BY <2>2 DEF T
  <2>4. IsFiniteSet(Q) /\ n \in Nat
    BY <2>1, FS_Subset
  <2>5. CASE Q = {}
    <3>1. Cardinality(Q) = 0
      BY <2>5, FS_EmptySet
    <3>2. PICK s : s = [i \in 1 .. 0 |-> 0]
      OBVIOUS
    <3>3. s \in [1 .. 0 -> Q] /\ DOMAIN s = {}
      BY <3>2
    <3>4. Ascending(r, s)
      BY <3>3 DEF Ascending
    <3> QED
      BY <2>3, <3>1, <3>3, <3>4
  <2>6. CASE Q # {}
    <3> DEFINE I == {r[x] : x \in Q}
    <3>1. IsFiniteSet(I)
      <4> DEFINE f == [x \in Q |-> r[x]]
      <4>1. f \in Surjection(Q, I)
        BY DEF Surjection
      <4> HIDE DEF f, I
      <4> QED
        BY <2>4, <4>1, FS_Surjection
    <3>2. I \in SUBSET Int /\ I # {}
      BY <2>6
    <3>3. \E x \in I : \A y \in I : y <= x
      <4> HIDE DEF I
      <4> QED
        BY <3>1, <3>2, FiniteMax
    <3>4. PICK m \in Q : \A y \in Q : r[y] <= r[m]
      BY <3>3
    <3>5. PICK P \in SUBSET R : P = Q \ {m}
      OBVIOUS
    <3>6. IsFiniteSet(P) /\ Cardinality(P) = n - 1
      BY <2>3, <2>4, <3>4, <3>5, FS_RemoveElement
    <3>7. Cardinality(P) \in Nat
      BY <3>6, FS_CardinalityType
    <3>8. PICK k \in Nat : k = Cardinality(P) /\ n = k + 1
      BY <2>4, <3>6, <3>7
    <3>9. ~Bad(P)
      <4>1. k \notin T
        BY <2>1, <2>2, <3>8
      <4> QED
        BY <3>8, <4>1 DEF T
    <3>10. PICK s \in [1 .. k -> P] : Ascending(r, s)
      BY <3>8, <3>9
    <3>11. PICK t : t = [i \in 1 .. n |-> IF i = n THEN m ELSE s[i]]
      OBVIOUS
    <3>12. \A i \in 1 .. n : IF i = n THEN t[i] = m ELSE i \in 1 .. k /\ t[i] = s[i] /\ s[i] \in P
      BY <3>8, <3>11
    <3>13. t \in [1 .. n -> Q]
      <4>1. \A i \in 1 .. n : t[i] \in Q
        BY <3>5, <3>12
      <4> QED
        BY <3>11, <4>1
    <3>14. ASSUME NEW i \in 1 .. n, NEW j \in 1 .. n, i < j PROVE r[t[i]] < r[t[j]]
      <4>1. i \in 1 .. k /\ i # n
        BY <3>8, <3>14
      <4>2. t[i] = s[i] /\ s[i] \in P
        BY <3>12, <4>1
      <4>3. CASE j = n
        <5>1. t[j] = m
          BY <3>12, <4>3
        <5>2. s[i] \in Q /\ s[i] # m
          BY <3>5, <4>2
        <5>3. r[s[i]] <= r[m] /\ r[s[i]] # r[m] /\ r[s[i]] \in Int /\ r[m] \in Int
          BY <3>4, <5>2
        <5> QED
          BY <4>2, <5>1, <5>3
      <4>4. CASE j # n
        <5>1. j \in 1 .. k /\ t[j] = s[j]
          BY <3>8, <3>12, <4>4
        <5> QED
          BY <3>10, <3>14, <4>1, <4>2, <5>1 DEF Ascending
      <4> QED
        BY <4>3, <4>4
    <3>15. Ascending(r, t)
      BY <3>13, <3>14 DEF Ascending
    <3> QED
      BY <2>3, <3>13, <3>15
  <2> QED
    BY <2>5, <2>6
<1>2. Cardinality(R) \in Nat
  BY FS_CardinalityType
<1>3. ~Bad(R)
  BY <1>1, <1>2
<1> QED
  BY <1>3

(* Keys and positions of an item, in digits.                               *)
LEMMA SortKeys ==
  ASSUME NEW m \in Items
  PROVE  /\ m.model = "user" =>
              /\ Store!PK(m) = <<"USER#", m.id>> /\ Store!SK(m) = 40 + m.id
              /\ Store!GSI1(m) = <<<<"PROVIDER#", 0>>, 10 + m.attr>>
         /\ m.model = "document" =>
              /\ Store!PK(m) = <<"DOC#", m.id>> /\ Store!SK(m) = 30 + m.id
              /\ Store!GSI1(m) = <<<<"STATUS#", m.attr>>, 30 + m.id>>
         /\ m.model = "chunk" =>
              Store!PK(m) = <<"DOC#", m.attr>> /\ Store!SK(m) = 20 + m.id
<1>1. m.id \in 0 .. 9 /\ m.attr \in 0 .. 9
  BY ItemsAre
<1>2. CASE m.model = "user"
  BY <1>1, <1>2
  DEF Store!PK, Store!SK, Store!GSI1, Store!USER, Store!DOC, Store!CHUNK, Store!AUTHENTICATION_ID
<1>3. CASE m.model = "document"
  BY <1>1, <1>3
  DEF Store!PK, Store!SK, Store!GSI1, Store!USER, Store!DOC, Store!CHUNK, Store!AUTHENTICATION_ID
<1>4. CASE m.model = "chunk"
  BY <1>1, <1>4
  DEF Store!PK, Store!SK, Store!GSI1, Store!USER, Store!DOC, Store!CHUNK, Store!AUTHENTICATION_ID
<1> QED
  BY <1>2, <1>3, <1>4

LEMMA SortKeyRange ==
  ASSUME NEW m \in Items PROVE Store!SK(m) \in 20 .. 49 /\ m.id \in 0 .. 9
<1>1. m.id \in 0 .. 9 /\ m.model \in {"user", "document", "chunk"}
  BY ItemsAre
<1> QED
  BY <1>1, SortKeys

LEMMA KeysAreTuples ==
  ASSUME NEW m \in Items
  PROVE  Store!Key(m)[1] = Store!PK(m) /\ Store!Key(m)[2] = Store!SK(m)
BY DEF Store!Key

LEMMA Indexable ==
  ASSUME NEW m \in Items, Store!Indexed(m) PROVE m.model \in {"user", "document"}
BY ItemsAre DEF Store!Indexed

LEMMA RowsAre ==
  ASSUME NEW store \in Rows, Keyed(store), NEW q, NEW k \in Store!Keys
  PROVE  /\ Store!Row(q, store, k) \in Nat
         /\ Store!Row(q, store, k) # 0 =>
              /\ store[k] \in Items /\ Store!Key(store[k]) = k
              /\ ~q.index => /\ Store!PK(store[k]) = q.pk
                             /\ Store!Row(q, store, k) = 10 * Store!SK(store[k]) + store[k].id
              /\ q.index =>
                   /\ store[k].model \in {"user", "document"} /\ Store!GSI1(store[k])[1] = q.pk
                   /\ Store!Row(q, store, k) = 10 * Store!GSI1(store[k])[2] + store[k].id
<1>1. PICK m : m = store[k]
  OBVIOUS
<1>2. m \in Items \cup {Absent}
  BY <1>1 DEF Rows
<1>3. CASE m = Absent
  BY <1>1, <1>3 DEF Store!Row, Store!RowOf
<1>4. CASE m # Absent
  <2>1. m \in Items /\ Store!Key(m) = k
    BY <1>1, <1>2, <1>4 DEF Keyed
  <2>2. m.id \in 0 .. 9 /\ m.attr \in 0 .. 9
    BY <2>1, ItemsAre
  <2>3. CASE ~q.index
    <3>1. Store!Row(q, store, k) = IF Store!PK(m) = q.pk THEN 10 * Store!SK(m) + m.id ELSE 0
      BY <1>1, <1>4, <2>1, <2>3, KeysAreTuples DEF Store!Row, Store!RowOf
    <3>2. Store!SK(m) \in 20 .. 49
      BY <2>1, SortKeyRange
    <3> QED
      BY <1>1, <2>1, <2>2, <2>3, <3>1, <3>2
  <2>4. CASE q.index /\ ~Store!Indexed(m)
    BY <1>1, <2>4 DEF Store!Row, Store!RowOf
  <2>5. CASE q.index /\ Store!Indexed(m)
    <3>1. Store!Row(q, store, k) =
            IF Store!GSI1(m)[1] = q.pk THEN 10 * Store!GSI1(m)[2] + m.id ELSE 0
      BY <1>1, <1>4, <2>5 DEF Store!Row, Store!RowOf
    <3>2. m.model \in {"user", "document"}
      BY <2>1, <2>5, Indexable
    <3>3. Store!GSI1(m)[2] \in 10 .. 39
      BY <2>1, <2>2, <3>2, SortKeys
    <3> QED
      BY <1>1, <2>1, <2>2, <2>5, <3>1, <3>2, <3>3
  <2> QED
    BY <2>3, <2>4, <2>5
<1> QED
  BY <1>3, <1>4

LEMMA LastDigit ==
  ASSUME NEW x \in Nat, NEW y \in Nat, NEW a \in 0 .. 9, NEW b \in 0 .. 9,
         10 * x + a = 10 * y + b
  PROVE  x = y /\ a = b
OBVIOUS

(* No two rows of a query are at one position.                             *)
LEMMA RowsDiffer ==
  ASSUME NEW store \in Rows, Keyed(store), NEW q,
         NEW j \in Store!Keys, NEW k \in Store!Keys,
         Store!Row(q, store, j) = Store!Row(q, store, k), Store!Row(q, store, k) # 0
  PROVE  j = k
<1>1. PICK a \in Items, b \in Items : a = store[j] /\ b = store[k]
  BY RowsAre
<1>2. Store!Key(a) = j /\ Store!Key(b) = k
  BY <1>1, RowsAre
<1>3. a.id \in 0 .. 9 /\ b.id \in 0 .. 9 /\ a.attr \in 0 .. 9 /\ b.attr \in 0 .. 9
  BY ItemsAre
<1>4. CASE ~q.index
  <2>1. Store!PK(a) = q.pk /\ Store!PK(b) = q.pk
    BY <1>1, <1>4, RowsAre
  <2>2. 10 * Store!SK(a) + a.id = 10 * Store!SK(b) + b.id
    <3>1. Store!Row(q, store, j) = 10 * Store!SK(a) + a.id
      BY <1>1, <1>4, RowsAre
    <3>2. Store!Row(q, store, k) = 10 * Store!SK(b) + b.id
      BY <1>1, <1>4, RowsAre
    <3> QED
      BY <3>1, <3>2
  <2>3. Store!SK(a) \in 20 .. 49 /\ Store!SK(b) \in 20 .. 49
    BY SortKeyRange
  <2>4. Store!SK(a) = Store!SK(b)
    <3>1. PICK x \in Nat, y \in Nat : x = Store!SK(a) /\ y = Store!SK(b)
      BY <2>3
    <3>2. 10 * x + a.id = 10 * y + b.id
      BY <2>2, <3>1
    <3> QED
      BY <1>3, <3>1, <3>2, LastDigit
  <2> QED
    BY <1>2, <2>1, <2>4 DEF Store!Key
<1>5. CASE q.index
  <2>1. /\ Store!GSI1(a)[1] = q.pk /\ Store!GSI1(b)[1] = q.pk
        /\ a.model \in {"user", "document"} /\ b.model \in {"user", "document"}
    BY <1>1, <1>5, RowsAre
  <2>2. 10 * Store!GSI1(a)[2] + a.id = 10 * Store!GSI1(b)[2] + b.id
    <3>1. Store!Row(q, store, j) = 10 * Store!GSI1(a)[2] + a.id
      BY <1>1, <1>5, RowsAre
    <3>2. Store!Row(q, store, k) = 10 * Store!GSI1(b)[2] + b.id
      BY <1>1, <1>5, RowsAre
    <3> QED
      BY <3>1, <3>2
  <2>3. a.model = b.model
    <3>1. \A m \in Items : /\ m.model = "user" => Store!GSI1(m)[1][1] = "PROVIDER#"
                           /\ m.model = "document" => Store!GSI1(m)[1][1] = "STATUS#"
      BY SortKeys
    <3> QED
      BY <2>1, <3>1
  <2>4. a.id = b.id
    <3>1. Store!GSI1(a)[2] \in 10 .. 39 /\ Store!GSI1(b)[2] \in 10 .. 39
      BY <1>3, <2>1, SortKeys
    <3>2. PICK x \in Nat, y \in Nat : x = Store!GSI1(a)[2] /\ y = Store!GSI1(b)[2]
      BY <3>1
    <3>3. 10 * x + a.id = 10 * y + b.id
      BY <2>2, <3>2
    <3> QED
      BY <1>3, <3>3, LastDigit
  <2>5. Store!PK(a) = Store!PK(b) /\ Store!SK(a) = Store!SK(b)
    BY <2>1, <2>3, <2>4, SortKeys
  <2> QED
    BY <1>2, <2>5 DEF Store!Key
<1> QED
  BY <1>4, <1>5

LEMMA SameCardinality == ASSUME NEW S PROVE Store!Cardinality(S) = Cardinality(S)
BY DEF Store!Cardinality, Cardinality

LEMMA KeysFinite == IsFiniteSet(Store!Keys)
<1> DEFINE f == [m \in Items |-> Store!Key(m)]
<1>1. f \in Surjection(Items, Store!Keys)
  BY DEF Surjection, Store!Keys
<1>2. IsFiniteSet(Items)
  BY PartsAssumption DEF Store!ItemAssumption, Store!IsFiniteSet, IsFiniteSet
<1> HIDE DEF f
<1> QED
  BY <1>1, <1>2, FS_Surjection

(* The rows in order are each of the rows once.                            *)
OrderedRows(q, store, R, s) ==
  /\ s \in [1 .. Cardinality(R) -> R] /\ \A k \in R : \E i \in DOMAIN s : s[i] = k
  /\ \A i, j \in DOMAIN s :
       i < j => s[i] # s[j] /\ (Store!Row(q, store, s[i]) < Store!Row(q, store, s[j])) = q.forward

LEMMA RowsOrdered ==
  ASSUME NEW store \in Rows, Keyed(store), NEW q, q.forward \in BOOLEAN,
         NEW R \in SUBSET {k \in Store!Keys : Store!Row(q, store, k) # 0}
  PROVE  OrderedRows(q, store, R, Store!InOrder(q, store, R)) /\ Cardinality(R) \in Nat
<1> DEFINE n == Cardinality(R)
           r == [k \in R |-> IF q.forward THEN Store!Row(q, store, k)
                             ELSE 0 - Store!Row(q, store, k)]
           InTurn(s) == \A i, j \in DOMAIN s : i < j =>
             (Store!Row(q, store, s[i]) < Store!Row(q, store, s[j])) = q.forward
<1>1. IsFiniteSet(R) /\ n \in Nat
  BY KeysFinite, FS_Subset, FS_CardinalityType
<1>2. \A k \in R : Store!Row(q, store, k) \in Nat \ {0}
  BY RowsAre
<1>3. \A j, k \in R : Store!Row(q, store, j) = Store!Row(q, store, k) => j = k
  BY RowsDiffer
<1>4. r \in [R -> Int] /\ \A j, k \in R : r[j] = r[k] => j = k
  <2>1. \A k \in R : r[k] \in Int
    BY <1>2
  <2>2. ASSUME NEW j \in R, NEW k \in R, r[j] = r[k]
        PROVE  j = k
    BY <1>2, <1>3, <2>2
  <2> QED
    BY <2>1, <2>2
<1>5. PICK s \in [1 .. n -> R] : Ascending(r, s)
  <2> HIDE DEF r
  <2> QED
    BY <1>1, <1>4, Sortable
<1>6. \A i, j \in 1 .. n : i < j =>
        s[i] # s[j] /\ (Store!Row(q, store, s[i]) < Store!Row(q, store, s[j])) = q.forward
  <2>1. TAKE i, j \in 1 .. n
  <2>2. HAVE i < j
  <2>3. r[s[i]] < r[s[j]]
    BY <1>5, <2>2 DEF Ascending
  <2>4. s[i] \in R /\ s[j] \in R
    OBVIOUS
  <2> QED
    BY <1>2, <2>3, <2>4
<1>7. s \in Store!SetToSeqs(R) /\ InTurn(s)
  <2>1. \A i, j \in 1 .. n : i # j => s[i] # s[j]
    BY <1>1, <1>6
  <2>2. Store!Cardinality(R) = n
    BY SameCardinality
  <2>3. s \in Store!SetToSeqs(R)
    BY <2>1, <2>2 DEF Store!SetToSeqs
  <2> QED
    BY <1>6, <2>3
<1>8. PICK t : t = Store!InOrder(q, store, R)
  OBVIOUS
<1>9. t \in Store!SetToSeqs(R) /\ InTurn(t)
  BY <1>7, <1>8 DEF Store!InOrder
<1>10. t \in [1 .. n -> R] /\ \A i, j \in 1 .. n : i # j => t[i] # t[j]
  <2>1. Store!Cardinality(R) = n
    BY SameCardinality
  <2> QED
    BY <1>9, <2>1 DEF Store!SetToSeqs
<1>11. \A k \in R : \E i \in DOMAIN t : t[i] = k
  <2>1. t \in Injection(1 .. n, R)
    BY <1>10 DEF Injection, IsInjective
  <2>2. Cardinality(1 .. n) = n
    BY <1>1, FS_Interval
  <2>3. t \in Surjection(1 .. n, R)
    BY <1>1, <2>1, <2>2, FS_Injection
  <2> QED
    BY <2>3 DEF Surjection
<1> QED
  BY <1>1, <1>8, <1>9, <1>10, <1>11 DEF OrderedRows

(* A page is the first of the rows that are beyond the cursor.             *)
RowsBeyond(q, view, cursor) ==
  {k \in Store!Matching(q, view) : Store!Beyond(q, cursor, Store!Row(q, view, k))}
PageIs(q, view, s, n, i, p) ==
  /\ IF n = 0 THEN i = 0 ELSE i \in 1 .. n
  /\ p.rows = SubSeq(s, 1, i)
  /\ p.next = IF i > 0 /\ (i = q.limit \/ i < n) THEN Store!Row(q, view, s[i]) ELSE 0

(* What a read finds under each key was written there, and is the table    *)
(* once everybody has caught up.                                           *)
LEMMA ViewsAre ==
  ASSUME ItemInv, NEW view \in Store!Views
  PROVE  /\ view \in Rows /\ Keyed(view)
         /\ \A k \in Store!Keys : view[k] \in iSeen[k]
         /\ Store!Behind = {} => view = iTable
<1> DEFINE B == Store!Behind
<1>1. B \subseteq Store!Keys /\ \A k \in Store!Keys : k \notin B => iSeen[k] = {iTable[k]}
  BY DEF Store!Behind
<1>2. PICK old \in {f \in [B -> UNION {iSeen[k] : k \in B}] : \A k \in B : f[k] \in iSeen[k]} :
        view = [k \in Store!Keys |-> IF k \in B THEN old[k] ELSE iTable[k]]
  BY Zenon DEF Store!Views
<1> HIDE DEF B
<1>3. \A k \in B : old[k] \in iSeen[k]
  OBVIOUS
<1>4. \A k \in Store!Keys : view[k] = IF k \in B THEN old[k] ELSE iTable[k]
  BY <1>2
<1>5. \A k \in Store!Keys : view[k] \in iSeen[k]
  BY <1>1, <1>3, <1>4
<1>6. \A k \in Store!Keys : view[k] \in Items \cup {Absent}
  BY <1>5 DEF ItemInv, Versions
<1>7. view \in Rows
  BY <1>2, <1>6 DEF Rows
<1>8. Keyed(view)
  BY <1>5 DEF Keyed, ItemInv, Versions
<1>9. ASSUME B = {} PROVE view = iTable
  <2>1. \A k \in Store!Keys : view[k] = iTable[k]
    BY <1>4, <1>9
  <2>2. iTable \in Rows
    BY DEF ItemInv
  <2> QED
    BY <1>7, <2>1, <2>2 DEF Rows
<1> QED
  BY <1>5, <1>7, <1>8, <1>9 DEF B

LEMMA RowsBeyondAre ==
  ASSUME NEW q, NEW view, NEW cursor
  PROVE  RowsBeyond(q, view, cursor) \in SUBSET {k \in Store!Keys : Store!Row(q, view, k) # 0}
BY DEF RowsBeyond, Store!Matching

LEMMA PagesAre ==
  ASSUME NEW view \in Rows, Keyed(view), NEW q, q.forward \in BOOLEAN, q.limit \in Nat,
         NEW cursor, NEW p \in Store!Page(q, view, cursor)
  PROVE  LET s == Store!InOrder(q, view, RowsBeyond(q, view, cursor))
         IN  \E i \in Nat : PageIs(q, view, s, Cardinality(RowsBeyond(q, view, cursor)), i, p)
<1> DEFINE s == Store!InOrder(q, view, RowsBeyond(q, view, cursor))
           n == Cardinality(RowsBeyond(q, view, cursor))
<1>1. OrderedRows(q, view, RowsBeyond(q, view, cursor), s) /\ n \in Nat
  BY RowsBeyondAre, RowsOrdered
<1>2. Len(s) = n
  BY <1>1 DEF OrderedRows
<1>3. Store!Page(q, view, cursor) =
        {[rows |-> SubSeq(s, 1, i),
          next |-> IF i > 0 /\ (i = q.limit \/ i < Len(s))
                   THEN Store!Row(q, view, s[i]) ELSE 0] :
           i \in IF Len(s) = 0 THEN {0}
                 ELSE 1 .. (IF q.limit > 0 /\ q.limit < Len(s) THEN q.limit ELSE Len(s))}
  BY DEF Store!Page, RowsBeyond
<1> HIDE DEF s
<1>4. PICK i \in IF Len(s) = 0 THEN {0}
                 ELSE 1 .. (IF q.limit > 0 /\ q.limit < Len(s) THEN q.limit ELSE Len(s)) :
        p = [rows |-> SubSeq(s, 1, i),
             next |-> IF i > 0 /\ (i = q.limit \/ i < Len(s))
                      THEN Store!Row(q, view, s[i]) ELSE 0]
  BY <1>3
<1>5. /\ IF n = 0 THEN i = 0 ELSE i \in 1 .. n
      /\ i \in Nat
  BY <1>1, <1>2
<1>6. PageIs(q, view, s, n, i, p)
  BY <1>2, <1>4, <1>5 DEF PageIs
<1> QED
  BY <1>5, <1>6 DEF s

LEMMA IdentityRow ==
  ASSUME NEW c \in Clients, NEW view, view[Store!Key(Store!UserOf(c))] = Store!UserOf(c)
  PROVE  Store!Key(Store!UserOf(c)) \in RowsBeyond(Store!IdentityQuery(Identity[c]), view, 0)
<1> DEFINE q == Store!IdentityQuery(Identity[c])
           m == Store!UserOf(c)
           k == Store!Key(m)
<1>1. /\ q.index /\ q.pk = <<"PROVIDER#", 0>> /\ q.op = "EQ" /\ q.arg = 10 + Identity[c]
  BY DEF Store!IdentityQuery, Store!AUTHENTICATION_ID
<1>2. /\ m \in Items /\ m.model = "user" /\ m.attr = Identity[c] /\ k \in Store!Keys
      /\ m # Absent /\ m.id \in 0 .. 9 /\ m.attr \in 0 .. 9
  BY UsersAre, ItemsAre
<1>3. Store!GSI1(m) = <<<<"PROVIDER#", 0>>, 10 + m.attr>>
  BY <1>2, SortKeys
<1>5. Store!Row(q, view, k) = 10 * (10 + m.attr) + m.id
  <2>1. Store!Indexed(m)
    BY <1>2 DEF Store!Indexed
  <2>2. Store!GSI1(m)[1] = q.pk /\ Store!GSI1(m)[2] = 10 + m.attr
    BY <1>1, <1>3
  <2>3. view[k] = m
    OBVIOUS
  <2> HIDE DEF q, m, k
  <2> QED
    BY <1>1, <1>2, <2>1, <2>2, <2>3 DEF Store!Row, Store!RowOf
<1>6. Store!Row(q, view, k) # 0 /\ Store!Row(q, view, k) \div 10 = 10 + Identity[c]
  BY <1>2, <1>5
<1>7. Store!Meets(q, Store!Row(q, view, k) \div 10)
  BY <1>1, <1>6 DEF Store!Meets
<1> HIDE DEF q, m, k
<1>8. k \in RowsBeyond(q, view, 0)
  BY <1>2, <1>6, <1>7 DEF RowsBeyond, Store!Matching, Store!Beyond
<1> QED
  BY <1>8 DEF q, m, k

(* A lookup that finds nobody when all have caught up: nobody is there.     *)
LEMMA NobodyFound ==
  ASSUME ItemInv, NEW c \in Clients, <<>> \in Store!GetByAuthID(Identity[c]),
         Store!Behind = {}
  PROVE  \A d \in Clients : Identity[d] = Identity[c] => ~Store!SignedUp(d)
<1> SUFFICES ASSUME NEW d \in Clients, Identity[d] = Identity[c], Store!SignedUp(d) PROVE FALSE
  OBVIOUS
<1> DEFINE q == Store!IdentityQuery(Identity[c])
           R == RowsBeyond(q, iTable, 0)
           s == Store!InOrder(q, iTable, R)
<1>1. iTable[Store!Key(Store!UserOf(d))] = Store!UserOf(d)
  BY DEF ItemInv, Store!SignedUp
<1>2. Store!Key(Store!UserOf(d)) \in Store!Keys
  BY UsersAre, ItemsAre
<1>3. Store!Key(Store!UserOf(d)) \in RowsBeyond(Store!IdentityQuery(Identity[d]), iTable, 0)
  BY <1>1, <1>2, IdentityRow
<1>4. R # {}
  BY <1>3
<1>5. q.forward \in BOOLEAN /\ q.limit \in Nat
  BY DEF Store!IdentityQuery
<1>6. PICK p \in Store!Page(q, iTable, 0) : p.rows = <<>>
  <2>1. PICK view \in Store!Views : <<>> \in {p.rows : p \in Store!Page(q, view, 0)}
    BY DEF Store!GetByAuthID
  <2>2. view = iTable
    BY <2>1, ViewsAre
  <2> QED
    BY <2>1, <2>2
<1>7. OrderedRows(q, iTable, R, s) /\ Cardinality(R) \in Nat
  BY <1>5, RowsBeyondAre, RowsOrdered DEF ItemInv
<1>8. PICK i \in Nat : PageIs(q, iTable, s, Cardinality(R), i, p)
  <2>1. iTable \in Rows /\ Keyed(iTable)
    BY DEF ItemInv
  <2> HIDE DEF q
  <2> QED
    BY <1>5, <2>1, PagesAre
<1>9. IsFiniteSet(R)
  <2>1. R \in SUBSET Store!Keys
    BY DEF RowsBeyond, Store!Matching
  <2> QED
    BY <2>1, KeysFinite, FS_Subset
<1> HIDE DEF q, R, s
<1>10. PICK n \in Nat : n = Cardinality(R) /\ n # 0
  BY <1>4, <1>7, <1>9, FS_EmptySet
<1>11. i \in 1 .. n /\ SubSeq(s, 1, i) = <<>>
  BY <1>6, <1>8, <1>10 DEF PageIs
<1>12. s \in Seq(R) /\ Len(s) = n
  BY <1>7, <1>10 DEF OrderedRows
<1> QED
  BY <1>11, <1>12

Overwrites(store, k, m, t) == t = [store EXCEPT ![k] = m]

LEMMA WriteKeeps ==
  ASSUME NEW store \in Rows, Keyed(store), NEW k \in Store!Keys,
         NEW m \in Items \cup {Absent}, m # Absent => Store!Key(m) = k,
         NEW t, Overwrites(store, k, m, t)
  PROVE  /\ t \in Rows /\ Keyed(t) /\ t[k] = m
         /\ \A j \in Store!Keys : j # k => t[j] = store[j]
BY DEF Rows, Keyed, Overwrites

LEMMA WriteIsSeen ==
  ASSUME NEW seen, NEW store, Versions(seen, store), NEW k \in Store!Keys,
         NEW m \in Items \cup {Absent}, m # Absent => Store!Key(m) = k,
         NEW t, t[k] = m, \A j \in Store!Keys : j # k => t[j] = store[j],
         NEW u, u = [seen EXCEPT ![k] = @ \cup {m}]
  PROVE  Versions(u, t)
<1>1. PICK V : V = seen[k] \cup {m}
  OBVIOUS
<1>2. u = [seen EXCEPT ![k] = V]
  BY <1>1
<1>3. V \in SUBSET (Items \cup {Absent}) /\ \A v \in V : v # Absent => Store!Key(v) = k
  BY <1>1 DEF Versions
<1>4. /\ u \in [Store!Keys -> SUBSET (Items \cup {Absent})] /\ u[k] = V
      /\ \A j \in Store!Keys : j # k => u[j] = seen[j]
  BY <1>2, <1>3 DEF Versions
<1> QED
  BY <1>1, <1>3, <1>4 DEF Versions

(* What other programs write is no user of a sign-up.                      *)
LEMMA OthersKeep ==
  ASSUME ItemInv, NEW w \in Writers, NEW m \in {w, Absent},
         iTable' = [iTable EXCEPT ![Store!Key(w)] = m],
         iSeen' = [iSeen EXCEPT ![Store!Key(w)] = @ \cup {m}],
         UNCHANGED <<iEntries, iSignup>>, iWrites' \in 0 .. MaxWrites
  PROVE  ItemInv'
<1>1. w \in Items /\ Store!Key(w) \in Store!Keys
  BY ServicesAssumption, ItemsAre
<1>2. /\ iTable' \in Rows /\ Keyed(iTable') /\ Versions(iSeen', iTable')
      /\ \A j \in Store!Keys : j # Store!Key(w) => iTable'[j] = iTable[j]
  <2>1. iTable \in Rows /\ Keyed(iTable) /\ m \in Items \cup {Absent}
        /\ (m # Absent => Store!Key(m) = Store!Key(w))
    BY <1>1 DEF ItemInv
  <2>2. Overwrites(iTable, Store!Key(w), m, iTable')
    BY DEF Overwrites
  <2>3. /\ iTable' \in Rows /\ Keyed(iTable') /\ iTable'[Store!Key(w)] = m
        /\ \A j \in Store!Keys : j # Store!Key(w) => iTable'[j] = iTable[j]
    <3>1. PICK k \in Store!Keys : k = Store!Key(w)
      BY <1>1
    <3>2. m # Absent => Store!Key(m) = k
      BY <2>1, <3>1
    <3>3. PICK old \in Rows : old = iTable /\ Keyed(old)
      BY <2>1
    <3>4. PICK t : t = iTable'
      OBVIOUS
    <3>5. Overwrites(old, k, m, t) /\ m \in Items \cup {Absent}
      BY <2>1, <2>2, <3>1, <3>3, <3>4
    <3>6. /\ t \in Rows /\ Keyed(t) /\ t[k] = m
          /\ \A j \in Store!Keys : j # k => t[j] = old[j]
      BY <3>2, <3>3, <3>5, WriteKeeps
    <3> QED
      BY <3>1, <3>3, <3>4, <3>6
  <2>4. Versions(iSeen, iTable)
    BY DEF ItemInv
  <2>5. Versions(iSeen', iTable')
    BY <1>1, <2>1, <2>3, <2>4, WriteIsSeen
  <2> QED
    BY <2>3, <2>5
<1>3. \A c \in Clients : iTable'[Store!Key(Store!UserOf(c))] = iTable[Store!Key(Store!UserOf(c))]
  <2>1. TAKE c \in Clients
  <2>2. Store!Key(Store!UserOf(c)) \in Store!Keys /\ Store!Key(w) # Store!Key(Store!UserOf(c))
    BY UsersAre, ItemsAre
  <2> QED
    BY <1>2, <2>2
<1>4. \A c \in Clients : Store!SignedUp(c)' <=> Store!SignedUp(c)
  BY <1>3 DEF Store!SignedUp
<1>5. \A c \in Clients : Live(c)' <=> Live(c)
  BY <1>4 DEF Live
<1> QED
  BY <1>2, <1>3, <1>4, <1>5 DEF ItemInv

LEMMA CatchUpKeeps == ASSUME ItemInv, NEW k \in Store!Keys, Store!CatchUp(k) PROVE ItemInv'
<1>1. iSeen' = [iSeen EXCEPT ![k] = {iTable[k]}] /\ UNCHANGED <<iTable, iEntries, iSignup, iWrites>>
  BY DEF Store!CatchUp
<1>2. Versions(iSeen', iTable)
  <2>1. iTable[k] \in Items \cup {Absent} /\ (iTable[k] # Absent => Store!Key(iTable[k]) = k)
    BY DEF ItemInv, Rows, Keyed
  <2>2. /\ iSeen' \in [Store!Keys -> SUBSET (Items \cup {Absent})] /\ iSeen'[k] = {iTable[k]}
        /\ \A j \in Store!Keys : j # k => iSeen'[j] = iSeen[j]
    BY <1>1, <2>1 DEF ItemInv, Versions
  <2> QED
    BY <2>1, <2>2 DEF ItemInv, Versions
<1>3. Versions(iSeen, iTable)'
  BY <1>1, <1>2
<1>4. \A c \in Clients : (Store!SignedUp(c)' <=> Store!SignedUp(c)) /\ (Live(c)' <=> Live(c))
  BY <1>1 DEF Store!SignedUp, Live
<1> QED
  BY <1>1, <1>3, <1>4 DEF ItemInv

LEMMA LookUpKeeps == ASSUME ItemInv, NEW c \in Clients, Store!LookUp(c) PROVE ItemInv'
<1>1. PICK rows \in Store!GetByAuthID(Identity[c]) : iSignup' = [iSignup EXCEPT ![c] =
        [phase |-> IF rows = <<>> THEN "create" ELSE "done",
         blind |-> \/ Store!Behind # {}
                   \/ \E d \in Clients : iSignup[d].phase = "create"]]
  BY DEF Store!LookUp
<1>2. iSignup[c].phase = "idle" /\ UNCHANGED <<iTable, iSeen, iEntries, iWrites>>
  BY DEF Store!LookUp
<1>3. /\ iSignup' \in [Clients -> SignupType]
      /\ \A d \in Clients : d # c => iSignup'[d] = iSignup[d]
      /\ iSignup'[c].phase = IF rows = <<>> THEN "create" ELSE "done"
      /\ iSignup'[c].blind <=> \/ Store!Behind # {}
                               \/ \E d \in Clients : iSignup[d].phase = "create"
  BY <1>1 DEF ItemInv, SignupType
<1>4. \A d \in Clients : Store!SignedUp(d)' <=> Store!SignedUp(d)
  BY <1>2 DEF Store!SignedUp
<1>5. ~Store!SignedUp(c)
  BY <1>2 DEF ItemInv
<1>6. ASSUME NEW d \in Clients, d # c, Identity[d] = Identity[c], Live(c)', Live(d)'
      PROVE  FALSE
  <2>1. Live(d)
    BY <1>2, <1>3, <1>4, <1>6 DEF Live
  <2>2. rows = <<>> /\ Store!Behind = {}
    BY <1>3, <1>4, <1>5, <1>6 DEF Live
  <2>3. iSignup[d].phase # "create"
    BY <1>3, <1>6 DEF Live
  <2>4. ~Store!SignedUp(d)
    BY <1>6, <2>2, NobodyFound
  <2> QED
    BY <2>1, <2>3, <2>4 DEF Live
<1>7. \A d \in Clients : d # c => (Live(d)' <=> Live(d))
  BY <1>3, <1>4 DEF Live
<1>8. \A d, e \in Clients : d # e /\ Identity[d] = Identity[e] => ~(Live(d)' /\ Live(e)')
  BY <1>6, <1>7 DEF ItemInv
<1>9. \A d \in Clients : Store!SignedUp(d)' => iSignup'[d].phase = "done"
  BY <1>3, <1>4, <1>5 DEF ItemInv
<1> QED
  BY <1>2, <1>3, <1>8, <1>9 DEF ItemInv

LEMMA CreateKeeps == ASSUME ItemInv, NEW c \in Clients, Store!CreateUser(c) PROVE ItemInv'
<1> DEFINE k == Store!Key(Store!UserOf(c))
<1>1. /\ iSignup[c].phase = "create" /\ iSignup' = [iSignup EXCEPT ![c].phase = "done"]
      /\ iTable' = [iTable EXCEPT ![k] = Store!UserOf(c)]
      /\ iSeen' = [iSeen EXCEPT ![k] = @ \cup {Store!UserOf(c)}]
      /\ UNCHANGED <<iEntries, iWrites>>
  BY DEF Store!CreateUser, Store!Write
<1>2. Store!UserOf(c) \in Items /\ k \in Store!Keys
  BY UsersAre, ItemsAre
<1>3. /\ iTable' \in Rows /\ Keyed(iTable') /\ iTable'[k] = Store!UserOf(c)
      /\ \A j \in Store!Keys : j # k => iTable'[j] = iTable[j]
  <2>1. iTable \in Rows /\ Keyed(iTable)
    BY DEF ItemInv
  <2>2. Overwrites(iTable, k, Store!UserOf(c), iTable')
    BY <1>1 DEF Overwrites
  <2> QED
    BY <1>2, <2>1, <2>2, WriteKeeps
<1>4. ASSUME NEW d \in Clients, d # c
      PROVE  /\ iTable'[Store!Key(Store!UserOf(d))] = iTable[Store!Key(Store!UserOf(d))]
             /\ iSignup'[d] = iSignup[d]
  <2>1. Store!Key(Store!UserOf(d)) \in Store!Keys /\ Store!Key(Store!UserOf(d)) # k
    BY <1>4, UsersAre, UsersDiffer, ItemsAre
  <2> QED
    BY <1>1, <1>3, <1>4, <2>1 DEF ItemInv
<1>5. PICK x \in SignupType : x = iSignup[c]
  BY DEF ItemInv
<1>6. /\ iSignup' \in [Clients -> SignupType]
      /\ iSignup'[c].phase = "done" /\ iSignup'[c].blind = iSignup[c].blind
  <2>1. [x EXCEPT !.phase = "done"] = [phase |-> "done", blind |-> x.blind]
    BY DEF SignupType
  <2>2. iSignup' = [iSignup EXCEPT ![c] = [phase |-> "done", blind |-> x.blind]]
    BY <1>1, <1>5, <2>1 DEF ItemInv
  <2>3. [phase |-> "done", blind |-> x.blind] \in SignupType
    BY DEF SignupType
  <2> QED
    BY <1>5, <2>2, <2>3 DEF ItemInv
<1>7. \A d \in Clients : Live(d)' => Live(d)
  <2>1. \A d \in Clients : d # c => (Live(d)' <=> Live(d))
    BY <1>4 DEF Live, Store!SignedUp
  <2>2. Live(c)' => Live(c)
    BY <1>1, <1>6 DEF Live
  <2> QED
    BY <2>1, <2>2
<1>8. \A d \in Clients : /\ iTable'[Store!Key(Store!UserOf(d))] \in {Absent, Store!UserOf(d)}
                         /\ Store!SignedUp(d)' => iSignup'[d].phase = "done"
  BY <1>3, <1>4, <1>6 DEF ItemInv, Store!SignedUp
<1>9. Versions(iSeen', iTable')
  <2>1. Versions(iSeen, iTable)
    BY DEF ItemInv
  <2>2. Store!UserOf(c) \in Items \cup {Absent}
    BY <1>2
  <2> QED
    BY <1>1, <1>2, <1>3, <2>1, <2>2, WriteIsSeen
<1>10. Versions(iSeen, iTable)'
  BY <1>9
<1> QED
  BY <1>1, <1>3, <1>6, <1>7, <1>8, <1>10 DEF ItemInv

LEMMA SignUpFailsKeeps == ASSUME ItemInv, NEW c \in Clients, Store!SignUpFails(c) PROVE ItemInv'
<1>1. /\ iSignup[c].phase = "create" /\ iSignup' = [iSignup EXCEPT ![c].phase = "done"]
      /\ UNCHANGED <<iTable, iSeen, iEntries, iWrites>>
  BY DEF Store!SignUpFails
<1>2. PICK x \in SignupType : x = iSignup[c]
  BY DEF ItemInv
<1>3. /\ iSignup' \in [Clients -> SignupType]
      /\ iSignup'[c].phase = "done" /\ iSignup'[c].blind = iSignup[c].blind
      /\ \A d \in Clients : d # c => iSignup'[d] = iSignup[d]
  <2>1. [x EXCEPT !.phase = "done"] = [phase |-> "done", blind |-> x.blind]
    BY DEF SignupType
  <2>2. iSignup' = [iSignup EXCEPT ![c] = [phase |-> "done", blind |-> x.blind]]
    BY <1>1, <1>2, <2>1 DEF ItemInv
  <2>3. [phase |-> "done", blind |-> x.blind] \in SignupType
    BY DEF SignupType
  <2> QED
    BY <1>2, <2>2, <2>3 DEF ItemInv
<1>4. \A d \in Clients : Store!SignedUp(d)' <=> Store!SignedUp(d)
  BY <1>1 DEF Store!SignedUp
<1>5. \A d \in Clients : Live(d)' => Live(d)
  BY <1>1, <1>3, <1>4 DEF Live
<1>6. \A d \in Clients : Store!SignedUp(d)' => iSignup'[d].phase = "done"
  BY <1>3, <1>4 DEF ItemInv
<1> QED
  BY <1>1, <1>3, <1>5, <1>6 DEF ItemInv

LEMMA ItemNext == ASSUME ItemInv, Store!Next \/ UNCHANGED itemVars PROVE ItemInv'
<1>1. ASSUME UNCHANGED <<iTable, iSeen, iEntries, iSignup, iWrites>> PROVE ItemInv'
  <2>1. \A c \in Clients : (Store!SignedUp(c)' <=> Store!SignedUp(c)) /\ (Live(c)' <=> Live(c))
    BY <1>1 DEF Store!SignedUp, Live
  <2> QED
    BY <1>1, <2>1 DEF ItemInv
<1>2. ASSUME NEW m \in Writers, Store!Upsert(m) PROVE ItemInv'
  <2>1. /\ iTable' = [iTable EXCEPT ![Store!Key(m)] = m] /\ iWrites < MaxWrites
        /\ iSeen' = [iSeen EXCEPT ![Store!Key(m)] = @ \cup {m}]
        /\ iWrites' = iWrites + 1 /\ UNCHANGED <<iEntries, iSignup>>
    BY <1>2 DEF Store!Upsert, Store!Write
  <2>2. iWrites' \in 0 .. MaxWrites
    BY <2>1, ServicesAssumption DEF ItemInv
  <2> QED
    BY <2>1, <2>2, OthersKeep
<1>3. ASSUME NEW k \in {Store!Key(m) : m \in Writers}, Store!Delete(k) PROVE ItemInv'
  <2>1. PICK m \in Writers : k = Store!Key(m)
    OBVIOUS
  <2>2. /\ iTable' = [iTable EXCEPT ![Store!Key(m)] = Absent] /\ iWrites < MaxWrites
        /\ iSeen' = [iSeen EXCEPT ![Store!Key(m)] = @ \cup {Absent}]
        /\ iWrites' = iWrites + 1 /\ UNCHANGED <<iEntries, iSignup>>
    BY <1>3, <2>1 DEF Store!Delete, Store!Write
  <2>3. iWrites' \in 0 .. MaxWrites
    BY <2>2, ServicesAssumption DEF ItemInv
  <2> QED
    BY <2>2, <2>3, OthersKeep
<1>4. CASE Store!StartQuery \/ Store!NextPage \/ Store!QueryFails \/ UNCHANGED itemVars
  BY <1>1, <1>4 DEF Store!StartQuery, Store!NextPage, Store!QueryFails, itemVars
<1> QED
  BY <1>2, <1>3, <1>4, CatchUpKeeps, LookUpKeeps, CreateKeeps, SignUpFailsKeeps DEF Store!Next

THEOREM ItemInvariant == Spec => []ItemInv
<1>1. Init => ItemInv
  BY ItemInit DEF Init
<1>2. ItemInv /\ [Next]_vars => ItemInv'
  BY OneInFocus, ItemNext
<1> QED
  BY <1>1, <1>2, PTL DEF Spec

(* Theorem: handlers/user and dynamo.go let a second user of one identity  *)
(* come to be only when a sign-up looked before a write had reached all of *)
(* the index, or while another was under way, whatever else is written.    *)
THEOREM ServicesSecondUser == Spec => []SecondUserOnlyByRace
<1>1. ItemInv => SecondUserOnlyByRace
  BY DEF ItemInv, Live, SecondUserOnlyByRace, Store!SecondUserOnlyByRace
<1> QED
  BY <1>1, ItemInvariant, PTL

(* The registry finds the model of an item in whatever order it was made.  *)
LEMMA EachRegistered ==
  ASSUME NEW e \in Store!SetToSeqs(Store!Registered)
  PROVE  /\ DOMAIN e \in SUBSET Nat /\ \A i \in DOMAIN e : e[i] \in Store!Registered
         /\ \A x \in Store!Registered : \E i \in DOMAIN e : e[i] = x
<1> DEFINE R == Store!Registered
           n == Cardinality(R)
<1>1. IsFiniteSet(R)
  <2>1. PICK a, b, c : R = {a, b, c}
    BY DEF Store!Registered
  <2>2. IsFiniteSet({a}) /\ IsFiniteSet({a} \cup {b}) /\ IsFiniteSet(({a} \cup {b}) \cup {c})
    BY FS_Singleton, FS_AddElement
  <2>3. R = ({a} \cup {b}) \cup {c}
    BY <2>1
  <2> QED
    BY <2>2, <2>3
<1>2. n \in Nat
  BY <1>1, FS_CardinalityType
<1>3. Store!Cardinality(R) = n
  BY SameCardinality
<1> HIDE DEF R
<1>4. e \in [1 .. n -> R] /\ \A i, j \in 1 .. n : i # j => e[i] # e[j]
  BY <1>3 DEF Store!SetToSeqs, R
<1>5. e \in Injection(1 .. n, R)
  BY <1>4 DEF Injection, IsInjective
<1>6. Cardinality(1 .. n) = n
  BY <1>2, FS_Interval
<1>7. e \in Surjection(1 .. n, R)
  BY <1>1, <1>5, <1>6, FS_Injection
<1> QED
  BY <1>4, <1>7 DEF Surjection, R

LEMMA LookupIs ==
  ASSUME ItemInv, NEW m \in Items
  PROVE  Store!Lookup(Store!PK(m), Store!SK(m)) = m.model
<1> DEFINE fits == {i \in DOMAIN iEntries : /\ iEntries[i].pk = Store!PK(m)[1]
                                            /\ iEntries[i].sk = Store!SK(m) \div 10}
<1>1. /\ m.model \in {"user", "document", "chunk"} /\ m.id \in 0 .. 9
  BY ItemsAre
<1>2. /\ Store!PK(m)[1] = IF m.model = "user" THEN "USER#" ELSE "DOC#"
      /\ Store!SK(m) \div 10 =
           IF m.model = "user" THEN 4 ELSE IF m.model = "document" THEN 3 ELSE 2
  <2>1. CASE m.model = "user"
    BY <1>1, <2>1, SortKeys
  <2>2. CASE m.model = "document"
    BY <1>1, <2>2, SortKeys
  <2>3. CASE m.model = "chunk"
    BY <1>1, <2>3, SortKeys
  <2> QED
    BY <1>1, <2>1, <2>2, <2>3
<1>3. Store!Registered = {[pk |-> "USER#", sk |-> 4, model |-> "user"],
                          [pk |-> "DOC#", sk |-> 3, model |-> "document"],
                          [pk |-> "DOC#", sk |-> 2, model |-> "chunk"]}
  BY DEF Store!Registered, Store!USER, Store!DOC, Store!CHUNK
<1>4. /\ DOMAIN iEntries \in SUBSET Nat
      /\ \A i \in DOMAIN iEntries : iEntries[i] \in Store!Registered
      /\ \A x \in Store!Registered : \E i \in DOMAIN iEntries : iEntries[i] = x
  BY EachRegistered DEF ItemInv
<1>5. \A x \in Store!Registered :
        (x.pk = Store!PK(m)[1] /\ x.sk = Store!SK(m) \div 10) <=> x.model = m.model
  BY <1>1, <1>2, <1>3
<1>6. \E x \in Store!Registered : x.model = m.model
  BY <1>1, <1>3
<1>7. fits # {} /\ fits \in SUBSET Nat /\ \A i \in fits : iEntries[i].model = m.model
  BY <1>4, <1>5, <1>6
<1>8. Store!Lookup(Store!PK(m), Store!SK(m)) = iEntries[Store!Min(fits)].model
  BY <1>7 DEF Store!Lookup
<1> HIDE DEF fits
<1>9. Store!Min(fits) \in fits
  BY <1>7, Least DEF Store!Min
<1> QED
  BY <1>7, <1>8, <1>9

(* Theorem: dynamo.go and registry.go decode each item as the model that   *)
(* wrote it.                                                               *)
LEMMA DecodesAsWritten == ItemInv => Store!DecodedAsWritten
<1> SUFFICES ASSUME ItemInv, NEW k \in Store!Keys, NEW m \in iSeen[k] \ {Absent}
             PROVE  Store!Get(k, m) = m.model
  BY DEF Store!DecodedAsWritten
<1>1. m \in Items /\ Store!Key(m) = k
  BY DEF ItemInv, Versions
<1>2. k[1] = Store!PK(m) /\ k[2] = Store!SK(m)
  BY <1>1, KeysAreTuples
<1>3. Store!Lookup(k[1], k[2]) = m.model
  BY <1>1, <1>2, LookupIs
<1> QED
  BY <1>3 DEF Store!Get, Store!Decode

(* Following the pages.  A row is reached once the cursor is not before it;*)
(* rows that last are read once, when they are reached, in their order.    *)
After(fwd, c, p) == c = 0 \/ (IF fwd THEN p > c ELSE p < c)
Reached(f, fwd, c, fin, k) == fin \/ ~After(fwd, c, f[k])
Once(got, k) ==
  \E x \in DOMAIN got : got[x] = k /\ \A y \in DOMAIN got : got[y] = k => y = x
InPlace(f, fwd, L, got) ==
  \A x, y \in DOMAIN got :
    got[x] \in L /\ got[y] \in L /\ f[got[x]] < f[got[y]] => (x < y) = fwd
Covered(f, fwd, c, fin, L, got) ==
  /\ \A k \in L : Reached(f, fwd, c, fin, k) => Once(got, k)
  /\ \A k \in L : ~Reached(f, fwd, c, fin, k) => \A x \in DOMAIN got : got[x] # k
  /\ InPlace(f, fwd, L, got)

(* The rows s beyond the cursor c, of which a page has the first i.        *)
PageOf(f, fwd, c, L, n, s, i) ==
  /\ IF n = 0 THEN i = 0 ELSE i \in 1 .. n
  /\ \A x, y \in 1 .. n : x < y => f[s[x]] # f[s[y]] /\ (f[s[x]] < f[s[y]]) = fwd
  /\ \A x \in 1 .. n : After(fwd, c, f[s[x]]) /\ f[s[x]] # 0
  /\ \A k \in L : After(fwd, c, f[k]) => \E x \in 1 .. n : s[x] = k

LEMMA PageRows ==
  ASSUME NEW K, NEW got \in Seq(K), NEW n \in Nat, NEW s \in [1 .. n -> K], NEW i \in Nat,
         IF n = 0 THEN i = 0 ELSE i \in 1 .. n
  PROVE  /\ got \o SubSeq(s, 1, i) \in Seq(K) /\ i <= n
         /\ Len(got) \in Nat /\ DOMAIN got = 1 .. Len(got)
         /\ DOMAIN (got \o SubSeq(s, 1, i)) = 1 .. Len(got) + i
         /\ \A x \in 1 .. Len(got) : (got \o SubSeq(s, 1, i))[x] = got[x]
         /\ \A x \in Len(got) + 1 .. Len(got) + i :
              x - Len(got) \in 1 .. i /\ (got \o SubSeq(s, 1, i))[x] = s[x - Len(got)]
<1>1. i <= n /\ \A x \in 1 .. i : s[x] \in K
  OBVIOUS
<1>2. PICK t : t = SubSeq(s, 1, i)
  OBVIOUS
<1>3. t \in Seq(K) /\ Len(t) = i /\ \A x \in 1 .. i : t[x] = s[x]
  <2>1. /\ SubSeq(s, 1, i) \in Seq(K)
        /\ Len(SubSeq(s, 1, i)) = IF 1 <= i THEN i - 1 + 1 ELSE 0
        /\ \A x \in 1 .. i - 1 + 1 : SubSeq(s, 1, i)[x] = s[1 + x - 1]
    BY <1>1, SubSeqProperties
  <2> QED
    BY <1>2, <2>1
<1>4. PICK u : u = got \o t
  OBVIOUS
<1>5. /\ u \in Seq(K) /\ Len(u) = Len(got) + i /\ Len(got) \in Nat
      /\ \A x \in 1 .. Len(got) + i : u[x] = IF x <= Len(got) THEN got[x] ELSE t[x - Len(got)]
  <2>1. /\ got \o t \in Seq(K) /\ Len(got \o t) = Len(got) + Len(t)
        /\ \A x \in 1 .. Len(got) + Len(t) :
             (got \o t)[x] = IF x <= Len(got) THEN got[x] ELSE t[x - Len(got)]
    BY <1>3, ConcatProperties
  <2>2. Len(got) \in Nat
    OBVIOUS
  <2> QED
    BY <1>3, <1>4, <2>1, <2>2
<1>6. /\ \A x \in 1 .. Len(got) : u[x] = got[x]
      /\ \A x \in Len(got) + 1 .. Len(got) + i : u[x] = t[x - Len(got)] /\ x - Len(got) \in 1 .. i
  BY <1>5
<1>7. DOMAIN u = 1 .. Len(got) + i /\ DOMAIN got = 1 .. Len(got)
  BY <1>5
<1> QED
  BY <1>1, <1>2, <1>3, <1>4, <1>5, <1>6, <1>7

(* A page in the course of a query, and the cursor it leads to.            *)
InPage(K, f, fwd, c, L, got, n, s, i, full) ==
  /\ f \in [K -> Nat] /\ fwd \in BOOLEAN /\ c \in Nat /\ L \in SUBSET K /\ got \in Seq(K)
  /\ n \in Nat /\ s \in [1 .. n -> K] /\ i \in Nat /\ full \in BOOLEAN
  /\ Covered(f, fwd, c, FALSE, L, got) /\ PageOf(f, fwd, c, L, n, s, i)
NextCursor(f, n, s, i, full) == IF i > 0 /\ (full \/ i < n) THEN f[s[i]] ELSE 0
Afterwards(f, fwd, c, L, got) == Covered(f, fwd, c, c = 0, L, got)

LEMMA Shifted ==
  ASSUME NEW g \in Nat, NEW i \in Nat
  PROVE  \A x, y \in g + 1 .. g + i : x < y <=> x - g < y - g
OBVIOUS

LEMMA NextCovers ==
  ASSUME NEW K, NEW f, NEW fwd, NEW c, NEW L, NEW got, NEW n, NEW s, NEW i, NEW full,
         InPage(K, f, fwd, c, L, got, n, s, i, full)
  PROVE  /\ NextCursor(f, n, s, i, full) \in Nat
         /\ Afterwards(f, fwd, NextCursor(f, n, s, i, full), L, got \o SubSeq(s, 1, i))
<1>1. PICK c2 : c2 = NextCursor(f, n, s, i, full)
  OBVIOUS
<1>2. f \in [K -> Nat] /\ fwd \in BOOLEAN /\ c \in Nat /\ L \in SUBSET K
  BY DEF InPage
<1>3. got \in Seq(K) /\ n \in Nat /\ s \in [1 .. n -> K] /\ i \in Nat /\ full \in BOOLEAN
  BY DEF InPage
<1>4. Covered(f, fwd, c, FALSE, L, got) /\ PageOf(f, fwd, c, L, n, s, i)
  BY DEF InPage
<1>5. c2 = IF i > 0 /\ (full \/ i < n) THEN f[s[i]] ELSE 0
  BY <1>1 DEF NextCursor
<1> USE <1>2, <1>3, <1>4, <1>5
<1>6. /\ IF n = 0 THEN i = 0 ELSE i \in 1 .. n
      /\ \A x, y \in 1 .. n : x < y => f[s[x]] # f[s[y]] /\ (f[s[x]] < f[s[y]]) = fwd
      /\ \A x \in 1 .. n : After(fwd, c, f[s[x]]) /\ f[s[x]] # 0
      /\ \A k \in L : After(fwd, c, f[k]) => \E x \in 1 .. n : s[x] = k
  BY DEF PageOf
<1>7. PICK g \in Nat : g = Len(got)
  OBVIOUS
<1>8. PICK got2 \in Seq(K) : got2 = got \o SubSeq(s, 1, i)
  BY <1>6, PageRows
<1>9. /\ i <= n /\ DOMAIN got = 1 .. g /\ DOMAIN got2 = 1 .. g + i
      /\ \A x \in 1 .. g : got2[x] = got[x]
      /\ \A x \in g + 1 .. g + i : x - g \in 1 .. i /\ got2[x] = s[x - g]
  BY <1>6, <1>7, <1>8, PageRows
<1>10. c2 \in Nat /\ (c2 = 0 => i = n) /\ (c2 # 0 => i \in 1 .. n /\ c2 = f[s[i]])
  <2>1. CASE i > 0 /\ (full \/ i < n)
    <3>1. i \in 1 .. n /\ s[i] \in K /\ c2 = f[s[i]]
      BY <1>6, <2>1
    <3>2. c2 # 0 /\ c2 \in Nat
      BY <1>6, <3>1
    <3> QED
      BY <3>1, <3>2
  <2>2. CASE ~ (i > 0 /\ (full \/ i < n))
    BY <1>6, <1>9, <2>2
  <2> QED
    BY <2>1, <2>2
<1>11. \A x \in 1 .. n : Reached(f, fwd, c2, c2 = 0, s[x]) <=> x <= i
  <2>1. TAKE x \in 1 .. n
  <2>2. CASE c2 = 0
    BY <1>10, <2>2 DEF Reached
  <2>3. CASE c2 # 0
    <3>1. i \in 1 .. n /\ c2 = f[s[i]]
      BY <1>10, <2>3
    <3>2. PICK a \in Nat, b \in Nat : a = f[s[x]] /\ b = f[s[i]]
      BY <3>1
    <3>3. /\ x < i => (a < b) = fwd
          /\ i < x => (b < a) = fwd
          /\ x = i => a = b
          /\ x # i => a # b
      <4>1. x < i => (a < b) = fwd
        BY <1>6, <3>1, <3>2
      <4>2. i < x => (b < a) = fwd
        BY <1>6, <3>1, <3>2
      <4>3. x # i => a # b
        <5>1. x < i => a # b
          BY <1>6, <3>1, <3>2
        <5>2. i < x => a # b
          BY <1>6, <3>1, <3>2
        <5>3. i \in Nat /\ x \in Nat
          OBVIOUS
        <5> QED
          BY <5>1, <5>2, <5>3
      <4> QED
        BY <3>2, <4>1, <4>2, <4>3
    <3>4. After(fwd, c2, a) <=> i < x
      BY <2>3, <3>1, <3>2, <3>3 DEF After
    <3> QED
      BY <2>3, <3>1, <3>2, <3>4 DEF Reached
  <2> QED
    BY <2>2, <2>3
<1> HIDE <1>4, <1>5
<1>12. \A k \in L : ~After(fwd, c, f[k]) => Reached(f, fwd, c2, c2 = 0, k)
  <2>1. SUFFICES ASSUME NEW k \in L, ~After(fwd, c, f[k]), c2 # 0, After(fwd, c2, f[k])
                 PROVE  FALSE
    BY DEF Reached
  <2>2. i \in 1 .. n /\ c2 = f[s[i]] /\ After(fwd, c, c2) /\ f[k] \in Nat
    BY <1>6, <1>10, <2>1
  <2> QED
    BY <1>10, <2>1, <2>2 DEF After
<1>13. \A k \in L : ~After(fwd, c, f[k]) =>
        Once(got, k) /\ \A x \in 1 .. n : s[x] # k
  BY <1>4, <1>6 DEF Covered, Reached
<1>14. \A k \in L : After(fwd, c, f[k]) =>
        /\ \A x \in 1 .. g : got[x] # k
        /\ \E x \in 1 .. n : s[x] = k /\ \A y \in 1 .. n : s[y] = k => y = x
  <2>1. \A k \in L : After(fwd, c, f[k]) => \A x \in 1 .. g : got[x] # k
    BY <1>4, <1>9 DEF Covered, Reached
  <2>2. ASSUME NEW x \in 1 .. n, NEW y \in 1 .. n, s[x] = s[y] PROVE x = y
    <3>1. ~ (x < y) /\ ~ (y < x)
      BY <1>6, <2>2
    <3> QED
      BY <3>1
  <2>3. ASSUME NEW k \in L, After(fwd, c, f[k])
        PROVE  \E x \in 1 .. n : s[x] = k /\ \A y \in 1 .. n : s[y] = k => y = x
    <3>1. PICK x \in 1 .. n : s[x] = k
      BY <1>6, <2>3
    <3> QED
      BY <2>2, <3>1
  <2> QED
    BY <2>1, <2>3
<1>15. ASSUME NEW k \in L, Reached(f, fwd, c2, c2 = 0, k) PROVE Once(got2, k)
  <2>1. CASE ~After(fwd, c, f[k])
    <3>1. PICK x \in 1 .. g : got[x] = k /\ \A y \in 1 .. g : got[y] = k => y = x
      BY <1>9, <1>13, <2>1 DEF Once
    <3>2. ASSUME NEW y \in g + 1 .. g + i PROVE got2[y] # k
      <4>1. y - g \in 1 .. i /\ got2[y] = s[y - g]
        BY <1>9
      <4>2. y - g \in 1 .. n
        BY <1>9, <4>1
      <4> QED
        BY <1>13, <2>1, <4>1, <4>2
    <3>3. x \in 1 .. g + i /\ got2[x] = k /\ \A y \in 1 .. g + i : got2[y] = k => y = x
      <4>1. ASSUME NEW y \in 1 .. g + i, got2[y] = k PROVE y = x
        <5>1. y \in 1 .. g
          BY <3>2, <4>1
        <5> QED
          BY <1>9, <3>1, <4>1, <5>1
      <4>2. x \in 1 .. g + i /\ got2[x] = k
        BY <1>9, <3>1
      <4> QED
        BY <4>1, <4>2
    <3> QED
      BY <1>9, <3>3 DEF Once
  <2>2. CASE After(fwd, c, f[k])
    <3>1. PICK x \in 1 .. n : s[x] = k /\ \A y \in 1 .. n : s[y] = k => y = x
      BY <1>14, <2>2
    <3>2. x <= i
      BY <1>11, <1>15, <3>1
    <3>3. g + x \in g + 1 .. g + i /\ g + x - g = x
      BY <3>2
    <3>4. got2[g + x] = k
      BY <1>9, <3>1, <3>3
    <3>5. ASSUME NEW y \in 1 .. g + i, got2[y] = k PROVE y = g + x
      <4>1. CASE y \in 1 .. g
        BY <1>9, <1>14, <2>2, <3>5, <4>1
      <4>2. CASE y \in g + 1 .. g + i
        <5>1. y - g \in 1 .. n /\ s[y - g] = k
          BY <1>9, <3>5, <4>2
        <5>2. y - g = x
          BY <3>1, <5>1
        <5> QED
          BY <5>2
      <4> QED
        BY <4>1, <4>2
    <3>6. g + x \in DOMAIN got2
      BY <1>9, <3>3
    <3> QED
      BY <1>9, <3>4, <3>5, <3>6 DEF Once
  <2> QED
    BY <2>1, <2>2
<1>16. ASSUME NEW k \in L, ~Reached(f, fwd, c2, c2 = 0, k), NEW y \in DOMAIN got2 PROVE got2[y] # k
  <2>1. After(fwd, c, f[k])
    BY <1>12, <1>16
  <2>2. CASE y \in 1 .. g
    BY <1>9, <1>14, <2>1, <2>2
  <2>3. CASE y \notin 1 .. g
    <3>1. y - g \in 1 .. n /\ y - g <= i /\ got2[y] = s[y - g]
      BY <1>9, <2>3
    <3>2. Reached(f, fwd, c2, c2 = 0, s[y - g])
      BY <1>11, <3>1
    <3> QED
      BY <1>16, <3>1, <3>2
  <2> QED
    BY <2>2, <2>3
<1>17. ASSUME NEW x \in DOMAIN got2, NEW y \in DOMAIN got2,
              got2[x] \in L, got2[y] \in L, f[got2[x]] < f[got2[y]]
       PROVE  (x < y) = fwd
  <2>1. PICK j \in L, k \in L : j = got2[x] /\ k = got2[y]
    BY <1>17
  <2>2. f[j] < f[k] /\ f[j] \in Nat /\ f[k] \in Nat
    BY <1>17, <2>1
  <2>3. \A z \in 1 .. g : got[z] \in L => ~After(fwd, c, f[got[z]])
    BY <1>14
  <2>4. CASE x \in 1 .. g /\ y \in 1 .. g
    BY <1>4, <1>9, <1>17, <2>4 DEF Covered, InPlace
  <2>5. CASE x \in 1 .. g /\ y \notin 1 .. g
    <3>1. ~After(fwd, c, f[j])
      BY <1>9, <2>1, <2>3, <2>5
    <3>2. After(fwd, c, f[k])
      BY <1>6, <1>9, <2>1, <2>5
    <3>3. x < y
      BY <1>9, <2>5
    <3> QED
      BY <2>2, <3>1, <3>2, <3>3 DEF After
  <2>6. CASE x \notin 1 .. g /\ y \in 1 .. g
    <3>1. ~After(fwd, c, f[k])
      BY <1>9, <2>1, <2>3, <2>6
    <3>2. After(fwd, c, f[j])
      BY <1>6, <1>9, <2>1, <2>6
    <3>3. ~ (x < y)
      BY <1>9, <2>6
    <3> QED
      BY <2>2, <3>1, <3>2, <3>3 DEF After
  <2>7. CASE x \notin 1 .. g /\ y \notin 1 .. g
    <3>1. x \in g + 1 .. g + i /\ y \in g + 1 .. g + i
      BY <1>9, <2>7
    <3>2. PICK a : a = x - g
      OBVIOUS
    <3>3. PICK b : b = y - g
      OBVIOUS
    <3>4. a \in 1 .. n /\ s[a] = j
      BY <1>9, <2>1, <3>1, <3>2
    <3>5. b \in 1 .. n /\ s[b] = k
      BY <1>9, <2>1, <3>1, <3>3
    <3>6. (x < y) <=> (a < b)
      BY <3>1, <3>2, <3>3, Shifted
    <3>7. a # b
      BY <2>2, <3>4, <3>5
    <3>8. CASE a < b
      BY <1>6, <2>2, <3>4, <3>5, <3>6, <3>8
    <3>9. CASE b < a
      <4>1. (f[k] < f[j]) = fwd
        BY <1>6, <3>4, <3>5, <3>9
      <4>2. ~ (f[k] < f[j])
        BY <2>2
      <4>3. ~ (x < y)
        BY <3>4, <3>5, <3>6, <3>9
      <4> QED
        BY <4>1, <4>2, <4>3
    <3>10. a \in Int /\ b \in Int
      BY <3>4, <3>5
    <3> QED
      BY <3>7, <3>8, <3>9, <3>10
  <2> QED
    BY <2>4, <2>5, <2>6, <2>7
<1>18. InPlace(f, fwd, L, got2)
  BY <1>17 DEF InPlace
<1> QED
  <2>1. Covered(f, fwd, c2, c2 = 0, L, got2)
    BY <1>4, <1>8, <1>10, <1>15, <1>16, <1>18 DEF Covered
  <2> QED
    BY <1>1, <1>8, <1>10, <2>1 DEF Afterwards

(* The reader: what lasts are rows of its query, covered so far.           *)
Positions(q, store) == [k \in Store!Keys |-> Store!Row(q, store, k)]
ReaderType ==
  [phase : {"idle", "reading", "done", "failed"}, q : Queries \cup {Store!NoQuery},
   cursor : Nat, got : Seq(Store!Keys), lasting : SUBSET Store!Keys]
Follows(r, store) ==
  /\ r \in ReaderType
  /\ r.phase \in {"reading", "done"} => r.q \in Queries
  /\ r.lasting \subseteq Store!Matching(r.q, store)
  /\ Covered(Positions(r.q, store), r.q.forward, r.cursor, r.phase = "done", r.lasting, r.got)

(* Whatever is seen of a row that lasts is at the row's position.          *)
Steady(r, seen, store) ==
  \A k \in r.lasting : \A m \in seen[k] : Store!RowOf(r.q, m) = Store!Row(r.q, store, k)

ReaderInv == Follows(iReader, iTable) /\ Steady(iReader, iSeen, iTable)

LEMMA ReaderFields ==
  ASSUME NEW r \in ReaderType
  PROVE  /\ r.phase \in {"idle", "reading", "done", "failed"}
         /\ r.q \in Queries \cup {Store!NoQuery} /\ r.cursor \in Nat
         /\ r.got \in Seq(Store!Keys) /\ r.lasting \in SUBSET Store!Keys
         /\ r.q.forward \in BOOLEAN /\ r.q.index \in BOOLEAN
<1>1. \A q \in Queries : q.index \in BOOLEAN /\ q.forward \in BOOLEAN
  BY PartsAssumption DEF Store!ItemAssumption
<1>2. Store!NoQuery.forward \in BOOLEAN /\ Store!NoQuery.index \in BOOLEAN
  BY DEF Store!NoQuery
<1>3. /\ r.phase \in {"idle", "reading", "done", "failed"} /\ r.cursor \in Nat
      /\ r.q \in Queries \cup {Store!NoQuery} /\ r.got \in Seq(Store!Keys)
      /\ r.lasting \in SUBSET Store!Keys
  BY DEF ReaderType
<1> QED
  BY <1>1, <1>2, <1>3

LEMMA PositionsAre ==
  ASSUME NEW q, NEW store \in Rows, Keyed(store)
  PROVE  /\ Positions(q, store) \in [Store!Keys -> Nat]
         /\ \A k \in Store!Keys : Positions(q, store)[k] = Store!Row(q, store, k)
BY RowsAre DEF Positions

LEMMA FewerLast ==
  ASSUME NEW f, NEW f2, NEW fwd, NEW c, NEW fin, NEW got, NEW L, NEW L2 \in SUBSET L,
         \A k \in L2 : f2[k] = f[k], Covered(f, fwd, c, fin, L, got)
  PROVE  Covered(f2, fwd, c, fin, L2, got)
<1>1. \A k \in L2 : Reached(f2, fwd, c, fin, k) <=> Reached(f, fwd, c, fin, k)
  BY DEF Reached
<1>2. InPlace(f2, fwd, L2, got)
  BY DEF Covered, InPlace
<1> QED
  BY <1>1, <1>2 DEF Covered

LEMMA StillFollows ==
  ASSUME NEW old \in Rows, Keyed(old), NEW new \in Rows, Keyed(new),
         NEW r, Follows(r, old),
         NEW r2, r2 = [r EXCEPT !.lasting = Store!StillThere(r.q, r.lasting, old, new)]
  PROVE  Follows(r2, new) /\ r2.q = r.q
<1>1. r \in ReaderType
  BY DEF Follows
<1>2. PICK L \in SUBSET Store!Keys : L = Store!StillThere(r.q, r.lasting, old, new)
  BY <1>1, ReaderFields DEF Store!StillThere
<1>3. /\ r2 \in ReaderType /\ r2.phase = r.phase /\ r2.q = r.q /\ r2.cursor = r.cursor
      /\ r2.got = r.got /\ r2.lasting = L
  BY <1>1, <1>2 DEF ReaderType
<1>4. L \subseteq r.lasting /\ \A k \in L : Store!Row(r.q, new, k) = Store!Row(r.q, old, k)
  BY <1>2 DEF Store!StillThere
<1>5. L \subseteq Store!Matching(r.q, new)
  BY <1>2, <1>4 DEF Follows, Store!Matching
<1>6. \A k \in L : Positions(r.q, new)[k] = Positions(r.q, old)[k]
  BY <1>2, <1>4, PositionsAre
<1>7. Covered(Positions(r.q, new), r.q.forward, r.cursor, r.phase = "done", L, r.got)
  BY <1>4, <1>6, FewerLast DEF Follows
<1> QED
  BY <1>3, <1>5, <1>7 DEF Follows

LEMMA NobodyReads ==
  \A seen, store : /\ Follows(Store!Idle, store) /\ Steady(Store!Idle, seen, store)
                   /\ Follows(Store!Failed, store) /\ Steady(Store!Failed, seen, store)
<1>1. PICK r : r = Store!Idle
  OBVIOUS
<1>2. /\ r \in ReaderType /\ r.phase = "idle" /\ r.lasting = {}
  <2>1. <<>> \in Seq(Store!Keys)
    OBVIOUS
  <2> QED
    BY <1>1, <2>1 DEF Store!Idle, ReaderType
<1>3. PICK r2 : r2 = [r EXCEPT !.phase = "failed"]
  OBVIOUS
<1>4. r2 \in ReaderType /\ r2.phase = "failed" /\ r2.lasting = {}
  BY <1>2, <1>3 DEF ReaderType
<1>5. r2 = Store!Failed
  BY <1>1, <1>3 DEF Store!Failed
<1>6. \A f, fwd, c, fin, got : Covered(f, fwd, c, fin, {}, got)
  BY DEF Covered, InPlace
<1>7. \A store : Follows(r, store) /\ Follows(r2, store)
  BY <1>2, <1>4, <1>6 DEF Follows
<1>8. \A seen, store : Steady(r, seen, store) /\ Steady(r2, seen, store)
  BY <1>2, <1>4 DEF Steady
<1> QED
  BY <1>1, <1>5, <1>7, <1>8

LEMMA QueryStarts ==
  ASSUME ItemInv, NEW q \in Queries, NEW r,
         r = [phase |-> "reading", q |-> q, cursor |-> 0, got |-> <<>>,
              lasting |-> Store!Settled(q)]
  PROVE  Follows(r, iTable) /\ Steady(r, iSeen, iTable)
<1>1. PICK L \in SUBSET Store!Keys : L = Store!Settled(q)
  BY DEF Store!Matching, Store!Settled
<1>2. <<>> \in Seq(Store!Keys)
  OBVIOUS
<1>3. /\ r \in ReaderType /\ r.phase = "reading" /\ r.q = q /\ r.cursor = 0 /\ r.got = <<>>
      /\ r.lasting = L
  BY <1>1, <1>2 DEF ReaderType
<1>4. Covered(Positions(q, iTable), q.forward, 0, FALSE, L, <<>>)
  BY DEF Covered, Reached, After, InPlace
<1>5. (r.phase = "done") = FALSE
  BY <1>3
<1>6. /\ L \subseteq Store!Matching(q, iTable)
      /\ \A k \in L : \A m \in iSeen[k] : Store!RowOf(q, m) = Store!Row(q, iTable, k)
  BY <1>1 DEF Store!Settled
<1>7. Steady(r, iSeen, iTable)
  BY <1>3, <1>6 DEF Steady
<1> QED
  BY <1>1, <1>3, <1>4, <1>5, <1>6, <1>7 DEF Follows

LEMMA PageFollows ==
  ASSUME ItemInv, ReaderInv, iReader.phase = "reading", NEW view \in Store!Views,
         NEW p \in Store!Page(iReader.q, view, iReader.cursor),
         NEW r, r = [iReader EXCEPT !.got = @ \o p.rows, !.cursor = p.next,
                                    !.phase = IF p.next = 0 THEN "done" ELSE "reading"]
  PROVE  Follows(r, iTable) /\ Steady(r, iSeen, iTable)
<1>1. PICK q \in Queries : q = iReader.q
  BY DEF ReaderInv, Follows
<1>2. PICK st \in Rows : st = view /\ Keyed(st) /\ \A k \in Store!Keys : st[k] \in iSeen[k]
  BY ViewsAre
<1>3. PICK c \in Nat, L \in SUBSET Store!Keys :
        c = iReader.cursor /\ L = iReader.lasting
  BY ReaderFields DEF ReaderInv, Follows
<1>4. PICK got \in Seq(Store!Keys) : got = iReader.got
  BY ReaderFields DEF ReaderInv, Follows
<1>5. iReader \in ReaderType /\ q.forward \in BOOLEAN /\ q.limit \in Nat
  <2>1. iReader \in ReaderType
    BY DEF ReaderInv, Follows
  <2>2. q.forward \in BOOLEAN /\ q.limit \in Nat
    BY PartsAssumption DEF Store!ItemAssumption
  <2> QED
    BY <2>1, <2>2
<1>6. PICK R : R = RowsBeyond(q, st, c)
  OBVIOUS
<1>7. R \in SUBSET {k \in Store!Keys : Store!Row(q, st, k) # 0}
  BY <1>6, RowsBeyondAre
<1>8. PICK s : s = Store!InOrder(q, st, R)
  OBVIOUS
<1>9. OrderedRows(q, st, R, s) /\ Cardinality(R) \in Nat
  BY <1>2, <1>5, <1>7, <1>8, RowsOrdered
<1>10. PICK i \in Nat : PageIs(q, st, s, Cardinality(R), i, p)
  BY <1>1, <1>2, <1>3, <1>5, <1>6, <1>8, PagesAre
<1>11. PICK n \in Nat : n = Cardinality(R)
  BY <1>9
<1>12. /\ s \in [1 .. n -> Store!Keys] /\ \A k \in R : \E x \in 1 .. n : s[x] = k
       /\ \A x \in 1 .. n : s[x] \in R
       /\ \A x, y \in 1 .. n :
            x < y => s[x] # s[y] /\ (Store!Row(q, st, s[x]) < Store!Row(q, st, s[y])) = q.forward
  BY <1>7, <1>9, <1>11 DEF OrderedRows
(* For the rows that last, the view and the table are at one position.     *)
<1>24. \A k \in L : Store!Row(q, st, k) = Store!Row(q, iTable, k)
  <2>1. TAKE k \in L
  <2>2. st[k] \in iSeen[k]
    BY <1>2
  <2>3. Store!RowOf(q, st[k]) = Store!Row(q, iTable, k)
    BY <1>1, <1>3, <2>2 DEF ReaderInv, Steady
  <2> QED
    BY <2>3 DEF Store!Row
<1>25. PICK f0 : f0 = Positions(q, iTable)
  OBVIOUS
<1>26. \A k \in Store!Keys : f0[k] = Store!Row(q, iTable, k)
  BY <1>25, PositionsAre DEF ItemInv
<1>27. L \subseteq Store!Matching(q, st)
  <2>1. \A k \in L : k \in Store!Matching(q, iTable)
    BY <1>1, <1>3 DEF ReaderInv, Follows
  <2> QED
    BY <1>24, <2>1 DEF Store!Matching
<1> DEFINE f == Positions(q, st)
<1>13. f \in [Store!Keys -> Nat] /\ \A k \in Store!Keys : f[k] = Store!Row(q, st, k)
  BY <1>2, PositionsAre
<1> HIDE DEF f
<1>14. PageOf(f, q.forward, c, L, n, s, i)
  <2>1. IF n = 0 THEN i = 0 ELSE i \in 1 .. n
    BY <1>10, <1>11 DEF PageIs
  <2>2. ASSUME NEW x \in 1 .. n, NEW y \in 1 .. n, x < y
        PROVE  f[s[x]] # f[s[y]] /\ (f[s[x]] < f[s[y]]) = q.forward
    <3>1. s[x] # s[y] /\ (Store!Row(q, st, s[x]) < Store!Row(q, st, s[y])) = q.forward
      BY <1>12, <2>2
    <3>2. s[x] \in Store!Keys /\ s[y] \in Store!Keys /\ Store!Row(q, st, s[y]) # 0
      BY <1>7, <1>12
    <3>3. Store!Row(q, st, s[x]) # Store!Row(q, st, s[y])
      BY <1>2, <3>1, <3>2, RowsDiffer
    <3> QED
      BY <1>13, <3>1, <3>2, <3>3
  <2>3. \A k \in Store!Keys : After(q.forward, c, f[k]) <=> Store!Beyond(q, c, Store!Row(q, st, k))
    BY <1>13 DEF After, Store!Beyond
  <2>4. \A x \in 1 .. n : After(q.forward, c, f[s[x]]) /\ f[s[x]] # 0
    <3>1. TAKE x \in 1 .. n
    <3>2. s[x] \in Store!Keys /\ Store!Row(q, st, s[x]) # 0
      BY <1>7, <1>12
    <3>3. Store!Beyond(q, c, Store!Row(q, st, s[x]))
      BY <1>2, <1>6, <1>12 DEF RowsBeyond
    <3> QED
      BY <1>13, <2>3, <3>2, <3>3
  <2>5. ASSUME NEW k \in L, After(q.forward, c, f[k]) PROVE \E x \in 1 .. n : s[x] = k
    <3>1. k \in Store!Matching(q, st)
      BY <1>27
    <3>2. k \in R
      BY <1>2, <1>6, <2>3, <2>5, <3>1 DEF RowsBeyond
    <3> QED
      BY <1>12, <3>2
  <2> QED
    BY <2>1, <2>2, <2>4, <2>5 DEF PageOf
<1>15. Covered(f, q.forward, c, FALSE, L, got)
  <2>1. (iReader.phase = "done") = FALSE
    OBVIOUS
  <2>2. Covered(f0, q.forward, c, FALSE, L, got)
    BY <1>1, <1>3, <1>4, <1>25, <2>1 DEF ReaderInv, Follows
  <2>3. \A k \in L : f[k] = f0[k]
    BY <1>13, <1>24, <1>26
  <2> QED
    BY <2>2, <2>3, FewerLast
<1>16. PICK c2 : c2 = p.next
  OBVIOUS
<1>17. c2 = IF i > 0 /\ ((i = q.limit) \/ i < n) THEN f[s[i]] ELSE 0
  <2>1. c2 = IF i > 0 /\ ((i = q.limit) \/ i < n) THEN Store!Row(q, st, s[i]) ELSE 0
    BY <1>2, <1>10, <1>11, <1>16 DEF PageIs
  <2>2. i > 0 => i \in 1 .. n
    BY <1>10, <1>11 DEF PageIs
  <2>3. i > 0 => s[i] \in Store!Keys
    BY <1>12, <2>2
  <2> QED
    BY <1>13, <2>1, <2>3
<1>18. PICK full \in BOOLEAN : full = (i = q.limit)
  OBVIOUS
<1>19. Covered(f, q.forward, c2, c2 = 0, L, got \o SubSeq(s, 1, i)) /\ c2 \in Nat
  <2>1. PICK fwd \in BOOLEAN : fwd = q.forward
    BY <1>5
  <2>2. Covered(f, fwd, c, FALSE, L, got) /\ PageOf(f, fwd, c, L, n, s, i)
    BY <1>14, <1>15, <2>1
  <2>3. c2 = IF i > 0 /\ (full \/ i < n) THEN f[s[i]] ELSE 0
    BY <1>17, <1>18
  <2>4. s \in [1 .. n -> Store!Keys] /\ f \in [Store!Keys -> Nat]
    BY <1>12, <1>13
  <2>5. PICK g \in [Store!Keys -> Nat] : g = f
    BY <2>4
  <2>6. Covered(g, fwd, c, FALSE, L, got) /\ PageOf(g, fwd, c, L, n, s, i)
    BY <2>2, <2>5
  <2>7. InPage(Store!Keys, g, fwd, c, L, got, n, s, i, full)
    BY <2>4, <2>6 DEF InPage
  <2>8. /\ NextCursor(g, n, s, i, full) \in Nat
        /\ Afterwards(g, fwd, NextCursor(g, n, s, i, full), L, got \o SubSeq(s, 1, i))
    BY <2>7, NextCovers
  <2>9. c2 = NextCursor(g, n, s, i, full)
    BY <2>3, <2>5 DEF NextCursor
  <2> QED
    BY <2>1, <2>5, <2>8, <2>9 DEF Afterwards
<1>20. PICK got2 \in Seq(Store!Keys) : got2 = got \o SubSeq(s, 1, i)
  BY <1>10, <1>11, <1>12, PageRows DEF PageIs
<1>21. r = [iReader EXCEPT !.got = got2, !.cursor = c2,
                           !.phase = IF c2 = 0 THEN "done" ELSE "reading"]
  BY <1>4, <1>10, <1>16, <1>20 DEF PageIs
<1>22. /\ r \in ReaderType /\ r.q = q /\ r.cursor = c2 /\ r.got = got2 /\ r.lasting = L
       /\ (r.phase = "done") = (c2 = 0)
  BY <1>1, <1>3, <1>5, <1>19, <1>21 DEF ReaderType
<1>23. L \subseteq Store!Matching(q, iTable)
  BY <1>1, <1>3 DEF ReaderInv, Follows
<1>28. Covered(f0, q.forward, c2, c2 = 0, L, got2)
  <2>1. \A k \in L : f0[k] = f[k]
    BY <1>13, <1>24, <1>26
  <2>2. PICK fin \in BOOLEAN : fin = (c2 = 0)
    OBVIOUS
  <2>3. Covered(f, q.forward, c2, fin, L, got2)
    BY <1>19, <1>20, <2>2
  <2>4. Covered(f0, q.forward, c2, fin, L, got2)
    BY <2>1, <2>3, FewerLast
  <2> QED
    BY <2>2, <2>4
<1>29. Follows(r, iTable)
  BY <1>1, <1>22, <1>23, <1>25, <1>28 DEF Follows
<1>30. Steady(r, iSeen, iTable)
  BY <1>1, <1>3, <1>22 DEF ReaderInv, Steady
<1> QED
  BY <1>29, <1>30

(* The actions: a write moves rows, replicas catch up, a page is read.     *)
LEMMA ReaderWrite ==
  ASSUME ItemInv, ReaderInv, NEW k \in Store!Keys, NEW m, Store!Write(k, m),
         iTable' \in Rows, Keyed(iTable')
  PROVE  ReaderInv'
<1>1. iReader' =
        [iReader EXCEPT !.lasting = Store!StillThere(iReader.q, iReader.lasting, iTable, iTable')]
  BY DEF Store!Write
<1>2. PICK old \in Rows : old = iTable /\ Keyed(old)
  BY DEF ItemInv
<1>3. PICK new \in Rows : new = iTable' /\ Keyed(new)
  OBVIOUS
<1>4. PICK r : r = iReader
  OBVIOUS
<1>5. PICK r2 : r2 = iReader'
  OBVIOUS
<1>6. Follows(r, old)
  BY <1>2, <1>4 DEF ReaderInv
<1>7. r2 = [r EXCEPT !.lasting = Store!StillThere(r.q, r.lasting, old, new)]
  BY <1>1, <1>2, <1>3, <1>4, <1>5
<1>8. Follows(r2, new) /\ r2.q = r.q
  BY <1>2, <1>3, <1>6, <1>7, StillFollows
<1>9. PICK v : v = iSeen
  OBVIOUS
<1>10. PICK w : w = iSeen'
  OBVIOUS
<1>11. /\ w[k] = v[k] \cup {m} /\ new[k] = m
       /\ \A j \in Store!Keys : j # k => w[j] = v[j] /\ new[j] = old[j]
  <2>1. w = [v EXCEPT ![k] = @ \cup {m}] /\ new = [old EXCEPT ![k] = m]
    BY <1>2, <1>3, <1>9, <1>10 DEF Store!Write
  <2>2. DOMAIN v = Store!Keys /\ DOMAIN old = Store!Keys
    BY <1>9 DEF ItemInv, Versions, Rows
  <2> QED
    BY <2>1, <2>2
<1>12. /\ r2.lasting \subseteq r.lasting /\ r2.lasting \subseteq Store!Keys
       /\ \A j \in r2.lasting : Store!Row(r.q, new, j) = Store!Row(r.q, old, j)
  <2>1. r \in ReaderType
    BY <1>6 DEF Follows
  <2>2. r2.lasting = Store!StillThere(r.q, r.lasting, old, new)
    BY <1>7, <2>1 DEF ReaderType
  <2>3. r.lasting \subseteq Store!Keys
    BY <2>1, ReaderFields
  <2> QED
    BY <2>2, <2>3 DEF Store!StillThere
<1>13. Steady(r, v, old)
  BY <1>2, <1>4, <1>9 DEF ReaderInv
<1>14. ASSUME NEW j \in r2.lasting, NEW x \in w[j]
       PROVE  Store!RowOf(r.q, x) = Store!Row(r.q, new, j)
  <2>1. CASE x \in v[j]
    BY <1>12, <1>13, <2>1 DEF Steady
  <2>2. CASE x \notin v[j]
    <3>1. j = k /\ x = m
      BY <1>11, <1>12, <1>14, <2>2
    <3> QED
      BY <1>11, <3>1 DEF Store!Row
  <2> QED
    BY <2>1, <2>2
<1>15. Steady(r2, w, new)
  BY <1>8, <1>14 DEF Steady
<1> QED
  BY <1>3, <1>5, <1>8, <1>10, <1>15 DEF ReaderInv

LEMMA ReaderCatchUp ==
  ASSUME ItemInv, ReaderInv, NEW k \in Store!Keys, Store!CatchUp(k)
  PROVE  ReaderInv'
<1>1. /\ iSeen' = [iSeen EXCEPT ![k] = {iTable[k]}]
      /\ iTable' = iTable /\ iReader' = iReader
  BY DEF Store!CatchUp
<1>2. PICK r : r = iReader
  OBVIOUS
<1>3. PICK w : w = iSeen'
  OBVIOUS
<1>4. w[k] = {iTable[k]} /\ \A j \in Store!Keys : j # k => w[j] = iSeen[j]
  BY <1>1, <1>3 DEF ItemInv, Versions
<1>5. r.lasting \subseteq Store!Keys
  BY <1>2, ReaderFields DEF ReaderInv, Follows
<1>6. ASSUME NEW j \in r.lasting, NEW x \in w[j]
      PROVE  Store!RowOf(r.q, x) = Store!Row(r.q, iTable, j)
  <2>1. CASE j = k
    BY <1>4, <1>6, <2>1 DEF Store!Row
  <2>2. CASE j # k
    BY <1>2, <1>4, <1>5, <1>6, <2>2 DEF ReaderInv, Steady
  <2> QED
    BY <2>1, <2>2
<1>7. Steady(r, w, iTable)
  BY <1>6 DEF Steady
<1> QED
  BY <1>1, <1>2, <1>3, <1>7 DEF ReaderInv

(* Where the store is left alone, what counts is the reader that follows.  *)
LEMMA ReaderMoves ==
  ASSUME NEW r, iReader' = r, iTable' = iTable, iSeen' = iSeen,
         Follows(r, iTable), Steady(r, iSeen, iTable)
  PROVE  ReaderInv'
BY DEF ReaderInv

LEMMA ReaderStartQuery == ItemInv /\ Store!StartQuery => ReaderInv'
<1> SUFFICES ASSUME ItemInv, Store!StartQuery PROVE ReaderInv'
  OBVIOUS
<1>1. PICK q \in Queries : iReader' = [phase |-> "reading", q |-> q, cursor |-> 0, got |-> <<>>,
                                       lasting |-> Store!Settled(q)]
  BY DEF Store!StartQuery
<1>2. PICK r : r = [phase |-> "reading", q |-> q, cursor |-> 0, got |-> <<>>,
                    lasting |-> Store!Settled(q)]
  OBVIOUS
<1>3. Follows(r, iTable) /\ Steady(r, iSeen, iTable)
  BY <1>2, QueryStarts
<1>4. iReader' = r /\ iTable' = iTable /\ iSeen' = iSeen
  BY <1>1, <1>2 DEF Store!StartQuery
<1> QED
  BY <1>3, <1>4, ReaderMoves

LEMMA ReaderNextPage == ItemInv /\ ReaderInv /\ Store!NextPage => ReaderInv'
<1> SUFFICES ASSUME ItemInv, ReaderInv, Store!NextPage PROVE ReaderInv'
  OBVIOUS
<1>1. iTable' = iTable /\ iSeen' = iSeen /\ iReader.phase = "reading"
  BY DEF Store!NextPage
<1>2. PICK view \in Store!Views :
        \E p \in Store!Page(iReader.q, view, iReader.cursor) :
          iReader' = IF \A i \in DOMAIN p.rows : Store!Decode(p.rows[i]) # "not found"
            THEN [iReader EXCEPT !.got = iReader.got \o p.rows, !.cursor = p.next,
                                 !.phase = IF p.next = 0 THEN "done" ELSE "reading"]
            ELSE Store!Failed
  BY DEF Store!NextPage
<1>3. PICK p \in Store!Page(iReader.q, view, iReader.cursor) :
        iReader' = IF \A i \in DOMAIN p.rows : Store!Decode(p.rows[i]) # "not found"
          THEN [iReader EXCEPT !.got = iReader.got \o p.rows, !.cursor = p.next,
                               !.phase = IF p.next = 0 THEN "done" ELSE "reading"]
          ELSE Store!Failed
  BY <1>2
<1>4. PICK r : r = [iReader EXCEPT !.got = iReader.got \o p.rows, !.cursor = p.next,
                                   !.phase = IF p.next = 0 THEN "done" ELSE "reading"]
  OBVIOUS
<1>5. Follows(r, iTable) /\ Steady(r, iSeen, iTable)
  BY <1>1, <1>4, PageFollows
<1>6. CASE iReader' = r
  BY <1>1, <1>5, <1>6, ReaderMoves
<1>7. CASE iReader' = Store!Failed
  <2>1. PICK f : f = Store!Failed
    OBVIOUS
  <2>2. Follows(f, iTable) /\ Steady(f, iSeen, iTable)
    BY <2>1, NobodyReads
  <2> QED
    BY <1>1, <1>7, <2>1, <2>2, ReaderMoves
<1> QED
  BY <1>3, <1>4, <1>6, <1>7

LEMMA ReaderQueryFails == Store!QueryFails => ReaderInv'
<1> SUFFICES ASSUME Store!QueryFails PROVE ReaderInv'
  OBVIOUS
<1>1. PICK f : f = Store!Failed
  OBVIOUS
<1>2. Follows(f, iTable) /\ Steady(f, iSeen, iTable)
  BY <1>1, NobodyReads
<1> QED
  BY <1>1, <1>2, ReaderMoves DEF Store!QueryFails

LEMMA ReaderStays ==
  ASSUME ReaderInv, iReader' = iReader, iTable' = iTable, iSeen' = iSeen
  PROVE  ReaderInv'
BY DEF ReaderInv

LEMMA ReaderInit == Store!Init => ReaderInv
<1> SUFFICES ASSUME Store!Init PROVE ReaderInv
  OBVIOUS
<1>1. iReader = Store!Idle
  BY DEF Store!Init
<1> QED
  BY <1>1, NobodyReads DEF ReaderInv

LEMMA ReaderStep == ItemInv /\ ItemInv' /\ ReaderInv /\ Store!Next => ReaderInv'
<1> SUFFICES ASSUME ItemInv, ItemInv', ReaderInv, Store!Next PROVE ReaderInv'
  OBVIOUS
<1>0. iTable' \in Rows /\ Keyed(iTable')
  BY DEF ItemInv, Rows, Keyed
<1>1. ASSUME NEW m \in Writers, Store!Upsert(m) PROVE ReaderInv'
  <2>1. Store!Write(Store!Key(m), m) /\ Store!Key(m) \in Store!Keys
    BY <1>1, ServicesAssumption, ItemsAre DEF Store!Upsert
  <2> QED
    BY <1>0, <2>1, ReaderWrite
<1>2. ASSUME NEW k \in {Store!Key(m) : m \in Writers}, Store!Delete(k) PROVE ReaderInv'
  <2>1. Store!Write(k, Absent) /\ k \in Store!Keys
    BY <1>2, ServicesAssumption, ItemsAre DEF Store!Delete
  <2> QED
    BY <1>0, <2>1, ReaderWrite
<1>3. ASSUME NEW k \in Store!Keys, Store!CatchUp(k) PROVE ReaderInv'
  BY <1>3, ReaderCatchUp
<1>4. CASE Store!StartQuery
  BY <1>4, ReaderStartQuery
<1>5. CASE Store!NextPage
  BY <1>5, ReaderNextPage
<1>6. CASE Store!QueryFails
  BY <1>6, ReaderQueryFails
<1>7. ASSUME NEW c, Store!LookUp(c) PROVE ReaderInv'
  BY <1>7, ReaderStays DEF Store!LookUp
<1>8. ASSUME NEW c \in Clients, Store!CreateUser(c) PROVE ReaderInv'
  <2>1. /\ Store!Write(Store!Key(Store!UserOf(c)), Store!UserOf(c))
        /\ Store!Key(Store!UserOf(c)) \in Store!Keys
    BY <1>8, UsersAre, ItemsAre DEF Store!CreateUser
  <2> QED
    BY <1>0, <2>1, ReaderWrite
<1>9. ASSUME NEW c, Store!SignUpFails(c) PROVE ReaderInv'
  BY <1>9, ReaderStays DEF Store!SignUpFails
<1> QED
  BY <1>1, <1>2, <1>3, <1>4, <1>5, <1>6, <1>7, <1>8, <1>9 DEF Store!Next

LEMMA ReaderNext == ItemInv /\ ItemInv' /\ ReaderInv /\ [Next]_vars => ReaderInv'
<1> SUFFICES ASSUME ItemInv, ItemInv', ReaderInv, [Next]_vars PROVE ReaderInv'
  OBVIOUS
<1>1. Store!Next \/ UNCHANGED itemVars
  BY OneInFocus
<1>2. CASE Store!Next
  BY <1>2, ReaderStep
<1>3. CASE UNCHANGED itemVars
  BY <1>3, ReaderStays DEF itemVars
<1> QED
  BY <1>1, <1>2, <1>3

LEMMA ReaderInvariant == Spec => []ReaderInv
<1>1. Init => ReaderInv
  BY ReaderInit DEF Init
<1>2. ItemInv /\ ItemInv' /\ ReaderInv /\ [Next]_vars => ReaderInv'
  BY ReaderNext
<1> QED
  BY <1>1, <1>2, ItemInvariant, PTL DEF Spec

LEMMA LastingRowsCovered == ItemInv /\ ReaderInv => Store!PagesCoverLastingRows
<1> SUFFICES ASSUME ItemInv, ReaderInv, iReader.phase = "done", NEW k \in iReader.lasting
             PROVE  /\ Store!Cardinality({i \in DOMAIN iReader.got : iReader.got[i] = k}) = 1
                    /\ \A j \in iReader.lasting :
                         Store!Row(iReader.q, iTable, j) < Store!Row(iReader.q, iTable, k) =>
                         \E i, h \in DOMAIN iReader.got :
                           iReader.got[i] = j /\ iReader.got[h] = k /\ (i < h) = iReader.q.forward
  BY DEF Store!PagesCoverLastingRows
<1>1. PICK r : r = iReader
  OBVIOUS
<1>2. PICK st \in Rows : st = iTable /\ Keyed(st)
  BY DEF ItemInv
<1>3. Follows(r, st) /\ r.phase = "done"
  BY <1>1, <1>2 DEF ReaderInv
<1>4. r \in ReaderType
  BY <1>3 DEF Follows
<1>5. PICK got \in Seq(Store!Keys), L \in SUBSET Store!Keys : got = r.got /\ L = r.lasting
  BY <1>4, ReaderFields
<1>6. PICK f : f = Positions(r.q, st)
  OBVIOUS
<1>7. /\ f \in [Store!Keys -> Nat]
      /\ \A j \in Store!Keys : f[j] = Store!Row(r.q, st, j)
  BY <1>2, <1>6, PositionsAre
<1>8. PICK fwd \in BOOLEAN : fwd = r.q.forward
  BY <1>4, ReaderFields
<1>9. PICK fin \in BOOLEAN : fin = (r.phase = "done")
  OBVIOUS
<1>10. Covered(f, fwd, r.cursor, fin, L, got) /\ fin
  BY <1>3, <1>5, <1>6, <1>8, <1>9 DEF Follows
<1>11. \A j \in L : Once(got, j)
  BY <1>10 DEF Covered, Reached
<1>12. InPlace(f, fwd, L, got)
  BY <1>10 DEF Covered
<1>13. PICK x \in DOMAIN got : got[x] = k /\ \A y \in DOMAIN got : got[y] = k => y = x
  BY <1>1, <1>5, <1>11 DEF Once
<1>14. Store!Cardinality({i \in DOMAIN iReader.got : iReader.got[i] = k}) = 1
  <2>1. {i \in DOMAIN iReader.got : iReader.got[i] = k} = {x}
    BY <1>1, <1>5, <1>13
  <2>2. Cardinality({x}) = 1
    BY FS_Singleton
  <2>3. Store!Cardinality({x}) = Cardinality({x})
    BY DEF Store!Cardinality, Cardinality
  <2> QED
    BY <2>1, <2>2, <2>3
<1>15. ASSUME NEW j \in iReader.lasting,
              Store!Row(iReader.q, iTable, j) < Store!Row(iReader.q, iTable, k)
       PROVE  \E i, h \in DOMAIN iReader.got :
                iReader.got[i] = j /\ iReader.got[h] = k /\ (i < h) = iReader.q.forward
  <2>1. j \in L /\ k \in L /\ j \in Store!Keys /\ k \in Store!Keys
    BY <1>1, <1>5
  <2>2. f[j] < f[k]
    BY <1>1, <1>2, <1>7, <1>15, <2>1
  <2>3. PICK i \in DOMAIN got : got[i] = j
    BY <1>11, <2>1 DEF Once
  <2>4. (i < x) = fwd
    BY <1>12, <1>13, <2>1, <2>2, <2>3 DEF InPlace
  <2> QED
    BY <1>1, <1>5, <1>8, <1>13, <2>3, <2>4
<1> QED
  BY <1>14, <1>15

(* Theorem: the pages of Query hold, in order and once, every row that     *)
(* stays where it is, however stale each page is otherwise; and every      *)
(* version a read may see comes back as the model that wrote it, in        *)
(* whatever order the models were registered.                              *)
THEOREM ServicesRowsComeBack == Spec => []RowsComeBack
<1>1. ItemInv /\ ReaderInv => RowsComeBack
  BY LastingRowsCovered, DecodesAsWritten DEF RowsComeBack
<1> QED
  BY <1>1, ItemInvariant, ReaderInvariant, PTL

-----------------------------------------------------------------------------
(* What every part keeps of its types.                                     *)
LEMMA FocusInvariant == Spec => [](focus \in Focuses)
<1>1. Init => focus \in Focuses
  BY DEF Init
<1>2. focus \in Focuses /\ [Next]_vars => (focus \in Focuses)'
  BY DEF Next, vars, GraphStep, ItemStep, LifecycleStep, SecretStep, SeriesStep, VectorStep,
         LimiterStep
<1> QED
  BY <1>1, <1>2, PTL DEF Spec

LEMMA LifecycleTypes == Spec => []Lifecycle!TypeOK
<1>1. LP!LifecycleAssumption
  BY SameLifecycle, PartsAssumption
<1>2. LP!IInv => Lifecycle!TypeOK
  BY DEF LP!IInv, LP!TypeOK, LP!CallerType, LP!Conn,
         Lifecycle!TypeOK, Lifecycle!CallerType, Lifecycle!Conn
<1> QED
  BY <1>1, <1>2, LP!LifecycleInvariant, LifecycleRuns, PTL

LEMMA SecretTypes == Spec => []Secrets!TypeOK
<1>1. SP!SecretAssumption
  BY SameSecrets, PartsAssumption
<1>2. SP!IInv => Secrets!TypeOK
  BY DEF SP!IInv, SP!TypeOK, SP!SecretType, SP!CallType, SP!NoValue, SP!NoSecret,
         Secrets!TypeOK, Secrets!SecretType, Secrets!CallType, Secrets!NoValue, Secrets!NoSecret
<1> QED
  BY <1>1, <1>2, SP!SecretInvariant, SecretsRun, PTL

LEMMA LimiterIsTyped == LimiterInv => Limiter!TypeOK
<1> SUFFICES ASSUME LimiterInv PROVE Limiter!TypeOK
  OBVIOUS
<1>1. /\ oNow \in 0 .. MaxTime /\ oOverlapped \in BOOLEAN
      /\ oEntry \in {0, 1} /\ Len(oLimiters) = oEntry /\ oLimiters \in Seq(Buckets)
      /\ oCaller \in [Waiters -> [limit : Limits, at : Places, lim : {0, 1}, until : Nat]]
      /\ \A c \in Waiters : oCaller[c].lim <= oEntry
  BY DEF LimiterInv, LimiterTypes
<1>2. oEntry \in 0 .. Len(oLimiters)
  BY <1>1
<1>3. \A i \in DOMAIN oLimiters : oLimiters[i] \in Buckets
  BY <1>1
<1>4. \A c \in Waiters : oCaller[c].at \in Places /\ oCaller[c].lim \in 0 .. Len(oLimiters)
  BY <1>1
<1> QED
  BY <1>1, <1>2, <1>3, <1>4 DEF Limiter!TypeOK, Buckets, Places

LEMMA SeriesIsTyped == SeriesInv => Series!TypeOK
<1> SUFFICES ASSUME SeriesInv PROVE Series!TypeOK
  OBVIOUS
<1>1. \A n \in Names : mTables[n] \in Tables
  BY DEF SeriesInv, SeriesTypes
<1>2. \A c \in Callers :
        /\ mCall[c].req \in MeasurementRequests
        /\ mCall[c].todo = <<>> <=> mCall[c].result # "running"
        /\ mCall[c].result \in {"idle", "running", "ok", "error"}
  BY DEF SeriesInv, SeriesTypes
<1> QED
  BY <1>1, <1>2 DEF Series!TypeOK, SeriesInv, SeriesTypes, Tables, Chunks, Retentions,
                          Compressions, Kinds, Written

LEMMA GraphIsTyped == GraphInv => Graph!TypeOK
<1> SUFFICES ASSUME GraphInv PROVE Graph!TypeOK
  OBVIOUS
<1>1. \A c \in Callers : gFound[c].a \cup gFound[c].b \subseteq gNodes
  BY DEF GraphInv, GraphTypes
<1> QED
  BY <1>1 DEF Graph!TypeOK, Graph!Node, GraphInv, GraphTypes

LEMMA VectorsAreTyped == VectorInv => Vectors!TypeOK
<1> SUFFICES ASSUME VectorInv PROVE Vectors!TypeOK
  OBVIOUS
<1>1. \A p \in Stored : p.kind \in {"uuid", "num"} /\ p.entropy \in Nat /\ p.time \in Nat
  <2>1. TAKE p \in Stored
  <2>2. CASE \E t \in Nat : p = [kind |-> "num", time |-> t, entropy |-> 0]
    BY <2>2
  <2>3. CASE \E t \in Nat, e \in Nat \ {0} : p = [kind |-> "uuid", time |-> t, entropy |-> e]
    BY <2>3
  <2> QED
    BY <2>2, <2>3, PointsOf
<1>2. vPoints # NoCollection => DOMAIN vPoints \subseteq Stored
  BY DEF VectorInv, IsCollection
<1>3. \A c \in Callers : vCall[c] \in CallType
  BY DEF VectorInv
<1>4. ASSUME NEW i \in DOMAIN vQueue, NEW w \in vQueue[i]
      PROVE  w.op \in {"upsert", "delete"} /\ w.point.kind = "uuid"
  <2>1. w \in WriteType
    BY DEF VectorInv, QueueType, Batches
  <2>2. w.op \in {"upsert", "delete"} /\ w.point \in Uuids
    BY <2>1, WriteIs
  <2>3. w.point = [kind |-> "uuid", time |-> w.point.time, entropy |-> w.point.entropy]
    BY <2>2, UuidIs
  <2> QED
    BY <2>2, <2>3
<1> QED
  BY <1>1, <1>2, <1>3, <1>4 DEF Vectors!TypeOK, VectorInv, CallType

LEMMA ItemsAreTyped == ItemInv /\ ReaderInv => Store!TypeOK
<1> SUFFICES ASSUME ItemInv, ReaderInv PROVE Store!TypeOK
  OBVIOUS
<1>1. iReader.phase \in {"idle", "reading", "done", "failed"}
  BY ReaderFields DEF ReaderInv, Follows
<1> QED
  BY <1>1 DEF Store!TypeOK, ItemInv, Versions, Rows, SignupType

(* Theorem: the state of every connector keeps its type.                   *)
THEOREM ServicesTypes == Spec => []TypeOK
<1>1. focus \in Focuses /\ Lifecycle!TypeOK /\ Secrets!TypeOK
      /\ LimiterInv /\ SeriesInv /\ GraphInv /\ VectorInv /\ ItemInv /\ ReaderInv
      => TypeOK
  BY LimiterIsTyped, SeriesIsTyped, GraphIsTyped, VectorsAreTyped, ItemsAreTyped DEF TypeOK
<1> QED
  BY <1>1, FocusInvariant, LifecycleTypes, SecretTypes, LimiterInvariant, SeriesInvariant,
     GraphInvariant, VectorInvariant, ItemInvariant, ReaderInvariant, PTL

-----------------------------------------------------------------------------
(* Walks: w goes from a to b in k steps of the relation E on V.            *)
IsWalk(V, E, a, b, k, w) ==
  /\ w \in [0 .. k -> V] /\ w[0] = a /\ w[k] = b
  /\ \A i \in 0 .. k - 1 : <<w[i], w[i + 1]>> \in E
Walks(V, E, a, b, k) == \E w : IsWalk(V, E, a, b, k, w)
Symmetric(E) == \A a, b : <<a, b>> \in E => <<b, a>> \in E

LEMMA WalkStarts ==
  ASSUME NEW V, NEW E, NEW a \in V
  PROVE  /\ Walks(V, E, a, a, 0)
         /\ \A b : Walks(V, E, a, b, 0) => b = a
<1>1. PICK w : w = [i \in 0 .. 0 |-> a]
  OBVIOUS
<1>2. IsWalk(V, E, a, a, 0, w)
  BY <1>1 DEF IsWalk
<1>3. \A b : Walks(V, E, a, b, 0) => b = a
  BY DEF Walks, IsWalk
<1> QED
  BY <1>2, <1>3 DEF Walks

LEMMA WalkGoesOn ==
  ASSUME NEW V, NEW E, NEW a, NEW b, NEW c \in V, NEW k \in Nat,
         Walks(V, E, a, b, k), <<b, c>> \in E
  PROVE  Walks(V, E, a, c, k + 1)
<1>1. PICK w : IsWalk(V, E, a, b, k, w)
  BY DEF Walks
<1>2. PICK v : v = [i \in 0 .. k + 1 |-> IF i = k + 1 THEN c ELSE w[i]]
  OBVIOUS
<1>3. w \in [0 .. k -> V] /\ w[0] = a /\ w[k] = b /\ \A i \in 0 .. k - 1 : <<w[i], w[i + 1]>> \in E
  BY <1>1 DEF IsWalk
<1>4. v \in [0 .. k + 1 -> V] /\ v[0] = a /\ v[k + 1] = c
  BY <1>2, <1>3
<1>5. ASSUME NEW i \in 0 .. k + 1 - 1 PROVE <<v[i], v[i + 1]>> \in E
  <2>1. CASE i = k
    <3>1. v[i] = b /\ v[i + 1] = c
      BY <1>2, <1>3, <2>1
    <3> QED
      BY <3>1
  <2>2. CASE i # k
    <3>1. i \in 0 .. k - 1 /\ v[i] = w[i] /\ v[i + 1] = w[i + 1]
      BY <1>2, <2>2
    <3> QED
      BY <1>3, <3>1
  <2> QED
    BY <2>1, <2>2
<1>6. IsWalk(V, E, a, c, k + 1, v)
  BY <1>4, <1>5 DEF IsWalk
<1> QED
  BY <1>6 DEF Walks

LEMMA WalkCutAt ==
  ASSUME NEW V, NEW E, NEW a, NEW b, NEW k \in Nat, NEW w, IsWalk(V, E, a, b, k, w),
         NEW i \in 0 .. k
  PROVE  Walks(V, E, a, w[i], i) /\ w[i] \in V
<1>1. w \in [0 .. k -> V] /\ w[0] = a /\ \A j \in 0 .. k - 1 : <<w[j], w[j + 1]>> \in E
  BY DEF IsWalk
<1>2. PICK v : v = [j \in 0 .. i |-> w[j]]
  OBVIOUS
<1>3. v \in [0 .. i -> V] /\ v[0] = a /\ v[i] = w[i]
  BY <1>1, <1>2
<1>4. \A j \in 0 .. i - 1 : <<v[j], v[j + 1]>> \in E
  BY <1>1, <1>2
<1>5. IsWalk(V, E, a, w[i], i, v)
  BY <1>3, <1>4 DEF IsWalk
<1> QED
  BY <1>1, <1>5 DEF Walks

LEMMA WalkEnds ==
  ASSUME NEW V, NEW E, NEW a, NEW c, NEW k \in Nat, Walks(V, E, a, c, k + 1)
  PROVE  \E b \in V : Walks(V, E, a, b, k) /\ <<b, c>> \in E /\ c \in V
<1>1. PICK w : IsWalk(V, E, a, c, k + 1, w)
  BY DEF Walks
<1>2. k \in 0 .. k + 1 /\ k + 1 \in Nat
  OBVIOUS
<1>3. Walks(V, E, a, w[k], k) /\ w[k] \in V
  BY <1>1, <1>2, WalkCutAt
<1>4. <<w[k], w[k + 1]>> \in E /\ w[k + 1] = c /\ c \in V
  BY <1>1, <1>2 DEF IsWalk
<1> QED
  BY <1>3, <1>4

LEMMA WalkBack ==
  ASSUME NEW V, NEW E, Symmetric(E), NEW a, NEW b, NEW k \in Nat, Walks(V, E, a, b, k)
  PROVE  Walks(V, E, b, a, k)
<1>1. PICK w : IsWalk(V, E, a, b, k, w)
  BY DEF Walks
<1>2. w \in [0 .. k -> V] /\ w[0] = a /\ w[k] = b /\ \A i \in 0 .. k - 1 : <<w[i], w[i + 1]>> \in E
  BY <1>1 DEF IsWalk
<1>3. PICK v : v = [i \in 0 .. k |-> w[k - i]]
  OBVIOUS
<1>4. v \in [0 .. k -> V] /\ v[0] = b /\ v[k] = a
  BY <1>2, <1>3
<1>5. ASSUME NEW i \in 0 .. k - 1 PROVE <<v[i], v[i + 1]>> \in E
  <2>1. PICK j : j = k - i - 1
    OBVIOUS
  <2>2. j \in 0 .. k - 1 /\ v[i] = w[j + 1] /\ v[i + 1] = w[j]
    <3>1. j \in 0 .. k - 1 /\ k - i = j + 1 /\ k - (i + 1) = j
      BY <2>1
    <3> QED
      BY <1>3, <3>1
  <2>3. <<w[j], w[j + 1]>> \in E
    BY <1>2, <2>2
  <2> QED
    BY <2>2, <2>3 DEF Symmetric
<1>6. IsWalk(V, E, b, a, k, v)
  BY <1>4, <1>5 DEF IsWalk
<1> QED
  BY <1>6 DEF Walks

(* A walk that could not be shorter passes nowhere twice.                  *)
LEMMA ShortestIsSimple ==
  ASSUME NEW V, NEW E, NEW a, NEW b, NEW k \in Nat, NEW w, IsWalk(V, E, a, b, k, w),
         \A h \in Nat : Walks(V, E, a, b, h) => k <= h
  PROVE  \A i, j \in 0 .. k : i < j => w[i] # w[j]
<1> SUFFICES ASSUME NEW i \in 0 .. k, NEW j \in 0 .. k, i < j, w[i] = w[j] PROVE FALSE
  OBVIOUS
<1>1. w \in [0 .. k -> V] /\ w[0] = a /\ w[k] = b /\ \A x \in 0 .. k - 1 : <<w[x], w[x + 1]>> \in E
  BY DEF IsWalk
<1>2. PICK g : g = j - i
  OBVIOUS
<1>3. PICK h : h = k - g
  OBVIOUS
<1>4. g \in Nat /\ g > 0 /\ h \in Nat /\ h < k /\ i <= h /\ i + g = j /\ h + g = k
  BY <1>2, <1>3
<1>5. PICK v : v = [x \in 0 .. h |-> IF x <= i THEN w[x] ELSE w[x + g]]
  OBVIOUS
<1>6. \A x \in 0 .. h : x \in 0 .. k /\ (x > i => x + g \in 0 .. k)
  BY <1>4
<1>7. v \in [0 .. h -> V]
  BY <1>1, <1>5, <1>6
<1>8. v[0] = a /\ v[h] = b
  <2>1. 0 \in 0 .. h /\ h \in 0 .. h
    BY <1>4
  <2>2. v[0] = a
    BY <1>1, <1>5, <2>1
  <2>3. CASE h > i
    <3>1. v[h] = w[h + g]
      BY <1>4, <1>5, <2>1, <2>3
    <3> QED
      BY <1>1, <1>4, <2>2, <3>1
  <2>4. CASE h = i
    <3>1. v[h] = w[i] /\ j = k
      BY <1>4, <1>5, <2>1, <2>4
    <3> QED
      BY <1>1, <2>2, <3>1
  <2> QED
    BY <1>4, <2>3, <2>4
<1>9. ASSUME NEW x \in 0 .. h - 1 PROVE <<v[x], v[x + 1]>> \in E
  <2>1. x \in 0 .. h /\ x + 1 \in 0 .. h
    BY <1>4
  <2>2. CASE x < i
    <3>1. v[x] = w[x] /\ v[x + 1] = w[x + 1] /\ x \in 0 .. k - 1
      BY <1>4, <1>5, <2>1, <2>2
    <3> QED
      BY <1>1, <3>1
  <2>3. CASE x = i
    <3>1. v[x] = w[j] /\ x + 1 > i
      BY <1>5, <2>1, <2>3
    <3>2. v[x + 1] = w[x + 1 + g]
      BY <1>5, <2>1, <3>1
    <3>3. x + 1 + g = j + 1 /\ j \in 0 .. k - 1
      BY <1>4, <2>1, <2>3
    <3> QED
      BY <1>1, <3>1, <3>2, <3>3
  <2>4. CASE x > i
    <3>1. v[x] = w[x + g] /\ v[x + 1] = w[x + 1 + g]
      BY <1>5, <2>1, <2>4
    <3>2. PICK y : y = x + g
      OBVIOUS
    <3>3. y \in 0 .. k - 1 /\ x + 1 + g = y + 1
      BY <1>4, <2>1, <3>2
    <3>4. v[x] = w[y] /\ v[x + 1] = w[y + 1]
      BY <3>1, <3>2, <3>3
    <3> QED
      BY <1>1, <3>3, <3>4
  <2> QED
    BY <2>1, <2>2, <2>3, <2>4
<1>10. IsWalk(V, E, a, b, h, v)
  BY <1>7, <1>8, <1>9 DEF IsWalk
<1>11. k <= h
  BY <1>4, <1>10 DEF Walks
<1> QED
  BY <1>4, <1>11

(* A step taken again and again: f[k] is where k steps lead.               *)
Iterated(D, F, x, d, f) ==
  f \in [0 .. d -> D] /\ f = [k \in 0 .. d |-> IF k = 0 THEN x ELSE F[f[k - 1]]]

LEMMA Iterates ==
  ASSUME NEW D, NEW F \in [D -> D], NEW x \in D, NEW d \in Nat
  PROVE  \E f : Iterated(D, F, x, d, f)
<1> DEFINE T == {n \in Nat : ~ \E f : Iterated(D, F, x, n, f)}
<1>1. SUFFICES ASSUME T # {} PROVE FALSE
  OBVIOUS
<1>2. T \in SUBSET Nat
  OBVIOUS
<1> HIDE DEF T
<1>3. PICK n \in T : \A m \in T : n <= m
  BY <1>1, <1>2, Least
<1>4. n \in Nat /\ ~ \E f : Iterated(D, F, x, n, f)
  BY DEF T
<1>5. CASE n = 0
  <2>1. PICK f : f = [k \in 0 .. 0 |-> x]
    OBVIOUS
  <2>2. f \in [0 .. 0 -> D] /\ f = [k \in 0 .. 0 |-> IF k = 0 THEN x ELSE F[f[k - 1]]]
    BY <2>1
  <2> QED
    BY <1>4, <1>5, <2>2 DEF Iterated
<1>6. CASE n # 0
  <2>1. PICK m \in Nat : n = m + 1
    <3>1. n - 1 \in Nat /\ n = (n - 1) + 1
      BY <1>4, <1>6
    <3> QED
      BY <3>1
  <2>2. m \notin T
    BY <1>3, <2>1
  <2>3. PICK f : Iterated(D, F, x, m, f)
    BY <2>2 DEF T
  <2>4. f \in [0 .. m -> D] /\ f[0] = x /\ \A k \in 1 .. m : f[k] = F[f[k - 1]]
    <3>1. f \in [0 .. m -> D] /\ \A k \in 0 .. m : f[k] = IF k = 0 THEN x ELSE F[f[k - 1]]
      BY <2>3 DEF Iterated
    <3> QED
      BY <3>1
  <2>5. PICK g : g = [k \in 0 .. m + 1 |-> IF k = m + 1 THEN F[f[m]] ELSE f[k]]
    OBVIOUS
  <2>6. f[m] \in D /\ F[f[m]] \in D
    BY <2>4
  <2>7. g \in [0 .. m + 1 -> D]
    BY <2>4, <2>5, <2>6
  <2>8. ASSUME NEW k \in 0 .. m + 1 PROVE g[k] = IF k = 0 THEN x ELSE F[g[k - 1]]
    <3>1. CASE k = m + 1
      <4>1. g[k - 1] = f[m] /\ g[k] = F[f[m]]
        BY <2>5, <3>1
      <4> QED
        BY <3>1, <4>1
    <3>2. CASE k = 0
      <4>1. g[k] = f[0]
        BY <2>5, <3>2
      <4> QED
        BY <2>4, <3>2, <4>1
    <3>3. CASE k \in 1 .. m
      <4>1. g[k] = f[k] /\ g[k - 1] = f[k - 1]
        BY <2>5, <3>3
      <4> QED
        BY <2>4, <3>3, <4>1
    <3> QED
      BY <3>1, <3>2, <3>3
  <2>9. g = [k \in 0 .. m + 1 |-> IF k = 0 THEN x ELSE F[g[k - 1]]]
    BY <2>7, <2>8
  <2> QED
    BY <1>4, <2>1, <2>7, <2>9 DEF Iterated
<1> QED
  BY <1>5, <1>6

(* Walks over friendships that no block cuts.                              *)
Hops ==
  {e \in gNodes \X gNodes :
     (<<e[1], e[2]>> \in gFriend \/ <<e[2], e[1]>> \in gFriend) /\ ~Graph!BlockEdge(e[1], e[2])}
Linked(m, n) == \E d \in Nat : Walks(gNodes, Hops, m, n, d)

LEMMA HopsAre ==
  /\ Symmetric(Hops)
  /\ \A m, n \in gNodes : <<m, n>> \in Hops <=>
       (<<m, n>> \in gFriend \/ <<n, m>> \in gFriend) /\ ~Graph!BlockEdge(m, n)
<1>1. \A m, n \in gNodes : <<m, n>> \in Hops <=>
        (<<m, n>> \in gFriend \/ <<n, m>> \in gFriend) /\ ~Graph!BlockEdge(m, n)
  BY DEF Hops
<1>2. ASSUME NEW m, NEW n, <<m, n>> \in Hops PROVE <<n, m>> \in Hops
  <2>1. m \in gNodes /\ n \in gNodes
    BY <1>2 DEF Hops
  <2>2. Graph!BlockEdge(m, n) <=> Graph!BlockEdge(n, m)
    BY DEF Graph!BlockEdge
  <2> QED
    BY <1>1, <1>2, <2>1, <2>2
<1> QED
  BY <1>1, <1>2 DEF Symmetric

(* The paths of neo4j.go.                                                  *)
PathType == [end : gNodes, used : SUBSET gFriend]
OneMore(p, e, q) ==
  /\ e \in gFriend /\ e \notin p.used /\ p.end \in {e[1], e[2]} /\ ~Graph!BlockEdge(e[1], e[2])
  /\ q = [end |-> IF e[1] = p.end THEN e[2] ELSE e[1], used |-> p.used \cup {e}]

LEMMA LongerIs ==
  ASSUME GraphInv, NEW P \in SUBSET PathType
  PROVE  /\ Graph!Longer(P) \in SUBSET PathType
         /\ \A q : q \in Graph!Longer(P) <=> \E p \in P : \E e : OneMore(p, e, q)
<1>1. \A q : q \in Graph!Longer(P) <=> \E p \in P : \E e : OneMore(p, e, q)
  BY DEF Graph!Longer, OneMore
<1>2. ASSUME NEW q \in Graph!Longer(P) PROVE q \in PathType
  <2>1. PICK p \in P : \E e : OneMore(p, e, q)
    BY <1>1
  <2>2. PICK e : OneMore(p, e, q)
    BY <2>1
  <2>3. e \in gFriend /\ e[1] \in gNodes /\ e[2] \in gNodes
    BY <2>2 DEF OneMore, GraphInv, GraphTypes
  <2>4. p.used \cup {e} \in SUBSET gFriend
    BY <2>3 DEF PathType
  <2> QED
    BY <2>2, <2>3, <2>4 DEF OneMore, PathType
<1> QED
  BY <1>1, <1>2

LEMMA PathsIterate ==
  ASSUME GraphInv, NEW n \in gNodes, NEW d \in Nat
  PROVE  /\ Graph!Paths(n, d) \in [0 .. d -> SUBSET PathType]
         /\ Graph!Paths(n, d)[0] = {[end |-> n, used |-> {}]}
         /\ \A k \in 1 .. d : Graph!Paths(n, d)[k] = Graph!Longer(Graph!Paths(n, d)[k - 1])
<1>1. PICK start : start = {[end |-> n, used |-> {}]}
  OBVIOUS
<1>2. start \in SUBSET PathType
  BY <1>1 DEF PathType
<1>3. PICK F : F = [P \in SUBSET PathType |-> Graph!Longer(P)]
  OBVIOUS
<1>4. F \in [SUBSET PathType -> SUBSET PathType]
  BY <1>3, LongerIs
<1>5. PICK f : Iterated(SUBSET PathType, F, start, d, f)
  BY <1>2, <1>4, Iterates
<1> DEFINE Q(g) == g = [k \in 0 .. d |-> IF k = 0 THEN start ELSE Graph!Longer(g[k - 1])]
<1>6. Q(f)
  <2>1. /\ f \in [0 .. d -> SUBSET PathType]
        /\ f = [k \in 0 .. d |-> IF k = 0 THEN start ELSE F[f[k - 1]]]
    BY <1>5 DEF Iterated
  <2>2. \A k \in 1 .. d : F[f[k - 1]] = Graph!Longer(f[k - 1])
    <3>1. f \in [0 .. d -> SUBSET PathType] /\ \A k \in 1 .. d : k - 1 \in 0 .. d
      BY <2>1
    <3>2. \A k \in 1 .. d : f[k - 1] \in SUBSET PathType
      BY <3>1
    <3> QED
      BY <1>3, <3>2
  <2>3. \A k \in 0 .. d : f[k] = IF k = 0 THEN start ELSE Graph!Longer(f[k - 1])
    <3>1. \A k \in 0 .. d : f[k] = IF k = 0 THEN start ELSE F[f[k - 1]]
      BY <2>1
    <3> QED
      BY <2>2, <3>1
  <2> QED
    BY <2>1, <2>3
<1>7. Graph!Paths(n, d) = CHOOSE g : Q(g)
  BY <1>1, Zenon DEF Graph!Paths
<1>8. Q(Graph!Paths(n, d))
  <2>1. Q(CHOOSE g : Q(g))
    <3> HIDE DEF Q
    <3> QED
      BY <1>6, Zenon
  <2> QED
    BY <1>7, <2>1, Zenon
<1>9. PICK g : g = Graph!Paths(n, d)
  OBVIOUS
<1>10. g = [k \in 0 .. d |-> IF k = 0 THEN start ELSE Graph!Longer(g[k - 1])]
  BY <1>8, <1>9
<1>11. g[0] = start /\ \A k \in 1 .. d : g[k] = Graph!Longer(g[k - 1])
  BY <1>10
<1> DEFINE T == {k \in Nat : k <= d /\ g[k] \notin SUBSET PathType}
<1>12. T = {}
  <2>1. SUFFICES ASSUME T # {} PROVE FALSE
    OBVIOUS
  <2>2. T \in SUBSET Nat
    OBVIOUS
  <2> HIDE DEF T
  <2>3. PICK k \in T : \A h \in T : k <= h
    BY <2>1, <2>2, Least
  <2>4. k \in Nat /\ k <= d /\ g[k] \notin SUBSET PathType
    BY DEF T
  <2>5. k # 0
    BY <1>2, <1>11, <2>4
  <2>6. k - 1 \in Nat /\ k - 1 <= d /\ k - 1 \notin T /\ k \in 1 .. d
    BY <2>2, <2>3, <2>4, <2>5
  <2>7. g[k - 1] \in SUBSET PathType
    BY <2>6 DEF T
  <2>8. Graph!Longer(g[k - 1]) \in SUBSET PathType
    BY <2>7, LongerIs
  <2> QED
    BY <1>11, <2>4, <2>6, <2>8
<1>13. \A k \in 0 .. d : g[k] \in SUBSET PathType
  BY <1>12
<1>14. g \in [0 .. d -> SUBSET PathType]
  BY <1>10, <1>13
<1> QED
  BY <1>1, <1>9, <1>11, <1>14

(* A path is a walk, and a walk that passes nowhere twice is a path.       *)
LEMMA PathsAreWalks ==
  ASSUME GraphInv, NEW n \in gNodes, NEW d \in Nat, NEW k \in 0 .. d, NEW p \in Graph!Paths(n, d)[k]
  PROVE  Walks(gNodes, Hops, n, p.end, k) /\ p.end \in gNodes
<1>1. PICK g : g = Graph!Paths(n, d)
  OBVIOUS
<1>2. /\ g \in [0 .. d -> SUBSET PathType] /\ g[0] = {[end |-> n, used |-> {}]}
      /\ \A h \in 1 .. d : g[h] = Graph!Longer(g[h - 1])
  BY <1>1, PathsIterate
<1> DEFINE Bad(h) == \E q \in g[h] : ~Walks(gNodes, Hops, n, q.end, h)
           T == {h \in Nat : h <= d /\ Bad(h)}
<1>3. T = {}
  <2>1. SUFFICES ASSUME T # {} PROVE FALSE
    OBVIOUS
  <2>2. T \in SUBSET Nat
    OBVIOUS
  <2> HIDE DEF T
  <2>3. PICK h \in T : \A i \in T : h <= i
    BY <2>1, <2>2, Least
  <2>4. h \in Nat /\ h <= d /\ Bad(h)
    BY DEF T
  <2>5. PICK q \in g[h] : ~Walks(gNodes, Hops, n, q.end, h)
    BY <2>4
  <2>6. CASE h = 0
    <3>1. q.end = n
      BY <1>2, <2>5, <2>6
    <3>2. Walks(gNodes, Hops, n, n, 0)
      BY WalkStarts
    <3> QED
      BY <2>5, <2>6, <3>1, <3>2
  <2>7. CASE h # 0
    <3>1. PICK i \in Nat : h = i + 1
      <4>1. h - 1 \in Nat /\ h = (h - 1) + 1
        BY <2>4, <2>7
      <4> QED
        BY <4>1
    <3>2. i \in 0 .. d /\ h \in 1 .. d /\ h - 1 = i /\ i \notin T
      BY <2>2, <2>3, <2>4, <3>1
    <3>3. g[i] \in SUBSET PathType /\ g[h] = Graph!Longer(g[i])
      BY <1>2, <3>2
    <3>4. PICK o \in g[i] : \E e : OneMore(o, e, q)
      BY <2>5, <3>3, LongerIs
    <3>5. PICK e : OneMore(o, e, q)
      BY <3>4
    <3>6. Walks(gNodes, Hops, n, o.end, i)
      BY <3>2, <3>4 DEF T
    <3>7. e \in gFriend /\ e[1] \in gNodes /\ e[2] \in gNodes /\ e = <<e[1], e[2]>>
      BY <3>5 DEF OneMore, GraphInv, GraphTypes
    <3>8. <<o.end, q.end>> \in Hops /\ q.end \in gNodes
      <4>1. CASE o.end = e[1]
        <5>1. q.end = e[2] /\ ~Graph!BlockEdge(e[1], e[2])
          BY <3>5, <4>1 DEF OneMore
        <5> QED
          BY <3>7, <4>1, <5>1, HopsAre
      <4>2. CASE o.end # e[1]
        <5>1. o.end = e[2] /\ q.end = e[1] /\ ~Graph!BlockEdge(e[1], e[2])
          BY <3>5, <4>2 DEF OneMore
        <5>2. <<e[1], e[2]>> \in Hops
          BY <3>7, <5>1, HopsAre
        <5> QED
          BY <3>7, <5>1, <5>2, HopsAre DEF Symmetric
      <4> QED
        BY <4>1, <4>2
    <3>9. Walks(gNodes, Hops, n, q.end, i + 1)
      BY <3>6, <3>8, WalkGoesOn
    <3> QED
      BY <2>5, <3>1, <3>9
  <2> QED
    BY <2>6, <2>7
<1>4. Walks(gNodes, Hops, n, p.end, k)
  BY <1>1, <1>3
<1>5. p.end \in gNodes
  BY <1>1, <1>2 DEF PathType
<1> QED
  BY <1>4, <1>5

LEMMA WalksArePaths ==
  ASSUME GraphInv, NEW n \in gNodes, NEW m, NEW d \in Nat, NEW k \in 0 .. d, NEW w,
         IsWalk(gNodes, Hops, n, m, k, w), \A i, j \in 0 .. k : i < j => w[i] # w[j]
  PROVE  \E p \in Graph!Paths(n, d)[k] : p.end = m
<1>1. PICK g : g = Graph!Paths(n, d)
  OBVIOUS
<1>2. /\ g \in [0 .. d -> SUBSET PathType] /\ g[0] = {[end |-> n, used |-> {}]}
      /\ \A h \in 1 .. d : g[h] = Graph!Longer(g[h - 1])
  BY <1>1, PathsIterate
<1>3. /\ w \in [0 .. k -> gNodes] /\ w[0] = n /\ w[k] = m
      /\ \A i \in 0 .. k - 1 : <<w[i], w[i + 1]>> \in Hops
  BY DEF IsWalk
<1> DEFINE Along(p, h) == /\ p.end = w[h]
                          /\ \A e \in p.used : \E i, j \in 0 .. h : e[1] = w[i] /\ e[2] = w[j]
           T == {h \in Nat : h <= k /\ ~ \E p \in g[h] : Along(p, h)}
<1>4. T = {}
  <2>1. SUFFICES ASSUME T # {} PROVE FALSE
    OBVIOUS
  <2>2. T \in SUBSET Nat
    OBVIOUS
  <2> HIDE DEF T
  <2>3. PICK h \in T : \A i \in T : h <= i
    BY <2>1, <2>2, Least
  <2>4. h \in Nat /\ h <= k /\ ~ \E p \in g[h] : Along(p, h)
    BY DEF T
  <2>5. CASE h = 0
    <3>1. PICK p : p = [end |-> n, used |-> {}]
      OBVIOUS
    <3>2. p \in g[h] /\ Along(p, h)
      BY <1>2, <1>3, <2>5, <3>1
    <3> QED
      BY <2>4, <3>2
  <2>6. CASE h # 0
    <3>1. PICK i \in Nat : h = i + 1
      <4>1. h - 1 \in Nat /\ h = (h - 1) + 1
        BY <2>4, <2>6
      <4> QED
        BY <4>1
    <3>2. i \in 0 .. d /\ h \in 1 .. d /\ h - 1 = i /\ i \notin T /\ i \in 0 .. k - 1 /\ h \in 0 .. k
      BY <2>2, <2>3, <2>4, <3>1
    <3>3. g[i] \in SUBSET PathType /\ g[h] = Graph!Longer(g[i])
      BY <1>2, <3>2
    <3>4. PICK o \in g[i] : Along(o, i)
      BY <3>2 DEF T
    <3>5. /\ w[i] \in gNodes /\ w[h] \in gNodes /\ <<w[i], w[h]>> \in Hops
          /\ \A j \in 0 .. i : j \in 0 .. k /\ w[j] # w[h]
      BY <1>3, <3>1, <3>2
    <3>6. PICK e : /\ e \in gFriend /\ ~Graph!BlockEdge(e[1], e[2])
                   /\ (e = <<w[i], w[h]>> \/ e = <<w[h], w[i]>>)
      <4>1. CASE <<w[i], w[h]>> \in gFriend
        <5>1. ~Graph!BlockEdge(w[i], w[h])
          BY <3>5, HopsAre
        <5> QED
          BY <4>1, <5>1
      <4>2. CASE <<w[h], w[i]>> \in gFriend
        <5>1. ~Graph!BlockEdge(w[h], w[i])
          BY <3>5, HopsAre DEF Graph!BlockEdge
        <5> QED
          BY <4>2, <5>1
      <4> QED
        BY <3>5, <4>1, <4>2, HopsAre
    <3>7. w[i] # w[h] /\ i \in 0 .. i
      BY <3>1, <3>5
    <3>8. e \notin o.used
      <4>1. SUFFICES ASSUME e \in o.used PROVE FALSE
        OBVIOUS
      <4>2. PICK a, b \in 0 .. i : e[1] = w[a] /\ e[2] = w[b]
        BY <3>4, <4>1
      <4>3. w[a] # w[h] /\ w[b] # w[h]
        BY <3>5, <4>2
      <4> QED
        BY <3>6, <4>2, <4>3
    <3>9. PICK q : q = [end |-> IF e[1] = o.end THEN e[2] ELSE e[1], used |-> o.used \cup {e}]
      OBVIOUS
    <3>10. OneMore(o, e, q) /\ q.end = w[h]
      <4>1. o.end = w[i]
        BY <3>4
      <4>2. CASE e = <<w[i], w[h]>>
        BY <3>6, <3>7, <3>8, <3>9, <4>1, <4>2 DEF OneMore
      <4>3. CASE e = <<w[h], w[i]>>
        BY <3>6, <3>7, <3>8, <3>9, <4>1, <4>3 DEF OneMore
      <4> QED
        BY <3>6, <4>2, <4>3
    <3>11. q \in g[h]
      BY <3>3, <3>4, <3>10, LongerIs
    <3>12. ASSUME NEW f \in q.used PROVE \E a, b \in 0 .. h : f[1] = w[a] /\ f[2] = w[b]
      <4>1. f = e \/ f \in o.used
        BY <3>9, <3>12
      <4>2. CASE f = e
        <5>1. i \in 0 .. h /\ h \in 0 .. h
          BY <3>1
        <5> QED
          BY <3>6, <4>2, <5>1
      <4>3. CASE f \in o.used
        <5>1. PICK a, b \in 0 .. i : f[1] = w[a] /\ f[2] = w[b]
          BY <3>4, <4>3
        <5>2. a \in 0 .. h /\ b \in 0 .. h
          BY <3>1, <5>1
        <5> QED
          BY <5>1, <5>2
      <4> QED
        BY <4>1, <4>2, <4>3
    <3>13. Along(q, h)
      BY <3>10, <3>12
    <3> QED
      BY <2>4, <3>11, <3>13
  <2> QED
    BY <2>5, <2>6
<1>5. \E p \in g[k] : Along(p, k)
  BY <1>4
<1>6. \E p \in g[k] : p.end = m
  BY <1>3, <1>5
<1> QED
  BY <1>1, <1>6

(* The ends of the paths, but for where they start.                        *)
LEMMA PathEndsAre ==
  ASSUME GraphInv, NEW n \in gNodes, NEW m, m # n, NEW d \in Nat
  PROVE  m \in Graph!PathEnds(n, d) <=> \E k \in 0 .. d : Walks(gNodes, Hops, n, m, k)
<1>1. m \in Graph!PathEnds(n, d) <=> \E k \in 1 .. d : \E p \in Graph!Paths(n, d)[k] : p.end = m
  BY DEF Graph!PathEnds
<1>2. ASSUME NEW k \in 1 .. d, NEW p \in Graph!Paths(n, d)[k], p.end = m
      PROVE  \E h \in 0 .. d : Walks(gNodes, Hops, n, m, h)
  <2>1. k \in 0 .. d
    OBVIOUS
  <2>2. Walks(gNodes, Hops, n, m, k)
    BY <1>2, <2>1, PathsAreWalks
  <2> QED
    BY <2>1, <2>2
<1>3. ASSUME NEW k \in 0 .. d, Walks(gNodes, Hops, n, m, k)
      PROVE  \E h \in 1 .. d : \E p \in Graph!Paths(n, d)[h] : p.end = m
  <2> DEFINE T == {h \in Nat : Walks(gNodes, Hops, n, m, h)}
  <2>1. T \in SUBSET Nat /\ k \in T
    BY <1>3
  <2>2. \A h : h \in T <=> h \in Nat /\ Walks(gNodes, Hops, n, m, h)
    OBVIOUS
  <2> HIDE DEF T
  <2>3. PICK h \in T : \A i \in T : h <= i
    BY <2>1, Least
  <2>4. h \in Nat /\ h <= k /\ Walks(gNodes, Hops, n, m, h)
    BY <2>1, <2>2, <2>3
  <2>5. h # 0
    <3>1. ~Walks(gNodes, Hops, n, m, 0)
      BY WalkStarts
    <3> QED
      BY <2>4, <3>1
  <2>6. PICK w : IsWalk(gNodes, Hops, n, m, h, w)
    BY <2>4 DEF Walks
  <2>7. \A i \in Nat : Walks(gNodes, Hops, n, m, i) => h <= i
    BY <2>2, <2>3
  <2>8. \A i, j \in 0 .. h : i < j => w[i] # w[j]
    BY <2>4, <2>6, <2>7, ShortestIsSimple
  <2>9. h \in 0 .. d /\ h \in 1 .. d
    BY <2>4, <2>5
  <2>10. \E p \in Graph!Paths(n, d)[h] : p.end = m
    BY <2>6, <2>8, <2>9, WalksArePaths
  <2> QED
    BY <2>9, <2>10
<1> QED
  BY <1>1, <1>2, <1>3

(* WithinDegrees: users with linked nodes that have no block between them. *)
Sees(u, v, d) ==
  /\ u # v
  /\ \E m, n \in gNodes : /\ m[1] = u /\ n[1] = v /\ ~Graph!BlockEdge(m, n)
                          /\ \E k \in 0 .. d : Walks(gNodes, Hops, m, n, k)

LEMMA WithinAre ==
  ASSUME GraphInv, NEW u, NEW v, NEW d \in Nat
  PROVE  v \in Graph!WithinDegrees(u, d) <=> Sees(u, v, d)
<1>1. v \in Graph!WithinDegrees(u, d) <=>
        \E m \in gNodes : m[1] = u /\ \E n \in Graph!PathEnds(m, d) :
          n[1] # u /\ ~Graph!BlockEdge(m, n) /\ n[1] = v
  BY DEF Graph!WithinDegrees, Graph!MatchUser
<1>2. ASSUME NEW m \in gNodes, m[1] = u, NEW n, n[1] # u
      PROVE  n \in Graph!PathEnds(m, d) <=> \E k \in 0 .. d : Walks(gNodes, Hops, m, n, k)
  <2>1. n # m
    BY <1>2
  <2> QED
    BY <2>1, PathEndsAre
<1>3. ASSUME NEW m \in gNodes, NEW n, NEW k \in 0 .. d, Walks(gNodes, Hops, m, n, k)
      PROVE  n \in gNodes
  BY <1>3 DEF Walks, IsWalk
<1>4. ASSUME v \in Graph!WithinDegrees(u, d) PROVE Sees(u, v, d)
  <2>1. PICK m \in gNodes : m[1] = u /\ \E n \in Graph!PathEnds(m, d) :
          n[1] # u /\ ~Graph!BlockEdge(m, n) /\ n[1] = v
    BY <1>1, <1>4
  <2>2. PICK n \in Graph!PathEnds(m, d) : n[1] # u /\ ~Graph!BlockEdge(m, n) /\ n[1] = v
    BY <2>1
  <2>3. PICK k \in 0 .. d : Walks(gNodes, Hops, m, n, k)
    BY <1>2, <2>1, <2>2
  <2>4. n \in gNodes
    BY <1>3, <2>3
  <2> QED
    BY <2>1, <2>2, <2>3, <2>4 DEF Sees
<1>5. ASSUME Sees(u, v, d) PROVE v \in Graph!WithinDegrees(u, d)
  <2>1. PICK m, n \in gNodes : /\ m[1] = u /\ n[1] = v /\ ~Graph!BlockEdge(m, n)
                               /\ \E k \in 0 .. d : Walks(gNodes, Hops, m, n, k)
    BY <1>5 DEF Sees
  <2>2. n[1] # u
    BY <1>5, <2>1 DEF Sees
  <2>3. n \in Graph!PathEnds(m, d)
    BY <1>2, <2>1, <2>2
  <2> QED
    BY <1>1, <2>1, <2>2, <2>3
<1> QED
  BY <1>4, <1>5

LEMMA SeesBack ==
  ASSUME NEW u, NEW v, NEW d \in Nat, Sees(u, v, d)
  PROVE  Sees(v, u, d)
<1>1. PICK m, n \in gNodes : /\ m[1] = u /\ n[1] = v /\ ~Graph!BlockEdge(m, n)
                             /\ \E k \in 0 .. d : Walks(gNodes, Hops, m, n, k)
  BY DEF Sees
<1>2. PICK k \in 0 .. d : Walks(gNodes, Hops, m, n, k)
  BY <1>1
<1>3. Walks(gNodes, Hops, n, m, k)
  BY <1>2, WalkBack, HopsAre
<1>4. ~Graph!BlockEdge(n, m)
  BY <1>1 DEF Graph!BlockEdge
<1> QED
  BY <1>1, <1>3, <1>4 DEF Sees

LEMMA AnswersAreSymmetric == GraphInv => Graph!SymmetricAnswers
<1> SUFFICES ASSUME GraphInv, NEW u \in Users, NEW v \in Users, NEW d \in 1 .. MaxDegrees
             PROVE  v \in Graph!WithinDegrees(u, d) <=> u \in Graph!WithinDegrees(v, d)
  BY DEF Graph!SymmetricAnswers
<1>1. d \in Nat
  OBVIOUS
<1>2. v \in Graph!WithinDegrees(u, d) <=> Sees(u, v, d)
  BY <1>1, WithinAre
<1>3. u \in Graph!WithinDegrees(v, d) <=> Sees(v, u, d)
  BY <1>1, WithinAre
<1>4. Sees(u, v, d) <=> Sees(v, u, d)
  BY <1>1, SeesBack
<1> QED
  BY <1>2, <1>3, <1>4

(* The graph of users, when each has one node.                             *)
OneNode == \A m, n \in gNodes : m[1] = n[1] => m = n

LEMMA BlockedAre ==
  ASSUME GraphInv, OneNode, NEW m \in gNodes, NEW n \in gNodes
  PROVE  Graph!Social!Blocked(m[1], n[1]) <=> Graph!BlockEdge(m, n)
<1>1. \A a, b \in gNodes :
        <<a[1], b[1]>> \in {<<e[1][1], e[2][1]>> : e \in gBlock} <=> <<a, b>> \in gBlock
  <2>1. ASSUME NEW a \in gNodes, NEW b \in gNodes, NEW e \in gBlock,
               <<a[1], b[1]>> = <<e[1][1], e[2][1]>>
        PROVE  <<a, b>> \in gBlock
    <3>1. e = <<e[1], e[2]>> /\ e[1] \in gNodes /\ e[2] \in gNodes
      BY DEF GraphInv, GraphTypes
    <3>2. a = e[1] /\ b = e[2]
      BY <2>1, <3>1 DEF OneNode
    <3> QED
      BY <3>1, <3>2
  <2> QED
    BY <2>1
<1> QED
  BY <1>1 DEF Graph!Social!Blocked, Graph!BlockEdge

LEMMA FriendsAre ==
  ASSUME GraphInv, OneNode, NEW m \in gNodes, NEW v
  PROVE  {m[1], v} \in {{e[1][1], e[2][1]} : e \in gFriend} <=>
           \E n \in gNodes : n[1] = v /\ (<<m, n>> \in gFriend \/ <<n, m>> \in gFriend)
<1>1. ASSUME NEW e \in gFriend, {m[1], v} = {e[1][1], e[2][1]}
      PROVE  \E n \in gNodes : n[1] = v /\ (<<m, n>> \in gFriend \/ <<n, m>> \in gFriend)
  <2>1. e = <<e[1], e[2]>> /\ e[1] \in gNodes /\ e[2] \in gNodes
    BY DEF GraphInv, GraphTypes
  <2>2. (m[1] = e[1][1] /\ v = e[2][1]) \/ (m[1] = e[2][1] /\ v = e[1][1])
    BY <1>1
  <2>3. CASE m[1] = e[1][1] /\ v = e[2][1]
    <3>1. m = e[1]
      BY <2>1, <2>3 DEF OneNode
    <3> QED
      BY <2>1, <2>3, <3>1
  <2>4. CASE m[1] = e[2][1] /\ v = e[1][1]
    <3>1. m = e[2]
      BY <2>1, <2>4 DEF OneNode
    <3> QED
      BY <2>1, <2>4, <3>1
  <2> QED
    BY <2>2, <2>3, <2>4
<1>2. ASSUME NEW n \in gNodes, n[1] = v, <<m, n>> \in gFriend \/ <<n, m>> \in gFriend
      PROVE  \E e \in gFriend : {m[1], v} = {e[1][1], e[2][1]}
  <2>1. CASE <<m, n>> \in gFriend
    BY <1>2, <2>1
  <2>2. CASE <<n, m>> \in gFriend
    BY <1>2, <2>2
  <2> QED
    BY <1>2, <2>1, <2>2
<1> QED
  BY <1>1, <1>2

LEMMA FurtherAre ==
  ASSUME GraphInv, OneNode, NEW S \in SUBSET Users
  PROVE  /\ Graph!Social!Further(S) \in SUBSET Users
         /\ \A v : v \in Graph!Social!Further(S) <=>
              v \in S \/ \E m, n \in gNodes : m[1] \in S /\ n[1] = v /\ <<m, n>> \in Hops
<1> DEFINE Friends == {{e[1][1], e[2][1]} : e \in gFriend}
<1>1. \A v : v \in Graph!Social!Further(S) <=>
        v \in S \/ (v \in Users /\ \E w \in S : {w, v} \in Friends /\ ~Graph!Social!Blocked(w, v))
  BY DEF Graph!Social!Further
<1>2. ASSUME NEW v \in Users, NEW w \in S, {w, v} \in Friends, ~Graph!Social!Blocked(w, v)
      PROVE  \E m, n \in gNodes : m[1] \in S /\ n[1] = v /\ <<m, n>> \in Hops
  <2>1. PICK e \in gFriend : {w, v} = {e[1][1], e[2][1]}
    BY <1>2
  <2>2. e[1] \in gNodes /\ e[2] \in gNodes
    BY DEF GraphInv, GraphTypes
  <2>3. PICK m \in gNodes : m[1] = w
    <3>1. w = e[1][1] \/ w = e[2][1]
      BY <2>1
    <3> QED
      BY <2>2, <3>1
  <2>4. {m[1], v} \in {{f[1][1], f[2][1]} : f \in gFriend}
    BY <1>2, <2>3
  <2>5. PICK n \in gNodes : n[1] = v /\ (<<m, n>> \in gFriend \/ <<n, m>> \in gFriend)
    BY <2>4, FriendsAre
  <2>6. ~Graph!BlockEdge(m, n)
    <3>1. ~Graph!Social!Blocked(m[1], n[1])
      BY <1>2, <2>3, <2>5
    <3> QED
      BY <3>1, BlockedAre
  <2>7. <<m, n>> \in Hops
    BY <2>5, <2>6, HopsAre
  <2> QED
    BY <2>3, <2>5, <2>7
<1>3. ASSUME NEW m \in gNodes, NEW n \in gNodes, m[1] \in S, <<m, n>> \in Hops
      PROVE  /\ n[1] \in Users
             /\ \E w \in S : {w, n[1]} \in Friends /\ ~Graph!Social!Blocked(w, n[1])
  <2>1. n[1] \in Users
    BY DEF GraphInv, GraphTypes
  <2>2. (<<m, n>> \in gFriend \/ <<n, m>> \in gFriend) /\ ~Graph!BlockEdge(m, n)
    BY <1>3, HopsAre
  <2>3. ~Graph!Social!Blocked(m[1], n[1])
    BY <2>2, BlockedAre
  <2>4. {m[1], n[1]} \in {{f[1][1], f[2][1]} : f \in gFriend}
    BY <2>2, FriendsAre
  <2> QED
    BY <1>3, <2>1, <2>3, <2>4
<1> HIDE DEF Friends
<1>4. \A v : v \in Graph!Social!Further(S) <=>
        v \in S \/ \E m, n \in gNodes : m[1] \in S /\ n[1] = v /\ <<m, n>> \in Hops
  BY <1>1, <1>2, <1>3
<1>5. \A v \in Graph!Social!Further(S) : v \in Users
  BY <1>1
<1> QED
  BY <1>4, <1>5

LEMMA NearIterates ==
  ASSUME GraphInv, OneNode, NEW u \in Users, NEW d \in Nat
  PROVE  /\ Graph!Social!Near(u, d)[0] = {u}
         /\ \A k \in 1 .. d :
              /\ Graph!Social!Near(u, d)[k - 1] \in SUBSET Users
              /\ Graph!Social!Near(u, d)[k] = Graph!Social!Further(Graph!Social!Near(u, d)[k - 1])
<1>1. PICK start : start = {u}
  OBVIOUS
<1>2. start \in SUBSET Users
  BY <1>1
<1>3. PICK F : F = [S \in SUBSET Users |-> Graph!Social!Further(S)]
  OBVIOUS
<1>4. F \in [SUBSET Users -> SUBSET Users]
  BY <1>3, FurtherAre
<1>5. PICK f : Iterated(SUBSET Users, F, start, d, f)
  BY <1>2, <1>4, Iterates
<1> DEFINE Q(g) == g = [k \in 0 .. d |-> IF k = 0 THEN start ELSE Graph!Social!Further(g[k - 1])]
<1>6. Q(f)
  <2>1. /\ f \in [0 .. d -> SUBSET Users]
        /\ f = [k \in 0 .. d |-> IF k = 0 THEN start ELSE F[f[k - 1]]]
    BY <1>5 DEF Iterated
  <2>2. \A k \in 1 .. d : F[f[k - 1]] = Graph!Social!Further(f[k - 1])
    <3>1. f \in [0 .. d -> SUBSET Users] /\ \A k \in 1 .. d : k - 1 \in 0 .. d
      BY <2>1
    <3>2. \A k \in 1 .. d : f[k - 1] \in SUBSET Users
      BY <3>1
    <3> QED
      BY <1>3, <3>2
  <2>3. \A k \in 0 .. d : f[k] = IF k = 0 THEN start ELSE Graph!Social!Further(f[k - 1])
    <3>1. \A k \in 0 .. d : f[k] = IF k = 0 THEN start ELSE F[f[k - 1]]
      BY <2>1
    <3> QED
      BY <2>2, <3>1
  <2> QED
    BY <2>1, <2>3
<1>7. Graph!Social!Near(u, d) = CHOOSE g : Q(g)
  BY <1>1, Zenon DEF Graph!Social!Near
<1>8. Q(Graph!Social!Near(u, d))
  <2>1. Q(CHOOSE g : Q(g))
    <3> HIDE DEF Q
    <3> QED
      BY <1>6, Zenon
  <2> QED
    BY <1>7, <2>1, Zenon
<1>9. PICK g : g = Graph!Social!Near(u, d)
  OBVIOUS
<1>10. g = [k \in 0 .. d |-> IF k = 0 THEN start ELSE Graph!Social!Further(g[k - 1])]
  BY <1>8, <1>9
<1>11. g[0] = start /\ \A k \in 1 .. d : g[k] = Graph!Social!Further(g[k - 1])
  BY <1>10
<1> DEFINE T == {k \in Nat : k <= d /\ g[k] \notin SUBSET Users}
<1>12. T = {}
  <2>1. SUFFICES ASSUME T # {} PROVE FALSE
    OBVIOUS
  <2>2. T \in SUBSET Nat
    OBVIOUS
  <2> HIDE DEF T
  <2>3. PICK k \in T : \A h \in T : k <= h
    BY <2>1, <2>2, Least
  <2>4. k \in Nat /\ k <= d /\ g[k] \notin SUBSET Users
    BY DEF T
  <2>5. k # 0
    BY <1>2, <1>11, <2>4
  <2>6. k - 1 \in Nat /\ k - 1 <= d /\ k - 1 \notin T /\ k \in 1 .. d
    BY <2>2, <2>3, <2>4, <2>5
  <2>7. g[k - 1] \in SUBSET Users
    BY <2>6 DEF T
  <2>8. Graph!Social!Further(g[k - 1]) \in SUBSET Users
    BY <2>7, FurtherAre
  <2> QED
    BY <1>11, <2>4, <2>6, <2>8
<1>13. \A k \in 1 .. d : g[k - 1] \in SUBSET Users
  <2>1. TAKE k \in 1 .. d
  <2>2. k - 1 \in Nat /\ k - 1 <= d
    OBVIOUS
  <2> QED
    BY <1>12, <2>2
<1> QED
  BY <1>1, <1>9, <1>11, <1>13

(* The users near u: u, and those its node has a walk to.                  *)
ReachedIn(u, v, k) ==
  v = u \/ \E m, n \in gNodes : m[1] = u /\ n[1] = v /\ \E j \in 0 .. k : Walks(gNodes, Hops, m, n, j)

LEMMA ReachedFurther ==
  ASSUME GraphInv, OneNode, NEW u, NEW v, NEW i \in Nat
  PROVE  ReachedIn(u, v, i + 1) <=>
           ReachedIn(u, v, i)
             \/ \E m, n \in gNodes : ReachedIn(u, m[1], i) /\ n[1] = v /\ <<m, n>> \in Hops
<1>1. ASSUME ReachedIn(u, v, i) PROVE ReachedIn(u, v, i + 1)
  <2>1. CASE v = u
    BY <2>1 DEF ReachedIn
  <2>2. CASE v # u
    <3>1. PICK m, n \in gNodes : m[1] = u /\ n[1] = v /\ \E j \in 0 .. i : Walks(gNodes, Hops, m, n, j)
      BY <1>1, <2>2 DEF ReachedIn
    <3>2. PICK j \in 0 .. i : Walks(gNodes, Hops, m, n, j)
      BY <3>1
    <3>3. j \in 0 .. i + 1
      OBVIOUS
    <3> QED
      BY <3>1, <3>2, <3>3 DEF ReachedIn
  <2> QED
    BY <2>1, <2>2
<1>2. ASSUME NEW m \in gNodes, NEW n \in gNodes, ReachedIn(u, m[1], i), n[1] = v, <<m, n>> \in Hops
      PROVE  ReachedIn(u, v, i + 1)
  <2>1. \E a \in gNodes : a[1] = u /\ \E j \in 0 .. i : Walks(gNodes, Hops, a, m, j)
    <3>1. CASE m[1] = u
      <4>1. Walks(gNodes, Hops, m, m, 0) /\ 0 \in 0 .. i
        BY WalkStarts
      <4> QED
        BY <3>1, <4>1
    <3>2. CASE m[1] # u
      <4>1. PICK a, b \in gNodes : /\ a[1] = u /\ b[1] = m[1]
                                   /\ \E j \in 0 .. i : Walks(gNodes, Hops, a, b, j)
        BY <1>2, <3>2 DEF ReachedIn
      <4>2. b = m
        BY <4>1 DEF OneNode
      <4> QED
        BY <4>1, <4>2
    <3> QED
      BY <3>1, <3>2
  <2>2. PICK a \in gNodes : a[1] = u /\ \E j \in 0 .. i : Walks(gNodes, Hops, a, m, j)
    BY <2>1
  <2>3. PICK j \in 0 .. i : Walks(gNodes, Hops, a, m, j)
    BY <2>2
  <2>4. j \in Nat /\ j + 1 \in 0 .. i + 1
    OBVIOUS
  <2>5. Walks(gNodes, Hops, a, n, j + 1)
    BY <1>2, <2>3, <2>4, WalkGoesOn
  <2> QED
    BY <1>2, <2>2, <2>4, <2>5 DEF ReachedIn
<1>3. ASSUME ReachedIn(u, v, i + 1), ~ReachedIn(u, v, i)
      PROVE  \E m, n \in gNodes : ReachedIn(u, m[1], i) /\ n[1] = v /\ <<m, n>> \in Hops
  <2>1. PICK a, n \in gNodes : a[1] = u /\ n[1] = v /\ \E j \in 0 .. i + 1 : Walks(gNodes, Hops, a, n, j)
    BY <1>3 DEF ReachedIn
  <2>2. PICK j \in 0 .. i + 1 : Walks(gNodes, Hops, a, n, j)
    BY <2>1
  <2>3. j \notin 0 .. i
    BY <1>3, <2>1, <2>2 DEF ReachedIn
  <2>4. j = i + 1
    BY <2>3
  <2>5. PICK m \in gNodes : Walks(gNodes, Hops, a, m, i) /\ <<m, n>> \in Hops
    BY <2>2, <2>4, WalkEnds
  <2>6. i \in 0 .. i
    OBVIOUS
  <2>7. ReachedIn(u, m[1], i)
    BY <2>1, <2>5, <2>6 DEF ReachedIn
  <2> QED
    BY <2>1, <2>5, <2>7
<1> QED
  BY <1>1, <1>2, <1>3

LEMMA NearAre ==
  ASSUME GraphInv, OneNode, NEW u \in Users, NEW d \in Nat, NEW k \in 0 .. d, NEW v
  PROVE  v \in Graph!Social!Near(u, d)[k] <=> ReachedIn(u, v, k)
<1>1. PICK g : g = Graph!Social!Near(u, d)
  OBVIOUS
<1>2. /\ g[0] = {u}
      /\ \A h \in 1 .. d : g[h - 1] \in SUBSET Users /\ g[h] = Graph!Social!Further(g[h - 1])
  BY <1>1, NearIterates
<1> DEFINE Bad(h) == \E x : ~ (x \in g[h] <=> ReachedIn(u, x, h))
           T == {h \in Nat : h <= d /\ Bad(h)}
<1>3. T = {}
  <2>1. SUFFICES ASSUME T # {} PROVE FALSE
    OBVIOUS
  <2>2. T \in SUBSET Nat
    OBVIOUS
  <2> HIDE DEF T
  <2>3. PICK h \in T : \A i \in T : h <= i
    BY <2>1, <2>2, Least
  <2>4. h \in Nat /\ h <= d /\ Bad(h)
    BY DEF T
  <2>5. PICK x : ~ (x \in g[h] <=> ReachedIn(u, x, h))
    BY <2>4
  <2>6. CASE h = 0
    <3>1. x \in g[0] <=> x = u
      BY <1>2
    <3>2. ReachedIn(u, x, 0) <=> x = u
      <4>1. ASSUME NEW m \in gNodes, NEW n \in gNodes, NEW j \in 0 .. 0, Walks(gNodes, Hops, m, n, j)
            PROVE  n = m
        <5>1. j = 0
          OBVIOUS
        <5> QED
          BY <4>1, <5>1, WalkStarts
      <4> QED
        BY <4>1 DEF ReachedIn
    <3> QED
      BY <2>5, <2>6, <3>1, <3>2
  <2>7. CASE h # 0
    <3>1. PICK i \in Nat : h = i + 1
      <4>1. h - 1 \in Nat /\ h = (h - 1) + 1
        BY <2>4, <2>7
      <4> QED
        BY <4>1
    <3>2. h \in 1 .. d /\ h - 1 = i /\ i \notin T /\ i <= d
      BY <2>2, <2>3, <2>4, <3>1
    <3>3. g[i] \in SUBSET Users /\ g[h] = Graph!Social!Further(g[i])
      BY <1>2, <3>2
    <3>4. \A y : y \in g[i] <=> ReachedIn(u, y, i)
      BY <3>2 DEF T
    <3>5. x \in g[h] <=>
            x \in g[i] \/ \E m, n \in gNodes : m[1] \in g[i] /\ n[1] = x /\ <<m, n>> \in Hops
      <4>1. PICK S \in SUBSET Users : S = g[i]
        BY <3>3
      <4>2. \A y : y \in Graph!Social!Further(S) <=>
              y \in S \/ \E m, n \in gNodes : m[1] \in S /\ n[1] = y /\ <<m, n>> \in Hops
        BY FurtherAre
      <4>3. g[h] = Graph!Social!Further(S)
        BY <3>3, <4>1
      <4>4. x \in g[h] <=>
              x \in S \/ \E m, n \in gNodes : m[1] \in S /\ n[1] = x /\ <<m, n>> \in Hops
        BY Zenon, <4>2, <4>3
      <4> QED
        BY Zenon, <4>1, <4>4
    <3>6. ReachedIn(u, x, i + 1) <=>
            ReachedIn(u, x, i)
              \/ \E m, n \in gNodes : ReachedIn(u, m[1], i) /\ n[1] = x /\ <<m, n>> \in Hops
      BY ReachedFurther
    <3> QED
      BY <2>5, <3>1, <3>4, <3>5, <3>6
  <2> QED
    BY <2>6, <2>7
<1>4. v \in g[k] <=> ReachedIn(u, v, k)
  BY <1>3
<1> QED
  BY <1>1, <1>4

LEMMA AnswersAreVisible == GraphInv => Graph!AnswersVisible
<1> SUFFICES ASSUME GraphInv, gUniqueIDs, NEW u \in Users, NEW d \in 0 .. MaxDegrees
             PROVE  Graph!WithinDegrees(u, d) = Graph!Social!Visible(u, d)
  BY DEF Graph!AnswersVisible
<1>1. OneNode
  BY DEF GraphInv, OneNode
<1>2. d \in Nat /\ d \in 0 .. d
  OBVIOUS
<1>3. ASSUME NEW v
      PROVE  v \in Graph!WithinDegrees(u, d) <=> v \in Graph!Social!Visible(u, d)
  <2>1. v \in Graph!WithinDegrees(u, d) <=> Sees(u, v, d)
    BY <1>2, WithinAre
  <2>2. v \in Graph!Social!Near(u, d)[d] <=> ReachedIn(u, v, d)
    BY <1>1, <1>2, NearAre
  <2>3. v \in Graph!Social!Visible(u, d) <=>
          ReachedIn(u, v, d) /\ v # u /\ ~Graph!Social!Blocked(u, v)
    BY <2>2 DEF Graph!Social!Visible
  <2>4. \A m, n \in gNodes : m[1] = u /\ n[1] = v =>
          (Graph!Social!Blocked(u, v) <=> Graph!BlockEdge(m, n))
    BY <1>1, BlockedAre
  <2>5. Sees(u, v, d) <=> ReachedIn(u, v, d) /\ v # u /\ ~Graph!Social!Blocked(u, v)
    BY <2>4 DEF Sees, ReachedIn
  <2> QED
    BY <2>1, <2>3, <2>5
<1> QED
  BY <1>3

(* Theorem: what WithinDegrees of neo4j.go answers is what the graph of    *)
(* friendships and blocks shows, when ids are unique, and the same both    *)
(* ways in any case.                                                       *)
THEOREM ServicesAnswersVisible == Spec => []AnswersVisible
<1>1. GraphInv => AnswersVisible
  BY AnswersAreVisible, AnswersAreSymmetric DEF AnswersVisible
<1> QED
  BY <1>1, GraphInvariant, PTL
=============================================================================
