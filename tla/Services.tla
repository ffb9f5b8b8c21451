------------------------------ MODULE Services ------------------------------
(***************************************************************************)
(* The connectors of one process that talk to a service of their own:      *)
(* graph database, item store, secrets, time series, vectors and the local *)
(* rate limiter, and the aggregate that builds and closes connectors.      *)
(* They share no state, so a behaviour follows one of them, in focus; the  *)
(* others stay in one of their initial states.                             *)
(***************************************************************************)
EXTENDS Integers, Sequences, FiniteSets

CONSTANTS
  Callers, MaxCalls,                                       \* several modules
  Users, GraphRequests, NoRequest, MaxCopies, MaxDegrees,  \* UserGraph
  Items, Writers, InitialItems, Queries, Clients,          \* ItemStore
  Identity, NewUser, Absent, MaxWrites,
  Conns, Goroutines, MaxCloses,                            \* ConnectorLifecycle
  SecretRequests,                                          \* SecretStore
  Names, Fold(_), MeasurementRequests, Interval, Times,    \* Measurements
  NoTag,
  VectorRequests, LegacyTimes, LegacyPayload, None,        \* VectorStore
  NoCollection, DefaultLimit,
  Waiters, Limits, MaxTime                                 \* LocalLimiter

ASSUME ServicesAssumption ==
  /\ Users \subseteq Int /\ MaxCopies \in Nat \ {0} /\ MaxDegrees \in Nat \ {0}
  /\ Writers \cup InitialItems \subseteq Items /\ Absent \notin Items
  /\ DOMAIN Identity = Clients /\ DOMAIN NewUser = Clients
  /\ Len(Conns) > 0 /\ Interval \in Nat \ {0} /\ \A n \in Names : Fold(n) \in Names
  /\ DefaultLimit \in Nat \ {0} /\ Limits \subseteq Nat \ {0}
  /\ {MaxCalls, MaxWrites, MaxCloses, MaxTime} \subseteq Nat

VARIABLES
  focus,    \* the connector the behaviour is about
  (* UserGraph *)
  gUniqueIDs, gNodes, gFriend, gBlock, gReq, gPhase, gFound, gCalls,
  (* ItemStore *)
  iTable, iSeen, iEntries, iReader, iSignup, iWrites,
  (* ConnectorLifecycle *)
  lBuilt, lApp, lClient, lRef, lOnce, lCaller, lCloser, lHealth,
  lCloseResult, lLate, lBroken, lCloses,
  (* SecretStore *)
  sSecret, sCall, sDeleted, sCalls,
  (* Measurements *)
  mTables, mIndexOn, mCall, mDropped, mKept, mCalls,
  (* VectorStore *)
  vPoints, vQueue, vCall, vCalls,
  (* LocalLimiter *)
  oLimiters, oEntry, oCaller, oNow, oOverlapped

graphVars == <<
    gUniqueIDs, gNodes, gFriend, gBlock, gReq, gPhase, gFound, gCalls>>
itemVars == <<
    iTable, iSeen, iEntries, iReader, iSignup, iWrites>>
connVars == <<
    lBuilt, lApp, lClient, lRef, lOnce, lCaller, lCloser, lHealth,
    lCloseResult, lLate, lBroken, lCloses>>
secretVars == <<
    sSecret, sCall, sDeleted, sCalls>>
measVars == <<
    mTables, mIndexOn, mCall, mDropped, mKept, mCalls>>
vectorVars == <<
    vPoints, vQueue, vCall, vCalls>>
limitVars == <<
    oLimiters, oEntry, oCaller, oNow, oOverlapped>>
vars == <<focus, graphVars, itemVars, connVars, secretVars, measVars, vectorVars, limitVars>>

Graph == INSTANCE UserGraph WITH
  uniqueIDs <- gUniqueIDs, nodes <- gNodes, friend <- gFriend,
  block <- gBlock, req <- gReq, phase <- gPhase, found <- gFound,
  calls <- gCalls, Requests <- GraphRequests
Store == INSTANCE ItemStore WITH
  table <- iTable, seen <- iSeen, entries <- iEntries, reader <- iReader,
  signup <- iSignup, writes <- iWrites
Lifecycle == INSTANCE ConnectorLifecycle WITH
  built <- lBuilt, app <- lApp, client <- lClient, ref <- lRef,
  once <- lOnce, caller <- lCaller, closer <- lCloser, health <- lHealth,
  closeResult <- lCloseResult, late <- lLate, broken <- lBroken,
  closes <- lCloses, Callers <- Goroutines
Secrets == INSTANCE SecretStore WITH
  secret <- sSecret, call <- sCall, deleted <- sDeleted, calls <- sCalls,
  Requests <- SecretRequests
Series == INSTANCE Measurements WITH
  tables <- mTables, indexOn <- mIndexOn, call <- mCall, dropped <- mDropped,
  kept <- mKept, calls <- mCalls, Requests <- MeasurementRequests
Vectors == INSTANCE VectorStore WITH
  points <- vPoints, queue <- vQueue, call <- vCall, calls <- vCalls,
  Requests <- VectorRequests
Limiter == INSTANCE LocalLimiter WITH
  limiters <- oLimiters, entry <- oEntry, caller <- oCaller, now <- oNow,
  overlapped <- oOverlapped, Callers <- Waiters

(* What the graph is asked: users that it can order.                       *)
ASSUME GraphAssumption == \A r \in GraphRequests : r.a \in Users /\ r.b \in Users

(* What CreateMeasurement and the others are given: the points carry a     *)
(* time, and no name is the one that stands for an index nobody has.       *)
ASSUME SeriesAssumption ==
  /\ MeasurementRequests # {} /\ Times \subseteq Int /\ "none" \notin Names
  /\ \A r \in MeasurementRequests :
       /\ r.op \in {"create", "write", "drop"} /\ r.name \in Names
       /\ {r.chunk, r.retention, r.compression} \subseteq Int /\ \A p \in r.points : p.time \in Int

(* What the theorems about the parts assume of their constants.            *)
ASSUME PartsAssumption ==
  /\ Lifecycle!LifecycleAssumption /\ Secrets!SecretAssumption
  /\ Vectors!VectorAssumption /\ Store!ItemAssumption

-----------------------------------------------------------------------------
Focuses == {"graph", "items", "lifecycle", "secrets", "series", "vectors", "limiter"}

(* The choices of an initial state are those of the connector in focus.    *)
Init ==
  /\ focus \in Focuses
  /\ Graph!Init /\ Store!Init /\ Lifecycle!Init /\ Secrets!Init
  /\ Series!Init /\ Vectors!Init /\ Limiter!Init
  /\ focus # "graph" => gUniqueIDs
  /\ focus # "items" => iEntries = CHOOSE e \in Store!SetToSeqs(Store!Registered) : TRUE
  /\ focus # "vectors" => vPoints = NoCollection
  /\ focus # "limiter" => \A w \in Waiters : oCaller[w].limit = CHOOSE l \in Limits : TRUE

GraphStep ==
  /\ focus = "graph" /\ Graph!Next
  /\ UNCHANGED <<focus, itemVars, connVars, secretVars, measVars, vectorVars, limitVars>>
ItemStep ==
  /\ focus = "items" /\ Store!Next
  /\ UNCHANGED <<focus, graphVars, connVars, secretVars, measVars, vectorVars, limitVars>>
LifecycleStep ==
  /\ focus = "lifecycle" /\ Lifecycle!Next
  /\ UNCHANGED <<focus, graphVars, itemVars, secretVars, measVars, vectorVars, limitVars>>
SecretStep ==
  /\ focus = "secrets" /\ Secrets!Next
  /\ UNCHANGED <<focus, graphVars, itemVars, connVars, measVars, vectorVars, limitVars>>
SeriesStep ==
  /\ focus = "series" /\ Series!Next
  /\ UNCHANGED <<focus, graphVars, itemVars, connVars, secretVars, vectorVars, limitVars>>
VectorStep ==
  /\ focus = "vectors" /\ Vectors!Next
  /\ UNCHANGED <<focus, graphVars, itemVars, connVars, secretVars, measVars, limitVars>>
LimiterStep ==
  /\ focus = "limiter" /\ Limiter!Next
  /\ UNCHANGED <<focus, graphVars, itemVars, connVars, secretVars, measVars, vectorVars>>

Next ==
  \/ GraphStep \/ ItemStep \/ LifecycleStep \/ SecretStep
  \/ SeriesStep \/ VectorStep \/ LimiterStep

Spec == Init /\ [][Next]_vars

-----------------------------------------------------------------------------
(* The properties of the parts, stated and explained in their modules.  An *)
(* invariant is evaluated where its part is in focus; elsewhere it holds   *)
(* because it holds initially.                                             *)
TypeOK ==
  /\ focus \in Focuses
  /\ Graph!TypeOK /\ Store!TypeOK /\ Lifecycle!TypeOK /\ Secrets!TypeOK
  /\ Series!TypeOK /\ Vectors!TypeOK /\ Limiter!TypeOK

(* neo4j.go: WithinDegrees answers the users that are visible, and always   *)
(* the same both ways, whoever blocked whom and whatever copies there are. *)
AnswersVisible == focus = "graph" => Graph!AnswersVisible /\ Graph!SymmetricAnswers

(* dynamo.go and registry.go: pages hold every row that stays, each as the *)
(* model that wrote it.                                                    *)
RowsComeBack == focus = "items" => Store!PagesCoverLastingRows /\ Store!DecodedAsWritten

(* handlers/user: two sign-ups of one identity.                            *)
SecondUserOnlyByRace == focus = "items" => Store!SecondUserOnlyByRace

(* connectors.go and the connectors: what Close leaves, what calls find.   *)
CloseReleases == focus = "lifecycle" => Lifecycle!CloseReleases
MissingHasACause == focus = "lifecycle" => Lifecycle!MissingHasACause
ClosedStaysClosed == Lifecycle!ClosedStaysClosed

(* secretmanager.go: Set is an upsert.                                     *)
SetRefusedOnlyByDeletion == focus = "secrets" => Secrets!SetRefusedOnlyByDeletion

(* timescale.go: what a creation leaves, how ranges divide the points.     *)
CreatedAsAsked == focus = "series" => Series!CreatedAsAsked
RangesAddUp == focus = "series" => Series!RangesAddUp

(* "CreateMeasurement creates a hypertable": not for a name that has upper *)
(* case letters, as the run measurement_case shows.                        *)
CreatesAHypertable == focus = "series" => Series!CreatesAHypertable

(* memory.go and the local bucket of redis.go: the callers of a key share   *)
(* one bucket, whose rate and burst differ only by overlapping callers.    *)
BucketIsShared == focus = "limiter" => Limiter!RateIsShared /\ Limiter!MixedOnlyByOverlap

(* The graph, the secrets and the vectors are, to concurrent callers, a    *)
(* graph of friends, a register and an index by ULID.                      *)
ContractsAreImplemented ==
  Graph!ImplementsContract /\ Secrets!ImplementsContract /\ Vectors!ImplementsContract
=============================================================================
