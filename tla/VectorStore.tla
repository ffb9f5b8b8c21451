----------------------------- MODULE VectorStore -----------------------------
(***************************************************************************)
(* connectors/vector/qdrant.go and base.go: batches and queries of one     *)
(* collection by concurrent callers.  ULIDs become point ids and back, and *)
(* the filter of a query is translated condition by condition.             *)
(*                                                                         *)
(* Batches are sent without Wait: nil says that Qdrant has accepted the    *)
(* batch, which it applies afterwards, point by point and in the order of  *)
(* the batches; a search in between finds what has been applied.           *)
(*                                                                         *)
(* An id is [time, entropy, form]: form is "upper", "lower" (which         *)
(* ulid.Parse reads as the same ULID) or "short" (which it refuses).  The  *)
(* collection may hold points that an older program numbered by their time *)
(* alone.  A payload gives each field a value of one of the types.         *)
(***************************************************************************)
EXTENDS Integers, Sequences, FiniteSets

CONSTANTS
  Callers,
  Requests,     \* [op, collection, batch, filter, limit, threshold]
  LegacyTimes, LegacyPayload,   \* the numbered points the collection may have
  None,         \* no match, no range, no bound, no condition
  NoCollection, \* points when the collection does not exist
  DefaultLimit,
  MaxCalls      \* bound: calls begun

VARIABLES
  points,       \* [point id -> payload] in Qdrant, or NoCollection
  queue,        \* the batches accepted and not applied: what each has left to write
  call,         \* [req, at, result, found]
  calls

vars == <<points, queue, call, calls>>

-----------------------------------------------------------------------------
(* ulidStringToPointID and pointIDToULIDString.                            *)
Number(time) == [kind |-> "num", time |-> time, entropy |-> 0]

Uuid(id) == [kind |-> "uuid", time |-> id.time, entropy |-> id.entropy]
IsUlid(id) == id.form # "short"

UlidString(point) == [time |-> point.time, entropy |-> point.entropy, form |-> "upper"]

-----------------------------------------------------------------------------
(* buildQdrantCondition: a match of a type it knows, or else the range, or *)
(* else no condition.                                                      *)
KnownMatch(cond) ==
  cond.match # None /\ cond.match.type \in {"keyword", "string", "int", "int64", "bool"}

BuildCondition(cond) ==
  IF cond.field = "" THEN None
  ELSE IF KnownMatch(cond) THEN [field |-> cond.field, match |-> cond.match.value, range |-> None]
  ELSE IF cond.range # None THEN [field |-> cond.field, match |-> None, range |-> cond.range]
  ELSE None

(* Mutant: one list of conditions is taken for another.                    *)
BuildListsSwapped(filter) ==
  [must |-> {BuildCondition(c) : c \in filter.must} \ {None},
   should |-> {BuildCondition(c) : c \in filter.mustNot} \ {None},
   mustNot |-> {BuildCondition(c) : c \in filter.should} \ {None}]

BuildFilter(filter) ==
  [must |-> {BuildCondition(c) : c \in filter.must} \ {None},
   should |-> {BuildCondition(c) : c \in filter.should} \ {None},
   mustNot |-> {BuildCondition(c) : c \in filter.mustNot} \ {None}]

Inside(value, range) ==
  /\ range.gt # None => value > range.gt
  /\ range.gte # None => value >= range.gte
  /\ range.lt # None => value < range.lt
  /\ range.lte # None => value <= range.lte

(* What Qdrant selects; an empty list asks for nothing.                    *)
Selects(built, payload) ==
  LET Holds(c) == /\ c.field \in DOMAIN payload
                  /\ IF c.match # None THEN payload[c.field] = c.match
                     ELSE Inside(payload[c.field], c.range)
  IN /\ \A c \in built.must : Holds(c)
     /\ built.should = {} \/ \E c \in built.should : Holds(c)
     /\ \A c \in built.mustNot : ~Holds(c)

(* What may come to be stored.                                             *)
StoredPoints ==
  {Number(t) : t \in LegacyTimes} \cup
  UNION {{Uuid(r.batch[i].id) : i \in DOMAIN r.batch} : r \in {q \in Requests : q.op = "upsert"}}
Payloads ==
  {LegacyPayload} \cup UNION {{r.batch[i].payload : i \in DOMAIN r.batch} : r \in Requests}

(* A condition that asks for one thing, which buildQdrantCondition knows.  *)
WellFormed(cond) ==
  /\ cond.field # "" /\ BuildCondition(cond) # None
  /\ IF cond.match = None THEN cond.range # None
     ELSE KnownMatch(cond) /\ cond.match.value # None /\ cond.range = None

(* What the theorems assume: filters of such conditions, no batch that     *)
(* writes the zero entropy which tells the numbered points, and a          *)
(* NoCollection that is no collection.                                     *)
VectorAssumption ==
  /\ Requests # {} /\ MaxCalls \in Nat /\ DefaultLimit \in Nat
  /\ LegacyTimes \subseteq Nat /\ IsFiniteSet(LegacyTimes)
  /\ \A r \in Requests :
       /\ r = [op |-> r.op, collection |-> r.collection, batch |-> r.batch,
               filter |-> r.filter, limit |-> r.limit, threshold |-> r.threshold]
       /\ r.limit \in Int /\ r.threshold \in BOOLEAN
       /\ r.batch \in Seq([id : [time : Nat, entropy : Nat, form : {"upper", "lower", "short"}],
                            payload : Payloads])
       /\ r.op = "upsert" => \A i \in DOMAIN r.batch : r.batch[i].id.entropy # 0
       /\ \A c \in r.filter.must \cup r.filter.should \cup r.filter.mustNot : WellFormed(c)
  /\ \A ids \in SUBSET (StoredPoints \cup {UlidString(p) : p \in StoredPoints}) :
       NoCollection \notin [ids -> Payloads]

-----------------------------------------------------------------------------
Init ==
  /\ \/ points = NoCollection
     \/ points = [p \in {Number(t) : t \in LegacyTimes} |-> LegacyPayload]
  /\ LET r == CHOOSE r \in Requests : TRUE IN
       call = [c \in Callers |-> [req |-> r, at |-> "idle", result |-> "idle", found |-> {}]]
  /\ queue = <<>> /\ calls = 0

Begin(c) ==
  /\ call[c].at = "idle" /\ calls < MaxCalls /\ calls' = calls + 1
  /\ \E r \in Requests : call' = [call EXCEPT ![c] =
       [req |-> r, at |-> IF r.op = "query" THEN "embed" ELSE "send",
        result |-> "running", found |-> {}]]
  /\ UNCHANGED <<points, queue>>

Ends(c, result, found) ==
  call' = [call EXCEPT ![c].at = "done", ![c].result = result, ![c].found = found]

(* The collection's name is checked first, then the ids of the batch; the  *)
(* embedding and the service may fail.                                     *)
Refused(req) ==
  req.collection = "" \/ \E i \in DOMAIN req.batch : ~IsUlid(req.batch[i].id)

Fail(c) ==
  /\ call[c].at \in {"embed", "send"}
  /\ Ends(c, "error", {}) /\ UNCHANGED <<points, queue, calls>>

(* Embed has answered; what other callers change until the search is seen. *)
Embed(c) ==
  /\ call[c].at = "embed" /\ ~Refused(call[c].req)
  /\ call' = [call EXCEPT ![c].at = "send"] /\ UNCHANGED <<points, queue, calls>>

(* The answer of the service to a change it made may be lost.              *)
Answered(c) == \E result \in {"ok", "error"} : Ends(c, result, {})

Sending(c, op) ==
  call[c].at = "send" /\ call[c].req.op = op /\ ~Refused(call[c].req)

(* Mutant: of the entries of one point the first.                          *)
FirstWrites(op, batch) ==
  LET first == {i \in DOMAIN batch : \A j \in DOMAIN batch :
                  Uuid(batch[j].id) = Uuid(batch[i].id) => i <= j}
  IN {[op |-> op, point |-> Uuid(batch[i].id), payload |-> batch[i].payload] : i \in first}

(* What a batch writes: of the entries of one point the last.              *)
Writes(op, batch) ==
  LET last == {i \in DOMAIN batch : \A j \in DOMAIN batch :
                 Uuid(batch[j].id) = Uuid(batch[i].id) => j <= i}
  IN {[op |-> op, point |-> Uuid(batch[i].id), payload |-> batch[i].payload] : i \in last}

(* Accepted, and not applied yet: the code sets no Wait.                   *)
Accept(c, op) ==
  /\ Sending(c, op) /\ points # NoCollection
  /\ queue' = Append(queue, Writes(op, call[c].req.batch))
  /\ Answered(c) /\ UNCHANGED <<points, calls>>

BatchUpsert(c) == Accept(c, "upsert")
BatchDelete(c) == Accept(c, "delete")

(* Qdrant applies a write of the oldest batch, or is done with the batch.  *)
Applied(w) ==
  IF w.op = "delete" THEN [p \in DOMAIN points \ {w.point} |-> points[p]]
  ELSE [p \in DOMAIN points \cup {w.point} |-> IF p = w.point THEN w.payload ELSE points[p]]

Apply ==
  /\ queue # <<>> /\ points # NoCollection
  /\ \/ Head(queue) = {} /\ queue' = Tail(queue) /\ UNCHANGED points
     \/ \E w \in Head(queue) :
          points' = Applied(w) /\ queue' = [queue EXCEPT ![1] = @ \ {w}]
  /\ UNCHANGED <<call, calls>>

Limit(req) == IF req.limit > 0 THEN req.limit ELSE DefaultLimit

(* The search: the nearest points the filter selects, above the threshold  *)
(* if one is given; which are nearest is not modelled.                     *)
Search(c) ==
  LET req == call[c].req
      built == BuildFilter(req.filter)
      hits == {p \in DOMAIN points : Selects(built, points[p])}
      most == IF Cardinality(hits) < Limit(req) THEN Cardinality(hits) ELSE Limit(req)
  IN /\ Sending(c, "query") /\ points # NoCollection
     /\ \E found \in SUBSET hits :
          /\ Cardinality(found) <= most /\ (req.threshold \/ Cardinality(found) = most)
          /\ Ends(c, "ok", {[id |-> UlidString(p), payload |-> points[p]] : p \in found})
     /\ UNCHANGED <<points, queue, calls>>

CreateCollection(c) ==
  /\ Sending(c, "create collection") /\ points = NoCollection
  /\ points' = [p \in {} |-> None] /\ Answered(c) /\ UNCHANGED <<queue, calls>>

DeleteCollection(c) ==
  /\ Sending(c, "delete collection")
  /\ points' = NoCollection /\ queue' = <<>> /\ Answered(c) /\ UNCHANGED calls

Return(c) ==
  /\ call[c].at = "done"
  /\ call' = [call EXCEPT ![c].at = "idle", ![c].result = "idle", ![c].found = {}]
  /\ UNCHANGED <<points, queue, calls>>

Next ==
  \/ Apply
  \/ \E c \in Callers :
       \/ Begin(c) \/ Fail(c) \/ Embed(c) \/ Return(c)
       \/ BatchUpsert(c) \/ BatchDelete(c) \/ Search(c)
       \/ CreateCollection(c) \/ DeleteCollection(c)

Spec == Init /\ [][Next]_vars

-----------------------------------------------------------------------------
TypeOK ==
  /\ points # NoCollection =>
       \A p \in DOMAIN points : p.kind \in {"uuid", "num"} /\ p.entropy \in Nat /\ p.time \in Nat
  /\ \A i \in DOMAIN queue : \A w \in queue[i] :
       w.op \in {"upsert", "delete"} /\ w.point.kind = "uuid"
  /\ \A c \in Callers :
       /\ call[c].req \in Requests /\ call[c].at \in {"idle", "embed", "send", "done"}
       /\ call[c].result \in {"idle", "running", "ok", "error"}
  /\ calls \in 0 .. MaxCalls

(* A filter as its caller means it: every condition's match and range.     *)
MeetsAsWritten(filter, payload) ==
  LET Holds(c) == /\ c.field \in DOMAIN payload
                  /\ c.match # None => payload[c.field] = c.match.value
                  /\ c.range # None => Inside(payload[c.field], c.range)
  IN /\ \A c \in filter.must : Holds(c)
     /\ filter.should = {} \/ \E c \in filter.should : Holds(c)
     /\ \A c \in filter.mustNot : ~Holds(c)

(* The collection is an index by ULID: accepted batches apply in their     *)
(* order, an id written in either case is one entry, the last of a batch   *)
(* wins, and queries answer what meets the filter, of what has been        *)
(* applied by the moment of the search.                                    *)
CanonicalId(id) == [id EXCEPT !.form = "upper"]
Index == INSTANCE VectorIndex WITH
  index <- IF points = NoCollection THEN NoCollection
           ELSE [id \in {UlidString(p) : p \in DOMAIN points} |->
                   points[CHOOSE p \in DOMAIN points : UlidString(p) = id]],
  legacy <- IF points = NoCollection THEN {}
            ELSE {UlidString(p) : p \in {q \in DOMAIN points : q.kind = "num"}},
  pending <- [i \in DOMAIN queue |->
                {[op |-> w.op, id |-> UlidString(w.point), payload |-> w.payload] : w \in queue[i]}],
  done <- [c \in Callers |-> [req |-> [call[c].req EXCEPT !.limit = Limit(call[c].req)],
                              result |-> call[c].result, found |-> call[c].found]],
  Requests <- {[r EXCEPT !.limit = Limit(r)] : r \in Requests},
  ValidId <- IsUlid, Canonical <- CanonicalId, Meets <- MeetsAsWritten, Missing <- NoCollection
ImplementsContract == Index!Spec
=============================================================================
