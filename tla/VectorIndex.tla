----------------------------- MODULE VectorIndex -----------------------------
(***************************************************************************)
(* What vector.VectorConnector promises of one collection: payloads by     *)
(* id, written and deleted in batches that are accepted as a whole and     *)
(* applied afterwards in that order, entry by entry, and queries that      *)
(* return entries which meet the filter, up to the limit.                  *)
(***************************************************************************)
EXTENDS Integers, Sequences, FiniteSets

CONSTANTS
  Callers, Requests,
  ValidId(_), Canonical(_),   \* the ids that are ULIDs, and their one spelling
  Meets(_, _),                \* whether a payload meets a filter as its caller wrote it
  Missing                     \* index when the collection does not exist

VARIABLES
  index,        \* [id -> payload], or Missing
  legacy,       \* ids of entries that an older program numbered: Delete misses them
  pending,      \* the batches accepted, with the entries each has yet to apply
  done          \* [req, result, found]: the call of a caller

vars == <<index, legacy, pending, done>>

NotRunning == {"idle", "ok", "error"}

(* The entries of a batch: the last one of an id wins.                     *)
Entries(op, batch) ==
  LET last == {i \in DOMAIN batch : \A j \in DOMAIN batch :
                 Canonical(batch[j].id) = Canonical(batch[i].id) => j <= i}
  IN {[op |-> op, id |-> Canonical(batch[i].id), payload |-> batch[i].payload] : i \in last}

With(e) ==
  IF e.op = "upsert"
  THEN [id \in DOMAIN index \cup {e.id} |-> IF id = e.id THEN e.payload ELSE index[id]]
  ELSE [id \in DOMAIN index \ ({e.id} \ legacy) |-> index[id]]

AllValid(batch) == \A i \in DOMAIN batch : ValidId(batch[i].id)

Answers(req, found) ==
  LET hits == {id \in DOMAIN index : Meets(req.filter, index[id])}
      least == IF req.threshold THEN 0
               ELSE IF Cardinality(hits) < req.limit THEN Cardinality(hits) ELSE req.limit
  IN /\ found \subseteq {[id |-> id, payload |-> index[id]] : id \in hits}
     /\ Cardinality(found) \in least .. req.limit

Ends(c, result, found) ==
  done' = [done EXCEPT ![c].result = result, ![c].found = found]

Init ==
  /\ index = Missing \/ DOMAIN index = legacy
  /\ pending = <<>>
  /\ \A c \in Callers : done[c].result = "idle" /\ done[c].found = {}

Start(c) ==
  /\ done[c].result = "idle"
  /\ \E r \in Requests :
       done' = [done EXCEPT ![c] = [req |-> r, result |-> "running", found |-> {}]]
  /\ UNCHANGED <<index, legacy, pending>>

(* What a call changes: a batch is accepted, a collection made or dropped. *)
Effect(req) ==
  \/ /\ req.op \in {"upsert", "delete"} /\ index # Missing /\ AllValid(req.batch)
     /\ pending' = Append(pending, Entries(req.op, req.batch)) /\ UNCHANGED <<index, legacy>>
  \/ /\ req.op = "create collection" /\ index = Missing
     /\ index' = [id \in {} |-> Missing] /\ legacy' = {} /\ UNCHANGED pending
  \/ /\ req.op = "delete collection"
     /\ index' = Missing /\ legacy' = {} /\ pending' = <<>>

(* The oldest batch takes effect, an entry at a time.                      *)
Settle ==
  /\ pending # <<>> /\ index # Missing
  /\ \/ Head(pending) = {} /\ pending' = Tail(pending) /\ UNCHANGED index
     \/ \E e \in Head(pending) :
          index' = With(e) /\ pending' = [pending EXCEPT ![1] = @ \ {e}]
  /\ UNCHANGED <<legacy, done>>

Succeed(c) ==
  LET req == done[c].req IN
  /\ done[c].result = "running"
  /\ \/ Effect(req) /\ Ends(c, "ok", {})
     \/ /\ req.op = "query" /\ index # Missing
        /\ done'[c].result = "ok" /\ Answers(req, done'[c].found)
        /\ Ends(c, "ok", done'[c].found)
        /\ UNCHANGED <<index, legacy, pending>>

(* A batch that fails is accepted as a whole, its answer lost, or not.     *)
Fail(c) ==
  /\ done[c].result = "running" /\ Ends(c, "error", {})
  /\ Effect(done[c].req) \/ UNCHANGED <<index, legacy, pending>>

Return(c) ==
  /\ done[c].result \in {"ok", "error"} /\ Ends(c, "idle", {})
  /\ UNCHANGED <<index, legacy, pending>>

Next ==
  Settle \/ \E c \in Callers : Start(c) \/ Succeed(c) \/ Fail(c) \/ Return(c)

Spec == Init /\ [][Next]_vars
=============================================================================
