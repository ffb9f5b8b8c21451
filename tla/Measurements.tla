----------------------------- MODULE Measurements -----------------------------
(***************************************************************************)
(* connectors/timeseries/timescale.go: CreateMeasurement sends its         *)
(* statements one by one, without a transaction, so creations, writes and  *)
(* drops of concurrent callers interleave and a failure leaves the table   *)
(* half made.  The statements name the table quoted, or in a string that   *)
(* the database folds to lower case.                                       *)
(***************************************************************************)
EXTENDS Integers, Sequences, FiniteSets

CONSTANTS
  Names, Fold(_),  \* measurements, and the name the database makes of an unquoted one
  Callers,
  Requests,     \* [op, name, chunk, retention, compression, points]
  Interval,     \* the bucket of QueryAggregate
  Times, NoTag,
  MaxCalls      \* bound: calls begun

\* A point is [time, tag, field]: the value of the tag grouped by, or NoTag,
\* and whether the field aggregated is present.

VARIABLES
  tables,       \* per name: [exists, hyper, retention, compress, policy, rows],
                \* hyper, retention and policy the intervals of the hypertable's
                \* chunks, of its retention and of its compression, 0 for none
  indexOn,      \* the table that has the tags index of a folded name, or "none"
  call,         \* [req, todo, result]
  dropped,      \* history: callers since whose start the name they gave, however
                \* folded, was dropped
  kept,         \* history: the statements of a call that found something there
                \* already and left it
  calls

vars == <<tables, indexOn, call, dropped, kept, calls>>

NoTable == [exists |-> FALSE, hyper |-> 0, retention |-> 0,
            compress |-> FALSE, policy |-> 0, rows |-> {}]

Init ==
  /\ tables = [n \in Names |-> NoTable]
  /\ indexOn = [n \in Names |-> "none"]
  /\ LET r == CHOOSE r \in Requests : TRUE IN
       call = [c \in Callers |-> [req |-> r, todo |-> <<>>, result |-> "idle"]]
  /\ dropped = {} /\ kept = [c \in Callers |-> {}] /\ calls = 0

(* The statements of an operation, in order; a write of no point has none. *)
Statements(req) ==
  CASE req.op = "create" ->
         <<"table", "hypertable">>
         \o (IF req.retention > 0 THEN <<"retention">> ELSE <<>>)
         \o (IF req.compression > 0 THEN <<"compress", "policy">> ELSE <<>>)
         \o <<"index">>
    [] req.op = "write" -> IF req.points = {} THEN <<>> ELSE <<"insert">>
    [] req.op = "drop" -> <<"drop">>

(* Whether a statement finds what it needs.                                *)
Works(s, req) ==
  LET own == tables[req.name]
      folded == tables[Fold(req.name)]
  IN CASE s \in {"table", "drop"} -> TRUE
       [] s = "hypertable" ->
            folded.exists /\ (folded.hyper > 0 \/ (folded.rows = {} /\ req.chunk > 0))
       [] s = "retention" -> folded.hyper > 0
       [] s = "compress" -> own.hyper > 0
       [] s = "policy" -> folded.hyper > 0 /\ folded.compress
       [] s \in {"index", "insert"} -> own.exists

(* if_not_exists keeps what is there, whatever interval it has.            *)
IfNotExists(old, new) == IF old = 0 THEN new ELSE old

After(s, req) ==
  LET own == req.name
      folded == Fold(req.name)
  IN CASE s = "table" -> [tables EXCEPT ![own].exists = TRUE]
       [] s = "hypertable" -> [tables EXCEPT ![folded].hyper = IfNotExists(@, req.chunk)]
       [] s = "retention" ->
            [tables EXCEPT ![folded].retention = IfNotExists(@, req.retention)]
       [] s = "compress" -> [tables EXCEPT ![own].compress = TRUE]
       [] s = "policy" -> [tables EXCEPT ![folded].policy = IfNotExists(@, req.compression)]
       [] s = "insert" -> [tables EXCEPT ![own].rows = @ \cup req.points]
       [] s = "drop" -> [tables EXCEPT ![own] = NoTable]
       [] s = "index" -> tables

(* The index is found by its folded name, whichever table it is on.        *)
IndexAfter(s, req) ==
  CASE s = "index" -> [indexOn EXCEPT ![Fold(req.name)] = IF @ = "none" THEN req.name ELSE @]
    [] s = "drop" -> [n \in Names |-> IF indexOn[n] = req.name THEN "none" ELSE indexOn[n]]
    [] OTHER -> indexOn

Finds(s, req) ==
  LET folded == tables[Fold(req.name)]
  IN CASE s = "hypertable" -> folded.hyper > 0
       [] s = "retention" -> folded.retention > 0
       [] s = "policy" -> folded.policy > 0
       [] s = "index" -> indexOn[Fold(req.name)] # "none"
       [] OTHER -> FALSE

Begin(c) ==
  /\ call[c].result = "idle" /\ calls < MaxCalls /\ calls' = calls + 1
  /\ \E r \in Requests : call' = [call EXCEPT ![c] =
       [req |-> r, todo |-> Statements(r),
        result |-> IF Statements(r) = <<>> THEN "ok" ELSE "running"]]
  /\ dropped' = dropped \ {c} /\ kept' = [kept EXCEPT ![c] = {}]
  /\ UNCHANGED <<tables, indexOn>>

(* Mutant: the next statement is sent whatever became of this one.         *)
GoesOn(c) ==
  call' = [call EXCEPT ![c].todo = Tail(@),
                       ![c].result = IF Tail(call[c].todo) = <<>> THEN "ok" ELSE @]

OnError(c) == call' = [call EXCEPT ![c].todo = <<>>, ![c].result = "error"]

(* What the next statement of a call does, if it works.                    *)
Effect(c) ==
  LET s == Head(call[c].todo)
      req == call[c].req
  IN /\ Works(s, req)
     /\ tables' = After(s, req) /\ indexOn' = IndexAfter(s, req)
     /\ dropped' = IF s = "drop"
          THEN dropped \cup {d \in Callers : Fold(call[d].req.name) = Fold(req.name)}
          ELSE dropped
     /\ kept' = IF Finds(s, req) THEN [kept EXCEPT ![c] = @ \cup {s}] ELSE kept

Statement(c) ==
  /\ call[c].result = "running"
  /\ \/ /\ Effect(c)
        /\ call' = [call EXCEPT ![c].todo = Tail(@),
             ![c].result = IF Tail(call[c].todo) = <<>> THEN "ok" ELSE @]
     \/ /\ ~Works(Head(call[c].todo), call[c].req) /\ OnError(c)
        /\ UNCHANGED <<tables, indexOn, dropped, kept>>
  /\ UNCHANGED calls

(* The connection is lost, before the statement is done or after it.       *)
Broken(c) ==
  /\ call[c].result = "running"
  /\ call' = [call EXCEPT ![c].todo = <<>>, ![c].result = "error"]
  /\ Effect(c) \/ UNCHANGED <<tables, indexOn, dropped, kept>>
  /\ UNCHANGED calls

Return(c) ==
  /\ call[c].result \in {"ok", "error"}
  /\ call' = [call EXCEPT ![c].result = "idle"]
  /\ kept' = [kept EXCEPT ![c] = {}]
  /\ UNCHANGED <<tables, indexOn, dropped, calls>>

Next == \E c \in Callers : Begin(c) \/ Statement(c) \/ Broken(c) \/ Return(c)

Spec == Init /\ [][Next]_vars

-----------------------------------------------------------------------------
(* Mutant: the end of the range is part of it.                             *)
InClosedRange(time, start, end) == start <= time /\ time <= end

InRange(time, start, end) == start <= time /\ time < end

Query(name, start, end) ==
  {r \in tables[name].rows : InRange(r.time, start, end)}

Group(r) == <<r.time \div Interval, r.tag>>

(* QueryAggregate, grouped by the tag: a row per bucket and tag, with the  *)
(* rows it stands for.  Reading it fails when a row has no tag, or when an *)
(* aggregation other than COUNT has nothing to aggregate.                  *)
Aggregate(name, start, end) ==
  LET rows == Query(name, start, end) IN
  [g \in {Group(r) : r \in rows} |-> {r \in rows : Group(r) = g}]

AggregateFails(name, type, start, end) ==
  LET groups == Aggregate(name, start, end) IN
  \E g \in DOMAIN groups :
    g[2] = NoTag \/ (type # "count" /\ \A r \in groups[g] : ~r.field)

-----------------------------------------------------------------------------
TypeOK ==
  /\ \A n \in Names : LET t == tables[n] IN
       /\ t.exists \in BOOLEAN /\ t.compress \in BOOLEAN
       /\ t.hyper \in {r.chunk : r \in Requests} \cup {0}
       /\ t.retention \in {r.retention : r \in Requests} \cup {0}
       /\ t.policy \in {r.compression : r \in Requests} \cup {0}
       /\ t.rows \subseteq UNION {r.points : r \in Requests}
  /\ indexOn \in [Names -> Names \cup {"none"}]
  /\ \A c \in Callers :
       /\ call[c].req \in Requests
       /\ call[c].todo = <<>> <=> call[c].result # "running"
       /\ call[c].result \in {"idle", "running", "ok", "error"}
  /\ kept \in [Callers -> SUBSET {"hypertable", "retention", "policy", "index"}]
  /\ dropped \subseteq Callers /\ calls \in 0 .. MaxCalls

Created(c) == call[c].req.op = "create" /\ call[c].result = "ok" /\ c \notin dropped

(* A creation that returns nil has left a hypertable, the policies it      *)
(* asked for and an index of the tags' index name, although the statements *)
(* of other creations, writes and failed attempts came in between, unless  *)
(* the name was dropped meanwhile.  Each has the interval asked for, and   *)
(* the index is on this table, unless the statement found one there: then  *)
(* a policy may have another interval, and the index may be on the table   *)
(* of the name in another case, this one having none, and nil is returned  *)
(* all the same.  This is so for names the database does not fold.         *)
CreatedAsAsked ==
  \A c \in Callers :
    LET req == call[c].req
        t == tables[req.name]
        HasOwn(s, interval, asked) == interval > 0 /\ (s \in kept[c] \/ interval = asked)
    IN Created(c) /\ Fold(req.name) = req.name =>
         /\ HasOwn("hypertable", t.hyper, req.chunk)
         /\ req.retention > 0 => HasOwn("retention", t.retention, req.retention)
         /\ req.compression > 0 => HasOwn("policy", t.policy, req.compression)
         /\ indexOn[req.name] # "none"
         /\ "index" \in kept[c] \/ indexOn[req.name] = req.name

(* "CreateMeasurement creates a hypertable for storing time-series data."  *)
CreatesAHypertable == \A c \in Callers : Created(c) => tables[call[c].req.name].hyper > 0

(* Adjacent ranges neither share a point nor miss one, and an aggregation  *)
(* of the whole range has the groups of the parts: with COUNT it fails     *)
(* only when a part does.                                                  *)
RangesAddUp ==
  \A n \in Names : \A s, m, e \in Times :
    s <= m /\ m <= e =>
      /\ Query(n, s, e) = Query(n, s, m) \cup Query(n, m, e)
      /\ Query(n, s, m) \cap Query(n, m, e) = {}
      /\ AggregateFails(n, "count", s, e) <=>
           AggregateFails(n, "count", s, m) \/ AggregateFails(n, "count", m, e)
      /\ AggregateFails(n, "avg", s, e) =>
           AggregateFails(n, "avg", s, m) \/ AggregateFails(n, "avg", m, e)
=============================================================================
