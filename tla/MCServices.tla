----------------------------- MODULE MCServices -----------------------------
(* Small instances of the connectors for TLC.                              *)
EXTENDS Services

(* UserGraph: both orders of a pair, blocks either way, self references.   *)
G(op, a, b) == [op |-> op, a |-> a, b |-> b]
MCGraphRequests ==
  {G("upsert", 1, 1), G("link", 1, 2), G("link", 3, 1), G("link", 2, 3), G("link", 1, 1),
   G("unlink", 2, 1), G("unlink", 1, 3), G("unlink", 2, 2),
   G("block", 2, 1), G("block", 1, 2), G("unblock", 2, 1)}

(* ItemStore: a document shares its partition with two chunks; two clients *)
(* sign up one identity.                                                   *)
I(model, id, attr) == [model |-> model, id |-> id, attr |-> attr]
MCItems ==
  {I("user", i, a) : i \in 1 .. 3, a \in 1 .. 2} \cup
  {I("document", 1, s) : s \in 1 .. 2} \cup {I("chunk", i, 1) : i \in 1 .. 2}
MCWriters == {I("user", 1, 1), I("user", 1, 2), I("document", 1, 2), I("chunk", 2, 1)}
MCInitialItems == {I("user", 1, 1), I("document", 1, 1), I("chunk", 1, 1), I("chunk", 2, 1)}
Q(index, pk, op, arg, limit, forward) ==
  [index |-> index, pk |-> pk, op |-> op, arg |-> arg, limit |-> limit, forward |-> forward]
MCQueries ==
  {Q(TRUE, <<"PROVIDER#", 0>>, "all", 0, 1, TRUE),
   Q(TRUE, <<"PROVIDER#", 0>>, "Between", <<11, 12>>, 2, FALSE),
   Q(FALSE, <<"DOC#", 1>>, "all", 0, 2, FALSE),
   Q(FALSE, <<"DOC#", 1>>, "BeginsWith", 2, 1, TRUE),
   Q(TRUE, <<"STATUS#", 1>>, "GT", 30, 0, TRUE)}
MCIdentity == [c \in Clients |-> 2]
MCNewUser == [c \in Clients |-> IF c = "c1" THEN 2 ELSE 3]

(* ConnectorLifecycle: one connector of each kind, the lazy Qdrant last.   *)
C(lazy, fails, getClient, close, again, pings) ==
  [lazy |-> lazy, fails |-> fails, getClient |-> getClient,
   close |-> close, again |-> again, pings |-> pings]
MCConns ==
  <<C(FALSE, FALSE, TRUE, "keep", "error", TRUE), C(TRUE, FALSE, TRUE, "drop", "ok", FALSE),
    C(FALSE, FALSE, FALSE, "none", "ok", FALSE), C(TRUE, TRUE, TRUE, "keep", "ok", TRUE),
    C(TRUE, FALSE, FALSE, "keep", "error", FALSE)>>

(* SecretStore: every kind of value in some request.                       *)
S(op, value) == [op |-> op, key |-> "key", value |-> value]
MCSecretRequests ==
  {S("set", "text"), S("set", "json text"), S("set", "no bytes"), S("set", "nil"),
   S("update", "object"), S("update", "channel"), S("update", "bytes"),
   S("delete", "nil"), S("get", "nil"), [S("update", "bytes") EXCEPT !.key = ""]}

(* Measurements: two names that the database folds to one.                 *)
MCFold(name) == "points"
P(time, tag, field) == [time |-> time, tag |-> tag, field |-> field]
M(op, name, chunk, retention, compression, points) ==
  [op |-> op, name |-> name, chunk |-> chunk, retention |-> retention,
   compression |-> compression, points |-> points]
MCMeasurementRequests ==
  {M("create", "points", 7, 0, 0, {}), M("create", "points", 7, 2, 3, {}),
   M("create", "points", 0, 1, 0, {}),
   M("create", "Points", 8, 1, 0, {}), M("create", "Points", 7, 0, 4, {}),
   M("write", "points", 0, 0, 0, {P(1, "a", TRUE), P(2, "a", FALSE)}),
   M("write", "points", 0, 0, 0, {}),
   M("write", "Points", 0, 0, 0, {P(3, "b", FALSE), P(4, NoTag, TRUE)}),
   M("drop", "points", 0, 0, 0, {}), M("drop", "Points", 0, 0, 0, {})}

(* VectorStore: one ULID in both cases, an id that is none, a numbered     *)
(* point, filters of each list.                                            *)
Id(time, entropy, form) == [time |-> time, entropy |-> entropy, form |-> form]
Payload(tag, n) == [f \in {"tag", "n"} |-> IF f = "tag" THEN tag ELSE n]
MCLegacyPayload == [f \in {"n"} |-> 1]
E(id, payload) == [id |-> id, payload |-> payload]
NoFilter == [must |-> {}, should |-> {}, mustNot |-> {}]
Match(field, type, value) ==
  [field |-> field, match |-> [type |-> type, value |-> value], range |-> None]
Between(field, gt, gte, lt, lte) ==
  [field |-> field, match |-> None, range |-> [gt |-> gt, gte |-> gte, lt |-> lt, lte |-> lte]]
V(op, batch, filter, limit, threshold) ==
  [op |-> op, collection |-> "c", batch |-> batch, filter |-> filter,
   limit |-> limit, threshold |-> threshold]
Batch(op, batch) == V(op, batch, NoFilter, 0, FALSE)
MCVectorRequests ==
  {Batch("upsert", <<E(Id(1, 2, "upper"), Payload("x", 1)), E(Id(1, 1, "upper"), Payload("y", 2))>>),
   Batch("upsert", <<E(Id(1, 1, "lower"), Payload("x", 2)), E(Id(1, 1, "upper"), Payload("x", 3))>>),
   Batch("upsert", <<E(Id(2, 1, "upper"), Payload("x", 2)), E(Id(1, 1, "short"), Payload("x", 3))>>),
   [Batch("upsert", <<E(Id(2, 1, "upper"), Payload("x", 2))>>) EXCEPT !.collection = ""],
   Batch("delete", <<E(Id(1, 2, "lower"), MCLegacyPayload), E(Id(2, 0, "upper"), MCLegacyPayload)>>),
   Batch("delete", <<E(Id(1, 1, "upper"), MCLegacyPayload), E(Id(2, 0, "short"), MCLegacyPayload)>>),
   V("query", <<>>, NoFilter, 0, FALSE), V("query", <<>>, NoFilter, 1, TRUE),
   V("query", <<>>, [must |-> {Match("tag", "keyword", "x")},
                     should |-> {Between("n", 1, None, None, 2), Match("n", "int", 3)},
                     mustNot |-> {}], 1, FALSE),
   V("query", <<>>, [must |-> {}, should |-> {},
                     mustNot |-> {Between("n", None, 2, 3, None)}], 0, FALSE),
   Batch("create collection", <<>>), Batch("delete collection", <<>>)}
=============================================================================
