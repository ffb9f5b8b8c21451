----------------------------- MODULE ItemStore -----------------------------
(***************************************************************************)
(* connectors/database/dynamo.go, Get, Upsert, Delete and Query, with the  *)
(* keys of the models, the model registry and the user handlers on top.    *)
(*                                                                         *)
(* One table holds the items of all models under <<PK, SK>>.  No read asks *)
(* for consistency: one of the table or of its index GSI1 may see an item  *)
(* as it was some time ago.  A partition key is its prefix and an id; a    *)
(* sort key is a number whose tens digit stands for the prefix and whose   *)
(* units digit for the id, in the order of the strings.                    *)
(***************************************************************************)
EXTENDS Integers, FiniteSets, FiniteSetsExt, Sequences, SequencesExt

CONSTANTS
  Items,        \* the items written: [model, id, attr]
  Writers,      \* subset of Items that other programs write at any time
  InitialItems,
  Queries,      \* [index, pk, op, arg, limit, forward]
  Clients,      \* clients that sign up an external identity
  Identity,     \* [Clients -> the attr of the user they ask for]
  NewUser,      \* [Clients -> the id NewUser generates for them]
  Absent,
  MaxWrites     \* bound: writes by other programs

AUTHENTICATION_ID == 1  CHUNK == 2  DOC == 3  USER == 4    \* sort key prefixes

VARIABLES
  table,        \* [Keys -> Items \cup {Absent}], what was written
  seen,         \* [Keys -> the versions that a read of table or index may see]
  entries,      \* the registry, in registration order
  reader,       \* a client that follows NextCursor through the pages of a query
  signup,       \* what each signing-up client does
  writes

vars == <<table, seen, entries, reader, signup, writes>>

-----------------------------------------------------------------------------
(* models/*.go                                                             *)
PK(m) == CASE m.model = "user" -> <<"USER#", m.id>>
           [] m.model = "document" -> <<"DOC#", m.id>>
           [] OTHER -> <<"DOC#", m.attr>>          \* a chunk's attr is its document
SK(m) == 10 * (CASE m.model = "user" -> USER [] m.model = "chunk" -> CHUNK [] OTHER -> DOC) + m.id
Key(m) == <<PK(m), SK(m)>>
Keys == {Key(m) : m \in Items}

(* A chunk has no GSI.                                                     *)
GSI1(m) == IF m.model = "user" THEN <<<<"PROVIDER#", 0>>, 10 * AUTHENTICATION_ID + m.attr>>
           ELSE <<<<"STATUS#", m.attr>>, 10 * DOC + m.id>>
Indexed(m) == m # Absent /\ m.model # "chunk"

Registered == {[pk |-> "USER#", sk |-> USER, model |-> "user"],
               [pk |-> "DOC#", sk |-> DOC, model |-> "document"],
               [pk |-> "DOC#", sk |-> CHUNK, model |-> "chunk"]}

(* Mutant: the sort key does not take part.                                *)
LookupByPK(pk, sk) ==
  LET fits == {i \in DOMAIN entries : entries[i].pk = pk[1]}
  IN  IF fits = {} THEN "not found" ELSE entries[Min(fits)].model

(* The first entry whose prefixes both match.                              *)
Lookup(pk, sk) ==
  LET fits == {i \in DOMAIN entries : entries[i].pk = pk[1] /\ entries[i].sk = sk \div 10}
  IN  IF fits = {} THEN "not found" ELSE entries[Min(fits)].model

(* AttributeValueToModel: the model an item is decoded to.                 *)
Decode(k) == Lookup(k[1], k[2])

(* Get, when the read sees that version.                                   *)
Get(k, version) == IF version = Absent THEN "nil" ELSE Decode(k)

-----------------------------------------------------------------------------
(* Query: the rows of a partition in key order, as positions.  Rows of one *)
(* index sort key follow the table key.                                    *)
RowOf(q, m) ==
  IF m = Absent \/ (q.index /\ ~Indexed(m)) THEN 0
  ELSE LET at == IF q.index THEN GSI1(m) ELSE Key(m)
       IN  IF at[1] = q.pk THEN 10 * at[2] + m.id ELSE 0

Row(q, store, k) == RowOf(q, store[k])

Meets(q, sk) ==
  CASE q.op = "all" -> TRUE
    [] q.op = "EQ" -> sk = q.arg
    [] q.op = "BeginsWith" -> sk \div 10 = q.arg
    [] q.op = "Between" -> q.arg[1] <= sk /\ sk <= q.arg[2]
    [] q.op = "LT" -> sk < q.arg
    [] q.op = "LE" -> sk <= q.arg
    [] q.op = "GT" -> sk > q.arg
    [] q.op = "GE" -> sk >= q.arg

Matching(q, store) ==
  {k \in Keys : Row(q, store, k) # 0 /\ Meets(q, Row(q, store, k) \div 10)}

(* What one read may find: of each item, any version that is still seen.   *)
Behind == {k \in Keys : seen[k] # {table[k]}}
Views ==
  {[k \in Keys |-> IF k \in Behind THEN old[k] ELSE table[k]] :
     old \in {f \in [Behind -> UNION {seen[k] : k \in Behind}] : \A k \in Behind : f[k] \in seen[k]}}

(* Mutant: the cursor names the index sort key only.                       *)
BeyondSortKey(q, cursor, p) ==
  cursor = 0 \/ (IF q.forward THEN p \div 10 > cursor \div 10 ELSE p \div 10 < cursor \div 10)

Beyond(q, cursor, p) == cursor = 0 \/ (IF q.forward THEN p > cursor ELSE p < cursor)

(* Rows in the order of the query.                                         *)
InOrder(q, store, rows) ==
  CHOOSE s \in SetToSeqs(rows) :
    \A i, j \in DOMAIN s : i < j => (Row(q, store, s[i]) < Row(q, store, s[j])) = q.forward

(* The pages the service may answer: as many rows as Limit allows, or      *)
(* fewer when the page would be too large; LastEvaluatedKey is missing     *)
(* only when it got to the end before the limit.                           *)
Page(q, view, cursor) ==
  LET rows == {k \in Matching(q, view) : Beyond(q, cursor, Row(q, view, k))}
      sorted == InOrder(q, view, rows)
      n == Len(sorted)
  IN  {[rows |-> SubSeq(sorted, 1, i),
        next |-> IF i > 0 /\ (i = q.limit \/ i < n) THEN Row(q, view, sorted[i]) ELSE 0] :
         i \in IF n = 0 THEN {0} ELSE 1 .. (IF q.limit > 0 /\ q.limit < n THEN q.limit ELSE n)}

NoQuery == [index |-> FALSE, pk |-> <<>>, op |-> "all", arg |-> 0, limit |-> 0, forward |-> TRUE]
Idle == [phase |-> "idle", q |-> NoQuery, cursor |-> 0, got |-> <<>>, lasting |-> {}]
Failed == [Idle EXCEPT !.phase = "failed"]

(* History: the rows that every read saw at one position when the reader   *)
(* started, less those that have moved in its partition since.             *)
Settled(q) ==
  {k \in Matching(q, table) : \A m \in seen[k] : RowOf(q, m) = Row(q, table, k)}
StillThere(q, lasting, old, new) == {k \in lasting : Row(q, new, k) = Row(q, old, k)}

-----------------------------------------------------------------------------
Init ==
  /\ table = [k \in Keys |->
       IF \E m \in InitialItems : Key(m) = k THEN CHOOSE m \in InitialItems : Key(m) = k ELSE Absent]
  /\ seen = [k \in Keys |-> {table[k]}]
  /\ entries \in SetToSeqs(Registered)
  /\ reader = Idle
  /\ signup = [c \in Clients |-> [phase |-> "idle", blind |-> FALSE]]
  /\ writes = 0

Write(k, m) ==
  /\ table' = [table EXCEPT ![k] = m]
  /\ seen' = [seen EXCEPT ![k] = @ \cup {m}]
  /\ reader' = [reader EXCEPT !.lasting = StillThere(reader.q, @, table, table')]

(* Upsert replaces the whole item; Delete does not mind an absent one.     *)
Upsert(m) ==
  /\ writes < MaxWrites /\ writes' = writes + 1
  /\ Write(Key(m), m)
  /\ UNCHANGED <<entries, signup>>

Delete(k) ==
  /\ writes < MaxWrites /\ writes' = writes + 1
  /\ Write(k, Absent)
  /\ UNCHANGED <<entries, signup>>

(* What was written last of an item has reached every replica and index.   *)
CatchUp(k) ==
  /\ seen[k] # {table[k]}
  /\ seen' = [seen EXCEPT ![k] = {table[k]}]
  /\ UNCHANGED <<table, entries, reader, signup, writes>>

(* The request for a page fails.                                           *)
QueryFails ==
  /\ reader.phase = "reading"
  /\ reader' = Failed
  /\ UNCHANGED <<table, seen, entries, signup, writes>>

StartQuery ==
  /\ reader.phase = "idle"
  /\ \E q \in Queries : reader' =
       [phase |-> "reading", q |-> q, cursor |-> 0, got |-> <<>>, lasting |-> Settled(q)]
  /\ UNCHANGED <<table, seen, entries, signup, writes>>

(* One Query: every row is decoded through the registry, and one that      *)
(* cannot be fails the page.  The reader passes NextCursor on.             *)
NextPage ==
  /\ reader.phase = "reading"
  /\ \E view \in Views : \E p \in Page(reader.q, view, reader.cursor) :
       reader' = IF \A i \in DOMAIN p.rows : Decode(p.rows[i]) # "not found"
         THEN [reader EXCEPT !.got = @ \o p.rows, !.cursor = p.next,
                             !.phase = IF p.next = 0 THEN "done" ELSE "reading"]
         ELSE Failed
  /\ UNCHANGED <<table, seen, entries, signup, writes>>

-----------------------------------------------------------------------------
(* Mutant: the sort key is given without its prefix.                       *)
IdentityWithoutPrefix(a) ==
  [index |-> TRUE, pk |-> <<"PROVIDER#", 0>>, op |-> "EQ", arg |-> a, limit |-> 1, forward |-> TRUE]

(* handlers/user: the query of GetByAuthID.                                *)
IdentityQuery(a) ==
  [index |-> TRUE, pk |-> <<"PROVIDER#", 0>>, op |-> "EQ", arg |-> 10 * AUTHENTICATION_ID + a,
   limit |-> 1, forward |-> TRUE]

(* The keys GetByAuthID may answer, none for (nil, nil).                   *)
GetByAuthID(a) == UNION {{p.rows : p \in Page(IdentityQuery(a), v, 0)} : v \in Views}

(* A client looks an identity up, and signs it up when there is no user.   *)
(* History: blind, when a write was not yet seen by all, or another        *)
(* sign-up was under way.                                                  *)
LookUp(c) ==
  /\ signup[c].phase = "idle"
  /\ \E rows \in GetByAuthID(Identity[c]) :
       signup' = [signup EXCEPT ![c] =
         [phase |-> IF rows = <<>> THEN "create" ELSE "done",
          blind |-> \/ Behind # {}
                    \/ \E d \in Clients : signup[d].phase = "create"]]
  /\ UNCHANGED <<table, seen, entries, reader, writes>>

UserOf(c) == [model |-> "user", id |-> NewUser[c], attr |-> Identity[c]]

(* The write is done, whether or not its answer arrives.                   *)
CreateUser(c) ==
  /\ signup[c].phase = "create"
  /\ Write(Key(UserOf(c)), UserOf(c))
  /\ signup' = [signup EXCEPT ![c].phase = "done"]
  /\ UNCHANGED <<entries, writes>>

(* The write fails; a lookup that does leaves everything as it was.        *)
SignUpFails(c) ==
  /\ signup[c].phase = "create"
  /\ signup' = [signup EXCEPT ![c].phase = "done"]
  /\ UNCHANGED <<table, seen, entries, reader, writes>>

Next ==
  \/ \E m \in Writers : Upsert(m)
  \/ \E k \in {Key(m) : m \in Writers} : Delete(k)
  \/ \E k \in Keys : CatchUp(k)
  \/ StartQuery \/ NextPage \/ QueryFails
  \/ \E c \in Clients : LookUp(c) \/ CreateUser(c) \/ SignUpFails(c)

Spec == Init /\ [][Next]_vars

(* What the theorems assume: ids and attributes of one digit, as the sort  *)
(* keys have room for, and ids of NewUser that nobody else writes.         *)
ItemAssumption ==
  /\ IsFiniteSet(Items) /\ Writers \cup InitialItems \subseteq Items /\ MaxWrites \in Nat
  /\ \A m \in Items :
       m.model \in {"user", "document", "chunk"} /\ m.id \in 0 .. 9 /\ m.attr \in 0 .. 9
  /\ \A q \in Queries : q.index \in BOOLEAN /\ q.forward \in BOOLEAN /\ q.limit \in Nat
  /\ \A c \in Clients :
       /\ UserOf(c) \in Items /\ \A m \in Writers \cup InitialItems : Key(m) # Key(UserOf(c))
       /\ \A d \in Clients \ {c} : NewUser[d] # NewUser[c]

-----------------------------------------------------------------------------
TypeOK ==
  /\ table \in [Keys -> Items \cup {Absent}]
  /\ seen \in [Keys -> SUBSET (Items \cup {Absent})]
  /\ entries \in SetToSeqs(Registered)
  /\ reader.phase \in {"idle", "reading", "done", "failed"}
  /\ signup \in [Clients -> [phase : {"idle", "create", "done"}, blind : BOOLEAN]]
  /\ writes \in 0 .. MaxWrites

(* Following NextCursor reaches, in order and once, every row that stays   *)
(* where it is while the pages are read; whatever other programs write in  *)
(* the rest of the partition, and however far the pages lag behind that.   *)
PagesCoverLastingRows ==
  reader.phase = "done" =>
    \A k \in reader.lasting :
      /\ Cardinality({i \in DOMAIN reader.got : reader.got[i] = k}) = 1
      /\ \A j \in reader.lasting : Row(reader.q, table, j) < Row(reader.q, table, k) =>
           \E i, h \in DOMAIN reader.got :
             reader.got[i] = j /\ reader.got[h] = k /\ (i < h) = reader.q.forward

(* An item comes back as the model that wrote it, in whatever order the    *)
(* package's init functions registered the models, although documents and  *)
(* their chunks share partitions.                                          *)
DecodedAsWritten ==
  \A k \in Keys : \A m \in seen[k] \ {Absent} : Get(k, m) = m.model

(* Two users of one identity in the table, both of sign-ups, come of a     *)
(* lookup that ran before a write had reached all of the index, or while   *)
(* another sign-up was under way: no other order of the calls makes a      *)
(* second user, also when the first sign-up was told that it failed.       *)
SignedUp(c) == table[Key(UserOf(c))] # Absent
SecondUserOnlyByRace ==
  \A c, d \in Clients :
    c # d /\ Identity[c] = Identity[d] /\ SignedUp(c) /\ SignedUp(d)
      => signup[c].blind \/ signup[d].blind
=============================================================================
