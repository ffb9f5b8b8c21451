# Formal models of secret_be

TLA+ models of the Go backend `secret_be`, checked by TLC on small instances,
with proofs checked by TLAPS. Line numbers refer to the files under `src/`.

The repository is a library of *connectors* (one interface and one or two
implementations per external service), a layer of models and request-scoped
data loaders over the DynamoDB connector, and a few user handlers. It has no
scheduler or protocol of its own. What is hard in it is what happens between
its calls: chunked writes that are retried while the service answers in part, a
counter shared by processes that can die, a goroutine and its channels,
iterators over a connection that can break, batches shared by concurrent loads,
upserts made of two requests, clients created and closed without a lock.

## 1. Inventory

| Component (source) | State | Operations | What is hard | What makes it correct |
|---|---|---|---|---|
| Database, bulk (`connectors/database/dynamo.go`, `utils/dynamo`) | a DynamoDB table; per call: chunk, attempt, remaining items | `BulkGet`, `BulkUpsert`, `BulkDelete` → `batchGetWithRetry`, `batchWriteWithRetry`, `transactWriteWithRetry` | partial answers, retries after ambiguous errors, cancellation, concurrent calls | a nil error means everything took effect; a failure leaves a prefix of chunks; a transaction is whole; the call ends |
| Database, single items and `Query` (`dynamo.go`) | the table and its index | `Get`, `Upsert`, `Delete`, `Query` | reads that lag; cursors over a table and an index that change meanwhile | every row that stays is read once, in order |
| Models and registry (`models/`) | the registered types | `RegisterModel`, `Lookup`, key builders | prefix lookup depends on registration order | a stored item decodes to the type that stored it |
| User handlers (`handlers/user`) | users in the table | create, get, get by auth ID | lagging index; no uniqueness | a second user of an identity comes only of a race |
| Memory cache (`connectors/cache/memory.go`) | map of entries with expiry, `RWMutex` | `Get`, `Set`, `Delete` | `Get` takes two locks one after the other | hits are current; nothing live is evicted |
| Redis cache (`cache/redis.go`) | external | one command each | – | – |
| Redis limiter (`ratelimit/redis.go`) | a counter per key and second in Redis; local token bucket | `Wait` → `waitRedis` | INCR, EXPIRE and DECR are separate commands, resent when an answer is lost; clock; crashes | limit per window; no place lost; keys expire |
| Memory limiter (`ratelimit/memory.go`), and the local bucket of `redis.go` | map of token buckets | `Wait` | first callers race; `SetLimit`/`SetBurst` are two calls | the callers of a key share one bucket |
| Inference (`inference/{base,openai,anthropic,gemini}.go`) | per stream: queue or channels, current event, error; per conversation: the caller's messages | `Complete`, `CompleteStream`; `Next`, `Event`, `Err`, `Close` | goroutine and channels; broken connections; protocol of calls; messages mapped there and back by three providers, each with its own way to name a call | no event lost, reordered or repeated without an error; tool calls and their results stay together and are told apart |
| Inference router (`router.go`) | the providers that exist | chooses one by model name | conversations that change provider | total and unambiguous |
| Data loader (`dataloader/loader.go`) | the open batch, batches in flight | `Load`, `LoadMany` | shared batches; results by key; other writers; reads that lag | each `Load` gets its own item, once |
| Graph (`graphdb/neo4j.go`) | users, friendships, blocks | `Link`, `Unlink`, `Block`, `Unblock`, `UpsertUser`, `WithinDegrees` | MERGE without a uniqueness constraint; blocks in both directions | a graph of friends; who is blocked is not seen |
| Connectors aggregate (`connectors.go`) and the lazy clients of all connectors | list of connectors, clients, `sync.Once` | `DefaultConnectors`, `Close`, `Health`, `getClient` | one of several fails; `Close` races with calls; a factory that nothing runs | what was opened is closed and stays so; a missing client has a cause |
| Secret manager (`secret/secretmanager.go`) | a secret and its version | `Get`, `Set`, `Update`, `Delete` | create, then put on conflict | a register: every call acts at one moment |
| Time series (`timeseries/timescale.go`) | tables | `CreateMeasurement`, `DropMeasurement`, `WritePoints`, `Query`, `QueryAggregate` | up to six DDL statements without a transaction; quoted and unquoted names; IF NOT EXISTS | what was asked for is there, or was there already; adjacent ranges add up |
| Vector store (`vector/qdrant.go`) | points of a collection | batches, queries with filters, collections | ids converted both ways; batches acknowledged before they are applied; lost answers | an index by ULID that applies batches in order |
| Storage, LiveKit, PDF, embedding, feature flags, authentication, notification, SMS, dependencies, tasks | external | one API call each | – | – |

Interactions: handlers use loaders and the database connector; a loader's batch
function calls `BulkGet`; `BulkGet`, `Query` and the retry of unprocessed puts
decode through the registry; the Redis limiter falls back on its local bucket;
the router forwards to the three providers, whose streams all implement
`CompletionStream`; the aggregate builds, pings and closes all connectors. Every
call carries a `context.Context`, which may be done at any moment.

The hazards are listed, each at its line and with the properties that guard it,
in `PROJECT.json`.

## 2. Plan

The plan was written in the order of importance; all of its modules exist.

| Module | Models | Abstract specification | Theorems |
|---|---|---|---|
| `DynamoBulk` | the bulk operations | `BulkContract` | type, completeness, prefix, atomicity, retries and their number, no mixing, the refinement |
| `MemoryCache` | the cache at lock granularity | – | type, current hits, untimed keys |
| `RedisRateLimiter` | `waitRedis` command by command | – | type, limit of a second, denials, TTLs |
| `GeminiStream` | goroutine, channels and iterator | `CompletionStream` | truncation, skipping, the refinement |
| `OpenAIStream`, `AnthropicStream` | the other two iterators | `CompletionStream` | delivery, the current event, the refinements |
| `Completion` | `Complete`: requests, responses, failures, the router | – | calls and results, texts |
| `Inference` | composes `Completion` and the streams behind the router | – | type, and those of its parts |
| `DataLoader` | loads and batches over `BulkGet`'s chunks | – | type, one batch each, current loads |
| `ItemStore` | single items, `Query`, registry, user handlers | – | queries, sign-ups |
| `UserGraph` | users, links, blocks, `WithinDegrees` | `SocialGraph` | answers, the refinement |
| `ConnectorLifecycle` | start, `Health`, `Close`, lazy `getClient` | – | `Close` releases, missing clients, closed for good |
| `SecretStore` | `Get`, `Set`, `Update`, `Delete` | `SecretRegister` | refused sets, the refinement |
| `Measurements` | DDL, writes and queries of TimescaleDB | – | creation, ranges |
| `VectorStore` | batches, queries and collections of Qdrant | `VectorIndex` | the refinement |
| `LocalLimiter` | one key's token bucket | – | the shared bucket and its rate |
| `Services` | composes the last seven, from `ItemStore` on | – | type, and those of its parts |

Every invariant, action property and refinement that the passing runs check is
stated by a theorem, but for `IdsTellCallsApart`. What the plan has left: a
proof of that one, the time series' tag filters and `LIMIT`, and whatever a
change of the code adds.

## 3. Modules and the code

The exact lines behind every definition are in the `map` of `PROJECT.json`. A
definition commented "Mutant" is a plausible error of the definition that
follows it; it is used only to confirm that a property notices it. Variables
commented "history" exist for the properties and influence nothing.

**`DynamoBulk`**: one `Callers` element is one invocation of a bulk method.
`pc` is "send" (a request is built), "wait" (the SDK call is in flight),
"sleep" (`SleepWithContext`), "done". `Begin` is the method up to its first
chunk; `Send` the conversion and the call; `GetReply`, `WriteReply`,
`TransactReply`, `BatchError`, `TransactError` are the code after the SDK
returns; `Wake` is the sleep and the test of the loop condition. Items are
positions in the caller's slice, so two items of one key stay apart. DynamoDB
(`ServeGet`, `ServeWrite`) is external: a batch takes effect item by item, in
any order, perhaps in part and perhaps twice when the SDK repeats the request;
a transaction takes effect at once; an error may hide an effect; a request that
names a key twice is refused. Reads are eventually consistent. `Malformed` and
`Unregistered` keys make the conversions fail where the code converts. `served`
and `sent` are history. **`BulkContract`** is the same methods as the caller
sees them: no chunks or retries; `phase` in `DynamoBulk` is the refinement
mapping.

**`MemoryCache`**: a step ends where a lock is released or the clock is read.
`Set` reads the clock (`SetBegin`) before it locks (`SetStore`); `Get` reads
under the read lock (`GetRead`), looks at the expiry after it (`GetCheck`), and
evicts under the write lock (`GetEvict`). `log` and `since` are history.

**`RedisRateLimiter`**: `ReadClock`, `Incr`, `Expire`, `Decide`, `Decr`,
sleeping (`Tick` wakes it, `Interrupt` ends it) are the turns of `waitRedis`'s
loop. `Tick` also runs Redis's expiry. The answer of INCR is used; those of
EXPIRE and DECR are ignored, as in the code. go-redis, whose defaults
`redis.go:52` takes, sends a command again when the answer is lost, whether or
not it took effect: `IncrUnheard`, `ExpireUnheard` and `DecrUnheard` are a
command that took effect unheard and is sent again, at most `MaxRetries` times
(`sent`); `IncrFails` is one that did not, or not once more. `surplus` and
`unheard` are history: the DECRs that took effect again, and the INCRs nobody
heard of. The local token bucket is one step that lets the caller in or reports
its context's error; what happens inside it is **`LocalLimiter`**, whose code is
that of `ratelimit/memory.go`: `Lookup` under the read lock, `Create` under the
write lock, `Compare`, `SetLimit` and `SetBurst` as the caller's separate calls,
and `Wait`, `Wake`, `Cancel` for `rate.Limiter`'s reservations (external), in
whole seconds.

**`CompletionStream`** is what `base.go` promises of an iterator.
**`GeminiStream`** has the goroutine (`Respond`, `SendEvent`, `IterError`,
`IterEnd`, `SendDone`, `CloseChannel`), the bounded `eventCh` and `errCh`, and
the consumer: Go's `select` is the choice among `NextEvent`, `NextClosed` and
`NextError`. **`OpenAIStream`** and **`AnthropicStream`** have no goroutine: the
SDK's stream is a wire on which events arrive and which ends, cleanly or broken,
at any moment; `Next` pulls until an event is worth returning. Text, arguments
and usage are reduced to the number of the event and, for Anthropic, the tool
call it belongs to.

**`Completion`** is a conversation: the caller's turns (`UserTurn`, `ToolTurn`),
the router's choice and the provider's request (`Complete`, with
`AnthropicItems`, `OpenAIItems`, `GeminiItems` for the three builders of
requests), the answer mapped back (`Reply`, with `MapAnthropic`, `MapOpenAI`,
`MapGemini`), or a failure (`Rejected`). A text, an id and a name are sequences
of numbers, so that a request says which texts of which turns it carries, and a
made-up id what it was made of (`WithId`). Gemini's `FunctionResponse` has no id
and is named by the call's (`gemini.go:325`): it is a "named" item, not a
"result". There is no retry: Anthropic's loop goes on only after an error with a
method `StatusCode` (`anthropic.go:466`), OpenAI's codes ask for the same
(`openai.go:416`), and the errors of the clients have a field of that name, so
the code is "unknown" and not retryable. The clients resend a request by
themselves; this is inside the step from `Complete` to `Reply` or `Rejected`,
for it is the same request and no connector sees it. **`Inference`** lets one
caller converse or read one stream of the provider that the router picks for the
model, with the four modules as its parts.

**`DataLoader`**: `Load` joins the open batch; `Dispatch` (external, the
library's timer or size limit) hands it to the batch function; `ReadChunk` and
`BulkGetFails` are `BulkGet` as seen from there; `Deliver` is the lookup by key.
`Write` is anybody else's write. `BatchGetItem` asks for no consistent read
(`dynamo.go:464`): `behind` is what replicas may still hold of an item, `Seen`
what a read may give, and `CatchUp` (external) ends it. `witnessed` is history.
`LoadMany` is a `Load` per key, each on its own goroutine.

**`ItemStore`**: `table` maps keys to items, as written. No `Query` or `GetItem`
asks for a consistent read (`dynamo.go:145`, `dynamo.go:214`), so `seen` keeps,
for each key, the versions that a read of the table or of its index may still
find, until `CatchUp`; a read sees any combination of them (`Views`). `Page`
says which pages DynamoDB may answer to one view: full, or shorter where rows
are large; `NextPage` is one `Query`, decoding included, and its caller hands
the cursor on. `entries` is the registry, in any order `init` functions may have
left it. `LookUp`, `CreateUser` are the handlers, composed to a client that
signs up an identity it cannot find.

**`UserGraph`**: a call is `Call` (its checks), `Merge` (the transaction reads),
`CommitMerge` or `CommitDelete`, `Return`; `Fail` and `Retry` may come in
between. A node is a user and the number of the copy, because two MERGEs that
both miss a node both create it; `uniqueIDs` says whether the database has the
constraint that would prevent it. `WithinDegrees` is the Cypher query over
these nodes. **`SocialGraph`** is friends and blocks between users, without
nodes or transactions.

**`ConnectorLifecycle`**: `Conns` says what kind each connector is: lazy or not,
with a `getClient` or reading the field directly, whether `Close` drops the
client, keeps the reference, or does not exist. The lazy Qdrant connector stores
a factory and has no `getClient` to run it (`qdrant.go:35`, `NeverMade`).
`Build` is one connector of `DefaultConnectors`; `Begin` is `clientOnce.Do`,
`Check` and `Fetch` the two reads of the field in `getClient`; `Ping` is one
turn of `Health`'s loop and `CloseNext` of `Close`'s. They share no lock.

**`SecretStore`**: `CreateSecret` and `PutSecretValue` are the two halves of
`Set`; a value is encoded (`Encode`) as a string, as JSON, as bytes or not at
all, and decoded (`Decode`) by guessing. `Purge` ends the recovery window of a
deleted secret. **`SecretRegister`** is the atomic register of values.

**`Measurements`**: `Statements` lists what `CreateMeasurement` sends; each
`Statement` works or not on what it finds (`Works`) and has its effect
(`After`), under the quoted name or the folded one; `IfNotExists` keeps a
hypertable or policy with its old interval, and `kept` records, as history, that
a call's statement found something there. `Broken` is a connection lost before
or after a statement. `Query`, `Aggregate` and `AggregateFails` are the read
side.

**`VectorStore`**: ULIDs become UUID points and come back (`Uuid`,
`UlidString`); numbered points are those of an older program. `BuildFilter` is
the translation of filters, `Search` what Qdrant selects by them. A query is two
steps, `Embed` and `Search`. `Upsert` and `Delete` set no `Wait`
(`qdrant.go:221`, `qdrant.go:252`), so `BatchUpsert` and `BatchDelete` put a
batch into Qdrant's `queue` (`Accept`) and return; `Apply` applies the oldest
batch point by point, and a search in between sees part of it. The vectors of a
batch are taken to be of the collection's size, as the code leaves them.
**`VectorIndex`** is payloads by ULID and the batches accepted but not applied,
`pending`, with the filter as its caller wrote it.

**`Services`**: these seven connectors share no state, so a behaviour follows
one of them, `focus`, and the others rest in an initial state. Each property of
`Services` is that of its part while the part is in focus. No interaction is
lost by this: the interactions there are (loader and `BulkGet`, the router and
its streams, the aggregate and the connectors' clients, handlers and query) are
inside modules.

## 4. What is checked

| Run | Question and bounds |
|---|---|
| `bulk` | Two concurrent calls, chunks of two, one retry; batch and atomic writes and reads of one and of two chunks, with a malformed item, an unregistered model, one key twice, an empty slice. What a nil error means (`OkMeansServed`), what a failure leaves (`ChunkPrefix`), transactions (`TransactionAtomic`, `AtomicUpsertsDoNotMix`), retries (`OnlyUnprocessedRetried`, `RetryBudget`), the refinement of `BulkContract` (`ImplementsContract`), and the end of each of the three loops (`CallsReturn`). |
| `cache` | Four calls on one key over three clock values: `HitIsCurrent`, `UntimedKeysKeep`. |
| `rate_limit` | Three callers for one place a second, with commands failing, an answer lost and the command sent again, callers delayed or dead: `WindowLimit`, `NoSpuriousDenial`. |
| `rate_crashes` | Two callers for one place, cancelled or dead between two commands, Redis itself sound: `TTLOnlyLostByInterruption`, `WaitReturns`. |
| `inference` | A conversation of six messages and three requests over any of the three providers, or one stream of four events and the final one. What a request holds of the turns before it (`CallsAreAnswered`, `TextsCarryOver`), whether an id tells a call from the others (`IdsTellCallsApart`), what a stream delivers before it ends (`EventsArrive`), the end of Gemini's goroutine (`GoroutineEnds`), and the refinement of `CompletionStream` by all three (`StreamsImplementContract`). |
| `loader` | Three loads, two ids of which one has an item, chunks of two, a foreign write that reads lag behind, a database that may fail: `OneBatchEach`, `LoadIsCurrent`, `LoadReturns`. |
| `services` | The seven connectors of `Services`, three calls of two callers each: the graph (`AnswersVisible`), pages and decoding (`RowsComeBack`), sign-ups (`SecondUserOnlyByRace`), the lifecycle (`CloseReleases`, `MissingHasACause`, `ClosedStaysClosed`), secrets (`SetRefusedOnlyByDeletion`), time series (`CreatedAsAsked`, `RangesAddUp`), token buckets (`BucketIsShared`), and the refinements of `SocialGraph`, `SecretRegister` and `VectorIndex` (`ContractsAreImplemented`). |

The other five runs expect a violation; see below.

**Why the bounds are enough.** A limit of two items per chunk is the least for
which a chunk can be handled in part, and three items the least for a second,
shorter chunk. `MaxRetries = 1` has a first attempt, a retry and exhaustion. Two
callers are what an interleaving on shared items needs; a third only repeats one
of them. What a key holds before the calls does not matter to them and is one
value, `Before`. The cache needs a key, an entry that expires, one that does
not, and one call in each of the roles reader, evictor, writer; keys do not
interact. In the limiter, three callers compete for one place, so that two undo;
a clock modulo four seconds with half-second steps covers a counter's whole life
of two seconds plus one of delay. One lost answer (`MaxLost`) and one resend
(`MaxRetries`) are a command that takes effect twice, and an INCR that is
counted and not heard of; the proofs are for any number. A channel of two blocks
after two events and two more arrive. Six messages are a question, a response
with two tool calls, the two results in one message or one each, the next
response, from another provider, and a turn after it. Three loads make a full
chunk and a second, shorter one, or two batches at once; the write may replace,
delete or create an item.

In `services`, the graph has three users, so that two degrees pass through a
third, each with up to two nodes, and three calls: two that race and one that
finds what they left. A document shares its partition with two chunks, pages are
of one or two rows in both directions, and one write by another program, which
each read may see or not, falls between any two pages. Two clients sign up one
identity. `Conns` has one connector of each kind, the lazy Qdrant last, one
goroutine besides `Health` and two `Close`s, the second after a failure of the
first. Three calls on a secret are a `Set`, a `Delete` between its halves, and a
`Get`. Of the two measurements the database folds one name to the other; the
requests differ in the intervals of chunks, retention and compression; the range
ends in `RangesAddUp` are bucket boundaries, points and neither. The vectors
have one ULID in both cases, a string that is none, a numbered point and a
filter in each of the three lists; three calls are two batches and a search
among them, or a collection dropped under a batch. The limiter has three callers
with one of two limits over two seconds.

`MaxEvents`, `MaxUnread`, `MaxParts`, `MaxTime`, `MaxVersion`, `MaxMessages`,
`MaxRequests`, `MaxCalls`, `MaxWrites`, `MaxCloses`, `MaxCopies`, `MaxDegrees`,
`MaxLost`, `Cycle` and `MaxStall` bound what has no bound in the code. A call
that would need a third node of a user ends there. Symmetry is used for callers,
calls and loads, which differ in nothing but their names, and never in a run
with a liveness property. `CHECK_DEADLOCK` is off where the calls of a behaviour
are bounded, so that it may end.

With two workers the largest runs take one or two minutes each: `rate_limit` has
9,254,956 distinct states, `bulk` 1,474,778, `loader` 577,435, `services`
575,278; `inference` has 332,563 and takes a quarter of a minute.

**Assumed delays.** `WindowLimit`, `NoSpuriousDenial` and
`TTLOnlyLostByInterruption` hold provided no caller takes longer over one turn
of the loop than `MaxStall`, one second in the runs and the proofs. The code
does not bound this, and go-redis waits three seconds for an answer before it
gives it up: a caller that reads the clock, stalls beyond its counter's two
seconds and then increments finds a fresh counter. It is admitted by a second
that has passed, so the limit of a second is the limit of its counter's first
life. The same goes for a command that a network delivers after its sender gave
it up. `TypeOK`'s range of the counter assumes nothing of the kind.

**Lost answers.** The limit itself does not survive them: a DECR that took
effect and is sent again takes the counter below the number of places given, and
each such DECR lets one caller more in. `WindowLimit` is `Limit` and these
(`surplus`). An INCR that is counted but not heard of, and resent, costs a later
caller its place: `NoSpuriousDenial` counts these (`unheard`) with the places
granted. A context that ends does not take go-redis from an answer it waits for,
for its `ContextTimeoutEnabled` is not set; it stops the next sending, so that
an unheard command followed by `IncrFails`, `Expire` or `Decr` is a cancelled
caller's lost answer. `rate_limit` leaves cancellations to `rate_crashes`: to
the counter a cancelled caller is one whose commands fail.

**Fairness.** `DynamoBulk`: a started call keeps running, timers fire and the
SDK answers each request, with an error if the connection fails or the context
is done; a service that keeps a connection open and silent would block the code
too. `RedisRateLimiter`: the clock advances and callers run; `WaitReturns` holds
for finitely many calls, which are sure to get a place once the others have
theirs; nothing in the code prevents starvation under an endless stream of
callers. `Inference`: Gemini's goroutine runs, the provider's response ends or
fails, and a `Close` that was called drains; nobody is made to call `Next` or
`Close`, so `GoroutineEnds` is conditional on `Close` or on `Next` having
returned false: a consumer that does neither leaves the goroutine blocked on the
full channel (`gemini.go:89`). `DataLoader`: batch timers fire and batch
functions run. `Services` states no fairness and checks safety only.

### Disagreements found

Each is shown by a run that expects a violation.

1. `cache_no_expiry`: `Get` evicts an entry it never saw (`memory.go:39`): a
   `Set` between its two locks is lost, also one without a TTL.
2. `rate_keys_leak`: a caller cancelled between INCR and EXPIRE leaves a counter
   without a TTL for ever (`ratelimit/redis.go:91`).
3. `anthropic_event_twice`: `Event` consumes the event (`anthropic.go:197`), so
   a second call after one `Next` returns the zero event; the other two
   providers return it again. The run `inference` calls `Event` once.
4. `loader_duplicates`: two concurrent Loads of one key in one batch make
   `BulkGet` fail for the whole batch (`loader.go:77`).
5. `measurement_case`: `create_hypertable` gets the name inside a string, which
   the database folds (`timescale.go:298`): for a name with upper case letters
   the call fails or returns nil for a table that is not a hypertable.

More came up while reading. They have no run of their own; where a property
steps around one, its comment says so.

- `Atomic` makes the transactions of a bulk write atomic, not the bulk write: a
  slice of more than 25 items is cut first (`dynamo.go:348`), which
  `ChunkPrefix` and `TransactionAtomic` state exactly, and which makes the limit
  error at `dynamo.go:604` unreachable.
- The "sliding-window counter" (`ratelimit/redis.go:18`) is a counter per Unix
  second (`redis.go:80`): `WindowLimit` is about one such second, and twice the
  limit may pass around a boundary.
- Expired cache entries go only when their key is read again (`memory.go:37`).
- OpenAI's `Next`, called again after it returned false, assigns the error anew
  (`openai.go:140`) and so forgets `response.failed`; the model's consumer stops
  at the first false.
- To Anthropic, the text next to an assistant's tool calls is not sent again;
  OpenAI gets only the first result of a tool message (`openai.go:217`); a user
  message with `Content` and parts loses the `Content` on OpenAI and Gemini.
  `CallsAreAnswered` and `TextsCarryOver` say what does arrive.
- Gemini's calls without an id get one made of the function's name
  (`gemini.go:364`), so two of one function collide (`IdsTellCallsApart`), and
  Gemini never reports the finish reason `tool_call`.
- A tool's result goes to Gemini under the id of its call (`gemini.go:325`),
  where the function's name belongs, and without an id. Neither an id of a
  provider nor one made by `gemini.go:364`, which begins with "call_", is the
  function's name, so no result names its call. `CallsAreAnswered` says that the
  call and the result are both there, in order, and that the result answers its
  call at OpenAI and Anthropic, but at Gemini only if the id happened to be the
  name.
- "Complete performs a non-streaming completion request with automatic retries
  for transient errors (429, 529, 502, 503, 504)" (`anthropic.go:49`). The loop
  goes on only after an error with a `StatusCode` method (`anthropic.go:466`).
  In the version of the SDK that `go.mod` names, the error has a field of that
  name and no such method: the loop never retries, and every failure, of
  OpenAI's client too (`openai.go:416`), gets the code "unknown".
- Of a lazy Qdrant connector (`qdrant.go:35`) nothing runs the factory
  (`clientOnce` is not used): the client is nil in every call.
  `MissingHasACause` names this case and says that it is always so.
- The integration tests of Qdrant query right after an upsert
  (`qdrant_integration_test.go:219`) and expect the point. Without `Wait`
  (`qdrant.go:221`) a nil error does not promise that, and `VectorIndex` does
  not.
- Read after write: `Get`, `Query`, `BulkGet` and the loaders ask for no
  consistent read, so a `Load` or a `GetByAuthID` right after a write may not
  see it. `LoadIsCurrent`, `RowsComeBack` and `SecondUserOnlyByRace` are about
  what reads have seen.
- `CreateMeasurement` passes over a hypertable or policy of another interval
  (`timescale.go:311`), and over an index of the same folded name on another
  table (`timescale.go:344`), and returns nil. `CreatedAsAsked` says so of what
  the call found there, and of nothing else.
- Making an OpenAI or Anthropic connector never fails, so "Skips providers whose
  keys are not set" (`router.go:35`) does not hold of them.
- A `ChunkInterval` of 0 fails when options are given (`types.go:61` says
  "default: 7 days"), and `WritePoints` ignores the error of closing its results
  (`timescale.go:106`), where a failed insert may show.
- `Close` stops at the first connector that fails, although its comment speaks
  of all (`connectors.go:220`). `CloseReleases` is about a `Close` that returns
  nil.
- Without a uniqueness constraint, copies of a user hide a block, and who was
  blocked stays visible (`neo4j.go:251`); `AnswersVisible` therefore assumes the
  constraint, and the symmetry of answers does not.
- Match conditions of other types are left out of a filter without an error,
  which widens it (`qdrant.go:370`); points with numbers are found but cannot be
  deleted.

## 5. What is proved

TLAPS checks these for every value of the constants that satisfies the named
assumption: any number of callers, keys and items, any limits.

**`DynamoBulk_proofs`**, from `BulkAssumption` (limits and retries are positive,
requests are well-formed, malformed and unregistered keys are keys, what a key
may hold besides a caller's item is no caller). `OkIsComplete`,
`PrefixOnFailure`, `TransactionsAreAtomic` and `RetriesAreExact` state
`OkMeansServed`, `ChunkPrefix`, `TransactionAtomic` and
`OnlyUnprocessedRetried`. None of them is inductive: what was served says
nothing of what is still to be sent. The invariant `IInv` adds, for each call
(`CallInv`), that a call that is still running has a non-empty chunk of its
slice before it; that `remaining` is part of this chunk and everything else of
the chunk is served; that what the call in flight has processed is remaining and
served; that between two batch calls nothing that is served remains; and that a
transaction's chunk remains whole until it is served. The lemma `ChunkBounds`
carries the arithmetic: chunks are not empty, each starts where the last one
ended, the last one ends with the slice. There is one lemma per action; `Frame`
says that the other calls' parts do not change. `BudgetHolds` states
`RetryBudget`: a call has sent at most `MaxRetries + 1` requests for each chunk
behind it and, for the current one, one per turn of its retry loop (`Budgeted`).
`UpsertsDoNotMix` states `AtomicUpsertsDoNotMix`. It needs in addition that a
key holds no item of a caller that has not begun (`Owned`), and that a call is
in its first chunk or at least a whole chunk further (`PastFirstChunk`): a call
whose keys fit in one transaction therefore writes all of them in one step.
`BulkImplementsContract` is the refinement (`ImplementsContract`): every step of
`DynamoBulk` is a step of `BulkContract` under the mapping, or changes nothing
of it (`StepRefines`).

**`MemoryCache_proofs`**, from `CacheAssumption` (TTLs are naturals, `NoTTL` is
not, the clock has a last value). `HitsAreCurrent` and `UntimedEntriesStay`
state `HitIsCurrent` and `UntimedKeysKeep`. The invariant adds to them that a
key that holds an entry holds the one stored last (`LastStored`); that the entry
a `Get` holds on to was stored under its key, and not before the operation that
was the last when the `Get` began (`StoredSince`); and that a `Get` about to
evict read an entry with a TTL. The last part is what `UntimedKeysKeep` rests
on: on a key without TTLs no `Get` evicts.

**`DataLoader_proofs`**, from `LoaderAssumption` (the chunk limit is positive,
the markers are distinct and no versions). `WaitsInOneBatch` states
`OneBatchEach`: the invariant's part `Apart` says that no two batches share a
Load, none names one twice, and every Load that waits is in one.
`LoadsAreCurrent` states `LoadIsCurrent`: an item that a batch has read was, for
every Load of the batch that asked for its key, held by some replica while that
Load waited (`ReadWhileWaiting`), and a key behind the batch's position for
which nothing was read was absent from some replica then (`ReadSoFar`); both
rest on `WitnessesNow`, that a waiting Load has witnessed whatever a read may
see now. `OrderOfSet` shows that whatever order the database answers in, every
item found is in it; `LookupFinds` is the lookup by key.

**`ConnectorLifecycle_proofs`**, from `LifecycleAssumption` (the list of
connectors is not empty and of the modelled kinds). The invariant ties each
connector's client to its field, to `sync.Once` and to the progress of `Close`
(`ConnInv`: one that `Close` has passed is open only if it was created since,
and a lazy one without `getClient` never is), and each call between the
statements of `getClient` to a reason for what it will find (`CallerInv`).

**`SecretStore_proofs`**, from `SecretAssumption` (the requests are of the
modelled kinds). A call's position fits its operation, and one that runs while
the secret is being deleted has witnessed the deletion (`CallInv`). On this rest
the refusals of `Set` and the refinement `SecretsAreARegister`: the effect of a
`Set` is that of whichever of its two requests is accepted.

**`Services_proofs`** is about the seven connectors of `Services`, from
`ServicesAssumption`, `GraphAssumption`, `SeriesAssumption` and
`PartsAssumption` (ids are numbers, limits positive, requests well-formed; what
else they assume is named below). A step of `Services` is a step of the part in
focus or leaves it alone (`OneInFocus`), so the theorems of
`ConnectorLifecycle_proofs` and `SecretStore_proofs` carry over:
`ServicesCloseReleases`, `ServicesMissing`, `ServicesClosedForGood`,
`ServicesSetRefused`. The other five parts are proved here, each with its own
inductive invariant; `ServicesTypes` is the type invariant of all.

- *Token buckets* (`LimiterInv`). `ServicesBucketIsShared`: however many callers
  find the key absent at once, there is one bucket (`LimiterTypes`), and by each
  second no more callers are served than a burst and the rate of the largest
  limit in use allow (`Within`). The rate is inductive only together with the
  tokens: those left and those reserved never exceed what the time has brought.
  `Retuned` says that without overlapping callers of different limits a bucket
  has its callers' limit, except between `SetLimit` and `SetBurst`.
- *Time series* (`SeriesInv`). `ServicesCreatedAsAsked`: each statement of a
  creation that is behind it has done what it was for, or found it done, until
  the name is dropped (`Progress`): the interval in place is the one asked for
  unless the statement is in `kept`, and an index of a folded name is on a table
  whose name folds to it. `ServicesRangesAddUp` is arithmetic on buckets and the
  ends of ranges.
- *Items.* `ServicesSecondUser`: of two clients of one identity at most one is
  `Live`, that is, created its user or is about to after a look at a time when
  every read saw every write and no other was signing up (`ItemInv`). It assumes
  that sign-ups make new ids and that nobody else writes to these.
  `ServicesRowsComeBack` (`ReaderInv`): of the rows that last through a query,
  each is read exactly once when the cursor has passed it, not before, and in
  order (`Covered`), whatever else comes and goes between pages; every version
  of such a row that a read may see is at its position (`Steady`), so that no
  lagging view misses it. `OrderedRows` is what `InOrder` makes of the rows
  beyond the cursor; ids and attributes are assumed to have one digit, so that
  keys sort as their numbers do.
- *Graph* (`GraphInv`). `GraphIsSocial` is the refinement of `SocialGraph`; a
  call takes effect with its commit, or with the MERGE that finds all of it
  (`SocialPhase`). `ServicesAnswersVisible` is about data of any size: the
  Cypher query follows paths that use no relationship twice, its meaning as a
  graph walks from user to user (`Walks`). A shortest walk repeats no node, so
  it is such a path, and what the recursive functions of both sides compute is
  unfolded along `Iterates`, up to the least place where it could go wrong.
- *Vectors* (`VectorInv`). `VectorsAreAnIndex` is the refinement of
  `VectorIndex`. What the queue's writes do to points is what their entries do
  to the index (`EntryFor`, which is one to one: `OneEntry`), for a batch that
  joins the queue (`BatchWrites`, `PendingOn`) and for a write that leaves it
  (`PendingOff`). A search by the built filter hits what the filter as written
  means (`Hits`, `Meeting`). It assumes well-formed conditions and no all-zero
  entropy in an upserted ULID.

`ServicesContractsAreImplemented` puts the three refinements together.

**`RedisRateLimiter_proofs`**, from `RateAssumption` and, for all but the type
invariant, `MaxStall <= 1`: a counter lives two seconds, so no longer delay
would do. `MaxRetries` and `MaxLost` are any naturals. The invariant follows
from what a counter stands for. Half a second at a time, `Clocks` says that
callers in a turn of the loop have a window at most three half seconds old and
that a counter with a TTL lives until then, so that `Tick` removes no counter in
use. `Counted` bounds the callers whose increment is not undone yet, the
`Holders`, by the counter's value and the DECRs that took effect again
(`surplus`): a lost DECR or an unheard INCR only makes the counter too large,
and a caller stops to hold its increment with the first DECR that takes effect.
So the places of a second, `Entitled`, never exceed the limit and the surplus
(`Places`). `Denials` bounds the counter from the other side, by the places it
granted and the INCRs that were not heard of (`Due`), and `Untimed` names the
caller that left a counter without a TTL. `LimitHolds`, `DenialsAreDue` and,
when Redis answers, `TTLsAreSet` state the properties of the runs `rate_limit`
and `rate_crashes`. `CountersStayInRange` is the type invariant, whose one deep
part is the range of a counter. Each caller has `MaxRetries + 1` sendings of
each command in a second (`Attempts`), since it sleeps the second out after
them: the value is at most the number of sendings that can no longer count in
that second, and at least minus the number of those that can no longer undo an
increment there (`Stray`), whatever is lost or expires.

**`Inference_proofs`**, from `InferenceAssumption` (capacity and bounds are
naturals, errors are not nil) and `ConversationAssumption` (the router has
providers it knows, responses are of texts and calls), is about the router's
three streams and its conversations.

*Gemini* (`GInv`). `GControl` ties the place of the goroutine to how the
response ended and to the two channels: an error waits in `errCh` until `Next`
takes it, and the channel is closed only once the response has ended. `GInOrder`
says element by element that what was delivered, what is buffered and what waits
to be sent are the stream. Both are needed for the case a test hardly meets, a
`Next` that finds the channel closed and `errCh` empty: then the response ended
well and everything was delivered (`GeminiTruncatesNothing`,
`GeminiSkipsNothing`).

*OpenAI and Anthropic* (`OInv`, `AInv`). The wire also holds items that make no
event, so what is still to come cannot be counted by its length. `OReading` and
`AReading` say that it can be read: there are functions `at` and `call` that
start from what was delivered, say how many events there are and which tool call
is the current one after each item of the wire, name at each item the event of
the stream it stands for, and, unless the connection broke, end with the whole
stream. For Anthropic, `AControl` adds that the queue holds exactly the event
`Next` advanced to.

`EveryEventArrives` and `EveryStreamImplementsContract` state `EventsArrive` and
`StreamsImplementContract` for all three. In the refinement an arrival is the
contract's `Produce` or `Last`, a pull that returns is `Deliver` or `Finish`,
and everything between is a stutter.

*The conversation* (`CTalkInv`): `CallsStayAnswered` and `TextsAlwaysCarryOver`
state `CallsAreAnswered` and `TextsCarryOver`, over any number of turns and any
change of provider. Neither is inductive, for the next request is made of all of
the conversation by a provider that had no part in it. The invariant keeps what
every provider's builder needs: each message is sound for its role (`CSound`),
has the texts of the blocks it came from where `MapResponse` puts them
(`CMapped`), and has no result of a call that no earlier message asked for
(`CResultsAsked`); and while a request is under way it is that of the
conversation as it is now (`CRequested`). From a sound message each of the three
builders makes items that hold its calls, its results and its texts
(`ItemsHold`; Gemini's hold a result as a named item), and a request, the
concatenation of all of them, holds them in the order of the messages
(`RequestHolds`). The exceptions in the properties are those of the builders:
Anthropic's reads no text part of an assistant, OpenAI's one result per message.

**How data is reasoned about.** The library's induction theorems take an
operator as parameter and cannot be used, but a least counterexample can: a
non-empty set of naturals has a least element (`Least`). What `FlattenSeq` holds
(`FlattenHolds`), that a shortest walk is simple, and what the recursive
functions of `WithinDegrees` compute are proved this way. `SelectSeq`, `SortSeq`
and `RECURSIVE` operators are out of the provers' reach, so the modules select
by `FlattenSeq` (`OfType`) and order by a chosen permutation (`InOrder`).

**Model-checked only**: liveness, that is `CallsReturn`, `WaitReturns`,
`GoroutineEnds` and `LoadReturns`, which needs fairness and `ENABLED`;
`IdsTellCallsApart`; and the violations, which are counterexamples.

## 6. Not modelled

Connectors that make one API call per operation have no state or ordering of
their own: Redis cache, storage, LiveKit, PDF, embedding, feature flags,
authentication, notification, SMS. Their lazy clients are of the kinds in
`ConnectorLifecycle`, made by a `getClient` at the first call; only Qdrant's is
made by nothing. Dependencies and tasks are wiring and an example.
Conversions of requests and responses between the providers' types, JSON and
SQL text are data, as are timestamps, setters, parameters, schemas and usage.
Of the time series, tag filters, `LIMIT` and the values of aggregations are left
out; of the vectors, distances. Which points are nearest, and which users a
`LIMIT` keeps, is not determined by the code.
