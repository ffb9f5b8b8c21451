----------------------------- MODULE DynamoBulk -----------------------------
(***************************************************************************)
(* The bulk operations of DynamoConnector: BulkGet, BulkUpsert and         *)
(* BulkDelete cut the caller's slice into chunks, and send each chunk with *)
(* batchGetWithRetry, batchWriteWithRetry or transactWriteWithRetry, which *)
(* retry what DynamoDB left unprocessed.  Several calls run concurrently   *)
(* against one table.                                                      *)
(*                                                                         *)
(* An item of a request is its position in the caller's slice.  The        *)
(* service handles the items of one batch call one by one, in any order    *)
(* and possibly not all of them; a transaction takes effect at once.       *)
(***************************************************************************)
EXTENDS Integers, Sequences

CONSTANTS
  Callers,             \* invocations of a bulk method, each runs once
  Keys,                \* primary keys of the table
  Absent, Before,      \* no item; what a key held before every call, if anything
  Requests,            \* the requests a caller may make
  BatchGetLimit, BatchWriteLimit, TransactWriteLimit, MaxRetries,
  Malformed,           \* nil keys and nil models: the conversion refuses them
  Unregistered         \* keys whose prefixes no registered model has

Request == [op : {"get", "put", "delete"}, atomic : BOOLEAN, keys : Seq(Keys)]

ASSUME BulkAssumption ==
  /\ BatchGetLimit \in Nat \ {0}
  /\ BatchWriteLimit \in Nat \ {0}
  /\ TransactWriteLimit \in Nat \ {0}
  /\ MaxRetries \in Nat \ {0}
  /\ Requests \subseteq Request
  /\ Malformed \subseteq Keys
  /\ Unregistered \subseteq Keys
  /\ {Absent, Before} \cap Callers = {}

VARIABLES
  table,       \* the item DynamoDB holds under each key: who put it
  pc,          \* where each call is
  req,         \* its arguments
  start,       \* ChunkSlice's start: the items before it are in earlier chunks
  attempt,     \* the retry loop's counter
  remaining,   \* positions still to be sent or answered in this chunk
  processed,   \* positions the service has handled in the call in flight
  items,       \* positions BulkGet found an item for
  result,      \* what the call returned
  cancelled,   \* callers whose context is cancelled
  served,      \* history: positions the service ever handled for the caller
  sent         \* history: service calls made for the caller

progress == <<req, start, attempt, remaining>>
vars == <<table, pc, progress, processed, items, result, cancelled, served, sent>>

NoRequest == [op |-> "get", atomic |-> FALSE, keys |-> <<>>]
Results == {"none", "ok", "unavailable", "malformed", "decode", "ctx", "service", "exceeded"}

-----------------------------------------------------------------------------
Positions(c) == 1 .. Len(req[c].keys)
KeyAt(c, p) == req[c].keys[p]
KeysAt(c, S) == {KeyAt(c, p) : p \in S}

(* A multi-item call with two items of one key is refused by the service.  *)
HasDuplicates(c) == \E p, q \in remaining[c] : p # q /\ KeyAt(c, p) = KeyAt(c, q)

(* chunkSize: atomic writes are cut by the transaction limit.              *)
LimitOf(r) == IF r.op = "get" THEN BatchGetLimit
              ELSE IF r.atomic THEN TransactWriteLimit ELSE BatchWriteLimit

(* Mutant: opts.Atomic is ignored when the chunk is sent.                  *)
NeverTransactional(c) == FALSE

(* useAtomic: which of the write loops sends the chunk.                    *)
Transactional(c) == req[c].op # "get" /\ req[c].atomic

(* The chunk of r that starts after position s.                            *)
ChunkEnd(r, s) == IF s + LimitOf(r) < Len(r.keys) THEN s + LimitOf(r) ELSE Len(r.keys)

(* Mutants: the upper bound of the slice is off by one; it is not capped.  *)
ChunkOneShort(r, s) == s + 1 .. ChunkEnd(r, s) - 1
ChunkUncapped(r, s) == s + 1 .. Len(r.keys)

ChunkSlice(r, s) == s + 1 .. ChunkEnd(r, s)

(* Mutant: the retry loop runs once too often.                             *)
ExhaustedLate(c) == attempt[c] > MaxRetries + 1

(* The retry loop of a batch call has no attempt left.                     *)
Exhausted(c) == attempt[c] > MaxRetries

Encodable(c) == KeysAt(c, remaining[c]) \cap Malformed = {}
Decodable(c, S) == KeysAt(c, S) \cap Unregistered = {}

(* The table after the items of c at the positions of S are written.       *)
Written(c, S) ==
  [k \in Keys |-> IF k \in KeysAt(c, S)
                  THEN IF req[c].op = "put" THEN c ELSE Absent
                  ELSE table[k]]

-----------------------------------------------------------------------------
Init ==
  /\ table = [k \in Keys |-> Before]
  /\ pc = [c \in Callers |-> "idle"]
  /\ req = [c \in Callers |-> NoRequest]
  /\ start = [c \in Callers |-> 0]
  /\ attempt = [c \in Callers |-> 0]
  /\ remaining = [c \in Callers |-> {}]
  /\ processed = [c \in Callers |-> {}]
  /\ items = [c \in Callers |-> {}]
  /\ result = [c \in Callers |-> "none"]
  /\ cancelled = {}
  /\ served = [c \in Callers |-> {}]
  /\ sent = [c \in Callers |-> 0]

(* return err, or the result of the whole call.                            *)
Return(c, r) ==
  /\ pc' = [pc EXCEPT ![c] = "done"]
  /\ result' = [result EXCEPT ![c] = r]

(* BulkGet, BulkUpsert, BulkDelete up to the first chunk: an empty slice   *)
(* is no work, and the client or the collection may be missing.            *)
Begin(c) ==
  /\ pc[c] = "idle"
  /\ \E r \in Requests :
       /\ req' = [req EXCEPT ![c] = r]
       /\ \/ /\ r.keys = <<>>
             /\ Return(c, "ok")
             /\ UNCHANGED remaining
          \/ /\ r.keys # <<>>
             /\ Return(c, "unavailable")
             /\ UNCHANGED remaining
          \/ /\ r.keys # <<>>
             /\ remaining' = [remaining EXCEPT ![c] = ChunkSlice(r, 0)]
             /\ pc' = [pc EXCEPT ![c] = "send"]
             /\ UNCHANGED result
  /\ UNCHANGED <<table, start, attempt, processed, items, cancelled, served, sent>>

(* Building one request and handing it to the SDK, which refuses to send   *)
(* it when the context is already cancelled.                               *)
Send(c) ==
  /\ pc[c] = "send"
  /\ \/ /\ ~Encodable(c)
        /\ Return(c, "malformed")
        /\ UNCHANGED <<processed, sent>>
     \/ /\ Encodable(c) /\ c \in cancelled
        /\ Return(c, "service")
        /\ UNCHANGED <<processed, sent>>
     \/ /\ Encodable(c) /\ c \notin cancelled
        /\ pc' = [pc EXCEPT ![c] = "wait"]
        /\ processed' = [processed EXCEPT ![c] = {}]
        /\ sent' = [sent EXCEPT ![c] = @ + 1]
        /\ UNCHANGED result
  /\ UNCHANGED <<table, progress, items, cancelled, served>>

-----------------------------------------------------------------------------
(* DynamoDB's side of a call in flight.                                    *)

(* One key of a BatchGetItem is read.  The read is eventually consistent,  *)
(* so the item may or may not be seen whatever the table holds now.        *)
ServeGet(c) ==
  /\ pc[c] = "wait" /\ req[c].op = "get" /\ ~HasDuplicates(c)
  /\ \E p \in remaining[c] \ processed[c], seen \in BOOLEAN :
       /\ processed' = [processed EXCEPT ![c] = @ \cup {p}]
       /\ served' = [served EXCEPT ![c] = @ \cup {p}]
       /\ items' = IF seen THEN [items EXCEPT ![c] = @ \cup {p}] ELSE items
  /\ UNCHANGED <<table, pc, progress, result, cancelled, sent>>

(* A non-empty part of a write takes effect: any one item of a             *)
(* BatchWriteItem, or a whole transaction.  The SDK may have sent the      *)
(* request twice, so an item can take effect twice before the answer.      *)
ServeWrite(c) ==
  /\ pc[c] = "wait" /\ req[c].op # "get" /\ ~HasDuplicates(c)
  /\ \E S \in IF Transactional(c) THEN {remaining[c]} ELSE {{p} : p \in remaining[c]} :
       /\ table' = Written(c, S)
       /\ processed' = [processed EXCEPT ![c] = @ \cup S]
       /\ served' = [served EXCEPT ![c] = @ \cup S]
  /\ UNCHANGED <<pc, progress, items, result, cancelled, sent>>

-----------------------------------------------------------------------------
(* Mutant: the nil error of the first chunk is returned to the caller.     *)
ReturnAfterChunk(c) == Return(c, "ok") /\ UNCHANGED <<start, attempt, remaining>>

(* The chunk is complete: the next one, or the caller's nil error.         *)
NextChunk(c) ==
  LET end == ChunkEnd(req[c], start[c])
  IN \/ /\ end = Len(req[c].keys)
        /\ Return(c, "ok")
        /\ UNCHANGED <<start, attempt, remaining>>
     \/ /\ end < Len(req[c].keys)
        /\ start' = [start EXCEPT ![c] = end]
        /\ attempt' = [attempt EXCEPT ![c] = 0]
        /\ remaining' = [remaining EXCEPT ![c] = ChunkSlice(req[c], end)]
        /\ pc' = [pc EXCEPT ![c] = "send"]
        /\ UNCHANGED result

(* Mutants: the retry sends the whole chunk again; it forgets to count.    *)
RetryWholeChunk(c, left) ==
  /\ remaining' = [remaining EXCEPT ![c] = ChunkSlice(req[c], start[c])]
  /\ attempt' = [attempt EXCEPT ![c] = @ + 1]
  /\ pc' = [pc EXCEPT ![c] = "sleep"]
  /\ UNCHANGED <<start, result>>
RetryUncounted(c, left) ==
  /\ remaining' = [remaining EXCEPT ![c] = left]
  /\ pc' = [pc EXCEPT ![c] = "sleep"]
  /\ UNCHANGED <<start, attempt, result>>

(* The next turn of the retry loop, for what is left, after a sleep.       *)
Backoff(c, left) ==
  /\ remaining' = [remaining EXCEPT ![c] = left]
  /\ attempt' = [attempt EXCEPT ![c] = @ + 1]
  /\ pc' = [pc EXCEPT ![c] = "sleep"]
  /\ UNCHANGED <<start, result>>

(* A BatchGetItem answer: the items are decoded, then the unprocessed keys *)
(* become the remaining ones.                                              *)
GetReply(c) ==
  /\ pc[c] = "wait" /\ req[c].op = "get" /\ ~HasDuplicates(c)
  /\ LET left == remaining[c] \ processed[c]
     IN \/ /\ ~Decodable(c, items[c])
           /\ Return(c, "decode")
           /\ UNCHANGED <<start, attempt, remaining>>
        \/ /\ Decodable(c, items[c]) /\ left # {}
           /\ Backoff(c, left)
        \/ /\ Decodable(c, items[c]) /\ left = {}
           /\ NextChunk(c)
  /\ UNCHANGED <<table, req, processed, items, cancelled, served, sent>>

(* A BatchWriteItem answer: unprocessed puts are decoded back into models, *)
(* which needs their type to be registered; deletes are decoded as keys.   *)
WriteReply(c) ==
  /\ pc[c] = "wait" /\ req[c].op # "get" /\ ~Transactional(c) /\ ~HasDuplicates(c)
  /\ LET left == remaining[c] \ processed[c]
     IN \/ /\ req[c].op = "put" /\ ~Decodable(c, left)
           /\ Return(c, "decode")
           /\ UNCHANGED <<start, attempt, remaining>>
        \/ /\ req[c].op = "delete" \/ Decodable(c, left)
           /\ left # {}
           /\ Backoff(c, left)
        \/ /\ left = {}
           /\ NextChunk(c)
  /\ UNCHANGED <<table, req, processed, items, cancelled, served, sent>>

TransactReply(c) ==
  /\ pc[c] = "wait" /\ Transactional(c) /\ processed[c] = remaining[c]
  /\ NextChunk(c)
  /\ UNCHANGED <<table, req, processed, items, cancelled, served, sent>>

(* An error from a batch call ends the operation.  The error may hide      *)
(* items the service has handled.                                          *)
BatchError(c) ==
  /\ pc[c] = "wait" /\ ~Transactional(c)
  /\ Return(c, "service")
  /\ UNCHANGED <<table, progress, processed, items, cancelled, served, sent>>

(* An error from a transaction.  isRetryableError accepts throttling and   *)
(* internal errors, after which the same items are sent again; the last    *)
(* attempt is followed by no sleep.                                        *)
TransactError(c) ==
  /\ pc[c] = "wait" /\ Transactional(c)
  /\ \/ /\ Return(c, "service")
        /\ UNCHANGED <<start, attempt, remaining>>
     \/ /\ c \notin cancelled /\ ~HasDuplicates(c) /\ attempt[c] < MaxRetries
        /\ Backoff(c, remaining[c])
     \/ /\ c \notin cancelled /\ ~HasDuplicates(c) /\ attempt[c] >= MaxRetries
        /\ Return(c, "exceeded")
        /\ UNCHANGED <<start, attempt, remaining>>
  /\ UNCHANGED <<table, req, processed, items, cancelled, served, sent>>

(* Mutant: the sleep waits for the context only.                           *)
WakeOnCancelOnly(c) ==
  /\ pc[c] = "sleep" /\ c \in cancelled
  /\ Return(c, "ctx")
  /\ UNCHANGED <<table, progress, processed, items, cancelled, served, sent>>

(* SleepWithContext: the timer fires and the loop condition is tested, or  *)
(* the context is done.  With both ready, select takes either.             *)
Wake(c) ==
  /\ pc[c] = "sleep"
  /\ \/ /\ ~Exhausted(c)
        /\ pc' = [pc EXCEPT ![c] = "send"]
        /\ UNCHANGED result
     \/ /\ Exhausted(c)
        /\ Return(c, "exceeded")
     \/ /\ c \in cancelled
        /\ Return(c, "ctx")
  /\ UNCHANGED <<table, progress, processed, items, cancelled, served, sent>>

Cancel(c) ==
  /\ pc[c] \in {"send", "wait", "sleep"} /\ c \notin cancelled
  /\ cancelled' = cancelled \cup {c}
  /\ UNCHANGED <<table, pc, progress, processed, items, result, served, sent>>

(* Every call has returned.                                                *)
Terminated == (\A c \in Callers : pc[c] = "done") /\ UNCHANGED vars

Answer(c) == GetReply(c) \/ WriteReply(c) \/ TransactReply(c) \/ BatchError(c) \/ TransactError(c)

Next ==
  \/ \E c \in Callers : \/ Begin(c) \/ Send(c) \/ ServeGet(c) \/ ServeWrite(c)
                        \/ GetReply(c) \/ WriteReply(c) \/ TransactReply(c)
                        \/ BatchError(c) \/ TransactError(c)
                        \/ Wake(c) \/ Cancel(c)
  \/ Terminated

Spec == Init /\ [][Next]_vars

(* A started call keeps running, its timers fire, and the SDK answers      *)
(* every request, with an error when the service stays silent.             *)
FairSpec == Spec /\ \A c \in Callers : WF_vars(Send(c)) /\ WF_vars(Wake(c)) /\ WF_vars(Answer(c))

-----------------------------------------------------------------------------
TypeOK ==
  /\ table \in [Keys -> Callers \cup {Absent, Before}]
  /\ pc \in [Callers -> {"idle", "send", "wait", "sleep", "done"}]
  /\ req \in [Callers -> Request]
  /\ start \in [Callers -> Nat]
  /\ attempt \in [Callers -> 0 .. MaxRetries + 1]
  /\ remaining \in [Callers -> SUBSET Nat]
  /\ processed \in [Callers -> SUBSET Nat]
  /\ items \in [Callers -> SUBSET Nat]
  /\ result \in [Callers -> Results]
  /\ cancelled \subseteq Callers
  /\ served \in [Callers -> SUBSET Nat]
  /\ sent \in [Callers -> Nat]

(* A nil error from BulkUpsert or BulkDelete means that every item of the  *)
(* slice took effect, and a nil error from BulkGet that the service        *)
(* answered for every key: whatever chunking and retries did in between.   *)
OkMeansServed == \A c \in Callers : result[c] = "ok" => served[c] = Positions(c)

(* Whenever a call stops, what took effect is a prefix of the slice up to  *)
(* the chunk it stopped in: every earlier chunk took effect entirely and   *)
(* no later chunk was touched.                                             *)
ChunkPrefix ==
  \A c \in Callers : /\ 1 .. start[c] \subseteq served[c]
                     /\ served[c] \subseteq 1 .. ChunkEnd(req[c], start[c])

AtomicWrite(c) == req[c].op # "get" /\ req[c].atomic

(* With Atomic set, each chunk takes effect entirely or not at all, also   *)
(* when the answer to the transaction is lost and the call fails.          *)
TransactionAtomic ==
  \A c \in Callers : AtomicWrite(c) =>
    served[c] \in {1 .. start[c], 1 .. ChunkEnd(req[c], start[c])}

(* An item that a batch answer reported as handled is not sent again: the  *)
(* retry carries exactly the unprocessed items.                            *)
OnlyUnprocessedRetried ==
  \A c \in Callers : pc[c] = "sleep" /\ ~AtomicWrite(c) =>
    remaining[c] = ChunkSlice(req[c], start[c]) \ served[c]

(* A call costs the service at most MaxRetries + 1 requests per chunk it   *)
(* reached, and gives up for exhaustion only after as many for one chunk.  *)
RetryBudget ==
  \A c \in Callers :
    /\ sent[c] <= (MaxRetries + 1) * (start[c] \div LimitOf(req[c]) + 1)
    /\ result[c] = "exceeded" => sent[c] >= MaxRetries + 1

(* Two atomic upserts of the same keys that fit in one transaction each    *)
(* never leave some of the keys to one caller and some to the other.       *)
OneTransaction(c) ==
  AtomicWrite(c) /\ req[c].op = "put" /\ Len(req[c].keys) <= TransactWriteLimit
AtomicUpsertsDoNotMix ==
  \A a, b \in Callers :
    a # b /\ OneTransaction(a) /\ OneTransaction(b)
      /\ KeysAt(a, Positions(a)) = KeysAt(b, Positions(b))
    => ~ \E k, m \in KeysAt(a, Positions(a)) : table[k] = a /\ table[m] = b

(* The bulk methods as their callers see them (BulkContract): no item      *)
(* outside the request is ever written, none before the call or after its  *)
(* return, and the error says whether all of them took effect.             *)
phase ==
  [c \in Callers |-> IF pc[c] = "idle" THEN "idle"
                     ELSE IF pc[c] # "done" THEN "running"
                     ELSE IF result[c] = "ok" THEN "ok" ELSE "failed"]
Contract == INSTANCE BulkContract
ImplementsContract == Contract!Spec

(* Every bulk call that gets a client returns, whatever the service        *)
(* answers and whether or not it is cancelled.                             *)
CallsReturn == \A c \in Callers : pc[c] = "send" ~> pc[c] = "done"
=============================================================================
