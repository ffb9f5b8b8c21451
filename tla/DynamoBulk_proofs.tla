-------------------------- MODULE DynamoBulk_proofs --------------------------
(***************************************************************************)
(* Proofs about DynamoBulk, for every set of callers, every request and    *)
(* every limit: types, and what a caller may conclude from the error a     *)
(* bulk method returns.                                                    *)
(***************************************************************************)
EXTENDS DynamoBulk, TLAPS

Active(c) == pc[c] \in {"send", "wait", "sleep"}
End(c) == ChunkEnd(req[c], start[c])
Chunk(c) == ChunkSlice(req[c], start[c])

(* The state of one call: its chunk lies inside the slice, what it does    *)
(* not have to send any more was served, and service outside the chunk is  *)
(* exactly the earlier chunks.  A batch write still has to send exactly    *)
(* what was not served; a transaction all of its chunk, served or not.     *)
CallInv(c) ==
  /\ pc[c] = "idle" => req[c] = NoRequest /\ attempt[c] = 0
  /\ pc[c] # "done" => result[c] = "none"
  /\ pc[c] \in {"send", "wait"} => attempt[c] <= MaxRetries
  /\ start[c] <= Len(req[c].keys)
  /\ Active(c) => start[c] < Len(req[c].keys)
  /\ Active(c) => remaining[c] \subseteq Chunk(c)
  /\ Active(c) => Chunk(c) \ remaining[c] \subseteq served[c]
  /\ pc[c] = "wait" => processed[c] \subseteq remaining[c] \cap served[c]
  /\ 1 .. start[c] \subseteq served[c]
  /\ served[c] \subseteq 1 .. End(c)
  /\ result[c] = "ok" => served[c] = Positions(c)
  /\ pc[c] \in {"send", "sleep"} /\ ~AtomicWrite(c) => served[c] \cap remaining[c] = {}
  /\ pc[c] = "wait" /\ ~AtomicWrite(c) => served[c] \cap remaining[c] = processed[c]
  /\ Active(c) /\ AtomicWrite(c) => remaining[c] = Chunk(c)
  /\ AtomicWrite(c) => served[c] \in {1 .. start[c], 1 .. End(c)}

IInv == TypeOK /\ \A c \in Callers : CallInv(c)

-----------------------------------------------------------------------------
(* A chunk lies inside the slice, and starts where the last one ended.     *)
LEMMA ChunkBounds ==
  ASSUME NEW r \in Request, NEW s \in Nat, s <= Len(r.keys)
  PROVE  /\ LimitOf(r) \in Nat \ {0}
         /\ Len(r.keys) \in Nat
         /\ ChunkEnd(r, s) \in Nat
         /\ s <= ChunkEnd(r, s)
         /\ ChunkEnd(r, s) <= Len(r.keys)
         /\ s < Len(r.keys) => s < ChunkEnd(r, s)
         /\ ChunkSlice(r, s) \subseteq Nat
         /\ 1 .. ChunkEnd(r, s) = 1 .. s \cup ChunkSlice(r, s)
         /\ 1 .. s \cap ChunkSlice(r, s) = {}
<1>1. Len(r.keys) \in Nat /\ LimitOf(r) \in Nat \ {0}
  BY BulkAssumption DEF Request, LimitOf
<1>2. ChunkEnd(r, s) \in Nat /\ s <= ChunkEnd(r, s) /\ ChunkEnd(r, s) <= Len(r.keys)
  BY <1>1 DEF ChunkEnd
<1> QED
  BY <1>1, <1>2 DEF ChunkEnd, ChunkSlice

(* Before any call, nothing is in progress and nothing was served.         *)
LEMMA InitialInvariant == Init => IInv
<1> SUFFICES ASSUME Init PROVE IInv
  OBVIOUS
<1>1. NoRequest \in Request /\ Len(NoRequest.keys) = 0
  BY DEF NoRequest, Request
<1>2. TypeOK
  BY <1>1, BulkAssumption DEF Init, TypeOK, Results
<1>3. ASSUME NEW c \in Callers PROVE CallInv(c)
  <2>1. End(c) \in Nat /\ 1 .. start[c] = {}
    BY <1>1, ChunkBounds DEF End, Init
  <2> QED
    BY <1>1, <2>1 DEF Init, CallInv, Active
<1> QED
  BY <1>2, <1>3 DEF IInv

(* A step of one call leaves the others alone.                             *)
LEMMA Frame ==
  ASSUME IInv, NEW c \in Callers, NEW d \in Callers \ {c},
         pc'[d] = pc[d], req'[d] = req[d], start'[d] = start[d],
         attempt'[d] = attempt[d], remaining'[d] = remaining[d],
         processed'[d] = processed[d], result'[d] = result[d], served'[d] = served[d]
  PROVE  CallInv(d)'
BY DEF IInv, CallInv, Active, End, Chunk, Positions, AtomicWrite

-----------------------------------------------------------------------------
(* A new call starts with its first chunk, none of it served.              *)
LEMMA BeginStep == ASSUME IInv, NEW c \in Callers, Begin(c) PROVE IInv'
<1> PICK r \in Requests :
      /\ req' = [req EXCEPT ![c] = r]
      /\ \/ r.keys = <<>> /\ Return(c, "ok") /\ UNCHANGED remaining
         \/ r.keys # <<>> /\ Return(c, "unavailable") /\ UNCHANGED remaining
         \/ /\ r.keys # <<>>
            /\ remaining' = [remaining EXCEPT ![c] = ChunkSlice(r, 0)]
            /\ pc' = [pc EXCEPT ![c] = "send"]
            /\ UNCHANGED result
  BY DEF Begin
<1>1. r \in Request /\ Len(r.keys) \in Nat /\ (r.keys = <<>> <=> Len(r.keys) = 0)
  BY BulkAssumption DEF Request
<1>2. ChunkSlice(r, 0) \subseteq Nat /\ ChunkEnd(r, 0) \in Nat
  BY <1>1, ChunkBounds
<1>3. /\ req' \in [Callers -> Request]
      /\ pc' \in [Callers -> {"idle", "send", "wait", "sleep", "done"}]
      /\ result' \in [Callers -> Results]
      /\ remaining' \in [Callers -> SUBSET Nat]
  BY <1>1, <1>2 DEF IInv, TypeOK, Return, Results
<1>4. TypeOK'
  BY <1>3 DEF IInv, TypeOK, Begin
<1>5. Len(NoRequest.keys) = 0 /\ req[c] = NoRequest /\ start[c] = 0 /\ served[c] = {}
  <2>1. Len(NoRequest.keys) = 0 /\ req[c] = NoRequest
    BY DEF NoRequest, IInv, CallInv, Begin
  <2>2. start[c] = 0
    BY <2>1 DEF IInv, CallInv, TypeOK
  <2>3. End(c) = 0
    BY <2>1, <2>2, ChunkBounds DEF End, IInv, TypeOK
  <2> QED
    BY <2>1, <2>2, <2>3 DEF IInv, CallInv
<1>6. CallInv(c)'
  <2>1. /\ req'[c] = r /\ start'[c] = 0 /\ attempt'[c] = 0 /\ served'[c] = {}
        /\ processed'[c] = processed[c] /\ result[c] = "none"
    BY <1>5 DEF Begin, IInv, TypeOK, CallInv
  <2>2. \/ pc'[c] = "done" /\ result'[c] = "ok" /\ Len(r.keys) = 0
        \/ pc'[c] = "done" /\ result'[c] = "unavailable"
        \/ /\ pc'[c] = "send" /\ result'[c] = "none" /\ Len(r.keys) > 0
           /\ remaining'[c] = ChunkSlice(r, 0)
    BY <1>1, <2>1 DEF IInv, TypeOK, Return
  <2> QED
    BY <1>1, <1>2, <2>1, <2>2, BulkAssumption DEF CallInv, Active, End, Chunk, Positions, AtomicWrite
<1>7. ASSUME NEW d \in Callers \ {c} PROVE CallInv(d)'
  <2>1. /\ pc'[d] = pc[d] /\ req'[d] = req[d] /\ result'[d] = result[d]
        /\ remaining'[d] = remaining[d]
    BY DEF IInv, TypeOK, Return
  <2> QED
    BY <2>1, Frame DEF Begin
<1> QED
  BY <1>4, <1>6, <1>7 DEF IInv

(* Sending, or failing to send, serves nothing.                            *)
LEMMA SendStep == ASSUME IInv, NEW c \in Callers, Send(c) PROVE IInv'
<1>1. TypeOK'
  BY DEF IInv, TypeOK, Send, Return, Results, progress
<1>2. CallInv(c)'
  BY DEF IInv, TypeOK, Send, Return, progress, CallInv, Active, End, Chunk, Positions, AtomicWrite
<1>3. ASSUME NEW d \in Callers \ {c} PROVE CallInv(d)'
  BY Frame DEF Send, IInv, TypeOK, Return, progress
<1> QED
  BY <1>1, <1>2, <1>3 DEF IInv

(* Service only adds positions of the chunk in progress.                   *)
LEMMA ServeStep ==
  ASSUME IInv, NEW c \in Callers, pc[c] = "wait",
         NEW S, S \subseteq remaining[c], AtomicWrite(c) => S = remaining[c],
         processed' = [processed EXCEPT ![c] = @ \cup S],
         served' = [served EXCEPT ![c] = @ \cup S],
         UNCHANGED <<pc, req, start, attempt, remaining, result>>
  PROVE  /\ \A d \in Callers : CallInv(d)'
         /\ processed' \in [Callers -> SUBSET Nat]
         /\ served' \in [Callers -> SUBSET Nat]
<1>1. S \subseteq Nat
  BY DEF IInv, TypeOK
<1>2. processed' \in [Callers -> SUBSET Nat] /\ served' \in [Callers -> SUBSET Nat]
  BY <1>1 DEF IInv, TypeOK
<1>3. S \subseteq 1 .. End(c)
  <2>1. req[c] \in Request /\ start[c] \in Nat /\ start[c] <= Len(req[c].keys)
    BY DEF IInv, TypeOK, CallInv
  <2>2. Chunk(c) \subseteq 1 .. End(c)
    BY <2>1, ChunkBounds DEF Chunk, End
  <2> QED
    BY <2>2 DEF IInv, CallInv, Active
<1>4. CallInv(c)'
  <2>1. /\ pc'[c] = "wait" /\ pc[c] = "wait" /\ req'[c] = req[c] /\ start'[c] = start[c]
        /\ attempt'[c] = attempt[c] /\ remaining'[c] = remaining[c] /\ result'[c] = result[c]
        /\ processed'[c] = processed[c] \cup S /\ served'[c] = served[c] \cup S
    BY DEF IInv, TypeOK
  <2>2. AtomicWrite(c) => served[c] \cup S = 1 .. End(c)
    <3>1. req[c] \in Request /\ start[c] \in Nat /\ start[c] <= Len(req[c].keys)
      BY DEF IInv, TypeOK, CallInv
    <3>2. 1 .. End(c) = 1 .. start[c] \cup Chunk(c)
      BY <3>1, ChunkBounds DEF Chunk, End
    <3> QED
      BY <3>2 DEF IInv, CallInv, Active
  <2>3. CallInv(c)
    BY DEF IInv
  <2> QED
    BY <1>3, <2>1, <2>2, <2>3 DEF CallInv, Active, End, Chunk, Positions, AtomicWrite
<1>5. ASSUME NEW d \in Callers \ {c} PROVE CallInv(d)'
  BY Frame DEF IInv, TypeOK
<1> QED
  BY <1>2, <1>4, <1>5

(* A key that is read is served once and belongs to the chunk.             *)
LEMMA ServeGetStep == ASSUME IInv, NEW c \in Callers, ServeGet(c) PROVE IInv'
<1> PICK p \in remaining[c] \ processed[c], seen \in BOOLEAN :
      /\ processed' = [processed EXCEPT ![c] = @ \cup {p}]
      /\ served' = [served EXCEPT ![c] = @ \cup {p}]
      /\ items' = IF seen THEN [items EXCEPT ![c] = @ \cup {p}] ELSE items
  BY DEF ServeGet
<1>1. p \in Nat /\ items' \in [Callers -> SUBSET Nat]
  BY DEF IInv, TypeOK
<1>2. /\ \A d \in Callers : CallInv(d)'
      /\ processed' \in [Callers -> SUBSET Nat]
      /\ served' \in [Callers -> SUBSET Nat]
  <2> DEFINE S == {p}
  <2>1. /\ S \subseteq remaining[c] /\ pc[c] = "wait" /\ ~AtomicWrite(c)
        /\ processed' = [processed EXCEPT ![c] = @ \cup S]
        /\ served' = [served EXCEPT ![c] = @ \cup S]
        /\ UNCHANGED <<pc, req, start, attempt, remaining, result>>
    BY DEF ServeGet, progress, AtomicWrite
  <2> HIDE DEF S
  <2> QED
    BY <2>1, ServeStep
<1> QED
  BY <1>1, <1>2 DEF IInv, TypeOK, ServeGet, progress

(* A write serves items of the chunk, all of them in a transaction.        *)
LEMMA ServeWriteStep == ASSUME IInv, NEW c \in Callers, ServeWrite(c) PROVE IInv'
<1> PICK S \in IF Transactional(c) THEN {remaining[c]} ELSE {{p} : p \in remaining[c]} :
      /\ table' = Written(c, S)
      /\ processed' = [processed EXCEPT ![c] = @ \cup S]
      /\ served' = [served EXCEPT ![c] = @ \cup S]
  BY DEF ServeWrite
<1>1. S \subseteq remaining[c] /\ (AtomicWrite(c) => S = remaining[c])
  BY DEF AtomicWrite, Transactional
<1>2. table' \in [Keys -> Callers \cup {Absent, Before}]
  BY DEF Written, IInv, TypeOK
<1>3. /\ \A d \in Callers : CallInv(d)'
      /\ processed' \in [Callers -> SUBSET Nat]
      /\ served' \in [Callers -> SUBSET Nat]
  BY <1>1, ServeStep DEF ServeWrite, progress
<1> QED
  BY <1>2, <1>3 DEF IInv, TypeOK, ServeWrite, progress

-----------------------------------------------------------------------------
(* Advancing: with nothing of the chunk left to serve, all of the slice up *)
(* to the end of the chunk is served.                                      *)
LEMMA NextChunkStep ==
  ASSUME IInv, NEW c \in Callers, Active(c), Chunk(c) \subseteq served[c], NextChunk(c),
         UNCHANGED <<table, req, processed, items, cancelled, served, sent>>
  PROVE  IInv'
<1>1. req[c] \in Request /\ start[c] \in Nat /\ start[c] <= Len(req[c].keys)
  BY DEF IInv, TypeOK, CallInv
<1>2. /\ Len(req[c].keys) \in Nat /\ End(c) \in Nat
      /\ start[c] <= End(c) /\ End(c) <= Len(req[c].keys)
      /\ 1 .. End(c) = 1 .. start[c] \cup Chunk(c)
  BY <1>1, ChunkBounds DEF End, Chunk
<1>3. served[c] = 1 .. End(c)
  BY <1>2 DEF IInv, CallInv
<1>4. CASE End(c) = Len(req[c].keys)
  <2>1. Return(c, "ok") /\ UNCHANGED <<start, attempt, remaining>>
    BY <1>4, <1>2 DEF NextChunk, End
  <2>2. TypeOK'
    BY <2>1 DEF IInv, TypeOK, Return, Results
  <2>3. CallInv(c)'
    BY <2>1, <1>3, <1>4 DEF IInv, TypeOK, CallInv, Return, Active, End, Chunk, Positions, AtomicWrite
  <2>4. ASSUME NEW d \in Callers \ {c} PROVE CallInv(d)'
    BY <2>1, Frame DEF IInv, TypeOK, Return
  <2> QED
    BY <2>2, <2>3, <2>4 DEF IInv
<1>5. CASE End(c) < Len(req[c].keys)
  <2> DEFINE next == ChunkSlice(req[c], End(c))
  <2>1. /\ start' = [start EXCEPT ![c] = End(c)]
        /\ attempt' = [attempt EXCEPT ![c] = 0]
        /\ remaining' = [remaining EXCEPT ![c] = next]
        /\ pc' = [pc EXCEPT ![c] = "send"]
        /\ UNCHANGED result
    BY <1>5, <1>2 DEF NextChunk, End
  <2>2. /\ next \subseteq Nat /\ 1 .. End(c) \cap next = {}
        /\ ChunkEnd(req[c], End(c)) \in Nat /\ End(c) < ChunkEnd(req[c], End(c))
    BY <1>1, <1>2, <1>5, ChunkBounds
  <2>3. TypeOK'
    BY <2>1, <2>2, <1>2, BulkAssumption DEF IInv, TypeOK
  <2>4. /\ pc'[c] = "send" /\ req'[c] = req[c] /\ start'[c] = End(c) /\ attempt'[c] = 0
        /\ remaining'[c] = next /\ result'[c] = "none" /\ served'[c] = 1 .. End(c)
    BY <2>1, <1>3 DEF IInv, TypeOK, CallInv, Active
  <2>5. Chunk(c)' = next /\ End(c)' = ChunkEnd(req[c], End(c))
    BY <2>4 DEF Chunk, End
  <2>6. CallInv(c)'
    BY <2>2, <2>4, <2>5, <1>2, <1>5, BulkAssumption DEF CallInv, Active, AtomicWrite
  <2>7. ASSUME NEW d \in Callers \ {c} PROVE CallInv(d)'
    BY <2>1, Frame DEF IInv, TypeOK
  <2> QED
    BY <2>3, <2>6, <2>7 DEF IInv
<1> QED
  BY <1>2, <1>4, <1>5

(* A retry keeps exactly the items that were not processed.                *)
LEMMA BackoffStep ==
  ASSUME IInv, NEW c \in Callers, pc[c] = "wait",
         NEW left, left \subseteq remaining[c], remaining[c] \ left \subseteq served[c],
         ~AtomicWrite(c) => served[c] \cap left = {}, AtomicWrite(c) => left = remaining[c],
         Backoff(c, left),
         UNCHANGED <<table, req, processed, items, cancelled, served, sent>>
  PROVE  IInv'
<1>1. left \subseteq Nat /\ attempt[c] + 1 \in 0 .. MaxRetries + 1
  BY BulkAssumption DEF IInv, TypeOK, CallInv
<1>2. TypeOK'
  BY <1>1 DEF IInv, TypeOK, Backoff
<1>3. CallInv(c)'
  BY <1>1 DEF IInv, TypeOK, CallInv, Backoff, Active, End, Chunk, Positions, AtomicWrite
<1>4. ASSUME NEW d \in Callers \ {c} PROVE CallInv(d)'
  BY Frame DEF IInv, TypeOK, Backoff
<1> QED
  BY <1>2, <1>3, <1>4 DEF IInv

(* Returning an error keeps what was served.                               *)
LEMMA FailStep ==
  ASSUME IInv, NEW c \in Callers, Active(c),
         NEW r \in Results \ {"ok"}, Return(c, r),
         UNCHANGED <<table, progress, processed, items, cancelled, served, sent>>
  PROVE  IInv'
<1>1. TypeOK'
  BY DEF IInv, TypeOK, Return, progress
<1>2. CallInv(c)'
  BY DEF IInv, TypeOK, CallInv, Return, progress, Active, End, Chunk, Positions, AtomicWrite
<1>3. ASSUME NEW d \in Callers \ {c} PROVE CallInv(d)'
  BY Frame DEF IInv, TypeOK, Return, progress
<1> QED
  BY <1>1, <1>2, <1>3 DEF IInv

(* Any answer of the service ends the call, retries or advances.           *)
LEMMA AnswerStep == ASSUME IInv, NEW c \in Callers, Answer(c) PROVE IInv'
<1> DEFINE left == remaining[c] \ processed[c]
<1>0. /\ pc[c] = "wait" /\ Active(c) /\ {"service", "decode", "exceeded"} \subseteq Results \ {"ok"}
      /\ processed[c] \subseteq remaining[c] \cap served[c]
      /\ Chunk(c) \ remaining[c] \subseteq served[c]
  BY DEF Answer, GetReply, WriteReply, TransactReply, BatchError, TransactError,
         Active, Results, IInv, CallInv
<1>1. /\ left \subseteq remaining[c] /\ remaining[c] \ left \subseteq served[c]
      /\ ~AtomicWrite(c) => served[c] \cap left = {}
  BY <1>0 DEF IInv, CallInv
<1>2. CASE GetReply(c)
  <2>1. CASE Return(c, "decode") /\ UNCHANGED <<start, attempt, remaining>>
    BY <1>0, <1>2, <2>1, FailStep DEF GetReply, progress
  <2>2. CASE Backoff(c, left)
    BY <1>0, <1>1, <1>2, <2>2, BackoffStep DEF GetReply, AtomicWrite
  <2>3. CASE left = {} /\ NextChunk(c)
    BY <1>0, <1>1, <1>2, <2>3, NextChunkStep DEF GetReply
  <2> QED
    BY <1>2, <2>1, <2>2, <2>3 DEF GetReply
<1>3. CASE WriteReply(c)
  <2>1. CASE Return(c, "decode") /\ UNCHANGED <<start, attempt, remaining>>
    BY <1>0, <1>3, <2>1, FailStep DEF WriteReply, progress
  <2>2. CASE Backoff(c, left)
    BY <1>0, <1>1, <1>3, <2>2, BackoffStep DEF WriteReply, AtomicWrite, Transactional
  <2>3. CASE left = {} /\ NextChunk(c)
    BY <1>0, <1>1, <1>3, <2>3, NextChunkStep DEF WriteReply
  <2> QED
    BY <1>3, <2>1, <2>2, <2>3 DEF WriteReply
<1>4. CASE TransactReply(c)
  BY <1>0, <1>4, NextChunkStep DEF TransactReply
<1>5. CASE BatchError(c)
  BY <1>0, <1>5, FailStep DEF BatchError
<1>6. CASE TransactError(c)
  <2>1. CASE Return(c, "service") /\ UNCHANGED <<start, attempt, remaining>>
    BY <1>0, <1>6, <2>1, FailStep DEF TransactError, progress
  <2>2. CASE Return(c, "exceeded") /\ UNCHANGED <<start, attempt, remaining>>
    BY <1>0, <1>6, <2>2, FailStep DEF TransactError, progress
  <2>3. CASE Backoff(c, remaining[c])
    BY <1>0, <1>6, <2>3, BackoffStep DEF TransactError, AtomicWrite, Transactional
  <2> QED
    BY <1>6, <2>1, <2>2, <2>3 DEF TransactError
<1> QED
  BY <1>2, <1>3, <1>4, <1>5, <1>6 DEF Answer

(* After the sleep the same items are sent again, or the call fails.       *)
LEMMA WakeStep == ASSUME IInv, NEW c \in Callers, Wake(c) PROVE IInv'
<1>1. Active(c) /\ {"ctx", "exceeded"} \subseteq Results \ {"ok"}
  BY DEF Wake, Active, Results
<1>2. CASE Return(c, "exceeded")
  BY <1>1, <1>2, FailStep DEF Wake
<1>3. CASE Return(c, "ctx")
  BY <1>1, <1>3, FailStep DEF Wake
<1>4. CASE ~Exhausted(c) /\ pc' = [pc EXCEPT ![c] = "send"] /\ UNCHANGED result
  <2>1. TypeOK'
    BY <1>4 DEF IInv, TypeOK, Wake, progress
  <2>2. CallInv(c)'
    BY <1>4, BulkAssumption
    DEF IInv, TypeOK, CallInv, Wake, Exhausted, progress, Active, End, Chunk, Positions, AtomicWrite
  <2>3. ASSUME NEW d \in Callers \ {c} PROVE CallInv(d)'
    BY <1>4, Frame DEF IInv, TypeOK, Wake, progress
  <2> QED
    BY <2>1, <2>2, <2>3 DEF IInv
<1> QED
  BY <1>2, <1>3, <1>4 DEF Wake

(* A cancelled context changes nothing by itself.                          *)
LEMMA CancelStep == ASSUME IInv, NEW c \in Callers, Cancel(c) PROVE IInv'
<1>1. TypeOK'
  BY DEF IInv, TypeOK, Cancel, progress
<1>2. ASSUME NEW d \in Callers PROVE CallInv(d)'
  BY DEF IInv, CallInv, Cancel, progress, Active, End, Chunk, Positions, AtomicWrite
<1> QED
  BY <1>1, <1>2 DEF IInv

-----------------------------------------------------------------------------
(* IInv is inductive.                                                      *)
THEOREM BulkInvariant == Spec => []IInv
<1>1. IInv /\ [Next]_vars => IInv'
  <2> SUFFICES ASSUME IInv, [Next]_vars PROVE IInv'
    OBVIOUS
  <2>1. CASE UNCHANGED vars
    BY <2>1 DEF vars, progress, IInv, TypeOK, CallInv, Active, End, Chunk, Positions, AtomicWrite
  <2>2. CASE Terminated
    BY <2>1, <2>2 DEF Terminated
  <2>3. ASSUME NEW c \in Callers,
               \/ Begin(c) \/ Send(c) \/ ServeGet(c) \/ ServeWrite(c)
               \/ Answer(c) \/ Wake(c) \/ Cancel(c)
        PROVE  IInv'
    BY <2>3, BeginStep, SendStep, ServeGetStep, ServeWriteStep, AnswerStep, WakeStep, CancelStep
  <2> QED
    BY <2>1, <2>2, <2>3 DEF Next, Answer
<1> QED
  BY <1>1, InitialInvariant, PTL DEF Spec

(* Every variable keeps its type; in particular the retry counter never    *)
(* exceeds MaxRetries + 1.                                                 *)
THEOREM TypeCorrect == Spec => []TypeOK
<1>1. IInv => TypeOK
  BY DEF IInv
<1> QED
  BY <1>1, BulkInvariant, PTL

(* A nil error from a bulk method means every item was served.             *)
THEOREM OkIsComplete == Spec => []OkMeansServed
<1>1. IInv => OkMeansServed
  BY DEF IInv, CallInv, OkMeansServed
<1> QED
  BY <1>1, BulkInvariant, PTL

(* What a stopped call leaves behind is the earlier chunks, and at most    *)
(* items of the chunk it stopped in.                                       *)
THEOREM PrefixOnFailure == Spec => []ChunkPrefix
<1>1. IInv => ChunkPrefix
  BY DEF IInv, CallInv, ChunkPrefix, End
<1> QED
  BY <1>1, BulkInvariant, PTL
(* Each transaction of an atomic write takes effect as a whole, even when  *)
(* its answer is lost and the call fails.                                  *)
THEOREM TransactionsAreAtomic == Spec => []TransactionAtomic
<1>1. IInv => TransactionAtomic
  BY DEF IInv, CallInv, TransactionAtomic, End
<1> QED
  BY <1>1, BulkInvariant, PTL

(* A batch retry carries exactly the items the service did not handle.     *)
THEOREM RetriesAreExact == Spec => []OnlyUnprocessedRetried
<1>1. IInv => OnlyUnprocessedRetried
  BY DEF IInv, CallInv, OnlyUnprocessedRetried, Active, Chunk
<1> QED
  BY <1>1, BulkInvariant, PTL

-----------------------------------------------------------------------------
(* What the calls cost the service.  The requests of the current chunk are *)
(* the turns of its retry loop, and earlier chunks took MaxRetries + 1     *)
(* requests each at most.                                                  *)
ChunksBefore(c) == start[c] \div LimitOf(req[c])
SentForChunk(c) == attempt[c] + IF pc[c] = "wait" THEN 1 ELSE 0

Budgeted(c) ==
  /\ pc[c] = "idle" => sent[c] = 0 /\ start[c] = 0
  /\ Active(c) => /\ SentForChunk(c) <= sent[c]
                  /\ sent[c] <= (MaxRetries + 1) * ChunksBefore(c) + SentForChunk(c)
  /\ sent[c] <= (MaxRetries + 1) * (ChunksBefore(c) + 1)
  /\ result[c] = "exceeded" => sent[c] >= MaxRetries + 1

LEMMA Quotients ==
  ASSUME NEW s \in Nat, NEW l \in Nat \ {0}
  PROVE  s \div l \in Nat /\ 0 \div l = 0 /\ (s + l) \div l = (s \div l) + 1
<1>1. s \div l \in Nat
  OBVIOUS
<1>2. 0 \div l = 0
  OBVIOUS
<1>3. (s + l) \div l = (s \div l) + 1
  OBVIOUS
<1> QED
  BY <1>1, <1>2, <1>3

(* One more chunk is worth another MaxRetries + 1 requests.                *)
LEMMA OneMoreChunk ==
  ASSUME NEW n \in Nat
  PROVE  /\ (MaxRetries + 1) * n \in Nat /\ (MaxRetries + 1) * (n + 1) \in Nat
         /\ (MaxRetries + 1) * (n + 1) = (MaxRetries + 1) * n + MaxRetries + 1
BY BulkAssumption

LEMMA BudgetTypes ==
  ASSUME IInv, NEW c \in Callers
  PROVE  /\ start[c] \in Nat /\ LimitOf(req[c]) \in Nat \ {0} /\ ChunksBefore(c) \in Nat
         /\ attempt[c] \in Nat /\ sent[c] \in Nat /\ SentForChunk(c) \in Nat /\ MaxRetries \in Nat
<1>1. start[c] \in Nat /\ start[c] <= Len(req[c].keys) /\ req[c] \in Request
      /\ attempt[c] \in Nat /\ sent[c] \in Nat
  BY BulkAssumption DEF IInv, TypeOK, CallInv
<1>2. LimitOf(req[c]) \in Nat \ {0}
  BY <1>1, ChunkBounds
<1>3. ChunksBefore(c) \in Nat
  BY <1>1, <1>2, Quotients DEF ChunksBefore
<1>4. SentForChunk(c) \in Nat
  BY <1>1 DEF SentForChunk
<1> QED
  BY <1>1, <1>2, <1>3, <1>4, BulkAssumption

(* What an answer does to the cost: it stops the call, starts another turn *)
(* or goes on to the next chunk.                                           *)
LEMMA AnswerCosts ==
  ASSUME IInv, NEW c \in Callers, Answer(c)
  PROVE  /\ pc[c] = "wait" /\ req' = req /\ sent' = sent
         /\ \/ /\ pc' = [pc EXCEPT ![c] = "done"] /\ UNCHANGED <<start, attempt>>
               /\ \/ \E r \in Results \ {"exceeded"} : result' = [result EXCEPT ![c] = r]
                  \/ result' = [result EXCEPT ![c] = "exceeded"] /\ attempt[c] >= MaxRetries
            \/ /\ pc' = [pc EXCEPT ![c] = "sleep"] /\ UNCHANGED <<start, result>>
               /\ attempt' = [attempt EXCEPT ![c] = @ + 1]
            \/ /\ pc' = [pc EXCEPT ![c] = "send"] /\ UNCHANGED result
               /\ start' = [start EXCEPT ![c] = ChunkEnd(req[c], start[c])]
               /\ ChunkEnd(req[c], start[c]) < Len(req[c].keys)
               /\ attempt' = [attempt EXCEPT ![c] = 0]
<1>1. {"ok", "decode", "service"} \subseteq Results \ {"exceeded"}
  BY DEF Results
<1>2. ASSUME NEW r \in Results \ {"exceeded"}, Return(c, r)
      PROVE  /\ pc' = [pc EXCEPT ![c] = "done"]
             /\ \E x \in Results \ {"exceeded"} : result' = [result EXCEPT ![c] = x]
  BY <1>2 DEF Return
<1>3. CASE GetReply(c) \/ WriteReply(c) \/ TransactReply(c)
  <2>1. /\ pc[c] = "wait" /\ req' = req /\ sent' = sent
        /\ \/ Return(c, "decode") /\ UNCHANGED <<start, attempt>>
           \/ \E left : Backoff(c, left)
           \/ NextChunk(c)
    BY <1>3 DEF GetReply, WriteReply, TransactReply
  <2> QED
    BY <1>1, <1>2, <2>1 DEF Backoff, NextChunk
<1>4. CASE BatchError(c)
  BY <1>1, <1>2, <1>4 DEF BatchError, progress
<1>5. CASE TransactError(c)
  <2>1. /\ pc[c] = "wait" /\ req' = req /\ sent' = sent
        /\ \/ Return(c, "service") /\ UNCHANGED <<start, attempt>>
           \/ Backoff(c, remaining[c])
           \/ Return(c, "exceeded") /\ attempt[c] >= MaxRetries /\ UNCHANGED <<start, attempt>>
    BY <1>5 DEF TransactError
  <2> QED
    BY <1>1, <1>2, <2>1 DEF Backoff, Return
<1> QED
  BY <1>3, <1>4, <1>5 DEF Answer

LEMMA AnswerBudget ==
  ASSUME IInv, NEW c \in Callers, Budgeted(c), Answer(c) PROVE Budgeted(c)'
<1>1. /\ pc[c] = "wait" /\ req'[c] = req[c] /\ sent'[c] = sent[c] /\ result[c] = "none"
      /\ attempt[c] <= MaxRetries
  BY AnswerCosts DEF IInv, CallInv
<1>2. /\ attempt[c] + 1 <= sent[c] /\ sent[c] <= (MaxRetries + 1) * ChunksBefore(c) + attempt[c] + 1
      /\ sent[c] <= (MaxRetries + 1) * (ChunksBefore(c) + 1)
  BY <1>1, BudgetTypes, OneMoreChunk DEF Budgeted, SentForChunk, Active
<1>3. CASE /\ pc' = [pc EXCEPT ![c] = "done"] /\ UNCHANGED <<start, attempt>>
           /\ \/ \E r \in Results \ {"exceeded"} : result' = [result EXCEPT ![c] = r]
              \/ result' = [result EXCEPT ![c] = "exceeded"] /\ attempt[c] >= MaxRetries
  <2>1. pc'[c] = "done" /\ start'[c] = start[c]
        /\ (result'[c] = "exceeded" => attempt[c] >= MaxRetries)
    BY <1>3 DEF IInv, TypeOK
  <2>2. ChunksBefore(c)' = ChunksBefore(c)
    BY <1>1, <2>1 DEF ChunksBefore
  <2> QED
    BY <1>1, <1>2, <2>1, <2>2, BudgetTypes DEF Budgeted, Active
<1>4. CASE /\ pc' = [pc EXCEPT ![c] = "sleep"] /\ UNCHANGED <<start, result>>
           /\ attempt' = [attempt EXCEPT ![c] = @ + 1]
  <2>1. pc'[c] = "sleep" /\ start'[c] = start[c] /\ result'[c] = "none" /\ attempt'[c] = attempt[c] + 1
    BY <1>1, <1>4 DEF IInv, TypeOK
  <2>2. ChunksBefore(c)' = ChunksBefore(c) /\ SentForChunk(c)' = attempt[c] + 1
    BY <1>1, <2>1, BudgetTypes DEF ChunksBefore, SentForChunk
  <2> QED
    BY <1>1, <1>2, <2>1, <2>2, BudgetTypes, OneMoreChunk DEF Budgeted, Active
<1>5. CASE /\ pc' = [pc EXCEPT ![c] = "send"] /\ UNCHANGED result
           /\ start' = [start EXCEPT ![c] = ChunkEnd(req[c], start[c])]
           /\ ChunkEnd(req[c], start[c]) < Len(req[c].keys)
           /\ attempt' = [attempt EXCEPT ![c] = 0]
  <2>1. start'[c] = ChunkEnd(req[c], start[c]) /\ attempt'[c] = 0 /\ pc'[c] = "send" /\ result'[c] = "none"
    BY <1>1, <1>5 DEF IInv, TypeOK
  <2>2. start'[c] = start[c] + LimitOf(req[c])
    <3>1. Len(req[c].keys) \in Nat
      BY DEF IInv, TypeOK, Request
    <3> QED
      BY <1>5, <2>1, <3>1, BudgetTypes DEF ChunkEnd
  <2>3. ChunksBefore(c)' = ChunksBefore(c) + 1 /\ SentForChunk(c)' = 0
    <3>1. LimitOf(req'[c]) = LimitOf(req[c])
      BY <1>1
    <3>2. start[c] \in Nat /\ LimitOf(req[c]) \in Nat \ {0}
      BY BudgetTypes
    <3>3. (start[c] + LimitOf(req[c])) \div LimitOf(req[c]) = (start[c] \div LimitOf(req[c])) + 1
      BY <3>2, Quotients
    <3>4. ChunksBefore(c)' = ChunksBefore(c) + 1
      BY <2>2, <3>1, <3>3 DEF ChunksBefore
    <3> QED
      BY <2>1, <3>4 DEF SentForChunk
  <2>4. sent[c] <= (MaxRetries + 1) * (ChunksBefore(c) + 1)
        /\ (MaxRetries + 1) * (ChunksBefore(c) + 1) <= (MaxRetries + 1) * (ChunksBefore(c) + 1 + 1)
    BY <1>2, BudgetTypes, OneMoreChunk
  <2>5. (MaxRetries + 1) * (ChunksBefore(c) + 1) \in Nat /\ (MaxRetries + 1) * (ChunksBefore(c) + 1 + 1) \in Nat
    BY BudgetTypes, OneMoreChunk
  <2> QED
    BY <1>1, <2>1, <2>3, <2>4, <2>5, BudgetTypes DEF Budgeted, Active
<1> QED
  BY <1>3, <1>4, <1>5, AnswerCosts

(* Only a new request costs anything, and the retry loop ends when it has  *)
(* made MaxRetries + 1.                                                    *)
LEMMA CallBudget ==
  ASSUME IInv, NEW c \in Callers, Budgeted(c),
         Begin(c) \/ Send(c) \/ ServeGet(c) \/ ServeWrite(c) \/ Wake(c) \/ Cancel(c)
  PROVE  Budgeted(c)'
<1>1. CASE Begin(c)
  <2>1. /\ sent'[c] = 0 /\ start'[c] = 0 /\ attempt'[c] = 0 /\ req'[c] \in Request
        /\ pc'[c] # "wait" /\ result'[c] # "exceeded" /\ start'[c] <= Len(req'[c].keys)
    <3>1. /\ pc[c] = "idle" /\ result[c] = "none" /\ attempt[c] = 0 /\ sent[c] = 0 /\ start[c] = 0
          /\ UNCHANGED <<sent, start, attempt>>
      BY <1>1 DEF Begin, IInv, CallInv, Budgeted
    <3>2. req'[c] \in Request /\ pc'[c] # "wait" /\ result'[c] # "exceeded"
      BY <1>1, <3>1, BulkAssumption DEF Begin, Return, IInv, TypeOK
    <3>3. Len(req'[c].keys) \in Nat
      BY <3>2 DEF Request
    <3> QED
      BY <3>1, <3>2, <3>3
  <2>2. LimitOf(req'[c]) \in Nat \ {0}
    BY <2>1, ChunkBounds
  <2>3. ChunksBefore(c)' = 0 /\ SentForChunk(c)' = 0
    BY <2>1, <2>2, Quotients DEF ChunksBefore, SentForChunk
  <2> QED
    BY <2>1, <2>3, BulkAssumption DEF Budgeted
<1>2. CASE Send(c)
  <2>1. /\ pc[c] = "send" /\ result[c] = "none" /\ attempt[c] <= MaxRetries /\ ChunksBefore(c)' = ChunksBefore(c)
        /\ attempt'[c] = attempt[c]
    BY <1>2 DEF Send, IInv, CallInv, progress, ChunksBefore
  <2>2. /\ attempt[c] <= sent[c] /\ sent[c] <= (MaxRetries + 1) * ChunksBefore(c) + attempt[c]
        /\ sent[c] <= (MaxRetries + 1) * (ChunksBefore(c) + 1)
    BY <2>1, BudgetTypes DEF Budgeted, Active, SentForChunk
  <2>3. CASE pc' = [pc EXCEPT ![c] = "wait"] /\ sent' = [sent EXCEPT ![c] = @ + 1] /\ UNCHANGED result
    <3>1. pc'[c] = "wait" /\ sent'[c] = sent[c] + 1 /\ result'[c] = "none" /\ SentForChunk(c)' = attempt[c] + 1
      BY <2>1, <2>3 DEF IInv, TypeOK, SentForChunk
    <3> QED
      BY <2>1, <2>2, <3>1, BudgetTypes, OneMoreChunk DEF Budgeted, Active
  <2>4. CASE (Return(c, "malformed") \/ Return(c, "service")) /\ UNCHANGED sent
    <3>1. pc'[c] = "done" /\ sent'[c] = sent[c] /\ result'[c] # "exceeded"
      BY <2>4 DEF IInv, TypeOK, Return
    <3> QED
      BY <2>1, <2>2, <3>1 DEF Budgeted, Active
  <2> QED
    BY <1>2, <2>3, <2>4 DEF Send
<1>3. CASE ServeGet(c) \/ ServeWrite(c) \/ Cancel(c)
  <2>1. UNCHANGED <<pc, start, req, attempt, sent, result>>
    BY <1>3 DEF ServeGet, ServeWrite, Cancel, progress
  <2> QED
    BY <2>1 DEF Budgeted, Active, ChunksBefore, SentForChunk
<1>4. CASE Wake(c)
  <2>1. /\ pc[c] = "sleep" /\ result[c] = "none" /\ ChunksBefore(c)' = ChunksBefore(c)
        /\ attempt'[c] = attempt[c] /\ sent'[c] = sent[c]
    BY <1>4 DEF Wake, IInv, CallInv, progress, ChunksBefore
  <2>2. /\ attempt[c] <= sent[c] /\ sent[c] <= (MaxRetries + 1) * ChunksBefore(c) + attempt[c]
        /\ sent[c] <= (MaxRetries + 1) * (ChunksBefore(c) + 1)
    BY <2>1, BudgetTypes DEF Budgeted, Active, SentForChunk
  <2>3. CASE pc' = [pc EXCEPT ![c] = "send"] /\ UNCHANGED result
    <3>1. pc'[c] = "send" /\ result'[c] = "none" /\ SentForChunk(c)' = attempt[c]
      BY <2>1, <2>3, BudgetTypes DEF IInv, TypeOK, SentForChunk
    <3> QED
      BY <2>1, <2>2, <3>1 DEF Budgeted, Active
  <2>4. CASE Return(c, "ctx") \/ (Exhausted(c) /\ Return(c, "exceeded"))
    <3>1. pc'[c] = "done" /\ (result'[c] = "exceeded" => attempt[c] >= MaxRetries + 1)
      BY <2>4, BudgetTypes DEF IInv, TypeOK, Return, Exhausted
    <3> QED
      BY <2>1, <2>2, <3>1, BudgetTypes DEF Budgeted, Active
  <2> QED
    BY <1>4, <2>3, <2>4 DEF Wake
<1> QED
  BY <1>1, <1>2, <1>3, <1>4

LEMMA BudgetElsewhere ==
  ASSUME IInv, NEW c \in Callers, NEW d \in Callers \ {c}, Budgeted(d),
         \/ Begin(c) \/ Send(c) \/ ServeGet(c) \/ ServeWrite(c) \/ Wake(c) \/ Cancel(c)
         \/ Answer(c)
  PROVE  Budgeted(d)'
<1>1. /\ pc'[d] = pc[d] /\ start'[d] = start[d] /\ req'[d] = req[d] /\ attempt'[d] = attempt[d]
      /\ sent'[d] = sent[d] /\ result'[d] = result[d]
  <2>1. CASE Begin(c)
    BY <2>1 DEF Begin, Return, IInv, TypeOK
  <2>2. CASE Send(c)
    BY <2>2 DEF Send, Return, IInv, TypeOK, progress
  <2>3. CASE ServeGet(c) \/ ServeWrite(c) \/ Cancel(c)
    BY <2>3 DEF ServeGet, ServeWrite, Cancel, progress
  <2>4. CASE Wake(c)
    BY <2>4 DEF Wake, Return, IInv, TypeOK, progress
  <2>5. CASE Answer(c)
    <3>1. req' = req /\ sent' = sent
      BY <2>5, AnswerCosts
    <3>2. pc'[d] = pc[d] /\ start'[d] = start[d] /\ attempt'[d] = attempt[d] /\ result'[d] = result[d]
      <4>1. \E p : pc' = [pc EXCEPT ![c] = p]
        BY <2>5, AnswerCosts
      <4>2. start' = start \/ \E s : start' = [start EXCEPT ![c] = s]
        BY <2>5, AnswerCosts
      <4>3. attempt' = attempt \/ \E a : attempt' = [attempt EXCEPT ![c] = a]
        BY <2>5, AnswerCosts
      <4>4. result' = result \/ \E r : result' = [result EXCEPT ![c] = r]
        BY <2>5, AnswerCosts
      <4> QED
        BY <4>1, <4>2, <4>3, <4>4 DEF IInv, TypeOK
    <3> QED
      BY <3>1, <3>2
  <2> QED
    BY <2>1, <2>2, <2>3, <2>4, <2>5
<1> QED
  BY <1>1 DEF Budgeted, Active, ChunksBefore, SentForChunk

(* A call costs the service at most MaxRetries + 1 requests per chunk it   *)
(* reached, and gives up for exhaustion only after as many for one chunk.  *)
THEOREM BudgetHolds == Spec => []RetryBudget
<1> DEFINE BInv == \A c \in Callers : Budgeted(c)
<1>1. Init => BInv
  <2> SUFFICES ASSUME Init, NEW c \in Callers PROVE Budgeted(c)
    OBVIOUS
  <2>1. pc[c] = "idle" /\ sent[c] = 0 /\ start[c] = 0 /\ result[c] = "none"
    BY DEF Init
  <2>2. ChunksBefore(c) \in Nat
    BY InitialInvariant, BudgetTypes
  <2> QED
    BY <2>1, <2>2, OneMoreChunk DEF Budgeted, Active
<1>2. IInv /\ BInv /\ [Next]_vars => BInv'
  <2> SUFFICES ASSUME IInv, BInv, [Next]_vars PROVE BInv'
    OBVIOUS
  <2>1. CASE UNCHANGED vars \/ Terminated
    <3>1. UNCHANGED <<pc, start, req, attempt, sent, result>>
      BY <2>1 DEF vars, progress, Terminated
    <3> QED
      BY <3>1 DEF Budgeted, Active, ChunksBefore, SentForChunk
  <2>2. ASSUME NEW c \in Callers,
               \/ Begin(c) \/ Send(c) \/ ServeGet(c) \/ ServeWrite(c) \/ Wake(c) \/ Cancel(c)
               \/ Answer(c)
        PROVE  BInv'
    <3>1. Budgeted(c)'
      BY <2>2, CallBudget, AnswerBudget
    <3>2. ASSUME NEW d \in Callers \ {c} PROVE Budgeted(d)'
      BY <2>2, BudgetElsewhere
    <3> QED
      BY <3>1, <3>2
  <2> QED
    BY <2>1, <2>2 DEF Next, Answer
<1>3. BInv => RetryBudget
  BY DEF Budgeted, RetryBudget, ChunksBefore
<1> QED
  BY <1>1, <1>2, <1>3, BulkInvariant, PTL DEF Spec

-----------------------------------------------------------------------------
(* A call that got past its first chunk has more items than one chunk      *)
(* holds, and no item belongs to a caller that never began to put.         *)
PastFirstChunk(c) == start[c] = 0 \/ LimitOf(req[c]) <= start[c]
Owned == \A k \in Keys, c \in Callers : table[k] = c => pc[c] # "idle"

Shared == Owned /\ AtomicUpsertsDoNotMix
WInv == IInv /\ (\A c \in Callers : PastFirstChunk(c)) /\ Shared

(* What one item of a step does to the progress of a call.                 *)
LEMMA StartMoves ==
  ASSUME IInv, NEW c \in Callers, [Next]_vars
  PROVE  \/ start'[c] = start[c] /\ req'[c] = req[c]
         \/ pc[c] = "idle" /\ start'[c] = start[c]
         \/ /\ req'[c] = req[c] /\ start'[c] = ChunkEnd(req[c], start[c])
            /\ ChunkEnd(req[c], start[c]) < Len(req[c].keys)
<1>1. CASE UNCHANGED vars \/ Terminated
  BY <1>1 DEF Terminated, vars, progress
<1>2. ASSUME NEW d \in Callers, Begin(d)
      PROVE  \/ start'[c] = start[c] /\ req'[c] = req[c]
             \/ pc[c] = "idle" /\ start'[c] = start[c]
  BY <1>2 DEF Begin, IInv, TypeOK
<1>3. ASSUME NEW d \in Callers,
             Send(d) \/ ServeGet(d) \/ ServeWrite(d) \/ BatchError(d) \/ Wake(d) \/ Cancel(d)
      PROVE  start'[c] = start[c] /\ req'[c] = req[c]
  BY <1>3 DEF Send, ServeGet, ServeWrite, BatchError, Wake, Cancel, progress
<1>4. ASSUME NEW d \in Callers, GetReply(d) \/ WriteReply(d) \/ TransactReply(d) \/ TransactError(d)
      PROVE  \/ start'[c] = start[c] /\ req'[c] = req[c]
             \/ /\ req'[c] = req[c] /\ start'[c] = ChunkEnd(req[c], start[c])
                /\ ChunkEnd(req[c], start[c]) < Len(req[c].keys)
  <2>1. req' = req /\ (start' = start \/ NextChunk(d))
    BY <1>4 DEF GetReply, WriteReply, TransactReply, TransactError, Backoff
  <2> QED
    BY <2>1 DEF NextChunk, IInv, TypeOK
<1> QED
  BY <1>1, <1>2, <1>3, <1>4 DEF Next

LEMMA PastFirstChunkStep ==
  ASSUME IInv, NEW c \in Callers, PastFirstChunk(c), [Next]_vars PROVE PastFirstChunk(c)'
<1>1. req[c] \in Request /\ start[c] \in Nat /\ start[c] <= Len(req[c].keys)
  BY DEF IInv, CallInv, TypeOK
<1>2. LimitOf(req[c]) \in Nat \ {0} /\ Len(req[c].keys) \in Nat
  BY <1>1, ChunkBounds
<1>3. CASE start'[c] = start[c] /\ req'[c] = req[c]
  BY <1>3 DEF PastFirstChunk, LimitOf
<1>4. CASE pc[c] = "idle" /\ start'[c] = start[c]
  <2>1. Len(req[c].keys) = 0
    BY <1>4 DEF IInv, CallInv, NoRequest
  <2> QED
    BY <1>1, <1>4, <2>1 DEF PastFirstChunk
<1>5. CASE /\ req'[c] = req[c] /\ start'[c] = ChunkEnd(req[c], start[c])
           /\ ChunkEnd(req[c], start[c]) < Len(req[c].keys)
  <2>1. start'[c] = start[c] + LimitOf(req[c])
    BY <1>1, <1>2, <1>5 DEF ChunkEnd
  <2>2. LimitOf(req'[c]) = LimitOf(req[c])
    BY <1>5
  <2> QED
    BY <1>1, <1>2, <2>1, <2>2 DEF PastFirstChunk
<1> QED
  BY <1>3, <1>4, <1>5, StartMoves

(* A transaction that takes the whole request is one chunk.                *)
LEMMA WholeRequest ==
  ASSUME IInv, NEW c \in Callers, PastFirstChunk(c), Active(c), AtomicWrite(c),
         Len(req[c].keys) <= TransactWriteLimit
  PROVE  remaining[c] = Positions(c)
<1>1. /\ req[c] \in Request /\ start[c] \in Nat /\ start[c] < Len(req[c].keys)
      /\ remaining[c] = ChunkSlice(req[c], start[c])
  BY DEF IInv, CallInv, TypeOK, Chunk
<1>2. Len(req[c].keys) \in Nat /\ LimitOf(req[c]) = TransactWriteLimit
  BY <1>1 DEF AtomicWrite, LimitOf, Request
<1>3. start[c] = 0
  BY <1>1, <1>2, BulkAssumption DEF PastFirstChunk
<1>4. ChunkEnd(req[c], start[c]) = Len(req[c].keys)
  BY <1>2, <1>3, BulkAssumption DEF ChunkEnd
<1> QED
  BY <1>1, <1>3, <1>4 DEF ChunkSlice, Positions

(* Only Begin changes the requests, and only service the table.            *)
LEMMA TableMoves ==
  ASSUME IInv, [Next]_vars
  PROVE  /\ \A c \in Callers : pc[c] # "idle" => pc'[c] # "idle"
         /\ \/ UNCHANGED <<table, req>>
            \/ \E c \in Callers : Begin(c) /\ UNCHANGED table
            \/ \E c \in Callers : ServeWrite(c) /\ UNCHANGED req
<1>1. CASE UNCHANGED vars \/ Terminated
  BY <1>1 DEF Terminated, vars, progress
<1>2. ASSUME NEW d \in Callers, Begin(d)
      PROVE  UNCHANGED table /\ \A c \in Callers : pc[c] # "idle" => pc'[c] # "idle"
  BY <1>2 DEF Begin, Return, IInv, TypeOK
<1>3. ASSUME NEW d \in Callers, ServeWrite(d)
      PROVE  UNCHANGED <<req, pc>>
  BY <1>3 DEF ServeWrite, progress
<1>4. ASSUME NEW d \in Callers,
             Send(d) \/ ServeGet(d) \/ BatchError(d) \/ Wake(d) \/ Cancel(d)
      PROVE  UNCHANGED <<table, req>> /\ \A c \in Callers : pc[c] # "idle" => pc'[c] # "idle"
  BY <1>4 DEF Send, ServeGet, BatchError, Wake, Cancel, Return, progress, IInv, TypeOK
<1>5. ASSUME NEW d \in Callers, GetReply(d) \/ WriteReply(d) \/ TransactReply(d) \/ TransactError(d)
      PROVE  UNCHANGED <<table, req>> /\ \A c \in Callers : pc[c] # "idle" => pc'[c] # "idle"
  BY <1>5 DEF GetReply, WriteReply, TransactReply, TransactError, Backoff, NextChunk, Return,
              IInv, TypeOK
<1> QED
  BY <1>1, <1>2, <1>3, <1>4, <1>5 DEF Next

(* What a key holds after a write, when c is the writer.                   *)
LEMMA WriterOfKey ==
  ASSUME IInv, NEW c \in Callers, NEW S, table' = Written(c, S), NEW k \in Keys,
         NEW a \in Callers, table'[k] = a
  PROVE  \/ a = c /\ k \in KeysAt(c, S)
         \/ k \notin KeysAt(c, S) /\ table[k] = a
BY BulkAssumption DEF Written, IInv, TypeOK

LEMMA SharedStep ==
  ASSUME IInv, \A c \in Callers : PastFirstChunk(c), Shared, [Next]_vars PROVE Shared'
<1>1. \A c \in Callers : pc[c] # "idle" => pc'[c] # "idle"
  BY TableMoves
<1>2. CASE UNCHANGED <<table, req>>
  <2>1. Owned'
    BY <1>1, <1>2 DEF Shared, Owned
  <2>2. AtomicUpsertsDoNotMix'
    <3>1. \A a \in Callers : /\ OneTransaction(a)' <=> OneTransaction(a)
                             /\ KeysAt(a, Positions(a))' = KeysAt(a, Positions(a))
      BY <1>2 DEF OneTransaction, AtomicWrite, KeysAt, KeyAt, Positions
    <3> QED
      BY <1>2, <3>1 DEF Shared, AtomicUpsertsDoNotMix
  <2> QED
    BY <2>1, <2>2 DEF Shared
<1>3. ASSUME NEW c \in Callers, Begin(c), UNCHANGED table PROVE Shared'
  <2>1. Owned'
    BY <1>1, <1>3 DEF Shared, Owned
  <2>2. ASSUME NEW a \in Callers \ {c} PROVE req'[a] = req[a]
    BY <1>3 DEF Begin, IInv, TypeOK
  <2>3. ASSUME NEW a \in Callers, NEW b \in Callers, a # b, OneTransaction(a)', OneTransaction(b)',
               KeysAt(a, Positions(a))' = KeysAt(b, Positions(b))',
               NEW k \in KeysAt(a, Positions(a))', NEW m \in KeysAt(a, Positions(a))',
               table'[k] = a, table'[m] = b
        PROVE  FALSE
    <3>0. req' \in [Callers -> Request]
      BY <1>3, BeginStep DEF IInv, TypeOK
    <3>1. k \in Keys /\ m \in Keys
      BY <3>0 DEF KeysAt, KeyAt, Positions, Request
    <3>2. a # c /\ b # c
      BY <3>1, <2>3, <1>3 DEF Shared, Owned, Begin
    <3>3. req'[a] = req[a] /\ req'[b] = req[b]
      BY <3>2, <2>2
    <3>4. /\ OneTransaction(a) /\ OneTransaction(b)
          /\ KeysAt(a, Positions(a))' = KeysAt(a, Positions(a))
          /\ KeysAt(b, Positions(b))' = KeysAt(b, Positions(b))
      BY <3>3, <2>3 DEF OneTransaction, AtomicWrite, KeysAt, KeyAt, Positions
    <3> QED
      BY <3>4, <2>3, <1>3 DEF Shared, AtomicUpsertsDoNotMix
  <2>4. AtomicUpsertsDoNotMix'
    BY <2>3 DEF AtomicUpsertsDoNotMix
  <2> QED
    BY <2>1, <2>4 DEF Shared
<1>4. ASSUME NEW c \in Callers, ServeWrite(c), UNCHANGED req PROVE Shared'
  <2> PICK S \in IF Transactional(c) THEN {remaining[c]} ELSE {{p} : p \in remaining[c]} :
        table' = Written(c, S)
    BY <1>4 DEF ServeWrite
  <2>0. pc[c] = "wait" /\ Active(c)
    BY <1>4 DEF ServeWrite, Active
  <2>1. ASSUME NEW k \in Keys, NEW a \in Callers, table'[k] = a
        PROVE  \/ a = c /\ k \in KeysAt(c, S)
               \/ k \notin KeysAt(c, S) /\ table[k] = a
    BY <2>1, WriterOfKey
  <2>2. Owned'
    BY <1>1, <2>0, <2>1 DEF Shared, Owned
  <2>3. OneTransaction(c) => S = Positions(c)
    BY <2>0, WholeRequest DEF OneTransaction, AtomicWrite, Transactional
  <2>4. ASSUME NEW a \in Callers, NEW b \in Callers, a # b, OneTransaction(a), OneTransaction(b),
               KeysAt(a, Positions(a)) = KeysAt(b, Positions(b)),
               NEW k \in KeysAt(a, Positions(a)), NEW m \in KeysAt(a, Positions(a)),
               table'[k] = a, table'[m] = b
        PROVE  FALSE
    <3>1. k \in Keys /\ m \in Keys
      BY DEF KeysAt, KeyAt, Positions, Request, IInv, TypeOK
    <3>2. c # a /\ c # b
      BY <2>1, <2>3, <2>4, <3>1
    <3>3. table[k] = a /\ table[m] = b
      BY <2>1, <2>4, <3>1, <3>2
    <3> QED
      BY <2>4, <3>3 DEF Shared, AtomicUpsertsDoNotMix
  <2>5. AtomicUpsertsDoNotMix'
    <3>1. \A a \in Callers : /\ OneTransaction(a)' <=> OneTransaction(a)
                             /\ KeysAt(a, Positions(a))' = KeysAt(a, Positions(a))
      BY <1>4 DEF OneTransaction, AtomicWrite, KeysAt, KeyAt, Positions
    <3> QED
      BY <2>4, <3>1 DEF AtomicUpsertsDoNotMix
  <2> QED
    BY <2>2, <2>5 DEF Shared
<1> QED
  BY <1>2, <1>3, <1>4, TableMoves

(* WInv is inductive too.                                                  *)
THEOREM SharingInvariant == Spec => []WInv
<1>1. Init => WInv
  <2> SUFFICES ASSUME Init PROVE WInv
    OBVIOUS
  <2>1. IInv /\ \A c \in Callers : PastFirstChunk(c)
    BY InitialInvariant DEF Init, PastFirstChunk
  <2>2. Owned
    BY BulkAssumption DEF Init, Owned
  <2>3. AtomicUpsertsDoNotMix
    BY DEF Init, AtomicUpsertsDoNotMix, OneTransaction, AtomicWrite, NoRequest
  <2> QED
    BY <2>1, <2>2, <2>3 DEF WInv, Shared
<1>2. WInv /\ IInv' /\ [Next]_vars => WInv'
  <2> SUFFICES ASSUME WInv, IInv', [Next]_vars PROVE WInv'
    OBVIOUS
  <2>1. Shared'
    BY SharedStep DEF WInv
  <2>2. ASSUME NEW c \in Callers PROVE PastFirstChunk(c)'
    BY PastFirstChunkStep DEF WInv
  <2> QED
    BY <2>1, <2>2 DEF WInv
<1> QED
  BY <1>1, <1>2, BulkInvariant, PTL DEF Spec

(* Two atomic upserts of the same keys that fit in one transaction each    *)
(* leave all of the keys to one of the two.                                *)
THEOREM UpsertsDoNotMix == Spec => []AtomicUpsertsDoNotMix
<1>1. WInv => AtomicUpsertsDoNotMix
  BY DEF WInv, Shared
<1> QED
  BY <1>1, SharingInvariant, PTL

-----------------------------------------------------------------------------
(* The refinement: what a call is doing, to its caller.                    *)
LEMMA PhaseOf ==
  ASSUME NEW c \in Callers
  PROVE  phase[c] = IF pc[c] = "idle" THEN "idle"
                    ELSE IF pc[c] # "done" THEN "running"
                    ELSE IF result[c] = "ok" THEN "ok" ELSE "failed"
BY DEF phase

(* A call that runs on is a stutter, a call that returns is one step.      *)
LEMMA PhaseSame ==
  ASSUME \A d \in Callers : phase'[d] = phase[d] PROVE phase' = phase
BY DEF phase

LEMMA PhaseChanges ==
  ASSUME NEW c \in Callers, NEW p, phase'[c] = p,
         \A d \in Callers \ {c} : phase'[d] = phase[d]
  PROVE  phase' = [phase EXCEPT ![c] = p]
BY DEF phase

LEMMA PhaseElsewhere ==
  ASSUME NEW d \in Callers, pc'[d] = pc[d], result'[d] = result[d] PROVE phase'[d] = phase[d]
BY DEF phase

(* Return ends a running call.                                             *)
LEMMA ReturnRefines ==
  ASSUME IInv, NEW c \in Callers, Active(c), NEW r, Return(c, r),
         UNCHANGED <<table, req, served>>, r = "ok" => served[c] = Positions(c)
  PROVE  Contract!Succeed(c) \/ Contract!Fail(c)
<1>1. phase[c] = "running"
  BY DEF phase, Active
<1>2. pc'[c] = "done" /\ result'[c] = r
  BY DEF Return, IInv, TypeOK
<1>3. phase'[c] = IF r = "ok" THEN "ok" ELSE "failed"
  BY <1>2 DEF phase
<1>4. \A d \in Callers \ {c} : phase'[d] = phase[d]
  BY PhaseElsewhere DEF Return, IInv, TypeOK
<1>5. CASE r = "ok"
  BY <1>1, <1>3, <1>4, <1>5, PhaseChanges DEF Contract!Succeed, Contract!Positions, Positions
<1>6. CASE r # "ok"
  BY <1>1, <1>3, <1>4, <1>6, PhaseChanges DEF Contract!Fail
<1> QED
  BY <1>5, <1>6

(* A step inside a running call changes nothing the caller can see.        *)
LEMMA RunningRefines ==
  ASSUME IInv, NEW c \in Callers, Active(c), pc'[c] \in {"send", "wait", "sleep"},
         \A d \in Callers \ {c} : pc'[d] = pc[d], UNCHANGED <<table, req, served, result>>
  PROVE  UNCHANGED Contract!vars
<1>1. phase'[c] = phase[c]
  BY DEF phase, Active
<1>2. \A d \in Callers \ {c} : phase'[d] = phase[d]
  BY PhaseElsewhere
<1> QED
  BY <1>1, <1>2, PhaseSame DEF Contract!vars

LEMMA BeginRefines == ASSUME IInv, NEW c \in Callers, Begin(c) PROVE Contract!Begin(c)
<1> PICK r \in Requests :
      /\ req' = [req EXCEPT ![c] = r]
      /\ \/ r.keys = <<>> /\ Return(c, "ok")
         \/ r.keys # <<>> /\ Return(c, "unavailable")
         \/ /\ r.keys # <<>>
            /\ pc' = [pc EXCEPT ![c] = "send"]
            /\ UNCHANGED result
  BY DEF Begin
<1>1. phase[c] = "idle" /\ UNCHANGED <<table, served>>
  BY DEF phase, Begin
<1>2. \/ r.keys = <<>> /\ pc'[c] = "done" /\ result'[c] = "ok"
      \/ pc'[c] = "done" /\ result'[c] = "unavailable"
      \/ pc'[c] = "send"
  BY DEF Return, IInv, TypeOK
<1>3. \/ r.keys = <<>> /\ phase'[c] = "ok"
      \/ phase'[c] = "failed"
      \/ phase'[c] = "running"
  BY <1>2 DEF phase
<1>4. \A d \in Callers \ {c} : phase'[d] = phase[d]
  BY PhaseElsewhere DEF Return, IInv, TypeOK
<1>5. \/ r.keys = <<>> /\ phase' = [phase EXCEPT ![c] = "ok"]
      \/ phase' = [phase EXCEPT ![c] = "failed"]
      \/ phase' = [phase EXCEPT ![c] = "running"]
  BY <1>3, <1>4, PhaseChanges
<1> QED
  BY <1>1, <1>5 DEF Contract!Begin

(* Service of some positions is TakeEffect, of all of them when the write  *)
(* is one transaction.                                                     *)
LEMMA ServeRefines ==
  ASSUME IInv, NEW c \in Callers, PastFirstChunk(c), ServeGet(c) \/ ServeWrite(c)
  PROVE  Contract!TakeEffect(c)
<1>1. Active(c) /\ phase[c] = "running" /\ UNCHANGED <<req, pc, result>>
  BY DEF ServeGet, ServeWrite, Active, phase, progress
<1>2. UNCHANGED phase
  BY <1>1, PhaseElsewhere, PhaseSame
<1>3. remaining[c] \subseteq Positions(c)
  <2>1. req[c] \in Request /\ start[c] \in Nat /\ start[c] <= Len(req[c].keys)
    BY DEF IInv, TypeOK, CallInv
  <2>2. Chunk(c) \subseteq Positions(c)
    BY <2>1, ChunkBounds DEF Chunk, ChunkSlice, Positions
  <2> QED
    BY <1>1, <2>2 DEF IInv, CallInv
<1>4. CASE ServeGet(c)
  <2>1. PICK p \in remaining[c] : served' = [served EXCEPT ![c] = @ \cup {p}]
    BY <1>4 DEF ServeGet
  <2>2. /\ req[c].op = "get" /\ UNCHANGED table /\ {p} \in SUBSET Contract!Positions(c)
        /\ ~Contract!Indivisible(c)
    BY <1>3, <1>4, <2>1 DEF ServeGet, Contract!Positions, Positions, Contract!Indivisible
  <2>3. table' = [k \in Keys |->
            IF req[c].op = "get" \/ k \notin {req[c].keys[q] : q \in {p}} THEN table[k]
            ELSE IF req[c].op = "put" THEN c ELSE Absent]
    BY <2>2 DEF IInv, TypeOK
  <2> QED
    BY <1>1, <1>2, <2>1, <2>2, <2>3 DEF Contract!TakeEffect
<1>5. CASE ServeWrite(c)
  <2>1. PICK S \in IF Transactional(c) THEN {remaining[c]} ELSE {{p} : p \in remaining[c]} :
          table' = Written(c, S) /\ served' = [served EXCEPT ![c] = @ \cup S]
    BY <1>5 DEF ServeWrite
  <2>2. S \in SUBSET Contract!Positions(c) /\ req[c].op # "get"
    BY <1>3, <1>5 DEF ServeWrite, Contract!Positions, Positions
  <2>3. Contract!Indivisible(c) => S = Contract!Positions(c)
    BY <1>1, WholeRequest
    DEF Contract!Indivisible, AtomicWrite, Transactional, Positions, Contract!Positions
  <2>4. table' = [k \in Keys |->
            IF req[c].op = "get" \/ k \notin {req[c].keys[p] : p \in S} THEN table[k]
            ELSE IF req[c].op = "put" THEN c ELSE Absent]
    BY <2>1, <2>2 DEF Written, KeysAt, KeyAt
  <2> QED
    BY <1>1, <1>2, <2>1, <2>2, <2>3, <2>4 DEF Contract!TakeEffect
<1> QED
  BY <1>4, <1>5

(* With its last chunk served the call succeeds; before it goes on.        *)
LEMMA NextChunkRefines ==
  ASSUME IInv, IInv', NEW c \in Callers, Active(c), NextChunk(c),
         UNCHANGED <<table, req, served>>
  PROVE  Contract!Succeed(c) \/ Contract!Fail(c) \/ UNCHANGED Contract!vars
<1>1. CASE Return(c, "ok")
  <2>1. result'[c] = "ok"
    BY <1>1 DEF Return, IInv, TypeOK
  <2>2. served[c] = Positions(c)
    BY <2>1 DEF IInv, CallInv, Positions
  <2> QED
    BY <1>1, <2>2, ReturnRefines
<1>2. CASE pc' = [pc EXCEPT ![c] = "send"] /\ UNCHANGED result
  <2>1. pc'[c] = "send" /\ \A d \in Callers \ {c} : pc'[d] = pc[d]
    BY <1>2 DEF IInv, TypeOK
  <2> QED
    BY <1>2, <2>1, RunningRefines
<1> QED
  BY <1>1, <1>2 DEF NextChunk

LEMMA BackoffRefines ==
  ASSUME IInv, NEW c \in Callers, Active(c), NEW left, Backoff(c, left),
         UNCHANGED <<table, req, served>>
  PROVE  UNCHANGED Contract!vars
<1>1. pc'[c] = "sleep" /\ (\A d \in Callers \ {c} : pc'[d] = pc[d]) /\ UNCHANGED result
  BY DEF Backoff, IInv, TypeOK
<1> QED
  BY <1>1, RunningRefines

LEMMA AnswerRefines ==
  ASSUME IInv, IInv', NEW c \in Callers, Answer(c)
  PROVE  Contract!Succeed(c) \/ Contract!Fail(c) \/ UNCHANGED Contract!vars
<1>1. Active(c) /\ UNCHANGED <<table, req, served>>
  BY DEF Answer, GetReply, WriteReply, TransactReply, BatchError, TransactError, Active, progress
<1>2. \/ \E r \in Results \ {"ok"} : Return(c, r)
      \/ \E left \in {remaining[c], remaining[c] \ processed[c]} : Backoff(c, left)
      \/ NextChunk(c)
  BY DEF Answer, GetReply, WriteReply, TransactReply, BatchError, TransactError, Results
<1>3. ASSUME NEW r \in Results \ {"ok"}, Return(c, r) PROVE Contract!Succeed(c) \/ Contract!Fail(c)
  BY <1>1, <1>3, ReturnRefines
<1> QED
  BY <1>1, <1>2, <1>3, BackoffRefines, NextChunkRefines

LEMMA StepRefines ==
  ASSUME IInv, IInv', \A c \in Callers : PastFirstChunk(c), [Next]_vars
  PROVE  [Contract!Next]_(Contract!vars)
<1>1. CASE UNCHANGED vars \/ Terminated
  BY <1>1 DEF Terminated, vars, progress, phase, Contract!vars
<1>2. ASSUME NEW c \in Callers, Begin(c) PROVE Contract!Next
  BY <1>2, BeginRefines DEF Contract!Next
<1>3. ASSUME NEW c \in Callers, Send(c) PROVE [Contract!Next]_(Contract!vars)
  <2>1. Active(c) /\ UNCHANGED <<table, req, served>>
    BY <1>3 DEF Send, Active, progress
  <2>2. CASE Return(c, "malformed") \/ Return(c, "service")
    BY <2>1, <2>2, ReturnRefines DEF Contract!Next
  <2>3. CASE pc' = [pc EXCEPT ![c] = "wait"] /\ UNCHANGED result
    <3>1. pc'[c] = "wait" /\ \A d \in Callers \ {c} : pc'[d] = pc[d]
      BY <2>3 DEF IInv, TypeOK
    <3> QED
      BY <2>1, <2>3, <3>1, RunningRefines
  <2> QED
    BY <1>3, <2>2, <2>3 DEF Send
<1>4. ASSUME NEW c \in Callers, ServeGet(c) \/ ServeWrite(c) PROVE Contract!Next
  BY <1>4, ServeRefines DEF Contract!Next
<1>5. ASSUME NEW c \in Callers, Answer(c) PROVE [Contract!Next]_(Contract!vars)
  BY <1>5, AnswerRefines DEF Contract!Next
<1>6. ASSUME NEW c \in Callers, Wake(c) PROVE [Contract!Next]_(Contract!vars)
  <2>1. Active(c) /\ UNCHANGED <<table, req, served>>
    BY <1>6 DEF Wake, Active, progress
  <2>2. CASE Return(c, "exceeded") \/ Return(c, "ctx")
    BY <2>1, <2>2, ReturnRefines DEF Contract!Next
  <2>3. CASE pc' = [pc EXCEPT ![c] = "send"] /\ UNCHANGED result
    <3>1. pc'[c] = "send" /\ \A d \in Callers \ {c} : pc'[d] = pc[d]
      BY <2>3 DEF IInv, TypeOK
    <3> QED
      BY <2>1, <2>3, <3>1, RunningRefines
  <2> QED
    BY <1>6, <2>2, <2>3 DEF Wake
<1>7. ASSUME NEW c \in Callers, Cancel(c) PROVE UNCHANGED Contract!vars
  BY <1>7 DEF Cancel, progress, phase, Contract!vars
<1> QED
  BY <1>1, <1>2, <1>3, <1>4, <1>5, <1>6, <1>7 DEF Next, Answer

(* The chunked, retried and transactional bulk methods implement what      *)
(* their callers are promised.                                             *)
THEOREM BulkImplementsContract == Spec => ImplementsContract
<1>1. Init => Contract!Init
  BY DEF Init, Contract!Init, phase
<1>2. IInv /\ IInv' /\ WInv /\ [Next]_vars => [Contract!Next]_(Contract!vars)
  BY StepRefines DEF WInv
<1> QED
  BY <1>1, <1>2, BulkInvariant, SharingInvariant, PTL
  DEF Spec, ImplementsContract, Contract!Spec
=============================================================================
