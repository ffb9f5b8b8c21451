----------------------------- MODULE DataLoader -----------------------------
(***************************************************************************)
(* dataloader/loader.go: the Loads of one request join a batch, the batch  *)
(* becomes one BulkGet, and what BulkGet returns, in the database's order, *)
(* is handed back to the Loads by key.  LoadMany is one Load per key, each *)
(* on a goroutine of its own.                                              *)
(*                                                                         *)
(* BulkGet reads chunk by chunk (module DynamoBulk), so other writers get  *)
(* in between, and does not ask for consistent reads, so it may be         *)
(* answered by a replica that is behind.  When a batch closes is up to     *)
(* graph-gophers/dataloader: it runs with the context of the Load that     *)
(* opened it.                                                              *)
(***************************************************************************)
EXTENDS Integers, FiniteSets, SequencesExt

CONSTANTS
  Loads,          \* calls of Load
  Ids,            \* Part1 = Part2 of their CompositeKeys
  Existing,       \* those that have an item, version 0, beforehand
  BatchGetLimit,  \* MaxDynamoBatchGetSize
  MaxVersion,     \* bound: writes by others
  DatabaseFails,  \* BulkGet may fail on its own
  Absent,         \* no item
  Foreign,        \* an item that is not of the loader's type
  None, Failed    \* no call or no return yet, and one that returned an error

ASSUME LoaderAssumption ==
  /\ Existing \subseteq Ids
  /\ BatchGetLimit \in Nat \ {0} /\ MaxVersion \in Nat /\ DatabaseFails \in BOOLEAN
  /\ None \notin Ids /\ {Absent, Foreign, None, Failed} \cap Nat = {}
  /\ Absent \notin {Foreign, None, Failed} /\ Foreign \notin {None, Failed} /\ None # Failed

VARIABLES
  stored,     \* DynamoDB: the item of each id
  behind,     \* what replicas that have not caught up still hold under it
  version,    \* versions written so far
  want,       \* the id of each Load
  result,     \* what the Load returned
  cancelled,  \* Loads whose context is done
  open,       \* the Loads of the batch that still takes more
  flight,     \* batches inside batchFn: loads, and the items BulkGet read so far
  witnessed   \* history: what replicas held under its id while the Load ran

vars == <<stored, behind, version, want, result, cancelled, open, flight, witnessed>>

Item == (0 .. MaxVersion) \cup {Foreign}
Running == {l \in Loads : want[l] # None /\ result[l] = None}

(* What a read of an item may give.                                        *)
Seen(id) == {stored[id]} \cup behind[id]

Init ==
  /\ stored = [id \in Ids |-> IF id \in Existing THEN 0 ELSE Absent] /\ version = 0
  /\ behind = [id \in Ids |-> {}]
  /\ want = [l \in Loads |-> None]
  /\ result = [l \in Loads |-> None]
  /\ cancelled = {}
  /\ open = <<>> /\ flight = {}
  /\ witnessed = [l \in Loads |-> {}]

-----------------------------------------------------------------------------
(* Load: the key joins the open batch, or opens one.                       *)
Load(l, id) ==
  /\ want[l] = None
  /\ want' = [want EXCEPT ![l] = id]
  /\ open' = Append(open, l)
  /\ witnessed' = [witnessed EXCEPT ![l] = Seen(id)]
  /\ UNCHANGED <<stored, behind, version, result, cancelled, flight>>

(* Mutant: the timer of the batch never fires.                             *)
DispatchFullOnly ==
  /\ Len(open) = Cardinality(Loads)
  /\ flight' = flight \cup {[loads |-> open, next |-> 1, items |-> <<>>]}
  /\ open' = <<>>
  /\ UNCHANGED <<stored, behind, version, want, result, cancelled, witnessed>>

(* Mutant: the dispatched batch stays the current one.                     *)
DispatchKeepsOpen ==
  /\ open # <<>>
  /\ flight' = flight \cup {[loads |-> open, next |-> 1, items |-> <<>>]}
  /\ UNCHANGED <<stored, behind, version, want, result, cancelled, open, witnessed>>

(* The wait of the batch is over: its keys go to batchFn.                  *)
Dispatch ==
  /\ open # <<>>
  /\ flight' = flight \cup {[loads |-> open, next |-> 1, items |-> <<>>]}
  /\ open' = <<>>
  /\ UNCHANGED <<stored, behind, version, want, result, cancelled, witnessed>>

(* One chunk of the keys of batch b, and the items found for it.           *)
ChunkOf(b) ==
  SubSeq(b.loads, b.next, IF b.next + BatchGetLimit <= Len(b.loads)
                          THEN b.next + BatchGetLimit - 1 ELSE Len(b.loads))
DuplicateKeys(ls) == \E i, j \in DOMAIN ls : i # j /\ want[ls[i]] = want[ls[j]]
Found(ls, read) == {[id |-> want[l], item |-> read[l]] :
                      l \in {m \in ToSet(ls) : read[m] # Absent}}
Reads(ls) == {read \in [ToSet(ls) -> Item \cup {Absent}] :
                \A l \in ToSet(ls) : read[l] \in Seen(want[l])}

(* The database answers one chunk, with the items in an order of its own,  *)
(* each read from some replica.                                            *)
ReadChunk(b) ==
  /\ b.next <= Len(b.loads) /\ ~DuplicateKeys(ChunkOf(b))
  /\ \E read \in Reads(ChunkOf(b)) : \E found \in SetToSeqs(Found(ChunkOf(b), read)) :
       flight' = (flight \ {b}) \cup
         {[loads |-> b.loads, next |-> b.next + Len(ChunkOf(b)), items |-> b.items \o found]}
  /\ UNCHANGED <<stored, behind, version, want, result, cancelled, open, witnessed>>

(* BulkGet returns an error: the database's, the context's, or DynamoDB's  *)
(* refusal of a request that names a key twice.  Every Load gets it.       *)
BulkGetFails(b) ==
  /\ b.next <= Len(b.loads)
  /\ DatabaseFails \/ Head(b.loads) \in cancelled \/ DuplicateKeys(ChunkOf(b))
  /\ result' = [l \in Loads |-> IF l \in ToSet(b.loads) THEN Failed ELSE result[l]]
  /\ flight' = flight \ {b}
  /\ UNCHANGED <<stored, behind, version, want, cancelled, open, witnessed>>

(* Mutant: the i-th item belongs to the i-th key.                          *)
LookupByIndex(b, i) == IF i <= Len(b.items) THEN b.items[i].item ELSE Absent

(* lookup[k]: the last item of the loader's type read under the key, the   *)
(* zero value without one.                                                 *)
Lookup(b, i) ==
  LET at == {j \in DOMAIN b.items :
               b.items[j].item # Foreign /\ b.items[j].id = want[b.loads[i]]}
  IN IF at = {} THEN Absent ELSE b.items[Max(at)].item

(* batchFn returns, and every Load of the batch with it.                   *)
Deliver(b) ==
  /\ b.next > Len(b.loads)
  /\ result' = [l \in Loads |->
       IF l \in ToSet(b.loads)
       THEN Lookup(b, CHOOSE i \in DOMAIN b.loads : b.loads[i] = l) ELSE result[l]]
  /\ flight' = flight \ {b}
  /\ UNCHANGED <<stored, behind, version, want, cancelled, open, witnessed>>

-----------------------------------------------------------------------------
(* Somebody else writes or deletes the item.                               *)
Write(id) ==
  /\ version < MaxVersion /\ version' = version + 1
  /\ \E item \in {version', Absent, Foreign} :
       /\ stored' = [stored EXCEPT ![id] = item]
       /\ behind' = [behind EXCEPT ![id] = @ \cup {stored[id]}]
       /\ witnessed' = [l \in Loads |-> IF l \in Running /\ want[l] = id
                                        THEN witnessed[l] \cup {item} ELSE witnessed[l]]
  /\ UNCHANGED <<want, result, cancelled, open, flight>>

(* Replicas catch up with the item.                                        *)
CatchUp(id) ==
  /\ \E left \in SUBSET behind[id] :
       left # behind[id] /\ behind' = [behind EXCEPT ![id] = left]
  /\ UNCHANGED <<stored, version, want, result, cancelled, open, flight, witnessed>>

Cancel(l) ==
  /\ l \in Running \ cancelled /\ cancelled' = cancelled \cup {l}
  /\ UNCHANGED <<stored, behind, version, want, result, open, flight, witnessed>>

BatchFn(b) == ReadChunk(b) \/ BulkGetFails(b) \/ Deliver(b)

(* Every Load has returned.                                                *)
Terminated ==
  /\ \A l \in Loads : result[l] # None
  /\ UNCHANGED vars

Next ==
  \/ \E l \in Loads, id \in Ids : Load(l, id)
  \/ Dispatch
  \/ \E b \in flight : ReadChunk(b) \/ BulkGetFails(b) \/ Deliver(b)
  \/ \E id \in Ids : Write(id) \/ CatchUp(id)
  \/ \E l \in Loads : Cancel(l)
  \/ Terminated

Spec == Init /\ [][Next]_vars

(* Timers fire and goroutines run.                                         *)
FairSpec == Spec /\ WF_vars(Dispatch) /\ WF_vars(\E b \in flight : BatchFn(b))

-----------------------------------------------------------------------------
TypeOK ==
  /\ stored \in [Ids -> Item \cup {Absent}]
  /\ behind \in [Ids -> SUBSET (Item \cup {Absent})]
  /\ version \in 0 .. MaxVersion
  /\ want \in [Loads -> Ids \cup {None}]
  /\ result \in [Loads -> (0 .. MaxVersion) \cup {Absent, None, Failed}]
  /\ cancelled \subseteq Loads
  /\ ToSet(open) \subseteq Running /\ IsInjective(open)
  /\ \A b \in flight : ToSet(b.loads) \subseteq Running /\ IsInjective(b.loads)
  /\ witnessed \in [Loads -> SUBSET (Item \cup {Absent})]

(* A Load that waits is in one batch, the open one or one in flight, so    *)
(* that exactly one answer reaches it.                                     *)
OneBatchEach ==
  \A l \in Running :
    (IF l \in ToSet(open) THEN 1 ELSE 0)
      + Cardinality({b \in flight : l \in ToSet(b.loads)}) = 1

(* What a Load returns is what some replica held under its own key at some *)
(* moment of the call: not what all of them had given up before it, nor    *)
(* what belongs to another key of the batch, in whatever order the items   *)
(* came and whoever wrote meanwhile.  It may be older than a write that    *)
(* was done before the call.  The zero value stands for no item or one of  *)
(* another type.                                                           *)
LoadIsCurrent ==
  \A l \in Loads : result[l] \notin {None, Failed} =>
    IF result[l] = Absent THEN witnessed[l] \cap {Absent, Foreign} # {}
    ELSE result[l] \in witnessed[l]

(* "Load fetches a single item by its CompositeKey": it fails for no other *)
(* reason than the database or a context.                                  *)
LoadFailsOnlyByDatabase ==
  (\E l \in Loads : result[l] = Failed) => DatabaseFails \/ cancelled # {}

(* A Load returns, whatever becomes of its batch.                          *)
LoadReturns == \A l \in Loads : l \in Running ~> l \notin Running
=============================================================================
