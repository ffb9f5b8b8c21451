---------------------------- MODULE MemoryCache ----------------------------
(***************************************************************************)
(* connectors/cache/memory.go: a map under a read-write lock whose entries *)
(* may carry an expiry time.  Calls of Get, Set and Delete interleave: Set *)
(* reads the clock before it takes the lock, Get releases the read lock    *)
(* before it looks at the expiry and takes the write lock anew to evict.   *)
(***************************************************************************)
EXTENDS Integers, Sequences

CONSTANTS
  Calls,        \* one Get, Set or Delete each; a Set stores its own name
  Keys,
  TTLs,         \* durations a Set may be given
  NoTTL,        \* ttl == nil, and expiresAt == nil
  None,         \* no entry under a key
  MaxTime       \* bound: the clock stops here

ASSUME CacheAssumption ==
  /\ TTLs \subseteq Nat
  /\ NoTTL \notin Nat
  /\ MaxTime \in Nat

VARIABLES
  items,        \* the map: what each key holds
  now,          \* the clock
  pc, key,      \* where each call is, and its key
  entry,        \* what a Get read, or what a Set is about to store
  result,       \* what a Get returned
  log,          \* history, per key: the entries stored and None for a Delete
  since         \* history, per Get: length of its key's log at the call

vars == <<items, now, pc, key, entry, result, log, since>>

Time == 0 .. MaxTime
Expiry == Nat \cup {NoTTL}
Entry == [value : Calls, expiresAt : Expiry]

NothingYet == [hit |-> FALSE, value |-> None, at |-> 0]

(* Mutants: expiry is not looked at; a nil expiresAt reads as time zero.   *)
NeverExpired(e, t) == FALSE
NilExpired(e, t) == IF e.expiresAt = NoTTL THEN TRUE ELSE t > e.expiresAt

(* entry.expiresAt != nil and the clock is after it.                       *)
Expired(e, t) == e.expiresAt # NoTTL /\ t > e.expiresAt

(* Mutant: the TTL is taken off the clock.                                 *)
DeadlineBefore(ttl) == IF ttl = NoTTL THEN NoTTL ELSE now - ttl

Deadline(ttl) == IF ttl = NoTTL THEN NoTTL ELSE now + ttl

Init ==
  /\ items = [k \in Keys |-> None]
  /\ now = 0
  /\ pc = [c \in Calls |-> "idle"]
  /\ key \in [Calls -> Keys]
  /\ entry = [c \in Calls |-> None]
  /\ result = [c \in Calls |-> NothingYet]
  /\ log = [k \in Keys |-> <<>>]
  /\ since = [c \in Calls |-> 0]

Tick ==
  /\ now < MaxTime
  /\ now' = now + 1
  /\ UNCHANGED <<items, pc, key, entry, result, log, since>>

-----------------------------------------------------------------------------
(* Set: the expiry time is computed first, then the entry stored.          *)
SetBegin(c) ==
  /\ pc[c] = "idle"
  /\ \E ttl \in TTLs \cup {NoTTL} :
       entry' = [entry EXCEPT ![c] = [value |-> c, expiresAt |-> Deadline(ttl)]]
  /\ pc' = [pc EXCEPT ![c] = "store"]
  /\ UNCHANGED <<items, now, key, result, log, since>>

SetStore(c) ==
  /\ pc[c] = "store"
  /\ items' = [items EXCEPT ![key[c]] = entry[c]]
  /\ log' = [log EXCEPT ![key[c]] = Append(@, entry[c])]
  /\ pc' = [pc EXCEPT ![c] = "done"]
  /\ UNCHANGED <<now, key, entry, result, since>>

Delete(c) ==
  /\ pc[c] = "idle"
  /\ items' = [items EXCEPT ![key[c]] = None]
  /\ log' = [log EXCEPT ![key[c]] = Append(@, None)]
  /\ pc' = [pc EXCEPT ![c] = "done"]
  /\ UNCHANGED <<now, key, entry, result, since>>

-----------------------------------------------------------------------------
GetBegin(c) ==
  /\ pc[c] = "idle"
  /\ pc' = [pc EXCEPT ![c] = "read"]
  /\ since' = [since EXCEPT ![c] = Len(log[key[c]])]
  /\ UNCHANGED <<items, now, key, entry, result, log>>

(* Under the read lock.                                                    *)
GetRead(c) ==
  /\ pc[c] = "read"
  /\ entry' = [entry EXCEPT ![c] = items[key[c]]]
  /\ pc' = [pc EXCEPT ![c] = IF items[key[c]] = None THEN "done" ELSE "check"]
  /\ UNCHANGED <<items, now, key, result, log, since>>

(* After the read lock: the entry is expired, or it is the answer.         *)
GetCheck(c) ==
  /\ pc[c] = "check"
  /\ \/ /\ Expired(entry[c], now)
        /\ pc' = [pc EXCEPT ![c] = "evict"]
        /\ UNCHANGED result
     \/ /\ ~Expired(entry[c], now)
        /\ pc' = [pc EXCEPT ![c] = "done"]
        /\ result' = [result EXCEPT ![c] = [hit |-> TRUE, value |-> entry[c].value, at |-> now]]
  /\ UNCHANGED <<items, now, key, entry, log, since>>

(* Under the write lock: whatever the key holds by now is removed.         *)
GetEvict(c) ==
  /\ pc[c] = "evict"
  /\ items' = [items EXCEPT ![key[c]] = None]
  /\ pc' = [pc EXCEPT ![c] = "done"]
  /\ UNCHANGED <<now, key, entry, result, log, since>>

(* Every call has returned and the clock has stopped.                      *)
Terminated == now = MaxTime /\ (\A c \in Calls : pc[c] = "done") /\ UNCHANGED vars

Next ==
  \/ Tick
  \/ \E c \in Calls : \/ SetBegin(c) \/ SetStore(c) \/ Delete(c)
                      \/ GetBegin(c) \/ GetRead(c) \/ GetCheck(c) \/ GetEvict(c)
  \/ Terminated

Spec == Init /\ [][Next]_vars

-----------------------------------------------------------------------------
TypeOK ==
  /\ items \in [Keys -> Entry \cup {None}]
  /\ now \in Time
  /\ pc \in [Calls -> {"idle", "store", "read", "check", "evict", "done"}]
  /\ key \in [Calls -> Keys]
  /\ entry \in [Calls -> Entry \cup {None}]
  /\ result \in [Calls -> [hit : BOOLEAN, value : Calls \cup {None}, at : Time]]
  /\ log \in [Keys -> Seq(Entry \cup {None})]
  /\ since \in [Calls -> Nat]

(* A hit is an entry that had not expired when Get decided, and that was   *)
(* not already overwritten or deleted when Get was called.                 *)
HitIsCurrent ==
  \A c \in Calls : result[c].hit =>
    \E i \in 1 .. Len(log[key[c]]) :
      LET e == log[key[c]][i]
      IN /\ i >= since[c]
         /\ e # None
         /\ e.value = result[c].value
         /\ e.expiresAt = NoTTL \/ result[c].at <= e.expiresAt

(* A key none of whose entries carries a TTL keeps what was last stored.   *)
UntimedKeysKeep ==
  \A k \in Keys :
    LET stored == log[k]
    IN /\ stored # <<>>
       /\ \A i \in 1 .. Len(stored) : stored[i] # None => stored[i].expiresAt = NoTTL
       => items[k] = stored[Len(stored)]

(* An entry stored without a TTL stays until it is overwritten or deleted. *)
NoExpiryStays ==
  \A k \in Keys : log[k] # <<>> /\ log[k][Len(log[k])] # None
    /\ log[k][Len(log[k])].expiresAt = NoTTL => items[k] = log[k][Len(log[k])]
=============================================================================
