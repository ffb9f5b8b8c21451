----------------------------- MODULE LocalLimiter -----------------------------
(***************************************************************************)
(* connectors/ratelimit/memory.go, and the local bucket of redis.go: the   *)
(* token bucket of one key, created on first use and retuned by a caller   *)
(* that brings another limit.  rate.Limiter locks each of its methods, the *)
(* callers take several of them.                                           *)
(*                                                                         *)
(* Time goes by in seconds: a wait for a token is rounded up to the next.  *)
(***************************************************************************)
EXTENDS Integers, Sequences, FiniteSets

CONSTANTS
  Callers,      \* calls of Wait for one key
  Limits,       \* the limits they bring, requests per second
  MaxTime       \* bound: seconds

VARIABLES
  limiters,     \* every rate.Limiter made: [limit, burst, tokens, lastEvent]
  entry,        \* the limiter in the map, or 0
  caller,       \* [limit, at, lim, until]
  now,
  overlapped    \* history: callers with different limits were inside at once

vars == <<limiters, entry, caller, now, overlapped>>

Init ==
  /\ limiters = <<>> /\ entry = 0 /\ now = 0 /\ overlapped = FALSE
  /\ caller \in [Callers -> {[limit |-> l, at |-> "idle", lim |-> 0, until |-> 0] : l \in Limits}]

Inside(c) == caller[c].at \notin {"idle", "admitted", "refused"}

Goto(c, at) == caller' = [caller EXCEPT ![c].at = at]

(* The lookup under the read lock.                                         *)
Lookup(c) ==
  /\ caller[c].at = "idle"
  /\ caller' = [caller EXCEPT ![c].lim = entry, ![c].at = IF entry = 0 THEN "create" ELSE "compare"]
  /\ overlapped' = (overlapped \/ \E d \in Callers : Inside(d) /\ caller[d].limit # caller[c].limit)
  /\ UNCHANGED <<limiters, entry, now>>

(* Mutant: the map is not looked at again under the write lock.            *)
NeverThere == FALSE

ThereMeanwhile == entry # 0

(* The second lookup and the insertion, under the write lock.              *)
Create(c) ==
  /\ caller[c].at = "create"
  /\ IF ThereMeanwhile
     THEN /\ caller' = [caller EXCEPT ![c].lim = entry, ![c].at = "compare"]
          /\ UNCHANGED <<limiters, entry>>
     ELSE LET l == caller[c].limit IN
          /\ limiters' = Append(limiters, [limit |-> l, burst |-> l, tokens |-> l, lastEvent |-> 0])
          /\ entry' = Len(limiters) + 1
          /\ caller' = [caller EXCEPT ![c].lim = Len(limiters) + 1, ![c].at = "compare"]
  /\ UNCHANGED <<now, overlapped>>

(* if int(lim.Limit()) != limit                                            *)
Compare(c) ==
  /\ caller[c].at = "compare"
  /\ Goto(c, IF limiters[caller[c].lim].limit # caller[c].limit THEN "limit" ELSE "wait")
  /\ UNCHANGED <<limiters, entry, now, overlapped>>

(* Mutant: the burst stays that of the first caller.                       *)
LimitAlone(c) ==
  /\ caller[c].at = "limit"
  /\ limiters' = [limiters EXCEPT ![caller[c].lim].limit = caller[c].limit]
  /\ Goto(c, "wait")
  /\ UNCHANGED <<entry, now, overlapped>>

SetLimit(c) ==
  /\ caller[c].at = "limit"
  /\ limiters' = [limiters EXCEPT ![caller[c].lim].limit = caller[c].limit]
  /\ Goto(c, "burst")
  /\ UNCHANGED <<entry, now, overlapped>>

SetBurst(c) ==
  /\ caller[c].at = "burst"
  /\ limiters' = [limiters EXCEPT ![caller[c].lim].burst = caller[c].limit]
  /\ Goto(c, "wait")
  /\ UNCHANGED <<entry, now, overlapped>>

-----------------------------------------------------------------------------
(* rate.Limiter.Wait: a token now, or the one that will be there when the  *)
(* reservations before it have been served.                                *)
Wait(c) ==
  LET m == limiters[caller[c].lim]
      left == (IF m.tokens > m.burst THEN m.burst ELSE m.tokens) - 1
      wait == IF left >= 0 THEN 0 ELSE (m.limit - 1 - left) \div m.limit
  IN /\ caller[c].at = "wait"
     /\ limiters' = [limiters EXCEPT ![caller[c].lim] =
          [m EXCEPT !.tokens = left, !.lastEvent = now + wait]]
     /\ caller' = [caller EXCEPT ![c].until = now + wait,
          ![c].at = IF wait = 0 THEN "admitted" ELSE "sleep"]
     /\ UNCHANGED <<entry, now, overlapped>>

Wake(c) ==
  /\ caller[c].at = "sleep" /\ caller[c].until <= now
  /\ Goto(c, "admitted")
  /\ UNCHANGED <<limiters, entry, now, overlapped>>

(* The context ends before or during Wait: a reservation that nobody       *)
(* queues behind is given back.                                            *)
Cancel(c) ==
  /\ caller[c].at \in {"wait", "sleep"}
  /\ Goto(c, "refused")
  /\ LET m == limiters[caller[c].lim] IN
       limiters' = IF caller[c].at = "sleep" /\ m.lastEvent = caller[c].until /\ now < caller[c].until
                   THEN [limiters EXCEPT ![caller[c].lim].tokens = @ + 1]
                   ELSE limiters
  /\ UNCHANGED <<entry, now, overlapped>>

Tick ==
  /\ now < MaxTime /\ now' = now + 1
  /\ limiters' = [i \in DOMAIN limiters |-> LET m == limiters[i] IN
       [m EXCEPT !.tokens = IF m.tokens + m.limit > m.burst THEN m.burst ELSE m.tokens + m.limit]]
  /\ UNCHANGED <<entry, caller, overlapped>>

Next ==
  \/ Tick
  \/ \E c \in Callers : \/ Lookup(c) \/ Create(c) \/ Compare(c) \/ SetLimit(c) \/ SetBurst(c)
                        \/ Wait(c) \/ Wake(c) \/ Cancel(c)

Spec == Init /\ [][Next]_vars

-----------------------------------------------------------------------------
TypeOK ==
  /\ entry \in 0 .. Len(limiters) /\ now \in 0 .. MaxTime /\ overlapped \in BOOLEAN
  /\ \A i \in DOMAIN limiters : LET m == limiters[i] IN
       m.limit \in Limits /\ m.burst \in Limits /\ m.tokens \in Int /\ m.lastEvent \in Nat
  /\ \A c \in Callers :
       /\ caller[c].at \in {"idle", "create", "compare", "limit", "burst", "wait", "sleep",
                            "admitted", "refused"}
       /\ caller[c].lim \in 0 .. Len(limiters)

(* However many callers find the key absent at once, they share one        *)
(* bucket: it admits a burst and then its rate, for the highest limit that *)
(* one of them brings.                                                     *)
RateIsShared ==
  LET admitted == {c \in Callers : caller[c].at = "admitted"}
      begun == {c \in Callers : caller[c].at # "idle"}
  IN admitted # {} =>
       \E c \in begun : Cardinality(admitted) <= caller[c].limit * (1 + now)

(* A bucket that nobody is retuning has the burst of its limit, unless     *)
(* callers with different limits were inside Wait at the same time: then   *)
(* the limit of one may stay with the burst of another.                    *)
MixedOnlyByOverlap ==
  (\A c \in Callers : caller[c].at # "burst") /\ ~overlapped =>
    \A i \in DOMAIN limiters : limiters[i].burst = limiters[i].limit
=============================================================================
