-------------------------- MODULE RedisRateLimiter --------------------------
(***************************************************************************)
(* connectors/ratelimit/redis.go, waitRedis: callers on several hosts      *)
(* share one counter per key and Unix second.  A step is one sending of a  *)
(* Redis command; between two of them a caller may be delayed or its       *)
(* process die.  The client sends a command again when its answer is lost, *)
(* whether or not the command took effect.                                 *)
(*                                                                         *)
(* A second has two halves, and seconds are counted modulo Cycle: a caller *)
(* is never delayed that long, and the counter of a new second starts out  *)
(* absent.  Wait's local token bucket is the caller's own and only decides *)
(* when the caller reaches Redis.                                          *)
(***************************************************************************)
EXTENDS Integers, FiniteSets

CONSTANTS
  Callers,      \* calls of Wait for one key, each on a host of its own
  Absent,       \* a counter Redis does not hold
  Limit,        \* requests per second
  Cycle,        \* bound: seconds before the clock's values repeat
  MaxStall,     \* bound: seconds a caller may take over one turn of the loop
  MaxRetries,   \* times the client sends a command again
  MaxLost,      \* bound: answers that are lost altogether
  Faults        \* what may go wrong: "redis" (a command fails, before or after it
                \* took effect), "cancel" (a context is done), "crash" (a process dies)

ASSUME RateAssumption ==
  /\ IsFiniteSet(Callers) /\ Limit \in Nat \ {0} /\ Absent \notin Int
  /\ Cycle \in Nat /\ MaxStall \in Nat /\ MaxStall + 2 < Cycle
  /\ MaxRetries \in Nat /\ MaxLost \in Nat
  /\ Faults \subseteq {"redis", "cancel", "crash"}

Seconds == 0 .. Cycle - 1
NoTTL == 0          \* a key without TTL; otherwise half seconds left to live
VARIABLES
  half,         \* the clock, in half seconds
  count,        \* Redis: the counter under rl:key:second
  ttl,          \* Redis: what is left of its time to live
  pc,
  window,       \* the caller's now
  seen,         \* the caller's count
  sent,         \* sendings of the command at hand that took effect unheard
  lost,         \* answers lost so far
  cancelled,    \* callers whose context is done
  outcome,      \* how the call returned
  granted,      \* history: callers whose count was within the limit of each second
  admitted,     \* history: callers admitted by the counter of each second
  unheard,      \* history: INCRs of each second whose answer was lost
  surplus       \* history: DECRs of each second that took effect once more

redis == <<count, ttl>>
history == <<granted, admitted, unheard, surplus>>
vars == <<half, redis, pc, window, seen, sent, lost, cancelled, outcome, history>>

(* Mutant: the key lives for one second only.                              *)
OneSecondTTL == 2

(* 2*time.Second, in half seconds.                                         *)
FullTTL == 4

Second == half \div 2
InLoop == {"incr", "expire", "decide", "decr"}

Init ==
  /\ half = 0
  /\ count = [s \in Seconds |-> Absent]
  /\ ttl = [s \in Seconds |-> NoTTL]
  /\ pc = [c \in Callers |-> "idle"]
  /\ window = [c \in Callers |-> 0]
  /\ seen = [c \in Callers |-> 0]
  /\ sent = [c \in Callers |-> 0]
  /\ lost = 0
  /\ cancelled = {}
  /\ outcome = [c \in Callers |-> "none"]
  /\ granted = [s \in Seconds |-> {}]
  /\ admitted = [s \in Seconds |-> {}]
  /\ unheard = [s \in Seconds |-> 0]
  /\ surplus = [s \in Seconds |-> 0]

Goto(c, l) == pc' = [pc EXCEPT ![c] = l]
Return(c, o) == Goto(c, "done") /\ outcome' = [outcome EXCEPT ![c] = o]

(* Mutant: the limit is exclusive.                                         *)
OverEarly(n) == n >= Limit

(* int(count) <= limit fails.                                              *)
Over(n) == n > Limit

(* Redis commands on the counter of second s.                              *)
CounterAfterIncr(s) == IF count[s] = Absent THEN 1 ELSE count[s] + 1
CounterAfterDecr(s) == IF count[s] = Absent THEN -1 ELSE count[s] - 1

RedisFails == "redis" \in Faults
Settled(c) == sent' = [sent EXCEPT ![c] = 0]

(* The command of caller c took effect, but its answer is lost: the client *)
(* sends it again.                                                         *)
Unheard == RedisFails /\ lost < MaxLost /\ lost' = lost + 1
Resend(c) ==
  /\ Unheard /\ sent[c] < MaxRetries
  /\ sent' = [sent EXCEPT ![c] = @ + 1]
  /\ UNCHANGED <<pc, outcome>>

-----------------------------------------------------------------------------
(* The local bucket lets the caller through, or its Wait reports the       *)
(* context's error.  Without a client there is nothing else.               *)
Enter(c) ==
  /\ pc[c] = "idle"
  /\ \/ Goto(c, "loop") /\ UNCHANGED outcome
     \/ Return(c, "local")
     \/ c \in cancelled /\ Return(c, "cancelled")
  /\ UNCHANGED <<half, redis, window, seen, sent, lost, cancelled, history>>

(* The top of the loop: the context, then the clock.                       *)
ReadClock(c) ==
  /\ pc[c] = "loop"
  /\ \/ /\ c \in cancelled
        /\ Return(c, "cancelled")
        /\ UNCHANGED window
     \/ /\ c \notin cancelled
        /\ window' = [window EXCEPT ![c] = Second]
        /\ Goto(c, "incr")
        /\ UNCHANGED outcome
  /\ UNCHANGED <<half, redis, seen, sent, lost, cancelled, history>>

(* Mutant: taken for the count before the increment.                       *)
IncrExpiresAtZero(c) ==
  /\ pc[c] = "incr"
  /\ LET n == CounterAfterIncr(window[c])
     IN /\ count' = [count EXCEPT ![window[c]] = n]
        /\ seen' = [seen EXCEPT ![c] = n]
        /\ granted' = IF Over(n) THEN granted ELSE [granted EXCEPT ![window[c]] = @ \cup {c}]
        /\ Goto(c, IF n = 0 THEN "expire" ELSE "decide")
  /\ Settled(c)
  /\ UNCHANGED <<half, ttl, window, lost, cancelled, outcome, admitted, unheard, surplus>>

Incr(c) ==
  /\ pc[c] = "incr"
  /\ LET n == CounterAfterIncr(window[c])
     IN /\ count' = [count EXCEPT ![window[c]] = n]
        /\ seen' = [seen EXCEPT ![c] = n]
        /\ granted' = IF Over(n) THEN granted ELSE [granted EXCEPT ![window[c]] = @ \cup {c}]
        /\ Goto(c, IF n = 1 THEN "expire" ELSE "decide")
  /\ Settled(c)
  /\ UNCHANGED <<half, ttl, window, lost, cancelled, outcome, admitted, unheard, surplus>>

(* INCR takes effect, but its answer is lost: the client sends it again,   *)
(* or has done so often enough and returns an error.                       *)
IncrUnheard(c) ==
  /\ pc[c] = "incr"
  /\ count' = [count EXCEPT ![window[c]] = CounterAfterIncr(window[c])]
  /\ unheard' = [unheard EXCEPT ![window[c]] = @ + 1]
  /\ \/ Resend(c)
     \/ Unheard /\ sent[c] = MaxRetries /\ Return(c, "degraded") /\ Settled(c)
  /\ UNCHANGED <<half, ttl, window, seen, cancelled, granted, admitted, surplus>>

(* INCR returns an error, of Redis or of the context, and did nothing, or  *)
(* nothing more: local-only limiting.                                      *)
IncrFails(c) ==
  /\ pc[c] = "incr"
  /\ RedisFails \/ c \in cancelled
  /\ Return(c, "degraded")
  /\ Settled(c)
  /\ UNCHANGED <<half, redis, window, seen, lost, cancelled, history>>

(* EXPIRE takes effect or fails; the code does not look which.             *)
SetTTL(s) == ttl' = IF count[s] = Absent THEN ttl ELSE [ttl EXCEPT ![s] = FullTTL]

Expire(c) ==
  /\ pc[c] = "expire"
  /\ \/ SetTTL(window[c])
     \/ (RedisFails \/ c \in cancelled) /\ UNCHANGED ttl
  /\ Goto(c, "decide")
  /\ Settled(c)
  /\ UNCHANGED <<half, count, window, seen, lost, cancelled, outcome, history>>

ExpireUnheard(c) ==
  /\ pc[c] = "expire"
  /\ SetTTL(window[c])
  /\ Resend(c)
  /\ UNCHANGED <<half, count, window, seen, cancelled, history>>

Decide(c) ==
  /\ pc[c] = "decide"
  /\ \/ /\ ~Over(seen[c])
        /\ Return(c, "allowed")
        /\ admitted' = [admitted EXCEPT ![window[c]] = @ \cup {c}]
     \/ /\ Over(seen[c])
        /\ Goto(c, "decr")
        /\ UNCHANGED <<outcome, admitted>>
  /\ UNCHANGED <<half, redis, window, seen, sent, lost, cancelled, granted, unheard, surplus>>

(* DECR takes effect, for the first time or once more.                     *)
Undo(c) ==
  /\ count' = [count EXCEPT ![window[c]] = CounterAfterDecr(window[c])]
  /\ surplus' = [surplus EXCEPT ![window[c]] = IF sent[c] = 0 THEN @ ELSE @ + 1]

(* Mutant: the caller tries again at once.                                 *)
DecrAndSpin(c) ==
  /\ pc[c] = "decr"
  /\ \/ Undo(c)
     \/ (RedisFails \/ c \in cancelled) /\ UNCHANGED <<count, surplus>>
  /\ Goto(c, "loop")
  /\ Settled(c)
  /\ UNCHANGED <<half, ttl, window, seen, lost, cancelled, outcome, granted, admitted, unheard>>

(* The increment is undone, or not, and the code does not look which; then *)
(* the caller sleeps out its second.                                       *)
Decr(c) ==
  /\ pc[c] = "decr"
  /\ \/ Undo(c)
     \/ (RedisFails \/ c \in cancelled) /\ UNCHANGED <<count, surplus>>
  /\ Goto(c, IF Second = window[c] THEN "sleep" ELSE "loop")
  /\ Settled(c)
  /\ UNCHANGED <<half, ttl, window, seen, lost, cancelled, outcome, granted, admitted, unheard>>

DecrUnheard(c) ==
  /\ pc[c] = "decr"
  /\ Undo(c)
  /\ Resend(c)
  /\ UNCHANGED <<half, ttl, window, seen, cancelled, granted, admitted, unheard>>

(* The sleeping select takes ctx.Done.                                     *)
Interrupt(c) ==
  /\ pc[c] = "sleep" /\ c \in cancelled
  /\ Return(c, "cancelled")
  /\ UNCHANGED <<half, redis, window, seen, sent, lost, cancelled, history>>

-----------------------------------------------------------------------------
(* Half a second passes: keys run out of time, timers of a past second     *)
(* fire, and a new second has a key, and a history, of its own.            *)
Tick ==
  LET next == (half + 1) % (2 * Cycle)
      new == IF next % 2 = 0 THEN {next \div 2} ELSE {}
      gone == {s \in Seconds : ttl[s] = 1} \cup new
  IN /\ \A c \in Callers : pc[c] \in InLoop =>
          (next \div 2 - window[c]) % Cycle <= MaxStall
     /\ half' = next
     /\ count' = [s \in Seconds |-> IF s \in gone THEN Absent ELSE count[s]]
     /\ ttl' = [s \in Seconds |-> IF s \in gone \/ ttl[s] = NoTTL THEN NoTTL ELSE ttl[s] - 1]
     /\ pc' = [c \in Callers |-> IF pc[c] = "sleep" /\ new # {} THEN "loop" ELSE pc[c]]
     /\ granted' = [s \in Seconds |-> IF s \in new THEN {} ELSE granted[s]]
     /\ admitted' = [s \in Seconds |-> IF s \in new THEN {} ELSE admitted[s]]
     /\ unheard' = [s \in Seconds |-> IF s \in new THEN 0 ELSE unheard[s]]
     /\ surplus' = [s \in Seconds |-> IF s \in new THEN 0 ELSE surplus[s]]
     /\ UNCHANGED <<window, seen, sent, lost, cancelled, outcome>>

Cancel(c) ==
  /\ "cancel" \in Faults /\ pc[c] # "done" /\ c \notin cancelled
  /\ cancelled' = cancelled \cup {c}
  /\ UNCHANGED <<half, redis, pc, window, seen, sent, lost, outcome, history>>

Crash(c) ==
  /\ "crash" \in Faults /\ pc[c] \in InLoop
  /\ Return(c, "crashed")
  /\ Settled(c)
  /\ UNCHANGED <<half, redis, window, seen, lost, cancelled, history>>

Step(c) ==
  \/ Enter(c) \/ ReadClock(c) \/ Decide(c) \/ Interrupt(c)
  \/ Incr(c) \/ IncrUnheard(c) \/ IncrFails(c)
  \/ Expire(c) \/ ExpireUnheard(c)
  \/ Decr(c) \/ DecrUnheard(c)

Next == Tick \/ \E c \in Callers : Step(c) \/ Cancel(c) \/ Crash(c)

Spec == Init /\ [][Next]_vars

(* Callers keep running and the clock keeps going.                         *)
FairSpec == Spec /\ WF_vars(Tick) /\ \A c \in Callers : WF_vars(Step(c))

-----------------------------------------------------------------------------
(* A caller changes the counter of a second once for each time a command   *)
(* may be sent, for it sleeps that second out: increments that are undone  *)
(* or lost do not pile up from turn to turn.                               *)
CountRange == LET n == Cardinality(Callers) * (MaxRetries + 1) IN -n .. n
TypeOK ==
  /\ half \in 0 .. 2 * Cycle - 1
  /\ count \in [Seconds -> CountRange \cup {Absent}]
  /\ ttl \in [Seconds -> 0 .. FullTTL]
  /\ pc \in [Callers -> {"idle", "loop", "sleep", "done"} \cup InLoop]
  /\ window \in [Callers -> Seconds]
  /\ seen \in [Callers -> CountRange]
  /\ sent \in [Callers -> 0 .. MaxRetries]
  /\ lost \in 0 .. MaxLost
  /\ cancelled \subseteq Callers
  /\ outcome \in [Callers -> {"none", "allowed", "local", "degraded", "cancelled", "crashed"}]
  /\ granted \in [Seconds -> SUBSET Callers]
  /\ admitted \in [Seconds -> SUBSET Callers]
  /\ unheard \in [Seconds -> Nat]
  /\ surplus \in [Seconds -> Nat]

(* However callers, failing commands, crashes and expiries interleave, the *)
(* counter of one second admits at most Limit callers, and one more for    *)
(* each DECR that took effect again because the client sent it again,      *)
(* provided nobody takes longer than MaxStall over a turn of the loop.     *)
WindowLimit == \A s \in Seconds : Cardinality(admitted[s]) <= Limit + surplus[s]

(* A caller is turned away only by Limit increments of its second that     *)
(* granted a place or whose answer was lost: the increments that others    *)
(* undo never cost it its place.                                           *)
NoSpuriousDenial ==
  \A c \in Callers : pc[c] = "decr" =>
    Cardinality(granted[window[c]]) + unheard[window[c]] >= Limit

(* A counter without a TTL belongs to a caller that is about to set it, or *)
(* to one that was cancelled or died first.                                *)
TTLOnlyLostByInterruption ==
  \A s \in Seconds : count[s] # Absent /\ ttl[s] = NoTTL =>
    \E c \in Callers : /\ window[c] = s
                       /\ pc[c] = "expire" \/ c \in cancelled \/ outcome[c] = "crashed"

(* "Set TTL on first increment so the key auto-expires": no counter is     *)
(* left without a TTL once no caller works on its second.                  *)
KeysAutoExpire ==
  \A s \in Seconds : count[s] # Absent /\ ttl[s] = NoTTL =>
    \E c \in Callers : window[c] = s /\ pc[c] \in InLoop

(* A caller that waits is admitted or told of an error, in one of the      *)
(* following seconds.                                                      *)
WaitReturns == \A c \in Callers : pc[c] = "loop" ~> pc[c] = "done"
=============================================================================
