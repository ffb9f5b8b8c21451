----------------------- MODULE RedisRateLimiter_proofs -----------------------
(***************************************************************************)
(* Proofs about RedisRateLimiter, for any number of callers, any limit and *)
(* any mixture of failing and resent commands, lost answers, cancellations *)
(* and crashes: a second admits no more than the limit and the DECRs that  *)
(* took effect twice, nobody is turned away for undone increments, and a   *)
(* key loses its TTL only to an interruption.  These assume that no caller *)
(* takes more than a second over one turn of the loop; that a counter      *)
(* stays within the sendings of its callers does not.                      *)
(***************************************************************************)
EXTENDS RedisRateLimiter, FiniteSetTheorems, TLAPS

Types ==
  /\ half \in 0 .. 2 * Cycle - 1
  /\ count \in [Seconds -> Int \cup {Absent}]
  /\ ttl \in [Seconds -> 0 .. FullTTL]
  /\ pc \in [Callers -> {"idle", "loop", "sleep", "done"} \cup InLoop]
  /\ window \in [Callers -> Seconds]
  /\ seen \in [Callers -> Int]
  /\ sent \in [Callers -> 0 .. MaxRetries]
  /\ lost \in 0 .. MaxLost
  /\ cancelled \subseteq Callers
  /\ outcome \in [Callers -> {"none", "allowed", "local", "degraded", "cancelled", "crashed"}]
  /\ granted \in [Seconds -> SUBSET Callers]
  /\ admitted \in [Seconds -> SUBSET Callers]
  /\ unheard \in [Seconds -> Nat]
  /\ surplus \in [Seconds -> Nat]

(* Half seconds since second s began.                                      *)
Age(s) == (half - 2 * s) % (2 * Cycle)

(* A turn of the loop ends in the second that follows its window, and a    *)
(* key that has a TTL lives at least that long.                            *)
Clocks ==
  /\ \A c \in Callers : pc[c] \in InLoop => Age(window[c]) <= 3
  /\ \A s \in Seconds : ttl[s] # NoTTL /\ Age(s) <= 3 => ttl[s] + Age(s) >= FullTTL

(* The callers that have an increment to answer for, those of them whose   *)
(* increment is not undone yet, and those that have, or will have, a place. *)
Holding == {"expire", "decide", "decr"}
Owing(c) == pc[c] \in {"expire", "decide"} \/ (pc[c] = "decr" /\ sent[c] = 0)
Holders(s) == admitted[s] \cup {c \in Callers : Owing(c) /\ window[c] = s}
Entitled(s) ==
  admitted[s] \cup {c \in Callers : /\ pc[c] \in {"expire", "decide"} /\ window[c] = s
                                    /\ ~Over(seen[c])}

(* The counter of a second that callers still work on counts its holders,  *)
(* but for the increments undone twice, and perhaps some that were lost.   *)
Counts(s) ==
  IF count[s] = Absent
  THEN admitted[s] = {} /\ \A c \in Callers : pc[c] \in Holding => window[c] # s
  ELSE Cardinality(Holders(s)) <= count[s] + surplus[s]
Sending == {"incr", "expire", "decr"}
Counted ==
  /\ \A s \in Seconds : Age(s) <= 3 => Counts(s)
  /\ \A s \in Seconds : \A c \in admitted[s] : pc[c] = "done"
  /\ \A c \in Callers : /\ pc[c] = "expire" => seen[c] = 1
                        /\ pc[c] = "decr" => Over(seen[c])
                        /\ pc[c] \in Sending \/ sent[c] = 0

(* A counter below the limit has granted that many places, or counts       *)
(* increments that nobody heard of.                                        *)
Due(s) == Cardinality(granted[s]) + unheard[s]
Full(s) == Due(s) >= Limit
Denials ==
  /\ \A s \in Seconds : count[s] # Absent => Full(s) \/ count[s] <= Due(s)
  /\ \A c \in Callers : pc[c] \in Holding /\ Over(seen[c]) => Full(window[c])
  /\ \A s \in Seconds : \A c \in granted[s] :
       pc[c] = "done" \/ (pc[c] \in {"expire", "decide"} /\ ~Over(seen[c]))

Places == \A s \in Seconds : Cardinality(Entitled(s)) <= Limit + surplus[s]

(* Who left a counter without a TTL.                                       *)
Interrupted(c) ==
  \/ pc[c] = "expire"
  \/ pc[c] = "decide" /\ seen[c] = 1 /\ c \in cancelled
  \/ pc[c] = "done" /\ seen[c] = 1 /\ (c \in cancelled \/ outcome[c] = "crashed")
Untimed ==
  ~RedisFails => \A s \in Seconds : count[s] # Absent /\ ttl[s] = NoTTL =>
    \E c \in Callers : window[c] = s /\ Interrupted(c)

IInv == Types /\ Clocks /\ Counted /\ Denials /\ Places /\ Untimed

-----------------------------------------------------------------------------
LEMMA Remainder ==
  ASSUME NEW n \in Nat \ {0}, NEW a \in -n .. n - 1
  PROVE  a % n = IF a >= 0 THEN a ELSE a + n
<1>1. CASE a >= 0
  BY <1>1
<1>2. CASE a < 0
  BY <1>2
<1> QED
  BY <1>1, <1>2

LEMMA CycleFacts == MaxStall <= 1 => Cycle \in Nat /\ Cycle > 2 /\ MaxStall \in {0, 1}
  BY RateAssumption

(* The age of a second, and its age in seconds.                            *)
LEMMA AgeOf ==
  ASSUME NEW h \in 0 .. 2 * Cycle - 1, NEW s \in Seconds
  PROVE  /\ (h - 2 * s) % (2 * Cycle) = IF h >= 2 * s THEN h - 2 * s ELSE h - 2 * s + 2 * Cycle
         /\ (h \div 2 - s) % Cycle =
              IF h >= 2 * s THEN h \div 2 - s ELSE h \div 2 - s + Cycle
         /\ h \div 2 \in Seconds
<1>1. Cycle \in Nat /\ Cycle > 2 /\ s \in 0 .. Cycle - 1
  BY RateAssumption DEF Seconds
<1>2. h \div 2 \in 0 .. Cycle - 1 /\ (h >= 2 * s <=> h \div 2 >= s)
  BY <1>1
<1>3. h - 2 * s \in -(2 * Cycle) .. 2 * Cycle - 1 /\ 2 * Cycle \in Nat \ {0}
  BY <1>1
<1>4. (h - 2 * s) % (2 * Cycle) = IF h - 2 * s >= 0 THEN h - 2 * s ELSE h - 2 * s + 2 * Cycle
  BY <1>3, Remainder
<1>5. h \div 2 - s \in -Cycle .. Cycle - 1 /\ Cycle \in Nat \ {0}
  BY <1>1, <1>2
<1>6. (h \div 2 - s) % Cycle = IF h \div 2 - s >= 0 THEN h \div 2 - s ELSE h \div 2 - s + Cycle
  BY <1>5, Remainder
<1> QED
  BY <1>1, <1>2, <1>4, <1>6 DEF Seconds

LEMMA Smaller ==
  ASSUME NEW S \in SUBSET Callers, NEW T \in SUBSET S
  PROVE  /\ IsFiniteSet(S) /\ IsFiniteSet(T)
         /\ Cardinality(S) \in Nat /\ Cardinality(T) \in Nat
         /\ Cardinality(T) <= Cardinality(S)
<1>1. IsFiniteSet(Callers)
  BY RateAssumption
<1>2. IsFiniteSet(S)
  BY <1>1, FS_Subset
<1> QED
  BY <1>2, FS_Subset, FS_CardinalityType

LEMMA SetsOfCallers ==
  ASSUME Types, NEW s \in Seconds
  PROVE  /\ Holders(s) \subseteq Callers /\ Entitled(s) \subseteq Callers
         /\ granted[s] \subseteq Callers
         /\ Cardinality(granted[s]) \in Nat /\ unheard[s] \in Nat /\ surplus[s] \in Nat
         /\ Due(s) \in Nat
<1>1. /\ Holders(s) \subseteq Callers /\ Entitled(s) \subseteq Callers /\ granted[s] \subseteq Callers
      /\ unheard[s] \in Nat /\ surplus[s] \in Nat
  BY DEF Types, Holders, Entitled
<1>2. Cardinality(granted[s]) \in Nat
  BY <1>1, Smaller
<1> QED
  BY <1>1, <1>2 DEF Due

LEMMA InitialInvariant == ASSUME Init PROVE IInv
<1>1. Cycle \in Nat /\ Cycle > 2 /\ 0 \in Seconds /\ MaxRetries \in Nat /\ MaxLost \in Nat
  BY RateAssumption DEF Seconds
<1>2. Types
  BY <1>1 DEF Init, Types, FullTTL, NoTTL
<1>3. Clocks
  BY DEF Init, Clocks, InLoop
<1>4. \A s \in Seconds : Entitled(s) = {}
  BY DEF Init, Entitled
<1>5. Counted
  BY DEF Init, Counted, Counts, Holding
<1>6. Denials
  BY DEF Init, Denials, Holding
<1>7. Places
  <2>1. Cardinality({}) = 0 /\ Limit \in Nat
    BY FS_EmptySet, RateAssumption
  <2>2. \A s \in Seconds : surplus[s] = 0
    BY DEF Init
  <2>3. \A s \in Seconds : Cardinality(Entitled(s)) <= Limit + surplus[s]
    BY <1>4, <2>1, <2>2
  <2> QED
    BY <2>3 DEF Places
<1>8. Untimed
  BY DEF Init, Untimed
<1> QED
  BY <1>2, <1>3, <1>5, <1>6, <1>7, <1>8 DEF IInv

(* A step that leaves the clock, the counters and what is known of them,   *)
(* gives nobody a place or a part of a counter, and takes no grant away.   *)
LEMMA Quiet ==
  ASSUME IInv, Types', UNCHANGED <<half, count, granted, unheard, surplus>>,
         \A s \in Seconds : ttl'[s] = ttl[s] \/ ttl'[s] = FullTTL,
         \A c \in Callers : pc'[c] \in InLoop => Age(window'[c]) <= 3,
         \A c \in Callers : pc'[c] \in Holding => pc[c] \in Holding,
         \A c \in Callers : Owing(c)' => Owing(c),
         \A c \in Callers : pc'[c] \in Sending \/ sent'[c] = 0,
         \A c \in Callers : pc[c] \in Holding \cup {"done"} =>
           /\ window'[c] = window[c] /\ seen'[c] = seen[c]
           /\ pc'[c] \in Holding \cup {"done"} /\ (pc[c] = "done" => pc'[c] = "done")
           /\ pc'[c] = "decr" => Over(seen[c])
           /\ pc'[c] = "expire" => pc[c] = "expire"
           /\ pc'[c] \in {"expire", "decide"} => pc[c] \in {"expire", "decide"},
         \A s \in Seconds : \A c \in admitted'[s] :
           /\ pc'[c] = "done"
           /\ c \in admitted[s] \/ (pc[c] = "decide" /\ window[c] = s /\ ~Over(seen[c])),
         \A s \in Seconds : count[s] # Absent /\ ttl'[s] = NoTTL =>
           \A c \in Callers : window[c] = s /\ Interrupted(c) => Interrupted(c)' \/ RedisFails
  PROVE  IInv'
<1>1. \A s : Age(s)' = Age(s)
  BY DEF Age
<1>2. Clocks'
  <2>1. \A s \in Seconds : Age(s) \in Nat
    BY AgeOf, RateAssumption DEF Age, IInv, Types, Seconds
  <2>2. ASSUME NEW s \in Seconds, ttl'[s] # NoTTL, Age(s) <= 3 PROVE ttl'[s] + Age(s) >= FullTTL
    BY <2>1, <2>2 DEF IInv, Clocks, FullTTL, NoTTL
  <2> QED
    BY <1>1, <2>2 DEF Clocks
<1>3. ASSUME NEW s \in Seconds
      PROVE  /\ Holders(s)' \subseteq Holders(s) /\ Holders(s) \subseteq Callers
             /\ Entitled(s)' \subseteq Entitled(s) /\ Entitled(s) \subseteq Callers
             /\ surplus[s] \in Nat
  <2>1. Holders(s) \subseteq Callers /\ Entitled(s) \subseteq Callers /\ surplus[s] \in Nat
    BY SetsOfCallers DEF IInv
  <2>2. Holders(s)' \subseteq Holders(s)
    <3>1. \A c \in Callers : Owing(c) => pc[c] \in Holding
      BY DEF Owing, Holding
    <3>2. \A c \in admitted'[s] : c \in Holders(s)
      BY DEF Holders, Owing, IInv, Types
    <3>3. \A c \in Callers : Owing(c)' /\ window'[c] = s => c \in Holders(s)
      BY <3>1 DEF Holders
    <3> QED
      BY <3>2, <3>3 DEF Holders
  <2>3. \A c \in Callers : pc[c] \in Holding => (Over(seen[c])' <=> Over(seen[c]))
    BY DEF Over
  <2>4. Entitled(s)' \subseteq Entitled(s)
    BY <2>3 DEF Entitled, Holding, IInv, Types
  <2> QED
    BY <2>1, <2>2, <2>4
<1>4. Counted'
  <2>1. ASSUME NEW s \in Seconds, Age(s) <= 3 PROVE Counts(s)'
    <3>1. Counts(s)
      BY <2>1 DEF IInv, Counted
    <3>2. CASE count[s] = Absent
      <4>1. \A c \in Callers : pc[c] \in Holding => window[c] # s
        BY <3>1, <3>2 DEF Counts
      <4>2. \A c \in Callers : pc'[c] \in Holding => window'[c] # s
        BY <4>1
      <4>3. admitted'[s] = {}
        <5>1. admitted[s] = {} /\ admitted'[s] \subseteq Callers
          BY <3>1, <3>2 DEF Counts, Types
        <5>2. \A c \in admitted'[s] : pc[c] \in Holding /\ window[c] = s
          BY <5>1 DEF Holding
        <5> QED
          BY <4>1, <5>1, <5>2
      <4> QED
        BY <3>2, <4>2, <4>3 DEF Counts
    <3>3. CASE count[s] # Absent
      <4>1. Cardinality(Holders(s)') <= Cardinality(Holders(s)) /\ Cardinality(Holders(s)') \in Nat
            /\ Cardinality(Holders(s)) \in Nat
        BY <1>3, Smaller
      <4>2. Cardinality(Holders(s)) <= count[s] + surplus[s] /\ count[s] \in Int
        BY <3>1, <3>3 DEF Counts, IInv, Types
      <4>3. Cardinality(Holders(s)') <= count[s] + surplus[s]
        BY <1>3, <4>1, <4>2
      <4> QED
        BY <3>3, <4>3 DEF Counts
    <3> QED
      BY <3>2, <3>3
  <2>2. ASSUME NEW c \in Callers
        PROVE  /\ pc'[c] = "expire" => seen'[c] = 1
               /\ pc'[c] = "decr" => Over(seen[c])'
               /\ pc'[c] \in Sending \/ sent'[c] = 0
    <3>1. pc'[c] \in {"expire", "decr"} => pc[c] \in Holding /\ seen'[c] = seen[c]
      BY DEF Holding
    <3> QED
      BY <3>1 DEF IInv, Counted, Over
  <2> QED
    BY <1>1, <2>1, <2>2 DEF Counted
<1>5. \A s \in Seconds : Due(s)' = Due(s) /\ (Full(s)' <=> Full(s))
  BY DEF Due, Full
<1>6. Denials'
  <2>1. ASSUME NEW s \in Seconds, count[s] # Absent PROVE Full(s)' \/ count[s] <= Due(s)'
    BY <1>5, <2>1 DEF IInv, Denials
  <2>2. ASSUME NEW c \in Callers, pc'[c] \in Holding, Over(seen[c])' PROVE Full(window[c])'
    <3>1. Full(window[c]) /\ window'[c] = window[c] /\ window[c] \in Seconds
      BY <2>2 DEF IInv, Denials, Over, Types
    <3> QED
      BY <1>5, <3>1 DEF Full, Due
  <2>3. ASSUME NEW s \in Seconds, NEW c \in granted[s]
        PROVE  pc'[c] = "done" \/ (pc'[c] \in {"expire", "decide"} /\ ~Over(seen[c])')
    <3>1. /\ pc[c] = "done" \/ (pc[c] \in {"expire", "decide"} /\ ~Over(seen[c]))
          /\ c \in Callers
      BY <2>3 DEF IInv, Denials, Types
    <3>2. seen'[c] = seen[c] /\ pc'[c] \in Holding \cup {"done"}
          /\ (pc[c] = "done" => pc'[c] = "done") /\ (pc'[c] = "decr" => Over(seen[c]))
      BY <3>1 DEF Holding
    <3> QED
      BY <3>1, <3>2 DEF Over, Holding
  <2> QED
    BY <2>1, <2>2, <2>3 DEF Denials
<1>7. Places'
  <2>1. ASSUME NEW s \in Seconds PROVE Cardinality(Entitled(s)') <= Limit + surplus[s]
    <3>1. /\ Cardinality(Entitled(s)') <= Cardinality(Entitled(s))
          /\ Cardinality(Entitled(s)') \in Nat /\ Cardinality(Entitled(s)) \in Nat
      BY <1>3, Smaller
    <3>2. Cardinality(Entitled(s)) <= Limit + surplus[s]
      BY DEF IInv, Places
    <3> QED
      BY <1>3, <3>1, <3>2, RateAssumption
  <2> QED
    BY <2>1 DEF Places
<1>8. Untimed'
  <2>1. ASSUME ~RedisFails, NEW s \in Seconds, count[s] # Absent, ttl'[s] = NoTTL
        PROVE  \E c \in Callers : window'[c] = s /\ Interrupted(c)'
    <3>1. ttl[s] = NoTTL
      BY <2>1 DEF FullTTL, NoTTL
    <3>2. PICK c \in Callers : window[c] = s /\ Interrupted(c)
      BY <2>1, <3>1 DEF IInv, Untimed
    <3>3. window'[c] = window[c]
      BY <3>2 DEF Interrupted, Holding
    <3> QED
      BY <2>1, <3>2, <3>3
  <2> QED
    BY <2>1 DEF Untimed
<1> QED
  BY <1>2, <1>4, <1>6, <1>7, <1>8 DEF IInv

-----------------------------------------------------------------------------
(* A step of caller c leaves what the others have sent, and owe, alone.    *)
LEMMA OthersRest ==
  ASSUME IInv, NEW c \in Callers,
         \A d \in Callers : d # c => pc'[d] = pc[d] /\ sent'[d] = sent[d],
         Owing(c)' => Owing(c), pc'[c] \in Sending \/ sent'[c] = 0
  PROVE  /\ \A d \in Callers : Owing(d)' => Owing(d)
         /\ \A d \in Callers : pc'[d] \in Sending \/ sent'[d] = 0
<1>1. ASSUME NEW d \in Callers, d # c PROVE (Owing(d)' => Owing(d)) /\ (pc'[d] \in Sending \/ sent'[d] = 0)
  BY <1>1 DEF Owing, IInv, Counted
<1> QED
  BY <1>1

LEMMA EnterStep == ASSUME IInv, NEW c \in Callers, Enter(c) PROVE IInv'
<1>1. /\ pc[c] = "idle" /\ \E l \in {"loop", "done"} : pc' = [pc EXCEPT ![c] = l]
      /\ outcome' = outcome \/ \E o \in {"local", "cancelled"} : outcome' = [outcome EXCEPT ![c] = o]
      /\ UNCHANGED <<half, count, ttl, window, seen, sent, lost, cancelled,
                     granted, admitted, unheard, surplus>>
  BY DEF Enter, Goto, Return, redis, history
<1>2. PICK l \in {"loop", "done"} : pc' = [pc EXCEPT ![c] = l]
  BY <1>1
<1>3. Types'
  BY <1>1, <1>2 DEF IInv, Types
<1>4. \A d \in Callers : d # c => pc'[d] = pc[d] /\ outcome'[d] = outcome[d]
  BY <1>1, <1>2 DEF IInv, Types
<1>5. pc'[c] \in {"loop", "done"}
  BY <1>2 DEF IInv, Types
<1>6. \A s \in Seconds : \A d \in admitted[s] : pc[d] = "done" /\ pc'[d] = "done"
  BY <1>1, <1>4, <1>5 DEF IInv, Counted, Types
<1>7. \A d \in Callers : pc'[d] \in InLoop => Age(window'[d]) <= 3
  BY <1>1, <1>4, <1>5 DEF IInv, Clocks, InLoop
<1>8. \A d \in Callers : Interrupted(d) => Interrupted(d)'
  BY <1>1, <1>4 DEF Interrupted
<1>9. /\ \A d \in Callers : Owing(d)' => Owing(d)
      /\ \A d \in Callers : pc'[d] \in Sending \/ sent'[d] = 0
  <2>1. ~Owing(c)' /\ sent'[c] = 0
    BY <1>1, <1>5 DEF Owing, IInv, Counted, Sending
  <2> QED
    BY <1>1, <1>4, <2>1, OthersRest
<1> QED
  BY <1>1, <1>3, <1>4, <1>5, <1>6, <1>7, <1>8, <1>9, Quiet DEF Holding, IInv, Counted, Over

LEMMA ReadClockStep == ASSUME IInv, NEW c \in Callers, ReadClock(c) PROVE IInv'
<1>1. /\ pc[c] = "loop"
      /\ UNCHANGED <<half, count, ttl, seen, sent, lost, cancelled,
                     granted, admitted, unheard, surplus>>
      /\ \/ window' = window /\ pc' = [pc EXCEPT ![c] = "done"]
         \/ window' = [window EXCEPT ![c] = Second] /\ pc' = [pc EXCEPT ![c] = "incr"]
      /\ outcome' = outcome \/ outcome' = [outcome EXCEPT ![c] = "cancelled"]
  BY DEF ReadClock, Goto, Return, redis, history
<1>2. Second \in Seconds /\ Age(Second) <= 3
  <2>1. half \in 0 .. 2 * Cycle - 1 /\ half \div 2 \in Seconds
    BY AgeOf, RateAssumption DEF IInv, Types, Seconds
  <2>2. Age(Second) = half - 2 * (half \div 2)
    BY <2>1, AgeOf DEF Age, Second
  <2> QED
    BY <2>1, <2>2 DEF Second
<1>3. Types'
  BY <1>1, <1>2 DEF IInv, Types, InLoop
<1>4. \A d \in Callers : d # c => pc'[d] = pc[d] /\ outcome'[d] = outcome[d] /\ window'[d] = window[d]
  BY <1>1 DEF IInv, Types
<1>5. pc'[c] = "done" \/ (pc'[c] = "incr" /\ window'[c] = Second)
  BY <1>1 DEF IInv, Types
<1>6. \A s \in Seconds : \A d \in admitted[s] : pc[d] = "done" /\ pc'[d] = "done"
  BY <1>1, <1>4 DEF IInv, Counted, Types
<1>7. \A d \in Callers : pc'[d] \in InLoop => Age(window'[d]) <= 3
  BY <1>2, <1>4, <1>5 DEF IInv, Clocks, InLoop
<1>8. \A d \in Callers : Interrupted(d) => Interrupted(d)'
  BY <1>1, <1>4 DEF Interrupted
<1>9. /\ \A d \in Callers : Owing(d)' => Owing(d)
      /\ \A d \in Callers : pc'[d] \in Sending \/ sent'[d] = 0
  <2>1. ~Owing(c)' /\ sent'[c] = 0
    BY <1>1, <1>5 DEF Owing, IInv, Counted, Sending
  <2> QED
    BY <1>1, <1>4, <2>1, OthersRest
<1> QED
  BY <1>1, <1>3, <1>4, <1>5, <1>6, <1>7, <1>8, <1>9, Quiet DEF Holding, IInv, Counted, Over

LEMMA LeaveStep ==
  ASSUME IInv, NEW c \in Callers, IncrFails(c) \/ Interrupt(c) \/ Crash(c) PROVE IInv'
<1>1. /\ pc[c] \in InLoop \cup {"sleep"} /\ pc' = [pc EXCEPT ![c] = "done"]
      /\ sent' = [sent EXCEPT ![c] = 0] \/ (pc[c] = "sleep" /\ sent' = sent)
      /\ \/ outcome' = [outcome EXCEPT ![c] = "crashed"]
         \/ /\ pc[c] \in {"incr", "sleep"}
            /\ \E o \in {"degraded", "cancelled"} : outcome' = [outcome EXCEPT ![c] = o]
      /\ UNCHANGED <<half, count, ttl, window, seen, lost, cancelled,
                     granted, admitted, unheard, surplus>>
  BY DEF IncrFails, Interrupt, Crash, Return, Goto, Settled, redis, history, InLoop
<1>2. MaxRetries \in Nat
  BY RateAssumption
<1>3. Types'
  BY <1>1, <1>2 DEF IInv, Types
<1>4. \A d \in Callers : d # c => pc'[d] = pc[d] /\ outcome'[d] = outcome[d] /\ sent'[d] = sent[d]
  BY <1>1 DEF IInv, Types
<1>5. pc'[c] = "done" /\ (outcome'[c] = "crashed" \/ pc[c] \in {"incr", "sleep"})
  BY <1>1 DEF IInv, Types
<1>6. \A s \in Seconds : \A d \in admitted[s] : pc[d] = "done" /\ pc'[d] = "done"
  BY <1>1, <1>4, <1>5 DEF IInv, Counted, Types
<1>7. \A d \in Callers : pc'[d] \in InLoop => Age(window'[d]) <= 3
  BY <1>1, <1>4, <1>5 DEF IInv, Clocks, InLoop
<1>8. \A d \in Callers : Interrupted(d) => Interrupted(d)'
  BY <1>1, <1>4, <1>5 DEF Interrupted, IInv, Counted, InLoop
<1>9. /\ \A d \in Callers : Owing(d)' => Owing(d)
      /\ \A d \in Callers : pc'[d] \in Sending \/ sent'[d] = 0
  <2>1. ~Owing(c)'
    BY <1>5 DEF Owing
  <2>2. sent'[c] = 0
    BY <1>1 DEF IInv, Counted, Types, Sending
  <2> QED
    BY <1>4, <2>1, <2>2, OthersRest
<1> QED
  BY <1>1, <1>3, <1>4, <1>5, <1>6, <1>7, <1>8, <1>9, Quiet DEF Holding, InLoop, IInv, Counted, Over

LEMMA ExpireStep ==
  ASSUME IInv, NEW c \in Callers, Expire(c) \/ ExpireUnheard(c) PROVE IInv'
<1>1. /\ pc[c] = "expire" /\ \E l \in {"expire", "decide"} : pc' = [pc EXCEPT ![c] = l]
      /\ \E k \in 0 .. MaxRetries : sent' = [sent EXCEPT ![c] = k]
      /\ UNCHANGED <<half, count, window, seen, cancelled, outcome,
                     granted, admitted, unheard, surplus>>
      /\ lost' \in 0 .. MaxLost
      /\ pc'[c] = "decide" => sent'[c] = 0
      /\ \/ ttl' = IF count[window[c]] = Absent THEN ttl ELSE [ttl EXCEPT ![window[c]] = FullTTL]
         \/ (RedisFails \/ c \in cancelled) /\ ttl' = ttl
  <2>1. sent[c] \in 0 .. MaxRetries /\ MaxRetries \in Nat /\ lost \in 0 .. MaxLost /\ MaxLost \in Nat
    BY RateAssumption DEF IInv, Types
  <2>2. pc \in [Callers -> {"idle", "loop", "sleep", "done"} \cup InLoop] /\ DOMAIN sent = Callers
    BY DEF IInv, Types
  <2>3. CASE Expire(c)
    <3>1. /\ pc' = [pc EXCEPT ![c] = "decide"] /\ sent' = [sent EXCEPT ![c] = 0] /\ lost' = lost
      BY <2>3 DEF Expire, Goto, Settled
    <3>2. sent'[c] = 0 /\ 0 \in 0 .. MaxRetries
      BY <2>1, <2>2, <3>1
    <3> QED
      BY <2>1, <2>3, <3>1, <3>2 DEF Expire, SetTTL, history
  <2>4. CASE ExpireUnheard(c)
    <3>1. /\ pc' = [pc EXCEPT ![c] = "expire"] /\ sent' = [sent EXCEPT ![c] = sent[c] + 1]
          /\ sent[c] < MaxRetries /\ lost < MaxLost /\ lost' = lost + 1
      BY <2>2, <2>4 DEF ExpireUnheard, Resend, Unheard
    <3>2. sent[c] + 1 \in 0 .. MaxRetries /\ lost' \in 0 .. MaxLost /\ pc'[c] = "expire"
      BY <2>1, <2>2, <3>1
    <3> QED
      BY <2>4, <3>1, <3>2 DEF ExpireUnheard, SetTTL, Resend, history
  <2> QED
    BY <2>3, <2>4
<1>2. FullTTL \in 0 .. FullTTL /\ FullTTL # NoTTL
  BY DEF FullTTL, NoTTL
<1>3. Types' /\ \A s \in Seconds : ttl'[s] = ttl[s] \/ ttl'[s] = FullTTL
  BY <1>1, <1>2 DEF IInv, Types, InLoop
<1>4. \A d \in Callers : d # c => pc'[d] = pc[d] /\ sent'[d] = sent[d]
  BY <1>1 DEF IInv, Types
<1>5. pc'[c] \in {"expire", "decide"} /\ seen[c] = 1
  BY <1>1 DEF IInv, Types, Counted
<1>6. \A s \in Seconds : \A d \in admitted[s] : pc[d] = "done" /\ pc'[d] = "done"
  BY <1>1, <1>4 DEF IInv, Counted, Types
<1>7. \A d \in Callers : pc'[d] \in InLoop => Age(window'[d]) <= 3
  BY <1>1, <1>4, <1>5 DEF IInv, Clocks, InLoop
<1>8. ASSUME NEW s \in Seconds, count[s] # Absent, ttl'[s] = NoTTL,
             NEW d \in Callers, window[d] = s, Interrupted(d)
      PROVE  Interrupted(d)' \/ RedisFails
  <2>1. CASE d # c
    BY <1>1, <1>4, <1>8, <2>1 DEF Interrupted
  <2>2. CASE d = c
    <3>1. RedisFails \/ c \in cancelled
      BY <1>1, <1>2, <1>8, <2>2 DEF IInv, Types
    <3> QED
      BY <1>1, <1>5, <2>2, <3>1 DEF Interrupted
  <2> QED
    BY <2>1, <2>2
<1>9. /\ \A d \in Callers : Owing(d)' => Owing(d)
      /\ \A d \in Callers : pc'[d] \in Sending \/ sent'[d] = 0
  <2>1. Owing(c) /\ (pc'[c] \in Sending \/ sent'[c] = 0)
    BY <1>1, <1>5 DEF Owing, Sending
  <2> QED
    BY <1>4, <2>1, OthersRest
<1> QED
  BY <1>1, <1>3, <1>4, <1>5, <1>6, <1>7, <1>8, <1>9, Quiet DEF Holding, IInv, Counted, Over

LEMMA DecideStep == ASSUME IInv, NEW c \in Callers, Decide(c) PROVE IInv'
<1>1. /\ pc[c] = "decide"
      /\ UNCHANGED <<half, count, ttl, window, seen, sent, lost, cancelled,
                     granted, unheard, surplus>>
      /\ \/ /\ ~Over(seen[c]) /\ pc' = [pc EXCEPT ![c] = "done"]
            /\ outcome' = [outcome EXCEPT ![c] = "allowed"]
            /\ admitted' = [admitted EXCEPT ![window[c]] = @ \cup {c}]
         \/ /\ Over(seen[c]) /\ pc' = [pc EXCEPT ![c] = "decr"]
            /\ outcome' = outcome /\ admitted' = admitted
  BY DEF Decide, Goto, Return, redis
<1>2. window[c] \in Seconds
  BY DEF IInv, Types
<1>3. Types'
  BY <1>1, <1>2 DEF IInv, Types, InLoop
<1>4. \A d \in Callers : d # c => pc'[d] = pc[d] /\ outcome'[d] = outcome[d]
  BY <1>1 DEF IInv, Types
<1>5. (~Over(seen[c]) /\ pc'[c] = "done") \/ (Over(seen[c]) /\ pc'[c] = "decr" /\ outcome'[c] = outcome[c])
  BY <1>1 DEF IInv, Types
<1>6. ASSUME NEW s \in Seconds, NEW d \in admitted'[s]
      PROVE  pc'[d] = "done" /\ (d \in admitted[s] \/ (d = c /\ window[c] = s /\ ~Over(seen[c])))
  <2>1. CASE d \in admitted[s]
    BY <1>1, <1>4, <2>1 DEF IInv, Counted, Types
  <2>2. CASE d \notin admitted[s]
    BY <1>1, <1>2, <2>2 DEF IInv, Types
  <2> QED
    BY <2>1, <2>2
<1>7. \A d \in Callers : pc'[d] \in InLoop => Age(window'[d]) <= 3
  BY <1>1, <1>4, <1>5 DEF IInv, Clocks, InLoop
<1>8. ASSUME NEW d \in Callers, Interrupted(d) PROVE Interrupted(d)'
  <2>1. CASE d # c
    BY <1>1, <1>4, <1>8, <2>1 DEF Interrupted
  <2>2. CASE d = c
    <3>1. seen[c] = 1 /\ c \in cancelled
      BY <1>1, <1>8, <2>2 DEF Interrupted
    <3>2. pc'[c] = "done"
      BY <1>5, <3>1, RateAssumption DEF Over
    <3> QED
      BY <1>1, <2>2, <3>1, <3>2 DEF Interrupted
  <2> QED
    BY <2>1, <2>2
<1>9. /\ \A d \in Callers : Owing(d)' => Owing(d)
      /\ \A d \in Callers : pc'[d] \in Sending \/ sent'[d] = 0
  <2>1. Owing(c) /\ sent'[c] = 0
    BY <1>1 DEF Owing, IInv, Counted, Sending
  <2> QED
    BY <1>1, <1>4, <2>1, OthersRest
<1> QED
  BY <1>1, <1>3, <1>4, <1>5, <1>6, <1>7, <1>8, <1>9, Quiet DEF Holding, IInv, Counted, Over

LEMMA CancelStep == ASSUME IInv, NEW c \in Callers, Cancel(c) PROVE IInv'
<1>1. /\ cancelled' = cancelled \cup {c}
      /\ UNCHANGED <<half, count, ttl, pc, window, seen, sent, lost, outcome,
                     granted, admitted, unheard, surplus>>
  BY DEF Cancel, redis, history
<1>3. Types'
  BY <1>1 DEF IInv, Types
<1>6. \A s \in Seconds : \A d \in admitted[s] : pc[d] = "done"
  BY DEF IInv, Counted
<1>7. \A d \in Callers : pc'[d] \in InLoop => Age(window'[d]) <= 3
  BY <1>1 DEF IInv, Clocks
<1>8. \A d \in Callers : Interrupted(d) => Interrupted(d)'
  BY <1>1 DEF Interrupted
<1>9. /\ \A d \in Callers : Owing(d)' => Owing(d)
      /\ \A d \in Callers : pc'[d] \in Sending \/ sent'[d] = 0
  BY <1>1 DEF Owing, IInv, Counted
<1> QED
  BY <1>1, <1>3, <1>6, <1>7, <1>8, <1>9, Quiet DEF Holding, IInv, Counted, Over

(* What an INCR does to the counter of second w, answered or not.          *)
LEMMA AfterIncr ==
  ASSUME IInv, NEW w \in Seconds, NEW n, n = CounterAfterIncr(w)
  PROVE  /\ n \in Int /\ n # Absent
         /\ count[w] = Absent => n = 1
         /\ count[w] # Absent => n = count[w] + 1 /\ count[w] \in Int
  BY RateAssumption DEF CounterAfterIncr, IInv, Types

LEMMA IncrStep == ASSUME IInv, NEW c \in Callers, Incr(c) PROVE IInv'
<1>0. PICK w \in Seconds : w = window[c]
  BY DEF IInv, Types
<1> DEFINE n == CounterAfterIncr(w)
<1>1. /\ pc[c] = "incr"
      /\ count' = [count EXCEPT ![w] = n] /\ seen' = [seen EXCEPT ![c] = n]
      /\ granted' = IF Over(n) THEN granted ELSE [granted EXCEPT ![w] = @ \cup {c}]
      /\ pc' = [pc EXCEPT ![c] = IF n = 1 THEN "expire" ELSE "decide"]
      /\ sent' = [sent EXCEPT ![c] = 0]
      /\ UNCHANGED <<half, ttl, window, lost, cancelled, outcome, admitted, unheard, surplus>>
  BY <1>0 DEF Incr, Goto, Settled
<1>2. w \in Seconds
  OBVIOUS
<1>3. n \in Int /\ (count[w] = Absent => n = 1) /\ (count[w] # Absent => n = count[w] + 1 /\ count[w] \in Int)
  BY <1>2, AfterIncr
<1>30. Over(n) <=> n > Limit
  BY DEF Over
<1> HIDE DEF n
<1>31. 0 \in 0 .. MaxRetries
  BY RateAssumption
<1>4. Types'
  <2>1. granted' \in [Seconds -> SUBSET Callers]
    BY <1>1, <1>2 DEF IInv, Types
  <2>2. pc' \in [Callers -> {"idle", "loop", "sleep", "done"} \cup InLoop]
    BY <1>1 DEF IInv, Types, InLoop
  <2>3. sent' \in [Callers -> 0 .. MaxRetries]
    BY <1>1, <1>31 DEF IInv, Types
  <2>4. count' \in [Seconds -> Int \cup {Absent}] /\ seen' \in [Callers -> Int]
    BY <1>1, <1>3 DEF IInv, Types
  <2> QED
    BY <1>1, <2>1, <2>2, <2>3, <2>4 DEF IInv, Types
<1>5. \A d \in Callers : d # c => pc'[d] = pc[d] /\ seen'[d] = seen[d] /\ sent'[d] = sent[d]
  BY <1>1 DEF IInv, Types
<1>6. pc'[c] = (IF n = 1 THEN "expire" ELSE "decide") /\ seen'[c] = n /\ sent'[c] = 0
  BY <1>1, <1>3 DEF IInv, Types
<1>7. \A s : Age(s)' = Age(s)
  BY <1>1 DEF Age
<1>8. Age(w) <= 3 /\ Counts(w)
  BY <1>0, <1>1, <1>2 DEF IInv, Clocks, Counted, InLoop
<1>9. \A s \in Seconds : c \notin admitted[s] /\ c \notin granted[s]
  BY <1>1 DEF IInv, Counted, Denials
<1>10. \A s \in Seconds : /\ s # w => count'[s] = count[s] /\ granted'[s] = granted[s]
                          /\ s = w => count'[s] = n
                          /\ s = w /\ n > Limit => granted'[s] = granted[s]
                          /\ s = w /\ n <= Limit => granted'[s] = granted[s] \cup {c}
  <2>1. \A s \in Seconds : /\ s # w => count'[s] = count[s]
                           /\ s = w => count'[s] = n
    BY <1>1, <1>2 DEF IInv, Types
  <2>2. n > Limit => granted' = granted
    BY <1>1, <1>30
  <2>3. n <= Limit => granted' = [granted EXCEPT ![w] = @ \cup {c}]
    BY <1>1, <1>3, <1>30, RateAssumption
  <2>4. Limit \in Int /\ granted \in [Seconds -> SUBSET Callers]
    BY RateAssumption DEF IInv, Types
  <2> QED
    BY <1>3, <2>1, <2>2, <2>3, <2>4
<1>11. Absent \notin Int /\ Limit \in Nat \ {0}
  BY RateAssumption
<1>101. \A s \in Seconds : surplus[s] \in Nat /\ unheard[s] \in Nat
                           /\ Cardinality(granted[s]) \in Nat /\ IsFiniteSet(granted[s])
  <2>1. \A s \in Seconds : granted[s] \in SUBSET Callers
    BY DEF IInv, Types
  <2> QED
    BY <2>1, Smaller, SetsOfCallers DEF IInv
<1>12. Holders(w)' = Holders(w) \cup {c} /\ c \notin Holders(w) /\ Holders(w) \subseteq Callers
  <2>1. Holders(w) \subseteq Callers
    BY <1>2, SetsOfCallers DEF IInv
  <2>2. c \notin Holders(w)
    BY <1>1, <1>2, <1>9 DEF Holders, Owing
  <2>3. Holders(w)' = Holders(w) \cup {c}
    BY <1>0, <1>1, <1>2, <1>5, <1>6 DEF Holders, Owing
  <2> QED
    BY <2>1, <2>2, <2>3
<1>13. Cardinality(Holders(w)') <= n + surplus[w] /\ Cardinality(Holders(w)') \in Nat
  <2>1. IsFiniteSet(Holders(w)) /\ Cardinality(Holders(w)) \in Nat
    BY <1>12, Smaller
  <2>2. Cardinality(Holders(w)') = Cardinality(Holders(w)) + 1
    BY <1>12, <2>1, FS_AddElement
  <2>3. CASE count[w] = Absent
    <3>1. Holders(w) = {} /\ n = 1
      BY <1>3, <1>8, <2>3 DEF Counts, Holders, Owing, Holding
    <3>2. Cardinality(Holders(w)) = 0
      BY <3>1, FS_EmptySet
    <3> QED
      BY <1>101, <2>2, <3>1, <3>2
  <2>4. CASE count[w] # Absent
    <3>1. Cardinality(Holders(w)) <= count[w] + surplus[w] /\ count[w] \in Int /\ n = count[w] + 1
      BY <1>3, <1>8, <2>4 DEF Counts
    <3> QED
      BY <1>101, <2>1, <2>2, <3>1
  <2> QED
    BY <2>3, <2>4
<1>14. ASSUME NEW s \in Seconds, s # w
       PROVE  Holders(s)' = Holders(s) /\ Entitled(s)' = Entitled(s)
  <2>1. \A d \in Callers : window[d] = s => d # c
    BY <1>0, <1>14
  <2>2. Holders(s)' = Holders(s)
    BY <1>1, <1>5, <2>1 DEF Holders, Owing
  <2>3. \A d \in Callers : d # c => (Over(seen[d])' <=> Over(seen[d]))
    BY <1>5 DEF Over
  <2>4. Entitled(s)' = Entitled(s)
    BY <1>1, <1>5, <2>1, <2>3 DEF Entitled
  <2> QED
    BY <2>2, <2>4
<1>15. Clocks'
  BY <1>1, <1>5, <1>6, <1>7, <1>8 DEF IInv, Clocks, InLoop
<1>16. Counted'
  <2>1. ASSUME NEW s \in Seconds, Age(s) <= 3 PROVE Counts(s)'
    <3>1. CASE s = w
      BY <1>1, <1>3, <1>10, <1>11, <1>13, <3>1 DEF Counts
    <3>2. CASE s # w
      <4>1. Counts(s) /\ count'[s] = count[s] /\ Holders(s)' = Holders(s) /\ surplus'[s] = surplus[s]
        BY <1>1, <1>10, <1>14, <2>1, <3>2 DEF IInv, Counted
      <4>2. CASE count[s] = Absent
        <5>1. admitted[s] = {} /\ \A d \in Callers : pc[d] \in Holding => window[d] # s
          BY <4>1, <4>2 DEF Counts
        <5>2. \A d \in Callers : pc'[d] \in Holding => window'[d] # s
          BY <1>0, <1>1, <1>5, <3>2, <5>1
        <5> QED
          BY <1>1, <4>1, <4>2, <5>1, <5>2 DEF Counts
      <4>3. CASE count[s] # Absent
        BY <4>1, <4>3 DEF Counts
      <4> QED
        BY <4>2, <4>3
    <3> QED
      BY <3>1, <3>2
  <2>2. \A s \in Seconds : \A d \in admitted'[s] : pc'[d] = "done"
    BY <1>1, <1>5, <1>9 DEF IInv, Counted, Types
  <2>3. ASSUME NEW d \in Callers
        PROVE  /\ pc'[d] = "expire" => seen'[d] = 1
               /\ pc'[d] = "decr" => Over(seen[d])'
               /\ pc'[d] \in Sending \/ sent'[d] = 0
    <3>1. CASE d = c
      BY <1>6, <3>1
    <3>2. CASE d # c
      BY <1>5, <3>2 DEF IInv, Counted, Over
    <3> QED
      BY <3>1, <3>2
  <2> QED
    BY <1>7, <2>1, <2>2, <2>3 DEF Counted
<1>18. /\ Cardinality(granted[w]) \in Nat /\ Cardinality(granted'[w]) \in Nat
       /\ Cardinality(granted[w]) <= Cardinality(granted'[w])
       /\ n <= Limit => Cardinality(granted'[w]) = Cardinality(granted[w]) + 1
  <2>1. ASSUME n <= Limit PROVE Cardinality(granted'[w]) = Cardinality(granted[w]) + 1
    <3>1. granted'[w] = granted[w] \cup {c} /\ c \notin granted[w] /\ IsFiniteSet(granted[w])
      BY <1>9, <1>10, <1>101, <2>1
    <3> QED
      BY <3>1, FS_AddElement
  <2>2. ASSUME n > Limit PROVE granted'[w] = granted[w]
    BY <1>10, <2>2
  <2> QED
    BY <1>3, <1>11, <1>101, <2>1, <2>2
<1>181. ASSUME NEW s \in Seconds PROVE Due(s) <= Due(s)' /\ Due(s) \in Nat /\ Due(s)' \in Nat
  <2>1. CASE s = w
    BY <1>1, <1>18, <1>101, <2>1 DEF Due
  <2>2. CASE s # w
    BY <1>1, <1>10, <1>101, <2>2 DEF Due
  <2> QED
    BY <2>1, <2>2
<1>182. n <= Limit => Due(w)' = Due(w) + 1
  BY <1>1, <1>18, <1>101 DEF Due
<1>19. Full(w)' \/ n <= Due(w)'
  <2>1. CASE count[w] = Absent
    <3>1. n = 1 /\ n <= Limit
      BY <1>3, <1>11, <2>1
    <3> QED
      BY <1>181, <1>182, <3>1
  <2>2. CASE count[w] # Absent
    <3>1. Full(w) \/ count[w] <= Due(w)
      BY <1>2, <2>2 DEF IInv, Denials
    <3>2. n = count[w] + 1 /\ count[w] \in Int
      BY <1>3, <2>2
    <3>3. CASE Full(w)
      BY <1>11, <1>181, <3>3 DEF Full
    <3>4. CASE count[w] <= Due(w)
      BY <1>11, <1>181, <1>182, <3>2, <3>4 DEF Full
    <3> QED
      BY <3>1, <3>3, <3>4
  <2> QED
    BY <2>1, <2>2
<1>20. n > Limit => Full(w)'
  <2>1. ASSUME n > Limit PROVE Full(w)'
    <3>1. CASE Full(w)'
      BY <3>1
    <3>2. CASE n <= Due(w)'
      BY <1>3, <1>11, <1>181, <2>1, <3>2 DEF Full
    <3> QED
      BY <1>19, <3>1, <3>2
  <2> QED
    BY <2>1
<1>21. Denials'
  <2>1. ASSUME NEW s \in Seconds, count'[s] # Absent PROVE Full(s)' \/ count'[s] <= Due(s)'
    <3>1. CASE s = w
      BY <1>10, <1>19, <3>1
    <3>2. CASE s # w
      <4>1. Due(s)' = Due(s) /\ count'[s] = count[s]
        BY <1>1, <1>10, <3>2 DEF Due
      <4> QED
        BY <2>1, <4>1 DEF Full, IInv, Denials
    <3> QED
      BY <3>1, <3>2
  <2>2. ASSUME NEW d \in Callers, pc'[d] \in Holding, Over(seen[d])' PROVE Full(window[d])'
    <3>1. CASE d = c
      <4>1. n > Limit
        BY <1>6, <2>2, <3>1 DEF Over
      <4> QED
        BY <1>0, <1>1, <1>20, <3>1, <4>1
    <3>2. CASE d # c
      <4>1. Full(window[d]) /\ window[d] \in Seconds /\ window'[d] = window[d]
        BY <1>1, <1>5, <2>2, <3>2 DEF IInv, Denials, Over, Types
      <4>2. PICK s \in Seconds : s = window[d]
        BY <4>1
      <4>3. Full(s)'
        BY <1>11, <1>181, <4>1, <4>2 DEF Full
      <4> QED
        BY <4>1, <4>2, <4>3
    <3> QED
      BY <3>1, <3>2
  <2>3. ASSUME NEW s \in Seconds, NEW d \in granted'[s]
        PROVE  pc'[d] = "done" \/ (pc'[d] \in {"expire", "decide"} /\ ~Over(seen[d])')
    <3>1. CASE d = c
      <4>1. n <= Limit
        BY <1>3, <1>9, <1>10, <1>11, <2>3, <3>1
      <4> QED
        BY <1>3, <1>6, <1>11, <3>1, <4>1 DEF Over
    <3>2. CASE d # c
      <4>1. d \in granted[s] /\ d \in Callers
        BY <1>3, <1>10, <1>11, <2>3, <3>2 DEF IInv, Types
      <4> QED
        BY <1>5, <3>2, <4>1 DEF IInv, Denials, Over
    <3> QED
      BY <3>1, <3>2
  <2> QED
    BY <2>1, <2>2, <2>3 DEF Denials
<1>22. Places'
  <2>1. ASSUME NEW s \in Seconds PROVE Cardinality(Entitled(s)') <= Limit + surplus[s]
    <3>1. CASE s # w
      BY <1>14, <3>1 DEF IInv, Places
    <3>2. CASE s = w /\ n <= Limit
      <4>1. Entitled(w)' \subseteq Holders(w)'
        BY <1>1 DEF Entitled, Holders, Owing
      <4>2. Cardinality(Entitled(w)') <= Cardinality(Holders(w)') /\ Cardinality(Entitled(w)') \in Nat
        BY <1>12, <4>1, Smaller
      <4> QED
        BY <1>3, <1>11, <1>13, <1>101, <3>2, <4>2
    <3>3. CASE s = w /\ n > Limit
      <4>1. Over(seen[c])'
        BY <1>6, <3>3 DEF Over
      <4>2. \A d \in Callers : d # c => (Over(seen[d])' <=> Over(seen[d]))
        BY <1>5 DEF Over
      <4>3. Entitled(w)' = Entitled(w)
        BY <1>1, <1>2, <1>5, <1>9, <4>1, <4>2 DEF Entitled
      <4> QED
        BY <1>2, <3>3, <4>3 DEF IInv, Places
    <3> QED
      BY <1>3, <1>11, <3>1, <3>2, <3>3
  <2> QED
    BY <1>1, <2>1 DEF Places
<1>23. Untimed'
  <2>1. ASSUME ~RedisFails, NEW s \in Seconds, count'[s] # Absent, ttl'[s] = NoTTL
        PROVE  \E d \in Callers : window'[d] = s /\ Interrupted(d)'
    <3>1. CASE s = w /\ count[w] = Absent
      <4>1. pc'[c] = "expire" /\ window'[c] = s
        BY <1>0, <1>1, <1>3, <1>6, <3>1
      <4> QED
        BY <4>1 DEF Interrupted
    <3>2. CASE count[s] # Absent
      <4>1. ttl[s] = NoTTL
        BY <1>1, <2>1
      <4>2. PICK d \in Callers : window[d] = s /\ Interrupted(d)
        BY <2>1, <3>2, <4>1 DEF IInv, Untimed
      <4>3. d # c
        BY <1>1, <4>2 DEF Interrupted
      <4> QED
        BY <1>1, <1>5, <4>2, <4>3 DEF Interrupted
    <3> QED
      BY <1>10, <2>1, <3>1, <3>2
  <2> QED
    BY <2>1 DEF Untimed
<1> QED
  BY <1>4, <1>15, <1>16, <1>21, <1>22, <1>23 DEF IInv

LEMMA IncrUnheardStep == ASSUME IInv, NEW c \in Callers, IncrUnheard(c) PROVE IInv'
<1>0. PICK w \in Seconds : w = window[c]
  BY DEF IInv, Types
<1> DEFINE n == CounterAfterIncr(w)
<1>1. /\ pc[c] = "incr" /\ RedisFails /\ lost < MaxLost /\ lost' = lost + 1
      /\ count' = [count EXCEPT ![w] = n] /\ unheard' = [unheard EXCEPT ![w] = @ + 1]
      /\ \/ sent[c] < MaxRetries /\ sent' = [sent EXCEPT ![c] = @ + 1] /\ pc' = pc /\ outcome' = outcome
         \/ /\ sent' = [sent EXCEPT ![c] = 0] /\ pc' = [pc EXCEPT ![c] = "done"]
            /\ outcome' = [outcome EXCEPT ![c] = "degraded"]
      /\ UNCHANGED <<half, ttl, window, seen, cancelled, granted, admitted, surplus>>
  BY <1>0 DEF IncrUnheard, Unheard, Resend, Return, Goto, Settled
<1>2. n \in Int /\ n # Absent /\ (count[w] = Absent => n = 1)
      /\ (count[w] # Absent => n = count[w] + 1 /\ count[w] \in Int)
  BY AfterIncr
<1> HIDE DEF n
<1>3. MaxRetries \in Nat /\ MaxLost \in Nat /\ Limit \in Nat /\ Absent \notin Int
  BY RateAssumption
<1>4. Types'
  <2>1. sent' \in [Callers -> 0 .. MaxRetries]
    <3>1. sent[c] < MaxRetries => sent[c] + 1 \in 0 .. MaxRetries
      BY <1>3 DEF IInv, Types
    <3>2. 0 \in 0 .. MaxRetries
      BY <1>3
    <3> QED
      BY <1>1, <3>1, <3>2 DEF IInv, Types
  <2>2. count' \in [Seconds -> Int \cup {Absent}] /\ unheard' \in [Seconds -> Nat]
    BY <1>1, <1>2 DEF IInv, Types
  <2>3. /\ pc' \in [Callers -> {"idle", "loop", "sleep", "done"} \cup InLoop]
        /\ outcome' \in [Callers -> {"none", "allowed", "local", "degraded", "cancelled", "crashed"}]
    BY <1>1 DEF IInv, Types
  <2>4. lost' \in 0 .. MaxLost
    BY <1>1, <1>3 DEF IInv, Types
  <2> QED
    BY <1>1, <2>1, <2>2, <2>3, <2>4 DEF IInv, Types
<1>5. /\ \A d \in Callers : d # c => pc'[d] = pc[d] /\ sent'[d] = sent[d]
      /\ pc'[c] = "incr" \/ (pc'[c] = "done" /\ sent'[c] = 0)
  BY <1>1, <1>3 DEF IInv, Types
<1>6. \A s : Age(s)' = Age(s)
  BY <1>1 DEF Age
<1>7. Age(w) <= 3 /\ Counts(w)
  BY <1>0, <1>1 DEF IInv, Clocks, Counted, InLoop
<1>8. \A s \in Seconds : c \notin admitted[s] /\ c \notin granted[s]
  BY <1>1 DEF IInv, Counted, Denials
<1>9. \A s \in Seconds : /\ s # w => count'[s] = count[s] /\ unheard'[s] = unheard[s]
                         /\ s = w => count'[s] = n /\ unheard'[s] = unheard[s] + 1
                         /\ unheard[s] \in Nat /\ surplus[s] \in Nat
                         /\ Cardinality(granted[s]) \in Nat
  <2>1. \A s \in Seconds : unheard[s] \in Nat /\ surplus[s] \in Nat /\ Cardinality(granted[s]) \in Nat
    BY SetsOfCallers DEF IInv
  <2> QED
    BY <1>1, <2>1 DEF IInv, Types
<1>10. \A d \in Callers : Over(seen[d])' <=> Over(seen[d])
  BY <1>1 DEF Over
<1>11. ASSUME NEW s \in Seconds PROVE Holders(s)' = Holders(s) /\ Entitled(s)' = Entitled(s)
  <2>1. \A d \in Callers : Owing(d)' <=> Owing(d)
    BY <1>1, <1>5 DEF Owing
  <2>2. Holders(s)' = Holders(s)
    BY <1>1, <2>1 DEF Holders
  <2>3. Entitled(s)' = Entitled(s)
    BY <1>1, <1>5, <1>10 DEF Entitled
  <2> QED
    BY <2>2, <2>3
<1>12. \A d \in Callers : pc'[d] \in Holding => pc[d] \in Holding /\ d # c
  BY <1>1, <1>5 DEF Holding
<1>13. Clocks'
  BY <1>1, <1>5, <1>6, <1>7 DEF IInv, Clocks, InLoop
<1>14. Counted'
  <2>1. ASSUME NEW s \in Seconds, Age(s) <= 3 PROVE Counts(s)'
    <3>0. Counts(s)
      BY <2>1 DEF IInv, Counted
    <3>1. CASE count[s] = Absent
      <4>1. admitted[s] = {} /\ \A d \in Callers : pc[d] \in Holding => window[d] # s
        BY <3>0, <3>1 DEF Counts
      <4>2. CASE s # w
        BY <1>1, <1>9, <1>12, <3>1, <4>1, <4>2 DEF Counts
      <4>3. CASE s = w
        <5>1. Holders(s) = {}
          BY <4>1 DEF Holders, Owing, Holding
        <5>2. Cardinality(Holders(s)') = 0
          BY <1>11, <5>1, FS_EmptySet
        <5>3. count'[s] = 1 /\ surplus'[s] = surplus[s]
          BY <1>1, <1>2, <1>9, <3>1, <4>3
        <5> QED
          BY <1>2, <1>9, <3>1, <4>3, <5>2, <5>3 DEF Counts
      <4> QED
        BY <4>2, <4>3
    <3>2. CASE count[s] # Absent
      <4>1. Cardinality(Holders(s)) <= count[s] + surplus[s] /\ count[s] \in Int
        BY <3>0, <3>2 DEF Counts, IInv, Types
      <4>2. Cardinality(Holders(s)) \in Nat
        BY Smaller, SetsOfCallers DEF IInv
      <4>3. count'[s] # Absent /\ count'[s] \in Int /\ count'[s] >= count[s]
        BY <1>2, <1>9, <3>2, <4>1
      <4>4. Cardinality(Holders(s)') <= count'[s] + surplus'[s]
        BY <1>1, <1>9, <1>11, <4>1, <4>2, <4>3
      <4> QED
        BY <4>3, <4>4 DEF Counts
    <3> QED
      BY <3>1, <3>2
  <2>2. \A s \in Seconds : \A d \in admitted'[s] : pc'[d] = "done"
    BY <1>1, <1>5, <1>8 DEF IInv, Counted, Types
  <2>3. ASSUME NEW d \in Callers
        PROVE  /\ pc'[d] = "expire" => seen'[d] = 1
               /\ pc'[d] = "decr" => Over(seen[d])'
               /\ pc'[d] \in Sending \/ sent'[d] = 0
    BY <1>1, <1>5, <1>10 DEF IInv, Counted, Sending
  <2> QED
    BY <1>6, <2>1, <2>2, <2>3 DEF Counted
<1>15. \A s \in Seconds : /\ Due(s) \in Nat /\ Due(s)' \in Nat
                          /\ s # w => Due(s)' = Due(s)
                          /\ s = w => Due(s)' = Due(s) + 1
  BY <1>1, <1>9 DEF Due
<1>16. Denials'
  <2>1. ASSUME NEW s \in Seconds, count'[s] # Absent PROVE Full(s)' \/ count'[s] <= Due(s)'
    <3>1. CASE count[s] = Absent
      BY <1>2, <1>9, <1>15, <2>1, <3>1
    <3>2. CASE count[s] # Absent
      <4>1. Full(s) \/ count[s] <= Due(s)
        BY <3>2 DEF IInv, Denials
      <4>2. count[s] \in Int
        BY <3>2 DEF IInv, Types
      <4> QED
        BY <1>2, <1>3, <1>9, <1>15, <3>2, <4>1, <4>2 DEF Full
    <3> QED
      BY <3>1, <3>2
  <2>2. ASSUME NEW d \in Callers, pc'[d] \in Holding, Over(seen[d])' PROVE Full(window[d])'
    <3>1. Full(window[d]) /\ window[d] \in Seconds /\ window'[d] = window[d]
      BY <1>1, <1>10, <1>12, <2>2 DEF IInv, Denials, Types
    <3>2. PICK s \in Seconds : s = window[d]
      BY <3>1
    <3>3. Full(s)'
      BY <1>3, <1>15, <3>1, <3>2 DEF Full
    <3> QED
      BY <3>1, <3>2, <3>3
  <2>3. ASSUME NEW s \in Seconds, NEW d \in granted'[s]
        PROVE  pc'[d] = "done" \/ (pc'[d] \in {"expire", "decide"} /\ ~Over(seen[d])')
    BY <1>1, <1>5, <1>8, <1>10, <2>3 DEF IInv, Denials, Types
  <2> QED
    BY <2>1, <2>2, <2>3 DEF Denials
<1>17. Places'
  BY <1>1, <1>11 DEF IInv, Places
<1>18. Untimed'
  BY <1>1 DEF Untimed, RedisFails
<1> QED
  BY <1>4, <1>13, <1>14, <1>16, <1>17, <1>18 DEF IInv

(* DECR, once or once more, answered or not, or not at all.                *)
LEMMA DecrStep ==
  ASSUME IInv, NEW c \in Callers, Decr(c) \/ DecrUnheard(c) PROVE IInv'
<1>0. PICK w \in Seconds : w = window[c]
  BY DEF IInv, Types
<1>1. /\ pc[c] = "decr"
      /\ \/ /\ count' = [count EXCEPT ![w] = CounterAfterDecr(w)]
            /\ surplus' = [surplus EXCEPT ![w] = IF sent[c] = 0 THEN @ ELSE @ + 1]
         \/ count' = count /\ surplus' = surplus /\ pc'[c] # "decr"
      /\ \E l \in {"sleep", "loop", "decr"} : pc' = [pc EXCEPT ![c] = l]
      /\ \E k \in 0 .. MaxRetries : sent' = [sent EXCEPT ![c] = k]
      /\ sent'[c] = 0 <=> pc'[c] # "decr"
      /\ lost' \in 0 .. MaxLost
      /\ UNCHANGED <<half, ttl, window, seen, cancelled, outcome, granted, admitted, unheard>>
  <2>1. sent[c] \in 0 .. MaxRetries /\ MaxRetries \in Nat /\ lost \in 0 .. MaxLost /\ MaxLost \in Nat
    BY RateAssumption DEF IInv, Types
  <2>2. DOMAIN pc = Callers /\ DOMAIN sent = Callers
    BY DEF IInv, Types
  <2>3. pc = [d \in Callers |-> pc[d]]
    BY DEF IInv, Types
  <2>4. CASE Decr(c)
    <3>1. PICK l \in {"sleep", "loop"} : pc' = [pc EXCEPT ![c] = l]
      BY <2>4 DEF Decr, Goto
    <3>2. sent' = [sent EXCEPT ![c] = 0] /\ lost' = lost
      BY <2>4 DEF Decr, Settled
    <3>3. pc'[c] = l /\ sent'[c] = 0 /\ 0 \in 0 .. MaxRetries
      BY <2>1, <2>2, <3>1, <3>2
    <3> QED
      BY <1>0, <2>1, <2>4, <3>1, <3>2, <3>3 DEF Decr, Undo
  <2>5. CASE DecrUnheard(c)
    <3>1. /\ sent' = [sent EXCEPT ![c] = sent[c] + 1] /\ pc' = pc
          /\ sent[c] < MaxRetries /\ lost < MaxLost /\ lost' = lost + 1
      BY <2>2, <2>5 DEF DecrUnheard, Resend, Unheard
    <3>2. /\ pc' = [pc EXCEPT ![c] = "decr"] /\ pc'[c] = "decr"
      BY <2>2, <2>3, <2>5, <3>1 DEF DecrUnheard
    <3>3. /\ sent'[c] = sent[c] + 1 /\ sent[c] + 1 \in 0 .. MaxRetries /\ sent[c] + 1 # 0
          /\ lost' \in 0 .. MaxLost
      BY <2>1, <2>2, <3>1
    <3> QED
      BY <1>0, <2>5, <3>1, <3>2, <3>3 DEF DecrUnheard, Undo, Resend
  <2> QED
    BY <2>4, <2>5
<1>2. w \in Seconds /\ Absent \notin Int /\ Limit \in Nat
  BY RateAssumption
<1>3. Age(w) <= 3 /\ Counts(w)
  BY <1>0, <1>1, <1>2 DEF IInv, Clocks, Counted, InLoop
<1>4. Holders(w) \subseteq Callers /\ (c \in Holders(w) <=> sent[c] = 0)
  <2>1. c \notin admitted[w]
    BY <1>1 DEF IInv, Counted
  <2>2. c \in Holders(w) <=> sent[c] = 0
    BY <1>0, <1>1, <2>1 DEF Holders, Owing
  <2> QED
    BY <1>2, <2>2, SetsOfCallers DEF IInv
<1>5. count[w] # Absent /\ count[w] \in Int /\ Cardinality(Holders(w)) <= count[w] + surplus[w]
  <2>1. count[w] # Absent
    BY <1>0, <1>1, <1>3 DEF Counts, Holding
  <2> QED
    BY <1>2, <1>3, <2>1 DEF Counts, IInv, Types
<1>50. \A s \in Seconds : surplus[s] \in Nat /\ Due(s) \in Nat /\ IsFiniteSet(Holders(s))
                          /\ Cardinality(Holders(s)) \in Nat
  BY SetsOfCallers, Smaller DEF IInv
<1>6. /\ \A s \in Seconds : s # w => count'[s] = count[s] /\ surplus'[s] = surplus[s]
      /\ \/ /\ count'[w] = count[w] - 1
            /\ surplus'[w] = IF sent[c] = 0 THEN surplus[w] ELSE surplus[w] + 1
         \/ count'[w] = count[w] /\ surplus'[w] = surplus[w] /\ pc'[c] # "decr"
  <2>1. CounterAfterDecr(w) = count[w] - 1
    BY <1>5 DEF CounterAfterDecr
  <2> QED
    BY <1>1, <1>2, <2>1 DEF IInv, Types
<1>7. count'[w] \in Int /\ surplus'[w] \in Nat /\ surplus'[w] >= surplus[w] /\ count'[w] <= count[w]
  BY <1>5, <1>6, <1>50
<1>8. count' \in [Seconds -> Int \cup {Absent}] /\ surplus' \in [Seconds -> Nat]
  <2>1. CounterAfterDecr(w) \in Int
    BY <1>5 DEF CounterAfterDecr
  <2>2. (IF sent[c] = 0 THEN surplus[w] ELSE surplus[w] + 1) \in Nat
    BY <1>50
  <2> QED
    BY <1>1, <1>2, <2>1, <2>2 DEF IInv, Types
<1>9. PICK l \in {"sleep", "loop", "decr"} : pc' = [pc EXCEPT ![c] = l]
  BY <1>1
<1>90. PICK k \in 0 .. MaxRetries : sent' = [sent EXCEPT ![c] = k]
  BY <1>1
<1>10. Types'
  <2>1. pc' \in [Callers -> {"idle", "loop", "sleep", "done"} \cup InLoop]
    BY <1>9 DEF IInv, Types, InLoop
  <2>2. sent' \in [Callers -> 0 .. MaxRetries]
    BY <1>90 DEF IInv, Types
  <2> QED
    BY <1>1, <1>8, <2>1, <2>2 DEF IInv, Types
<1>11. /\ pc'[c] \in {"sleep", "loop", "decr"} /\ sent'[c] = 0 <=> pc'[c] # "decr"
       /\ \A d \in Callers : d # c => pc'[d] = pc[d] /\ sent'[d] = sent[d]
  BY <1>1, <1>9, <1>90 DEF IInv, Types
<1>12. \A s : Age(s)' = Age(s)
  BY <1>1 DEF Age
<1>13. \A d \in Callers : Over(seen[d])' <=> Over(seen[d])
  BY <1>1 DEF Over
<1>14. \A s \in Seconds : c \notin admitted[s] /\ c \notin granted[s]
  BY <1>1 DEF IInv, Counted, Denials
<1>15. ASSUME NEW s \in Seconds
       PROVE  Holders(s)' = Holders(s) \ {c} /\ Entitled(s)' = Entitled(s)
  <2>1. Holders(s)' = Holders(s) \ {c}
    <3>1. ~Owing(c)'
      BY <1>11 DEF Owing
    <3>2. \A d \in Callers : d # c => (Owing(d)' <=> Owing(d))
      BY <1>11 DEF Owing
    <3> QED
      BY <1>1, <1>14, <3>1, <3>2 DEF Holders
  <2>2. Entitled(s)' = Entitled(s)
    BY <1>1, <1>11, <1>13 DEF Entitled
  <2> QED
    BY <2>1, <2>2
<1>16. Clocks'
  BY <1>1, <1>11, <1>12, <1>3, <1>0 DEF IInv, Clocks, InLoop
<1>17. Counted'
  <2>1. ASSUME NEW s \in Seconds, Age(s) <= 3 PROVE Counts(s)'
    <3>1. CASE s # w
      <4>1. c \notin Holders(s)
        BY <1>0, <1>14, <3>1 DEF Holders
      <4>2. Counts(s) /\ Holders(s)' = Holders(s) /\ count'[s] = count[s] /\ surplus'[s] = surplus[s]
        BY <1>6, <1>15, <2>1, <3>1, <4>1 DEF IInv, Counted
      <4>3. CASE count[s] = Absent
        <5>1. admitted[s] = {} /\ \A d \in Callers : pc[d] \in Holding => window[d] # s
          BY <4>2, <4>3 DEF Counts
        <5>2. \A d \in Callers : pc'[d] \in Holding => pc[d] \in Holding
          BY <1>1, <1>11 DEF Holding
        <5> QED
          BY <1>1, <4>2, <4>3, <5>1, <5>2 DEF Counts
      <4>4. CASE count[s] # Absent
        BY <4>2, <4>4 DEF Counts
      <4> QED
        BY <4>3, <4>4
    <3>2. CASE s = w
      <4>1. IsFiniteSet(Holders(w)) /\ Cardinality(Holders(w)) \in Nat
        BY <1>50
      <4>2. CASE sent[c] = 0
        <5>1. Cardinality(Holders(w)') = Cardinality(Holders(w)) - 1
          BY <1>2, <1>4, <1>15, <4>1, <4>2, FS_RemoveElement
        <5>2. Cardinality(Holders(w)') <= count'[w] + surplus'[w]
          BY <1>5, <1>6, <1>50, <4>1, <4>2, <5>1
        <5> QED
          BY <1>2, <1>7, <3>2, <5>2 DEF Counts
      <4>3. CASE sent[c] # 0
        <5>1. Holders(w)' = Holders(w)
          BY <1>4, <1>15, <4>3
        <5>2. Cardinality(Holders(w)') <= count'[w] + surplus'[w]
          BY <1>5, <1>6, <1>50, <4>1, <4>3, <5>1
        <5> QED
          BY <1>2, <1>7, <3>2, <5>2 DEF Counts
      <4> QED
        BY <4>2, <4>3
    <3> QED
      BY <3>1, <3>2
  <2>2. \A s \in Seconds : \A d \in admitted'[s] : pc'[d] = "done"
    BY <1>1, <1>11, <1>14 DEF IInv, Counted, Types
  <2>3. ASSUME NEW d \in Callers
        PROVE  /\ pc'[d] = "expire" => seen'[d] = 1
               /\ pc'[d] = "decr" => Over(seen[d])'
               /\ pc'[d] \in Sending \/ sent'[d] = 0
    BY <1>1, <1>11, <1>13 DEF IInv, Counted, Holding, Sending
  <2> QED
    BY <1>12, <2>1, <2>2, <2>3 DEF Counted
<1>18. Full(w)
  BY <1>0, <1>1 DEF IInv, Denials, Counted, Holding
<1>180. \A s : Due(s)' = Due(s) /\ (Full(s)' <=> Full(s))
  BY <1>1 DEF Due, Full
<1>19. Denials'
  <2>1. ASSUME NEW s \in Seconds, count'[s] # Absent PROVE Full(s)' \/ count'[s] <= Due(s)'
    <3>1. CASE s = w
      BY <1>18, <1>180, <3>1
    <3>2. CASE s # w
      BY <1>6, <1>180, <2>1, <3>2 DEF IInv, Denials
    <3> QED
      BY <3>1, <3>2
  <2>2. ASSUME NEW d \in Callers, pc'[d] \in Holding, Over(seen[d])' PROVE Full(window[d])'
    <3>1. Full(window[d]) /\ window'[d] = window[d]
      BY <1>1, <1>11, <1>13, <2>2 DEF IInv, Denials, Types, Holding
    <3> QED
      BY <1>1, <3>1 DEF Full, Due
  <2>3. ASSUME NEW s \in Seconds, NEW d \in granted'[s]
        PROVE  pc'[d] = "done" \/ (pc'[d] \in {"expire", "decide"} /\ ~Over(seen[d])')
    BY <1>1, <1>11, <1>13, <1>14, <2>3 DEF IInv, Denials, Types
  <2> QED
    BY <2>1, <2>2, <2>3 DEF Denials
<1>20. Places'
  <2>1. ASSUME NEW s \in Seconds PROVE Cardinality(Entitled(s)') <= Limit + surplus'[s]
    <3>1. Entitled(s)' = Entitled(s) /\ Entitled(s) \subseteq Callers
      BY <1>15, SetsOfCallers DEF IInv
    <3>2. Cardinality(Entitled(s)) \in Nat
      BY <3>1, Smaller
    <3>3. Cardinality(Entitled(s)) <= Limit + surplus[s]
      BY DEF IInv, Places
    <3>4. surplus'[s] >= surplus[s] /\ surplus'[s] \in Nat
      BY <1>6, <1>7, <1>50
    <3> QED
      BY <1>2, <1>50, <3>1, <3>2, <3>3, <3>4
  <2> QED
    BY <2>1 DEF Places
<1>21. Untimed'
  <2>1. ASSUME ~RedisFails, NEW s \in Seconds, count'[s] # Absent, ttl'[s] = NoTTL
        PROVE  \E d \in Callers : window'[d] = s /\ Interrupted(d)'
    <3>1. count[s] # Absent /\ ttl[s] = NoTTL
      BY <1>1, <1>5, <1>6, <2>1
    <3>2. PICK d \in Callers : window[d] = s /\ Interrupted(d)
      BY <2>1, <3>1 DEF IInv, Untimed
    <3>3. d # c
      BY <1>1, <3>2 DEF Interrupted
    <3> QED
      BY <1>1, <1>11, <3>2, <3>3 DEF Interrupted
  <2> QED
    BY <2>1 DEF Untimed
<1> QED
  BY <1>10, <1>16, <1>17, <1>19, <1>20, <1>21 DEF IInv

-----------------------------------------------------------------------------
(* Half a second later a second is new, or half a second older.            *)
LEMMA AgeAfter ==
  ASSUME NEW h \in 0 .. 2 * Cycle - 1, NEW s \in Seconds,
         NEW next, next = (h + 1) % (2 * Cycle)
  PROVE  /\ next \in 0 .. 2 * Cycle - 1
         /\ (next - 2 * s) % (2 * Cycle) =
              IF next % 2 = 0 /\ next \div 2 = s THEN 0 ELSE ((h - 2 * s) % (2 * Cycle)) + 1
         /\ next % 2 = 0 /\ next \div 2 = s => (h - 2 * s) % (2 * Cycle) = 2 * Cycle - 1
<1>1. Cycle \in Nat /\ Cycle > 2 /\ s \in 0 .. Cycle - 1 /\ s \in Int
  BY RateAssumption DEF Seconds
<1>2. next = IF h = 2 * Cycle - 1 THEN 0 ELSE h + 1
  <2>1. CASE h = 2 * Cycle - 1
    BY <1>1, <2>1
  <2>2. CASE h # 2 * Cycle - 1
    <3>1. h + 1 \in -(2 * Cycle) .. 2 * Cycle - 1 /\ 2 * Cycle \in Nat \ {0} /\ h + 1 >= 0
      BY <1>1, <2>2
    <3> QED
      BY <2>2, <3>1, Remainder
  <2> QED
    BY <2>1, <2>2
<1>3. next \in 0 .. 2 * Cycle - 1
  BY <1>1, <1>2
<1>4. (h - 2 * s) % (2 * Cycle) = IF h >= 2 * s THEN h - 2 * s ELSE h - 2 * s + 2 * Cycle
  BY AgeOf
<1>5. (next - 2 * s) % (2 * Cycle) = IF next >= 2 * s THEN next - 2 * s ELSE next - 2 * s + 2 * Cycle
  BY <1>3, AgeOf
<1>6. (next % 2 = 0 /\ next \div 2 = s) <=> next = 2 * s
  BY <1>1, <1>3
<1>7. CASE next = 2 * s
  BY <1>1, <1>2, <1>3, <1>4, <1>5, <1>6, <1>7
<1>8. CASE next # 2 * s
  BY <1>1, <1>2, <1>3, <1>4, <1>5, <1>6, <1>8
<1> QED
  BY <1>7, <1>8

LEMMA TickStep == ASSUME MaxStall <= 1, IInv, Tick PROVE IInv'
<1>0. PICK next : next = (half + 1) % (2 * Cycle)
  OBVIOUS
<1> DEFINE new == IF next % 2 = 0 THEN {next \div 2} ELSE {}
           gone == {s \in Seconds : ttl[s] = 1} \cup new
<1>1. /\ \A c \in Callers : pc[c] \in InLoop => (next \div 2 - window[c]) % Cycle <= MaxStall
      /\ half' = next
      /\ count' = [s \in Seconds |-> IF s \in gone THEN Absent ELSE count[s]]
      /\ ttl' = [s \in Seconds |-> IF s \in gone \/ ttl[s] = NoTTL THEN NoTTL ELSE ttl[s] - 1]
      /\ pc' = [c \in Callers |-> IF pc[c] = "sleep" /\ new # {} THEN "loop" ELSE pc[c]]
      /\ granted' = [s \in Seconds |-> IF s \in new THEN {} ELSE granted[s]]
      /\ admitted' = [s \in Seconds |-> IF s \in new THEN {} ELSE admitted[s]]
      /\ unheard' = [s \in Seconds |-> IF s \in new THEN 0 ELSE unheard[s]]
      /\ surplus' = [s \in Seconds |-> IF s \in new THEN 0 ELSE surplus[s]]
      /\ UNCHANGED <<window, seen, sent, lost, cancelled, outcome>>
  BY <1>0 DEF Tick
<1>2. half \in 0 .. 2 * Cycle - 1
  BY DEF IInv, Types
<1>3. next \in 0 .. 2 * Cycle - 1
  <2>1. 0 \in Seconds
    BY RateAssumption DEF Seconds
  <2> QED
    BY <1>0, <1>2, <2>1, AgeAfter
<1>4. ASSUME NEW s \in Seconds
      PROVE  /\ s \in new => Age(s)' = 0 /\ Age(s) = 2 * Cycle - 1
             /\ s \notin new => Age(s)' = Age(s) + 1
             /\ Age(s) \in Nat
  <2>1. /\ (next - 2 * s) % (2 * Cycle) = IF s \in new THEN 0 ELSE ((half - 2 * s) % (2 * Cycle)) + 1
        /\ s \in new => (half - 2 * s) % (2 * Cycle) = 2 * Cycle - 1
    BY <1>0, <1>2, AgeAfter
  <2>2. (half - 2 * s) % (2 * Cycle) \in Nat
    BY <1>2, AgeOf, RateAssumption DEF Seconds
  <2> QED
    BY <1>1, <2>1, <2>2 DEF Age
<1>5. \A s : s \in gone <=> s \in new \/ (s \in Seconds /\ ttl[s] = 1)
  OBVIOUS
<1>6. ASSUME NEW s \in Seconds
      PROVE  /\ s \in gone => count'[s] = Absent /\ ttl'[s] = NoTTL
             /\ s \notin gone => /\ count'[s] = count[s]
                                 /\ ttl[s] = NoTTL => ttl'[s] = NoTTL
                                 /\ ttl[s] # NoTTL => ttl'[s] = ttl[s] - 1
             /\ s \in new => admitted'[s] = {} /\ granted'[s] = {}
             /\ s \notin new => /\ admitted'[s] = admitted[s] /\ granted'[s] = granted[s]
                                /\ unheard'[s] = unheard[s] /\ surplus'[s] = surplus[s]
             /\ s \in new => surplus'[s] = 0
  BY <1>1
<1>7. /\ \A c \in Callers : pc[c] # "sleep" => pc'[c] = pc[c]
      /\ \A c \in Callers : pc[c] = "sleep" => pc'[c] \in {"sleep", "loop"}
  BY <1>1
<1> HIDE DEF new, gone
<1>8. Types'
  <2>1. half' \in 0 .. 2 * Cycle - 1
    BY <1>1, <1>3
  <2>2. count' \in [Seconds -> Int \cup {Absent}]
    BY <1>1 DEF IInv, Types
  <2>3. ttl' \in [Seconds -> 0 .. FullTTL]
    BY <1>1 DEF IInv, Types, FullTTL, NoTTL
  <2>4. pc' \in [Callers -> {"idle", "loop", "sleep", "done"} \cup InLoop]
    BY <1>1 DEF IInv, Types
  <2>5. admitted' \in [Seconds -> SUBSET Callers] /\ granted' \in [Seconds -> SUBSET Callers]
    BY <1>1 DEF IInv, Types
  <2>6. unheard' \in [Seconds -> Nat] /\ surplus' \in [Seconds -> Nat]
    BY <1>1 DEF IInv, Types
  <2> QED
    BY <1>1, <2>1, <2>2, <2>3, <2>4, <2>5, <2>6 DEF IInv, Types
<1>9. \A c \in Callers : pc'[c] \in InLoop => pc'[c] = pc[c]
  BY <1>7 DEF InLoop
<1>10. \A c \in Callers : /\ pc'[c] \in Holding => pc'[c] = pc[c]
                          /\ pc'[c] = pc[c] \/ pc[c] = "sleep"
  BY <1>7 DEF Holding
<1>11. \A c \in Callers : Over(seen[c])' <=> Over(seen[c])
  BY <1>1 DEF Over
<1>12. Cycle \in Nat /\ Cycle > 2
  BY RateAssumption
<1>13. ASSUME NEW c \in Callers, pc'[c] \in InLoop PROVE Age(window[c])' <= 3 /\ window[c] \notin new
  <2>1. window[c] \in Seconds /\ pc[c] \in InLoop
    BY <1>9, <1>13 DEF IInv, Types
  <2>2. window[c] \notin new
    BY <1>4, <1>12, <2>1 DEF IInv, Clocks
  <2>3. (next \div 2 - window[c]) % Cycle <= 1
    <3>1. (next \div 2 - window[c]) % Cycle <= MaxStall /\ (next \div 2 - window[c]) % Cycle \in Int
      BY <1>1, <1>3, <2>1, AgeOf, RateAssumption DEF Seconds
    <3> QED
      BY <3>1, CycleFacts
  <2>4. (next - 2 * window[c]) % (2 * Cycle) <= 3
    <3>1. window[c] \in Int /\ next \in Int
      BY <1>3, <2>1, RateAssumption DEF Seconds
    <3>2. CASE next >= 2 * window[c]
      BY <1>3, <2>1, <2>3, <3>1, <3>2, AgeOf
    <3>3. CASE next < 2 * window[c]
      <4>1. (next \div 2 - window[c]) + Cycle <= 1
        BY <1>3, <2>1, <2>3, <3>1, <3>3, AgeOf
      <4>2. next - 2 * window[c] + 2 * Cycle <= 3
        BY <1>12, <3>1, <4>1
      <4> QED
        BY <1>3, <2>1, <3>1, <3>3, <4>2, AgeOf
    <3> QED
      BY <3>1, <3>2, <3>3
  <2> QED
    BY <1>1, <2>2, <2>4 DEF Age
<1>14. ASSUME NEW s \in Seconds, ttl'[s] # NoTTL, Age(s)' <= 3 PROVE ttl'[s] + Age(s)' >= FullTTL
  <2>1. s \notin gone /\ ttl[s] # NoTTL /\ ttl'[s] = ttl[s] - 1 /\ ttl[s] \in Int
    BY <1>6, <1>14 DEF IInv, Types, FullTTL
  <2>2. Age(s)' = Age(s) + 1 /\ Age(s) \in Nat
    BY <1>4, <1>5, <2>1
  <2>3. ttl[s] + Age(s) >= FullTTL
    BY <1>14, <2>1, <2>2 DEF IInv, Clocks
  <2> QED
    BY <2>1, <2>2, <2>3 DEF FullTTL
<1>15. Clocks'
  BY <1>1, <1>13, <1>14 DEF Clocks
<1>16. ASSUME NEW s \in Seconds
       PROVE  /\ s \in new => Holders(s)' = {} /\ Entitled(s)' = {} /\ count'[s] = Absent
              /\ s \notin new => /\ Holders(s)' = Holders(s) /\ Entitled(s)' \subseteq Entitled(s)
                                 /\ Due(s)' = Due(s) /\ (Full(s)' <=> Full(s))
                                 /\ surplus'[s] = surplus[s]
  <2>1. \A c \in Callers : Owing(c)' <=> Owing(c)
    BY <1>1, <1>7 DEF Owing
  <2>2. \A c \in Callers : pc'[c] \in {"expire", "decide"} => pc'[c] = pc[c]
    BY <1>10 DEF Holding
  <2>3. ASSUME s \in new PROVE Holders(s)' = {} /\ Entitled(s)' = {} /\ count'[s] = Absent
    <3>1. \A c \in Callers : pc'[c] \in Holding => window'[c] # s
      BY <1>1, <1>13, <2>3 DEF Holding, InLoop
    <3>2. admitted'[s] = {} /\ count'[s] = Absent
      BY <1>5, <1>6, <2>3
    <3> QED
      BY <3>1, <3>2 DEF Holders, Entitled, Owing, Holding
  <2>4. ASSUME s \notin new PROVE Holders(s)' = Holders(s)
    <3>1. admitted'[s] = admitted[s]
      BY <1>6, <2>4
    <3> QED
      BY <1>1, <2>1, <3>1 DEF Holders
  <2>5. ASSUME s \notin new PROVE Entitled(s)' \subseteq Entitled(s)
    <3>1. admitted'[s] = admitted[s]
      BY <1>6, <2>5
    <3> QED
      BY <1>1, <1>11, <2>2, <3>1 DEF Entitled
  <2>6. ASSUME s \notin new
        PROVE  Due(s)' = Due(s) /\ (Full(s)' <=> Full(s)) /\ surplus'[s] = surplus[s]
    BY <1>6, <2>6 DEF Due, Full
  <2> QED
    BY <2>3, <2>4, <2>5, <2>6
<1>17. Counted'
  <2>1. ASSUME NEW s \in Seconds, Age(s)' <= 3 PROVE Counts(s)'
    <3>1. CASE s \in new
      <4>1. count'[s] = Absent /\ admitted'[s] = {} /\ window' = window
        BY <1>1, <1>6, <1>16, <3>1
      <4>2. \A c \in Callers : pc'[c] \in Holding => window'[c] # s
        BY <1>13, <3>1, <4>1 DEF Holding, InLoop
      <4> QED
        BY <4>1, <4>2 DEF Counts
    <3>2. CASE s \notin new
      <4>1. Age(s) <= 2
        BY <1>4, <2>1, <3>2
      <4>2. ttl[s] # 1
        BY <1>4, <4>1 DEF IInv, Clocks, FullTTL, NoTTL
      <4>3. count'[s] = count[s] /\ admitted'[s] = admitted[s] /\ window' = window
        BY <1>1, <1>5, <1>6, <3>2, <4>2
      <4>4. Counts(s)
        BY <1>4, <4>1 DEF IInv, Counted
      <4>5. CASE count[s] = Absent
        <5>1. admitted[s] = {} /\ \A c \in Callers : pc[c] \in Holding => window[c] # s
          BY <4>4, <4>5 DEF Counts
        <5>2. \A c \in Callers : pc'[c] \in Holding => window'[c] # s
          BY <1>10, <4>3, <5>1
        <5> QED
          BY <4>3, <4>5, <5>1, <5>2 DEF Counts
      <4>6. CASE count[s] # Absent
        <5>1. Cardinality(Holders(s)) <= count[s] + surplus[s]
          BY <4>4, <4>6 DEF Counts
        <5>2. Cardinality(Holders(s)') <= count'[s] + surplus'[s]
          BY <1>16, <3>2, <4>3, <5>1
        <5> QED
          BY <4>3, <4>6, <5>2 DEF Counts
      <4> QED
        BY <4>5, <4>6
    <3> QED
      BY <3>1, <3>2
  <2>2. ASSUME NEW s \in Seconds, NEW c \in admitted'[s] PROVE pc'[c] = "done"
    <3>1. c \in admitted[s] /\ c \in Callers
      BY <1>6 DEF IInv, Types
    <3> QED
      BY <1>7, <3>1 DEF IInv, Counted
  <2>3. ASSUME NEW c \in Callers
        PROVE  /\ pc'[c] = "expire" => seen'[c] = 1
               /\ pc'[c] = "decr" => Over(seen[c])'
               /\ pc'[c] \in Sending \/ sent'[c] = 0
    BY <1>1, <1>10, <1>11 DEF IInv, Counted, Holding, Sending
  <2> QED
    BY <2>1, <2>2, <2>3 DEF Counted
<1>18. Denials'
  <2>1. ASSUME NEW s \in Seconds, count'[s] # Absent PROVE Full(s)' \/ count'[s] <= Due(s)'
    <3>1. s \notin new /\ count'[s] = count[s] /\ count[s] # Absent
      BY <1>6, <1>16, <2>1
    <3>2. Full(s) \/ count[s] <= Due(s)
      BY <3>1 DEF IInv, Denials
    <3> QED
      BY <1>16, <3>1, <3>2
  <2>2. ASSUME NEW c \in Callers, pc'[c] \in Holding, Over(seen[c])' PROVE Full(window[c])'
    <3>1. Full(window[c]) /\ window[c] \in Seconds
      BY <1>10, <1>11, <2>2 DEF IInv, Denials, Types
    <3>2. window[c] \notin new
      BY <1>13, <2>2 DEF Holding, InLoop
    <3>3. Due(window[c])' = Due(window[c])
      <4>1. PICK w \in Seconds : w = window[c] /\ w = window'[c]
        BY <1>1, <3>1
      <4> QED
        BY <1>16, <3>2, <4>1 DEF Due
    <3> QED
      BY <3>1, <3>3 DEF Full
  <2>3. ASSUME NEW s \in Seconds, NEW c \in granted'[s]
        PROVE  pc'[c] = "done" \/ (pc'[c] \in {"expire", "decide"} /\ ~Over(seen[c])')
    <3>1. c \in granted[s] /\ c \in Callers
      BY <1>6 DEF IInv, Types
    <3>2. pc[c] = "done" \/ (pc[c] \in {"expire", "decide"} /\ ~Over(seen[c]))
      BY <3>1 DEF IInv, Denials
    <3> QED
      BY <1>7, <1>11, <3>1, <3>2
  <2> QED
    BY <2>1, <2>2, <2>3 DEF Denials
<1>19. Places'
  <2>1. ASSUME NEW s \in Seconds PROVE Cardinality(Entitled(s)') <= Limit + surplus'[s]
    <3>1. CASE s \in new
      <4>1. Entitled(s)' = {} /\ surplus'[s] = 0
        BY <1>6, <1>16, <3>1
      <4>2. Cardinality(Entitled(s)') = 0
        BY <4>1, FS_EmptySet
      <4> QED
        BY <4>1, <4>2, RateAssumption
    <3>2. CASE s \notin new
      <4>1. Entitled(s)' \subseteq Entitled(s) /\ Entitled(s) \subseteq Callers
            /\ surplus'[s] = surplus[s] /\ surplus[s] \in Nat
        BY <1>16, <3>2, SetsOfCallers DEF IInv
      <4>2. /\ Cardinality(Entitled(s)') <= Cardinality(Entitled(s))
            /\ Cardinality(Entitled(s)') \in Nat /\ Cardinality(Entitled(s)) \in Nat
        BY <4>1, Smaller
      <4>3. Cardinality(Entitled(s)) <= Limit + surplus[s]
        BY DEF IInv, Places
      <4> QED
        BY <4>1, <4>2, <4>3, RateAssumption
    <3> QED
      BY <3>1, <3>2
  <2> QED
    BY <2>1 DEF Places
<1>20. Untimed'
  <2>1. ASSUME ~RedisFails, NEW s \in Seconds, count'[s] # Absent, ttl'[s] = NoTTL
        PROVE  \E c \in Callers : window'[c] = s /\ Interrupted(c)'
    <3>1. s \notin gone /\ count[s] # Absent
      BY <1>6, <2>1
    <3>2. ttl[s] # 1 /\ ttl[s] \in 0 .. FullTTL
      BY <1>5, <3>1 DEF IInv, Types
    <3>3. ttl[s] = NoTTL
      BY <1>6, <2>1, <3>1, <3>2 DEF NoTTL, FullTTL
    <3>4. PICK c \in Callers : window[c] = s /\ Interrupted(c)
      BY <2>1, <3>1, <3>3 DEF IInv, Untimed
    <3> QED
      BY <1>1, <1>7, <3>4 DEF Interrupted
  <2> QED
    BY <2>1 DEF Untimed
<1> QED
  BY <1>8, <1>15, <1>17, <1>18, <1>19, <1>20 DEF IInv

-----------------------------------------------------------------------------
(* The invariant, when a turn of the loop takes at most a second.          *)
THEOREM LimiterInvariant == ASSUME MaxStall <= 1 PROVE Spec => []IInv
<1>1. Init => IInv
  BY InitialInvariant
<1>2. IInv /\ [Next]_vars => IInv'
  <2> SUFFICES ASSUME IInv, [Next]_vars PROVE IInv'
    OBVIOUS
  <2>1. CASE Tick
    BY <2>1, TickStep
  <2>2. ASSUME NEW c \in Callers, Enter(c) PROVE IInv'
    BY <2>2, EnterStep
  <2>3. ASSUME NEW c \in Callers, ReadClock(c) PROVE IInv'
    BY <2>3, ReadClockStep
  <2>4. ASSUME NEW c \in Callers, Incr(c) PROVE IInv'
    BY <2>4, IncrStep
  <2>5. ASSUME NEW c \in Callers, IncrFails(c) \/ Interrupt(c) \/ Crash(c) PROVE IInv'
    BY <2>5, LeaveStep
  <2>6. ASSUME NEW c \in Callers, Expire(c) \/ ExpireUnheard(c) PROVE IInv'
    BY <2>6, ExpireStep
  <2>7. ASSUME NEW c \in Callers, Decide(c) PROVE IInv'
    BY <2>7, DecideStep
  <2>8. ASSUME NEW c \in Callers, Decr(c) \/ DecrUnheard(c) PROVE IInv'
    BY <2>8, DecrStep
  <2>9. ASSUME NEW c \in Callers, Cancel(c) PROVE IInv'
    BY <2>9, CancelStep
  <2>10. ASSUME NEW c \in Callers, IncrUnheard(c) PROVE IInv'
    BY <2>10, IncrUnheardStep
  <2>11. CASE UNCHANGED vars
    <3>1. Types'
      BY <2>11 DEF vars, redis, history, IInv, Types
    <3>2. Clocks'
      BY <2>11 DEF vars, redis, IInv, Clocks, Age
    <3>3. Counted'
      BY <2>11 DEF vars, redis, history, IInv, Counted, Counts, Holders, Owing, Over, Age
    <3>4. Denials'
      BY <2>11 DEF vars, redis, history, IInv, Denials, Full, Due, Over
    <3>5. Places'
      BY <2>11 DEF vars, history, IInv, Places, Entitled, Over
    <3>6. Untimed'
      BY <2>11 DEF vars, redis, IInv, Untimed, Interrupted
    <3> QED
      BY <3>1, <3>2, <3>3, <3>4, <3>5, <3>6 DEF IInv
  <2> QED
    BY <2>1, <2>2, <2>3, <2>4, <2>5, <2>6, <2>7, <2>8, <2>9, <2>10, <2>11 DEF Next, Step
<1> QED
  BY <1>1, <1>2, PTL DEF Spec

(* However callers, failing commands, crashes and expiries interleave, one *)
(* second admits no more than Limit callers, and one more for each DECR    *)
(* that took effect again.                                                 *)
THEOREM LimitHolds == ASSUME MaxStall <= 1 PROVE Spec => []WindowLimit
<1>1. IInv => WindowLimit
  <2> SUFFICES ASSUME IInv, NEW s \in Seconds PROVE Cardinality(admitted[s]) <= Limit + surplus[s]
    BY DEF WindowLimit
  <2>1. Entitled(s) \subseteq Callers /\ surplus[s] \in Nat
    BY SetsOfCallers DEF IInv
  <2>2. admitted[s] \subseteq Entitled(s)
    BY DEF Entitled
  <2>3. /\ Cardinality(admitted[s]) <= Cardinality(Entitled(s))
        /\ Cardinality(admitted[s]) \in Nat /\ Cardinality(Entitled(s)) \in Nat
    BY <2>1, <2>2, Smaller
  <2> QED
    BY <2>1, <2>3, RateAssumption DEF IInv, Places
<1> QED
  BY <1>1, LimiterInvariant, PTL

(* A caller is turned away only when Limit increments of its second        *)
(* granted a place or were never answered.                                 *)
THEOREM DenialsAreDue == ASSUME MaxStall <= 1 PROVE Spec => []NoSpuriousDenial
<1>1. IInv => NoSpuriousDenial
  BY DEF IInv, Denials, Counted, Full, Due, Holding, NoSpuriousDenial
<1> QED
  BY <1>1, LimiterInvariant, PTL

(* As long as Redis answers every EXPIRE, only a caller that was cancelled *)
(* or died leaves a counter without a TTL.                                 *)
THEOREM TTLsAreSet ==
  ASSUME MaxStall <= 1, ~RedisFails PROVE Spec => []TTLOnlyLostByInterruption
<1>1. IInv => TTLOnlyLostByInterruption
  BY DEF IInv, Untimed, Interrupted, TTLOnlyLostByInterruption
<1> QED
  BY <1>1, LimiterInvariant, PTL

-----------------------------------------------------------------------------
(* How far a counter strays: the sendings of a command that may still      *)
(* increment the counter of second s in the life it has now, and those     *)
(* that may still undo an increment.  A caller sends either command once,  *)
(* and again at most MaxRetries times, for it leaves the loop, sleeps      *)
(* until the next second, or starts a turn in a later one.                 *)
Attempts == Callers \X (0 .. MaxRetries)
Ahead(c, s) ==
  s = Second /\ (pc[c] \in {"idle", "loop"} \/ (pc[c] \in InLoop /\ window[c] # s))
CanCount(c, i, s) == Ahead(c, s) \/ (pc[c] = "incr" /\ window[c] = s /\ i >= sent[c])
CanUndo(c, i, s) ==
  \/ Ahead(c, s)
  \/ pc[c] \in {"incr", "expire", "decide"} /\ window[c] = s
  \/ pc[c] = "decr" /\ window[c] = s /\ i >= sent[c]
Counting(s) == {a \in Attempts : ~CanCount(a[1], a[2], s)}
Undoing(s) == {a \in Attempts : ~CanUndo(a[1], a[2], s)}
Value(s) == IF count[s] = Absent THEN 0 ELSE count[s]
Stray(s) == -Cardinality(Undoing(s)) <= Value(s) /\ Value(s) <= Cardinality(Counting(s))
Sent == \A c \in Callers : pc[c] \in Sending \/ sent[c] = 0
RangeInv == TypeOK /\ Sent /\ \A s \in Seconds : Stray(s)

LEMMA AttemptFacts ==
  /\ IsFiniteSet(Attempts) /\ Cardinality(Attempts) \in Nat
  /\ CountRange = -Cardinality(Attempts) .. Cardinality(Attempts)
<1>1. MaxRetries \in Nat /\ IsFiniteSet(Callers)
  BY RateAssumption
<1>2. IsFiniteSet(0 .. MaxRetries) /\ Cardinality(0 .. MaxRetries) = MaxRetries + 1
  BY <1>1, FS_Interval
<1>3. /\ IsFiniteSet(Attempts)
      /\ Cardinality(Attempts) = Cardinality(Callers) * Cardinality(0 .. MaxRetries)
  BY <1>1, <1>2, FS_Product DEF Attempts
<1>4. Cardinality(Attempts) = Cardinality(Callers) * (MaxRetries + 1)
  BY <1>2, <1>3
<1>5. Cardinality(Attempts) \in Nat
  BY <1>3, FS_CardinalityType
<1> QED
  BY <1>3, <1>4, <1>5 DEF CountRange

LEMMA SomeAttempts ==
  ASSUME NEW S \in SUBSET Attempts, NEW T \in SUBSET S
  PROVE  /\ Cardinality(S) \in Nat /\ Cardinality(T) \in Nat
         /\ Cardinality(S) <= Cardinality(Attempts)
         /\ Cardinality(T) <= Cardinality(S)
         /\ T # S => Cardinality(T) < Cardinality(S)
<1>1. IsFiniteSet(S)
  BY AttemptFacts, FS_Subset
<1> QED
  BY <1>1, AttemptFacts, FS_Subset, FS_CardinalityType

LEMMA RangeFacts ==
  0 \in CountRange /\ \A k \in CountRange : k \in Int /\ k # Absent
<1>1. \A k \in CountRange : k \in Int
  BY AttemptFacts
<1> QED
  BY <1>1, AttemptFacts, RateAssumption

LEMMA ValueFacts ==
  ASSUME TypeOK, NEW s \in Seconds
  PROVE  /\ Value(s) \in Int
         /\ CounterAfterIncr(s) = Value(s) + 1 /\ CounterAfterDecr(s) = Value(s) - 1
<1>1. count[s] \in CountRange \cup {Absent}
  BY DEF TypeOK
<1> QED
  BY <1>1, RangeFacts DEF Value, CounterAfterIncr, CounterAfterDecr

(* A counter that strays no further is within the range.                   *)
LEMMA StrayInRange ==
  ASSUME NEW s \in Seconds, Stray(s)', Value(s)' \in Int
  PROVE  Value(s)' \in CountRange
<1>1. Counting(s)' \subseteq Attempts /\ Undoing(s)' \subseteq Attempts
  BY DEF Counting, Undoing
<1>2. /\ Cardinality(Counting(s)') \in Nat /\ Cardinality(Counting(s)') <= Cardinality(Attempts)
      /\ Cardinality(Undoing(s)') \in Nat /\ Cardinality(Undoing(s)') <= Cardinality(Attempts)
  BY <1>1, SomeAttempts
<1>3. /\ Cardinality(Attempts) \in Nat
      /\ CountRange = -Cardinality(Attempts) .. Cardinality(Attempts)
  BY AttemptFacts
<1>4. -Cardinality(Undoing(s)') <= Value(s)' /\ Value(s)' <= Cardinality(Counting(s)')
  BY DEF Stray
<1>5. -Cardinality(Attempts) <= Value(s)' /\ Value(s)' <= Cardinality(Attempts)
  BY <1>2, <1>3, <1>4
<1> QED
  BY <1>3, <1>5

(* One sending more that is past allows one step away from zero.           *)
LEMMA StrayStep ==
  ASSUME TypeOK, NEW s \in Seconds, Stray(s),
         Value(s)' \in Int,
         \/ Value(s)' = 0
         \/ /\ Counting(s) \subseteq Counting(s)' /\ Undoing(s) \subseteq Undoing(s)'
            /\ \/ Value(s)' = Value(s)
               \/ Value(s)' = Value(s) + 1 /\ Counting(s)' # Counting(s)
               \/ Value(s)' = Value(s) - 1 /\ Undoing(s)' # Undoing(s)
  PROVE  Stray(s)'
<1>0. /\ Counting(s) \subseteq Attempts /\ Counting(s)' \subseteq Attempts
      /\ Undoing(s) \subseteq Attempts /\ Undoing(s)' \subseteq Attempts
  BY DEF Counting, Undoing
<1>1. /\ Cardinality(Counting(s)) \in Nat /\ Cardinality(Counting(s)') \in Nat
      /\ Cardinality(Undoing(s)) \in Nat /\ Cardinality(Undoing(s)') \in Nat
  BY <1>0, SomeAttempts
<1>2. CASE Value(s)' = 0
  BY <1>1, <1>2 DEF Stray
<1>3. CASE /\ Counting(s) \subseteq Counting(s)' /\ Undoing(s) \subseteq Undoing(s)'
           /\ \/ Value(s)' = Value(s)
              \/ Value(s)' = Value(s) + 1 /\ Counting(s)' # Counting(s)
              \/ Value(s)' = Value(s) - 1 /\ Undoing(s)' # Undoing(s)
  <2>1. Value(s) \in Int
    BY ValueFacts
  <2>2. /\ Cardinality(Counting(s)) <= Cardinality(Counting(s)')
        /\ Counting(s)' # Counting(s) => Cardinality(Counting(s)) < Cardinality(Counting(s)')
    BY <1>0, <1>3, SomeAttempts
  <2>3. /\ Cardinality(Undoing(s)) <= Cardinality(Undoing(s)')
        /\ Undoing(s)' # Undoing(s) => Cardinality(Undoing(s)) < Cardinality(Undoing(s)')
    BY <1>0, <1>3, SomeAttempts
  <2>4. -Cardinality(Undoing(s)) <= Value(s) /\ Value(s) <= Cardinality(Counting(s))
    BY DEF Stray
  <2>5. CASE Value(s)' = Value(s)
    BY <1>1, <2>1, <2>2, <2>3, <2>4, <2>5 DEF Stray
  <2>6. CASE Value(s)' = Value(s) + 1 /\ Counting(s)' # Counting(s)
    BY <1>1, <2>1, <2>2, <2>3, <2>4, <2>6 DEF Stray
  <2>7. CASE Value(s)' = Value(s) - 1 /\ Undoing(s)' # Undoing(s)
    BY <1>1, <2>1, <2>2, <2>3, <2>4, <2>7 DEF Stray
  <2> QED
    BY <1>3, <2>5, <2>6, <2>7
<1> QED
  BY <1>2, <1>3

(* The moves of one caller between its commands and over one sending.      *)
Moves(c) ==
  \/ pc'[c] \in {"sleep", "done"}
  \/ pc[c] = "idle" /\ pc'[c] = "loop"
  \/ pc[c] = "loop" /\ pc'[c] = "incr" /\ window'[c] = Second
  \/ /\ pc[c] \in {"incr", "expire", "decide"} /\ pc'[c] \in {"expire", "decide", "decr"}
     /\ window'[c] = window[c]
  \/ /\ pc[c] \in {"incr", "decr"} /\ pc'[c] = pc[c] /\ window'[c] = window[c]
     /\ sent'[c] >= sent[c]
  \/ pc[c] = "decr" /\ pc'[c] = "loop" /\ window[c] # Second

(* No move brings back a sending that is past.                             *)
LEMMA PastIsPast ==
  ASSUME TypeOK, NEW c \in Callers, half' = half, Moves(c),
         \A d \in Callers : d # c => pc'[d] = pc[d] /\ window'[d] = window[d] /\ sent'[d] = sent[d],
         sent'[c] \in Int, NEW s \in Seconds
  PROVE  Counting(s) \subseteq Counting(s)' /\ Undoing(s) \subseteq Undoing(s)'
<1>1. Second' = Second
  BY DEF Second
<1>2. ASSUME NEW d \in Callers, NEW i \in 0 .. MaxRetries
      PROVE  (CanCount(d, i, s)' => CanCount(d, i, s)) /\ (CanUndo(d, i, s)' => CanUndo(d, i, s))
  <2>1. CASE d # c
    BY <1>1, <2>1 DEF CanCount, CanUndo, Ahead
  <2>2. CASE d = c
    <3>1. Ahead(c, s)' => Ahead(c, s)
      BY <1>1 DEF Moves, Ahead, InLoop
    <3>2. CanCount(c, i, s)' => CanCount(c, i, s)
      <4>1. ASSUME pc'[c] = "incr", window'[c] = s, i >= sent'[c] PROVE CanCount(c, i, s)
        <5>1. CASE pc[c] = "loop" /\ window'[c] = Second
          BY <4>1, <5>1 DEF CanCount, Ahead
        <5>2. CASE pc[c] = "incr" /\ window'[c] = window[c] /\ sent'[c] >= sent[c]
          <6>1. sent[c] \in Int /\ i \in Int
            BY RateAssumption DEF TypeOK
          <6> QED
            BY <4>1, <5>2, <6>1 DEF CanCount
        <5> QED
          BY <4>1, <5>1, <5>2 DEF Moves
      <4> QED
        BY <3>1, <4>1 DEF CanCount
    <3>3. CanUndo(c, i, s)' => CanUndo(c, i, s)
      <4>1. ASSUME pc'[c] \in {"incr", "expire", "decide"}, window'[c] = s PROVE CanUndo(c, i, s)
        BY <4>1 DEF Moves, CanUndo, Ahead
      <4>2. ASSUME pc'[c] = "decr", window'[c] = s, i >= sent'[c] PROVE CanUndo(c, i, s)
        <5>1. CASE pc[c] = "decr" /\ window'[c] = window[c] /\ sent'[c] >= sent[c]
          <6>1. sent[c] \in Int /\ i \in Int
            BY RateAssumption DEF TypeOK
          <6> QED
            BY <4>2, <5>1, <6>1 DEF CanUndo
        <5>2. CASE pc[c] \in {"incr", "expire", "decide"} /\ window'[c] = window[c]
          BY <4>2, <5>2 DEF CanUndo
        <5> QED
          BY <4>2, <5>1, <5>2 DEF Moves
      <4> QED
        BY <3>1, <4>1, <4>2 DEF CanUndo
    <3> QED
      BY <2>2, <3>2, <3>3
  <2> QED
    BY <2>1, <2>2
<1>3. ASSUME NEW a \in Attempts
      PROVE  /\ CanCount(a[1], a[2], s)' => CanCount(a[1], a[2], s)
             /\ CanUndo(a[1], a[2], s)' => CanUndo(a[1], a[2], s)
  <2>1. PICK d \in Callers, i \in 0 .. MaxRetries : a = <<d, i>>
    BY DEF Attempts
  <2> QED
    BY <1>2, <2>1
<1> QED
  BY <1>3 DEF Counting, Undoing

(* A caller moves on without a Redis command that changes a counter.       *)
LEMMA OneCallerMoves ==
  ASSUME RangeInv, NEW c \in Callers, UNCHANGED <<half, count>>, Moves(c),
         \A d \in Callers : d # c => pc'[d] = pc[d] /\ window'[d] = window[d] /\ sent'[d] = sent[d],
         sent'[c] \in Int
  PROVE  \A s \in Seconds : Stray(s)'
<1> SUFFICES ASSUME NEW s \in Seconds PROVE Stray(s)'
  OBVIOUS
<1>0. TypeOK /\ Stray(s)
  BY DEF RangeInv
<1>1. Value(s)' = Value(s) /\ Value(s)' \in Int
  BY <1>0, ValueFacts DEF Value
<1>2. Counting(s) \subseteq Counting(s)' /\ Undoing(s) \subseteq Undoing(s)'
  BY <1>0, PastIsPast
<1> QED
  BY <1>0, <1>1, <1>2, StrayStep

(* The types, but for the counters.                                        *)
Others ==
  /\ half \in 0 .. 2 * Cycle - 1
  /\ ttl \in [Seconds -> 0 .. FullTTL]
  /\ pc \in [Callers -> {"idle", "loop", "sleep", "done"} \cup InLoop]
  /\ window \in [Callers -> Seconds]
  /\ sent \in [Callers -> 0 .. MaxRetries]
  /\ lost \in 0 .. MaxLost
  /\ cancelled \subseteq Callers
  /\ outcome \in [Callers -> {"none", "allowed", "local", "degraded", "cancelled", "crashed"}]
  /\ granted \in [Seconds -> SUBSET Callers]
  /\ admitted \in [Seconds -> SUBSET Callers]
  /\ unheard \in [Seconds -> Nat]
  /\ surplus \in [Seconds -> Nat]

LEMMA TypeParts ==
  TypeOK <=> /\ Others /\ count \in [Seconds -> CountRange \cup {Absent}]
             /\ seen \in [Callers -> CountRange]
BY DEF TypeOK, Others

(* A command that moves the counter of c's window uses up a sending.       *)
LEMMA UsesUp ==
  ASSUME RangeInv, NEW c \in Callers, half' = half, Moves(c), NEW w \in Seconds, w = window[c],
         \A d \in Callers : d # c => pc'[d] = pc[d] /\ window'[d] = window[d] /\ sent'[d] = sent[d],
         window'[c] = w, sent'[c] \in Int,
         pc'[c] = pc[c] => sent'[c] > sent[c],
         \A s \in Seconds : s # w => count'[s] = count[s],
         \/ /\ pc[c] = "incr" /\ pc'[c] \in {"incr", "expire", "decide", "done"}
            /\ count'[w] = CounterAfterIncr(w)
         \/ /\ pc[c] = "decr" /\ pc'[c] \in {"decr", "sleep", "loop"}
            /\ count'[w] = CounterAfterDecr(w)
  PROVE  /\ \A s \in Seconds : Stray(s)'
         /\ count'[w] \in CountRange
<1>0. TypeOK
  BY DEF RangeInv
<1>1. PICK k : k = sent[c]
  OBVIOUS
<1>2. k \in 0 .. MaxRetries /\ k \in Int /\ <<c, k>> \in Attempts
  BY <1>0, <1>1, RateAssumption DEF TypeOK, Attempts
<1>3. Second' = Second /\ ~Ahead(c, w)
  BY DEF Second, Ahead, InLoop
<1>4. /\ Value(w) \in Int /\ count'[w] # Absent /\ count'[w] \in Int
      /\ pc[c] = "incr" => Value(w)' = Value(w) + 1
      /\ pc[c] = "decr" => Value(w)' = Value(w) - 1
  <2>1. Value(w) \in Int /\ CounterAfterIncr(w) = Value(w) + 1 /\ CounterAfterDecr(w) = Value(w) - 1
    BY <1>0, ValueFacts
  <2>2. count'[w] \in Int /\ count'[w] # Absent
    BY <2>1, RateAssumption
  <2> QED
    BY <2>1, <2>2 DEF Value
<1>5. pc[c] = "incr" => CanCount(c, k, w) /\ ~CanCount(c, k, w)'
  BY <1>1, <1>2, <1>3 DEF CanCount, Ahead, InLoop
<1>6. pc[c] = "decr" => CanUndo(c, k, w) /\ ~CanUndo(c, k, w)'
  <2>1. ASSUME pc[c] = "decr" PROVE CanUndo(c, k, w)
    BY <1>1, <1>2, <2>1 DEF CanUndo
  <2>2. ASSUME pc[c] = "decr" PROVE ~CanUndo(c, k, w)'
    <3>1. ~Ahead(c, w)'
      BY <1>3, <2>2 DEF Ahead, Moves, InLoop
    <3>2. sent'[c] > k \/ pc'[c] # "decr"
      BY <1>1, <2>2
    <3> QED
      BY <1>2, <2>2, <3>1, <3>2 DEF CanUndo
  <2> QED
    BY <2>1, <2>2
<1>7. /\ pc[c] = "incr" => Counting(w)' # Counting(w)
      /\ pc[c] = "decr" => Undoing(w)' # Undoing(w)
  <2>1. PICK a : a = <<c, k>>
    OBVIOUS
  <2>2. a \in Attempts /\ a[1] = c /\ a[2] = k
    BY <1>2, <2>1
  <2>3. pc[c] = "incr" => a \notin Counting(w) /\ a \in Counting(w)'
    BY <1>5, <2>2 DEF Counting
  <2>4. pc[c] = "decr" => a \notin Undoing(w) /\ a \in Undoing(w)'
    BY <1>6, <2>2 DEF Undoing
  <2> QED
    BY <2>3, <2>4
<1>8. ASSUME NEW s \in Seconds PROVE Stray(s)'
  <2>1. Counting(s) \subseteq Counting(s)' /\ Undoing(s) \subseteq Undoing(s)' /\ Stray(s)
    BY <1>0, PastIsPast DEF RangeInv
  <2>2. CASE s = w
    <3>1. Value(w)' \in Int
      BY <1>4
    <3>2. \/ Value(w)' = Value(w) + 1 /\ Counting(w)' # Counting(w)
          \/ Value(w)' = Value(w) - 1 /\ Undoing(w)' # Undoing(w)
      BY <1>4, <1>7
    <3> QED
      BY <1>0, <2>1, <2>2, <3>1, <3>2, StrayStep
  <2>3. CASE s # w
    <3>1. Value(s)' = Value(s) /\ Value(s)' \in Int
      BY <1>0, <2>3, ValueFacts DEF Value
    <3> QED
      BY <1>0, <2>1, <3>1, StrayStep
  <2> QED
    BY <2>2, <2>3
<1>9. count'[w] \in CountRange
  <2>1. Stray(w)' /\ Value(w)' = count'[w]
    BY <1>4, <1>8 DEF Value
  <2> QED
    BY <1>4, <2>1, StrayInRange
<1> QED
  BY <1>8, <1>9

LEMMA IncrRange == ASSUME RangeInv, NEW c \in Callers, Incr(c) \/ IncrUnheard(c) PROVE RangeInv'
<1>0. TypeOK /\ Sent
  BY DEF RangeInv
<1>1. PICK w \in Seconds : w = window[c]
  BY <1>0 DEF TypeOK
<1>2. PICK n : n = CounterAfterIncr(w)
  OBVIOUS
<1>3. /\ pc[c] = "incr" /\ count' = [count EXCEPT ![w] = n]
      /\ seen' = seen \/ seen' = [seen EXCEPT ![c] = n]
      /\ UNCHANGED <<half, ttl, window, cancelled, admitted, surplus>>
      /\ outcome' = outcome \/ outcome' = [outcome EXCEPT ![c] = "degraded"]
      /\ granted' = granted \/ granted' = [granted EXCEPT ![w] = @ \cup {c}]
      /\ unheard' = unheard \/ unheard' = [unheard EXCEPT ![w] = @ + 1]
      /\ lost' = lost \/ (lost < MaxLost /\ lost' = lost + 1)
  BY <1>1, <1>2 DEF Incr, IncrUnheard, Unheard, Resend, Return, Goto
<1>4. \/ \E l \in {"expire", "decide", "done"} : pc' = [pc EXCEPT ![c] = l]
         /\ sent' = [sent EXCEPT ![c] = 0]
      \/ pc' = pc /\ sent[c] < MaxRetries /\ sent' = [sent EXCEPT ![c] = @ + 1]
  BY DEF Incr, IncrUnheard, Resend, Return, Goto, Settled
<1>5. MaxRetries \in Nat /\ MaxLost \in Nat /\ sent[c] \in 0 .. MaxRetries
  BY <1>0, RateAssumption DEF TypeOK
<1>6. /\ \A d \in Callers : d # c => pc'[d] = pc[d] /\ sent'[d] = sent[d]
      /\ \/ pc'[c] \in {"expire", "decide", "done"} /\ sent'[c] = 0
         \/ pc'[c] = "incr" /\ sent'[c] = sent[c] + 1
      /\ sent' \in [Callers -> 0 .. MaxRetries]
      /\ pc' \in [Callers -> {"idle", "loop", "sleep", "done"} \cup InLoop]
  <2>0. pc \in [Callers -> {"idle", "loop", "sleep", "done"} \cup InLoop]
        /\ sent \in [Callers -> 0 .. MaxRetries]
    BY <1>0 DEF TypeOK
  <2>1. CASE \E l \in {"expire", "decide", "done"} : pc' = [pc EXCEPT ![c] = l]
             /\ sent' = [sent EXCEPT ![c] = 0]
    <3>1. PICK l \in {"expire", "decide", "done"} : pc' = [pc EXCEPT ![c] = l]
      BY <2>1
    <3>2. l \in {"idle", "loop", "sleep", "done"} \cup InLoop /\ 0 \in 0 .. MaxRetries
      BY <1>5 DEF InLoop
    <3>3. pc' \in [Callers -> {"idle", "loop", "sleep", "done"} \cup InLoop] /\ pc'[c] = l
          /\ \A d \in Callers : d # c => pc'[d] = pc[d]
      BY <2>0, <3>1, <3>2
    <3>4. sent' \in [Callers -> 0 .. MaxRetries] /\ sent'[c] = 0
          /\ \A d \in Callers : d # c => sent'[d] = sent[d]
      BY <2>0, <2>1, <3>2
    <3> QED
      BY <3>3, <3>4
  <2>2. CASE pc' = pc /\ sent[c] < MaxRetries /\ sent' = [sent EXCEPT ![c] = @ + 1]
    <3>1. sent[c] + 1 \in 0 .. MaxRetries
      BY <1>5, <2>2
    <3>2. sent' \in [Callers -> 0 .. MaxRetries] /\ sent'[c] = sent[c] + 1
          /\ \A d \in Callers : d # c => sent'[d] = sent[d]
      BY <2>0, <2>2, <3>1
    <3> QED
      BY <1>3, <2>0, <2>2, <3>2
  <2> QED
    BY <1>4, <2>1, <2>2
<1>7. /\ count'[w] = n /\ \A s \in Seconds : s # w => count'[s] = count[s]
  BY <1>0, <1>3 DEF TypeOK
<1>8. Moves(c)
  BY <1>3, <1>5, <1>6 DEF Moves
<1>9. (\A s \in Seconds : Stray(s)') /\ n \in CountRange
  BY <1>1, <1>2, <1>3, <1>5, <1>6, <1>7, <1>8, UsesUp
<1>10. TypeOK'
  <2>1. Others'
    <3>1. lost' \in 0 .. MaxLost
      BY <1>0, <1>3, <1>5 DEF TypeOK
    <3>2. granted' \in [Seconds -> SUBSET Callers] /\ unheard' \in [Seconds -> Nat]
      BY <1>0, <1>3 DEF TypeOK
    <3>3. outcome' \in [Callers -> {"none", "allowed", "local", "degraded", "cancelled", "crashed"}]
      BY <1>0, <1>3 DEF TypeOK
    <3> QED
      BY <1>0, <1>3, <1>6, <3>1, <3>2, <3>3 DEF TypeOK, Others
  <2>2. count' \in [Seconds -> CountRange \cup {Absent}] /\ seen' \in [Callers -> CountRange]
    BY <1>0, <1>3, <1>9 DEF TypeOK
  <2> QED
    BY <2>1, <2>2 DEF TypeOK, Others
<1>11. Sent'
  BY <1>0, <1>6 DEF Sent, Sending
<1> QED
  BY <1>9, <1>10, <1>11 DEF RangeInv

LEMMA DecrRange == ASSUME RangeInv, NEW c \in Callers, Decr(c) \/ DecrUnheard(c) PROVE RangeInv'
<1>0. TypeOK /\ Sent
  BY DEF RangeInv
<1>1. PICK w \in Seconds : w = window[c]
  BY <1>0 DEF TypeOK
<1>2. PICK n : n = CounterAfterDecr(w)
  OBVIOUS
<1>3. /\ pc[c] = "decr"
      /\ UNCHANGED <<half, ttl, window, seen, cancelled, outcome, granted, admitted, unheard>>
      /\ lost' = lost \/ (lost < MaxLost /\ lost' = lost + 1)
      /\ surplus' = surplus \/ surplus' = [surplus EXCEPT ![w] = IF sent[c] = 0 THEN @ ELSE @ + 1]
  BY <1>1 DEF Decr, DecrUnheard, Undo, Unheard, Resend
<1>4. \/ /\ \E l \in {"sleep", "loop"} : /\ pc' = [pc EXCEPT ![c] = l]
                                         /\ l = "loop" => Second # w
         /\ sent' = [sent EXCEPT ![c] = 0]
      \/ pc' = pc /\ sent[c] < MaxRetries /\ sent' = [sent EXCEPT ![c] = @ + 1]
  BY <1>1 DEF Decr, DecrUnheard, Resend, Goto, Settled
<1>5. MaxRetries \in Nat /\ MaxLost \in Nat /\ sent[c] \in 0 .. MaxRetries
  BY <1>0, RateAssumption DEF TypeOK
<1>6. /\ \A d \in Callers : d # c => pc'[d] = pc[d] /\ sent'[d] = sent[d]
      /\ \/ pc'[c] \in {"sleep", "loop"} /\ sent'[c] = 0 /\ (pc'[c] = "loop" => Second # w)
         \/ pc'[c] = "decr" /\ sent'[c] = sent[c] + 1
      /\ sent' \in [Callers -> 0 .. MaxRetries]
      /\ pc' \in [Callers -> {"idle", "loop", "sleep", "done"} \cup InLoop]
  <2>1. CASE /\ \E l \in {"sleep", "loop"} : /\ pc' = [pc EXCEPT ![c] = l]
                                             /\ l = "loop" => Second # w
             /\ sent' = [sent EXCEPT ![c] = 0]
    BY <1>0, <1>5, <2>1 DEF TypeOK
  <2>2. CASE pc' = pc /\ sent[c] < MaxRetries /\ sent' = [sent EXCEPT ![c] = @ + 1]
    BY <1>0, <1>3, <1>5, <2>2 DEF TypeOK
  <2> QED
    BY <1>4, <2>1, <2>2
<1>7. Moves(c)
  BY <1>1, <1>3, <1>5, <1>6 DEF Moves
<1>8. Others'
  <2>1. lost' \in 0 .. MaxLost
    BY <1>0, <1>3, <1>5 DEF TypeOK
  <2>2. surplus' \in [Seconds -> Nat]
    BY <1>0, <1>3 DEF TypeOK
  <2> QED
    BY <1>0, <1>3, <1>6, <2>1, <2>2 DEF TypeOK, Others
<1>9. Sent'
  BY <1>0, <1>6 DEF Sent, Sending
<1>10. (\A s \in Seconds : Stray(s)') /\ count' \in [Seconds -> CountRange \cup {Absent}]
  <2>1. CASE count' = count
    <3>1. \A s \in Seconds : Stray(s)'
      BY <1>3, <1>6, <1>7, <2>1, OneCallerMoves
    <3> QED
      BY <1>0, <2>1, <3>1 DEF TypeOK
  <2>2. CASE count' = [count EXCEPT ![w] = n]
    <3>1. count'[w] = n /\ \A s \in Seconds : s # w => count'[s] = count[s]
      BY <1>0, <2>2 DEF TypeOK
    <3>2. (\A s \in Seconds : Stray(s)') /\ n \in CountRange
      BY <1>1, <1>2, <1>3, <1>5, <1>6, <1>7, <3>1, UsesUp
    <3> QED
      BY <1>0, <2>2, <3>2 DEF TypeOK
  <2> QED
    BY <1>1, <1>2, <2>1, <2>2 DEF Decr, DecrUnheard, Undo
<1>11. TypeOK'
  BY <1>0, <1>3, <1>8, <1>10 DEF TypeOK, Others
<1> QED
  BY <1>9, <1>10, <1>11 DEF RangeInv

LEMMA TickRange == ASSUME RangeInv, Tick PROVE RangeInv'
<1>0. TypeOK /\ Sent
  BY DEF RangeInv
<1>1. PICK next : next = (half + 1) % (2 * Cycle)
  OBVIOUS
<1> DEFINE new == IF next % 2 = 0 THEN {next \div 2} ELSE {}
           gone == {s \in Seconds : ttl[s] = 1} \cup new
<1>2. /\ half' = next
      /\ count' = [s \in Seconds |-> IF s \in gone THEN Absent ELSE count[s]]
      /\ ttl' = [s \in Seconds |-> IF s \in gone \/ ttl[s] = NoTTL THEN NoTTL ELSE ttl[s] - 1]
      /\ pc' = [c \in Callers |-> IF pc[c] = "sleep" /\ new # {} THEN "loop" ELSE pc[c]]
      /\ granted' = [s \in Seconds |-> IF s \in new THEN {} ELSE granted[s]]
      /\ admitted' = [s \in Seconds |-> IF s \in new THEN {} ELSE admitted[s]]
      /\ unheard' = [s \in Seconds |-> IF s \in new THEN 0 ELSE unheard[s]]
      /\ surplus' = [s \in Seconds |-> IF s \in new THEN 0 ELSE surplus[s]]
      /\ UNCHANGED <<window, seen, sent, lost, cancelled, outcome>>
  BY <1>1 DEF Tick
<1>3. Cycle \in Nat /\ Cycle > 0 /\ half \in 0 .. 2 * Cycle - 1
  BY <1>0, RateAssumption DEF TypeOK
<1>4. next = IF half = 2 * Cycle - 1 THEN 0 ELSE half + 1
  <2>1. CASE half = 2 * Cycle - 1
    BY <1>1, <1>3, <2>1
  <2>2. CASE half # 2 * Cycle - 1
    <3>1. half + 1 \in -(2 * Cycle) .. 2 * Cycle - 1 /\ 2 * Cycle \in Nat \ {0} /\ half + 1 >= 0
      BY <1>3, <2>2
    <3> QED
      BY <1>1, <2>2, <3>1, Remainder
  <2> QED
    BY <2>1, <2>2
<1>5. /\ next \in 0 .. 2 * Cycle - 1
      /\ new = {} => next \div 2 = half \div 2
      /\ new # {} => new = {Second'}
  <2>1. next \in 0 .. 2 * Cycle - 1
    BY <1>3, <1>4
  <2>2. next % 2 # 0 => next \div 2 = half \div 2
    BY <1>3, <1>4, <2>1
  <2> QED
    BY <1>2, <2>1, <2>2 DEF Second
<1>6. TypeOK'
  <2>1. half' \in 0 .. 2 * Cycle - 1
    BY <1>2, <1>5
  <2>2. count' \in [Seconds -> CountRange \cup {Absent}]
    BY <1>0, <1>2 DEF TypeOK
  <2>3. ttl' \in [Seconds -> 0 .. FullTTL]
    BY <1>0, <1>2 DEF TypeOK, FullTTL, NoTTL
  <2>4. pc' \in [Callers -> {"idle", "loop", "sleep", "done"} \cup InLoop]
    BY <1>0, <1>2 DEF TypeOK
  <2>5. granted' \in [Seconds -> SUBSET Callers] /\ admitted' \in [Seconds -> SUBSET Callers]
    BY <1>0, <1>2 DEF TypeOK
  <2>6. unheard' \in [Seconds -> Nat] /\ surplus' \in [Seconds -> Nat]
    BY <1>0, <1>2 DEF TypeOK
  <2>7. Others'
    BY <1>0, <1>2, <2>1, <2>3, <2>4, <2>5, <2>6 DEF TypeOK, Others
  <2> QED
    BY <1>0, <1>2, <2>2, <2>7 DEF TypeOK, Others
<1>7. \A c \in Callers : pc'[c] = pc[c] \/ (pc[c] = "sleep" /\ pc'[c] = "loop" /\ new # {})
  BY <1>2
<1>8. Sent'
  BY <1>0, <1>2, <1>7 DEF Sent, Sending
<1>9. ASSUME NEW s \in Seconds PROVE Stray(s)'
  <2>1. Value(s)' \in Int /\ (Value(s)' = Value(s) \/ Value(s)' = 0) /\ Stray(s)
    <3>1. Value(s) \in Int
      BY <1>0, ValueFacts
    <3> QED
      BY <1>2, <3>1 DEF Value, RangeInv
  <2>2. CASE s \in new
    <3>1. Value(s)' = 0
      BY <1>2, <2>2 DEF Value
    <3> QED
      BY <1>0, <2>1, <3>1, StrayStep
  <2>3. CASE s \notin new
    <3>1. s = Second' => new = {} /\ s = Second
      BY <1>2, <1>5, <2>3 DEF Second
    <3>2. ASSUME NEW c \in Callers PROVE Ahead(c, s)' => Ahead(c, s)
      BY <1>2, <1>7, <3>1 DEF Ahead
    <3>3. ASSUME NEW c \in Callers, NEW i
          PROVE  (CanCount(c, i, s)' => CanCount(c, i, s)) /\ (CanUndo(c, i, s)' => CanUndo(c, i, s))
      BY <1>2, <1>7, <3>2 DEF CanCount, CanUndo
    <3>4. Counting(s) \subseteq Counting(s)' /\ Undoing(s) \subseteq Undoing(s)'
      <4>1. \A a \in Attempts : a[1] \in Callers
        BY DEF Attempts
      <4> QED
        BY <3>3, <4>1 DEF Counting, Undoing
    <3> QED
      BY <1>0, <2>1, <3>4, StrayStep
  <2> QED
    BY <2>2, <2>3
<1> QED
  BY <1>6, <1>8, <1>9 DEF RangeInv

(* Steps that touch no counter.                                            *)
LEMMA RestRange ==
  ASSUME RangeInv, NEW c \in Callers,
         \/ Enter(c) \/ ReadClock(c) \/ IncrFails(c) \/ Interrupt(c) \/ Crash(c)
         \/ Expire(c) \/ ExpireUnheard(c) \/ Decide(c)
  PROVE  RangeInv'
<1>0. TypeOK /\ Sent
  BY DEF RangeInv
<1>1. UNCHANGED <<half, count, seen, cancelled, granted, unheard, surplus>>
  BY DEF Enter, ReadClock, IncrFails, Interrupt, Crash, Expire, ExpireUnheard, Decide, Resend,
         redis, history
<1>2. MaxRetries \in Nat /\ MaxLost \in Nat /\ sent[c] \in 0 .. MaxRetries
  BY <1>0, RateAssumption DEF TypeOK
<1>3. \/ sent' = sent
      \/ sent' = [sent EXCEPT ![c] = 0]
      \/ sent[c] < MaxRetries /\ sent' = [sent EXCEPT ![c] = @ + 1]
  BY DEF Enter, ReadClock, IncrFails, Interrupt, Crash, Expire, ExpireUnheard, Decide, Resend,
         Settled
<1>4. sent' \in [Callers -> 0 .. MaxRetries] /\ \A d \in Callers : d # c => sent'[d] = sent[d]
  BY <1>0, <1>2, <1>3 DEF TypeOK
<1>5. pc' = pc \/ \E l \in {"loop", "incr", "decide", "decr", "done"} : pc' = [pc EXCEPT ![c] = l]
  BY DEF Enter, ReadClock, IncrFails, Interrupt, Crash, Expire, ExpireUnheard, Decide, Resend,
         Return, Goto
<1>6. /\ pc' \in [Callers -> {"idle", "loop", "sleep", "done"} \cup InLoop]
      /\ \A d \in Callers : d # c => pc'[d] = pc[d]
  BY <1>0, <1>5 DEF TypeOK, InLoop
<1>7. Second \in Seconds
  BY <1>0, RateAssumption DEF TypeOK, Second, Seconds
<1>8. window' = window \/ window' = [window EXCEPT ![c] = Second]
  BY DEF Enter, ReadClock, IncrFails, Interrupt, Crash, Expire, ExpireUnheard, Decide, Resend
<1>9. window' \in [Callers -> Seconds] /\ \A d \in Callers : d # c => window'[d] = window[d]
  BY <1>0, <1>7, <1>8 DEF TypeOK
<1>10. ttl' \in [Seconds -> 0 .. FullTTL]
  <2>1. ttl' = ttl \/ ttl' = [ttl EXCEPT ![window[c]] = FullTTL]
    BY DEF Enter, ReadClock, IncrFails, Interrupt, Crash, Expire, ExpireUnheard, Decide, SetTTL,
           redis
  <2> QED
    BY <1>0, <2>1 DEF TypeOK, FullTTL
<1>11. lost' \in 0 .. MaxLost
  <2>1. lost' = lost \/ (lost < MaxLost /\ lost' = lost + 1)
    BY DEF Enter, ReadClock, IncrFails, Interrupt, Crash, Expire, ExpireUnheard, Decide, Resend,
           Unheard
  <2> QED
    BY <1>0, <1>2, <2>1 DEF TypeOK
<1>12. outcome' \in [Callers -> {"none", "allowed", "local", "degraded", "cancelled", "crashed"}]
  <2>1. \/ outcome' = outcome
        \/ \E o \in {"allowed", "local", "degraded", "cancelled", "crashed"} :
             outcome' = [outcome EXCEPT ![c] = o]
    BY DEF Enter, ReadClock, IncrFails, Interrupt, Crash, Expire, ExpireUnheard, Decide, Resend,
           Return
  <2> QED
    BY <1>0, <2>1 DEF TypeOK
<1>13. admitted' \in [Seconds -> SUBSET Callers]
  <2>1. admitted' = admitted \/ admitted' = [admitted EXCEPT ![window[c]] = @ \cup {c}]
    BY DEF Enter, ReadClock, IncrFails, Interrupt, Crash, Expire, ExpireUnheard, Decide, history
  <2> QED
    BY <1>0, <2>1 DEF TypeOK
<1>14. TypeOK'
  <2>1. Others'
    BY <1>0, <1>1, <1>4, <1>6, <1>9, <1>10, <1>11, <1>12, <1>13 DEF TypeOK, Others
  <2> QED
    BY <1>0, <1>1, <2>1 DEF TypeOK, Others
<1>15. Moves(c) /\ (pc'[c] \in Sending \/ sent'[c] = 0)
  <2>0. DOMAIN pc = Callers /\ DOMAIN sent = Callers /\ DOMAIN window = Callers
    BY <1>0 DEF TypeOK
  <2>1. pc[c] \in Sending \/ sent[c] = 0
    BY <1>0 DEF Sent
  <2>2. CASE Enter(c)
    BY <2>0, <2>1, <2>2 DEF Enter, Return, Goto, Moves, Sending
  <2>3. CASE ReadClock(c)
    BY <2>0, <2>1, <2>3 DEF ReadClock, Return, Goto, Moves, Sending
  <2>4. CASE IncrFails(c) \/ Interrupt(c) \/ Crash(c)
    BY <2>0, <2>1, <2>4 DEF IncrFails, Interrupt, Crash, Return, Goto, Settled, Moves, Sending
  <2>5. CASE Expire(c)
    BY <2>0, <2>5 DEF Expire, Goto, Settled, Moves
  <2>6. CASE ExpireUnheard(c)
    BY <2>6 DEF ExpireUnheard, Resend, Moves, Sending
  <2>7. CASE Decide(c)
    BY <2>0, <2>1, <2>7 DEF Decide, Return, Goto, Moves, Sending
  <2> QED
    BY <2>2, <2>3, <2>4, <2>5, <2>6, <2>7
<1>16. Sent'
  BY <1>0, <1>4, <1>6, <1>15 DEF Sent
<1>17. \A s \in Seconds : Stray(s)'
  <2>1. sent'[c] \in Int
    BY <1>2, <1>4
  <2> QED
    BY <1>1, <1>4, <1>6, <1>9, <1>15, <2>1, OneCallerMoves
<1> QED
  BY <1>14, <1>16, <1>17 DEF RangeInv

(* Types: however many increments are lost, sent again or undone, the      *)
(* counter of a second stays within the times its callers may send one     *)
(* command: nothing piles up from turn to turn.                            *)
THEOREM CountersStayInRange == Spec => []TypeOK
<1>1. Init => RangeInv
  <2> SUFFICES ASSUME Init PROVE RangeInv
    OBVIOUS
  <2>1. /\ 0 \in Seconds /\ Cycle \in Nat /\ Cycle > 0
        /\ MaxRetries \in Nat /\ MaxLost \in Nat
    BY RateAssumption DEF Seconds
  <2>2. TypeOK
    BY <2>1, RangeFacts DEF Init, TypeOK, FullTTL, NoTTL
  <2>3. ASSUME NEW s \in Seconds PROVE Stray(s)
    <3>1. Value(s) = 0
      BY DEF Init, Value
    <3>2. Counting(s) \subseteq Attempts /\ Undoing(s) \subseteq Attempts
      BY DEF Counting, Undoing
    <3>3. Cardinality(Counting(s)) \in Nat /\ Cardinality(Undoing(s)) \in Nat
      BY <3>2, SomeAttempts
    <3> QED
      BY <3>1, <3>3 DEF Stray
  <2>4. Sent
    BY DEF Init, Sent
  <2> QED
    BY <2>2, <2>3, <2>4 DEF RangeInv
<1>2. RangeInv /\ [Next]_vars => RangeInv'
  <2> SUFFICES ASSUME RangeInv, [Next]_vars PROVE RangeInv'
    OBVIOUS
  <2>0. TypeOK
    BY DEF RangeInv
  <2>1. CASE Tick
    BY <2>1, TickRange
  <2>2. ASSUME NEW c \in Callers,
               \/ Enter(c) \/ ReadClock(c) \/ IncrFails(c) \/ Interrupt(c) \/ Crash(c)
               \/ Expire(c) \/ ExpireUnheard(c) \/ Decide(c)
        PROVE  RangeInv'
    BY <2>2, RestRange
  <2>3. ASSUME NEW c \in Callers, Incr(c) \/ IncrUnheard(c) PROVE RangeInv'
    BY <2>3, IncrRange
  <2>4. ASSUME NEW c \in Callers, Decr(c) \/ DecrUnheard(c) PROVE RangeInv'
    BY <2>4, DecrRange
  <2>5. CASE UNCHANGED vars \/ \E c \in Callers : Cancel(c)
    <3>1. UNCHANGED <<half, count, ttl, pc, window, seen, sent, lost, outcome,
                      granted, admitted, unheard, surplus>>
          /\ cancelled' \subseteq Callers
      BY <2>0, <2>5 DEF Cancel, vars, redis, history, TypeOK
    <3>2. TypeOK'
      BY <2>0, <3>1 DEF TypeOK
    <3>3. ASSUME NEW s \in Seconds PROVE Stray(s)'
      <4>1. Counting(s)' = Counting(s) /\ Undoing(s)' = Undoing(s) /\ Value(s)' = Value(s)
        BY <3>1 DEF Undoing, Counting, CanUndo, CanCount, Ahead, Value, Second
      <4> QED
        BY <4>1 DEF RangeInv, Stray
    <3>4. Sent'
      BY <3>1 DEF RangeInv, Sent
    <3> QED
      BY <3>2, <3>3, <3>4 DEF RangeInv
  <2> QED
    BY <2>1, <2>2, <2>3, <2>4, <2>5 DEF Next, Step
<1>3. RangeInv => TypeOK
  BY DEF RangeInv
<1> QED
  BY <1>1, <1>2, <1>3, PTL DEF Spec
=============================================================================
