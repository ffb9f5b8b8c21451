-------------------------- MODULE DataLoader_proofs --------------------------
(***************************************************************************)
(* Proofs about DataLoader, for any number of loads, ids, chunks and       *)
(* foreign writes: every waiting Load is in exactly one batch, and what it *)
(* gets was held by some replica under its key while it waited.            *)
(***************************************************************************)
EXTENDS DataLoader, FiniteSetTheorems, FunctionTheorems, SequenceTheorems, TLAPS

Batch == [loads : Seq(Loads), next : Nat \ {0}, items : Seq([id : Ids, item : Item])]

Base ==
  /\ stored \in [Ids -> Item \cup {Absent}]
  /\ behind \in [Ids -> SUBSET (Item \cup {Absent})]
  /\ version \in 0 .. MaxVersion
  /\ want \in [Loads -> Ids \cup {None}]
  /\ result \in [Loads -> (0 .. MaxVersion) \cup {Absent, None, Failed}]
  /\ cancelled \subseteq Loads
  /\ witnessed \in [Loads -> SUBSET (Item \cup {Absent})]
  /\ open \in Seq(Loads)
  /\ flight \subseteq Batch
  /\ \A l \in Loads : want[l] = None => result[l] = None

(* The batches share no Load, and every Load that waits is in one.         *)
Apart ==
  /\ ToSet(open) \subseteq Running /\ IsInjective(open)
  /\ \A b \in flight : /\ ToSet(b.loads) \subseteq Running /\ IsInjective(b.loads)
                       /\ ToSet(b.loads) \cap ToSet(open) = {}
  /\ \A b, d \in flight : b # d => ToSet(b.loads) \cap ToSet(d.loads) = {}
  /\ \A l \in Running : l \in ToSet(open) \/ \E b \in flight : l \in ToSet(b.loads)

(* What a batch has read was held while its Loads waited; where nothing    *)
(* was found, some replica held nothing.                                   *)
ReadWhileWaiting(b) ==
  \A j \in DOMAIN b.items, l \in ToSet(b.loads) :
    want[l] = b.items[j].id => b.items[j].item \in witnessed[l]
ReadSoFar(b) ==
  \A i \in DOMAIN b.loads :
    i < b.next => \/ \E j \in DOMAIN b.items : b.items[j].id = want[b.loads[i]]
                  \/ Absent \in witnessed[b.loads[i]]

WitnessesNow == \A l \in Running : Seen(want[l]) \subseteq witnessed[l]

IInv ==
  /\ Base /\ Apart /\ WitnessesNow /\ LoadIsCurrent
  /\ \A b \in flight : ReadWhileWaiting(b) /\ ReadSoFar(b)

-----------------------------------------------------------------------------
(* The last of some positions.                                             *)
LEMMA MaxExists ==
  ASSUME NEW n \in Nat, NEW S \in SUBSET (1 .. n), S # {}
  PROVE  Max(S) \in S
<1> DEFINE T == {n - x : x \in S}
           R == OpToRel(<, Nat)
<1>1. \A t \in T : t \in Nat
  OBVIOUS
<1>2. T \subseteq Nat /\ T # {}
  BY <1>1
<1>3. IsWellFoundedOn(R, Nat)
  BY NatLessThanWellFounded
<1>4. \A y, t \in Nat : y < t => <<y, t>> \in R
  BY DEF OpToRel
<1> HIDE DEF R
<1>5. PICK t \in T : \A y \in T : ~ (<<y, t>> \in R)
  BY <1>2, <1>3, WFMin
<1>6. \A y \in T : ~ (y < t)
  BY <1>1, <1>4, <1>5
<1>7. PICK x \in S : t = n - x
  BY <1>5
<1>8. \A y \in S : x >= y
  BY <1>6, <1>7
<1> QED
  BY <1>8 DEF Max

(* An order of a finite set names each of its elements.                    *)
LEMMA OrderOfSet ==
  ASSUME NEW S, IsFiniteSet(S), NEW f \in SetToSeqs(S)
  PROVE  /\ f \in Seq(S)
         /\ \A x \in S : \E j \in DOMAIN f : f[j] = x
<1> DEFINE n == Cardinality(S)
<1>1. n \in Nat
  BY FS_CardinalityType
<1>2. f \in [1 .. n -> S] /\ \A i, j \in 1 .. n : i # j => f[i] # f[j]
  BY DEF SetToSeqs
<1>3. f \in Injection(1 .. n, S)
  BY <1>2, Fun_IsInj
<1>4. Cardinality(1 .. n) = n
  BY <1>1, FS_Interval
<1>5. f \in Surjection(1 .. n, S)
  BY <1>3, <1>4, FS_Injection
<1>6. \A x \in S : \E j \in 1 .. n : f[j] = x
  BY <1>5 DEF Surjection
<1> QED
  BY <1>1, <1>2, <1>6

LEMMA AppendedSet ==
  ASSUME NEW S, NEW s \in Seq(S), NEW e \in S
  PROVE  /\ ToSet(Append(s, e)) = ToSet(s) \cup {e}
         /\ IsInjective(s) /\ e \notin ToSet(s) => IsInjective(Append(s, e))
<1>1. /\ Append(s, e) \in Seq(S) /\ Len(Append(s, e)) = Len(s) + 1 /\ Len(s) \in Nat
      /\ \A i \in 1 .. Len(s) : Append(s, e)[i] = s[i]
      /\ Append(s, e)[Len(s) + 1] = e
  OBVIOUS
<1>2. DOMAIN s = 1 .. Len(s) /\ DOMAIN Append(s, e) = 1 .. Len(s) + 1
  BY <1>1
<1> QED
  BY <1>1, <1>2 DEF ToSet, IsInjective

(* What was read for a batch stays good while other loads and writers      *)
(* move on.                                                                *)
LEMMA ReadsStay ==
  ASSUME Base, NEW b \in Batch, ReadWhileWaiting(b), ReadSoFar(b),
         \A l \in ToSet(b.loads) : want'[l] = want[l] /\ witnessed[l] \subseteq witnessed'[l]
  PROVE  ReadWhileWaiting(b)' /\ ReadSoFar(b)'
<1>1. ReadWhileWaiting(b)'
  BY DEF ReadWhileWaiting
<1>2. \A i \in DOMAIN b.loads : b.loads[i] \in ToSet(b.loads)
  BY DEF ToSet
<1>3. ReadSoFar(b)'
  BY <1>2 DEF ReadSoFar
<1> QED
  BY <1>1, <1>3

LEMMA InitialInvariant == Init => IInv
<1> SUFFICES ASSUME Init PROVE IInv
  OBVIOUS
<1>1. Base
  BY LoaderAssumption DEF Init, Base, Item
<1>2. Running = {} /\ ToSet(open) = {} /\ IsInjective(open) /\ flight = {}
  BY DEF Init, Running, ToSet, IsInjective
<1>3. Apart /\ WitnessesNow
  BY <1>2 DEF Apart, WitnessesNow
<1>4. LoadIsCurrent
  BY DEF Init, LoadIsCurrent
<1> QED
  BY <1>1, <1>2, <1>3, <1>4 DEF IInv

-----------------------------------------------------------------------------
LEMMA LoadStep == ASSUME IInv, NEW l \in Loads, NEW id \in Ids, Load(l, id) PROVE IInv'
<1>0. id # None /\ want[l] = None /\ result[l] = None /\ l \notin Running
  BY LoaderAssumption DEF Load, Running, IInv, Base
<1>1. Base'
  <2>1. open' \in Seq(Loads)
    BY DEF IInv, Base, Load
  <2>2. want' \in [Loads -> Ids \cup {None}] /\ witnessed' \in [Loads -> SUBSET (Item \cup {Absent})]
    <3>1. Seen(id) \subseteq Item \cup {Absent}
      BY DEF IInv, Base, Seen
    <3> QED
      BY <3>1 DEF IInv, Base, Load
  <2>3. \A m \in Loads : want'[m] = None => result'[m] = None
    BY <1>0 DEF IInv, Base, Load
  <2> QED
    BY <2>1, <2>2, <2>3 DEF IInv, Base, Load
<1>2. Running' = Running \cup {l}
  BY <1>0 DEF Running, Load, IInv, Base
<1>3. /\ \A m \in Running : want'[m] = want[m] /\ witnessed'[m] = witnessed[m]
      /\ want'[l] = id /\ witnessed'[l] = Seen(id) /\ \A i \in Ids : Seen(i)' = Seen(i)
  BY <1>0 DEF Running, Load, IInv, Base, Seen
<1>4. Apart'
  <2>1. l \notin ToSet(open) /\ \A b \in flight : l \notin ToSet(b.loads)
    BY <1>0 DEF IInv, Apart
  <2>2. ToSet(open') = ToSet(open) \cup {l} /\ IsInjective(open')
    BY <2>1, AppendedSet DEF IInv, Base, Apart, Load
  <2>3. flight' = flight
    BY DEF Load
  <2> QED
    BY <1>2, <2>1, <2>2, <2>3 DEF IInv, Apart
<1>5. WitnessesNow'
  <2>1. \A m \in Running : want[m] \in Ids
    BY DEF Running, IInv, Base
  <2> QED
    BY <1>2, <1>3, <2>1 DEF IInv, WitnessesNow
<1>6. LoadIsCurrent'
  BY <1>0 DEF IInv, LoadIsCurrent, Load, Base
<1>7. ASSUME NEW b \in flight' PROVE ReadWhileWaiting(b)' /\ ReadSoFar(b)'
  <2>1. b \in flight /\ b \in Batch /\ ToSet(b.loads) \subseteq Running
    BY DEF IInv, Base, Apart, Load
  <2> QED
    BY <1>3, <2>1, ReadsStay DEF IInv
<1> QED
  BY <1>1, <1>4, <1>5, <1>6, <1>7 DEF IInv

LEMMA DispatchStep == ASSUME IInv, Dispatch PROVE IInv'
<1> DEFINE new == [loads |-> open, next |-> 1, items |-> <<>>]
<1>1. new \in Batch /\ new.loads = open
  BY DEF Batch, IInv, Base
<1>2. /\ flight' = flight \cup {new} /\ open' = <<>>
      /\ UNCHANGED <<stored, behind, version, want, result, cancelled, witnessed>>
  BY DEF Dispatch
<1>3. Base'
  BY <1>1, <1>2 DEF IInv, Base
<1>4. Running' = Running
  BY <1>2 DEF Running
<1>5. ToSet(open') = {} /\ IsInjective(open')
  BY <1>2 DEF ToSet, IsInjective
<1>6. Apart'
  <2> HIDE DEF new
  <2>1. \A b \in flight' : /\ ToSet(b.loads) \subseteq Running /\ IsInjective(b.loads)
    BY <1>1, <1>2 DEF IInv, Apart
  <2>2. \A b, d \in flight' : b # d => ToSet(b.loads) \cap ToSet(d.loads) = {}
    BY <1>1, <1>2 DEF IInv, Apart
  <2>3. \A l \in Running : \E b \in flight' : l \in ToSet(b.loads)
    BY <1>1, <1>2 DEF IInv, Apart
  <2> QED
    BY <1>4, <1>5, <2>1, <2>2, <2>3 DEF Apart
<1>7. WitnessesNow' /\ LoadIsCurrent'
  BY <1>2, <1>4 DEF IInv, WitnessesNow, LoadIsCurrent, Seen
<1>8. ASSUME NEW b \in flight' PROVE ReadWhileWaiting(b)' /\ ReadSoFar(b)'
  <2>1. CASE b \in flight
    BY <1>2, <2>1, ReadsStay DEF IInv, Base
  <2>2. CASE b = new
    <3>1. b.items = <<>> /\ b.next = 1 /\ b.loads \in Seq(Loads)
      BY <1>1, <2>2 DEF Batch
    <3>2. DOMAIN b.items = {} /\ \A i \in DOMAIN b.loads : ~ (i < 1)
      BY <3>1
    <3> QED
      BY <3>1, <3>2 DEF ReadWhileWaiting, ReadSoFar
  <2> QED
    BY <1>2, <2>1, <2>2
<1> QED
  BY <1>3, <1>6, <1>7, <1>8 DEF IInv

LEMMA WriteStep == ASSUME IInv, NEW id \in Ids, Write(id) PROVE IInv'
<1> PICK item \in {version', Absent, Foreign} :
      /\ stored' = [stored EXCEPT ![id] = item]
      /\ behind' = [behind EXCEPT ![id] = @ \cup {stored[id]}]
      /\ witnessed' = [l \in Loads |-> IF l \in Running /\ want[l] = id
                                       THEN witnessed[l] \cup {item} ELSE witnessed[l]]
  BY DEF Write
<1>1. /\ version < MaxVersion /\ version' = version + 1
      /\ UNCHANGED <<want, result, cancelled, open, flight>>
  BY DEF Write
<1>2. version' \in 0 .. MaxVersion /\ item \in Item \cup {Absent}
  BY <1>1, LoaderAssumption DEF IInv, Base, Item
<1>3. Base'
  <2>1. /\ stored' \in [Ids -> Item \cup {Absent}]
        /\ behind' \in [Ids -> SUBSET (Item \cup {Absent})]
    BY <1>2 DEF IInv, Base
  <2>2. witnessed' \in [Loads -> SUBSET (Item \cup {Absent})]
    BY <1>2 DEF IInv, Base
  <2> QED
    BY <1>1, <1>2, <2>1, <2>2 DEF IInv, Base
<1>4. Running' = Running /\ \A l \in Loads : witnessed[l] \subseteq witnessed'[l]
  BY <1>1 DEF Running
<1>5. Apart'
  BY <1>1, <1>4 DEF IInv, Apart
<1>6. WitnessesNow'
  <2> SUFFICES ASSUME NEW l \in Running
               PROVE  {stored'[want[l]]} \cup behind'[want[l]] \subseteq witnessed'[l]
    BY <1>1, <1>4 DEF WitnessesNow, Seen
  <2>1. l \in Loads /\ want[l] \in Ids /\ {stored[want[l]]} \cup behind[want[l]] \subseteq witnessed[l]
    BY DEF Running, IInv, Base, WitnessesNow, Seen
  <2>2. CASE want[l] = id
    BY <2>1, <2>2 DEF IInv, Base
  <2>3. CASE want[l] # id
    BY <1>4, <2>1, <2>3 DEF IInv, Base
  <2> QED
    BY <2>2, <2>3
<1>7. LoadIsCurrent'
  BY <1>1, <1>4 DEF IInv, LoadIsCurrent
<1>8. ASSUME NEW b \in flight' PROVE ReadWhileWaiting(b)' /\ ReadSoFar(b)'
  <2>1. b \in flight /\ b \in Batch /\ ToSet(b.loads) \subseteq Loads
    BY <1>1 DEF IInv, Base, Apart, Running
  <2> QED
    BY <1>1, <1>4, <2>1, ReadsStay DEF IInv
<1> QED
  BY <1>3, <1>5, <1>6, <1>7, <1>8 DEF IInv

LEMMA CatchUpStep == ASSUME IInv, NEW id \in Ids, CatchUp(id) PROVE IInv'
<1>1. PICK left \in SUBSET behind[id] : behind' = [behind EXCEPT ![id] = left]
  BY DEF CatchUp
<1>2. UNCHANGED <<stored, version, want, result, cancelled, open, flight, witnessed>>
  BY DEF CatchUp
<1>3. behind' \in [Ids -> SUBSET (Item \cup {Absent})] /\ \A i \in Ids : behind'[i] \subseteq behind[i]
  BY <1>1 DEF IInv, Base
<1>4. Base'
  BY <1>2, <1>3 DEF IInv, Base
<1>5. Running' = Running
  BY <1>2 DEF Running
<1>6. WitnessesNow'
  <2>1. \A l \in Running : want[l] \in Ids
    BY DEF Running, IInv, Base
  <2> QED
    BY <1>2, <1>3, <1>5, <2>1 DEF IInv, WitnessesNow, Seen
<1>7. Apart' /\ LoadIsCurrent'
  BY <1>2, <1>5 DEF IInv, Apart, LoadIsCurrent
<1>8. ASSUME NEW b \in flight' PROVE ReadWhileWaiting(b)' /\ ReadSoFar(b)'
  BY <1>2, ReadsStay DEF IInv, Base
<1> QED
  BY <1>4, <1>6, <1>7, <1>8 DEF IInv

LEMMA CancelStep == ASSUME IInv, NEW l \in Loads, Cancel(l) PROVE IInv'
<1>1. cancelled' = cancelled \cup {l}
      /\ UNCHANGED <<stored, behind, version, want, result, open, flight, witnessed>>
  BY DEF Cancel
<1>2. Base'
  BY <1>1 DEF IInv, Base
<1>3. Running' = Running
  BY <1>1 DEF Running
<1>4. Apart' /\ WitnessesNow' /\ LoadIsCurrent'
  BY <1>1, <1>3 DEF IInv, Apart, WitnessesNow, LoadIsCurrent, Seen
<1>5. ASSUME NEW b \in flight' PROVE ReadWhileWaiting(b)' /\ ReadSoFar(b)'
  BY <1>1, ReadsStay DEF IInv, Base
<1> QED
  BY <1>2, <1>4, <1>5 DEF IInv

-----------------------------------------------------------------------------
(* A batch that leaves answers its Loads, and no others.                   *)
LEMMA BatchLeaves ==
  ASSUME IInv, NEW b \in flight, flight' = flight \ {b},
         UNCHANGED <<stored, behind, version, want, cancelled, open, witnessed>>,
         result' \in [Loads -> (0 .. MaxVersion) \cup {Absent, None, Failed}],
         \A l \in ToSet(b.loads) : result'[l] # None,
         \A l \in Loads \ ToSet(b.loads) : result'[l] = result[l],
         LoadIsCurrent'
  PROVE  IInv'
<1>1. ToSet(b.loads) \subseteq Running
  BY DEF IInv, Apart
<1>2. Base'
  <2>1. \A l \in Loads : want'[l] = None => result'[l] = None
    BY <1>1 DEF IInv, Base, Running
  <2> QED
    BY <2>1 DEF IInv, Base
<1>3. Running' = Running \ ToSet(b.loads)
  BY <1>1 DEF Running
<1>4. Apart'
  <2>1. ToSet(open) \subseteq Running \ ToSet(b.loads)
    BY DEF IInv, Apart
  <2>2. \A d \in flight' : ToSet(d.loads) \subseteq Running \ ToSet(b.loads)
    BY DEF IInv, Apart
  <2>3. \A l \in Running \ ToSet(b.loads) :
          l \in ToSet(open) \/ \E d \in flight' : l \in ToSet(d.loads)
    BY DEF IInv, Apart
  <2> QED
    BY <1>3, <2>1, <2>2, <2>3 DEF IInv, Apart
<1>5. WitnessesNow'
  BY <1>3 DEF IInv, WitnessesNow, Seen
<1>6. ASSUME NEW d \in flight' PROVE ReadWhileWaiting(d)' /\ ReadSoFar(d)'
  BY ReadsStay DEF IInv, Base
<1> QED
  BY <1>2, <1>4, <1>5, <1>6 DEF IInv

LEMMA FailsStep == ASSUME IInv, NEW b \in flight, BulkGetFails(b) PROVE IInv'
<1>1. /\ result' = [l \in Loads |-> IF l \in ToSet(b.loads) THEN Failed ELSE result[l]]
      /\ flight' = flight \ {b}
      /\ UNCHANGED <<stored, behind, version, want, cancelled, open, witnessed>>
  BY DEF BulkGetFails
<1>2. ToSet(b.loads) \subseteq Loads
  BY DEF IInv, Apart, Running
<1>3. result' \in [Loads -> (0 .. MaxVersion) \cup {Absent, None, Failed}]
  BY <1>1 DEF IInv, Base
<1>4. LoadIsCurrent'
  BY <1>1 DEF IInv, LoadIsCurrent
<1> QED
  BY <1>1, <1>2, <1>3, <1>4, BatchLeaves, LoaderAssumption

(* What the lookup finds for the i-th key of a batch.                      *)
LEMMA LookupFinds ==
  ASSUME IInv, NEW b \in flight, b.next > Len(b.loads), NEW i \in DOMAIN b.loads
  PROVE  LET l == b.loads[i] IN
         IF Lookup(b, i) = Absent THEN witnessed[l] \cap {Absent, Foreign} # {}
         ELSE Lookup(b, i) \in witnessed[l] /\ Lookup(b, i) \in 0 .. MaxVersion
<1> DEFINE l == b.loads[i]
           at == {j \in DOMAIN b.items : b.items[j].item # Foreign /\ b.items[j].id = want[l]}
<1>1. b \in Batch /\ ReadWhileWaiting(b) /\ ReadSoFar(b)
  BY DEF IInv, Base
<1>2. /\ b.loads \in Seq(Loads) /\ b.next \in Nat /\ b.items \in Seq([id : Ids, item : Item])
      /\ l \in ToSet(b.loads) /\ i \in 1 .. Len(b.loads)
  BY <1>1 DEF Batch, ToSet
<1>3. DOMAIN b.items = 1 .. Len(b.items) /\ Len(b.items) \in Nat
  BY <1>2
<1>4. \A j \in DOMAIN b.items : b.items[j].item \in Item
  <2>1. \A j \in 1 .. Len(b.items) : b.items[j] \in [id : Ids, item : Item]
    BY <1>2, ElementOfSeq
  <2> QED
    BY <1>3, <2>1
<1>5. CASE at = {}
  <2>1. Lookup(b, i) = Absent
    BY <1>5 DEF Lookup
  <2>2. i < b.next
    BY <1>2
  <2>3. (\E j \in DOMAIN b.items : b.items[j].id = want[l]) \/ Absent \in witnessed[l]
    BY <1>1, <2>2 DEF ReadSoFar
  <2>4. ASSUME NEW j \in DOMAIN b.items, b.items[j].id = want[l] PROVE Foreign \in witnessed[l]
    <3>1. b.items[j].item = Foreign
      BY <1>5, <2>4
    <3> QED
      BY <1>1, <1>2, <2>4, <3>1 DEF ReadWhileWaiting
  <2> QED
    BY <2>1, <2>3, <2>4
<1>6. CASE at # {}
  <2>1. Max(at) \in at
    BY <1>3, <1>6, MaxExists
  <2>2. Lookup(b, i) = b.items[Max(at)].item
    BY <1>6 DEF Lookup
  <2>3. Lookup(b, i) \in witnessed[l]
    BY <1>1, <1>2, <2>1, <2>2 DEF ReadWhileWaiting
  <2>4. Lookup(b, i) \in Item \ {Foreign}
    BY <1>4, <2>1, <2>2
  <2>5. Lookup(b, i) \in 0 .. MaxVersion /\ Lookup(b, i) # Absent
    BY <2>4, LoaderAssumption DEF Item
  <2> QED
    BY <2>3, <2>5
<1> QED
  BY <1>5, <1>6

LEMMA DeliverStep == ASSUME IInv, NEW b \in flight, Deliver(b) PROVE IInv'
<1> DEFINE at(l) == CHOOSE i \in DOMAIN b.loads : b.loads[i] = l
<1>1. /\ b.next > Len(b.loads)
      /\ result' = [l \in Loads |-> IF l \in ToSet(b.loads) THEN Lookup(b, at(l)) ELSE result[l]]
      /\ flight' = flight \ {b}
      /\ UNCHANGED <<stored, behind, version, want, cancelled, open, witnessed>>
  BY DEF Deliver
<1>2. ToSet(b.loads) \subseteq Loads
  BY DEF IInv, Apart, Running
<1>3. ASSUME NEW l \in ToSet(b.loads)
      PROVE  /\ result'[l] = Lookup(b, at(l))
             /\ result'[l] = Absent \/ result'[l] \in 0 .. MaxVersion
             /\ IF result'[l] = Absent THEN witnessed[l] \cap {Absent, Foreign} # {}
                ELSE result'[l] \in witnessed[l]
  <2>1. at(l) \in DOMAIN b.loads /\ b.loads[at(l)] = l
    BY DEF ToSet
  <2>2. result'[l] = Lookup(b, at(l))
    BY <1>1, <1>2
  <2> HIDE DEF at
  <2> QED
    BY <1>1, <2>1, <2>2, LookupFinds
<1> HIDE DEF at
<1>4. result' \in [Loads -> (0 .. MaxVersion) \cup {Absent, None, Failed}]
  <2>1. \A l \in Loads : result'[l] \in (0 .. MaxVersion) \cup {Absent, None, Failed}
    BY <1>1, <1>3 DEF IInv, Base
  <2> QED
    BY <1>1, <2>1
<1>5. \A l \in Loads \ ToSet(b.loads) : result'[l] = result[l]
  BY <1>1
<1>6. LoadIsCurrent'
  BY <1>1, <1>3, <1>5 DEF IInv, LoadIsCurrent
<1>7. \A l \in ToSet(b.loads) : result'[l] # None
  BY <1>3, LoaderAssumption
<1> QED
  BY <1>1, <1>4, <1>5, <1>6, <1>7, BatchLeaves

-----------------------------------------------------------------------------
(* The items found for some Loads of a batch are few enough to be ordered. *)
LEMMA FoundIsFinite ==
  ASSUME NEW s \in Seq(Loads), NEW read
  PROVE  IsFiniteSet(Found(s, read))
<1> DEFINE D == {i \in 1 .. Len(s) : read[s[i]] # Absent}
           g == [i \in D |-> [id |-> want[s[i]], item |-> read[s[i]]]]
<1>1. Len(s) \in Nat /\ DOMAIN s = 1 .. Len(s)
  OBVIOUS
<1>2. IsFiniteSet(D)
  <2>1. IsFiniteSet(1 .. Len(s)) /\ D \subseteq 1 .. Len(s)
    BY <1>1, FS_Interval
  <2> QED
    BY <2>1, FS_Subset
<1>3. ASSUME NEW x \in Found(s, read) PROVE \E i \in D : g[i] = x
  <2>1. PICK m \in ToSet(s) : read[m] # Absent /\ x = [id |-> want[m], item |-> read[m]]
    BY DEF Found
  <2>2. PICK i \in 1 .. Len(s) : s[i] = m
    BY <1>1 DEF ToSet
  <2>3. i \in D
    BY <2>1, <2>2
  <2> QED
    BY <2>1, <2>2, <2>3
<1>4. ASSUME NEW i \in D PROVE g[i] \in Found(s, read)
  <2>1. s[i] \in ToSet(s)
    BY <1>1 DEF ToSet
  <2> QED
    BY <2>1 DEF Found
<1>5. g \in Surjection(D, Found(s, read))
  BY <1>3, <1>4, Fun_IsSurj
<1> QED
  BY <1>2, <1>5, FS_Surjection

(* A chunk read while the Loads wait: what it found a replica held under   *)
(* the key of a Load of the batch, and for the rest one held nothing.      *)
LEMMA ReadChunkStep == ASSUME IInv, NEW b \in flight, ReadChunk(b) PROVE IInv'
<1> DEFINE chunk == ChunkOf(b)
<1>0. PICK read \in Reads(chunk) : \E found \in SetToSeqs(Found(chunk, read)) :
        flight' = (flight \ {b}) \cup
          {[loads |-> b.loads, next |-> b.next + Len(chunk), items |-> b.items \o found]}
  BY DEF ReadChunk
<1>1. PICK found \in SetToSeqs(Found(chunk, read)) :
        flight' = (flight \ {b}) \cup
          {[loads |-> b.loads, next |-> b.next + Len(chunk), items |-> b.items \o found]}
  BY <1>0
<1>2. /\ b.next <= Len(b.loads)
      /\ UNCHANGED <<stored, behind, version, want, result, cancelled, open, witnessed>>
  BY DEF ReadChunk
<1>3. /\ b \in Batch
      /\ b.loads \in Seq(Loads) /\ b.next \in Nat \ {0}
      /\ b.items \in Seq([id : Ids, item : Item]) /\ ReadWhileWaiting(b) /\ ReadSoFar(b)
  BY DEF IInv, Base, Batch
<1> DEFINE n == IF b.next + BatchGetLimit <= Len(b.loads)
                THEN b.next + BatchGetLimit - 1 ELSE Len(b.loads)
<1>4. n \in Nat /\ b.next <= n /\ n <= Len(b.loads)
  BY <1>2, <1>3, LoaderAssumption
<1>5. chunk = SubSeq(b.loads, b.next, n)
  BY DEF ChunkOf
<1> HIDE DEF n, chunk
<1>6. /\ chunk \in Seq(Loads) /\ Len(chunk) = n - b.next + 1
      /\ \A k \in 1 .. n - b.next + 1 : chunk[k] = b.loads[b.next + k - 1]
  <2>1. \A i \in b.next .. n : b.loads[i] \in Loads
    BY <1>3, <1>4
  <2>2. b.next \in Int /\ n \in Int
    BY <1>3, <1>4
  <2> QED
    BY <1>4, <1>5, <2>1, <2>2, SubSeqProperties
<1>7. /\ \A i \in b.next .. n : b.loads[i] \in ToSet(chunk)
      /\ ToSet(chunk) \subseteq ToSet(b.loads)
  <2>1. /\ DOMAIN chunk = 1 .. n - b.next + 1
        /\ DOMAIN b.loads = 1 .. Len(b.loads)
    BY <1>3, <1>6
  <2>2. ASSUME NEW i \in b.next .. n PROVE b.loads[i] \in ToSet(chunk)
    <3>1. i - b.next + 1 \in 1 .. n - b.next + 1 /\ b.next + (i - b.next + 1) - 1 = i
      BY <1>3, <1>4
    <3>2. chunk[i - b.next + 1] = b.loads[i]
      BY <1>6, <3>1
    <3> QED
      BY <2>1, <3>1, <3>2 DEF ToSet
  <2>3. ASSUME NEW k \in 1 .. n - b.next + 1 PROVE chunk[k] \in ToSet(b.loads)
    <3>1. b.next + k - 1 \in 1 .. Len(b.loads)
      BY <1>3, <1>4
    <3> QED
      BY <1>6, <2>1, <3>1 DEF ToSet
  <2> QED
    BY <2>1, <2>2, <2>3 DEF ToSet
<1>8. ToSet(b.loads) \subseteq Running /\ \A l \in ToSet(b.loads) : l \in Loads /\ want[l] \in Ids
  BY DEF IInv, Apart, Running, Base
<1>9. Found(chunk, read) \subseteq [id : Ids, item : Item]
  <2>1. \A l \in ToSet(chunk) : read[l] \in Item \cup {Absent}
    BY <1>0 DEF Reads
  <2> QED
    BY <1>7, <1>8, <2>1 DEF Found
<1>10. /\ found \in Seq(Found(chunk, read))
       /\ \A x \in Found(chunk, read) : \E j \in DOMAIN found : found[j] = x
  BY <1>6, FoundIsFinite, OrderOfSet
<1>11. found \in Seq([id : Ids, item : Item])
  BY <1>9, <1>10, SeqMonotonic
<1> DEFINE new == [loads |-> b.loads, next |-> b.next + Len(chunk), items |-> b.items \o found]
<1>12. new = [loads |-> b.loads, next |-> n + 1, items |-> b.items \o found]
  <2>1. b.next + Len(chunk) = n + 1
    BY <1>3, <1>4, <1>6
  <2> QED
    BY <2>1
<1>13. /\ new.loads = b.loads /\ new.next = n + 1 /\ new.items = b.items \o found
       /\ new \in Batch
  <2>1. b.items \o found \in Seq([id : Ids, item : Item])
    BY <1>3, <1>11, ConcatProperties
  <2>2. n + 1 \in Nat \ {0}
    BY <1>4
  <2> QED
    BY <1>3, <1>12, <2>1, <2>2 DEF Batch
<1>14. flight' = (flight \ {b}) \cup {new}
  BY <1>1
<1> HIDE DEF new
<1>15. /\ DOMAIN new.items = 1 .. Len(b.items) + Len(found)
       /\ DOMAIN b.items = 1 .. Len(b.items) /\ DOMAIN found = 1 .. Len(found)
       /\ Len(b.items) \in Nat /\ Len(found) \in Nat
       /\ \A j \in 1 .. Len(b.items) : new.items[j] = b.items[j]
       /\ \A j \in 1 .. Len(found) : new.items[Len(b.items) + j] = found[j]
  BY <1>3, <1>11, <1>13, ConcatProperties
<1>16. ReadWhileWaiting(new)
  <2> SUFFICES ASSUME NEW j \in DOMAIN new.items, NEW l \in ToSet(b.loads),
                      want[l] = new.items[j].id
               PROVE  new.items[j].item \in witnessed[l]
    BY <1>13 DEF ReadWhileWaiting
  <2>1. CASE j \in 1 .. Len(b.items)
    BY <1>3, <1>15, <2>1 DEF ReadWhileWaiting
  <2>2. CASE j \notin 1 .. Len(b.items)
    <3>1. /\ j - Len(b.items) \in 1 .. Len(found)
          /\ j = Len(b.items) + (j - Len(b.items))
      BY <1>15, <2>2
    <3>2. new.items[j] \in Found(chunk, read)
      <4>1. \A k \in 1 .. Len(found) : found[k] \in Found(chunk, read)
        BY <1>10
      <4>2. new.items[j] = found[j - Len(b.items)]
        BY <1>15, <3>1
      <4> QED
        BY <3>1, <4>1, <4>2
    <3>3. PICK m \in ToSet(chunk) : new.items[j] = [id |-> want[m], item |-> read[m]]
      BY <3>2 DEF Found
    <3>4. new.items[j].item \in Seen(new.items[j].id)
      BY <1>0, <3>3 DEF Reads
    <3> QED
      BY <1>8, <3>4 DEF IInv, WitnessesNow
  <2> QED
    BY <2>1, <2>2
<1>17. ReadSoFar(new)
  <2> SUFFICES ASSUME NEW i \in DOMAIN b.loads, i < n + 1
               PROVE  \/ \E j \in DOMAIN new.items : new.items[j].id = want[b.loads[i]]
                      \/ Absent \in witnessed[b.loads[i]]
    BY <1>13 DEF ReadSoFar
  <2> DEFINE l == b.loads[i]
  <2>1. i \in 1 .. n /\ l \in ToSet(b.loads)
    BY <1>3, <1>4 DEF ToSet
  <2>2. CASE i < b.next
    <3>1. (\E j \in DOMAIN b.items : b.items[j].id = want[l]) \/ Absent \in witnessed[l]
      BY <1>3, <2>2 DEF ReadSoFar
    <3>2. \A j \in DOMAIN b.items : j \in DOMAIN new.items /\ new.items[j] = b.items[j]
      BY <1>15
    <3> QED
      BY <3>1, <3>2
  <2>3. CASE i >= b.next /\ read[l] = Absent
    <3>1. l \in ToSet(chunk)
      BY <1>3, <1>7, <2>1, <2>3
    <3>2. read[l] \in Seen(want[l])
      BY <1>0, <3>1 DEF Reads
    <3> QED
      BY <1>8, <2>1, <2>3, <3>2 DEF IInv, WitnessesNow
  <2>4. CASE i >= b.next /\ read[l] # Absent
    <3>1. l \in ToSet(chunk)
      BY <1>3, <1>7, <2>1, <2>4
    <3>2. [id |-> want[l], item |-> read[l]] \in Found(chunk, read)
      BY <2>4, <3>1 DEF Found
    <3>3. PICK k \in 1 .. Len(found) : found[k].id = want[l]
      BY <1>10, <1>15, <3>2
    <3>4. Len(b.items) + k \in DOMAIN new.items /\ new.items[Len(b.items) + k] = found[k]
      BY <1>15
    <3> QED
      BY <3>3, <3>4
  <2>5. i \in Nat
    BY <2>1, <1>4
  <2> QED
    BY <1>3, <2>2, <2>3, <2>4, <2>5
<1>18. Base'
  BY <1>2, <1>13, <1>14 DEF IInv, Base
<1>19. Running' = Running
  BY <1>2 DEF Running
<1>20. Apart'
  <2>1. \A d \in flight' : /\ ToSet(d.loads) \subseteq Running /\ IsInjective(d.loads)
                           /\ ToSet(d.loads) \cap ToSet(open) = {}
    BY <1>13, <1>14 DEF IInv, Apart
  <2>2. \A d, e \in flight' : d # e => ToSet(d.loads) \cap ToSet(e.loads) = {}
    BY <1>13, <1>14 DEF IInv, Apart
  <2>3. \A l \in Running : l \in ToSet(open) \/ \E d \in flight' : l \in ToSet(d.loads)
    BY <1>13, <1>14 DEF IInv, Apart
  <2> QED
    BY <1>2, <1>19, <2>1, <2>2, <2>3 DEF IInv, Apart
<1>21. WitnessesNow' /\ LoadIsCurrent'
  BY <1>2, <1>19 DEF IInv, WitnessesNow, LoadIsCurrent, Seen
<1>22. ASSUME NEW d \in flight' PROVE ReadWhileWaiting(d)' /\ ReadSoFar(d)'
  <2>1. d \in Batch /\ ReadWhileWaiting(d) /\ ReadSoFar(d)
    BY <1>13, <1>14, <1>16, <1>17 DEF IInv, Base
  <2> QED
    BY <1>2, <2>1, ReadsStay DEF IInv
<1> QED
  BY <1>18, <1>20, <1>21, <1>22 DEF IInv

-----------------------------------------------------------------------------
(* The waiting Loads stay divided among the batches, and what each batch   *)
(* has read so far some replica held while its Loads waited: the invariant *)
(* of loader.go's Load, of the library's batches and of batchFn.           *)
THEOREM LoaderInvariant == Spec => []IInv
<1>1. Init => IInv
  BY InitialInvariant
<1>2. IInv /\ [Next]_vars => IInv'
  <2> SUFFICES ASSUME IInv, [Next]_vars PROVE IInv'
    OBVIOUS
  <2>1. ASSUME NEW l \in Loads, NEW id \in Ids, Load(l, id) PROVE IInv'
    BY <2>1, LoadStep
  <2>2. CASE Dispatch
    BY <2>2, DispatchStep
  <2>3. ASSUME NEW b \in flight, ReadChunk(b) \/ BulkGetFails(b) \/ Deliver(b) PROVE IInv'
    BY <2>3, ReadChunkStep, FailsStep, DeliverStep
  <2>4. ASSUME NEW id \in Ids, Write(id) \/ CatchUp(id) PROVE IInv'
    BY <2>4, WriteStep, CatchUpStep
  <2>5. ASSUME NEW l \in Loads, Cancel(l) PROVE IInv'
    BY <2>5, CancelStep
  <2>6. CASE UNCHANGED vars
    <3>1. Running' = Running
      BY <2>6 DEF vars, Running
    <3>2. Base' /\ Apart' /\ WitnessesNow' /\ LoadIsCurrent'
      BY <2>6, <3>1 DEF vars, IInv, Base, Apart, WitnessesNow, LoadIsCurrent, Seen
    <3>3. ASSUME NEW b \in flight' PROVE ReadWhileWaiting(b)' /\ ReadSoFar(b)'
      BY <2>6, ReadsStay DEF vars, IInv, Base
    <3> QED
      BY <3>2, <3>3 DEF IInv
  <2>7. CASE Terminated
    BY <2>6, <2>7 DEF Terminated
  <2> QED
    BY <2>1, <2>2, <2>3, <2>4, <2>5, <2>6, <2>7 DEF Next
<1> QED
  BY <1>1, <1>2, PTL DEF Spec

(* The loader's state keeps its types: the Loads in a batch are waiting,   *)
(* and no batch names one twice.                                           *)
THEOREM LoaderTypeCorrect == Spec => []TypeOK
<1>1. IInv => TypeOK
  BY DEF IInv, Base, Apart, TypeOK
<1> QED
  BY <1>1, LoaderInvariant, PTL

(* A Load that waits is in exactly one batch of the loader, so exactly one *)
(* return of batchFn answers it.                                           *)
THEOREM WaitsInOneBatch == Spec => []OneBatchEach
<1>1. IInv => OneBatchEach
  <2> SUFFICES ASSUME IInv, NEW l \in Running
               PROVE  (IF l \in ToSet(open) THEN 1 ELSE 0)
                        + Cardinality({b \in flight : l \in ToSet(b.loads)}) = 1
    BY DEF OneBatchEach
  <2> DEFINE mine == {b \in flight : l \in ToSet(b.loads)}
  <2>1. CASE l \in ToSet(open)
    <3>1. mine = {}
      BY <2>1 DEF IInv, Apart
    <3> QED
      BY <2>1, <3>1, FS_EmptySet
  <2>2. CASE l \notin ToSet(open)
    <3>1. PICK b \in flight : l \in ToSet(b.loads)
      BY <2>2 DEF IInv, Apart
    <3>2. mine = {b}
      BY <3>1 DEF IInv, Apart
    <3>3. Cardinality(mine) = 1
      BY <3>2, FS_Singleton
    <3> HIDE DEF mine
    <3>4. (IF l \in ToSet(open) THEN 1 ELSE 0) + Cardinality(mine) = 1
      BY <2>2, <3>3
    <3> QED
      BY <3>4 DEF mine
  <2> QED
    BY <2>1, <2>2
<1> QED
  BY <1>1, LoaderInvariant, PTL

(* What Load returns is what some replica held under its own key at some   *)
(* moment of the call, for any chunk limit, any order of the items BulkGet *)
(* returns, any writes in between and any delay of the replicas.           *)
THEOREM LoadsAreCurrent == Spec => []LoadIsCurrent
<1>1. IInv => LoadIsCurrent
  BY DEF IInv
<1> QED
  BY <1>1, LoaderInvariant, PTL
=============================================================================
