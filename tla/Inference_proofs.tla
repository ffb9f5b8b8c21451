--------------------------- MODULE Inference_proofs ---------------------------
(***************************************************************************)
(* Proofs about Inference, for every router, any number of messages and of *)
(* events and any capacity of Gemini's channel: each provider's stream     *)
(* skips and truncates nothing silently and implements CompletionStream,   *)
(* Anthropic's connector retries as it may, every request carries the      *)
(* conversation so far, and all of it holds of the composition, whose      *)
(* steps are steps or stutters of each part.                               *)
(***************************************************************************)
EXTENDS Inference, WellFoundedInduction, TLAPS

(* A step of the composition moves at most the part the caller uses.       *)
LEMMA OnePart ==
  ASSUME [Next]_vars
  PROVE  /\ Completions!Next \/ UNCHANGED completionVars
         /\ Gemini!Next \/ UNCHANGED geminiVars
         /\ OpenAI!Next \/ UNCHANGED openAIVars
         /\ Anthropic!Next \/ UNCHANGED anthropicVars
BY DEF Next, vars, UseComplete, CompleteStream, Leave, CompletionStep, GeminiStep, OpenAIStep,
       AnthropicStep

(* Taking from one end of a sequence and adding to the other.              *)
LEMMA Taken ==
  ASSUME NEW S, NEW s \in Seq(S), s # <<>>
  PROVE  /\ Head(s) = s[1] /\ Head(s) \in S
         /\ Tail(s) \in Seq(S) /\ Len(Tail(s)) = Len(s) - 1 /\ Len(s) >= 1
         /\ \A i \in 1 .. Len(s) - 1 : Tail(s)[i] = s[i + 1]
  OBVIOUS

LEMMA Added ==
  ASSUME NEW S, NEW s \in Seq(S), NEW x \in S
  PROVE  /\ Append(s, x) \in Seq(S) /\ Len(Append(s, x)) = Len(s) + 1
         /\ \A i \in 1 .. Len(s) : Append(s, x)[i] = s[i]
         /\ Append(s, x)[Len(s) + 1] = x
  OBVIOUS

(* Two sequences of the same events.                                       *)
LEMMA SameSequence ==
  ASSUME NEW S, NEW s \in Seq(S), NEW t \in Seq(S), Len(s) = Len(t),
         \A i \in 1 .. Len(s) : s[i] = t[i]
  PROVE  s = t
  OBVIOUS

(* A prefix of a sequence.                                                 *)
LEMMA Prefix ==
  ASSUME NEW S, NEW s \in Seq(S), NEW k \in 0 .. Len(s)
  PROVE  /\ SubSeq(s, 1, k) \in Seq(S) /\ Len(SubSeq(s, 1, k)) = k
         /\ \A i \in 1 .. k : SubSeq(s, 1, k)[i] = s[i]
<1>1. SubSeq(s, 1, k) \in Seq(S) /\ Len(SubSeq(s, 1, k)) = k
  OBVIOUS
<1> QED
  BY <1>1

(* What is counted along a sequence, when its first element is taken.      *)
LEMMA Shifted ==
  ASSUME NEW n \in Nat, n >= 1, NEW m \in Nat, NEW f \in [0 .. n -> 0 .. m]
  PROVE  \E g \in [0 .. n - 1 -> 0 .. m] : \A i \in 0 .. n - 1 : g[i] = f[i + 1]
<1> WITNESS [i \in 0 .. n - 1 |-> f[i + 1]] \in [0 .. n - 1 -> 0 .. m]
<1> QED
  OBVIOUS

(* A set of numbers has a least one.                                       *)
LEMMA Least ==
  ASSUME NEW T \in SUBSET Nat, T # {}
  PROVE  \E x \in T : \A y \in T : x <= y
<1> DEFINE R == OpToRel(<, Nat)
<1>1. PICK x \in T : \A y \in T : ~ (<<y, x>> \in R)
  <2>1. IsWellFoundedOn(R, Nat)
    BY NatLessThanWellFounded
  <2> HIDE DEF R
  <2> QED
    BY <2>1, WFMin
<1>2. \A y \in T : ~ (y < x)
  BY <1>1 DEF OpToRel
<1> QED
  BY <1>2

-----------------------------------------------------------------------------
(* GEMINI.  Sequences are compared by length and by element.               *)

(* Where the goroutine is tells what the response has come to.             *)
GControl ==
  /\ gProducer \in {"iterate", "send"} <=> gVerdict = "open"
  /\ gProducer = "finish" => gVerdict = "end"
  /\ gProducer = "send" <=> gPending # <<>>
  /\ gClosed <=> gProducer = "stopped"
  /\ gVerdict = "error" /\ ~gDone => gErrCh # <<>>
  /\ gErrCh # <<>> => gVerdict = "error"
  /\ gDone => gVerdict # "open"
  /\ gStreamErr = Err => gDone
  /\ gDone /\ gStreamErr = NoErr => gVerdict = "end"

(* The i-th event of the stream, and how many of them were sent or wait to *)
(* be sent.                                                                *)
GAt(i) == IF i <= gProduced THEN i ELSE Gemini!Done
GSent == gProduced + (IF gVerdict = "end" /\ gProducer # "finish" THEN 1 ELSE 0)

(* Until Close is called, what was delivered, what is buffered and what    *)
(* waits to be sent make up the stream, in this order.                     *)
GInOrder ==
  /\ Len(gDelivered) <= GSent
  /\ \A i \in 1 .. Len(gDelivered) : gDelivered[i] = GAt(i)
  /\ gConsumer = "running" =>
       /\ Len(gDelivered) + Len(gEventCh) + Len(gPending) = GSent
       /\ \A i \in 1 .. Len(gEventCh) : gEventCh[i] = GAt(Len(gDelivered) + i)
       /\ \A i \in 1 .. Len(gPending) : gPending[i] = Len(gDelivered) + Len(gEventCh) + i
  /\ gDone /\ gStreamErr = NoErr => Len(gDelivered) = gProduced + 1

GInv == Gemini!TypeOK /\ GControl /\ GInOrder

-----------------------------------------------------------------------------
LEMMA GInit == ASSUME Gemini!Init PROVE GInv
<1>1. Gemini!TypeOK
  <2>1. <<>> \in Seq(Gemini!Event) /\ <<>> \in Seq(Gemini!Event \cup {Gemini!Done}) /\ Len(<<>>) = 0
    OBVIOUS
  <2>2. gProduced \in 0 .. MaxEvents /\ Len(gEventCh) <= Cap
    BY <2>1, InferenceAssumption DEF Gemini!Init
  <2>3. gPending \in Seq(Gemini!Event) /\ gEventCh \in Seq(Gemini!Event \cup {Gemini!Done}) /\ gDelivered \in Seq(Gemini!Event \cup {Gemini!Done})
    BY <2>1 DEF Gemini!Init
  <2> QED
    BY <2>2, <2>3 DEF Gemini!Init, Gemini!TypeOK
<1>2. GControl
  BY InferenceAssumption DEF Gemini!Init, GControl
<1>3. GInOrder
  BY InferenceAssumption DEF Gemini!Init, GInOrder, GSent
<1> QED
  BY <1>1, <1>2, <1>3 DEF GInv

LEMMA GRespond == ASSUME GInv, Gemini!Respond PROVE GInv'
<1>1. PICK n \in 0 .. MaxParts :
        /\ gProduced + n <= MaxEvents
        /\ gPending' = [i \in 1 .. n |-> gProduced + i]
        /\ gProduced' = gProduced + n
        /\ gProducer' = IF n = 0 THEN "iterate" ELSE "send"
  BY DEF Gemini!Respond
<1>2. /\ gProducer = "iterate" /\ gVerdict = "open" /\ gPending = <<>> /\ ~gDone
      /\ UNCHANGED <<gVerdict, gEventCh, gErrCh, gClosed, Gemini!consumerVars>>
  BY DEF Gemini!Respond, GInv, GControl
<1>3. n \in Nat /\ gProduced \in Nat /\ gProduced' \in 0 .. MaxEvents
  BY <1>1, InferenceAssumption DEF GInv, Gemini!TypeOK
<1>4. gPending' \in Seq(Gemini!Event) /\ Len(gPending') = n
      /\ \A i \in 1 .. n : gPending'[i] = gProduced + i
  BY <1>1, <1>3, InferenceAssumption DEF Gemini!Event
<1>5. Gemini!TypeOK'
  BY <1>1, <1>2, <1>3, <1>4 DEF GInv, Gemini!TypeOK, Gemini!consumerVars
<1>6. GControl'
  BY <1>1, <1>2, <1>3, <1>4 DEF GInv, GControl, Gemini!consumerVars
<1>7. Len(gDelivered) \in Nat /\ Len(gEventCh) \in Nat /\ Len(gPending) = 0
  BY <1>2 DEF GInv, Gemini!TypeOK
<1>8. GSent = gProduced /\ GSent' = gProduced + n
  BY <1>1, <1>2, <1>3 DEF GSent
<1>9. \A i \in 1 .. gProduced : GAt(i)' = GAt(i)
  BY <1>1, <1>3 DEF GAt
<1>10. GInOrder'
  <2>1. Len(gDelivered) <= gProduced /\ \A i \in 1 .. Len(gDelivered) : gDelivered[i] = GAt(i)'
    BY <1>7, <1>8, <1>9, <1>3 DEF GInv, GInOrder
  <2>2. ASSUME gConsumer = "running"
        PROVE  /\ Len(gDelivered) + Len(gEventCh) + Len(gPending') = GSent'
               /\ \A i \in 1 .. Len(gEventCh) : gEventCh[i] = GAt(Len(gDelivered) + i)'
               /\ \A i \in 1 .. Len(gPending') : gPending'[i] = Len(gDelivered) + Len(gEventCh) + i
    <3>1. Len(gDelivered) + Len(gEventCh) = gProduced
      BY <1>7, <1>8, <2>2, <1>3 DEF GInv, GInOrder
    <3>2. \A i \in 1 .. Len(gEventCh) : gEventCh[i] = GAt(Len(gDelivered) + i)
      BY <2>2 DEF GInv, GInOrder
    <3>3. \A i \in 1 .. Len(gEventCh) : Len(gDelivered) + i \in 1 .. gProduced
      BY <1>7, <3>1
    <3> QED
      BY <1>2, <1>3, <1>4, <1>7, <1>8, <1>9, <3>1, <3>2, <3>3 DEF Gemini!consumerVars
  <2>3. Len(gDelivered)' <= GSent' /\ \A i \in 1 .. Len(gDelivered)' : gDelivered'[i] = GAt(i)'
    BY <1>2, <1>3, <1>7, <1>8, <2>1 DEF Gemini!consumerVars
  <2>4. ~gDone' /\ gConsumer' = gConsumer /\ gDelivered' = gDelivered /\ gEventCh' = gEventCh
    BY <1>2 DEF Gemini!consumerVars
  <2> QED
    BY <2>2, <2>3, <2>4 DEF GInOrder
<1> QED
  BY <1>5, <1>6, <1>10 DEF GInv

LEMMA GSendEvent == ASSUME GInv, Gemini!SendEvent PROVE GInv'
<1>1. /\ gProducer = "send" /\ Len(gEventCh) < Cap /\ gVerdict = "open" /\ gPending # <<>> /\ ~gDone
      /\ gEventCh' = Append(gEventCh, Head(gPending)) /\ gPending' = Tail(gPending)
      /\ gProducer' = IF Tail(gPending) = <<>> THEN "iterate" ELSE "send"
      /\ UNCHANGED <<gProduced, gVerdict, gErrCh, gClosed, Gemini!consumerVars>>
  BY DEF Gemini!SendEvent, GInv, GControl
<1>2. /\ Head(gPending) = gPending[1] /\ Head(gPending) \in Gemini!Event
      /\ gPending' \in Seq(Gemini!Event) /\ Len(gPending') = Len(gPending) - 1 /\ Len(gPending) >= 1
      /\ \A i \in 1 .. Len(gPending) - 1 : gPending'[i] = gPending[i + 1]
  BY <1>1, Taken DEF GInv, Gemini!TypeOK
<1>3. /\ gEventCh' \in Seq(Gemini!Event \cup {Gemini!Done}) /\ Len(gEventCh') = Len(gEventCh) + 1
      /\ \A i \in 1 .. Len(gEventCh) : gEventCh'[i] = gEventCh[i]
      /\ gEventCh'[Len(gEventCh) + 1] = Head(gPending)
  BY <1>1, <1>2, Added DEF GInv, Gemini!TypeOK
<1>4. Len(gDelivered) \in Nat /\ Len(gEventCh) \in Nat /\ Len(gPending) \in Nat /\ gProduced \in Nat
  BY DEF GInv, Gemini!TypeOK
<1>5. Gemini!TypeOK'
  BY <1>1, <1>2, <1>3, <1>4, InferenceAssumption DEF GInv, Gemini!TypeOK, Gemini!consumerVars
<1>6. GControl'
  BY <1>1 DEF GInv, GControl, Gemini!consumerVars
<1>7. GSent = gProduced /\ GSent' = gProduced
  BY <1>1, <1>4 DEF GSent
<1>8. \A i : GAt(i)' = GAt(i)
  BY <1>1 DEF GAt
<1>9. ASSUME gConsumer = "running"
      PROVE  /\ Len(gDelivered) + Len(gEventCh') + Len(gPending') = gProduced
             /\ \A i \in 1 .. Len(gEventCh') : gEventCh'[i] = GAt(Len(gDelivered) + i)
             /\ \A i \in 1 .. Len(gPending') : gPending'[i] = Len(gDelivered) + Len(gEventCh') + i
  <2>0. Len(gDelivered) + Len(gEventCh) + Len(gPending) = gProduced
    BY <1>7, <1>9 DEF GInv, GInOrder
  <2>1. /\ \A i \in 1 .. Len(gEventCh) : gEventCh[i] = GAt(Len(gDelivered) + i)
        /\ \A i \in 1 .. Len(gPending) : gPending[i] = Len(gDelivered) + Len(gEventCh) + i
    BY <1>9 DEF GInv, GInOrder
  <2>2. Len(gDelivered) + Len(gEventCh') + Len(gPending') = gProduced
    <3>1. Len(gEventCh') = Len(gEventCh) + 1 /\ Len(gPending') = Len(gPending) - 1
      BY <1>2, <1>3
    <3> QED
      BY <1>4, <2>0, <3>1
  <2>3. gPending[1] = Len(gDelivered) + Len(gEventCh) + 1
    BY <1>2, <1>4, <2>1
  <2>4. GAt(Len(gDelivered) + (Len(gEventCh) + 1)) = Len(gDelivered) + Len(gEventCh) + 1
    BY <1>2, <1>4, <2>0 DEF GAt
  <2>5. ASSUME NEW i \in 1 .. Len(gEventCh') PROVE gEventCh'[i] = GAt(Len(gDelivered) + i)
    <3>1. CASE i \in 1 .. Len(gEventCh)
      BY <1>3, <2>1, <3>1
    <3>2. CASE i = Len(gEventCh) + 1
      BY <1>2, <1>3, <2>3, <2>4, <3>2
    <3> QED
      BY <1>3, <1>4, <3>1, <3>2
  <2>6. ASSUME NEW i \in 1 .. Len(gPending') PROVE gPending'[i] = Len(gDelivered) + Len(gEventCh') + i
    <3>1. gPending'[i] = gPending[i + 1] /\ i + 1 \in 1 .. Len(gPending)
      BY <1>2, <1>4
    <3>2. gPending[i + 1] = Len(gDelivered) + Len(gEventCh) + (i + 1)
      BY <2>1, <3>1
    <3> QED
      BY <1>3, <1>4, <3>1, <3>2
  <2> QED
    BY <2>2, <2>5, <2>6
<1>10. GInOrder'
  BY <1>1, <1>7, <1>8, <1>9 DEF GInv, GInOrder, Gemini!consumerVars
<1> QED
  BY <1>5, <1>6, <1>10 DEF GInv

LEMMA GIterError == ASSUME GInv, Gemini!IterError PROVE GInv'
<1>1. /\ gProducer = "iterate" /\ gProducer' = "return" /\ gVerdict' = "error" /\ gVerdict = "open"
      /\ gErrCh' = <<Err>> /\ gPending = <<>> /\ ~gDone
      /\ UNCHANGED <<gPending, gProduced, gEventCh, gClosed, Gemini!consumerVars>>
  <2>1. gProducer = "iterate" /\ gVerdict = "open" /\ gErrCh = <<>> /\ gPending = <<>> /\ ~gDone
    BY DEF Gemini!IterError, GInv, GControl
  <2>2. Append(<<>>, Err) = <<Err>>
    OBVIOUS
  <2> QED
    BY <2>1, <2>2 DEF Gemini!IterError
<1>2. Gemini!TypeOK'
  BY <1>1 DEF GInv, Gemini!TypeOK, Gemini!consumerVars
<1>3. GControl'
  BY <1>1 DEF GInv, GControl, Gemini!consumerVars
<1>4. GSent' = GSent /\ \A i : GAt(i)' = GAt(i)
  BY <1>1 DEF GSent, GAt
<1>5. GInOrder'
  BY <1>1, <1>4 DEF GInv, GInOrder, Gemini!consumerVars
<1> QED
  BY <1>2, <1>3, <1>5 DEF GInv

LEMMA GIterEnd == ASSUME GInv, Gemini!IterEnd PROVE GInv'
<1>1. /\ gProducer = "iterate" /\ gProducer' = "finish" /\ gVerdict' = "end" /\ gVerdict = "open" /\ ~gDone
      /\ UNCHANGED <<gPending, gProduced, gEventCh, gErrCh, gClosed, Gemini!consumerVars>>
  BY DEF Gemini!IterEnd, GInv, GControl
<1>2. Gemini!TypeOK'
  BY <1>1 DEF GInv, Gemini!TypeOK, Gemini!consumerVars
<1>3. GControl'
  BY <1>1 DEF GInv, GControl, Gemini!consumerVars
<1>4. GSent' = GSent /\ \A i : GAt(i)' = GAt(i)
  BY <1>1 DEF GSent, GAt
<1>5. GInOrder'
  BY <1>1, <1>4 DEF GInv, GInOrder, Gemini!consumerVars
<1> QED
  BY <1>2, <1>3, <1>5 DEF GInv

LEMMA GSendDone == ASSUME GInv, Gemini!SendDone PROVE GInv'
<1>1. /\ gProducer = "finish" /\ gProducer' = "return" /\ Len(gEventCh) < Cap
      /\ gEventCh' = Append(gEventCh, Gemini!Done) /\ gVerdict = "end" /\ gPending = <<>>
      /\ UNCHANGED <<gPending, gProduced, gVerdict, gErrCh, gClosed, Gemini!consumerVars>>
  BY DEF Gemini!SendDone, GInv, GControl
<1>2. /\ gEventCh' \in Seq(Gemini!Event \cup {Gemini!Done}) /\ Len(gEventCh') = Len(gEventCh) + 1
      /\ \A i \in 1 .. Len(gEventCh) : gEventCh'[i] = gEventCh[i]
      /\ gEventCh'[Len(gEventCh) + 1] = Gemini!Done
  BY <1>1, Added DEF GInv, Gemini!TypeOK
<1>3. Len(gDelivered) \in Nat /\ Len(gEventCh) \in Nat /\ Len(gPending) = 0 /\ gProduced \in Nat
  BY <1>1 DEF GInv, Gemini!TypeOK
<1>4. Gemini!TypeOK'
  BY <1>1, <1>2, <1>3, InferenceAssumption DEF GInv, Gemini!TypeOK, Gemini!consumerVars
<1>5. GControl'
  BY <1>1 DEF GInv, GControl, Gemini!consumerVars
<1>6. GSent = gProduced /\ GSent' = gProduced + 1
  BY <1>1, <1>3 DEF GSent
<1>7. \A i : GAt(i)' = GAt(i)
  BY <1>1 DEF GAt
<1>8. ASSUME gConsumer = "running"
      PROVE  /\ Len(gDelivered) + Len(gEventCh') + Len(gPending) = gProduced + 1
             /\ \A i \in 1 .. Len(gEventCh') : gEventCh'[i] = GAt(Len(gDelivered) + i)
  <2>1. Len(gDelivered) + Len(gEventCh) = gProduced
    BY <1>3, <1>6, <1>8 DEF GInv, GInOrder
  <2>2. \A i \in 1 .. Len(gEventCh) : gEventCh[i] = GAt(Len(gDelivered) + i)
    BY <1>8 DEF GInv, GInOrder
  <2>3. GAt(Len(gDelivered) + (Len(gEventCh) + 1)) = Gemini!Done
    BY <1>3, <2>1 DEF GAt
  <2>4. ASSUME NEW i \in 1 .. Len(gEventCh') PROVE gEventCh'[i] = GAt(Len(gDelivered) + i)
    <3>1. CASE i \in 1 .. Len(gEventCh)
      BY <1>2, <2>2, <3>1
    <3>2. CASE i = Len(gEventCh) + 1
      BY <1>2, <2>3, <3>2
    <3> QED
      BY <1>2, <1>3, <3>1, <3>2
  <2> QED
    BY <1>2, <1>3, <2>1, <2>4
<1>9. Len(gDelivered) <= gProduced + 1
  BY <1>3, <1>6 DEF GInv, GInOrder
<1>10. GInOrder'
  <2>1. gDelivered' = gDelivered /\ gConsumer' = gConsumer /\ gPending' = <<>> /\ gProduced' = gProduced
        /\ gDone' = gDone /\ gStreamErr' = gStreamErr
    BY <1>1 DEF Gemini!consumerVars
  <2> QED
    BY <1>1, <1>3, <1>6, <1>7, <1>8, <1>9, <2>1 DEF GInv, GInOrder
<1> QED
  BY <1>4, <1>5, <1>10 DEF GInv

LEMMA GCloseChannel == ASSUME GInv, Gemini!CloseChannel PROVE GInv'
<1>1. /\ gProducer = "return" /\ gProducer' = "stopped" /\ gClosed' = TRUE
      /\ UNCHANGED <<gPending, gProduced, gVerdict, gEventCh, gErrCh, Gemini!consumerVars>>
  BY DEF Gemini!CloseChannel
<1>2. Gemini!TypeOK'
  BY <1>1 DEF GInv, Gemini!TypeOK, Gemini!consumerVars
<1>3. GControl'
  BY <1>1 DEF GInv, GControl, Gemini!consumerVars
<1>4. GSent' = GSent /\ \A i : GAt(i)' = GAt(i)
  BY <1>1 DEF GSent, GAt
<1>5. GInOrder'
  BY <1>1, <1>4 DEF GInv, GInOrder, Gemini!consumerVars
<1> QED
  BY <1>2, <1>3, <1>5 DEF GInv

LEMMA GNextEvent ==
  ASSUME GInv, Gemini!NextEvent
  PROVE  GInv' /\ Head(gEventCh) = GAt(Len(gDelivered) + 1) /\ Len(gDelivered) < GSent
<1>1. /\ gConsumer = "running" /\ ~gDone /\ gEventCh # <<>>
      /\ gCurrentEvent' = Head(gEventCh) /\ gEventCh' = Tail(gEventCh)
      /\ gDelivered' = Append(gDelivered, Head(gEventCh))
      /\ UNCHANGED <<Gemini!producerVars, gErrCh, gClosed, gConsumer, gStreamErr, gDone>>
  BY DEF Gemini!NextEvent, Gemini!MayCallNext
<1>2. /\ Head(gEventCh) = gEventCh[1] /\ Head(gEventCh) \in Gemini!Event \cup {Gemini!Done}
      /\ gEventCh' \in Seq(Gemini!Event \cup {Gemini!Done}) /\ Len(gEventCh') = Len(gEventCh) - 1 /\ Len(gEventCh) >= 1
      /\ \A i \in 1 .. Len(gEventCh) - 1 : gEventCh'[i] = gEventCh[i + 1]
  BY <1>1, Taken DEF GInv, Gemini!TypeOK
<1>3. /\ gDelivered' \in Seq(Gemini!Event \cup {Gemini!Done}) /\ Len(gDelivered') = Len(gDelivered) + 1
      /\ \A i \in 1 .. Len(gDelivered) : gDelivered'[i] = gDelivered[i]
      /\ gDelivered'[Len(gDelivered) + 1] = Head(gEventCh)
  BY <1>1, <1>2, Added DEF GInv, Gemini!TypeOK
<1>4. Len(gDelivered) \in Nat /\ Len(gEventCh) \in Nat /\ Len(gPending) \in Nat /\ gProduced \in Nat
  BY DEF GInv, Gemini!TypeOK
<1>5. Gemini!TypeOK'
  BY <1>1, <1>2, <1>3, <1>4, InferenceAssumption DEF GInv, Gemini!TypeOK, Gemini!producerVars
<1>6. GControl'
  BY <1>1 DEF GInv, GControl, Gemini!producerVars
<1>7. GSent' = GSent /\ \A i : GAt(i)' = GAt(i)
  BY <1>1 DEF GSent, GAt, Gemini!producerVars
<1>8. Len(gDelivered) + Len(gEventCh) + Len(gPending) = GSent
  BY <1>1 DEF GInv, GInOrder
<1>9. /\ \A i \in 1 .. Len(gEventCh) : gEventCh[i] = GAt(Len(gDelivered) + i)
      /\ \A i \in 1 .. Len(gPending) : gPending[i] = Len(gDelivered) + Len(gEventCh) + i
      /\ \A i \in 1 .. Len(gDelivered) : gDelivered[i] = GAt(i)
  BY <1>1 DEF GInv, GInOrder
<1>10. Head(gEventCh) = GAt(Len(gDelivered) + 1) /\ Len(gDelivered) < GSent
  BY <1>2, <1>4, <1>8, <1>9
<1>11. Len(gDelivered') + Len(gEventCh') + Len(gPending) = GSent /\ Len(gDelivered') <= GSent
  <2>1. Len(gDelivered') = Len(gDelivered) + 1 /\ Len(gEventCh') = Len(gEventCh) - 1 /\ Len(gEventCh) >= 1
    BY <1>2, <1>3
  <2> QED
    BY <1>4, <1>8, <2>1
<1>12. ASSUME NEW i \in 1 .. Len(gDelivered') PROVE gDelivered'[i] = GAt(i)
  <2>1. CASE i \in 1 .. Len(gDelivered)
    BY <1>3, <1>9, <2>1
  <2>2. CASE i = Len(gDelivered) + 1
    BY <1>3, <1>10, <2>2
  <2> QED
    BY <1>3, <1>4, <2>1, <2>2
<1>13. ASSUME NEW i \in 1 .. Len(gEventCh') PROVE gEventCh'[i] = GAt(Len(gDelivered') + i)
  <2>1. gEventCh'[i] = gEventCh[i + 1] /\ i + 1 \in 1 .. Len(gEventCh)
    BY <1>2, <1>4
  <2>2. gEventCh[i + 1] = GAt(Len(gDelivered) + (i + 1))
    BY <1>9, <2>1
  <2>3. Len(gDelivered) + (i + 1) = Len(gDelivered') + i
    BY <1>3, <1>4
  <2> QED
    BY <2>1, <2>2, <2>3
<1>14. ASSUME NEW i \in 1 .. Len(gPending) PROVE gPending[i] = Len(gDelivered') + Len(gEventCh') + i
  <2>1. gPending[i] = Len(gDelivered) + Len(gEventCh) + i
    BY <1>9
  <2>2. Len(gDelivered') = Len(gDelivered) + 1 /\ Len(gEventCh') = Len(gEventCh) - 1
    BY <1>2, <1>3
  <2> QED
    BY <1>4, <2>1, <2>2
<1>15. GInOrder'
  <2>1. gPending' = gPending /\ ~gDone' /\ \A i : GAt(i)' = GAt(i)
    BY <1>1, <1>7 DEF Gemini!producerVars
  <2> QED
    BY <1>7, <1>11, <1>12, <1>13, <1>14, <2>1 DEF GInOrder
<1> QED
  BY <1>5, <1>6, <1>10, <1>15 DEF GInv

(* Next returns false.                                                     *)
LEMMA GNextFalse ==
  ASSUME GInv, Gemini!NextClosed \/ Gemini!NextError
  PROVE  /\ GInv' /\ ~gDone /\ gConsumer = "running"
         /\ gStreamErr' = Err => gVerdict = "error"
         /\ gDone'
<1>1. /\ gConsumer = "running" /\ ~gDone /\ gDone' = TRUE
      /\ UNCHANGED <<Gemini!producerVars, gEventCh, gClosed, gConsumer, gCurrentEvent, gDelivered>>
      /\ \/ gErrCh # <<>> /\ gStreamErr' = Head(gErrCh) /\ gErrCh' = Tail(gErrCh)
         \/ gClosed /\ gEventCh = <<>> /\ gErrCh = <<>> /\ gStreamErr' = gStreamErr /\ gErrCh' = gErrCh
  BY DEF Gemini!NextClosed, Gemini!NextError, Gemini!MayCallNext
<1>2. gStreamErr = NoErr
  BY <1>1 DEF GInv, Gemini!TypeOK, GControl
<1>3. \/ gVerdict = "error" /\ gStreamErr' = Err /\ gErrCh' = <<>>
      \/ gVerdict = "end" /\ gProducer = "stopped" /\ gEventCh = <<>> /\ gStreamErr' = NoErr /\ gErrCh' = <<>>
  <2>1. CASE gErrCh # <<>>
    <3>1. gErrCh = <<Err>> /\ gVerdict = "error"
      BY <2>1 DEF GInv, Gemini!TypeOK, GControl
    <3>2. Head(<<Err>>) = Err /\ Tail(<<Err>>) = <<>>
      OBVIOUS
    <3> QED
      BY <1>1, <3>1, <3>2
  <2>2. CASE gErrCh = <<>>
    BY <1>1, <1>2, <2>2 DEF GInv, Gemini!TypeOK, GControl
  <2> QED
    BY <2>1, <2>2
<1>4. Gemini!TypeOK'
  BY <1>1, <1>3 DEF GInv, Gemini!TypeOK, Gemini!producerVars
<1>5. GControl'
  BY <1>1, <1>2, <1>3, InferenceAssumption DEF GInv, GControl, Gemini!producerVars
<1>6. GSent' = GSent /\ \A i : GAt(i)' = GAt(i)
  BY <1>1 DEF GSent, GAt, Gemini!producerVars
<1>7. ASSUME gStreamErr' = NoErr PROVE Len(gDelivered) = gProduced + 1
  <2>1. gVerdict = "end" /\ gProducer = "stopped" /\ gEventCh = <<>>
    BY <1>3, <1>7, InferenceAssumption
  <2>2. gPending = <<>> /\ GSent = gProduced + 1
    BY <2>1 DEF GInv, GControl, GSent
  <2>3. Len(gDelivered) + Len(gEventCh) + Len(gPending) = GSent
    BY <1>1 DEF GInv, GInOrder
  <2>4. Len(gEventCh) = 0 /\ Len(gPending) = 0 /\ Len(gDelivered) \in Nat /\ gProduced \in Nat
    BY <2>1, <2>2 DEF GInv, Gemini!TypeOK
  <2> QED
    BY <2>2, <2>3, <2>4
<1>8. GInOrder'
  BY <1>1, <1>6, <1>7 DEF GInv, GInOrder, Gemini!producerVars
<1> QED
  BY <1>1, <1>3, <1>4, <1>5, <1>8, InferenceAssumption DEF GInv

LEMMA GClose == ASSUME GInv, Gemini!Close \/ Gemini!Drain PROVE GInv'
<1>1. /\ gConsumer' \in {"draining", "closed"}
      /\ gEventCh' = gEventCh \/ (gEventCh # <<>> /\ gEventCh' = Tail(gEventCh))
      /\ UNCHANGED <<Gemini!producerVars, gErrCh, gClosed, gCurrentEvent, gStreamErr, gDone, gDelivered>>
  BY DEF Gemini!Close, Gemini!Drain
<1>2. gEventCh' \in Seq(Gemini!Event \cup {Gemini!Done}) /\ Len(gEventCh') <= Cap
  <2>1. CASE gEventCh' = gEventCh
    BY <2>1 DEF GInv, Gemini!TypeOK
  <2>2. CASE gEventCh # <<>> /\ gEventCh' = Tail(gEventCh)
    <3>1. gEventCh' \in Seq(Gemini!Event \cup {Gemini!Done}) /\ Len(gEventCh') = Len(gEventCh) - 1 /\ Len(gEventCh) >= 1
      BY <2>2, Taken DEF GInv, Gemini!TypeOK
    <3>2. Len(gEventCh) \in Nat /\ Len(gEventCh) <= Cap
      BY DEF GInv, Gemini!TypeOK
    <3> QED
      BY <3>1, <3>2, InferenceAssumption
  <2> QED
    BY <1>1, <2>1, <2>2
<1>3. Gemini!TypeOK'
  BY <1>1, <1>2 DEF GInv, Gemini!TypeOK, Gemini!producerVars
<1>4. GControl'
  BY <1>1 DEF GInv, GControl, Gemini!producerVars
<1>5. GSent' = GSent /\ \A i : GAt(i)' = GAt(i)
  BY <1>1 DEF GSent, GAt, Gemini!producerVars
<1>6. GInOrder'
  BY <1>1, <1>5 DEF GInv, GInOrder, Gemini!producerVars
<1> QED
  BY <1>3, <1>4, <1>6 DEF GInv

LEMMA GStutter == ASSUME GInv, UNCHANGED Gemini!vars PROVE GInv'
<1>1. Gemini!TypeOK' /\ GControl'
  BY DEF Gemini!vars, Gemini!producerVars, Gemini!consumerVars, GInv, Gemini!TypeOK, GControl
<1>2. GInOrder'
  BY DEF Gemini!vars, Gemini!producerVars, Gemini!consumerVars, GInv, GInOrder, GSent, GAt
<1> QED
  BY <1>1, <1>2 DEF GInv

-----------------------------------------------------------------------------
(* The invariant, for every capacity and every number of events.           *)
LEMMA GeminiInvariant == Spec => []GInv
<1>1. Init => GInv
  BY GInit DEF Init
<1>2. GInv /\ [Next]_vars => GInv'
  <2>1. GInv /\ UNCHANGED geminiVars => GInv'
    BY GStutter DEF geminiVars, Gemini!vars, Gemini!producerVars, Gemini!consumerVars
  <2>2. GInv /\ Gemini!Next => GInv'
    BY GRespond, GSendEvent, GIterError, GIterEnd, GSendDone, GCloseChannel,
       GNextEvent, GNextFalse, GClose, GStutter
    DEF Gemini!Next, Gemini!Terminated
  <2> QED
    BY <2>1, <2>2, OnePart
<1> QED
  BY <1>1, <1>2, PTL DEF Spec

LEMMA Numbers ==
  ASSUME NEW n \in Nat, n <= MaxEvents, MaxEvents \in Nat
  PROVE  /\ [i \in 1 .. n |-> i] \in Seq(Gemini!Event) /\ [i \in 1 .. n |-> i] \in Seq(Gemini!Event \cup {Gemini!Done})
         /\ Len([i \in 1 .. n |-> i]) = n
         /\ \A i \in 1 .. n : [j \in 1 .. n |-> j][i] = i
<1>1. \A i \in 1 .. n : i \in Gemini!Event
  BY DEF Gemini!Event
<1> QED
  BY <1>1

(* The stream as one sequence.                                             *)
LEMMA GSource ==
  ASSUME Gemini!TypeOK
  PROVE  /\ Gemini!source \in Seq(Gemini!Event \cup {Gemini!Done})
         /\ Len(Gemini!source) = gProduced + (IF gVerdict = "end" THEN 1 ELSE 0)
         /\ \A i \in 1 .. Len(Gemini!source) : Gemini!source[i] = GAt(i)
<1> DEFINE numbers == [i \in 1 .. gProduced |-> i]
<1>1. gProduced \in Nat /\ gProduced <= MaxEvents
  BY DEF Gemini!TypeOK
<1>2. /\ numbers \in Seq(Gemini!Event) /\ numbers \in Seq(Gemini!Event \cup {Gemini!Done})
      /\ Len(numbers) = gProduced /\ \A i \in 1 .. gProduced : numbers[i] = i
  BY <1>1, Numbers, InferenceAssumption
<1> HIDE DEF numbers
<1>3. CASE gVerdict = "end"
  <2>1. Gemini!source = numbers \o <<Gemini!Done>>
    BY <1>3 DEF Gemini!source, numbers
  <2>2. numbers \in Seq(Gemini!Event \cup {Gemini!Done}) /\ <<Gemini!Done>> \in Seq(Gemini!Event \cup {Gemini!Done}) /\ Len(<<Gemini!Done>>) = 1
    BY <1>2
  <2>3. Gemini!source \in Seq(Gemini!Event \cup {Gemini!Done}) /\ Len(Gemini!source) = gProduced + 1
    BY <1>2, <2>1, <2>2
  <2>4. \A i \in 1 .. gProduced : Gemini!source[i] = i
    BY <1>1, <1>2, <2>1, <2>2
  <2>5. Gemini!source[gProduced + 1] = Gemini!Done
    BY <1>1, <1>2, <2>1, <2>2
  <2> QED
    BY <1>1, <1>3, <2>3, <2>4, <2>5 DEF GAt
<1>4. CASE gVerdict # "end"
  <2>1. Gemini!source = numbers \o <<>>
    BY <1>4 DEF Gemini!source, numbers
  <2>2. Gemini!source = numbers
    BY <1>2, <2>1
  <2> QED
    BY <1>1, <1>2, <1>4, <2>2 DEF GAt
<1> QED
  BY <1>3, <1>4

LEMMA GAllDelivered ==
  ASSUME GInv, gVerdict = "end", Len(gDelivered) = gProduced + 1 PROVE gDelivered = Gemini!source
<1>1. /\ Gemini!source \in Seq(Gemini!Event \cup {Gemini!Done}) /\ Len(Gemini!source) = Len(gDelivered)
      /\ \A i \in 1 .. Len(Gemini!source) : Gemini!source[i] = GAt(i)
  BY GSource DEF GInv
<1>2. gDelivered \in Seq(Gemini!Event \cup {Gemini!Done}) /\ \A i \in 1 .. Len(gDelivered) : gDelivered[i] = GAt(i)
  BY DEF GInv, Gemini!TypeOK, GInOrder
<1> QED
  BY <1>1, <1>2, SameSequence

(* Next returns false without an error only after the last event.          *)
THEOREM GeminiTruncatesNothing == Spec => []Gemini!NoSilentTruncation
<1>1. GInv => Gemini!NoSilentTruncation
  BY GAllDelivered DEF GInv, GControl, GInOrder, Gemini!NoSilentTruncation
<1> QED
  BY <1>1, GeminiInvariant, PTL

(* Until Close, every event was delivered, is buffered or waits, in order. *)
THEOREM GeminiSkipsNothing == Spec => []Gemini!NothingSkipped
<1>1. ASSUME GInv, gConsumer = "running", gVerdict # "error"
      PROVE  gDelivered \o gEventCh \o gPending = [i \in 1 .. gProduced |-> i]
               \o (IF gVerdict = "end" /\ gProducer # "finish" THEN <<Gemini!Done>> ELSE <<>>)
  <2> DEFINE numbers == [i \in 1 .. gProduced |-> i]
             last == IF gVerdict = "end" /\ gProducer # "finish" THEN <<Gemini!Done>> ELSE <<>>
             D == Gemini!Event \cup {Gemini!Done}
  <2>1. gProduced \in Nat /\ gProduced <= MaxEvents
    BY <1>1 DEF GInv, Gemini!TypeOK
  <2>2. numbers \in Seq(D) /\ Len(numbers) = gProduced /\ \A i \in 1 .. gProduced : numbers[i] = i
    BY <2>1, Numbers, InferenceAssumption
  <2>3. last \in Seq(D) /\ Len(last) = (IF gVerdict = "end" /\ gProducer # "finish" THEN 1 ELSE 0)
        /\ \A i \in 1 .. Len(last) : last[i] = Gemini!Done
    <3>1. CASE gVerdict = "end" /\ gProducer # "finish"
      <4>1. last = <<Gemini!Done>>
        BY <3>1
      <4>2. <<Gemini!Done>> \in Seq(D) /\ Len(<<Gemini!Done>>) = 1 /\ <<Gemini!Done>>[1] = Gemini!Done
        OBVIOUS
      <4> HIDE DEF last
      <4> QED
        BY <3>1, <4>1, <4>2
    <3>2. CASE ~(gVerdict = "end" /\ gProducer # "finish")
      <4>1. last = <<>>
        BY <3>2
      <4>2. <<>> \in Seq(D) /\ Len(<<>>) = 0
        OBVIOUS
      <4> HIDE DEF last
      <4> QED
        BY <3>2, <4>1, <4>2
    <3> QED
      BY <3>1, <3>2
  <2>4. gDelivered \in Seq(D) /\ gEventCh \in Seq(D) /\ gPending \in Seq(D)
    BY <1>1 DEF GInv, Gemini!TypeOK
  <2>5. /\ Len(gDelivered) + Len(gEventCh) + Len(gPending) = gProduced + Len(last)
        /\ \A i \in 1 .. Len(gDelivered) : gDelivered[i] = GAt(i)
        /\ \A i \in 1 .. Len(gEventCh) : gEventCh[i] = GAt(Len(gDelivered) + i)
        /\ \A i \in 1 .. Len(gPending) : gPending[i] = Len(gDelivered) + Len(gEventCh) + i
    BY <1>1, <2>3 DEF GInv, GInOrder, GSent
  <2>6. gPending # <<>> => last = <<>>
    BY <1>1 DEF GInv, GControl
  <2> HIDE DEF numbers, last, D
  <2> DEFINE left == gDelivered \o gEventCh \o gPending
             right == numbers \o last
  <2>7. /\ left \in Seq(D) /\ right \in Seq(D)
        /\ Len(left) = Len(gDelivered) + Len(gEventCh) + Len(gPending)
        /\ Len(right) = gProduced + Len(last)
    <3>1. gDelivered \o gEventCh \in Seq(D) /\ Len(gDelivered \o gEventCh) = Len(gDelivered) + Len(gEventCh)
      BY <2>4
    <3>2. left \in Seq(D) /\ Len(left) = Len(gDelivered) + Len(gEventCh) + Len(gPending)
      BY <2>4, <3>1
    <3>3. numbers \in Seq(D) /\ last \in Seq(D)
      BY <2>2, <2>3
    <3>4. right \in Seq(D) /\ Len(right) = Len(numbers) + Len(last)
      BY <3>3
    <3> QED
      BY <2>2, <3>2, <3>4
  <2>8. \A i \in 1 .. Len(right) : right[i] = GAt(i)
    <3>1. ASSUME NEW i \in 1 .. Len(right) PROVE right[i] = GAt(i)
      <4>1. CASE i <= gProduced
        BY <2>1, <2>2, <2>3, <2>7, <4>1 DEF GAt
      <4>2. CASE i > gProduced
        <5>1. right[i] = last[i - gProduced] /\ i - gProduced \in 1 .. Len(last)
          BY <2>1, <2>2, <2>3, <2>7, <4>2
        <5> QED
          BY <2>1, <2>3, <4>2, <5>1 DEF GAt
      <4> QED
        BY <2>1, <4>1, <4>2
    <3> QED
      BY <3>1
  <2>9. Len(gDelivered) \in Nat /\ Len(gEventCh) \in Nat /\ Len(gPending) \in Nat /\ Len(last) \in Nat
    BY <2>3, <2>4
  <2>10. ASSUME NEW i \in 1 .. Len(left) PROVE left[i] = GAt(i)
    <3>1. CASE i <= Len(gDelivered)
      <4>1. left[i] = gDelivered[i]
        BY <2>4, <2>7, <2>9, <3>1
      <4> QED
        BY <2>5, <2>9, <3>1, <4>1
    <3>2. CASE i > Len(gDelivered) /\ i <= Len(gDelivered) + Len(gEventCh)
      <4>1. left[i] = gEventCh[i - Len(gDelivered)] /\ i - Len(gDelivered) \in 1 .. Len(gEventCh)
        BY <2>4, <2>7, <2>9, <3>2
      <4>2. Len(gDelivered) + (i - Len(gDelivered)) = i
        BY <2>9
      <4> QED
        BY <2>5, <4>1, <4>2
    <3>3. CASE i > Len(gDelivered) + Len(gEventCh)
      <4> DEFINE k == i - (Len(gDelivered) + Len(gEventCh))
      <4>1. left[i] = gPending[k] /\ k \in 1 .. Len(gPending)
        BY <2>4, <2>7, <2>9, <3>3
      <4>2. gPending[k] = Len(gDelivered) + Len(gEventCh) + k
        BY <2>5, <4>1
      <4>3. Len(gDelivered) + Len(gEventCh) + k = i
        BY <2>9
      <4>4. last = <<>> /\ Len(last) = 0
        BY <2>6, <2>4, <4>1
      <4>5. i <= gProduced
        BY <2>1, <2>5, <2>7, <4>4
      <4> QED
        BY <4>1, <4>2, <4>3, <4>5 DEF GAt
    <3> QED
      BY <2>9, <3>1, <3>2, <3>3
  <2>11. left = right
    BY <2>5, <2>7, <2>8, <2>10, SameSequence
  <2> QED
    BY <2>11 DEF numbers, last
<1>2. GInv => Gemini!NothingSkipped
  BY <1>1 DEF Gemini!NothingSkipped
<1> QED
  BY <1>2, GeminiInvariant, PTL

-----------------------------------------------------------------------------
(* The contract's variables change where the iterator's state does.        *)
LEMMA GSourceKept ==
  ASSUME gProduced' = gProduced, gVerdict' = "end" <=> gVerdict = "end" PROVE Gemini!source' = Gemini!source
  BY DEF Gemini!source

LEMMA GOutcomeKept ==
  ASSUME gConsumer' = gConsumer, gDone' = gDone, gStreamErr' = gStreamErr PROVE Gemini!outcome' = Gemini!outcome
  BY DEF Gemini!outcome

(* The source of a response that goes on holds no final event.             *)
LEMMA GIncomplete == ASSUME Gemini!TypeOK, gVerdict = "open" PROVE ~Gemini!Contract!Complete
<1>1. Len(Gemini!source) = gProduced /\ gProduced \in Nat /\ \A i \in 1 .. Len(Gemini!source) : Gemini!source[i] = GAt(i)
  BY GSource DEF Gemini!TypeOK
<1>2. ASSUME Gemini!source # <<>>, Gemini!source[Len(Gemini!source)] = Gemini!Done PROVE FALSE
  <2>1. Len(Gemini!source) >= 1
    BY <1>1, <1>2, GSource
  <2>2. Gemini!source[Len(Gemini!source)] = gProduced
    BY <1>1, <2>1 DEF GAt
  <2> QED
    BY <1>1, <1>2, <2>1, <2>2 DEF Gemini!Done
<1> QED
  BY <1>2 DEF Gemini!Contract!Complete

LEMMA GRespondProduces == ASSUME GInv, GInv', Gemini!Respond PROVE Gemini!Contract!Produce
<1>1. PICK n \in 0 .. MaxParts :
        gPending' = [i \in 1 .. n |-> gProduced + i] /\ gProduced' = gProduced + n
  BY DEF Gemini!Respond
<1>2. gVerdict = "open" /\ gVerdict' = "open" /\ UNCHANGED Gemini!consumerVars
  BY DEF Gemini!Respond, GInv, GControl
<1>3. gPending' \in [1 .. n -> Gemini!Event]
  <2>1. gPending' \in Seq(Gemini!Event) /\ DOMAIN gPending' = 1 .. n
    BY <1>1 DEF GInv, Gemini!TypeOK
  <2> QED
    BY <2>1
<1>4. gProduced \in Nat /\ n \in Nat /\ gProduced' \in Nat /\ gProduced' <= MaxEvents /\ MaxEvents \in Nat
  BY <1>1, InferenceAssumption DEF GInv, Gemini!TypeOK
<1>5. /\ Gemini!source \in Seq(Gemini!Event \cup {Gemini!Done}) /\ Len(Gemini!source) = gProduced
      /\ \A i \in 1 .. gProduced : Gemini!source[i] = i
  BY <1>2, <1>4, GSource DEF GInv, GAt
<1>6. /\ Gemini!source' \in Seq(Gemini!Event \cup {Gemini!Done}) /\ Len(Gemini!source') = gProduced + n
      /\ \A i \in 1 .. gProduced + n : Gemini!source'[i] = i
  <2>1. /\ [i \in 1 .. gProduced' |-> i] \in Seq(Gemini!Event \cup {Gemini!Done})
        /\ Len([i \in 1 .. gProduced' |-> i]) = gProduced'
        /\ \A i \in 1 .. gProduced' : [j \in 1 .. gProduced' |-> j][i] = i
    BY <1>4, Numbers
  <2>2. Gemini!source' = [i \in 1 .. gProduced' |-> i] \o <<>>
    BY <1>2 DEF Gemini!source
  <2>3. Gemini!source' = [i \in 1 .. gProduced' |-> i]
    BY <2>1, <2>2
  <2> QED
    BY <1>1, <2>1, <2>3
<1>7. Gemini!source' = Gemini!source \o gPending'
  <2> DEFINE both == Gemini!source \o gPending'
  <2>1. /\ gPending' \in Seq(Gemini!Event \cup {Gemini!Done}) /\ Len(gPending') = n
        /\ \A i \in 1 .. n : gPending'[i] = gProduced + i
    BY <1>1, <1>3, <1>4
  <2>2. /\ both \in Seq(Gemini!Event \cup {Gemini!Done}) /\ Len(both) = Len(Gemini!source) + Len(gPending')
        /\ \A i \in 1 .. Len(Gemini!source) : both[i] = Gemini!source[i]
        /\ \A i \in 1 .. Len(gPending') : both[Len(Gemini!source) + i] = gPending'[i]
    <3>1. Gemini!source \in Seq(Gemini!Event \cup {Gemini!Done}) /\ gPending' \in Seq(Gemini!Event \cup {Gemini!Done})
      BY <1>5, <2>1
    <3>2. both \in Seq(Gemini!Event \cup {Gemini!Done})
      BY <3>1
    <3>3. Len(both) = Len(Gemini!source) + Len(gPending')
      BY <3>1
    <3>4. \A i \in 1 .. Len(Gemini!source) : both[i] = Gemini!source[i]
      BY <3>1
    <3>5. \A i \in 1 .. Len(gPending') : both[Len(Gemini!source) + i] = gPending'[i]
      BY <3>1
    <3> QED
      BY <3>2, <3>3, <3>4, <3>5
  <2> HIDE DEF both
  <2>3. ASSUME NEW i \in 1 .. gProduced + n PROVE both[i] = i
    <3>1. CASE i \in 1 .. gProduced
      BY <1>5, <2>2, <3>1
    <3>2. CASE i \in gProduced + 1 .. gProduced + n
      <4>1. i - gProduced \in 1 .. n /\ gProduced + (i - gProduced) = i
        BY <1>4, <3>2
      <4>2. gPending'[i - gProduced] = i
        BY <2>1, <4>1
      <4>3. both[gProduced + (i - gProduced)] = gPending'[i - gProduced]
        BY <1>5, <2>1, <2>2, <4>1
      <4> QED
        BY <4>1, <4>2, <4>3
    <3>3. i \in 1 .. gProduced \/ i \in gProduced + 1 .. gProduced + n
      BY <1>4
    <3> QED
      BY <3>1, <3>2, <3>3
  <2>4. Len(both) = gProduced + n
    BY <1>5, <2>1, <2>2
  <2>5. Gemini!source' = both
    BY <1>6, <2>2, <2>3, <2>4, SameSequence
  <2> QED
    BY <2>5 DEF both
<1>8. ~Gemini!Contract!Complete
  BY <1>2, GIncomplete DEF GInv
<1>9. Gemini!outcome' = Gemini!outcome /\ gDelivered' = gDelivered
  BY <1>2, GOutcomeKept DEF Gemini!consumerVars
<1> QED
  BY <1>2, <1>3, <1>7, <1>8, <1>9 DEF Gemini!Contract!Produce

LEMMA GIterEndIsLast == ASSUME GInv, GInv', Gemini!IterEnd PROVE Gemini!Contract!Last
<1>1. gVerdict = "open" /\ gVerdict' = "end" /\ gProduced' = gProduced /\ UNCHANGED Gemini!consumerVars
  BY DEF Gemini!IterEnd, GInv, GControl
<1>2. Gemini!outcome' = Gemini!outcome /\ gDelivered' = gDelivered
  BY <1>1, GOutcomeKept DEF Gemini!consumerVars
<1>3. ~Gemini!Contract!Complete
  BY <1>1, GIncomplete DEF GInv
<1>4. gProduced \in Nat /\ gProduced <= MaxEvents /\ MaxEvents \in Nat
  BY InferenceAssumption DEF GInv, Gemini!TypeOK
<1>5. /\ Gemini!source \in Seq(Gemini!Event \cup {Gemini!Done}) /\ Len(Gemini!source) = gProduced
      /\ \A i \in 1 .. gProduced : Gemini!source[i] = i
  BY <1>1, <1>4, GSource DEF GInv, GAt
<1>6. Gemini!source' = [i \in 1 .. gProduced |-> i] \o <<Gemini!Done>>
  BY <1>1 DEF Gemini!source
<1>7. Gemini!source = [i \in 1 .. gProduced |-> i]
  <2>1. Gemini!source = [i \in 1 .. gProduced |-> i] \o <<>>
    BY <1>1 DEF Gemini!source
  <2>2. [i \in 1 .. gProduced |-> i] \in Seq(Gemini!Event)
    BY <1>4, Numbers
  <2> QED
    BY <2>1, <2>2
<1>8. Gemini!source' = Gemini!source \o <<Gemini!Done>>
  BY <1>6, <1>7
<1>9. Gemini!source \o <<Gemini!Done>> = Append(Gemini!source, Gemini!Done)
  BY <1>5
<1> QED
  BY <1>1, <1>2, <1>3, <1>8, <1>9 DEF Gemini!Contract!Last

LEMMA GNextEventDelivers == ASSUME GInv, Gemini!NextEvent PROVE Gemini!Contract!Deliver
<1>1. /\ gConsumer = "running" /\ ~gDone /\ gDelivered' = Append(gDelivered, Head(gEventCh))
      /\ UNCHANGED <<Gemini!producerVars, gConsumer, gStreamErr, gDone>>
  BY DEF Gemini!NextEvent, Gemini!MayCallNext
<1>2. Gemini!source' = Gemini!source /\ gVerdict' = gVerdict
  BY <1>1, GSourceKept DEF Gemini!producerVars
<1>3. Gemini!outcome = "open" /\ Gemini!outcome' = "open"
  BY <1>1 DEF Gemini!outcome
<1>4. Head(gEventCh) = GAt(Len(gDelivered) + 1) /\ Len(gDelivered) < GSent
  BY GNextEvent
<1>5. /\ Len(Gemini!source) = gProduced + (IF gVerdict = "end" THEN 1 ELSE 0)
      /\ \A i \in 1 .. Len(Gemini!source) : Gemini!source[i] = GAt(i)
  BY GSource DEF GInv
<1>6. Len(gDelivered) \in Nat /\ gProduced \in Nat
  BY DEF GInv, Gemini!TypeOK
<1>7. Len(Gemini!source) \in Nat /\ GSent <= Len(Gemini!source) /\ GSent \in Nat
  BY <1>5, <1>6 DEF GSent
<1>8. Len(gDelivered) < Len(Gemini!source) /\ Gemini!source[Len(gDelivered) + 1] = Head(gEventCh)
  BY <1>4, <1>5, <1>6, <1>7
<1> QED
  BY <1>1, <1>2, <1>3, <1>8 DEF Gemini!Contract!Deliver

LEMMA GNextFalseReports ==
  ASSUME GInv, GInv', Gemini!NextClosed \/ Gemini!NextError
  PROVE  Gemini!Contract!ReportEnd \/ Gemini!Contract!ReportError
<1>1. /\ UNCHANGED <<Gemini!producerVars, gConsumer, gDelivered>> /\ gConsumer = "running" /\ ~gDone /\ gDone'
      /\ gStreamErr' = Err => gVerdict = "error"
  BY GNextFalse DEF Gemini!NextClosed, Gemini!NextError
<1>2. Gemini!source' = Gemini!source /\ gVerdict' = gVerdict
  BY <1>1, GSourceKept DEF Gemini!producerVars
<1>3. Gemini!outcome = "open" /\ Gemini!outcome' = (IF gStreamErr' = NoErr THEN "end" ELSE "error")
  BY <1>1 DEF Gemini!outcome
<1>4. CASE gStreamErr' = NoErr
  <2>1. gVerdict = "end" /\ Len(gDelivered) = gProduced + 1
    BY <1>1, <1>4 DEF GInv, GControl, GInOrder, Gemini!producerVars
  <2>2. gDelivered = Gemini!source
    BY <2>1, GAllDelivered
  <2> QED
    BY <1>1, <1>2, <1>3, <1>4, <2>1, <2>2 DEF Gemini!Contract!ReportEnd
<1>5. CASE gStreamErr' # NoErr
  <2>1. gVerdict = "error"
    BY <1>1, <1>5 DEF GInv, Gemini!TypeOK
  <2> QED
    BY <1>1, <1>2, <1>3, <1>5, <2>1 DEF Gemini!Contract!ReportError
<1> QED
  BY <1>4, <1>5

LEMMA GRefines ==
  ASSUME GInv, GInv', [Gemini!Next]_(Gemini!vars)
  PROVE  [Gemini!Contract!Next]_(Gemini!Contract!vars)
<1>1. CASE Gemini!Respond
  BY <1>1, GRespondProduces DEF Gemini!Contract!Next
<1>2. CASE Gemini!SendEvent \/ Gemini!SendDone \/ Gemini!CloseChannel
  <2>1. gProduced' = gProduced /\ gVerdict' = gVerdict /\ UNCHANGED Gemini!consumerVars
    BY <1>2 DEF Gemini!SendEvent, Gemini!SendDone, Gemini!CloseChannel
  <2> QED
    BY <2>1, GSourceKept, GOutcomeKept DEF Gemini!Contract!vars, Gemini!consumerVars
<1>3. CASE Gemini!IterError
  <2>1. gProduced' = gProduced /\ gVerdict = "open" /\ gVerdict' = "error" /\ UNCHANGED Gemini!consumerVars
    BY <1>3 DEF Gemini!IterError, GInv, GControl
  <2>2. Gemini!source' = Gemini!source /\ Gemini!outcome' = Gemini!outcome /\ gDelivered' = gDelivered
    BY <2>1, GSourceKept, GOutcomeKept DEF Gemini!consumerVars
  <2> QED
    BY <2>1, <2>2 DEF Gemini!Contract!Finish, Gemini!Contract!Next
<1>4. CASE Gemini!IterEnd
  BY <1>4, GIterEndIsLast DEF Gemini!Contract!Next
<1>5. CASE Gemini!NextEvent
  BY <1>5, GNextEventDelivers DEF Gemini!Contract!Next
<1>6. CASE Gemini!NextClosed \/ Gemini!NextError
  BY <1>6, GNextFalseReports DEF Gemini!Contract!Next
<1>7. CASE Gemini!Close
  <2>1. Gemini!outcome # "closed" /\ Gemini!outcome' = "closed"
    BY <1>7 DEF Gemini!Close, Gemini!outcome
  <2>2. Gemini!source' = Gemini!source /\ gVerdict' = gVerdict /\ gDelivered' = gDelivered
    BY <1>7, GSourceKept DEF Gemini!Close, Gemini!producerVars
  <2> QED
    BY <2>1, <2>2 DEF Gemini!Contract!Close, Gemini!Contract!Next
<1>8. CASE Gemini!Drain
  <2>1. Gemini!outcome = "closed" /\ Gemini!outcome' = "closed"
    BY <1>8 DEF Gemini!Drain, Gemini!outcome
  <2>2. Gemini!source' = Gemini!source /\ gVerdict' = gVerdict /\ gDelivered' = gDelivered
    BY <1>8, GSourceKept DEF Gemini!Drain, Gemini!producerVars
  <2> QED
    BY <2>1, <2>2 DEF Gemini!Contract!vars
<1>9. CASE UNCHANGED Gemini!vars
  BY <1>9, GSourceKept, GOutcomeKept DEF Gemini!Contract!vars, Gemini!vars, Gemini!producerVars, Gemini!consumerVars
<1> QED
  BY <1>1, <1>2, <1>3, <1>4, <1>5, <1>6, <1>7, <1>8, <1>9 DEF Gemini!Next, Gemini!Terminated

(* Goroutine, channels and iterator together are a CompletionStream.       *)
THEOREM GeminiImplementsContract == Spec => Gemini!ImplementsContract
<1>1. Gemini!Init => Gemini!Contract!Init
  <2> SUFFICES ASSUME Gemini!Init PROVE Gemini!Contract!Init
    OBVIOUS
  <2>1. Gemini!source = <<>>
    <3>1. GInv
      BY GInit
    <3>2. Gemini!source \in Seq(Gemini!Event \cup {Gemini!Done}) /\ Len(Gemini!source) = 0
      BY <3>1, GSource DEF GInv, Gemini!Init
    <3> QED
      BY <3>2
  <2> QED
    BY <2>1 DEF Gemini!Init, Gemini!Contract!Init, Gemini!outcome
<1>2. GInv /\ GInv' /\ [Next]_vars => [Gemini!Contract!Next]_(Gemini!Contract!vars)
  <2>1. UNCHANGED geminiVars => UNCHANGED Gemini!vars
    BY DEF geminiVars, Gemini!vars, Gemini!producerVars, Gemini!consumerVars
  <2> QED
    BY <2>1, GRefines, OnePart
<1>3. Init => Gemini!Contract!Init
  BY <1>1 DEF Init
<1> QED
  BY <1>2, <1>3, GeminiInvariant, PTL DEF Spec, Gemini!ImplementsContract, Gemini!Contract!Spec

-----------------------------------------------------------------------------
(* OPENAI.  What waits on the wire is related to the stream by reading it: *)
(* at[i] and call[i] are the number of events and the current tool call    *)
(* after the first i of its items.                                         *)
OWire == [kind : {"text", "call", "args", "done", "failed", "other"},
          n : 0 .. MaxEvents, call : 0 .. MaxEvents]
OEvents == OpenAI!Event \cup {OpenAI!Done}
OIdle(item) == item.kind \in {"other", "failed"}
OCall(item, call) == IF item.kind = "call" THEN item.call ELSE call
OEvent(item, call) ==
  IF item.kind = "done" THEN OpenAI!Done
  ELSE [n |-> item.n, call |-> IF item.kind = "text" THEN 0 ELSE OCall(item, call)]

OReads(at, call) ==
  /\ at[0] = Len(oDelivered) /\ call[0] = oCurrentToolCall
  /\ \A i \in 1 .. Len(oWire) :
       /\ at[i] = IF OIdle(oWire[i]) THEN at[i - 1] ELSE at[i - 1] + 1
       /\ call[i] = OCall(oWire[i], call[i - 1])
       /\ ~OIdle(oWire[i]) => oSource[at[i]] = OEvent(oWire[i], call[i - 1])
       /\ oWire[i].kind = "failed" => at[i] = Len(oSource)
  /\ oWireEnd # "broken" => at[Len(oWire)] = Len(oSource) /\ call[Len(oWire)] = oCalling

OReading ==
  \E at \in [0 .. Len(oWire) -> 0 .. Len(oSource)], call \in [0 .. Len(oWire) -> 0 .. oCalling] :
    OReads(at, call)

OType ==
  /\ oWire \in Seq(OWire) /\ oSource \in Seq(OEvents) /\ oDelivered \in Seq(OEvents)
  /\ oWireEnd \in {"open", "eof", "broken"} /\ oFinal \in {"none", "done", "failed"}
  /\ oCalling \in 0 .. MaxEvents /\ oCurrentToolCall \in 0 .. oCalling
  /\ oPc \in {"idle", "pulling", "closed"} /\ oDone \in BOOLEAN
  /\ oCurrentEvent \in OEvents \cup {OpenAI!NoEvent}
  /\ oStreamErr \in {Failure, Broken, NoErr}

(* Before the final event the source holds no other final one.             *)
OSource ==
  /\ oCalling <= Len(oSource)
  /\ oFinal # "done" =>
       Len(oSource) <= MaxEvents /\ \A i \in 1 .. Len(oSource) : oSource[i] \in OpenAI!Event
  /\ Len(oDelivered) <= Len(oSource)
  /\ \A i \in 1 .. Len(oDelivered) : oDelivered[i] = oSource[i]

OControl ==
  /\ oDone => oPc # "pulling"
  /\ oStreamErr # NoErr => oDone
  /\ oDone /\ oStreamErr = NoErr => oWireEnd = "eof"
  /\ oDone /\ oStreamErr \notin {NoErr, Broken} => oFinal = "failed"
  /\ oDone /\ oStreamErr # Broken => Len(oDelivered) = Len(oSource)
  /\ \A i \in 1 .. Len(oWire) : oWire[i].kind = "failed" => oFinal = "failed"
  /\ oFinal = "failed" /\ ~oDone /\ oWireEnd # "broken" =>
       oWire # <<>> /\ oWire[Len(oWire)].kind = "failed"

OInv == OType /\ OSource /\ OControl /\ OReading

LEMMA OInit == ASSUME OpenAI!Init PROVE OInv
<1>1. OType
  <2>1. <<>> \in Seq(OWire) /\ <<>> \in Seq(OEvents)
    OBVIOUS
  <2>2. oWire \in Seq(OWire) /\ oSource \in Seq(OEvents) /\ oDelivered \in Seq(OEvents)
    BY <2>1 DEF OpenAI!Init
  <2>3. oCurrentEvent \in OEvents \cup {OpenAI!NoEvent}
    BY DEF OpenAI!Init
  <2>4. oCalling \in 0 .. MaxEvents /\ oCurrentToolCall \in 0 .. oCalling
    BY InferenceAssumption DEF OpenAI!Init, OpenAI!NoCall
  <2> QED
    BY <2>2, <2>3, <2>4 DEF OpenAI!Init, OType
<1>2. OSource /\ OControl
  BY InferenceAssumption DEF OpenAI!Init, OpenAI!NoCall, OSource, OControl
<1>3. OReading
  <2> DEFINE zero == [i \in 0 .. 0 |-> 0]
  <2>1. Len(oWire) = 0 /\ Len(oSource) = 0 /\ Len(oDelivered) = 0
    BY DEF OpenAI!Init
  <2>2. OReads(zero, zero)
    BY <2>1 DEF OpenAI!Init, OpenAI!NoCall, OReads
  <2>3. zero \in [0 .. Len(oWire) -> 0 .. Len(oSource)]
        /\ zero \in [0 .. Len(oWire) -> 0 .. oCalling]
    BY <2>1 DEF OpenAI!Init, OpenAI!NoCall
  <2> QED
    BY <2>2, <2>3 DEF OReading
<1> QED
  BY <1>1, <1>2, <1>3 DEF OInv

(* An item that arrives is read last.                                      *)
LEMMA OArrival ==
  ASSUME OType, OSource, OReading, oWireEnd = "open", UNCHANGED <<oWireEnd, oDelivered, oCurrentToolCall>>,
         \A i \in 1 .. Len(oWire) : oWire[i].kind # "failed",
         NEW item \in OWire, oWire' = Append(oWire, item),
         oSource' \in Seq(OEvents), oCalling' \in Nat, oCalling <= oCalling',
         oCalling' = OCall(item, oCalling),
         Len(oSource') = IF OIdle(item) THEN Len(oSource) ELSE Len(oSource) + 1,
         \A i \in 1 .. Len(oSource) : oSource'[i] = oSource[i],
         ~OIdle(item) => oSource'[Len(oSource')] = OEvent(item, oCalling)
  PROVE  OReading'
<1> DEFINE n == Len(oWire)
<1>1. PICK at \in [0 .. n -> 0 .. Len(oSource)], call \in [0 .. n -> 0 .. oCalling] :
        OReads(at, call)
  BY DEF OReading
<1>2. n \in Nat /\ Len(oSource) \in Nat /\ oCalling \in Nat /\ Len(oSource') \in Nat
      /\ Len(oSource) <= Len(oSource')
  BY DEF OType
<1>3. oWire' \in Seq(OWire) /\ Len(oWire') = n + 1
      /\ (\A i \in 1 .. n : oWire'[i] = oWire[i]) /\ oWire'[n + 1] = item
  BY Added DEF OType
<1>4. at[n] = Len(oSource) /\ call[n] = oCalling
  BY <1>1 DEF OReads
<1>5. PICK at2 \in [0 .. n + 1 -> 0 .. Len(oSource')] :
        (\A i \in 0 .. n : at2[i] = at[i]) /\ at2[n + 1] = Len(oSource')
  <2> n \in Nat /\ Len(oSource) \in Nat /\ Len(oSource') \in Nat /\ Len(oSource) <= Len(oSource')
    BY <1>2
  <2> WITNESS [i \in 0 .. n + 1 |-> IF i <= n THEN at[i] ELSE Len(oSource')] \in [0 .. n + 1 -> 0 .. Len(oSource')]
  <2> QED
    OBVIOUS
<1>6. PICK call2 \in [0 .. n + 1 -> 0 .. oCalling'] :
        (\A i \in 0 .. n : call2[i] = call[i]) /\ call2[n + 1] = oCalling'
  <2> n \in Nat /\ oCalling \in Nat /\ oCalling' \in Nat /\ oCalling <= oCalling'
    BY <1>2
  <2> WITNESS [i \in 0 .. n + 1 |-> IF i <= n THEN call[i] ELSE oCalling'] \in [0 .. n + 1 -> 0 .. oCalling']
  <2> QED
    OBVIOUS
<1>7. /\ \A i \in 0 .. n : at2[i] = at[i] /\ call2[i] = call[i]
      /\ at2[n + 1] = Len(oSource') /\ call2[n + 1] = oCalling'
  BY <1>5, <1>6
<1>8. ASSUME NEW i \in 1 .. n + 1
      PROVE  /\ at2[i] = IF OIdle(oWire'[i]) THEN at2[i - 1] ELSE at2[i - 1] + 1
             /\ call2[i] = OCall(oWire'[i], call2[i - 1])
             /\ ~OIdle(oWire'[i]) => oSource'[at2[i]] = OEvent(oWire'[i], call2[i - 1])
             /\ oWire'[i].kind = "failed" => at2[i] = Len(oSource')
  <2>1. CASE i \in 1 .. n
    <3>1. i - 1 \in 0 .. n /\ i \in 0 .. n
      BY <1>2, <2>1
    <3>2. oWire'[i] = oWire[i] /\ at2[i] = at[i] /\ at2[i - 1] = at[i - 1]
          /\ call2[i] = call[i] /\ call2[i - 1] = call[i - 1]
      BY <1>3, <1>7, <2>1, <3>1
    <3>3. /\ at[i] = IF OIdle(oWire[i]) THEN at[i - 1] ELSE at[i - 1] + 1
          /\ call[i] = OCall(oWire[i], call[i - 1])
          /\ ~OIdle(oWire[i]) => oSource[at[i]] = OEvent(oWire[i], call[i - 1])
          /\ oWire[i].kind # "failed"
      BY <1>1, <2>1 DEF OReads
    <3>4. at[i] \in 0 .. Len(oSource) /\ at[i - 1] \in 0 .. Len(oSource)
      BY <1>1, <3>1
    <3>5. ~OIdle(oWire[i]) => at[i] \in 1 .. Len(oSource)
      BY <1>2, <3>3, <3>4
    <3>6. ~OIdle(oWire[i]) => oSource'[at[i]] = oSource[at[i]]
      BY <3>5
    <3> QED
      BY <3>2, <3>3, <3>6
  <2>2. CASE i = n + 1
    <3>1. i - 1 = n /\ n \in 0 .. n
      BY <1>2, <2>2
    <3>2. at2[i - 1] = Len(oSource) /\ call2[i - 1] = oCalling
      BY <1>4, <1>7, <3>1
    <3>3. oWire'[i] = item /\ at2[i] = Len(oSource') /\ call2[i] = oCalling'
      BY <1>3, <1>7, <2>2
    <3> QED
      BY <3>2, <3>3
  <2> QED
    BY <1>2, <2>1, <2>2
<1>9. at2[0] = Len(oDelivered') /\ call2[0] = oCurrentToolCall'
  <2>1. 0 \in 0 .. n
    BY <1>2
  <2> QED
    BY <1>1, <1>7, <2>1 DEF OReads
<1>10. OReads(at2, call2)'
  BY <1>3, <1>7, <1>8, <1>9 DEF OReads
<1> QED
  BY <1>3, <1>5, <1>6, <1>10 DEF OReading

(* Reading the first item.                                                 *)
LEMMA OTaken ==
  ASSUME OType, NEW at \in [0 .. Len(oWire) -> 0 .. Len(oSource)],
         NEW call \in [0 .. Len(oWire) -> 0 .. oCalling], OReads(at, call),
         oWire # <<>>, oWire' = Tail(oWire), UNCHANGED <<oWireEnd, oSource, oCalling>>,
         Len(oDelivered') = at[1], oCurrentToolCall' = call[1]
  PROVE  OReading'
<1> DEFINE n == Len(oWire)
<1>1. n \in Nat /\ n >= 1 /\ Len(oWire') = n - 1 /\ \A i \in 1 .. n - 1 : oWire'[i] = oWire[i + 1]
  BY Taken DEF OType
<1>2. PICK at2 \in [0 .. n - 1 -> 0 .. Len(oSource)], call2 \in [0 .. n - 1 -> 0 .. oCalling] :
        \A i \in 0 .. n - 1 : at2[i] = at[i + 1] /\ call2[i] = call[i + 1]
  <2>0. n \in Nat /\ n >= 1 /\ Len(oSource) \in Nat /\ oCalling \in Nat
    BY <1>1 DEF OType
  <2>1. PICK at2 \in [0 .. n - 1 -> 0 .. Len(oSource)] : \A i \in 0 .. n - 1 : at2[i] = at[i + 1]
    BY <2>0, Shifted
  <2>2. PICK call2 \in [0 .. n - 1 -> 0 .. oCalling] : \A i \in 0 .. n - 1 : call2[i] = call[i + 1]
    BY <2>0, Shifted
  <2> QED
    BY <2>1, <2>2
<1>3. ASSUME NEW i \in 1 .. n - 1
      PROVE  /\ at2[i] = IF OIdle(oWire'[i]) THEN at2[i - 1] ELSE at2[i - 1] + 1
             /\ call2[i] = OCall(oWire'[i], call2[i - 1])
             /\ ~OIdle(oWire'[i]) => oSource[at2[i]] = OEvent(oWire'[i], call2[i - 1])
             /\ oWire'[i].kind = "failed" => at2[i] = Len(oSource)
  <2>1. i \in 0 .. n - 1 /\ i - 1 \in 0 .. n - 1 /\ i + 1 \in 1 .. n /\ (i - 1) + 1 = i /\ (i + 1) - 1 = i
    BY <1>1
  <2>2. at2[i] = at[i + 1] /\ at2[i - 1] = at[i] /\ call2[i] = call[i + 1] /\ call2[i - 1] = call[i]
    BY <1>2, <2>1
  <2>3. oWire'[i] = oWire[i + 1]
    BY <1>1
  <2>4. /\ at[i + 1] = IF OIdle(oWire[i + 1]) THEN at[(i + 1) - 1] ELSE at[(i + 1) - 1] + 1
        /\ call[i + 1] = OCall(oWire[i + 1], call[(i + 1) - 1])
        /\ ~OIdle(oWire[i + 1]) => oSource[at[i + 1]] = OEvent(oWire[i + 1], call[(i + 1) - 1])
        /\ oWire[i + 1].kind = "failed" => at[i + 1] = Len(oSource)
    BY <2>1 DEF OReads
  <2> QED
    BY <2>1, <2>2, <2>3, <2>4
<1>4. at2[0] = Len(oDelivered') /\ call2[0] = oCurrentToolCall'
  <2>1. 0 \in 0 .. n - 1 /\ 0 + 1 = 1
    BY <1>1
  <2> QED
    BY <1>2, <2>1
<1>5. oWireEnd # "broken" => at2[n - 1] = Len(oSource) /\ call2[n - 1] = oCalling
  <2>1. n - 1 \in 0 .. n - 1 /\ (n - 1) + 1 = n
    BY <1>1
  <2>2. at2[n - 1] = at[n] /\ call2[n - 1] = call[n]
    BY <1>2, <2>1
  <2> QED
    BY <2>2 DEF OReads
<1>6. OReads(at2, call2)'
  BY <1>1, <1>3, <1>4, <1>5 DEF OReads
<1> QED
  BY <1>1, <1>2, <1>6 DEF OReading

(* The connection breaks.                                                  *)
LEMMA OBreaks ==
  ASSUME OType, OReading, NEW k \in 0 .. Len(oWire), oWire' = SubSeq(oWire, 1, k),
         oWireEnd' = "broken", UNCHANGED <<oSource, oCalling, oDelivered, oCurrentToolCall>>
  PROVE  OReading'
<1>1. PICK at \in [0 .. Len(oWire) -> 0 .. Len(oSource)], call \in [0 .. Len(oWire) -> 0 .. oCalling] :
        OReads(at, call)
  BY DEF OReading
<1>2. Len(oWire) \in Nat /\ Len(oWire') = k /\ \A i \in 1 .. k : oWire'[i] = oWire[i]
  BY Prefix DEF OType
<1>3. PICK at2 \in [0 .. k -> 0 .. Len(oSource)], call2 \in [0 .. k -> 0 .. oCalling] :
        \A i \in 0 .. k : at2[i] = at[i] /\ call2[i] = call[i]
  <2> DEFINE n == Len(oWire)
  <2>1. n \in Nat /\ k \in 0 .. n /\ Len(oSource) \in Nat /\ oCalling \in Nat
    BY DEF OType
  <2>2. at \in [0 .. n -> 0 .. Len(oSource)] /\ call \in [0 .. n -> 0 .. oCalling]
    BY <1>1
  <2> HIDE DEF n
  <2>3. PICK at2 \in [0 .. k -> 0 .. Len(oSource)] : \A i \in 0 .. k : at2[i] = at[i]
    <3> WITNESS [i \in 0 .. k |-> at[i]] \in [0 .. k -> 0 .. Len(oSource)]
    <3> QED
      BY <2>1, <2>2
  <2>4. PICK call2 \in [0 .. k -> 0 .. oCalling] : \A i \in 0 .. k : call2[i] = call[i]
    <3> WITNESS [i \in 0 .. k |-> call[i]] \in [0 .. k -> 0 .. oCalling]
    <3> QED
      BY <2>1, <2>2
  <2> QED
    BY <2>3, <2>4
<1>4. ASSUME NEW i \in 1 .. k
      PROVE  /\ at2[i] = IF OIdle(oWire'[i]) THEN at2[i - 1] ELSE at2[i - 1] + 1
             /\ call2[i] = OCall(oWire'[i], call2[i - 1])
             /\ ~OIdle(oWire'[i]) => oSource[at2[i]] = OEvent(oWire'[i], call2[i - 1])
             /\ oWire'[i].kind = "failed" => at2[i] = Len(oSource)
  <2>1. i \in 0 .. k /\ i - 1 \in 0 .. k /\ i \in 1 .. Len(oWire)
    BY <1>2
  <2>2. at2[i] = at[i] /\ at2[i - 1] = at[i - 1] /\ call2[i] = call[i] /\ call2[i - 1] = call[i - 1]
        /\ oWire'[i] = oWire[i]
    BY <1>2, <1>3, <2>1
  <2> QED
    BY <1>1, <2>1, <2>2 DEF OReads
<1>5. at2[0] = Len(oDelivered) /\ call2[0] = oCurrentToolCall
  BY <1>1, <1>3 DEF OReads
<1>6. OReads(at2, call2)'
  BY <1>2, <1>4, <1>5 DEF OReads
<1> QED
  BY <1>2, <1>3, <1>6 DEF OReading

LEMMA OSame ==
  ASSUME OReading, UNCHANGED <<oWire, oSource, oDelivered, oCurrentToolCall, oCalling>>,
         oWireEnd' = "broken" \/ oWireEnd # "broken"
  PROVE  OReading'
<1>1. PICK at \in [0 .. Len(oWire) -> 0 .. Len(oSource)], call \in [0 .. Len(oWire) -> 0 .. oCalling] :
        OReads(at, call)
  BY DEF OReading
<1>2. OReads(at, call)'
  BY <1>1 DEF OReads
<1> QED
  BY <1>1, <1>2 DEF OReading

LEMMA OArriveEvent == ASSUME OInv, OpenAI!ArriveEvent PROVE OInv'
<1> DEFINE n == Len(oSource) + 1
<1>1. PICK kind \in {"text", "call", "args"} :
        /\ kind = "args" => oCalling # 0
        /\ oCalling' = IF kind = "call" THEN oCalling + 1 ELSE oCalling
        /\ oWire' = Append(oWire, [kind |-> kind, n |-> n, call |-> oCalling'])
        /\ oSource' = Append(oSource, [n |-> n, call |-> IF kind = "text" THEN 0 ELSE oCalling'])
  BY DEF OpenAI!ArriveEvent, OpenAI!Arrive, OpenAI!NoCall
<1>2. /\ oWireEnd = "open" /\ oFinal = "none" /\ Len(oSource) < MaxEvents
      /\ UNCHANGED <<oWireEnd, oFinal, oPc, oCurrentEvent, oCurrentToolCall, oStreamErr, oDone, oDelivered>>
  BY DEF OpenAI!ArriveEvent, OpenAI!Arriving, OpenAI!consumer
<1>3. Len(oSource) \in Nat /\ MaxEvents \in Nat /\ oCalling \in Nat /\ oCalling <= Len(oSource)
  BY InferenceAssumption DEF OInv, OType, OSource
<1>4. oCalling' \in 0 .. n /\ oCalling <= oCalling' /\ n \in 1 .. MaxEvents
  BY <1>1, <1>2, <1>3
<1> DEFINE item == [kind |-> kind, n |-> n, call |-> oCalling']
           event == [n |-> n, call |-> IF kind = "text" THEN 0 ELSE oCalling']
<1>5. item \in OWire
  BY <1>1, <1>3, <1>4 DEF OWire
<1>6. event \in OpenAI!Event
  BY <1>3, <1>4 DEF OpenAI!Event
<1>7. ~OIdle(item) /\ item.kind # "failed" /\ oCalling' = OCall(item, oCalling) /\ OEvent(item, oCalling) = event
  <2>1. item.kind = kind /\ item.n = n /\ item.call = oCalling'
    OBVIOUS
  <2> QED
    BY <1>1, <2>1 DEF OIdle, OCall, OEvent
<1>8. oWire' = Append(oWire, item) /\ oSource' = Append(oSource, event)
  BY <1>1
<1> HIDE DEF item, event
<1>9. event \in OEvents
  BY <1>6 DEF OEvents
<1>10. /\ oSource' \in Seq(OEvents) /\ Len(oSource') = n /\ oSource'[n] = event
       /\ \A i \in 1 .. Len(oSource) : oSource'[i] = oSource[i]
  BY <1>8, <1>9, Added DEF OInv, OType
<1>11. /\ oWire' \in Seq(OWire) /\ Len(oWire') = Len(oWire) + 1 /\ oWire'[Len(oWire) + 1] = item
       /\ \A i \in 1 .. Len(oWire) : oWire'[i] = oWire[i]
  BY <1>5, <1>8, Added DEF OInv, OType
<1>12. OType'
  BY <1>2, <1>3, <1>4, <1>10, <1>11 DEF OInv, OType
<1>13. OSource'
  <2>1. Len(oSource') <= MaxEvents /\ oCalling' <= Len(oSource')
    BY <1>3, <1>4, <1>10
  <2>2. \A i \in 1 .. Len(oSource') : oSource'[i] \in OpenAI!Event
    <3>1. \A i \in 1 .. Len(oSource) : oSource[i] \in OpenAI!Event
      BY <1>2 DEF OInv, OSource
    <3> QED
      BY <1>3, <1>6, <1>10, <3>1
  <2>3. Len(oDelivered) <= Len(oSource') /\ \A i \in 1 .. Len(oDelivered) : oDelivered[i] = oSource'[i]
    <3>1. Len(oDelivered) \in Nat /\ Len(oDelivered) <= Len(oSource)
          /\ \A i \in 1 .. Len(oDelivered) : oDelivered[i] = oSource[i]
      BY DEF OInv, OType, OSource
    <3> QED
      BY <1>3, <1>10, <3>1
  <2> QED
    BY <1>2, <2>1, <2>2, <2>3 DEF OSource
<1>14. \A i \in 1 .. Len(oWire) : oWire[i].kind # "failed"
  BY <1>2 DEF OInv, OControl
<1>15. OControl'
  <2>1. \A i \in 1 .. Len(oWire') : oWire'[i].kind # "failed"
    <3>1. Len(oWire) \in Nat
      BY DEF OInv, OType
    <3> QED
      BY <1>7, <1>11, <1>14, <3>1
  <2>2. oDone => oStreamErr \notin {NoErr} /\ oStreamErr = Broken
    BY <1>2 DEF OInv, OControl
  <2> QED
    BY <1>2, <2>1, <2>2 DEF OInv, OControl
<1>16. OReading'
  BY <1>2, <1>3, <1>4, <1>5, <1>7, <1>8, <1>10, <1>14, OArrival DEF OInv
<1> QED
  BY <1>12, <1>13, <1>15, <1>16 DEF OInv

(* An item that makes no event, or the final one.                          *)
LEMMA OArriveLast ==
  ASSUME OInv, OpenAI!ArriveOther \/ OpenAI!ArriveFinal
  PROVE  OInv'
<1>1. PICK kind \in {"done", "failed", "other"} :
        /\ oWire' = Append(oWire, [kind |-> kind, n |-> 0, call |-> 0])
        /\ oFinal' = IF kind = "other" THEN oFinal ELSE kind
        /\ oSource' = IF kind = "done" THEN Append(oSource, OpenAI!Done) ELSE oSource
  BY DEF OpenAI!ArriveOther, OpenAI!ArriveFinal, OpenAI!Arrive, OpenAI!NoCall
<1>2. /\ oWireEnd = "open" /\ oFinal = "none"
      /\ UNCHANGED <<oWireEnd, oCalling, oPc, oCurrentEvent, oCurrentToolCall, oStreamErr, oDone, oDelivered>>
  BY DEF OpenAI!ArriveOther, OpenAI!ArriveFinal, OpenAI!Arriving, OpenAI!consumer
<1> DEFINE item == [kind |-> kind, n |-> 0, call |-> 0]
<1>3. Len(oSource) \in Nat /\ MaxEvents \in Nat /\ oCalling \in Nat /\ Len(oWire) \in Nat
  BY InferenceAssumption DEF OInv, OType
<1>4. item \in OWire
  BY <1>1, <1>3 DEF OWire
<1>5. /\ item.kind = kind /\ oCalling' = OCall(item, oCalling)
      /\ OIdle(item) <=> kind # "done"
      /\ kind = "done" => OEvent(item, oCalling) = OpenAI!Done
  <2>1. item.kind = kind
    OBVIOUS
  <2> QED
    BY <1>1, <1>2, <2>1 DEF OIdle, OCall, OEvent
<1>6. oWire' = Append(oWire, item)
  BY <1>1
<1> HIDE DEF item
<1>7. /\ oWire' \in Seq(OWire) /\ Len(oWire') = Len(oWire) + 1 /\ oWire'[Len(oWire) + 1] = item
      /\ \A i \in 1 .. Len(oWire) : oWire'[i] = oWire[i]
  BY <1>4, <1>6, Added DEF OInv, OType
<1>8. /\ oSource' \in Seq(OEvents)
      /\ Len(oSource') = IF OIdle(item) THEN Len(oSource) ELSE Len(oSource) + 1
      /\ \A i \in 1 .. Len(oSource) : oSource'[i] = oSource[i]
      /\ kind = "done" => oSource'[Len(oSource')] = OpenAI!Done
  <2>1. CASE kind = "done"
    <3>1. OpenAI!Done \in OEvents
      BY DEF OEvents
    <3>2. /\ oSource' \in Seq(OEvents) /\ Len(oSource') = Len(oSource) + 1
          /\ oSource'[Len(oSource) + 1] = OpenAI!Done
          /\ \A i \in 1 .. Len(oSource) : oSource'[i] = oSource[i]
      BY <1>1, <2>1, <3>1, Added DEF OInv, OType
    <3> QED
      BY <1>5, <2>1, <3>2
  <2>2. CASE kind # "done"
    BY <1>1, <1>5, <2>2 DEF OInv, OType
  <2> QED
    BY <2>1, <2>2
<1>9. oFinal' \in {"none", "done", "failed"}
  BY <1>1, <1>2
<1>10. OType'
  BY <1>2, <1>7, <1>8, <1>9 DEF OInv, OType
<1>11. OSource'
  <2>1. Len(oSource) <= Len(oSource') /\ Len(oSource') \in Nat
    BY <1>3, <1>8
  <2>2. oFinal' # "done" => oSource' = oSource
    BY <1>1
  <2>3. Len(oDelivered) \in Nat /\ Len(oDelivered) <= Len(oSource)
        /\ \A i \in 1 .. Len(oDelivered) : oDelivered[i] = oSource[i]
    BY DEF OInv, OType, OSource
  <2>4. \A i \in 1 .. Len(oDelivered) : oDelivered[i] = oSource'[i]
    BY <1>3, <1>8, <2>3
  <2>5. Len(oSource) <= MaxEvents /\ \A i \in 1 .. Len(oSource) : oSource[i] \in OpenAI!Event
    BY <1>2 DEF OInv, OSource
  <2>6. oCalling <= Len(oSource)
    BY DEF OInv, OSource
  <2> QED
    BY <1>2, <1>3, <2>1, <2>2, <2>3, <2>4, <2>5, <2>6 DEF OSource
<1>12. \A i \in 1 .. Len(oWire) : oWire[i].kind # "failed"
  BY <1>2 DEF OInv, OControl
<1>13. oDone => oStreamErr # NoErr /\ oStreamErr = Broken
  BY <1>2 DEF OInv, OControl
<1>14. OControl'
  <2>1. \A i \in 1 .. Len(oWire') : oWire'[i].kind = "failed" => kind = "failed"
    BY <1>3, <1>5, <1>7, <1>12
  <2>2. oWire' # <<>> /\ oWire'[Len(oWire')] = item
    BY <1>3, <1>7
  <2>3. kind = "failed" <=> oFinal' = "failed"
    BY <1>1, <1>2
  <2> QED
    BY <1>2, <1>5, <1>13, <2>1, <2>2, <2>3 DEF OInv, OControl
<1>15. ~OIdle(item) => oSource'[Len(oSource')] = OEvent(item, oCalling)
  BY <1>5, <1>8
<1>16. oCalling' \in Nat /\ oCalling <= oCalling'
  BY <1>2, <1>3
<1>17. OReading'
  BY <1>2, <1>4, <1>5, <1>6, <1>8, <1>12, <1>15, <1>16, OArrival DEF OInv
<1> QED
  BY <1>10, <1>11, <1>14, <1>17 DEF OInv

LEMMA OWireEnds == ASSUME OInv, OpenAI!WireEnds PROVE OInv'
<1>1. /\ oWireEnd = "open"
      /\ UNCHANGED <<oFinal, oCalling, oSource, oPc, oCurrentEvent, oCurrentToolCall, oStreamErr, oDone, oDelivered>>
  BY DEF OpenAI!WireEnds, OpenAI!consumer
<1>2. CASE oWireEnd' = "eof" /\ oWire' = oWire
  <2>1. OType' /\ OSource' /\ OControl'
    BY <1>1, <1>2 DEF OInv, OType, OSource, OControl
  <2>2. OReading'
    BY <1>1, <1>2, OSame DEF OInv
  <2> QED
    BY <2>1, <2>2 DEF OInv
<1>3. CASE oWireEnd' = "broken" /\ \E k \in 0 .. Len(oWire) : oWire' = SubSeq(oWire, 1, k)
  <2>1. PICK k \in 0 .. Len(oWire) : oWire' = SubSeq(oWire, 1, k)
    BY <1>3
  <2>2. oWire' \in Seq(OWire) /\ Len(oWire') = k /\ \A i \in 1 .. k : oWire'[i] = oWire[i]
    BY <2>1, Prefix DEF OInv, OType
  <2>3. OType' /\ OSource'
    BY <1>1, <1>3, <2>2 DEF OInv, OType, OSource
  <2>4. oDone => oStreamErr # NoErr
    BY <1>1 DEF OInv, OControl
  <2>5. \A i \in 1 .. Len(oWire') : oWire'[i].kind = "failed" => oFinal = "failed"
    <3>1. Len(oWire) \in Nat
      BY DEF OInv, OType
    <3> QED
      BY <2>2, <3>1 DEF OInv, OControl
  <2>6. OControl'
    BY <1>1, <1>3, <2>4, <2>5 DEF OInv, OControl
  <2>7. OReading'
    BY <1>1, <1>3, <2>1, OBreaks DEF OInv
  <2> QED
    BY <2>3, <2>6, <2>7 DEF OInv
<1> QED
  BY <1>2, <1>3 DEF OpenAI!WireEnds

LEMMA OFirst ==
  ASSUME OInv, oWire # <<>>
  PROVE  \E at \in [0 .. Len(oWire) -> 0 .. Len(oSource)], call \in [0 .. Len(oWire) -> 0 .. oCalling] :
           /\ OReads(at, call)
           /\ call[1] = OCall(Head(oWire), oCurrentToolCall)
           /\ OIdle(Head(oWire)) => at[1] = Len(oDelivered)
           /\ Head(oWire).kind = "failed" => Len(oDelivered) = Len(oSource)
           /\ ~OIdle(Head(oWire)) =>
                /\ at[1] = Len(oDelivered) + 1 /\ Len(oDelivered) < Len(oSource)
                /\ oSource[Len(oDelivered) + 1] = OEvent(Head(oWire), oCurrentToolCall)
<1>1. PICK at \in [0 .. Len(oWire) -> 0 .. Len(oSource)], call \in [0 .. Len(oWire) -> 0 .. oCalling] :
        OReads(at, call)
  BY DEF OInv, OReading
<1>2. Head(oWire) = oWire[1] /\ Len(oWire) \in Nat /\ Len(oWire) >= 1
      /\ Len(oSource) \in Nat /\ Len(oDelivered) \in Nat
  BY Taken DEF OInv, OType
<1>3. 1 \in 1 .. Len(oWire) /\ 1 - 1 = 0 /\ 1 \in 0 .. Len(oWire)
  BY <1>2
<1>4. /\ at[1] = IF OIdle(oWire[1]) THEN at[0] ELSE at[0] + 1
      /\ call[1] = OCall(oWire[1], call[0])
      /\ ~OIdle(oWire[1]) => oSource[at[1]] = OEvent(oWire[1], call[0])
      /\ oWire[1].kind = "failed" => at[1] = Len(oSource)
      /\ at[0] = Len(oDelivered) /\ call[0] = oCurrentToolCall
  <2>1. \A i \in 1 .. Len(oWire) :
          /\ at[i] = IF OIdle(oWire[i]) THEN at[i - 1] ELSE at[i - 1] + 1
          /\ call[i] = OCall(oWire[i], call[i - 1])
          /\ ~OIdle(oWire[i]) => oSource[at[i]] = OEvent(oWire[i], call[i - 1])
          /\ oWire[i].kind = "failed" => at[i] = Len(oSource)
    BY <1>1 DEF OReads
  <2>2. at[0] = Len(oDelivered) /\ call[0] = oCurrentToolCall
    BY <1>1 DEF OReads
  <2> QED
    BY <1>3, <2>1, <2>2
<1>5. at[1] \in 0 .. Len(oSource)
  BY <1>3
<1>6. oWire[1].kind = "failed" => Len(oDelivered) = Len(oSource)
  BY <1>4 DEF OIdle
<1>7. ~OIdle(oWire[1]) => at[1] = Len(oDelivered) + 1 /\ Len(oDelivered) < Len(oSource)
  BY <1>2, <1>4, <1>5
<1> QED
  BY <1>1, <1>2, <1>4, <1>6, <1>7

(* Next takes an item off the wire: it goes on, delivers the next event of *)
(* the source, or reports the response that failed.                        *)
OGoesOn == UNCHANGED <<oPc, oDelivered, oStreamErr, oDone>>
ODelivers ==
  /\ Len(oDelivered) < Len(oSource) /\ oDelivered' = Append(oDelivered, oSource[Len(oDelivered) + 1])
  /\ oPc' = "idle" /\ UNCHANGED <<oStreamErr, oDone>>
OFails ==
  /\ oFinal = "failed" /\ Len(oDelivered) = Len(oSource)
  /\ oStreamErr' = Failure /\ oDone' = TRUE /\ oPc' = "idle" /\ UNCHANGED oDelivered

LEMMA OPullEvent ==
  ASSUME OInv, OpenAI!PullEvent
  PROVE  OInv' /\ oPc = "pulling" /\ ~oDone /\ (OGoesOn \/ ODelivers \/ OFails)
<1> DEFINE item == Head(oWire)
<1>1. /\ oPc = "pulling" /\ oWire # <<>> /\ oWire' = Tail(oWire)
      /\ UNCHANGED <<oWireEnd, oFinal, oCalling, oSource>>
  BY DEF OpenAI!PullEvent
<1>2. /\ item \in OWire /\ item = oWire[1] /\ oWire' \in Seq(OWire)
      /\ Len(oWire) \in Nat /\ Len(oWire) >= 1 /\ Len(oWire') = Len(oWire) - 1
      /\ \A i \in 1 .. Len(oWire) - 1 : oWire'[i] = oWire[i + 1]
  BY <1>1, Taken DEF OInv, OType
<1>3. ~oDone /\ oStreamErr = NoErr
  BY <1>1 DEF OInv, OControl
<1>4. PICK at \in [0 .. Len(oWire) -> 0 .. Len(oSource)], call \in [0 .. Len(oWire) -> 0 .. oCalling] :
        /\ OReads(at, call)
        /\ call[1] = OCall(item, oCurrentToolCall)
        /\ OIdle(item) => at[1] = Len(oDelivered)
        /\ item.kind = "failed" => Len(oDelivered) = Len(oSource)
        /\ ~OIdle(item) =>
             /\ at[1] = Len(oDelivered) + 1 /\ Len(oDelivered) < Len(oSource)
             /\ oSource[Len(oDelivered) + 1] = OEvent(item, oCurrentToolCall)
  BY <1>1, OFirst
<1>5. item.kind = "failed" => oFinal = "failed"
  BY <1>2 DEF OInv, OControl
<1>6. call[1] \in 0 .. oCalling
  BY <1>2
<1>7. Len(oSource) \in Nat /\ Len(oDelivered) \in Nat
  BY DEF OInv, OType
<1>8. ASSUME NEW i \in 1 .. Len(oWire'), oWire'[i].kind = "failed" PROVE oFinal = "failed"
  <2>1. oWire'[i] = oWire[i + 1] /\ i + 1 \in 1 .. Len(oWire)
    BY <1>2
  <2> QED
    BY <1>8, <2>1 DEF OInv, OControl
<1>9. oFinal = "failed" /\ oWireEnd # "broken" /\ item.kind # "failed" =>
        oWire' # <<>> /\ oWire'[Len(oWire')].kind = "failed"
  <2> SUFFICES ASSUME oFinal = "failed", oWireEnd # "broken", item.kind # "failed"
               PROVE  oWire' # <<>> /\ oWire'[Len(oWire')].kind = "failed"
    OBVIOUS
  <2>1. oWire[Len(oWire)].kind = "failed"
    BY <1>3 DEF OInv, OControl
  <2>2. Len(oWire) # 1
    BY <1>2, <2>1
  <2>3. Len(oWire) - 1 \in 1 .. Len(oWire) - 1 /\ (Len(oWire) - 1) + 1 = Len(oWire)
    BY <1>2, <2>2
  <2>4. oWire'[Len(oWire) - 1] = oWire[(Len(oWire) - 1) + 1]
    BY <1>2, <2>3
  <2>5. oWire'[Len(oWire')].kind = "failed"
    BY <1>2, <2>1, <2>3, <2>4
  <2>6. Len(oWire') # 0
    BY <1>2, <2>3
  <2> QED
    BY <2>5, <2>6
<1>10. CASE item.kind \in {"text", "call", "args", "done"}
  <2>1. ~OIdle(item)
    BY <1>10 DEF OIdle
  <2>2. /\ oCurrentToolCall' = OCall(item, oCurrentToolCall)
        /\ oCurrentEvent' = OEvent(item, oCurrentToolCall)
        /\ oDelivered' = Append(oDelivered, OEvent(item, oCurrentToolCall))
        /\ oPc' = "idle" /\ UNCHANGED <<oStreamErr, oDone>>
    <3>1. CASE item.kind = "done"
      BY <3>1 DEF OpenAI!PullEvent, OpenAI!Emit, OCall, OEvent
    <3>2. CASE item.kind # "done"
      <4>1. /\ oCurrentToolCall' = OCall(item, oCurrentToolCall)
            /\ OpenAI!Emit([n |-> item.n, call |-> IF item.kind = "text" THEN OpenAI!NoCall ELSE oCurrentToolCall'])
            /\ UNCHANGED <<oStreamErr, oDone>>
        BY <1>10, <3>2 DEF OpenAI!PullEvent, OCall
      <4>2. OEvent(item, oCurrentToolCall)
              = [n |-> item.n, call |-> IF item.kind = "text" THEN OpenAI!NoCall ELSE oCurrentToolCall']
        BY <3>2, <4>1 DEF OEvent, OpenAI!NoCall
      <4> QED
        BY <4>1, <4>2 DEF OpenAI!Emit
    <3> QED
      BY <3>1, <3>2
  <2>3. oSource[Len(oDelivered) + 1] \in OEvents
    <3>1. Len(oDelivered) + 1 \in 1 .. Len(oSource)
      BY <1>4, <1>7, <2>1
    <3> QED
      BY <3>1 DEF OInv, OType
  <2>4. OEvent(item, oCurrentToolCall) = oSource[Len(oDelivered) + 1] /\ Len(oDelivered) < Len(oSource)
    BY <1>4, <2>1
  <2>5. /\ oDelivered' \in Seq(OEvents) /\ Len(oDelivered') = Len(oDelivered) + 1
        /\ oDelivered'[Len(oDelivered) + 1] = oSource[Len(oDelivered) + 1]
        /\ \A i \in 1 .. Len(oDelivered) : oDelivered'[i] = oDelivered[i]
    BY <2>2, <2>3, <2>4, Added DEF OInv, OType
  <2>6. oCurrentToolCall' \in 0 .. oCalling
    BY <1>4, <1>6, <2>2
  <2>7. OType'
    BY <1>1, <1>2, <2>2, <2>3, <2>4, <2>5, <2>6 DEF OInv, OType
  <2>8. OSource'
    <3>1. \A i \in 1 .. Len(oDelivered) : oDelivered[i] = oSource[i]
      BY DEF OInv, OSource
    <3>2. \A i \in 1 .. Len(oDelivered') : oDelivered'[i] = oSource[i]
      BY <1>7, <2>5, <3>1
    <3>3. Len(oDelivered') <= Len(oSource)
      BY <1>7, <2>4, <2>5
    <3> QED
      BY <1>1, <3>2, <3>3 DEF OInv, OSource
  <2>9. OControl'
    BY <1>1, <1>3, <1>8, <1>9, <1>10, <2>2 DEF OControl
  <2>10. OReading'
    <3>1. Len(oDelivered') = at[1] /\ oCurrentToolCall' = call[1]
      BY <1>4, <2>1, <2>2, <2>5
    <3> QED
      BY <1>1, <1>4, <3>1, OTaken DEF OInv
  <2>11. ODelivers
    BY <2>2, <2>4 DEF ODelivers
  <2> QED
    BY <1>1, <1>3, <2>7, <2>8, <2>9, <2>10, <2>11 DEF OInv
<1>11. CASE item.kind \in {"other", "failed"}
  <2>1. OIdle(item)
    BY <1>11 DEF OIdle
  <2>2. /\ UNCHANGED <<oCurrentEvent, oCurrentToolCall, oDelivered>>
        /\ \/ item.kind = "other" /\ UNCHANGED <<oPc, oStreamErr, oDone>>
           \/ item.kind = "failed" /\ oStreamErr' = Failure /\ oDone' = TRUE /\ oPc' = "idle"
    BY <1>11 DEF OpenAI!PullEvent, OpenAI!consumer
  <2>3. OType'
    BY <1>1, <1>2, <2>2 DEF OInv, OType
  <2>4. OSource'
    BY <1>1, <2>2 DEF OInv, OSource
  <2>5. OControl'
    <3>1. CASE item.kind = "other"
      BY <1>1, <1>3, <1>8, <1>9, <2>2, <3>1 DEF OControl
    <3>2. CASE item.kind = "failed"
      BY <1>1, <1>4, <1>5, <1>8, <2>2, <3>2, InferenceAssumption DEF OControl
    <3> QED
      BY <1>11, <3>1, <3>2
  <2>6. call[1] = oCurrentToolCall
    BY <1>4, <1>11 DEF OCall
  <2>7. OReading'
    <3>1. Len(oDelivered') = at[1] /\ oCurrentToolCall' = call[1]
      BY <1>4, <2>1, <2>2, <2>6
    <3> QED
      BY <1>1, <1>4, <3>1, OTaken DEF OInv
  <2>8. OGoesOn \/ OFails
    BY <1>4, <1>5, <2>2 DEF OGoesOn, OFails
  <2> QED
    BY <1>1, <1>3, <2>3, <2>4, <2>5, <2>7, <2>8 DEF OInv
<1> QED
  BY <1>2, <1>10, <1>11 DEF OWire

(* Next reaches the end of the wire.                                       *)
LEMMA OPullEnd ==
  ASSUME OInv, OpenAI!PullEnd
  PROVE  /\ OInv' /\ oPc = "pulling" /\ ~oDone /\ oDone' = TRUE /\ oPc' = "idle" /\ oDelivered' = oDelivered
         /\ \/ oWireEnd = "broken" /\ oStreamErr' = Broken
            \/ /\ oWireEnd = "eof" /\ oFinal # "failed" /\ oStreamErr' = NoErr
               /\ Len(oDelivered) = Len(oSource)
<1>1. /\ oPc = "pulling" /\ oWire = <<>> /\ oWireEnd # "open" /\ oDone' = TRUE /\ oPc' = "idle"
      /\ oStreamErr' = IF oWireEnd = "broken" THEN Broken ELSE NoErr
      /\ UNCHANGED <<oWire, oWireEnd, oFinal, oCalling, oSource, oCurrentEvent, oCurrentToolCall, oDelivered>>
  BY DEF OpenAI!PullEnd, OpenAI!service
<1>2. ~oDone /\ oStreamErr = NoErr
  BY <1>1 DEF OInv, OControl
<1>3. oWireEnd # "broken" => oWireEnd = "eof" /\ oFinal # "failed" /\ Len(oDelivered) = Len(oSource)
  <2> SUFFICES ASSUME oWireEnd # "broken"
               PROVE  oWireEnd = "eof" /\ oFinal # "failed" /\ Len(oDelivered) = Len(oSource)
    OBVIOUS
  <2>1. oWireEnd = "eof" /\ oFinal # "failed"
    BY <1>1, <1>2 DEF OInv, OType, OControl
  <2>2. Len(oWire) = 0
    BY <1>1
  <2> QED
    BY <2>1, <2>2 DEF OInv, OReading, OReads
<1>4. OType' /\ OSource'
  BY <1>1 DEF OInv, OType, OSource
<1>5. OControl'
  BY <1>1, <1>2, <1>3, InferenceAssumption DEF OInv, OControl
<1>6. OReading'
  BY <1>1, OSame DEF OInv
<1> QED
  BY <1>1, <1>2, <1>3, <1>4, <1>5, <1>6 DEF OInv

LEMMA OOthers ==
  ASSUME OInv, OpenAI!CallNext \/ OpenAI!Close \/ UNCHANGED openAIVars
  PROVE  OInv'
<1>1. /\ UNCHANGED <<oWire, oWireEnd, oFinal, oCalling, oSource, oCurrentEvent, oCurrentToolCall,
                     oStreamErr, oDone, oDelivered>>
      /\ oPc' \in {"idle", "pulling", "closed"} /\ (oDone => oPc' # "pulling")
  BY DEF OpenAI!CallNext, OpenAI!Close, OpenAI!service, openAIVars, OInv, OType, OControl
<1>2. OType' /\ OSource' /\ OControl'
  BY <1>1 DEF OInv, OType, OSource, OControl
<1>3. OReading'
  BY <1>1, OSame DEF OInv
<1> QED
  BY <1>2, <1>3 DEF OInv

LEMMA OpenAIInvariant == Spec => []OInv
<1>1. Init => OInv
  BY OInit DEF Init
<1>2. OInv /\ [Next]_vars => OInv'
  <2>1. OInv /\ OpenAI!Next => OInv'
    BY OArriveEvent, OArriveLast, OWireEnds, OPullEvent, OPullEnd, OOthers
    DEF OpenAI!Next, OpenAI!Terminated, OpenAI!vars, OpenAI!service, OpenAI!consumer, openAIVars
  <2> QED
    BY <2>1, OOthers, OnePart
<1> QED
  BY <1>1, <1>2, PTL DEF Spec

LEMMA OAllDelivered == ASSUME OInv, Len(oDelivered) = Len(oSource) PROVE oDelivered = oSource
<1>1. oDelivered \in Seq(OEvents) /\ oSource \in Seq(OEvents)
      /\ \A i \in 1 .. Len(oDelivered) : oDelivered[i] = oSource[i]
  BY DEF OInv, OType, OSource
<1> QED
  BY <1>1, SameSequence

LEMMA OpenAIDelivers == Spec => []OpenAI!FalseAfterAllEvents
<1>1. OInv => OpenAI!FalseAfterAllEvents
  BY OAllDelivered DEF OInv, OControl, OpenAI!FalseAfterAllEvents
<1> QED
  BY <1>1, OpenAIInvariant, PTL

-----------------------------------------------------------------------------
(* What a step of OpenAI's stream is to CompletionStream.                  *)
LEMMA OIncomplete == ASSUME OInv, oFinal # "done" PROVE ~OpenAI!Contract!Complete
<1>1. ASSUME oSource # <<>> PROVE oSource[Len(oSource)] # OpenAI!Done
  <2>1. Len(oSource) \in 1 .. Len(oSource)
    BY <1>1 DEF OInv, OType
  <2>2. oSource[Len(oSource)] \in OpenAI!Event
    BY <2>1 DEF OInv, OSource
  <2> QED
    BY <2>2 DEF OpenAI!Event, OpenAI!Done
<1> QED
  BY <1>1 DEF OpenAI!Contract!Complete

LEMMA OArriveEventProduces == ASSUME OInv, OInv', OpenAI!ArriveEvent PROVE OpenAI!Contract!Produce
<1>1. PICK event : oSource' = Append(oSource, event)
  BY DEF OpenAI!ArriveEvent
<1>2. /\ oWireEnd = "open" /\ oFinal = "none"
      /\ UNCHANGED <<oWireEnd, oFinal, oPc, oStreamErr, oDone, oDelivered>>
  BY DEF OpenAI!ArriveEvent, OpenAI!Arriving, OpenAI!consumer
<1>3. event \in OpenAI!Event /\ oSource' = oSource \o <<event>>
  <2>1. /\ oSource \in Seq(OEvents) /\ oSource' \in Seq(OEvents) /\ Len(oSource) \in Nat
        /\ \A i \in 1 .. Len(oSource') : oSource'[i] \in OpenAI!Event
    BY <1>2 DEF OInv, OType, OSource
  <2>2. Len(oSource') = Len(oSource) + 1 /\ oSource'[Len(oSource) + 1] = event
    BY <1>1, <2>1
  <2>3. event \in OpenAI!Event
    BY <2>1, <2>2
  <2>4. Append(oSource, event) = oSource \o <<event>>
    BY <2>1
  <2> QED
    BY <1>1, <2>3, <2>4
<1>4. \E n \in 0 .. 1 : \E es \in [1 .. n -> OpenAI!Event] : oSource' = oSource \o es
  <2>1. <<event>> \in [1 .. 1 -> OpenAI!Event]
    BY <1>3
  <2>2. 1 \in 0 .. 1
    OBVIOUS
  <2> QED
    BY <1>3, <2>1, <2>2
<1>5. OpenAI!verdict = "open" /\ OpenAI!verdict' = "open" /\ OpenAI!outcome' = OpenAI!outcome
  BY <1>2 DEF OpenAI!verdict, OpenAI!outcome
<1> QED
  BY <1>2, <1>4, <1>5, OIncomplete DEF OpenAI!Contract!Produce

LEMMA OArriveLastEnds ==
  ASSUME OInv, OpenAI!ArriveOther \/ OpenAI!ArriveFinal
  PROVE  [OpenAI!Contract!Last \/ OpenAI!Contract!Finish]_(OpenAI!Contract!vars)
<1>1. PICK kind \in {"done", "failed", "other"} :
        /\ oFinal' = IF kind = "other" THEN oFinal ELSE kind
        /\ oSource' = IF kind = "done" THEN Append(oSource, OpenAI!Done) ELSE oSource
  BY DEF OpenAI!ArriveOther, OpenAI!ArriveFinal
<1>2. /\ oWireEnd = "open" /\ oFinal = "none"
      /\ UNCHANGED <<oWireEnd, oPc, oStreamErr, oDone, oDelivered>>
  BY DEF OpenAI!ArriveOther, OpenAI!ArriveFinal, OpenAI!Arriving, OpenAI!consumer
<1>3. OpenAI!verdict = "open" /\ OpenAI!outcome' = OpenAI!outcome /\ oDelivered' = oDelivered
      /\ OpenAI!verdict' = IF kind = "failed" THEN "error" ELSE "open"
  BY <1>1, <1>2 DEF OpenAI!verdict, OpenAI!outcome
<1>4. CASE kind = "done"
  BY <1>1, <1>2, <1>3, <1>4, OIncomplete DEF OpenAI!Contract!Last
<1>5. CASE kind = "failed"
  BY <1>1, <1>3, <1>5 DEF OpenAI!Contract!Finish
<1>6. CASE kind = "other"
  BY <1>1, <1>3, <1>6 DEF OpenAI!Contract!vars
<1> QED
  BY <1>4, <1>5, <1>6

LEMMA ORefines ==
  ASSUME OInv, OInv', OpenAI!Next \/ UNCHANGED openAIVars
  PROVE  [OpenAI!Contract!Next]_(OpenAI!Contract!vars)
<1>1. CASE OpenAI!ArriveEvent
  BY <1>1, OArriveEventProduces DEF OpenAI!Contract!Next
<1>2. CASE OpenAI!ArriveOther \/ OpenAI!ArriveFinal
  BY <1>2, OArriveLastEnds DEF OpenAI!Contract!Next
<1>3. CASE OpenAI!WireEnds
  <2>1. /\ oWireEnd = "open" /\ oWireEnd' \in {"eof", "broken"}
        /\ UNCHANGED <<oFinal, oSource, oPc, oStreamErr, oDone, oDelivered>>
    BY <1>3 DEF OpenAI!WireEnds, OpenAI!consumer
  <2>2. OpenAI!outcome' = OpenAI!outcome
    BY <2>1 DEF OpenAI!outcome
  <2>3. \/ OpenAI!verdict = "open" /\ OpenAI!verdict' \in {"end", "error"}
        \/ OpenAI!verdict' = OpenAI!verdict
    BY <2>1 DEF OpenAI!verdict
  <2> QED
    BY <2>1, <2>2, <2>3 DEF OpenAI!Contract!Finish, OpenAI!Contract!Next, OpenAI!Contract!vars
<1>4. CASE OpenAI!PullEvent
  <2>1. OpenAI!verdict' = OpenAI!verdict /\ oSource' = oSource
    BY <1>4 DEF OpenAI!PullEvent, OpenAI!verdict
  <2>2. oPc = "pulling" /\ ~oDone /\ (OGoesOn \/ ODelivers \/ OFails)
    BY <1>4, OPullEvent
  <2>3. OpenAI!outcome = "open"
    BY <2>2 DEF OpenAI!outcome
  <2>4. CASE OGoesOn
    BY <2>1, <2>4 DEF OGoesOn, OpenAI!outcome, OpenAI!Contract!vars
  <2>5. CASE ODelivers
    <3>1. OpenAI!outcome' = "open"
      BY <2>2, <2>5 DEF ODelivers, OpenAI!outcome
    <3> QED
      BY <2>1, <2>3, <2>5, <3>1 DEF ODelivers, OpenAI!Contract!Deliver, OpenAI!Contract!Next
  <2>6. CASE OFails
    <3>1. OpenAI!outcome' = "error" /\ OpenAI!verdict = "error"
      BY <2>6, InferenceAssumption DEF OFails, OpenAI!outcome, OpenAI!verdict
    <3> QED
      BY <2>1, <2>3, <2>6, <3>1 DEF OFails, OpenAI!Contract!ReportError, OpenAI!Contract!Next
  <2> QED
    BY <2>2, <2>4, <2>5, <2>6
<1>5. CASE OpenAI!PullEnd
  <2>1. OpenAI!verdict' = OpenAI!verdict /\ oSource' = oSource /\ oDelivered' = oDelivered
    BY <1>5 DEF OpenAI!PullEnd, OpenAI!service, OpenAI!verdict
  <2>2. /\ oPc = "pulling" /\ ~oDone /\ oDone' = TRUE /\ oPc' = "idle"
        /\ \/ oWireEnd = "broken" /\ oStreamErr' = Broken
           \/ /\ oWireEnd = "eof" /\ oFinal # "failed" /\ oStreamErr' = NoErr
              /\ Len(oDelivered) = Len(oSource)
    BY <1>5, OPullEnd
  <2>3. OpenAI!outcome = "open" /\ OpenAI!outcome' = IF oStreamErr' = NoErr THEN "end" ELSE "error"
    BY <2>2 DEF OpenAI!outcome
  <2>4. CASE oStreamErr' = NoErr
    <3>1. OpenAI!verdict = "end" /\ oDelivered = oSource
      BY <2>2, <2>4, OAllDelivered, InferenceAssumption DEF OpenAI!verdict
    <3> QED
      BY <2>1, <2>3, <2>4, <3>1 DEF OpenAI!Contract!ReportEnd, OpenAI!Contract!Next
  <2>5. CASE oStreamErr' # NoErr
    <3>1. OpenAI!verdict = "error"
      BY <2>2, <2>5 DEF OpenAI!verdict
    <3> QED
      BY <2>1, <2>3, <2>5, <3>1 DEF OpenAI!Contract!ReportError, OpenAI!Contract!Next
  <2> QED
    BY <2>4, <2>5
<1>6. CASE OpenAI!Close
  <2>1. OpenAI!outcome # "closed" /\ OpenAI!outcome' = "closed"
    BY <1>6 DEF OpenAI!Close, OpenAI!outcome
  <2>2. OpenAI!verdict' = OpenAI!verdict /\ oSource' = oSource /\ oDelivered' = oDelivered
    BY <1>6 DEF OpenAI!Close, OpenAI!service, OpenAI!verdict
  <2> QED
    BY <2>1, <2>2 DEF OpenAI!Contract!Close, OpenAI!Contract!Next
<1>7. CASE OpenAI!CallNext
  BY <1>7 DEF OpenAI!CallNext, OpenAI!service, OpenAI!verdict, OpenAI!outcome, OpenAI!Contract!vars
<1>8. CASE UNCHANGED openAIVars
  BY <1>8 DEF openAIVars, OpenAI!verdict, OpenAI!outcome, OpenAI!Contract!vars
<1>9. OpenAI!Terminated => UNCHANGED openAIVars
  BY DEF OpenAI!Terminated, OpenAI!vars, OpenAI!service, OpenAI!consumer, openAIVars
<1> QED
  BY <1>1, <1>2, <1>3, <1>4, <1>5, <1>6, <1>7, <1>8, <1>9 DEF OpenAI!Next

LEMMA OpenAIImplementsContract == Spec => OpenAI!ImplementsContract
<1>1. Init => OpenAI!Contract!Init
  BY DEF Init, OpenAI!Init, OpenAI!Contract!Init, OpenAI!verdict, OpenAI!outcome
<1>2. OInv /\ OInv' /\ [Next]_vars => [OpenAI!Contract!Next]_(OpenAI!Contract!vars)
  BY ORefines, OnePart
<1> QED
  BY <1>1, <1>2, OpenAIInvariant, PTL DEF Spec, OpenAI!ImplementsContract, OpenAI!Contract!Spec

-----------------------------------------------------------------------------
(* ANTHROPIC.  The wire is read as OpenAI's is; the queue holds the event  *)
(* that Next advanced to, until Event takes it.                            *)
AWire == [kind : {"start", "text", "args", "stop", "done", "skip"},
          n : 1 .. MaxEvents + 1, call : 0 .. MaxEvents]
AEvents == Anthropic!Event \cup {Anthropic!Done}
AIdle(item) == item.kind \in {"stop", "skip"}
ACall(item, call) ==
  IF item.kind = "start" THEN item.call ELSE IF item.kind = "stop" THEN 0 ELSE call
AEvent(item, call) ==
  IF item.kind = "done" THEN Anthropic!Done
  ELSE [n |-> item.n, call |-> IF item.kind = "text" THEN 0 ELSE ACall(item, call)]
ABlockCall == IF aBlock = "tool" THEN aTools ELSE 0

AReads(at, call) ==
  /\ at[0] = Len(aDelivered) /\ call[0] = aCurrentToolCall
  /\ \A i \in 1 .. Len(aWire) :
       /\ at[i] = IF AIdle(aWire[i]) THEN at[i - 1] ELSE at[i - 1] + 1
       /\ call[i] = ACall(aWire[i], call[i - 1])
       /\ ~AIdle(aWire[i]) => aSource[at[i]] = AEvent(aWire[i], call[i - 1])
  /\ aWireEnd # "broken" => at[Len(aWire)] = Len(aSource) /\ call[Len(aWire)] = ABlockCall

AReading ==
  \E at \in [0 .. Len(aWire) -> 0 .. Len(aSource)], call \in [0 .. Len(aWire) -> 0 .. aTools] :
    AReads(at, call)

AType ==
  /\ aWire \in Seq(AWire) /\ aSource \in Seq(AEvents) /\ aDelivered \in Seq(AEvents)
  /\ aWireEnd \in {"open", "eof", "broken"} /\ aBlock \in {"none", "text", "tool"}
  /\ aTools \in 0 .. MaxEvents /\ aCurrentToolCall \in 0 .. aTools
  /\ aPc \in {"idle", "pulling", "closed"} /\ aReturned \in {"none", "true", "false"}
  /\ aGot \in AEvents \cup {Anthropic!NoEvent} /\ aCalls \in {"0", "1"}

ASource ==
  /\ aTools <= Len(aSource)
  /\ ~Anthropic!Complete =>
       Len(aSource) <= MaxEvents /\ \A i \in 1 .. Len(aSource) : aSource[i] \in Anthropic!Event
  /\ Len(aDelivered) <= Len(aSource)
  /\ \A i \in 1 .. Len(aDelivered) : aDelivered[i] = aSource[i]

AControl ==
  /\ aReturned = "false" => aWireEnd # "open" /\ aPc # "pulling"
  /\ aReturned = "false" /\ aWireEnd = "eof" => Len(aDelivered) = Len(aSource)
  /\ aReturned # "true" \/ aPc = "pulling" => aEventQueue = <<>> /\ aQueueIndex = 0 /\ aCalls = "0"
  /\ aReturned = "true" /\ aPc # "pulling" =>
       /\ aDelivered # <<>> /\ aEventQueue = <<aDelivered[Len(aDelivered)]>>
       /\ IF aCalls = "0" THEN aQueueIndex = 0
          ELSE aQueueIndex = 1 /\ aGot = aDelivered[Len(aDelivered)]

AInv == AType /\ ASource /\ AControl /\ AReading

LEMMA AInit == ASSUME Anthropic!Init PROVE AInv
<1>1. AType
  <2>1. <<>> \in Seq(AWire) /\ <<>> \in Seq(AEvents)
    OBVIOUS
  <2>2. aWire \in Seq(AWire) /\ aSource \in Seq(AEvents) /\ aDelivered \in Seq(AEvents)
    BY <2>1 DEF Anthropic!Init
  <2>3. aTools \in 0 .. MaxEvents /\ aCurrentToolCall \in 0 .. aTools
    BY InferenceAssumption DEF Anthropic!Init, Anthropic!NoCall
  <2> QED
    BY <2>2, <2>3 DEF Anthropic!Init, AType
<1>2. ASource /\ AControl
  BY InferenceAssumption DEF Anthropic!Init, Anthropic!NoCall, ASource, AControl
<1>3. AReading
  <2> DEFINE zero == [i \in 0 .. 0 |-> 0]
  <2>1. Len(aWire) = 0 /\ Len(aSource) = 0 /\ Len(aDelivered) = 0
    BY DEF Anthropic!Init
  <2>2. AReads(zero, zero)
    BY <2>1 DEF Anthropic!Init, Anthropic!NoCall, AReads, ABlockCall
  <2>3. zero \in [0 .. Len(aWire) -> 0 .. Len(aSource)]
        /\ zero \in [0 .. Len(aWire) -> 0 .. aTools]
    BY <2>1 DEF Anthropic!Init, Anthropic!NoCall
  <2> QED
    BY <2>2, <2>3 DEF AReading
<1> QED
  BY <1>1, <1>2, <1>3 DEF AInv

(* An item that arrives is read last.                                      *)
LEMMA AArrival ==
  ASSUME AType, ASource, AReading, aWireEnd = "open", UNCHANGED <<aWireEnd, aDelivered, aCurrentToolCall>>,
         NEW item \in AWire, aWire' = Append(aWire, item),
         aSource' \in Seq(AEvents), aTools' \in Nat, aTools <= aTools',
         ABlockCall' \in 0 .. aTools', ABlockCall' = ACall(item, ABlockCall),
         Len(aSource') = IF AIdle(item) THEN Len(aSource) ELSE Len(aSource) + 1,
         \A i \in 1 .. Len(aSource) : aSource'[i] = aSource[i],
         ~AIdle(item) => aSource'[Len(aSource')] = AEvent(item, ABlockCall)
  PROVE  AReading'
<1> DEFINE n == Len(aWire)
<1>1. PICK at \in [0 .. n -> 0 .. Len(aSource)], call \in [0 .. n -> 0 .. aTools] :
        AReads(at, call)
  BY DEF AReading
<1>2. n \in Nat /\ Len(aSource) \in Nat /\ aTools \in Nat /\ Len(aSource') \in Nat
      /\ Len(aSource) <= Len(aSource')
  BY DEF AType
<1>3. aWire' \in Seq(AWire) /\ Len(aWire') = n + 1
      /\ (\A i \in 1 .. n : aWire'[i] = aWire[i]) /\ aWire'[n + 1] = item
  BY Added DEF AType
<1>4. at[n] = Len(aSource) /\ call[n] = ABlockCall
  BY <1>1 DEF AReads
<1>5. PICK at2 \in [0 .. n + 1 -> 0 .. Len(aSource')] :
        (\A i \in 0 .. n : at2[i] = at[i]) /\ at2[n + 1] = Len(aSource')
  <2> n \in Nat /\ Len(aSource) \in Nat /\ Len(aSource') \in Nat /\ Len(aSource) <= Len(aSource')
    BY <1>2
  <2> WITNESS [i \in 0 .. n + 1 |-> IF i <= n THEN at[i] ELSE Len(aSource')] \in [0 .. n + 1 -> 0 .. Len(aSource')]
  <2> QED
    OBVIOUS
<1>6. PICK call2 \in [0 .. n + 1 -> 0 .. aTools'] :
        (\A i \in 0 .. n : call2[i] = call[i]) /\ call2[n + 1] = ABlockCall'
  <2> n \in Nat /\ aTools \in Nat /\ aTools' \in Nat /\ aTools <= aTools' /\ ABlockCall' \in 0 .. aTools'
    BY <1>2
  <2> WITNESS [i \in 0 .. n + 1 |-> IF i <= n THEN call[i] ELSE ABlockCall'] \in [0 .. n + 1 -> 0 .. aTools']
  <2> QED
    OBVIOUS
<1>7. /\ \A i \in 0 .. n : at2[i] = at[i] /\ call2[i] = call[i]
      /\ at2[n + 1] = Len(aSource') /\ call2[n + 1] = ABlockCall'
  BY <1>5, <1>6
<1>8. ASSUME NEW i \in 1 .. n + 1
      PROVE  /\ at2[i] = IF AIdle(aWire'[i]) THEN at2[i - 1] ELSE at2[i - 1] + 1
             /\ call2[i] = ACall(aWire'[i], call2[i - 1])
             /\ ~AIdle(aWire'[i]) => aSource'[at2[i]] = AEvent(aWire'[i], call2[i - 1])
  <2>1. CASE i \in 1 .. n
    <3>1. i - 1 \in 0 .. n /\ i \in 0 .. n
      BY <1>2, <2>1
    <3>2. aWire'[i] = aWire[i] /\ at2[i] = at[i] /\ at2[i - 1] = at[i - 1]
          /\ call2[i] = call[i] /\ call2[i - 1] = call[i - 1]
      BY <1>3, <1>7, <2>1, <3>1
    <3>3. /\ at[i] = IF AIdle(aWire[i]) THEN at[i - 1] ELSE at[i - 1] + 1
          /\ call[i] = ACall(aWire[i], call[i - 1])
          /\ ~AIdle(aWire[i]) => aSource[at[i]] = AEvent(aWire[i], call[i - 1])
      BY <1>1, <2>1 DEF AReads
    <3>4. at[i] \in 0 .. Len(aSource) /\ at[i - 1] \in 0 .. Len(aSource)
      BY <1>1, <3>1
    <3>5. ~AIdle(aWire[i]) => at[i] \in 1 .. Len(aSource)
      BY <1>2, <3>3, <3>4
    <3>6. ~AIdle(aWire[i]) => aSource'[at[i]] = aSource[at[i]]
      BY <3>5
    <3> QED
      BY <3>2, <3>3, <3>6
  <2>2. CASE i = n + 1
    <3>1. i - 1 = n /\ n \in 0 .. n
      BY <1>2, <2>2
    <3>2. at2[i - 1] = Len(aSource) /\ call2[i - 1] = ABlockCall
      BY <1>4, <1>7, <3>1
    <3>3. aWire'[i] = item /\ at2[i] = Len(aSource') /\ call2[i] = ABlockCall'
      BY <1>3, <1>7, <2>2
    <3> QED
      BY <3>2, <3>3
  <2> QED
    BY <1>2, <2>1, <2>2
<1>9. at2[0] = Len(aDelivered') /\ call2[0] = aCurrentToolCall'
  <2>1. 0 \in 0 .. n
    BY <1>2
  <2> QED
    BY <1>1, <1>7, <2>1 DEF AReads
<1>10. AReads(at2, call2)'
  BY <1>3, <1>7, <1>8, <1>9 DEF AReads
<1> QED
  BY <1>3, <1>5, <1>6, <1>10 DEF AReading

(* Reading the first item.                                                 *)
LEMMA ATaken ==
  ASSUME AType, NEW at \in [0 .. Len(aWire) -> 0 .. Len(aSource)],
         NEW call \in [0 .. Len(aWire) -> 0 .. aTools], AReads(at, call),
         aWire # <<>>, aWire' = Tail(aWire), UNCHANGED <<aWireEnd, aSource, aTools, aBlock>>,
         Len(aDelivered') = at[1], aCurrentToolCall' = call[1]
  PROVE  AReading'
<1> DEFINE n == Len(aWire)
<1>1. n \in Nat /\ n >= 1 /\ Len(aWire') = n - 1 /\ \A i \in 1 .. n - 1 : aWire'[i] = aWire[i + 1]
  BY Taken DEF AType
<1>2. PICK at2 \in [0 .. n - 1 -> 0 .. Len(aSource)], call2 \in [0 .. n - 1 -> 0 .. aTools] :
        \A i \in 0 .. n - 1 : at2[i] = at[i + 1] /\ call2[i] = call[i + 1]
  <2>0. n \in Nat /\ n >= 1 /\ Len(aSource) \in Nat /\ aTools \in Nat
    BY <1>1 DEF AType
  <2>1. PICK at2 \in [0 .. n - 1 -> 0 .. Len(aSource)] : \A i \in 0 .. n - 1 : at2[i] = at[i + 1]
    BY <2>0, Shifted
  <2>2. PICK call2 \in [0 .. n - 1 -> 0 .. aTools] : \A i \in 0 .. n - 1 : call2[i] = call[i + 1]
    BY <2>0, Shifted
  <2> QED
    BY <2>1, <2>2
<1>3. ASSUME NEW i \in 1 .. n - 1
      PROVE  /\ at2[i] = IF AIdle(aWire'[i]) THEN at2[i - 1] ELSE at2[i - 1] + 1
             /\ call2[i] = ACall(aWire'[i], call2[i - 1])
             /\ ~AIdle(aWire'[i]) => aSource[at2[i]] = AEvent(aWire'[i], call2[i - 1])
  <2>1. i \in 0 .. n - 1 /\ i - 1 \in 0 .. n - 1 /\ i + 1 \in 1 .. n /\ (i - 1) + 1 = i /\ (i + 1) - 1 = i
    BY <1>1
  <2>2. at2[i] = at[i + 1] /\ at2[i - 1] = at[i] /\ call2[i] = call[i + 1] /\ call2[i - 1] = call[i]
    BY <1>2, <2>1
  <2>3. aWire'[i] = aWire[i + 1]
    BY <1>1
  <2>4. /\ at[i + 1] = IF AIdle(aWire[i + 1]) THEN at[(i + 1) - 1] ELSE at[(i + 1) - 1] + 1
        /\ call[i + 1] = ACall(aWire[i + 1], call[(i + 1) - 1])
        /\ ~AIdle(aWire[i + 1]) => aSource[at[i + 1]] = AEvent(aWire[i + 1], call[(i + 1) - 1])
    BY <2>1 DEF AReads
  <2> QED
    BY <2>1, <2>2, <2>3, <2>4
<1>4. at2[0] = Len(aDelivered') /\ call2[0] = aCurrentToolCall'
  <2>1. 0 \in 0 .. n - 1 /\ 0 + 1 = 1
    BY <1>1
  <2> QED
    BY <1>2, <2>1
<1>5. aWireEnd # "broken" => at2[n - 1] = Len(aSource) /\ call2[n - 1] = ABlockCall
  <2>1. n - 1 \in 0 .. n - 1 /\ (n - 1) + 1 = n
    BY <1>1
  <2>2. at2[n - 1] = at[n] /\ call2[n - 1] = call[n]
    BY <1>2, <2>1
  <2> QED
    BY <2>2 DEF AReads
<1>6. AReads(at2, call2)'
  BY <1>1, <1>3, <1>4, <1>5 DEF AReads, ABlockCall
<1> QED
  BY <1>1, <1>2, <1>6 DEF AReading

(* The connection breaks.                                                  *)
LEMMA ABreaks ==
  ASSUME AType, AReading, NEW k \in 0 .. Len(aWire), aWire' = SubSeq(aWire, 1, k),
         aWireEnd' = "broken", UNCHANGED <<aSource, aTools, aBlock, aDelivered, aCurrentToolCall>>
  PROVE  AReading'
<1>1. PICK at \in [0 .. Len(aWire) -> 0 .. Len(aSource)], call \in [0 .. Len(aWire) -> 0 .. aTools] :
        AReads(at, call)
  BY DEF AReading
<1>2. Len(aWire) \in Nat /\ Len(aWire') = k /\ \A i \in 1 .. k : aWire'[i] = aWire[i]
  BY Prefix DEF AType
<1>3. PICK at2 \in [0 .. k -> 0 .. Len(aSource)], call2 \in [0 .. k -> 0 .. aTools] :
        \A i \in 0 .. k : at2[i] = at[i] /\ call2[i] = call[i]
  <2> DEFINE n == Len(aWire)
  <2>1. n \in Nat /\ k \in 0 .. n /\ Len(aSource) \in Nat /\ aTools \in Nat
    BY DEF AType
  <2>2. at \in [0 .. n -> 0 .. Len(aSource)] /\ call \in [0 .. n -> 0 .. aTools]
    BY <1>1
  <2> HIDE DEF n
  <2>3. PICK at2 \in [0 .. k -> 0 .. Len(aSource)] : \A i \in 0 .. k : at2[i] = at[i]
    <3> WITNESS [i \in 0 .. k |-> at[i]] \in [0 .. k -> 0 .. Len(aSource)]
    <3> QED
      BY <2>1, <2>2
  <2>4. PICK call2 \in [0 .. k -> 0 .. aTools] : \A i \in 0 .. k : call2[i] = call[i]
    <3> WITNESS [i \in 0 .. k |-> call[i]] \in [0 .. k -> 0 .. aTools]
    <3> QED
      BY <2>1, <2>2
  <2> QED
    BY <2>3, <2>4
<1>4. ASSUME NEW i \in 1 .. k
      PROVE  /\ at2[i] = IF AIdle(aWire'[i]) THEN at2[i - 1] ELSE at2[i - 1] + 1
             /\ call2[i] = ACall(aWire'[i], call2[i - 1])
             /\ ~AIdle(aWire'[i]) => aSource[at2[i]] = AEvent(aWire'[i], call2[i - 1])
  <2>1. i \in 0 .. k /\ i - 1 \in 0 .. k /\ i \in 1 .. Len(aWire)
    BY <1>2
  <2>2. at2[i] = at[i] /\ at2[i - 1] = at[i - 1] /\ call2[i] = call[i] /\ call2[i - 1] = call[i - 1]
        /\ aWire'[i] = aWire[i]
    BY <1>2, <1>3, <2>1
  <2> QED
    BY <1>1, <2>1, <2>2 DEF AReads
<1>5. at2[0] = Len(aDelivered) /\ call2[0] = aCurrentToolCall
  BY <1>1, <1>3 DEF AReads
<1>6. AReads(at2, call2)'
  BY <1>2, <1>4, <1>5 DEF AReads
<1> QED
  BY <1>2, <1>3, <1>6 DEF AReading

LEMMA ASame ==
  ASSUME AReading, UNCHANGED <<aWire, aSource, aDelivered, aCurrentToolCall, aTools, aBlock>>,
         aWireEnd' = "broken" \/ aWireEnd # "broken"
  PROVE  AReading'
<1>1. PICK at \in [0 .. Len(aWire) -> 0 .. Len(aSource)], call \in [0 .. Len(aWire) -> 0 .. aTools] :
        AReads(at, call)
  BY DEF AReading
<1>2. AReads(at, call)'
  BY <1>1 DEF AReads, ABlockCall
<1> QED
  BY <1>1, <1>2 DEF AReading

(* The four kinds of arrival are one.                                      *)
AArrives(kind) ==
  /\ aWireEnd = "open" /\ ~Anthropic!Complete
  /\ aWire' = Append(aWire, [kind |-> kind, n |-> Len(aSource) + 1, call |-> aTools'])
  /\ aTools' = IF kind = "start" THEN aTools + 1 ELSE aTools
  /\ aBlock' \in {"none", "text", "tool"}
  /\ ABlockCall' = ACall([kind |-> kind, n |-> Len(aSource) + 1, call |-> aTools'], ABlockCall)
  /\ kind \in {"start", "text", "args"} =>
       /\ Len(aSource) < MaxEvents
       /\ aSource' = Append(aSource, [n |-> Len(aSource) + 1, call |-> IF kind = "text" THEN 0 ELSE aTools'])
  /\ kind = "args" => ABlockCall = aTools
  /\ kind = "done" => aSource' = Append(aSource, Anthropic!Done)
  /\ kind \in {"stop", "skip"} => aSource' = aSource
  /\ UNCHANGED <<aWireEnd, aPc, aEventQueue, aQueueIndex, aCurrentToolCall, aReturned, aGot, aCalls,
                 aDelivered>>

LEMMA AArrivals ==
  ASSUME AInv, Anthropic!ArriveStart \/ Anthropic!ArriveDelta \/ Anthropic!ArriveStop \/ Anthropic!ArriveDone
  PROVE  \E kind \in {"start", "text", "args", "stop", "done", "skip"} : AArrives(kind)
<1>1. CASE Anthropic!ArriveStart
  <2>1. CASE aBlock' = "text"
    <3>1. AArrives("skip")
      BY <1>1, <2>1 DEF Anthropic!ArriveStart, Anthropic!Arrive, Anthropic!consumer, AArrives, ABlockCall, ACall
    <3> QED
      BY <3>1
  <2>2. CASE aBlock' = "tool"
    <3>1. AArrives("start")
      BY <1>1, <2>2 DEF Anthropic!ArriveStart, Anthropic!Arrive, Anthropic!Worth, Anthropic!consumer,
                        AArrives, ABlockCall, ACall
    <3> QED
      BY <3>1
  <2> QED
    BY <1>1, <2>1, <2>2 DEF Anthropic!ArriveStart
<1>2. CASE Anthropic!ArriveDelta
  <2>1. CASE aBlock = "text" /\ Anthropic!Arrive("text") /\ Anthropic!Worth(Anthropic!NoCall)
    <3>1. AArrives("text")
      BY <1>2, <2>1 DEF Anthropic!ArriveDelta, Anthropic!Arrive, Anthropic!Worth, Anthropic!NoCall,
                        Anthropic!consumer, AArrives, ABlockCall, ACall, AInv, AType
    <3> QED
      BY <3>1
  <2>2. CASE aBlock = "tool" /\ Anthropic!Arrive("args") /\ Anthropic!Worth(aTools)
    <3>1. AArrives("args")
      BY <1>2, <2>2 DEF Anthropic!ArriveDelta, Anthropic!Arrive, Anthropic!Worth,
                        Anthropic!consumer, AArrives, ABlockCall, ACall, AInv, AType
    <3> QED
      BY <3>1
  <2>3. CASE Anthropic!Arrive("skip") /\ UNCHANGED aSource
    <3>1. AArrives("skip")
      BY <1>2, <2>3 DEF Anthropic!ArriveDelta, Anthropic!Arrive,
                        Anthropic!consumer, AArrives, ABlockCall, ACall, AInv, AType
    <3> QED
      BY <3>1
  <2> QED
    BY <1>2, <2>1, <2>2, <2>3 DEF Anthropic!ArriveDelta
<1>3. CASE Anthropic!ArriveStop
  <2>1. AArrives("stop")
    BY <1>3 DEF Anthropic!ArriveStop, Anthropic!Arrive, Anthropic!consumer, AArrives, ABlockCall, ACall
  <2> QED
    BY <2>1
<1>4. CASE Anthropic!ArriveDone
  <2>1. AArrives("done")
    BY <1>4 DEF Anthropic!ArriveDone, Anthropic!Arrive, Anthropic!consumer, AArrives, ABlockCall, ACall,
                AInv, AType
  <2> QED
    BY <2>1
<1> QED
  BY <1>1, <1>2, <1>3, <1>4

(* What an arrival adds to the source, if anything.                        *)
LEMMA AAdded ==
  ASSUME AInv, NEW kind \in {"start", "text", "args", "stop", "done", "skip"}, AArrives(kind)
  PROVE  /\ aSource' \in Seq(AEvents) /\ aTools' \in 0 .. MaxEvents /\ aTools' <= Len(aSource')
         /\ \A i \in 1 .. Len(aSource) : aSource'[i] = aSource[i]
         /\ kind \in {"stop", "skip"} => aSource' = aSource
         /\ kind \notin {"stop", "skip"} =>
              /\ Len(aSource') = Len(aSource) + 1
              /\ aSource'[Len(aSource) + 1]
                   = AEvent([kind |-> kind, n |-> Len(aSource) + 1, call |-> aTools'], ABlockCall)
         /\ kind \notin {"stop", "skip", "done"} =>
              Len(aSource) < MaxEvents /\ aSource'[Len(aSource) + 1] \in Anthropic!Event
<1> DEFINE item == [kind |-> kind, n |-> Len(aSource) + 1, call |-> aTools']
           event == [n |-> Len(aSource) + 1, call |-> IF kind = "text" THEN 0 ELSE aTools']
<1>1. /\ Len(aSource) \in Nat /\ MaxEvents \in Nat /\ aTools \in Nat /\ aTools <= Len(aSource)
      /\ aTools <= MaxEvents /\ aSource \in Seq(AEvents)
  BY InferenceAssumption DEF AInv, AType, ASource
<1>2. CASE kind \in {"start", "text", "args"}
  <2>1. Len(aSource) < MaxEvents /\ aSource' = Append(aSource, event)
    BY <1>2 DEF AArrives
  <2>2. aTools' \in 0 .. Len(aSource) + 1 /\ aTools' <= MaxEvents
    BY <1>1, <2>1 DEF AArrives
  <2>3. event \in Anthropic!Event
    BY <1>1, <2>1, <2>2 DEF Anthropic!Event
  <2>4. event = AEvent(item, ABlockCall)
    <3>1. item.kind = kind /\ item.n = Len(aSource) + 1 /\ item.call = aTools'
      OBVIOUS
    <3>2. kind = "args" => ABlockCall = aTools /\ aTools' = aTools
      BY DEF AArrives
    <3> QED
      BY <1>2, <3>1, <3>2 DEF AEvent, ACall
  <2> HIDE DEF item, event
  <2>5. event \in AEvents
    BY <2>3 DEF AEvents
  <2>6. /\ aSource' \in Seq(AEvents) /\ Len(aSource') = Len(aSource) + 1 /\ aSource'[Len(aSource) + 1] = event
        /\ \A i \in 1 .. Len(aSource) : aSource'[i] = aSource[i]
    BY <1>1, <2>1, <2>5, Added
  <2> QED
    BY <1>1, <1>2, <2>1, <2>2, <2>3, <2>4, <2>6 DEF item
<1>3. CASE kind = "done"
  <2>1. aTools' = aTools /\ aSource' = Append(aSource, Anthropic!Done)
    BY <1>3 DEF AArrives
  <2>2. Anthropic!Done \in AEvents
    BY DEF AEvents
  <2>3. /\ aSource' \in Seq(AEvents) /\ Len(aSource') = Len(aSource) + 1
        /\ aSource'[Len(aSource) + 1] = Anthropic!Done
        /\ \A i \in 1 .. Len(aSource) : aSource'[i] = aSource[i]
    BY <1>1, <2>1, <2>2, Added
  <2>4. AEvent(item, ABlockCall) = Anthropic!Done
    BY <1>3 DEF AEvent
  <2> HIDE DEF item
  <2> QED
    BY <1>1, <1>3, <2>1, <2>3, <2>4 DEF item
<1>4. CASE kind \in {"stop", "skip"}
  <2>1. aTools' = aTools /\ aSource' = aSource
    BY <1>4 DEF AArrives
  <2> QED
    BY <1>1, <1>4, <2>1
<1> QED
  BY <1>2, <1>3, <1>4

LEMMA AArrive ==
  ASSUME AInv, NEW kind \in {"start", "text", "args", "stop", "done", "skip"}, AArrives(kind)
  PROVE  AInv'
<1> DEFINE item == [kind |-> kind, n |-> Len(aSource) + 1, call |-> aTools']
<1>1. /\ aWireEnd = "open" /\ ~Anthropic!Complete /\ aWire' = Append(aWire, item)
      /\ aBlock' \in {"none", "text", "tool"} /\ ABlockCall' = ACall(item, ABlockCall)
      /\ UNCHANGED <<aWireEnd, aPc, aEventQueue, aQueueIndex, aCurrentToolCall, aReturned, aGot, aCalls,
                     aDelivered>>
  BY DEF AArrives
<1>2. /\ Len(aSource) \in Nat /\ MaxEvents \in Nat /\ aTools \in Nat /\ Len(aSource) <= MaxEvents
      /\ Len(aDelivered) \in Nat /\ Len(aDelivered) <= Len(aSource)
      /\ \A i \in 1 .. Len(aSource) : aSource[i] \in Anthropic!Event
      /\ \A i \in 1 .. Len(aDelivered) : aDelivered[i] = aSource[i]
  <2>1. Len(aSource) \in Nat /\ MaxEvents \in Nat /\ aTools \in Nat /\ Len(aDelivered) \in Nat
    BY InferenceAssumption DEF AInv, AType
  <2>2. Len(aSource) <= MaxEvents /\ \A i \in 1 .. Len(aSource) : aSource[i] \in Anthropic!Event
    BY <1>1 DEF AInv, ASource
  <2>3. Len(aDelivered) <= Len(aSource) /\ \A i \in 1 .. Len(aDelivered) : aDelivered[i] = aSource[i]
    BY DEF AInv, ASource
  <2> QED
    BY <2>1, <2>2, <2>3
<1>3. /\ aSource' \in Seq(AEvents) /\ aTools' \in 0 .. MaxEvents /\ aTools' <= Len(aSource')
      /\ \A i \in 1 .. Len(aSource) : aSource'[i] = aSource[i]
      /\ kind \in {"stop", "skip"} => aSource' = aSource
      /\ kind \notin {"stop", "skip"} =>
           Len(aSource') = Len(aSource) + 1 /\ aSource'[Len(aSource) + 1] = AEvent(item, ABlockCall)
      /\ kind \notin {"stop", "skip", "done"} =>
           Len(aSource) < MaxEvents /\ aSource'[Len(aSource) + 1] \in Anthropic!Event
  BY AAdded
<1>4. aTools <= aTools' /\ (ABlockCall' \in 0 .. aTools')
  BY <1>2, <1>3 DEF AArrives, ABlockCall
<1>5. item \in AWire
  BY <1>2, <1>3 DEF AWire
<1>6. item.kind = kind /\ (AIdle(item) <=> kind \in {"stop", "skip"})
  <2>1. item.kind = kind
    OBVIOUS
  <2> QED
    BY <2>1 DEF AIdle
<1> HIDE DEF item
<1>7. aWire' \in Seq(AWire)
  BY <1>1, <1>5, Added DEF AInv, AType
<1>8. AType'
  BY <1>1, <1>3, <1>4, <1>7, <1>2 DEF AInv, AType
<1>9. Len(aSource') \in Nat /\ Len(aSource) <= Len(aSource')
  BY <1>2, <1>3
<1>10. ASource'
  <2>1. ~Anthropic!Complete' => Len(aSource') <= MaxEvents /\ \A i \in 1 .. Len(aSource') : aSource'[i] \in Anthropic!Event
    <3>1. CASE kind \in {"stop", "skip"}
      BY <1>2, <1>3, <3>1
    <3>2. CASE kind = "done"
      <4>1. aSource'[Len(aSource')] = Anthropic!Done /\ aSource' # <<>>
        BY <1>2, <1>3, <1>6, <3>2 DEF AEvent
      <4> QED
        BY <4>1 DEF Anthropic!Complete
    <3>3. CASE kind \in {"start", "text", "args"}
      BY <1>2, <1>3, <3>3
    <3> QED
      BY <3>1, <3>2, <3>3
  <2>2. Len(aDelivered) <= Len(aSource') /\ \A i \in 1 .. Len(aDelivered) : aDelivered[i] = aSource'[i]
    BY <1>2, <1>3, <1>9
  <2> QED
    BY <1>1, <1>3, <2>1, <2>2 DEF ASource
<1>11. AControl'
  BY <1>1 DEF AInv, AControl
<1>12. Len(aSource') = IF AIdle(item) THEN Len(aSource) ELSE Len(aSource) + 1
  BY <1>3, <1>6
<1>13. ~AIdle(item) => aSource'[Len(aSource')] = AEvent(item, ABlockCall)
  BY <1>3, <1>6
<1>14. aTools' \in Nat
  BY <1>2, <1>3
<1>15. AReading'
  BY <1>1, <1>3, <1>4, <1>5, <1>12, <1>13, <1>14, AArrival DEF AInv
<1> QED
  BY <1>8, <1>10, <1>11, <1>15 DEF AInv

LEMMA AWireEnds == ASSUME AInv, Anthropic!WireEnds PROVE AInv'
<1>1. /\ aWireEnd = "open" /\ aReturned # "false"
      /\ UNCHANGED <<aBlock, aTools, aSource, aPc, aEventQueue, aQueueIndex, aCurrentToolCall, aReturned,
                     aGot, aCalls, aDelivered>>
  BY DEF Anthropic!WireEnds, Anthropic!consumer, AInv, AControl
<1>2. ASource' /\ AControl'
  BY <1>1 DEF AInv, ASource, AControl, Anthropic!Complete
<1>3. CASE aWireEnd' = "eof" /\ aWire' = aWire
  <2>1. AType'
    BY <1>1, <1>3 DEF AInv, AType
  <2>2. AReading'
    BY <1>1, <1>3, ASame DEF AInv
  <2> QED
    BY <1>2, <2>1, <2>2 DEF AInv
<1>4. CASE aWireEnd' = "broken" /\ \E k \in 0 .. Len(aWire) : aWire' = SubSeq(aWire, 1, k)
  <2>1. PICK k \in 0 .. Len(aWire) : aWire' = SubSeq(aWire, 1, k)
    BY <1>4
  <2>2. aWire' \in Seq(AWire)
    BY <2>1, Prefix DEF AInv, AType
  <2>3. AType'
    BY <1>1, <1>4, <2>2 DEF AInv, AType
  <2>4. AReading'
    BY <1>1, <1>4, <2>1, ABreaks DEF AInv
  <2> QED
    BY <1>2, <2>3, <2>4 DEF AInv
<1> QED
  BY <1>3, <1>4 DEF Anthropic!WireEnds

LEMMA AFirst ==
  ASSUME AInv, aWire # <<>>
  PROVE  \E at \in [0 .. Len(aWire) -> 0 .. Len(aSource)], call \in [0 .. Len(aWire) -> 0 .. aTools] :
           /\ AReads(at, call)
           /\ call[1] = ACall(Head(aWire), aCurrentToolCall)
           /\ AIdle(Head(aWire)) => at[1] = Len(aDelivered)
           /\ ~AIdle(Head(aWire)) =>
                /\ at[1] = Len(aDelivered) + 1 /\ Len(aDelivered) < Len(aSource)
                /\ aSource[Len(aDelivered) + 1] = AEvent(Head(aWire), aCurrentToolCall)
<1>1. PICK at \in [0 .. Len(aWire) -> 0 .. Len(aSource)], call \in [0 .. Len(aWire) -> 0 .. aTools] :
        AReads(at, call)
  BY DEF AInv, AReading
<1>2. Head(aWire) = aWire[1] /\ Len(aWire) \in Nat /\ Len(aWire) >= 1
      /\ Len(aSource) \in Nat /\ Len(aDelivered) \in Nat
  BY Taken DEF AInv, AType
<1>3. 1 \in 1 .. Len(aWire) /\ 1 - 1 = 0 /\ 1 \in 0 .. Len(aWire)
  BY <1>2
<1>4. /\ at[1] = IF AIdle(aWire[1]) THEN at[0] ELSE at[0] + 1
      /\ call[1] = ACall(aWire[1], call[0])
      /\ ~AIdle(aWire[1]) => aSource[at[1]] = AEvent(aWire[1], call[0])
      /\ at[0] = Len(aDelivered) /\ call[0] = aCurrentToolCall
  <2>1. \A i \in 1 .. Len(aWire) :
          /\ at[i] = IF AIdle(aWire[i]) THEN at[i - 1] ELSE at[i - 1] + 1
          /\ call[i] = ACall(aWire[i], call[i - 1])
          /\ ~AIdle(aWire[i]) => aSource[at[i]] = AEvent(aWire[i], call[i - 1])
    BY <1>1 DEF AReads
  <2>2. at[0] = Len(aDelivered) /\ call[0] = aCurrentToolCall
    BY <1>1 DEF AReads
  <2> QED
    BY <1>3, <2>1, <2>2
<1>5. at[1] \in 0 .. Len(aSource)
  BY <1>3
<1>6. ~AIdle(aWire[1]) => at[1] = Len(aDelivered) + 1 /\ Len(aDelivered) < Len(aSource)
  BY <1>2, <1>4, <1>5
<1> QED
  BY <1>1, <1>2, <1>4, <1>6

(* Next takes an item off the wire: it goes on, or queues the next event.  *)
AGoesOn == UNCHANGED <<aPc, aDelivered, aEventQueue, aReturned>>
ADelivers ==
  /\ Len(aDelivered) < Len(aSource) /\ aDelivered' = Append(aDelivered, aSource[Len(aDelivered) + 1])
  /\ aEventQueue' = <<aSource[Len(aDelivered) + 1]>> /\ aPc' = "idle" /\ aReturned' = "true"

LEMMA APullEvent ==
  ASSUME AInv, Anthropic!PullEvent
  PROVE  AInv' /\ aPc = "pulling" /\ aReturned # "false" /\ (AGoesOn \/ ADelivers)
<1> DEFINE item == Head(aWire)
<1>1. /\ aPc = "pulling" /\ aWire # <<>> /\ aWire' = Tail(aWire)
      /\ UNCHANGED <<aWireEnd, aBlock, aTools, aSource, aQueueIndex, aGot, aCalls>>
  BY DEF Anthropic!PullEvent
<1>2. item \in AWire /\ aWire' \in Seq(AWire)
  BY <1>1, Taken DEF AInv, AType
<1>3. aEventQueue = <<>> /\ aQueueIndex = 0 /\ aCalls = "0" /\ aReturned # "false"
  BY <1>1 DEF AInv, AControl
<1>4. PICK at \in [0 .. Len(aWire) -> 0 .. Len(aSource)], call \in [0 .. Len(aWire) -> 0 .. aTools] :
        /\ AReads(at, call)
        /\ call[1] = ACall(item, aCurrentToolCall)
        /\ AIdle(item) => at[1] = Len(aDelivered)
        /\ ~AIdle(item) =>
             /\ at[1] = Len(aDelivered) + 1 /\ Len(aDelivered) < Len(aSource)
             /\ aSource[Len(aDelivered) + 1] = AEvent(item, aCurrentToolCall)
  BY <1>1, AFirst
<1>5. call[1] \in 0 .. aTools
  <2>1. Len(aWire) \in Nat /\ Len(aWire) >= 1
    BY <1>1, Taken DEF AInv, AType
  <2> QED
    BY <2>1
<1>6. Len(aSource) \in Nat /\ Len(aDelivered) \in Nat
      /\ aDelivered \in Seq(AEvents) /\ aSource \in Seq(AEvents)
  BY DEF AInv, AType
<1>7. aCurrentToolCall' = ACall(item, aCurrentToolCall)
  BY DEF Anthropic!PullEvent, Anthropic!CallAfter, Anthropic!NoCall, ACall
<1>8. aCurrentToolCall' \in 0 .. aTools
  BY <1>4, <1>5, <1>7
<1>9. CASE item.kind \in {"start", "text", "args", "done"}
  <2> DEFINE event == aSource[Len(aDelivered) + 1]
  <2>1. ~AIdle(item)
    BY <1>9 DEF AIdle
  <2>2. event = AEvent(item, aCurrentToolCall) /\ Len(aDelivered) < Len(aSource) /\ at[1] = Len(aDelivered) + 1
    BY <1>4, <2>1
  <2>3. Anthropic!Queued(item) = <<event>>
    BY <1>9, <2>2 DEF Anthropic!Queued, Anthropic!CallAfter, Anthropic!NoCall, AEvent, ACall
  <2>4. event \in AEvents
    <3>1. Len(aDelivered) + 1 \in 1 .. Len(aSource)
      BY <1>6, <2>2
    <3> QED
      BY <1>6, <3>1
  <2> HIDE DEF event
  <2>5. aEventQueue' = <<event>> /\ aDelivered' = Append(aDelivered, event)
    <3>1. <<>> \o <<event>> = <<event>> /\ aDelivered \o <<event>> = Append(aDelivered, event)
      BY <1>6, <2>4
    <3> QED
      BY <1>3, <2>3, <3>1 DEF Anthropic!PullEvent
  <2>6. aPc' = "idle" /\ aReturned' = "true"
    <3>1. aEventQueue' # <<>>
      BY <2>5
    <3> QED
      BY <3>1 DEF Anthropic!PullEvent
  <2>7. /\ aDelivered' \in Seq(AEvents) /\ Len(aDelivered') = Len(aDelivered) + 1
        /\ aDelivered'[Len(aDelivered) + 1] = event
        /\ \A i \in 1 .. Len(aDelivered) : aDelivered'[i] = aDelivered[i]
    BY <1>6, <2>4, <2>5, Added
  <2>8. AType'
    BY <1>1, <1>2, <1>8, <2>6, <2>7 DEF AInv, AType
  <2>9. ASource'
    <3>1. \A i \in 1 .. Len(aDelivered) : aDelivered[i] = aSource[i]
      BY DEF AInv, ASource
    <3>2. \A i \in 1 .. Len(aDelivered') : aDelivered'[i] = aSource[i]
      BY <1>6, <2>7, <3>1 DEF event
    <3>3. Len(aDelivered') <= Len(aSource)
      BY <1>6, <2>2, <2>7
    <3> QED
      BY <1>1, <3>2, <3>3 DEF AInv, ASource, Anthropic!Complete
  <2>10. AControl'
    <3>1. aDelivered' # <<>>
      <4>1. Len(aDelivered') >= 1
        BY <1>6, <2>7
      <4> QED
        BY <2>7, <4>1
    <3>2. aEventQueue' = <<aDelivered'[Len(aDelivered')]>>
      BY <2>5, <2>7
    <3> QED
      BY <1>1, <1>3, <2>6, <3>1, <3>2 DEF AControl
  <2>11. AReading'
    <3>1. Len(aDelivered') = at[1] /\ aCurrentToolCall' = call[1]
      BY <1>4, <1>7, <2>2, <2>7
    <3> QED
      BY <1>1, <1>4, <3>1, ATaken DEF AInv
  <2>12. ADelivers
    BY <2>2, <2>5, <2>6 DEF ADelivers, event
  <2> QED
    BY <1>1, <1>3, <2>8, <2>9, <2>10, <2>11, <2>12 DEF AInv
<1>10. CASE item.kind \in {"stop", "skip"}
  <2>1. AIdle(item)
    BY <1>10 DEF AIdle
  <2>2. Anthropic!Queued(item) = <<>>
    BY <1>10 DEF Anthropic!Queued
  <2>3. aEventQueue' = <<>> /\ aDelivered' = aDelivered
    <3>1. aDelivered \o <<>> = aDelivered
      BY <1>6
    <3>2. <<>> \o <<>> = <<>>
      OBVIOUS
    <3> QED
      BY <1>3, <2>2, <3>1, <3>2 DEF Anthropic!PullEvent
  <2>4. AGoesOn
    BY <1>3, <2>3 DEF AGoesOn, Anthropic!PullEvent
  <2>5. AType'
    BY <1>1, <1>2, <1>8, <2>4 DEF AInv, AType, AGoesOn
  <2>6. ASource'
    BY <1>1, <2>4 DEF AInv, ASource, AGoesOn, Anthropic!Complete
  <2>7. AControl'
    BY <1>1, <1>3, <2>4 DEF AControl, AGoesOn
  <2>8. AReading'
    <3>1. Len(aDelivered') = at[1] /\ aCurrentToolCall' = call[1]
      BY <1>4, <1>7, <2>1, <2>3
    <3> QED
      BY <1>1, <1>4, <3>1, ATaken DEF AInv
  <2> QED
    BY <1>1, <1>3, <2>4, <2>5, <2>6, <2>7, <2>8 DEF AInv
<1> QED
  BY <1>2, <1>9, <1>10 DEF AWire

(* Next reaches the end of the wire.                                       *)
LEMMA APullEnd ==
  ASSUME AInv, Anthropic!PullEnd
  PROVE  /\ AInv' /\ aPc = "pulling" /\ aReturned # "false" /\ aPc' = "idle" /\ aReturned' = "false"
         /\ aDelivered' = aDelivered
         /\ aWireEnd = "broken" \/ (aWireEnd = "eof" /\ Len(aDelivered) = Len(aSource))
<1>1. /\ aPc = "pulling" /\ aWire = <<>> /\ aWireEnd # "open" /\ aPc' = "idle" /\ aReturned' = "false"
      /\ UNCHANGED <<aWire, aWireEnd, aBlock, aTools, aSource, aEventQueue, aQueueIndex, aCurrentToolCall,
                     aGot, aCalls, aDelivered>>
  BY DEF Anthropic!PullEnd, Anthropic!service
<1>2. aReturned # "false" /\ aEventQueue = <<>> /\ aQueueIndex = 0 /\ aCalls = "0"
  BY <1>1 DEF AInv, AControl
<1>3. aWireEnd # "broken" => aWireEnd = "eof" /\ Len(aDelivered) = Len(aSource)
  <2>1. Len(aWire) = 0
    BY <1>1
  <2>2. aWireEnd # "broken" => Len(aDelivered) = Len(aSource)
    BY <2>1 DEF AInv, AReading, AReads
  <2> QED
    BY <1>1, <2>2 DEF AInv, AType
<1>4. AType' /\ ASource'
  BY <1>1 DEF AInv, AType, ASource, Anthropic!Complete
<1>5. AControl'
  BY <1>1, <1>2, <1>3 DEF AControl
<1>6. AReading'
  BY <1>1, ASame DEF AInv
<1> QED
  BY <1>1, <1>2, <1>3, <1>4, <1>5, <1>6 DEF AInv

(* The calls that leave the wire alone.                                    *)
LEMMA ACalls ==
  ASSUME AInv, Anthropic!CallNext \/ Anthropic!CallEvent \/ Anthropic!Close \/ UNCHANGED anthropicVars
  PROVE  AInv'
<1>1. UNCHANGED <<aWire, aWireEnd, aBlock, aTools, aSource, aCurrentToolCall, aDelivered>>
  BY DEF Anthropic!CallNext, Anthropic!CallEvent, Anthropic!Close, Anthropic!service, anthropicVars
<1>2. ASource'
  BY <1>1 DEF AInv, ASource, Anthropic!Complete
<1>3. AReading'
  BY <1>1, ASame DEF AInv
<1>4. Len(<<>>) = 0
  OBVIOUS
<1>5. CASE Anthropic!CallNext
  <2>1. /\ aPc = "idle" /\ aReturned # "false" /\ (aCalls = "1" \/ aReturned = "none")
        /\ aGot' = Anthropic!NoEvent /\ aCalls' = "0"
    BY <1>5 DEF Anthropic!CallNext
  <2>2. ~(aQueueIndex < Len(aEventQueue))
    <3>1. CASE aReturned = "none"
      BY <1>4, <3>1 DEF AInv, AControl
    <3>2. CASE aReturned = "true"
      <4>1. aQueueIndex = 1 /\ aEventQueue = <<aDelivered[Len(aDelivered)]>>
        BY <2>1, <3>2 DEF AInv, AControl
      <4>2. Len(<<aDelivered[Len(aDelivered)]>>) = 1
        OBVIOUS
      <4> QED
        BY <4>1, <4>2
    <3> QED
      BY <2>1, <3>1, <3>2 DEF AInv, AType
  <2>3. aPc' = "pulling" /\ aEventQueue' = <<>> /\ aQueueIndex' = 0 /\ aReturned' = aReturned
    BY <1>5, <2>2 DEF Anthropic!CallNext
  <2>4. AType'
    BY <1>1, <2>1, <2>3 DEF AInv, AType
  <2>5. AControl'
    BY <2>1, <2>3 DEF AControl
  <2> QED
    BY <1>2, <1>3, <2>4, <2>5 DEF AInv
<1>6. CASE Anthropic!CallEvent
  <2>1. /\ aPc = "idle" /\ aReturned = "true" /\ aCalls = "0" /\ aCalls' = "1"
        /\ UNCHANGED <<aPc, aReturned, aEventQueue>>
    BY <1>6 DEF Anthropic!CallEvent
  <2>2. /\ aDelivered # <<>> /\ aEventQueue = <<aDelivered[Len(aDelivered)]>> /\ aQueueIndex = 0
    BY <2>1 DEF AInv, AControl
  <2>3. Len(aEventQueue) = 1 /\ aEventQueue[0 + 1] = aDelivered[Len(aDelivered)]
    BY <2>2
  <2>4. aGot' = aDelivered[Len(aDelivered)] /\ aQueueIndex' = 1
    BY <1>6, <2>2, <2>3 DEF Anthropic!CallEvent
  <2>5. aDelivered[Len(aDelivered)] \in AEvents
    <3>1. aDelivered \in Seq(AEvents)
      BY DEF AInv, AType
    <3>2. Len(aDelivered) \in 1 .. Len(aDelivered)
      BY <2>2, <3>1
    <3> QED
      BY <3>1, <3>2
  <2>6. AType'
    BY <1>1, <2>1, <2>4, <2>5 DEF AInv, AType
  <2>7. AControl'
    BY <1>1, <2>1, <2>2, <2>4 DEF AControl
  <2> QED
    BY <1>2, <1>3, <2>6, <2>7 DEF AInv
<1>7. CASE Anthropic!Close \/ UNCHANGED anthropicVars
  <2>1. /\ UNCHANGED <<aEventQueue, aQueueIndex, aReturned, aGot, aCalls>>
        /\ aPc' = aPc \/ (aPc = "idle" /\ aPc' = "closed")
    BY <1>7 DEF Anthropic!Close, anthropicVars
  <2>2. AType'
    BY <1>1, <2>1 DEF AInv, AType
  <2>3. AControl'
    BY <1>1, <2>1 DEF AInv, AControl
  <2> QED
    BY <1>2, <1>3, <2>2, <2>3 DEF AInv
<1> QED
  BY <1>5, <1>6, <1>7

LEMMA ANext == ASSUME AInv, Anthropic!Next \/ UNCHANGED anthropicVars PROVE AInv'
<1>1. CASE Anthropic!ArriveStart \/ Anthropic!ArriveDelta \/ Anthropic!ArriveStop \/ Anthropic!ArriveDone
  BY <1>1, AArrivals, AArrive
<1>2. Anthropic!Terminated => UNCHANGED anthropicVars
  BY DEF Anthropic!Terminated, Anthropic!vars, Anthropic!service, Anthropic!consumer, anthropicVars
<1> QED
  BY <1>1, <1>2, AWireEnds, APullEvent, APullEnd, ACalls DEF Anthropic!Next

LEMMA AnthropicInvariant == Spec => []AInv
<1>1. Init => AInv
  BY AInit DEF Init
<1>2. AInv /\ [Next]_vars => AInv'
  BY ANext, OnePart
<1> QED
  BY <1>1, <1>2, PTL DEF Spec

LEMMA AAllDelivered == ASSUME AInv, Len(aDelivered) = Len(aSource) PROVE aDelivered = aSource
<1>1. aDelivered \in Seq(AEvents) /\ aSource \in Seq(AEvents)
      /\ \A i \in 1 .. Len(aDelivered) : aDelivered[i] = aSource[i]
  BY DEF AInv, AType, ASource
<1> QED
  BY <1>1, SameSequence

(* What Next advanced to is delivered, and Event returns it.               *)
LEMMA AnthropicDelivers == AInv => Anthropic!FalseAfterAllEvents /\ Anthropic!EventIsCurrent
<1>1. AInv => Anthropic!FalseAfterAllEvents
  BY AAllDelivered DEF AInv, AControl, Anthropic!FalseAfterAllEvents
<1>2. AInv => Anthropic!EventIsCurrent
  BY DEF AInv, AType, AControl, Anthropic!EventIsCurrent
<1> QED
  BY <1>1, <1>2

-----------------------------------------------------------------------------
(* What a step of Anthropic's stream is to CompletionStream.               *)
LEMMA AArrivesProduces ==
  ASSUME AInv, AInv', NEW kind \in {"start", "text", "args", "stop", "done", "skip"}, AArrives(kind)
  PROVE  [Anthropic!Contract!Next]_(Anthropic!Contract!vars)
<1>1. /\ aWireEnd = "open" /\ ~Anthropic!Contract!Complete
      /\ UNCHANGED <<aWireEnd, aPc, aReturned, aDelivered>>
  BY DEF AArrives, Anthropic!Complete, Anthropic!Contract!Complete
<1>2. /\ Anthropic!verdict = "open" /\ Anthropic!verdict' = "open" /\ aDelivered' = aDelivered
      /\ Anthropic!outcome' = Anthropic!outcome
  BY <1>1 DEF Anthropic!verdict, Anthropic!outcome
<1>3. CASE kind \in {"start", "text", "args"}
  <2>1. PICK event : aSource' = Append(aSource, event)
    BY <1>3 DEF AArrives
  <2>2. aSource \in Seq(AEvents) /\ Len(aSource) \in Nat
    BY DEF AInv, AType
  <2>3. aSource'[Len(aSource) + 1] \in Anthropic!Event
    BY <1>3, AAdded
  <2>4. aSource'[Len(aSource) + 1] = event
    BY <2>1, <2>2
  <2>5. event \in Anthropic!Event
    BY <2>3, <2>4
  <2>6. aSource' = aSource \o <<event>>
    BY <2>1, <2>2
  <2>7. <<event>> \in [1 .. 1 -> Anthropic!Event] /\ 1 \in 0 .. 1
    BY <2>5
  <2>8. \E n \in 0 .. 1 : \E es \in [1 .. n -> Anthropic!Event] : aSource' = aSource \o es
    BY <2>6, <2>7
  <2> QED
    BY <1>1, <1>2, <2>8 DEF Anthropic!Contract!Produce, Anthropic!Contract!Next
<1>4. CASE kind = "done"
  <2>1. aSource' = Append(aSource, Anthropic!Done)
    BY <1>4 DEF AArrives
  <2> QED
    BY <1>1, <1>2, <2>1 DEF Anthropic!Contract!Last, Anthropic!Contract!Next
<1>5. CASE kind \in {"stop", "skip"}
  <2>1. aSource' = aSource
    BY <1>5 DEF AArrives
  <2> QED
    BY <1>2, <2>1 DEF Anthropic!Contract!vars
<1> QED
  BY <1>3, <1>4, <1>5

LEMMA ARefines ==
  ASSUME AInv, AInv', Anthropic!Next \/ UNCHANGED anthropicVars
  PROVE  [Anthropic!Contract!Next]_(Anthropic!Contract!vars)
<1>1. CASE Anthropic!ArriveStart \/ Anthropic!ArriveDelta \/ Anthropic!ArriveStop \/ Anthropic!ArriveDone
  BY <1>1, AArrivals, AArrivesProduces
<1>2. CASE Anthropic!WireEnds
  <2>1. /\ aWireEnd = "open" /\ aWireEnd' \in {"eof", "broken"} /\ aReturned # "false"
        /\ UNCHANGED <<aSource, aPc, aReturned, aDelivered>>
    BY <1>2 DEF Anthropic!WireEnds, Anthropic!consumer, AInv, AControl
  <2>2. Anthropic!outcome' = Anthropic!outcome
    BY <2>1 DEF Anthropic!outcome
  <2>3. Anthropic!verdict = "open" /\ Anthropic!verdict' \in {"end", "error"}
    BY <2>1 DEF Anthropic!verdict
  <2> QED
    BY <2>1, <2>2, <2>3 DEF Anthropic!Contract!Finish, Anthropic!Contract!Next
<1>3. CASE Anthropic!PullEvent
  <2>1. Anthropic!verdict' = Anthropic!verdict /\ aSource' = aSource
    BY <1>3 DEF Anthropic!PullEvent, Anthropic!verdict
  <2>2. aPc = "pulling" /\ aReturned # "false" /\ (AGoesOn \/ ADelivers)
    BY <1>3, APullEvent
  <2>3. Anthropic!outcome = "open" /\ Anthropic!outcome' = "open"
    BY <2>2 DEF AGoesOn, ADelivers, Anthropic!outcome
  <2>4. CASE AGoesOn
    BY <2>1, <2>3, <2>4 DEF AGoesOn, Anthropic!Contract!vars
  <2>5. CASE ADelivers
    BY <2>1, <2>3, <2>5 DEF ADelivers, Anthropic!Contract!Deliver, Anthropic!Contract!Next
  <2> QED
    BY <2>2, <2>4, <2>5
<1>4. CASE Anthropic!PullEnd
  <2>1. Anthropic!verdict' = Anthropic!verdict /\ aSource' = aSource /\ aWireEnd' = aWireEnd
    BY <1>4 DEF Anthropic!PullEnd, Anthropic!service, Anthropic!verdict
  <2>2. /\ aPc = "pulling" /\ aReturned # "false" /\ aPc' = "idle" /\ aReturned' = "false"
        /\ aDelivered' = aDelivered
        /\ aWireEnd = "broken" \/ (aWireEnd = "eof" /\ Len(aDelivered) = Len(aSource))
    BY <1>4, APullEnd
  <2>3. Anthropic!outcome = "open" /\ Anthropic!outcome' = IF aWireEnd = "eof" THEN "end" ELSE "error"
    BY <2>1, <2>2 DEF Anthropic!outcome
  <2>4. CASE aWireEnd = "broken"
    <3>1. Anthropic!verdict = "error"
      BY <2>4 DEF Anthropic!verdict
    <3> QED
      BY <2>1, <2>2, <2>3, <2>4, <3>1 DEF Anthropic!Contract!ReportError, Anthropic!Contract!Next
  <2>5. CASE aWireEnd = "eof" /\ Len(aDelivered) = Len(aSource)
    <3>1. Anthropic!verdict = "end" /\ aDelivered = aSource
      BY <2>5, AAllDelivered DEF Anthropic!verdict
    <3> QED
      BY <2>1, <2>2, <2>3, <2>5, <3>1 DEF Anthropic!Contract!ReportEnd, Anthropic!Contract!Next
  <2> QED
    BY <2>2, <2>4, <2>5
<1>5. CASE Anthropic!Close
  <2>1. Anthropic!outcome # "closed" /\ Anthropic!outcome' = "closed"
    BY <1>5 DEF Anthropic!Close, Anthropic!outcome
  <2>2. Anthropic!verdict' = Anthropic!verdict /\ aSource' = aSource /\ aDelivered' = aDelivered
    BY <1>5 DEF Anthropic!Close, Anthropic!service, Anthropic!verdict
  <2> QED
    BY <2>1, <2>2 DEF Anthropic!Contract!Close, Anthropic!Contract!Next
<1>6. CASE Anthropic!CallNext \/ Anthropic!CallEvent
  <2>1. /\ UNCHANGED <<aWireEnd, aSource, aDelivered>> /\ aReturned # "false" /\ aReturned' # "false"
        /\ aPc = "idle" /\ aPc' # "closed"
    BY <1>6 DEF Anthropic!CallNext, Anthropic!CallEvent, Anthropic!service
  <2> QED
    BY <2>1 DEF Anthropic!verdict, Anthropic!outcome, Anthropic!Contract!vars
<1>7. CASE UNCHANGED anthropicVars
  BY <1>7 DEF anthropicVars, Anthropic!verdict, Anthropic!outcome, Anthropic!Contract!vars
<1>8. Anthropic!Terminated => UNCHANGED anthropicVars
  BY DEF Anthropic!Terminated, Anthropic!vars, Anthropic!service, Anthropic!consumer, anthropicVars
<1> QED
  BY <1>1, <1>2, <1>3, <1>4, <1>5, <1>6, <1>7, <1>8 DEF Anthropic!Next

LEMMA AnthropicImplementsContract == Spec => Anthropic!ImplementsContract
<1>1. Init => Anthropic!Contract!Init
  BY DEF Init, Anthropic!Init, Anthropic!Contract!Init, Anthropic!verdict, Anthropic!outcome
<1>2. AInv /\ AInv' /\ [Next]_vars => [Anthropic!Contract!Next]_(Anthropic!Contract!vars)
  BY ARefines, OnePart
<1> QED
  BY <1>1, <1>2, AnthropicInvariant, PTL DEF Spec, Anthropic!ImplementsContract, Anthropic!Contract!Spec

-----------------------------------------------------------------------------
(* SEQUENCES OF SEQUENCES.  f[k] is what the first k of ss hold, one after *)
(* the other.                                                              *)
Joined(S, ss, n, f) ==
  /\ f \in [0 .. n -> Seq(S)] /\ f[0] = <<>>
  /\ \A k \in 1 .. n : f[k] = f[k - 1] \o ss[k]
Begins(s, t) == Len(s) <= Len(t) /\ \A i \in 1 .. Len(s) : t[i] = s[i]

LEMMA Concatenated ==
  ASSUME NEW S, NEW s \in Seq(S), NEW t \in Seq(S)
  PROVE  /\ s \o t \in Seq(S) /\ Len(s \o t) = Len(s) + Len(t)
         /\ \A i \in 1 .. Len(s) : (s \o t)[i] = s[i]
         /\ \A i \in 1 .. Len(t) : (s \o t)[Len(s) + i] = t[i]
  OBVIOUS

LEMMA Nothing == ASSUME NEW S, NEW s \in Seq(S), Len(s) = 0 PROVE s = <<>>
  OBVIOUS

LEMMA Joins ==
  ASSUME NEW S, NEW ss \in Seq(Seq(S)), NEW d \in Nat, d <= Len(ss)
  PROVE  \E f : Joined(S, ss, d, f)
<1> DEFINE T == {n \in Nat : n <= Len(ss) /\ ~ \E f : Joined(S, ss, n, f)}
<1>1. SUFFICES ASSUME T # {} PROVE FALSE
  OBVIOUS
<1>2. T \in SUBSET Nat
  OBVIOUS
<1> HIDE DEF T
<1>3. PICK n \in T : \A m \in T : n <= m
  BY <1>1, <1>2, Least
<1>4. n \in Nat /\ n <= Len(ss) /\ ~ \E f : Joined(S, ss, n, f)
  BY DEF T
<1>5. CASE n = 0
  <2>1. PICK f : f = [k \in 0 .. 0 |-> <<>>]
    OBVIOUS
  <2>2. f \in [0 .. 0 -> Seq(S)] /\ f[0] = <<>>
    BY <2>1
  <2>3. Joined(S, ss, 0, f)
    BY <2>2 DEF Joined
  <2> QED
    BY <1>4, <1>5, <2>3
<1>6. CASE n # 0
  <2>1. PICK m \in Nat : n = m + 1
    <3>1. n - 1 \in Nat /\ n = (n - 1) + 1
      BY <1>4, <1>6
    <3> QED
      BY <3>1
  <2>2. m \notin T /\ m <= Len(ss) /\ n \in 1 .. Len(ss)
    BY <1>3, <1>4, <2>1
  <2>3. PICK f : Joined(S, ss, m, f)
    BY <2>2 DEF T
  <2>4. f \in [0 .. m -> Seq(S)] /\ f[0] = <<>> /\ \A k \in 1 .. m : f[k] = f[k - 1] \o ss[k]
    BY <2>3 DEF Joined
  <2>5. PICK s \in Seq(S), t \in Seq(S) : s = f[m] /\ t = ss[n]
    BY <2>2, <2>4
  <2>6. PICK g : g = [k \in 0 .. m + 1 |-> IF k = m + 1 THEN s \o t ELSE f[k]]
    OBVIOUS
  <2>7. s \o t \in Seq(S)
    OBVIOUS
  <2>8. g \in [0 .. m + 1 -> Seq(S)] /\ g[0] = <<>>
    BY <2>4, <2>6, <2>7
  <2>9. ASSUME NEW k \in 1 .. m + 1 PROVE g[k] = g[k - 1] \o ss[k]
    <3>1. CASE k = m + 1
      <4>1. k = n /\ k - 1 = m /\ m \in 0 .. m + 1 /\ m # m + 1
        BY <2>1, <3>1
      <4>2. g[k] = s \o t
        BY <2>6, <3>1
      <4>3. g[m] = f[m]
        BY <2>6, <4>1
      <4>4. g[k - 1] = s /\ ss[k] = t
        BY <2>5, <4>1, <4>3
      <4> QED
        BY <4>2, <4>4
    <3>2. CASE k # m + 1
      <4>1. k \in 1 .. m /\ g[k] = f[k] /\ g[k - 1] = f[k - 1]
        BY <2>6, <3>2
      <4> QED
        BY <2>4, <4>1
    <3> QED
      BY <3>1, <3>2
  <2>10. Joined(S, ss, n, g)
    BY <2>1, <2>8, <2>9 DEF Joined
  <2> QED
    BY <1>4, <2>10
<1> QED
  BY <1>5, <1>6

(* What FlattenSeq makes of ss is what all of them hold.                   *)
LEMMA FlattenJoins ==
  ASSUME NEW S, NEW ss \in Seq(Seq(S))
  PROVE  \E f : Joined(S, ss, Len(ss), f) /\ Completions!FlattenSeq(ss) = f[Len(ss)]
<1>1. PICK d \in Nat : d = Len(ss)
  OBVIOUS
<1>2. PICK f : Joined(S, ss, d, f)
  BY <1>1, Joins
<1>3. f \in [0 .. d -> Seq(S)] /\ f[0] = <<>> /\ \A k \in 1 .. d : f[k] = f[k - 1] \o ss[k]
  BY <1>2 DEF Joined
<1>4. CASE d = 0
  <2>1. Completions!FlattenSeq(ss) = ss /\ ss = <<>>
    <3>1. Len(ss) = 0 /\ ss = <<>>
      BY <1>1, <1>4, Nothing
    <3> QED
      BY <3>1, Zenon DEF Completions!FlattenSeq
  <2> QED
    BY <1>1, <1>2, <1>3, <1>4, <2>1
<1>5. CASE d # 0
  <2> DEFINE Q(g) == g = [i \in 1 .. d |-> IF i = 1 THEN ss[i] ELSE g[i - 1] \o ss[i]]
  <2>1. Completions!FlattenSeq(ss) = (CHOOSE g : Q(g))[d]
    <3>1. Len(ss) # 0
      BY <1>1, <1>5
    <3> QED
      BY <1>1, <3>1, Zenon DEF Completions!FlattenSeq
  <2>2. f[1] = ss[1]
    <3>1. 1 \in 1 .. d /\ ss[1] \in Seq(S) /\ f[1] = f[0] \o ss[1]
      <4>1. 1 \in 1 .. d /\ 1 \in 1 .. Len(ss) /\ 1 - 1 = 0
        BY <1>1, <1>5
      <4>2. f[1] = f[1 - 1] \o ss[1]
        BY <1>3, <4>1
      <4>3. ss[1] \in Seq(S)
        BY <4>1
      <4> QED
        BY <4>1, <4>2, <4>3
    <3>2. PICK s \in Seq(S) : s = ss[1]
      BY <3>1
    <3>3. <<>> \o s = s
      OBVIOUS
    <3> QED
      BY <1>3, <3>1, <3>2, <3>3
  <2>3. PICK h : h = [i \in 1 .. d |-> f[i]]
    OBVIOUS
  <2>4. Q(h)
    <3>1. ASSUME NEW i \in 1 .. d PROVE h[i] = IF i = 1 THEN ss[i] ELSE h[i - 1] \o ss[i]
      <4>1. CASE i = 1
        BY <2>2, <2>3, <4>1
      <4>2. CASE i # 1
        <5>1. i - 1 \in 1 .. d
          BY <4>2
        <5>2. h[i] = f[i] /\ h[i - 1] = f[i - 1]
          BY <2>3, <5>1
        <5> QED
          BY <1>3, <4>2, <5>2
      <4> QED
        BY <4>1, <4>2
    <3>2. h = [i \in 1 .. d |-> IF i = 1 THEN ss[i] ELSE h[i - 1] \o ss[i]]
      BY <2>3, <3>1
    <3> QED
      BY <3>2
  <2>5. Q(CHOOSE g : Q(g))
    <3> HIDE DEF Q
    <3> QED
      BY <2>4, Zenon
  <2>6. PICK g : g = (CHOOSE e : Q(e))
    OBVIOUS
  <2>7. g = [i \in 1 .. d |-> IF i = 1 THEN ss[i] ELSE g[i - 1] \o ss[i]]
    BY <2>5, <2>6
  <2> HIDE DEF Q
  <2> DEFINE T == {k \in Nat : k \in 1 .. d /\ g[k] # f[k]}
  <2>8. T = {}
    <3>1. SUFFICES ASSUME T # {} PROVE FALSE
      OBVIOUS
    <3>2. T \in SUBSET Nat
      OBVIOUS
    <3> HIDE DEF T
    <3>3. PICK k \in T : \A m \in T : k <= m
      BY <3>1, <3>2, Least
    <3>4. k \in 1 .. d /\ g[k] # f[k]
      BY DEF T
    <3>5. k # 1
      BY <2>2, <2>7, <3>4
    <3>6. k - 1 \in Nat /\ k - 1 \in 1 .. d /\ k - 1 \notin T
      BY <3>2, <3>3, <3>4, <3>5
    <3>7. g[k - 1] = f[k - 1]
      BY <3>6 DEF T
    <3>8. g[k] = g[k - 1] \o ss[k]
      BY <2>7, <3>4, <3>5
    <3> QED
      BY <1>3, <3>4, <3>7, <3>8
  <2>9. g[d] = f[d]
    <3>1. d \in 1 .. d /\ d \notin T
      BY <1>5, <2>8
    <3> QED
      BY <3>1
  <2>10. Completions!FlattenSeq(ss) = f[d]
    BY <2>1, <2>6, <2>9
  <2> QED
    BY <1>1, <1>2, <2>10
<1> QED
  BY <1>4, <1>5

LEMMA BeginsGrows ==
  ASSUME NEW S, NEW s \in Seq(S), NEW t \in Seq(S), NEW u \in Seq(S), Begins(s, t)
  PROVE  Begins(s, t \o u)
  BY Concatenated DEF Begins

LEMMA JoinedGrows ==
  ASSUME NEW S, NEW ss \in Seq(Seq(S)), NEW n \in Nat, n <= Len(ss), NEW f, Joined(S, ss, n, f),
         NEW h \in 0 .. n, NEW k \in 0 .. h
  PROVE  Begins(f[k], f[h])
<1>1. f \in [0 .. n -> Seq(S)] /\ \A i \in 1 .. n : f[i] = f[i - 1] \o ss[i]
  BY DEF Joined
<1> DEFINE T == {i \in Nat : i \in k .. n /\ ~Begins(f[k], f[i])}
<1>2. T = {}
  <2>1. SUFFICES ASSUME T # {} PROVE FALSE
    OBVIOUS
  <2>2. T \in SUBSET Nat
    OBVIOUS
  <2> HIDE DEF T
  <2>3. PICK i \in T : \A m \in T : i <= m
    BY <2>1, <2>2, Least
  <2>4. i \in k .. n /\ i \in Nat /\ ~Begins(f[k], f[i])
    BY DEF T
  <2>5. f[k] \in Seq(S)
    BY <1>1
  <2>6. i # k
    BY <2>4, <2>5 DEF Begins
  <2>7. i - 1 \in Nat /\ i - 1 \in k .. n /\ i - 1 \notin T /\ i \in 1 .. n /\ i - 1 \in 0 .. n
    BY <2>2, <2>3, <2>4, <2>6
  <2>8. Begins(f[k], f[i - 1])
    BY <2>7 DEF T
  <2>9. PICK t \in Seq(S), u \in Seq(S) : t = f[i - 1] /\ u = ss[i]
    BY <1>1, <2>7
  <2>10. f[i] = t \o u
    BY <1>1, <2>7, <2>9
  <2> QED
    BY <2>4, <2>5, <2>8, <2>9, <2>10, BeginsGrows
<1>3. h \in k .. n /\ h \in Nat
  OBVIOUS
<1> QED
  BY <1>2, <1>3

(* Every element of every one of them has its place in t, and those of an  *)
(* earlier one come first.                                                 *)
HoldsAll(ss, t) ==
  /\ \A k \in 1 .. Len(ss) : \A i \in 1 .. Len(ss[k]) : \E p \in 1 .. Len(t) : t[p] = ss[k][i]
  /\ \A k, l \in 1 .. Len(ss) : k < l =>
       \A i \in 1 .. Len(ss[k]), j \in 1 .. Len(ss[l]) :
         \E p, q \in 1 .. Len(t) : p < q /\ t[p] = ss[k][i] /\ t[q] = ss[l][j]

LEMMA FlattenHolds ==
  ASSUME NEW S, NEW ss \in Seq(Seq(S))
  PROVE  Completions!FlattenSeq(ss) \in Seq(S) /\ HoldsAll(ss, Completions!FlattenSeq(ss))
<1>1. PICK f : Joined(S, ss, Len(ss), f) /\ Completions!FlattenSeq(ss) = f[Len(ss)]
  BY FlattenJoins
<1>2. PICK n \in Nat : n = Len(ss)
  OBVIOUS
<1>3. f \in [0 .. n -> Seq(S)] /\ \A i \in 1 .. n : f[i] = f[i - 1] \o ss[i]
  BY <1>1, <1>2 DEF Joined
<1>4. PICK all \in Seq(S) : all = f[n]
  BY <1>3
<1>5. ASSUME NEW k \in 0 .. n PROVE f[k] \in Seq(S) /\ Begins(f[k], all)
  <2>1. n \in 0 .. n /\ k \in 0 .. n /\ n <= Len(ss) /\ Joined(S, ss, n, f)
    BY <1>1, <1>2
  <2>2. Begins(f[k], f[n])
    BY <2>1, JoinedGrows
  <2> QED
    BY <1>3, <1>4, <2>2
<1>6. ASSUME NEW k \in 1 .. n, NEW i \in 1 .. Len(ss[k])
      PROVE  /\ f[k - 1] \in Seq(S) /\ f[k] \in Seq(S)
             /\ Len(f[k - 1]) + i \in 1 .. Len(f[k])
             /\ Len(f[k - 1]) + i \in 1 .. Len(all)
             /\ all[Len(f[k - 1]) + i] = ss[k][i]
  <2>1. k - 1 \in 0 .. n /\ k \in 0 .. n
    OBVIOUS
  <2>2. PICK s, t, u : s = f[k - 1] /\ t = ss[k] /\ u = f[k]
    OBVIOUS
  <2>7. s \in Seq(S) /\ t \in Seq(S) /\ u \in Seq(S)
    <3>1. s \in Seq(S) /\ u \in Seq(S)
      BY <1>3, <2>1, <2>2
    <3>2. t \in Seq(S)
      BY <1>2, <2>2
    <3> QED
      BY <3>1, <3>2
  <2>3. u = s \o t /\ Begins(u, all)
    BY <1>3, <1>5, <2>1, <2>2
  <2>4. i \in 1 .. Len(t)
    BY <2>2
  <2>5. Len(s) + i \in 1 .. Len(u) /\ u[Len(s) + i] = t[i]
    <3>1. /\ Len(s \o t) = Len(s) + Len(t)
          /\ \A h \in 1 .. Len(t) : (s \o t)[Len(s) + h] = t[h]
      BY <2>7, Concatenated
    <3> QED
      BY <2>3, <2>4, <2>7, <3>1
  <2>6. Len(s) + i \in 1 .. Len(all) /\ all[Len(s) + i] = t[i]
    BY <2>3, <2>5, <2>7 DEF Begins
  <2> QED
    BY <2>2, <2>5, <2>6, <2>7
<1>7. ASSUME NEW k \in 1 .. n, NEW l \in 1 .. n, k < l,
             NEW i \in 1 .. Len(ss[k]), NEW j \in 1 .. Len(ss[l])
      PROVE  \E p, q \in 1 .. Len(all) : p < q /\ all[p] = ss[k][i] /\ all[q] = ss[l][j]
  <2>1. k \in 0 .. l - 1 /\ l - 1 \in 0 .. n /\ k \in 0 .. n
    BY <1>7
  <2>2. PICK s, t, u : s = f[k - 1] /\ t = f[k] /\ u = f[l - 1]
    OBVIOUS
  <2>7. s \in Seq(S) /\ t \in Seq(S) /\ u \in Seq(S)
    BY <1>6, <1>3, <2>1, <2>2
  <2>3. Begins(t, u)
    <3>1. n <= Len(ss) /\ Joined(S, ss, n, f)
      BY <1>1, <1>2
    <3> QED
      BY <2>1, <2>2, <3>1, JoinedGrows
  <2>4. Len(s) + i \in 1 .. Len(t) /\ Len(s) + i \in 1 .. Len(all) /\ all[Len(s) + i] = ss[k][i]
    BY <1>6, <2>2
  <2>5. Len(u) + j \in 1 .. Len(all) /\ all[Len(u) + j] = ss[l][j]
    BY <1>6, <2>2
  <2>6. Len(s) + i < Len(u) + j
    BY <2>3, <2>4, <2>7 DEF Begins
  <2> QED
    BY <2>4, <2>5, <2>6
<1>8. Completions!FlattenSeq(ss) = all
  BY <1>1, <1>2, <1>4
<1>9. \A k \in 1 .. n : \A i \in 1 .. Len(ss[k]) : \E p \in 1 .. Len(all) : all[p] = ss[k][i]
  BY <1>6
<1>10. \A k, l \in 1 .. n : k < l =>
         \A i \in 1 .. Len(ss[k]), j \in 1 .. Len(ss[l]) :
           \E p, q \in 1 .. Len(all) : p < q /\ all[p] = ss[k][i] /\ all[q] = ss[l][j]
  BY <1>7
<1>11. \A k \in 1 .. Len(ss) : \A i \in 1 .. Len(ss[k]) : \E p \in 1 .. Len(all) : all[p] = ss[k][i]
  BY <1>2, <1>9
<1>12. \A k, l \in 1 .. Len(ss) : k < l =>
         \A i \in 1 .. Len(ss[k]), j \in 1 .. Len(ss[l]) :
           \E p, q \in 1 .. Len(all) : p < q /\ all[p] = ss[k][i] /\ all[q] = ss[l][j]
  BY <1>2, <1>10
<1>13. HoldsAll(ss, all)
  BY <1>11, <1>12 DEF HoldsAll
<1> QED
  BY <1>4, <1>8, <1>13

-----------------------------------------------------------------------------
(* THE CONVERSATION.  Texts and ids are strings, a call is its id and its  *)
(* function's name, and messages are of one of three roles, each with the  *)
(* parts that it may have.                                                 *)
Str == Seq(Nat)
CCall == [id : Str, name : Str]
CValues == Str \cup CCall
CValue(kind) == IF kind \in {"call", "tool_call"} THEN CCall ELSE Str
CTypes == {"text", "tool_call", "tool_result", "image"}
CPart == {x \in [type : CTypes, value : CValues] : x.value \in CValue(x.type)}
CMessage == [role : {"user", "tool", "assistant"}, content : Str, parts : Seq(CPart)]
CBlock == {b \in [type : {"text", "call"}, value : CValues] :
             b.value \in CValue(b.type) /\ (b.type = "text" => Len(b.value) = 1)}
CKinds == {"user", "assistant", "call", "result", "named", "image"}
CItem == {x \in [kind : CKinds, value : CValues] : x.value \in CValue(x.kind)}
CSound(m) ==
  /\ m \in CMessage
  /\ m.role = "user" => \A j \in 1 .. Len(m.parts) : m.parts[j].type \in {"text", "image"}
  /\ m.role = "tool" => m.parts # <<>> /\ \A j \in 1 .. Len(m.parts) : m.parts[j].type = "tool_result"
  /\ m.role = "assistant" => \A j \in 1 .. Len(m.parts) : m.parts[j].type \in {"text", "tool_call"}

Holds(s, x) == \E k \in 1 .. Len(s) : s[k] = x

LEMMA HoldsEither ==
  ASSUME NEW S, NEW s \in Seq(S), NEW t \in Seq(S), NEW x, Holds(s, x) \/ Holds(t, x)
  PROVE  Holds(s \o t, x)
<1>1. /\ s \o t \in Seq(S) /\ Len(s \o t) = Len(s) + Len(t)
      /\ \A i \in 1 .. Len(s) : (s \o t)[i] = s[i]
      /\ \A i \in 1 .. Len(t) : (s \o t)[Len(s) + i] = t[i]
  BY Concatenated
<1>2. CASE Holds(s, x)
  <2>1. PICK k \in 1 .. Len(s) : s[k] = x
    BY <1>2 DEF Holds
  <2>2. k \in 1 .. Len(s \o t) /\ (s \o t)[k] = x
    BY <1>1, <2>1
  <2> QED
    BY <2>2 DEF Holds
<1>3. CASE Holds(t, x)
  <2>1. PICK k \in 1 .. Len(t) : t[k] = x
    BY <1>3 DEF Holds
  <2>2. Len(s) + k \in 1 .. Len(s \o t) /\ (s \o t)[Len(s) + k] = x
    BY <1>1, <2>1
  <2> QED
    BY <2>2 DEF Holds
<1> QED
  BY <1>2, <1>3

(* The elements of some types: those of the sequence, and all of them.     *)
OfTypes(S, s, types) == {x \in S : x.type \in types /\ Holds(s, x)}

LEMMA OfTypeHolds ==
  ASSUME NEW S, NEW s \in Seq(S), NEW types
  PROVE  /\ Completions!OfType(s, types) \in Seq(OfTypes(S, s, types))
         /\ \A i \in 1 .. Len(s) : s[i].type \in types => Holds(Completions!OfType(s, types), s[i])
<1>1. PICK V : V = OfTypes(S, s, types)
  OBVIOUS
<1>2. PICK ss : ss = [i \in DOMAIN s |-> IF s[i].type \in types THEN <<s[i]>> ELSE <<>>]
  OBVIOUS
<1>3. PICK n \in Nat : n = Len(s)
  OBVIOUS
<1>4. DOMAIN s = 1 .. n
  BY <1>3
<1>5. ASSUME NEW i \in 1 .. n PROVE ss[i] \in Seq(V)
  <2>1. CASE s[i].type \in types
    <3>1. s[i] \in V
      BY <1>1, <1>3, <2>1 DEF OfTypes, Holds
    <3>2. ss[i] = <<s[i]>>
      BY <1>2, <1>4, <2>1
    <3> QED
      BY <3>1, <3>2
  <2>2. CASE s[i].type \notin types
    <3>1. ss[i] = <<>>
      BY <1>2, <1>4, <2>2
    <3> QED
      BY <3>1
  <2> QED
    BY <2>1, <2>2
<1>6. ss \in [1 .. n -> Seq(V)]
  BY <1>2, <1>4, <1>5
<1>7. ss \in Seq(Seq(V)) /\ Len(ss) = n
  BY <1>6
<1>8. Completions!OfType(s, types) = Completions!FlattenSeq(ss)
  BY <1>2, Zenon DEF Completions!OfType
<1>9. PICK t \in Seq(V) : t = Completions!FlattenSeq(ss) /\ HoldsAll(ss, t)
  BY <1>7, FlattenHolds
<1>10. ASSUME NEW i \in 1 .. n, s[i].type \in types PROVE Holds(t, s[i])
  <2>1. ss[i] = <<s[i]>>
    BY <1>2, <1>4, <1>10
  <2>2. Len(ss[i]) = 1 /\ ss[i][1] = s[i]
    BY <2>1
  <2>3. i \in 1 .. Len(ss) /\ 1 \in 1 .. Len(ss[i])
    BY <1>7, <2>2
  <2>4. \E p \in 1 .. Len(t) : t[p] = ss[i][1]
    BY <1>9, <2>3 DEF HoldsAll
  <2> QED
    BY <2>2, <2>4 DEF Holds
<1> QED
  BY <1>1, <1>3, <1>8, <1>9, <1>10

LEMMA ItemIs ==
  ASSUME NEW kind \in CKinds, NEW v \in CValue(kind)
  PROVE  Completions!Item(kind, v) \in CItem
<1>1. v \in CValues
  BY DEF CValue, CValues
<1>2. PICK x : x = Completions!Item(kind, v)
  OBVIOUS
<1>3. x \in [kind : CKinds, value : CValues] /\ x.kind = kind /\ x.value = v
  BY <1>1, <1>2 DEF Completions!Item
<1> QED
  BY <1>2, <1>3 DEF CItem

LEMMA PartIs ==
  ASSUME NEW type \in CTypes, NEW v \in CValue(type), NEW x, x = Completions!Part(type, v)
  PROVE  x \in CPart /\ x.type = type /\ x.value = v
<1>1. v \in CValues
  BY DEF CValue, CValues
<1>2. x \in [type : CTypes, value : CValues] /\ x.type = type /\ x.value = v
  BY <1>1 DEF Completions!Part
<1> QED
  BY <1>2 DEF CPart

LEMMA PartHas == ASSUME NEW x \in CPart PROVE x.type \in CTypes /\ x.value \in CValue(x.type)
BY DEF CPart

LEMMA ValuesAre ==
  ASSUME NEW S, NEW V, \A x \in S : x.value \in V, NEW s \in Seq(S)
  PROVE  /\ Completions!Values(s) \in Seq(V) /\ Len(Completions!Values(s)) = Len(s)
         /\ \A i \in 1 .. Len(s) : Completions!Values(s)[i] = s[i].value
<1>1. DOMAIN s = 1 .. Len(s) /\ Len(s) \in Nat /\ \A i \in 1 .. Len(s) : s[i].value \in V
  OBVIOUS
<1>2. PICK v : v = [i \in 1 .. Len(s) |-> s[i].value]
  OBVIOUS
<1>3. v \in [1 .. Len(s) -> V]
  BY <1>1, <1>2
<1>4. v \in Seq(V) /\ Len(v) = Len(s)
  BY <1>1, <1>3
<1>5. Completions!Values(s) = v
  BY <1>1, <1>2 DEF Completions!Values
<1> QED
  BY <1>2, <1>4, <1>5

LEMMA EachAre ==
  ASSUME NEW kind \in CKinds, NEW v \in Seq(CValue(kind))
  PROVE  /\ Completions!Each(kind, v) \in Seq(CItem) /\ Len(Completions!Each(kind, v)) = Len(v)
         /\ \A i \in 1 .. Len(v) : Completions!Each(kind, v)[i] = Completions!Item(kind, v[i])
<1>1. DOMAIN v = 1 .. Len(v) /\ Len(v) \in Nat /\ \A i \in 1 .. Len(v) : v[i] \in CValue(kind)
  OBVIOUS
<1>2. PICK e : e = [i \in 1 .. Len(v) |-> Completions!Item(kind, v[i])]
  OBVIOUS
<1>3. \A i \in 1 .. Len(v) : Completions!Item(kind, v[i]) \in CItem
  BY <1>1, ItemIs
<1>4. e \in [1 .. Len(v) -> CItem]
  BY <1>2, <1>3
<1>5. e \in Seq(CItem) /\ Len(e) = Len(v)
  BY <1>1, <1>4
<1>6. Completions!Each(kind, v) = e
  BY <1>1, <1>2 DEF Completions!Each
<1> QED
  BY <1>2, <1>5, <1>6

(* One item per part of a type that has the kind's values.                 *)
LEMMA EachOfType ==
  ASSUME NEW kind \in CKinds, NEW s \in Seq(CPart), NEW type, CValue(type) = CValue(kind)
  PROVE  LET e == Completions!Each(kind, Completions!Values(Completions!OfType(s, {type}))) IN
         /\ e \in Seq(CItem)
         /\ \A i \in 1 .. Len(s) : s[i].type = type => Holds(e, Completions!Item(kind, s[i].value))
<1>1. PICK t : t = Completions!OfType(s, {type})
  OBVIOUS
<1>2. /\ t \in Seq(OfTypes(CPart, s, {type}))
      /\ \A i \in 1 .. Len(s) : s[i].type \in {type} => Holds(t, s[i])
  BY <1>1, OfTypeHolds
<1>3. PICK S : S = OfTypes(CPart, s, {type})
  OBVIOUS
<1>4. \A x \in S : x.value \in CValue(kind)
  <2>1. ASSUME NEW x \in S PROVE x.value \in CValue(kind)
    <3>1. x \in CPart /\ x.type = type
      BY <1>3, <2>1 DEF OfTypes
    <3> QED
      BY <3>1, PartHas
  <2> QED
    BY <2>1
<1>5. PICK v : v = Completions!Values(t)
  OBVIOUS
<1>6. v \in Seq(CValue(kind)) /\ Len(v) = Len(t) /\ \A i \in 1 .. Len(t) : v[i] = t[i].value
  BY <1>2, <1>3, <1>4, <1>5, ValuesAre
<1>7. PICK e : e = Completions!Each(kind, v)
  OBVIOUS
<1>8. e \in Seq(CItem) /\ Len(e) = Len(v) /\ \A i \in 1 .. Len(v) : e[i] = Completions!Item(kind, v[i])
  BY <1>6, <1>7, EachAre
<1>9. ASSUME NEW i \in 1 .. Len(s), s[i].type = type
      PROVE  Holds(e, Completions!Item(kind, s[i].value))
  <2>1. PICK k \in 1 .. Len(t) : t[k] = s[i]
    BY <1>2, <1>9 DEF Holds
  <2>2. k \in 1 .. Len(e) /\ v[k] = s[i].value
    BY <1>6, <1>8, <2>1
  <2>3. e[k] = Completions!Item(kind, v[k])
    BY <1>6, <1>8, <2>1
  <2>4. e[k] = Completions!Item(kind, s[i].value)
    BY <2>2, <2>3
  <2> QED
    BY <2>2, <2>4 DEF Holds
<1> QED
  BY <1>1, <1>5, <1>7, <1>8, <1>9

LEMMA TextIs ==
  ASSUME NEW kind \in {"user", "assistant"}, NEW c \in Str
  PROVE  /\ Completions!Text(kind, c) \in Seq(CItem)
         /\ c # <<>> => Holds(Completions!Text(kind, c), Completions!Item(kind, c))
<1>1. PICK x : x = Completions!Item(kind, c)
  OBVIOUS
<1>2. x \in CItem
  <2>1. kind \in CKinds /\ c \in CValue(kind)
    BY DEF CKinds, CValue
  <2> QED
    BY <1>1, <2>1, ItemIs
<1>3. <<x>> \in Seq(CItem) /\ Len(<<x>>) = 1 /\ <<x>>[1] = x /\ <<>> \in Seq(CItem)
  BY <1>2
<1>4. Completions!Text(kind, c) = IF c = <<>> THEN <<>> ELSE <<x>>
  BY <1>1 DEF Completions!Text
<1>5. Holds(<<x>>, x)
  BY <1>3 DEF Holds
<1> QED
  BY <1>1, <1>3, <1>4, <1>5

(* What a provider's items of a message hold: every call, every result     *)
(* (OpenAI's the first), the Content unless there are parts instead, and   *)
(* but for Anthropic every text.                                           *)
CResultKind(p) == IF p = "google" THEN "named" ELSE "result"
Carry(x, text) == x.kind \in {"user", "assistant"} /\ Holds(x.value, text)
CHolds(p, m, s) ==
  /\ m.role = "assistant" => \A j \in 1 .. Len(m.parts) :
       m.parts[j].type = "tool_call" => Holds(s, Completions!Item("call", m.parts[j].value))
  /\ m.role = "tool" => \A j \in 1 .. Len(m.parts) :
       (p = "openai" => j = 1) => Holds(s, Completions!Item(CResultKind(p), m.parts[j].value))
  /\ m.role # "tool" /\ m.content # <<>> /\ (p = "anthropic" \/ m.parts = <<>>) =>
       Holds(s, Completions!Item(m.role, m.content))
  /\ m.role # "tool" /\ p # "anthropic" => \A j \in 1 .. Len(m.parts) : m.parts[j].type = "text" =>
       \A i \in 1 .. Len(m.parts[j].value) : \E x : Holds(s, x) /\ Carry(x, m.parts[j].value[i])

LEMMA SoundParts ==
  ASSUME NEW m, CSound(m)
  PROVE  /\ m.role \in {"user", "tool", "assistant"}
         /\ m.content \in Str /\ m.parts \in Seq(CPart)
BY DEF CSound, CMessage

LEMMA AnthropicHolds ==
  ASSUME NEW m, CSound(m)
  PROVE  /\ Completions!AnthropicItems(m) \in Seq(CItem)
         /\ CHolds("anthropic", m, Completions!AnthropicItems(m))
<1>1. /\ m.role \in {"user", "tool", "assistant"} /\ m.content \in Str /\ m.parts \in Seq(CPart)
  BY SoundParts
<1>2. PICK s : s = Completions!AnthropicItems(m)
  OBVIOUS
<1>3. CASE m.role = "user"
  <2>1. PICK t : t = [i \in DOMAIN m.parts |-> Completions!AnthropicUserItem(m.parts[i])]
    OBVIOUS
  <2>2. PICK n \in Nat : n = Len(m.parts) /\ DOMAIN m.parts = 1 .. n
    BY <1>1
  <2>3. ASSUME NEW i \in 1 .. n PROVE t[i] \in CItem
    <3>1. m.parts[i] \in CPart /\ m.parts[i].type \in {"text", "image"}
      BY <1>1, <1>3, <2>2 DEF CSound
    <3>2. t[i] = Completions!AnthropicUserItem(m.parts[i])
      BY <2>1, <2>2
    <3>3. PICK p : p = m.parts[i]
      OBVIOUS
    <3>4. Completions!AnthropicUserItem(p) \in {Completions!Item("user", p.value), Completions!Item("image", p.value)}
      <4>1. p.type = "text" \/ p.type = "image"
        BY <3>1, <3>3
      <4> QED
        BY <4>1 DEF Completions!AnthropicUserItem
    <3>5. p.value \in CValue("user") /\ p.value \in CValue("image")
      BY <3>1, <3>3, PartHas DEF CValue
    <3>6. Completions!Item("user", p.value) \in CItem /\ Completions!Item("image", p.value) \in CItem
      BY <3>5, ItemIs DEF CKinds
    <3> QED
      BY <3>2, <3>3, <3>4, <3>6
  <2>4. t \in Seq(CItem)
    <3>1. t \in [1 .. n -> CItem]
      BY <2>1, <2>2, <2>3
    <3> QED
      BY <3>1
  <2>5. PICK c : c = Completions!Text("user", m.content)
    OBVIOUS
  <2>6. c \in Seq(CItem) /\ (m.content # <<>> => Holds(c, Completions!Item("user", m.content)))
    BY <1>1, <2>5, TextIs
  <2>7. s = t \o c
    BY <1>2, <1>3, <2>1, <2>5 DEF Completions!AnthropicItems
  <2>8. s \in Seq(CItem)
    BY <2>4, <2>6, <2>7
  <2>9. m.content # <<>> => Holds(s, Completions!Item("user", m.content))
    BY <2>4, <2>6, <2>7, HoldsEither
  <2> QED
    BY <1>2, <1>3, <2>8, <2>9 DEF CHolds
<1>4. CASE m.role = "tool"
  <2>1. s = Completions!Each("result", Completions!Values(Completions!OfType(m.parts, {"tool_result"})))
    BY <1>2, <1>4 DEF Completions!AnthropicItems
  <2>2. s \in Seq(CItem) /\ \A i \in 1 .. Len(m.parts) : m.parts[i].type = "tool_result" =>
          Holds(s, Completions!Item("result", m.parts[i].value))
    BY <1>1, <2>1, EachOfType DEF CKinds, CValue
  <2>3. \A i \in 1 .. Len(m.parts) : m.parts[i].type = "tool_result"
    BY <1>4 DEF CSound
  <2> QED
    BY <1>2, <1>4, <2>2, <2>3 DEF CHolds, CResultKind
<1>5. CASE m.role = "assistant"
  <2>1. PICK c, e : /\ c = Completions!Text("assistant", m.content)
                    /\ e = Completions!Each("call", Completions!Values(Completions!OfType(m.parts, {"tool_call"})))
    OBVIOUS
  <2>2. s = c \o e
    BY <1>2, <1>5, <2>1 DEF Completions!AnthropicItems
  <2>3. c \in Seq(CItem) /\ (m.content # <<>> => Holds(c, Completions!Item("assistant", m.content)))
    BY <1>1, <2>1, TextIs
  <2>4. e \in Seq(CItem) /\ \A i \in 1 .. Len(m.parts) : m.parts[i].type = "tool_call" =>
          Holds(e, Completions!Item("call", m.parts[i].value))
    BY <1>1, <2>1, EachOfType DEF CKinds, CValue
  <2>5. s \in Seq(CItem)
    BY <2>2, <2>3, <2>4
  <2>6. m.content # <<>> => Holds(s, Completions!Item("assistant", m.content))
    BY <2>2, <2>3, <2>4, HoldsEither
  <2>7. ASSUME NEW i \in 1 .. Len(m.parts), m.parts[i].type = "tool_call"
        PROVE  Holds(s, Completions!Item("call", m.parts[i].value))
    BY <2>2, <2>3, <2>4, <2>7, HoldsEither
  <2> QED
    BY <1>2, <1>5, <2>5, <2>6, <2>7 DEF CHolds
<1> QED
  BY <1>1, <1>3, <1>4, <1>5

(* extractTextContent.                                                     *)
LEMMA ExtractHolds ==
  ASSUME NEW m, CSound(m)
  PROVE  /\ Completions!ExtractText(m) \in Str
         /\ m.parts = <<>> => Completions!ExtractText(m) = m.content
         /\ \A j \in 1 .. Len(m.parts) : m.parts[j].type = "text" =>
              \A i \in 1 .. Len(m.parts[j].value) : Holds(Completions!ExtractText(m), m.parts[j].value[i])
<1>1. m.content \in Str /\ m.parts \in Seq(CPart)
  BY SoundParts
<1>2. PICK c : c = Completions!ExtractText(m)
  OBVIOUS
<1>3. CASE m.parts = <<>>
  <2>1. c = m.content
    BY <1>2, <1>3 DEF Completions!ExtractText
  <2>2. Len(m.parts) = 0
    BY <1>3
  <2> QED
    BY <1>1, <1>2, <2>1, <2>2
<1>4. CASE m.parts # <<>>
  <2>1. PICK t : t = Completions!OfType(m.parts, {"text"})
    OBVIOUS
  <2>2. /\ t \in Seq(OfTypes(CPart, m.parts, {"text"}))
        /\ \A i \in 1 .. Len(m.parts) : m.parts[i].type \in {"text"} => Holds(t, m.parts[i])
    BY <1>1, <2>1, OfTypeHolds
  <2>3. \A x \in OfTypes(CPart, m.parts, {"text"}) : x.value \in Str
    <3>1. ASSUME NEW x \in OfTypes(CPart, m.parts, {"text"}) PROVE x.value \in Str
      <4>1. x \in CPart /\ x.type = "text"
        BY <3>1 DEF OfTypes
      <4> QED
        BY <4>1, PartHas DEF CValue
    <3> QED
      BY <3>1
  <2>4. PICK v : v = Completions!Values(t)
    OBVIOUS
  <2>5. v \in Seq(Str) /\ Len(v) = Len(t) /\ \A i \in 1 .. Len(t) : v[i] = t[i].value
    BY <2>2, <2>3, <2>4, ValuesAre
  <2>6. v \in Seq(Seq(Nat))
    BY <2>5 DEF Str
  <2>7. c = Completions!FlattenSeq(v)
    BY <1>2, <1>4, <2>1, <2>4 DEF Completions!ExtractText
  <2>8. c \in Seq(Nat) /\ HoldsAll(v, c)
    BY <2>6, <2>7, FlattenHolds
  <2>9. ASSUME NEW j \in 1 .. Len(m.parts), m.parts[j].type = "text",
               NEW i \in 1 .. Len(m.parts[j].value)
        PROVE  Holds(c, m.parts[j].value[i])
    <3>1. PICK k \in 1 .. Len(t) : t[k] = m.parts[j]
      BY <2>2, <2>9 DEF Holds
    <3>2. k \in 1 .. Len(v) /\ v[k] = m.parts[j].value
      BY <2>5, <3>1
    <3>3. \E p \in 1 .. Len(c) : c[p] = v[k][i]
      <4>1. i \in 1 .. Len(v[k])
        BY <3>2
      <4> QED
        BY <2>8, <3>2, <4>1 DEF HoldsAll
    <3> QED
      BY <3>2, <3>3 DEF Holds
  <2> QED
    BY <1>2, <1>4, <2>8, <2>9 DEF Str
<1> QED
  BY <1>3, <1>4

(* A text that one of the items of a role holds.                           *)
LEMMA Carried ==
  ASSUME NEW role \in {"user", "assistant"}, NEW c, NEW text, Holds(c, text)
  PROVE  Carry(Completions!Item(role, c), text)
BY DEF Carry, Completions!Item

LEMMA NotEmpty ==
  ASSUME NEW S, NEW s \in Seq(S), NEW x, Holds(s, x)
  PROVE  s # <<>>
BY DEF Holds

LEMMA OneItem ==
  ASSUME NEW x \in CItem
  PROVE  <<x>> \in Seq(CItem) /\ Holds(<<x>>, x)
<1>1. <<x>> \in Seq(CItem) /\ Len(<<x>>) = 1 /\ <<x>>[1] = x
  OBVIOUS
<1> QED
  BY <1>1 DEF Holds

LEMMA OpenAIHolds ==
  ASSUME NEW m, CSound(m)
  PROVE  /\ Completions!OpenAIItems(m) \in Seq(CItem)
         /\ CHolds("openai", m, Completions!OpenAIItems(m))
<1>1. /\ m.role \in {"user", "tool", "assistant"} /\ m.content \in Str /\ m.parts \in Seq(CPart)
  BY SoundParts
<1>2. PICK s : s = Completions!OpenAIItems(m)
  OBVIOUS
<1>3. PICK c : c = Completions!ExtractText(m)
  OBVIOUS
<1>4. /\ c \in Str /\ (m.parts = <<>> => c = m.content)
      /\ \A j \in 1 .. Len(m.parts) : m.parts[j].type = "text" =>
           \A i \in 1 .. Len(m.parts[j].value) : Holds(c, m.parts[j].value[i])
  BY <1>3, ExtractHolds
<1>5. ASSUME NEW role \in {"user", "assistant"} PROVE Completions!Item(role, c) \in CItem
  <2>1. role \in CKinds /\ c \in CValue(role)
    BY <1>4 DEF CKinds, CValue
  <2> QED
    BY <2>1, ItemIs
<1>6. ASSUME m.role # "tool", s \in Seq(CItem), c # <<>> => Holds(s, Completions!Item(m.role, c)),
             m.role = "assistant" => \A j \in 1 .. Len(m.parts) :
               m.parts[j].type = "tool_call" => Holds(s, Completions!Item("call", m.parts[j].value))
      PROVE  CHolds("openai", m, s)
  <2>1. m.content # <<>> /\ m.parts = <<>> => Holds(s, Completions!Item(m.role, m.content))
    BY <1>4, <1>6
  <2>2. ASSUME NEW j \in 1 .. Len(m.parts), m.parts[j].type = "text",
               NEW i \in 1 .. Len(m.parts[j].value)
        PROVE  \E x : Holds(s, x) /\ Carry(x, m.parts[j].value[i])
    <3>1. Holds(c, m.parts[j].value[i])
      BY <1>4, <2>2
    <3>2. c # <<>>
      BY <1>4, <3>1, NotEmpty DEF Str
    <3>3. m.role \in {"user", "assistant"}
      BY <1>1, <1>6
    <3>4. Carry(Completions!Item(m.role, c), m.parts[j].value[i])
      BY <3>1, <3>3, Carried
    <3> QED
      BY <1>6, <3>2, <3>4
  <2> QED
    BY <1>6, <2>1, <2>2 DEF CHolds
<1>7. CASE m.role = "user"
  <2>1. s = <<Completions!Item("user", c)>>
    BY <1>2, <1>3, <1>7 DEF Completions!OpenAIItems
  <2>2. s \in Seq(CItem) /\ Holds(s, Completions!Item("user", c))
    BY <1>5, <2>1, OneItem
  <2> QED
    BY <1>2, <1>6, <1>7, <2>2
<1>8. CASE m.role = "tool"
  <2>1. m.parts # <<>>
    BY <1>8 DEF CSound
  <2>2. 1 \in 1 .. Len(m.parts)
    BY <1>1, <2>1
  <2>3. m.parts[1] \in CPart /\ m.parts[1].type = "tool_result"
    BY <1>1, <1>8, <2>2 DEF CSound
  <2>4. PICK x : x = Completions!Item("result", m.parts[1].value)
    OBVIOUS
  <2>5. x \in CItem
    <3>1. m.parts[1].value \in CValue("result")
      BY <2>3, PartHas DEF CValue
    <3> QED
      BY <2>4, <3>1, ItemIs DEF CKinds
  <2>6. s = <<x>>
    BY <1>2, <1>8, <2>4 DEF Completions!OpenAIItems
  <2>7. s \in Seq(CItem) /\ Holds(s, x)
    BY <2>5, <2>6, OneItem
  <2> QED
    BY <1>2, <1>8, <2>4, <2>7 DEF CHolds, CResultKind
<1>9. CASE m.role = "assistant"
  <2>1. PICK calls : calls = Completions!OfType(m.parts, {"tool_call"})
    OBVIOUS
  <2>2. /\ calls \in Seq(OfTypes(CPart, m.parts, {"tool_call"}))
        /\ \A i \in 1 .. Len(m.parts) : m.parts[i].type \in {"tool_call"} => Holds(calls, m.parts[i])
    BY <1>1, <2>1, OfTypeHolds
  <2>3. PICK e : e = Completions!Each("call", Completions!Values(calls))
    OBVIOUS
  <2>4. e \in Seq(CItem) /\ \A i \in 1 .. Len(m.parts) : m.parts[i].type = "tool_call" =>
          Holds(e, Completions!Item("call", m.parts[i].value))
    BY <1>1, <2>1, <2>3, EachOfType DEF CKinds, CValue
  <2>5. CASE calls = <<>>
    <3>1. s = <<Completions!Item("assistant", c)>>
      BY <1>2, <1>3, <1>9, <2>1, <2>5 DEF Completions!OpenAIItems
    <3>2. s \in Seq(CItem) /\ Holds(s, Completions!Item("assistant", c))
      BY <1>5, <3>1, OneItem
    <3>3. ASSUME NEW j \in 1 .. Len(m.parts), m.parts[j].type = "tool_call" PROVE FALSE
      BY <2>2, <2>5, <3>3, NotEmpty
    <3> QED
      BY <1>2, <1>6, <1>9, <3>2, <3>3
  <2>6. CASE calls # <<>>
    <3>1. PICK t : t = Completions!Text("assistant", c)
      OBVIOUS
    <3>2. t \in Seq(CItem) /\ (c # <<>> => Holds(t, Completions!Item("assistant", c)))
      BY <1>4, <3>1, TextIs
    <3>3. s = t \o e
      BY <1>2, <1>3, <1>9, <2>1, <2>3, <2>6, <3>1 DEF Completions!OpenAIItems
    <3>4. s \in Seq(CItem)
      BY <2>4, <3>2, <3>3
    <3>5. c # <<>> => Holds(s, Completions!Item("assistant", c))
      BY <2>4, <3>2, <3>3, HoldsEither
    <3>6. ASSUME NEW j \in 1 .. Len(m.parts), m.parts[j].type = "tool_call"
          PROVE  Holds(s, Completions!Item("call", m.parts[j].value))
      BY <2>4, <3>2, <3>3, <3>6, HoldsEither
    <3> QED
      BY <1>2, <1>6, <1>9, <3>4, <3>5, <3>6
  <2> QED
    BY <2>5, <2>6
<1> QED
  BY <1>1, <1>7, <1>8, <1>9

LEMMA GeminiHolds ==
  ASSUME NEW m, CSound(m)
  PROVE  /\ Completions!GeminiItems(m) \in Seq(CItem)
         /\ CHolds("google", m, Completions!GeminiItems(m))
<1>1. /\ m.role \in {"user", "tool", "assistant"} /\ m.content \in Str /\ m.parts \in Seq(CPart)
  BY SoundParts
<1>2. PICK s : s = Completions!GeminiItems(m)
  OBVIOUS
<1>3. CASE m.role = "tool"
  <2>1. PICK results : results = Completions!OfType(m.parts, {"tool_result"})
    OBVIOUS
  <2>2. \A i \in 1 .. Len(m.parts) : m.parts[i].type \in {"tool_result"} => Holds(results, m.parts[i])
    BY <1>1, <2>1, OfTypeHolds
  <2>3. m.parts # <<>> /\ \A i \in 1 .. Len(m.parts) : m.parts[i].type = "tool_result"
    BY <1>3 DEF CSound
  <2>4. Holds(results, m.parts[1])
    <3>1. 1 \in 1 .. Len(m.parts)
      BY <1>1, <2>3
    <3> QED
      BY <2>2, <2>3, <3>1
  <2>5. results # <<>>
    BY <2>4 DEF Holds
  <2>6. s = Completions!Each("named", Completions!Values(results))
    BY <1>2, <1>3, <2>1, <2>5 DEF Completions!GeminiItems
  <2>7. s \in Seq(CItem) /\ \A i \in 1 .. Len(m.parts) : m.parts[i].type = "tool_result" =>
          Holds(s, Completions!Item("named", m.parts[i].value))
    BY <1>1, <2>1, <2>6, EachOfType DEF CKinds, CValue
  <2> QED
    BY <1>2, <1>3, <2>3, <2>7 DEF CHolds, CResultKind
<1>4. CASE m.role # "tool" /\ m.parts = <<>>
  <2>1. PICK x : x = Completions!Item(m.role, m.content)
    OBVIOUS
  <2>2. x \in CItem
    <3>1. m.role \in CKinds /\ m.content \in CValue(m.role)
      BY <1>1, <1>4 DEF CKinds, CValue
    <3> QED
      BY <2>1, <3>1, ItemIs
  <2>3. s = <<x>>
    BY <1>2, <1>4, <2>1 DEF Completions!GeminiItems
  <2>4. s \in Seq(CItem) /\ Holds(s, x)
    BY <2>2, <2>3, OneItem
  <2>5. Len(m.parts) = 0
    BY <1>4
  <2>6. ASSUME NEW j \in 1 .. Len(m.parts) PROVE FALSE
    BY <2>5
  <2> QED
    BY <1>2, <1>4, <2>1, <2>4, <2>6 DEF CHolds
<1>5. CASE m.role # "tool" /\ m.parts # <<>>
  <2>1. PICK known : known = Completions!OfType(m.parts, {"text", "tool_call"})
    OBVIOUS
  <2>2. /\ known \in Seq(OfTypes(CPart, m.parts, {"text", "tool_call"}))
        /\ \A i \in 1 .. Len(m.parts) : m.parts[i].type \in {"text", "tool_call"} => Holds(known, m.parts[i])
    BY <1>1, <2>1, OfTypeHolds
  <2>3. PICK n \in Nat : n = Len(known) /\ DOMAIN known = 1 .. n
    BY <2>2
  <2>4. \A i \in 1 .. n : known[i] \in CPart /\ known[i].type \in {"text", "tool_call"}
    BY <2>2, <2>3 DEF OfTypes
  <2>5. m.role \in {"user", "assistant"}
    BY <1>1, <1>5
  <2>6. CASE known = <<>>
    <3>1. s = <<Completions!Item(m.role, <<>>)>>
      BY <1>2, <1>5, <2>1, <2>6 DEF Completions!GeminiItems
    <3>2. Completions!Item(m.role, <<>>) \in CItem
      <4>1. m.role \in CKinds /\ <<>> \in CValue(m.role)
        BY <2>5 DEF CKinds, CValue, Str
      <4> QED
        BY <4>1, ItemIs
    <3>3. s \in Seq(CItem)
      BY <3>1, <3>2, OneItem
    <3>4. ASSUME NEW i \in 1 .. Len(m.parts), m.parts[i].type \in {"text", "tool_call"} PROVE FALSE
      BY <2>2, <2>6, <3>4, NotEmpty
    <3> QED
      BY <1>2, <1>5, <3>3, <3>4 DEF CHolds
  <2>7. CASE known # <<>>
    <3>1. PICK t : t = [i \in 1 .. n |-> Completions!GeminiItem(m.role, known[i])]
      OBVIOUS
    <3>2. s = t
      BY <1>2, <1>5, <2>1, <2>3, <2>7, <3>1 DEF Completions!GeminiItems
    <3>3. ASSUME NEW i \in 1 .. n PROVE t[i] \in CItem
      <4>1. PICK p \in CPart : p = known[i] /\ p.type \in {"text", "tool_call"}
        BY <2>4
      <4>2. CASE p.type = "text"
        <5>1. m.role \in CKinds /\ p.value \in CValue(m.role)
          BY <2>5, <4>2, PartHas DEF CKinds, CValue
        <5>2. Completions!GeminiItem(m.role, p) = Completions!Item(m.role, p.value)
          BY <4>2 DEF Completions!GeminiItem
        <5> QED
          BY <3>1, <4>1, <5>1, <5>2, ItemIs
      <4>3. CASE p.type = "tool_call"
        <5>1. "call" \in CKinds /\ p.value \in CValue("call")
          BY <4>3, PartHas DEF CKinds, CValue
        <5>2. Completions!GeminiItem(m.role, p) = Completions!Item("call", p.value)
          BY <4>3 DEF Completions!GeminiItem
        <5> QED
          BY <3>1, <4>1, <5>1, <5>2, ItemIs
      <4> QED
        BY <4>1, <4>2, <4>3
    <3>4. s \in Seq(CItem) /\ Len(s) = n
      <4>1. t \in [1 .. n -> CItem]
        BY <3>1, <3>3
      <4> QED
        BY <3>2, <4>1
    <3>5. ASSUME NEW j \in 1 .. Len(m.parts), m.parts[j].type \in {"text", "tool_call"}
          PROVE  Holds(s, Completions!GeminiItem(m.role, m.parts[j]))
      <4>1. PICK k \in 1 .. Len(known) : known[k] = m.parts[j]
        BY <2>2, <3>5 DEF Holds
      <4>2. k \in 1 .. Len(s) /\ s[k] = Completions!GeminiItem(m.role, m.parts[j])
        BY <2>3, <3>1, <3>2, <3>4, <4>1
      <4> QED
        BY <4>2 DEF Holds
    <3>6. ASSUME NEW j \in 1 .. Len(m.parts), m.parts[j].type = "tool_call"
          PROVE  Holds(s, Completions!Item("call", m.parts[j].value))
      <4>1. Completions!GeminiItem(m.role, m.parts[j]) = Completions!Item("call", m.parts[j].value)
        BY <3>6 DEF Completions!GeminiItem
      <4>2. Holds(s, Completions!GeminiItem(m.role, m.parts[j]))
        BY <3>5, <3>6
      <4> QED
        BY <4>1, <4>2
    <3>7. ASSUME NEW j \in 1 .. Len(m.parts), m.parts[j].type = "text",
                 NEW i \in 1 .. Len(m.parts[j].value)
          PROVE  \E x : Holds(s, x) /\ Carry(x, m.parts[j].value[i])
      <4>1. Completions!GeminiItem(m.role, m.parts[j]) = Completions!Item(m.role, m.parts[j].value)
        BY <3>7 DEF Completions!GeminiItem
      <4>2. Holds(s, Completions!GeminiItem(m.role, m.parts[j]))
        BY <3>5, <3>7
      <4>3. Holds(m.parts[j].value, m.parts[j].value[i])
        BY DEF Holds
      <4>4. Carry(Completions!Item(m.role, m.parts[j].value), m.parts[j].value[i])
        BY <2>5, <4>3, Carried
      <4> QED
        BY <4>1, <4>2, <4>4
    <3> QED
      BY <1>2, <1>5, <3>4, <3>6, <3>7 DEF CHolds
  <2> QED
    BY <2>6, <2>7
<1> QED
  BY <1>3, <1>4, <1>5

LEMMA ItemsHold ==
  ASSUME NEW p \in Completions!Providers, NEW m, CSound(m)
  PROVE  /\ Completions!Items(p, m) \in Seq(CItem)
         /\ CHolds(p, m, Completions!Items(p, m))
<1>1. CASE p = "anthropic"
  <2>1. Completions!Items(p, m) = Completions!AnthropicItems(m)
    BY <1>1 DEF Completions!Items
  <2> QED
    BY <1>1, <2>1, AnthropicHolds
<1>2. CASE p = "openai"
  <2>1. Completions!Items(p, m) = Completions!OpenAIItems(m)
    BY <1>2 DEF Completions!Items
  <2> QED
    BY <1>2, <2>1, OpenAIHolds
<1>3. CASE p = "google"
  <2>1. Completions!Items(p, m) = Completions!GeminiItems(m)
    BY <1>3 DEF Completions!Items
  <2> QED
    BY <1>3, <2>1, GeminiHolds
<1> QED
  BY <1>1, <1>2, <1>3 DEF Completions!Providers

(* What a response becomes: an assistant's message, which has the text of  *)
(* every block in its text parts, or in its Content when it has no parts,  *)
(* and the only block's in its Content in any case.                        *)
CMapped(blocks, m) ==
  \A j \in 1 .. Len(blocks) : blocks[j].type = "text" =>
    /\ Len(blocks) = 1 => Holds(m.content, blocks[j].value[1])
    /\ \/ m.parts = <<>> /\ Holds(m.content, blocks[j].value[1])
       \/ \E k \in 1 .. Len(m.parts) :
            m.parts[k].type = "text" /\ Holds(m.parts[k].value, blocks[j].value[1])

LEMMA BlockHas ==
  ASSUME NEW x \in CBlock
  PROVE  /\ x.type \in {"text", "call"} /\ x.value \in CValue(x.type)
         /\ x.type = "text" => x.value \in Str /\ Len(x.value) = 1 /\ Holds(x.value, x.value[1])
<1>1. /\ x.type \in {"text", "call"} /\ x.value \in CValue(x.type)
      /\ x.type = "text" => Len(x.value) = 1
  BY DEF CBlock
<1>2. x.type = "text" => x.value \in Str
  BY <1>1 DEF CValue
<1>3. x.type = "text" => Holds(x.value, x.value[1])
  BY <1>1, <1>2 DEF Holds
<1> QED
  BY <1>1, <1>2, <1>3

LEMMA BlocksAre ==
  ASSUME NEW blocks \in Seq(CBlock)
  PROVE  \A i \in 1 .. Len(blocks) :
           /\ blocks[i].type \in {"text", "call"} /\ blocks[i].value \in CValue(blocks[i].type)
           /\ blocks[i].type = "text" =>
                /\ blocks[i].value \in Str /\ Len(blocks[i].value) = 1
                /\ Holds(blocks[i].value, blocks[i].value[1])
<1>1. \A i \in 1 .. Len(blocks) : blocks[i] \in CBlock
  OBVIOUS
<1> QED
  BY <1>1, BlockHas

(* One part per block, a text's with the text.                             *)
CParts(blocks, parts) ==
  /\ parts \in Seq(CPart) /\ Len(parts) = Len(blocks)
  /\ \A i \in 1 .. Len(blocks) :
       /\ parts[i].type = IF blocks[i].type = "text" THEN "text" ELSE "tool_call"
       /\ blocks[i].type = "text" => parts[i].value = blocks[i].value

CPartOf(block, part) ==
  \/ block.type = "text" /\ part = Completions!Part("text", block.value)
  \/ block.type # "text" /\ \E v \in CCall : part = Completions!Part("tool_call", v)

LEMMA EachPart ==
  ASSUME NEW blocks \in Seq(CBlock), NEW n \in Nat, n = Len(blocks),
         NEW parts, NEW S, parts \in [1 .. n -> S],
         \A i \in 1 .. n : CPartOf(blocks[i], parts[i])
  PROVE  CParts(blocks, parts)
<1>1. ASSUME NEW i \in 1 .. n
      PROVE  /\ parts[i] \in CPart
             /\ parts[i].type = IF blocks[i].type = "text" THEN "text" ELSE "tool_call"
             /\ blocks[i].type = "text" => parts[i].value = blocks[i].value
  <2>1. CASE blocks[i].type = "text"
    <3>1. blocks[i].value \in CValue("text") /\ "text" \in CTypes
      BY <2>1, BlocksAre DEF CValue, CTypes
    <3>2. parts[i] = Completions!Part("text", blocks[i].value)
      BY <2>1 DEF CPartOf
    <3> QED
      BY <2>1, <3>1, <3>2, PartIs
  <2>2. CASE blocks[i].type # "text"
    <3>1. PICK v \in CCall : parts[i] = Completions!Part("tool_call", v)
      BY <2>2 DEF CPartOf
    <3>2. v \in CValue("tool_call") /\ "tool_call" \in CTypes
      BY DEF CValue, CTypes
    <3> QED
      BY <2>2, <3>1, <3>2, PartIs
  <2> QED
    BY <2>1, <2>2
<1>2. parts \in Seq(CPart) /\ Len(parts) = n
  <2>1. parts \in [1 .. n -> CPart]
    BY <1>1
  <2> QED
    BY <2>1
<1> QED
  BY <1>1, <1>2 DEF CParts

LEMMA MapBlocksAre ==
  ASSUME NEW blocks \in Seq(CBlock), NEW parts, parts = Completions!MapBlocks(blocks)
  PROVE  CParts(blocks, parts)
<1>1. PICK n \in Nat : n = Len(blocks) /\ DOMAIN blocks = 1 .. n
  OBVIOUS
<1>2. parts = [i \in 1 .. n |->
                IF blocks[i].type = "text" THEN Completions!Part("text", blocks[i].value)
                ELSE Completions!Part("tool_call", blocks[i].value)]
  BY <1>1 DEF Completions!MapBlocks
<1>3. PICK S : parts \in [1 .. n -> S]
  <2>1. PICK S : S = {parts[i] : i \in 1 .. n}
    OBVIOUS
  <2>2. parts \in [1 .. n -> S]
    BY <1>2, <2>1
  <2> QED
    BY <2>2
<1>4. ASSUME NEW i \in 1 .. n
      PROVE  CPartOf(blocks[i], parts[i])
  <2>1. CASE blocks[i].type = "text"
    BY <1>2, <2>1 DEF CPartOf
  <2>2. CASE blocks[i].type # "text"
    <3>1. blocks[i].value \in CCall
      BY <1>1, <2>2, BlocksAre DEF CValue
    <3> QED
      BY <1>2, <2>2, <3>1 DEF CPartOf
  <2> QED
    BY <2>1, <2>2
<1> QED
  BY <1>1, <1>3, <1>4, EachPart

LEMMA MapGeminiBlocksAre ==
  ASSUME NEW blocks \in Seq(CBlock), NEW parts, parts = Completions!MapGeminiBlocks(blocks)
  PROVE  CParts(blocks, parts)
<1>1. PICK n \in Nat : n = Len(blocks) /\ DOMAIN blocks = 1 .. n
  OBVIOUS
<1>2. parts = [i \in 1 .. n |->
                IF blocks[i].type = "text" THEN Completions!Part("text", blocks[i].value)
                ELSE Completions!Part("tool_call", Completions!WithId(blocks[i].value))]
  BY <1>1 DEF Completions!MapGeminiBlocks
<1>3. PICK S : parts \in [1 .. n -> S]
  <2>1. PICK S : S = {parts[i] : i \in 1 .. n}
    OBVIOUS
  <2>2. parts \in [1 .. n -> S]
    BY <1>2, <2>1
  <2> QED
    BY <2>2
<1>4. ASSUME NEW i \in 1 .. n
      PROVE  CPartOf(blocks[i], parts[i])
  <2>1. CASE blocks[i].type = "text"
    BY <1>2, <2>1 DEF CPartOf
  <2>2. CASE blocks[i].type # "text"
    <3>1. PICK call \in CCall : call = blocks[i].value
      BY <1>1, <2>2, BlocksAre DEF CValue
    <3>2. Completions!WithId(call) \in CCall
      <4>1. call.name \in Seq(Nat) /\ <<0>> \in Seq(Nat)
        BY DEF CCall, Str
      <4>2. PICK id : id = <<0>> \o call.name
        OBVIOUS
      <4>3. id \in Str /\ call.name \in Str
        BY <4>1, <4>2, Concatenated DEF Str
      <4>4. Completions!Call(id, call.name) \in CCall
        BY <4>3 DEF CCall, Completions!Call
      <4> QED
        BY <4>2, <4>4 DEF Completions!WithId
    <3> QED
      BY <1>2, <2>2, <3>1, <3>2 DEF CPartOf
  <2> QED
    BY <2>1, <2>2
<1> QED
  BY <1>1, <1>3, <1>4, EachPart

(* The message of a part per block, with some Content.                     *)
LEMMA BlocksMessage ==
  ASSUME NEW blocks \in Seq(CBlock), NEW content \in Str, NEW parts, CParts(blocks, parts),
         NEW m, m = Completions!Message("assistant", content, parts),
         \A j \in 1 .. Len(blocks) :
           blocks[j].type = "text" /\ Len(blocks) = 1 => content = blocks[j].value
  PROVE  CSound(m) /\ m.role = "assistant" /\ CMapped(blocks, m)
<1>2. m.role = "assistant" /\ m.content = content /\ m.parts = parts
  BY DEF Completions!Message
<1>3. /\ parts \in Seq(CPart) /\ Len(parts) = Len(blocks)
      /\ \A i \in 1 .. Len(blocks) :
           /\ parts[i].type = IF blocks[i].type = "text" THEN "text" ELSE "tool_call"
           /\ blocks[i].type = "text" => parts[i].value = blocks[i].value
  BY DEF CParts
<1>4. CSound(m)
  <2>1. m \in CMessage
    BY <1>3 DEF CMessage, Completions!Message
  <2> QED
    BY <1>2, <1>3, <2>1 DEF CSound
<1>5. ASSUME NEW j \in 1 .. Len(blocks), blocks[j].type = "text"
      PROVE  /\ Len(blocks) = 1 => Holds(m.content, blocks[j].value[1])
             /\ m.parts[j].type = "text" /\ Holds(m.parts[j].value, blocks[j].value[1])
  <2>1. Holds(blocks[j].value, blocks[j].value[1])
    BY <1>5, BlocksAre
  <2>2. m.parts[j].type = "text" /\ m.parts[j].value = blocks[j].value
    BY <1>2, <1>3, <1>5
  <2>3. Len(blocks) = 1 => m.content = blocks[j].value
    BY <1>2, <1>5
  <2> QED
    BY <2>1, <2>2, <2>3
<1>6. CMapped(blocks, m)
  <2>1. Len(m.parts) = Len(blocks)
    BY <1>2, <1>3
  <2> QED
    BY <1>5, <2>1 DEF CMapped
<1> QED
  BY <1>2, <1>4, <1>6

(* The only block, when it is a text.                                      *)
LEMMA OnlyText ==
  ASSUME NEW blocks \in Seq(CBlock), Len(blocks) = 1, blocks[1].type = "text",
         NEW texts, texts = Completions!OfType(blocks, {"text"})
  PROVE  /\ Completions!OfType(blocks, {"call"}) = <<>>
         /\ texts \in Seq({blocks[1]}) /\ texts # <<>>
         /\ texts[1] = blocks[1] /\ Completions!Last(texts) = blocks[1]
<1>1. PICK calls : calls = Completions!OfType(blocks, {"call"})
  OBVIOUS
<1>2. calls \in Seq(OfTypes(CBlock, blocks, {"call"}))
  BY <1>1, OfTypeHolds
<1>3. OfTypes(CBlock, blocks, {"call"}) = {}
  BY DEF OfTypes, Holds
<1>4. calls = <<>>
  BY <1>2, <1>3
<1>5. texts \in Seq(OfTypes(CBlock, blocks, {"text"})) /\ Holds(texts, blocks[1])
  <2>1. 1 \in 1 .. Len(blocks) /\ blocks[1].type \in {"text"}
    OBVIOUS
  <2> QED
    BY <2>1, OfTypeHolds
<1>6. OfTypes(CBlock, blocks, {"text"}) \subseteq {blocks[1]}
  BY DEF OfTypes, Holds
<1>7. texts \in Seq({blocks[1]}) /\ texts # <<>>
  <2>1. \A i \in 1 .. Len(texts) : texts[i] \in {blocks[1]}
    BY <1>5, <1>6
  <2>2. texts \in Seq({blocks[1]})
    BY <1>5, <2>1
  <2> QED
    BY <1>5, <2>2, NotEmpty
<1>8. Len(texts) \in 1 .. Len(texts) /\ 1 \in 1 .. Len(texts)
  BY <1>7
<1>9. texts[1] = blocks[1] /\ texts[Len(texts)] = blocks[1]
  BY <1>7, <1>8
<1> QED
  BY <1>1, <1>4, <1>7, <1>9 DEF Completions!Last

LEMMA TextsAre ==
  ASSUME NEW blocks \in Seq(CBlock), NEW texts, texts = Completions!OfType(blocks, {"text"})
  PROVE  /\ texts \in Seq(CBlock) /\ \A i \in 1 .. Len(texts) : texts[i].value \in Str
         /\ texts # <<>> => texts[1].value \in Str /\ Completions!Last(texts).value \in Str
<1>1. texts \in Seq(OfTypes(CBlock, blocks, {"text"}))
  BY OfTypeHolds
<1>2. texts \in Seq(CBlock) /\ \A i \in 1 .. Len(texts) : texts[i].type = "text"
  BY <1>1 DEF OfTypes
<1>3. \A i \in 1 .. Len(texts) : texts[i].value \in Str
  BY <1>2, BlocksAre
<1>4. ASSUME texts # <<>> PROVE texts[1].value \in Str /\ Completions!Last(texts).value \in Str
  <2>1. 1 \in 1 .. Len(texts) /\ Len(texts) \in 1 .. Len(texts)
    BY <1>2, <1>4
  <2>2. texts[1].value \in Str /\ texts[Len(texts)].value \in Str
    BY <1>3, <2>1
  <2> QED
    BY <2>2 DEF Completions!Last
<1> QED
  BY <1>2, <1>3, <1>4

LEMMA MapAnthropicIs ==
  ASSUME NEW blocks \in Seq(CBlock), NEW m, m = Completions!MapAnthropic(blocks)
  PROVE  CSound(m) /\ m.role = "assistant" /\ CMapped(blocks, m)
<1>1. PICK texts, calls : /\ texts = Completions!OfType(blocks, {"text"})
                          /\ calls = Completions!OfType(blocks, {"call"})
  OBVIOUS
<1>2. PICK content : content = IF calls = <<>> /\ texts # <<>> THEN Completions!Last(texts).value ELSE <<>>
  OBVIOUS
<1>3. content \in Str
  <2>1. <<>> \in Str
    BY DEF Str
  <2> QED
    BY <1>1, <1>2, <2>1, TextsAre
<1>4. m = Completions!Message("assistant", content, Completions!MapBlocks(blocks))
  BY <1>1, <1>2 DEF Completions!MapAnthropic
<1>5. ASSUME NEW j \in 1 .. Len(blocks), blocks[j].type = "text", Len(blocks) = 1
      PROVE  content = blocks[j].value
  <2>1. j = 1
    BY <1>5
  <2>2. calls = <<>> /\ texts # <<>> /\ Completions!Last(texts) = blocks[1]
    BY <1>1, <1>5, <2>1, OnlyText
  <2> QED
    BY <1>2, <2>1, <2>2
<1>6. PICK parts : parts = Completions!MapBlocks(blocks)
  OBVIOUS
<1> QED
  BY <1>3, <1>4, <1>5, <1>6, MapBlocksAre, BlocksMessage

LEMMA MapGeminiIs ==
  ASSUME NEW blocks \in Seq(CBlock), NEW m, m = Completions!MapGemini(blocks)
  PROVE  CSound(m) /\ m.role = "assistant" /\ CMapped(blocks, m)
<1>1. PICK texts : texts = Completions!OfType(blocks, {"text"})
  OBVIOUS
<1>2. PICK content : content = IF texts = <<>> THEN <<>> ELSE texts[1].value
  OBVIOUS
<1>3. content \in Str
  <2>1. <<>> \in Str
    BY DEF Str
  <2> QED
    BY <1>1, <1>2, <2>1, TextsAre
<1>4. m = Completions!Message("assistant", content, Completions!MapGeminiBlocks(blocks))
  BY <1>1, <1>2 DEF Completions!MapGemini
<1>5. ASSUME NEW j \in 1 .. Len(blocks), blocks[j].type = "text", Len(blocks) = 1
      PROVE  content = blocks[j].value
  <2>1. j = 1
    BY <1>5
  <2>2. texts # <<>> /\ texts[1] = blocks[1]
    BY <1>1, <1>5, <2>1, OnlyText
  <2> QED
    BY <1>2, <2>1, <2>2
<1>6. PICK parts : parts = Completions!MapGeminiBlocks(blocks)
  OBVIOUS
<1> QED
  BY <1>3, <1>4, <1>5, <1>6, MapGeminiBlocksAre, BlocksMessage

LEMMA MapOpenAIIs ==
  ASSUME NEW blocks \in Seq(CBlock), NEW m, m = Completions!MapOpenAI(blocks)
  PROVE  CSound(m) /\ m.role = "assistant" /\ CMapped(blocks, m)
<1>1. PICK texts, calls : /\ texts = Completions!OfType(blocks, {"text"})
                          /\ calls = Completions!OfType(blocks, {"call"})
  OBVIOUS
<1>2. PICK v : v = Completions!Values(texts)
  OBVIOUS
<1>3. PICK text : text = Completions!FlattenSeq(v)
  OBVIOUS
<1>4. texts \in Seq(CBlock)
  BY <1>1, TextsAre
<1>5. v \in Seq(Str) /\ Len(v) = Len(texts) /\ \A i \in 1 .. Len(texts) : v[i] = texts[i].value
  <2>1. PICK S : S = OfTypes(CBlock, blocks, {"text"})
    OBVIOUS
  <2>2. texts \in Seq(S)
    BY <1>1, <2>1, OfTypeHolds
  <2>3. \A x \in S : x.value \in Str
    <3>1. \A x \in S : x \in CBlock /\ x.type = "text"
      BY <2>1 DEF OfTypes
    <3> QED
      BY <3>1, BlockHas
  <2> QED
    BY <1>2, <2>2, <2>3, ValuesAre
<1>6. v \in Seq(Seq(Nat))
  BY <1>5 DEF Str
<1>7. text \in Str /\ HoldsAll(v, text)
  BY <1>3, <1>6, FlattenHolds DEF Str
<1>8. ASSUME NEW j \in 1 .. Len(blocks), blocks[j].type = "text" PROVE Holds(text, blocks[j].value[1])
  <2>1. Holds(texts, blocks[j])
    BY <1>1, <1>8, OfTypeHolds
  <2>2. PICK k \in 1 .. Len(texts) : texts[k] = blocks[j]
    BY <2>1 DEF Holds
  <2>3. k \in 1 .. Len(v) /\ v[k] = blocks[j].value /\ 1 \in 1 .. Len(v[k])
    <3>1. Len(blocks[j].value) = 1
      BY <1>8, BlocksAre
    <3>2. k \in 1 .. Len(v) /\ v[k] = texts[k].value
      BY <1>5, <2>2
    <3>3. v[k] = blocks[j].value
      BY <2>2, <3>2
    <3>4. Len(v[k]) = 1
      BY <3>1, <3>3
    <3> QED
      BY <3>2, <3>3, <3>4
  <2>4. \E p \in 1 .. Len(text) : text[p] = v[k][1]
    BY <1>7, <2>3 DEF HoldsAll
  <2> QED
    BY <2>3, <2>4 DEF Holds
<1>9. CASE calls = <<>>
  <2>1. m = Completions!Message("assistant", text, <<>>)
    BY <1>1, <1>2, <1>3, <1>9 DEF Completions!MapOpenAI
  <2>2. m.role = "assistant" /\ m.content = text /\ m.parts = <<>>
    BY <2>1 DEF Completions!Message
  <2>3. m \in CMessage
    <3>1. <<>> \in Seq(CPart)
      OBVIOUS
    <3> QED
      BY <1>7, <2>1, <3>1 DEF CMessage, Completions!Message
  <2>4. CSound(m)
    BY <2>2, <2>3 DEF CSound
  <2>5. CMapped(blocks, m)
    BY <1>8, <2>2 DEF CMapped
  <2> QED
    BY <2>2, <2>4, <2>5
<1>10. CASE calls # <<>>
  <2>1. calls \in Seq(CBlock)
    <3>1. calls \in Seq(OfTypes(CBlock, blocks, {"call"}))
      BY <1>1, OfTypeHolds
    <3> QED
      BY <3>1 DEF OfTypes
  <2>2. PICK first, rest : /\ first = IF text = <<>> THEN <<>> ELSE <<Completions!Part("text", text)>>
                           /\ rest = Completions!MapBlocks(calls)
    OBVIOUS
  <2>3. m = Completions!Message("assistant", <<>>, first \o rest)
    BY <1>1, <1>2, <1>3, <1>10, <2>2 DEF Completions!MapOpenAI
  <2>4. PICK part : part = Completions!Part("text", text)
    OBVIOUS
  <2>5. part \in CPart /\ part.type = "text" /\ part.value = text
    <3>1. text \in CValue("text") /\ "text" \in CTypes
      BY <1>7 DEF CValue, CTypes
    <3> QED
      BY <2>4, <3>1, PartIs
  <2>6. /\ first \in Seq(CPart) /\ Len(first) \in {0, 1}
        /\ \A i \in 1 .. Len(first) : first[i] = part
        /\ text # <<>> => Len(first) = 1
    BY <2>2, <2>4, <2>5
  <2>7. /\ rest \in Seq(CPart)
        /\ \A i \in 1 .. Len(rest) : rest[i].type \in {"text", "tool_call"}
    <3>1. CParts(calls, rest)
      BY <2>1, <2>2, MapBlocksAre
    <3>2. /\ rest \in Seq(CPart) /\ Len(rest) = Len(calls)
          /\ \A i \in 1 .. Len(calls) :
               rest[i].type = IF calls[i].type = "text" THEN "text" ELSE "tool_call"
      BY <3>1 DEF CParts
    <3> QED
      BY <3>2
  <2>8. PICK parts : parts = first \o rest
    OBVIOUS
  <2>9. m.role = "assistant" /\ m.content = <<>> /\ m.parts = parts
    BY <2>3, <2>8 DEF Completions!Message
  <2>10. /\ parts \in Seq(CPart) /\ Len(parts) = Len(first) + Len(rest)
         /\ \A i \in 1 .. Len(first) : parts[i] = first[i]
         /\ \A i \in 1 .. Len(rest) : parts[Len(first) + i] = rest[i]
    BY <2>6, <2>7, <2>8, Concatenated
  <2>11. ASSUME NEW j \in 1 .. Len(parts) PROVE parts[j].type \in {"text", "tool_call"}
    <3>1. CASE j <= Len(first)
      BY <2>5, <2>6, <2>10, <3>1
    <3>2. CASE j > Len(first)
      <4>1. PICK i \in 1 .. Len(rest) : j = Len(first) + i
        <5>1. j - Len(first) \in 1 .. Len(rest) /\ j = Len(first) + (j - Len(first))
          BY <2>6, <2>7, <2>10, <3>2
        <5> QED
          BY <5>1
      <4> QED
        BY <2>7, <2>10, <4>1
    <3> QED
      BY <2>6, <3>1, <3>2
  <2>12. CSound(m)
    <3>1. m \in CMessage
      <4>1. <<>> \in Str
        BY DEF Str
      <4> QED
        BY <2>3, <2>8, <2>10, <4>1 DEF CMessage, Completions!Message
    <3> QED
      BY <2>9, <2>11, <3>1 DEF CSound
  <2>13. ASSUME NEW j \in 1 .. Len(blocks), blocks[j].type = "text"
         PROVE  /\ Len(blocks) # 1 /\ 1 \in 1 .. Len(m.parts)
                /\ m.parts[1].type = "text" /\ Holds(m.parts[1].value, blocks[j].value[1])
    <3>1. Len(blocks) # 1
      <4>1. SUFFICES ASSUME Len(blocks) = 1 PROVE FALSE
        OBVIOUS
      <4>2. j = 1
        BY <4>1
      <4> QED
        BY <1>1, <1>10, <2>13, <4>1, <4>2, OnlyText
    <3>2. Holds(text, blocks[j].value[1])
      BY <1>8, <2>13
    <3>3. Len(first) = 1
      BY <1>7, <2>6, <3>2, NotEmpty DEF Str
    <3>4. 1 \in 1 .. Len(parts) /\ parts[1] = part
      BY <2>6, <2>7, <2>10, <3>3
    <3> QED
      BY <2>5, <2>9, <3>1, <3>2, <3>4
  <2>14. CMapped(blocks, m)
    BY <2>13 DEF CMapped
  <2> QED
    BY <2>9, <2>12, <2>14
<1> QED
  BY <1>9, <1>10

LEMMA MapResponseIs ==
  ASSUME NEW p \in Completions!Providers, NEW blocks \in Seq(CBlock),
         NEW m, m = Completions!MapResponse(p, blocks)
  PROVE  CSound(m) /\ m.role = "assistant" /\ CMapped(blocks, m)
<1>1. CASE p = "anthropic"
  <2>1. m = Completions!MapAnthropic(blocks)
    BY <1>1 DEF Completions!MapResponse
  <2> QED
    BY <2>1, MapAnthropicIs
<1>2. CASE p = "openai"
  <2>1. m = Completions!MapOpenAI(blocks)
    BY <1>2 DEF Completions!MapResponse
  <2> QED
    BY <2>1, MapOpenAIIs
<1>3. CASE p = "google"
  <2>1. m = Completions!MapGemini(blocks)
    BY <1>3 DEF Completions!MapResponse
  <2> QED
    BY <2>1, MapGeminiIs
<1> QED
  BY <1>1, <1>2, <1>3 DEF Completions!Providers

(* A conversation: every message is sound, and says what the blocks it     *)
(* came from said; every result in it was asked for in an earlier message. *)
COrigin == [by : Completions!Providers \cup {"user"}, blocks : Seq(CBlock)]
CAsked(ms, n, id) ==
  \E h \in 1 .. Len(ms) :
    /\ h < n /\ ms[h].role = "assistant"
    /\ \E k \in 1 .. Len(ms[h].parts) : ms[h].parts[k].type = "tool_call" /\ ms[h].parts[k].value.id = id
CTurn(m, o) ==
  CSound(m) /\ o \in COrigin /\ CMapped(o.blocks, m) /\ (o.blocks # <<>> => m.role = "assistant")
CResultsAsked(ms, n, m) ==
  m.role = "tool" => \A j \in 1 .. Len(m.parts) : CAsked(ms, n, m.parts[j].value)
CTalk(ms, os) ==
  /\ ms \in Seq(CMessage) /\ os \in Seq(COrigin) /\ Len(os) = Len(ms)
  /\ \A i \in 1 .. Len(ms) : CTurn(ms[i], os[i]) /\ CResultsAsked(ms, i, ms[i])

LEMMA StillAsked ==
  ASSUME NEW ms \in Seq(CMessage), NEW ts \in Seq(CMessage), NEW n \in Nat, NEW l \in Nat, n <= l,
         NEW m, CResultsAsked(ms, n, m)
  PROVE  CResultsAsked(ms \o ts, l, m)
<1>1. PICK all : all = ms \o ts
  OBVIOUS
<1>2. Len(all) = Len(ms) + Len(ts) /\ \A i \in 1 .. Len(ms) : all[i] = ms[i]
  BY <1>1, Concatenated
<1>3. ASSUME NEW id, CAsked(ms, n, id) PROVE CAsked(all, l, id)
  <2>1. PICK h \in 1 .. Len(ms) :
          /\ h < n /\ ms[h].role = "assistant"
          /\ \E k \in 1 .. Len(ms[h].parts) :
               ms[h].parts[k].type = "tool_call" /\ ms[h].parts[k].value.id = id
    BY <1>3 DEF CAsked
  <2>2. h \in 1 .. Len(all) /\ h < l /\ all[h] = ms[h]
    BY <1>2, <2>1
  <2> QED
    BY <2>1, <2>2 DEF CAsked
<1>4. CResultsAsked(all, l, m)
  BY <1>3 DEF CResultsAsked
<1> QED
  BY <1>1, <1>4

CTurns(ms, ts, us) ==
  /\ ts \in Seq(CMessage) /\ us \in Seq(COrigin) /\ Len(us) = Len(ts)
  /\ \A i \in 1 .. Len(ts) : CTurn(ts[i], us[i]) /\ CResultsAsked(ms, Len(ms) + 1, ts[i])

(* It stays one when turns are added that answer what was asked before.    *)
LEMMA TalkGoesOn ==
  ASSUME NEW ms, NEW os, CTalk(ms, os), NEW ts, NEW us, CTurns(ms, ts, us)
  PROVE  CTalk(ms \o ts, os \o us)
<1>1. ms \in Seq(CMessage) /\ os \in Seq(COrigin) /\ Len(os) = Len(ms) /\ Len(ms) \in Nat
      /\ ts \in Seq(CMessage) /\ us \in Seq(COrigin) /\ Len(us) = Len(ts)
  BY DEF CTalk, CTurns
<1>2. PICK all, origins : all = ms \o ts /\ origins = os \o us
  OBVIOUS
<1>3. /\ all \in Seq(CMessage) /\ Len(all) = Len(ms) + Len(ts)
      /\ \A i \in 1 .. Len(ms) : all[i] = ms[i]
      /\ \A i \in 1 .. Len(ts) : all[Len(ms) + i] = ts[i]
  BY <1>1, <1>2, Concatenated
<1>4. /\ origins \in Seq(COrigin) /\ Len(origins) = Len(os) + Len(us)
      /\ \A i \in 1 .. Len(os) : origins[i] = os[i]
      /\ \A i \in 1 .. Len(us) : origins[Len(os) + i] = us[i]
  <2>1. os \in Seq(COrigin) /\ us \in Seq(COrigin)
    BY <1>1
  <2>2. /\ os \o us \in Seq(COrigin) /\ Len(os \o us) = Len(os) + Len(us)
        /\ \A i \in 1 .. Len(os) : (os \o us)[i] = os[i]
        /\ \A i \in 1 .. Len(us) : (os \o us)[Len(os) + i] = us[i]
    BY <2>1, Concatenated
  <2> QED
    BY <1>2, <2>2
<1>5. ASSUME NEW i \in 1 .. Len(ms) PROVE CTurn(all[i], origins[i]) /\ CResultsAsked(all, i, all[i])
  <2>1. CTurn(ms[i], os[i]) /\ CResultsAsked(ms, i, ms[i])
    BY DEF CTalk
  <2>2. all[i] = ms[i] /\ origins[i] = os[i]
    BY <1>1, <1>3, <1>4
  <2>3. CResultsAsked(all, i, ms[i])
    BY <1>1, <1>2, <2>1, StillAsked
  <2> QED
    BY <2>1, <2>2, <2>3
<1>6. ASSUME NEW i \in 1 .. Len(ts)
      PROVE  /\ CTurn(all[Len(ms) + i], origins[Len(ms) + i])
             /\ CResultsAsked(all, Len(ms) + i, all[Len(ms) + i])
  <2>1. CTurn(ts[i], us[i]) /\ CResultsAsked(ms, Len(ms) + 1, ts[i])
    BY DEF CTurns
  <2>2. all[Len(ms) + i] = ts[i] /\ origins[Len(ms) + i] = us[i]
    BY <1>1, <1>3, <1>4
  <2>3. Len(ms) + 1 \in Nat /\ Len(ms) + i \in Nat /\ Len(ms) + 1 <= Len(ms) + i
    BY <1>1
  <2>4. CResultsAsked(all, Len(ms) + i, ts[i])
    BY <1>1, <1>2, <2>1, <2>3, StillAsked
  <2> QED
    BY <2>1, <2>2, <2>4
<1>7. ASSUME NEW j \in 1 .. Len(all) PROVE CTurn(all[j], origins[j]) /\ CResultsAsked(all, j, all[j])
  <2>1. CASE j <= Len(ms)
    <3>1. j \in 1 .. Len(ms)
      BY <1>1, <2>1
    <3> QED
      BY <1>5, <3>1
  <2>2. CASE j > Len(ms)
    <3>1. PICK i \in 1 .. Len(ts) : j = Len(ms) + i
      <4>1. j - Len(ms) \in 1 .. Len(ts) /\ j = Len(ms) + (j - Len(ms))
        BY <1>1, <1>3, <2>2
      <4> QED
        BY <4>1
    <3> QED
      BY <1>6, <3>1
  <2> QED
    BY <1>1, <2>1, <2>2
<1>8. CTalk(all, origins)
  BY <1>1, <1>3, <1>4, <1>7 DEF CTalk
<1> QED
  BY <1>2, <1>8

LEMMA AppendIs ==
  ASSUME NEW S, NEW s \in Seq(S), NEW x \in S
  PROVE  Append(s, x) = s \o <<x>>
<1>1. PICK t, u, v : t = <<x>> /\ u = s \o t /\ v = Append(s, x)
  OBVIOUS
<1>2. t \in Seq(S) /\ Len(t) = 1 /\ t[1] = x
  BY <1>1
<1>3. /\ u \in Seq(S) /\ Len(u) = Len(s) + 1 /\ u[Len(s) + 1] = x
      /\ \A i \in 1 .. Len(s) : u[i] = s[i]
  BY <1>1, <1>2, Concatenated
<1>4. /\ v \in Seq(S) /\ Len(v) = Len(s) + 1 /\ v[Len(s) + 1] = x
      /\ \A i \in 1 .. Len(s) : v[i] = s[i]
  BY <1>1, Added
<1>5. \A i \in 1 .. Len(s) + 1 : u[i] = v[i]
  BY <1>3, <1>4
<1>6. u = v
  BY <1>3, <1>4, <1>5, SameSequence
<1> QED
  BY <1>1, <1>6

LEMMA OneMoreTurn ==
  ASSUME NEW ms, NEW os, CTalk(ms, os), NEW m, NEW o, CTurn(m, o), CResultsAsked(ms, Len(ms) + 1, m)
  PROVE  CTalk(Append(ms, m), Append(os, o)) /\ Len(Append(ms, m)) = Len(ms) + 1
<1>1. ms \in Seq(CMessage) /\ os \in Seq(COrigin)
  BY DEF CTalk
<1>2. m \in CMessage /\ o \in COrigin
  BY DEF CTurn, CSound
<1>3. PICK ts, us : ts = <<m>> /\ us = <<o>>
  OBVIOUS
<1>4. /\ ts \in Seq(CMessage) /\ us \in Seq(COrigin) /\ Len(ts) = 1 /\ Len(us) = 1
      /\ ts[1] = m /\ us[1] = o
  BY <1>2, <1>3
<1>5. CTurns(ms, ts, us)
  BY <1>4 DEF CTurns
<1>6. CTalk(ms \o ts, os \o us)
  BY <1>5, TalkGoesOn
<1>7. Append(ms, m) = ms \o ts /\ Append(os, o) = os \o us
  BY <1>1, <1>2, <1>3, AppendIs
<1>8. Len(Append(ms, m)) = Len(ms) + 1
  BY <1>1, <1>2
<1> QED
  BY <1>6, <1>7, <1>8

(* The request made of a conversation holds what each of its messages      *)
(* comes to, in their order.                                               *)
CRequest(p, ms) == Completions!FlattenSeq([i \in DOMAIN ms |-> Completions!Items(p, ms[i])])

Follows(s, x, y) == \E k, l \in 1 .. Len(s) : k < l /\ s[k] = x /\ s[l] = y
CInOrder(p, ms, s) ==
  /\ \A i \in 1 .. Len(ms) : \A x : Holds(Completions!Items(p, ms[i]), x) => Holds(s, x)
  /\ \A h, i \in 1 .. Len(ms) : \A x, y :
       h < i /\ Holds(Completions!Items(p, ms[h]), x) /\ Holds(Completions!Items(p, ms[i]), y) =>
         Follows(s, x, y)

LEMMA RequestHolds ==
  ASSUME NEW ms, NEW os, CTalk(ms, os), NEW p \in Completions!Providers, NEW s, s = CRequest(p, ms)
  PROVE  s \in Seq(CItem) /\ CInOrder(p, ms, s)
<1>1. PICK n \in Nat : n = Len(ms) /\ DOMAIN ms = 1 .. n
  BY DEF CTalk
<1>2. PICK ss : ss = [i \in 1 .. n |-> Completions!Items(p, ms[i])]
  OBVIOUS
<1>3. ASSUME NEW i \in 1 .. n PROVE ss[i] \in Seq(CItem) /\ ss[i] = Completions!Items(p, ms[i])
  <2>1. CSound(ms[i])
    BY <1>1 DEF CTalk, CTurn
  <2> QED
    BY <1>2, <2>1, ItemsHold
<1>4. ss \in Seq(Seq(CItem)) /\ Len(ss) = n
  <2>1. ss \in [1 .. n -> Seq(CItem)]
    BY <1>2, <1>3
  <2> QED
    BY <2>1
<1>5. s = Completions!FlattenSeq(ss)
  BY <1>1, <1>2 DEF CRequest
<1>6. s \in Seq(CItem) /\ HoldsAll(ss, s)
  BY <1>4, <1>5, FlattenHolds
<1>7. ASSUME NEW i \in 1 .. n, NEW x, Holds(Completions!Items(p, ms[i]), x) PROVE Holds(s, x)
  <2>1. PICK j \in 1 .. Len(ss[i]) : ss[i][j] = x
    BY <1>3, <1>7 DEF Holds
  <2>2. \E q \in 1 .. Len(s) : s[q] = ss[i][j]
    BY <1>4, <1>6 DEF HoldsAll
  <2> QED
    BY <2>1, <2>2 DEF Holds
<1>8. ASSUME NEW h \in 1 .. n, NEW i \in 1 .. n, NEW x, NEW y, h < i,
             Holds(Completions!Items(p, ms[h]), x), Holds(Completions!Items(p, ms[i]), y)
      PROVE  Follows(s, x, y)
  <2>1. PICK a \in 1 .. Len(ss[h]) : ss[h][a] = x
    BY <1>3, <1>8 DEF Holds
  <2>2. PICK b \in 1 .. Len(ss[i]) : ss[i][b] = y
    BY <1>3, <1>8 DEF Holds
  <2>3. \E k, l \in 1 .. Len(s) : k < l /\ s[k] = ss[h][a] /\ s[l] = ss[i][b]
    BY <1>4, <1>6, <1>8 DEF HoldsAll
  <2> QED
    BY <2>1, <2>2, <2>3 DEF Follows
<1>9. CInOrder(p, ms, s)
  BY <1>1, <1>7, <1>8 DEF CInOrder
<1> QED
  BY <1>6, <1>9

-----------------------------------------------------------------------------
(* While a request is under way it is that of the conversation so far.     *)
COutcomes == {"none", "ok", "model_not_found", "unknown"}
CKnown ==
  /\ cProviders \subseteq Completions!Providers /\ cProvider \in Completions!Providers
  /\ cOutcome \in COutcomes /\ cRequests \in 0 .. MaxRequests /\ Len(cMessages) <= MaxMessages
  /\ cAt \in {"idle", "send", "done"}
CRequested ==
  cSent \in Seq(CItem) /\ (Completions!Sending => cSent = CRequest(cProvider, cMessages))
CTalkInv == CTalk(cMessages, cOrigin) /\ CKnown /\ CRequested

CResult(is) ==
  Completions!Message("tool", <<>>, [i \in DOMAIN is |-> Completions!Part("tool_result", is[i])])
COwn == [by |-> "user", blocks |-> <<>>]

LEMMA CTalkInit == ASSUME Completions!Init PROVE CTalkInv
<1>1. /\ cMessages = <<>> /\ cOrigin = <<>> /\ cAt = "idle" /\ cSent = <<>>
      /\ cProviders \in Availables /\ cProvider = "anthropic" /\ cOutcome = "none" /\ cRequests = 0
  BY DEF Completions!Init
<1>2. CTalk(<<>>, <<>>)
  <2>1. <<>> \in Seq(CMessage) /\ <<>> \in Seq(COrigin) /\ Len(<<>>) = 0
    OBVIOUS
  <2> QED
    BY <2>1 DEF CTalk
<1>3. CKnown
  <2>1. cProviders \subseteq Completions!Providers
    BY <1>1, ConversationAssumption DEF Completions!CompletionAssumption
  <2>2. MaxRequests \in Nat /\ MaxMessages \in Nat
    BY ConversationAssumption DEF Completions!CompletionAssumption
  <2>3. Len(cMessages) = 0
    BY <1>1
  <2>4. "anthropic" \in Completions!Providers /\ "none" \in COutcomes
    BY DEF Completions!Providers, COutcomes
  <2> QED
    BY <1>1, <2>1, <2>2, <2>3, <2>4 DEF CKnown
<1>4. CRequested
  <2>1. <<>> \in Seq(CItem)
    OBVIOUS
  <2> QED
    BY <1>1, <2>1 DEF CRequested, Completions!Sending
<1> QED
  BY <1>1, <1>2, <1>3, <1>4 DEF CTalkInv

LEMMA CUserTurn == ASSUME CTalkInv, Completions!UserTurn PROVE CTalkInv'
<1>1. PICK ms, os : ms = cMessages /\ os = cOrigin
  OBVIOUS
<1>2. CTalk(ms, os) /\ ms \in Seq(CMessage) /\ Len(ms) \in Nat
  BY <1>1 DEF CTalkInv, CTalk
<1>3. PICK text : text = <<Len(ms) + 1>>
  OBVIOUS
<1>4. PICK m : /\ m \in {Completions!Message("user", text, <<>>),
                         Completions!Message("user", <<>>, <<Completions!Part("text", text),
                                                             Completions!Part("image", <<>>)>>),
                         Completions!Message("user", text, <<Completions!Part("image", <<>>)>>)}
               /\ cMessages' = Append(ms, m) /\ cOrigin' = Append(os, [by |-> "user", blocks |-> <<>>])
  BY <1>1, <1>3 DEF Completions!UserTurn, Completions!Append1
<1>5. /\ cAt = "idle" /\ Len(ms) < MaxMessages
      /\ UNCHANGED <<cProviders, cProvider, cAt, cSent, cOutcome, cRequests>>
  BY <1>1 DEF Completions!UserTurn
<1>6. CSound(m) /\ m.role = "user"
  <2>1. text \in Str /\ <<>> \in Str
    BY <1>2, <1>3 DEF Str
  <2>2. PICK p, q : p = Completions!Part("text", text) /\ q = Completions!Part("image", <<>>)
    OBVIOUS
  <2>3. p \in CPart /\ q \in CPart /\ p.type = "text" /\ q.type = "image"
    <3>1. text \in CValue("text") /\ <<>> \in CValue("image")
      BY <2>1 DEF CValue
    <3> QED
      BY <2>2, <3>1, PartIs DEF CTypes
  <2>4. PICK c, parts : /\ m = Completions!Message("user", c, parts)
                        /\ c \in {text, <<>>} /\ parts \in {<<>>, <<p, q>>, <<q>>}
    <3>1. CASE m = Completions!Message("user", text, <<>>)
      BY <3>1
    <3>2. CASE m = Completions!Message("user", <<>>, <<p, q>>)
      BY <3>2
    <3>3. CASE m = Completions!Message("user", text, <<q>>)
      BY <3>3
    <3> QED
      BY <1>4, <2>2, <3>1, <3>2, <3>3
  <2>7. m.role = "user" /\ m.parts = parts /\ m.content = c
    BY <2>4 DEF Completions!Message
  <2>5. parts \in Seq(CPart) /\ \A j \in 1 .. Len(parts) : parts[j].type \in {"text", "image"}
    <3>1. CASE parts = <<>>
      BY <3>1
    <3>2. CASE parts = <<p, q>>
      <4>1. parts \in Seq(CPart) /\ Len(parts) = 2 /\ parts[1] = p /\ parts[2] = q
        BY <2>3, <3>2
      <4>2. \A j \in 1 .. 2 : j = 1 \/ j = 2
        OBVIOUS
      <4> QED
        BY <2>3, <4>1, <4>2
    <3>3. CASE parts = <<q>>
      BY <2>3, <3>3
    <3> QED
      BY <2>4, <3>1, <3>2, <3>3
  <2>6. m \in CMessage
    BY <2>1, <2>4, <2>5 DEF CMessage, Completions!Message
  <2> QED
    BY <2>5, <2>6, <2>7 DEF CSound
<1>7. PICK o : o = COwn
  OBVIOUS
<1>8. CTurn(m, o) /\ CResultsAsked(ms, Len(ms) + 1, m)
  <2>1. o \in COrigin /\ o.blocks = <<>>
    BY <1>7 DEF COrigin, COwn
  <2>2. CMapped(<<>>, m)
    BY DEF CMapped
  <2> QED
    BY <1>6, <2>1, <2>2 DEF CTurn, CResultsAsked
<1>9. CTalk(Append(ms, m), Append(os, o)) /\ Len(Append(ms, m)) = Len(ms) + 1
  BY <1>2, <1>8, OneMoreTurn
<1>10. CTalk(cMessages, cOrigin)'
  BY <1>4, <1>7, <1>9 DEF COwn
<1>11. CKnown'
  <2>1. Len(cMessages') <= MaxMessages
    <3>1. MaxMessages \in Nat
      BY ConversationAssumption DEF Completions!CompletionAssumption
    <3> QED
      BY <1>2, <1>4, <1>5, <1>9, <3>1
  <2> QED
    BY <1>5, <2>1 DEF CTalkInv, CKnown
<1>12. CRequested'
  BY <1>5 DEF CTalkInv, CRequested, Completions!Sending
<1> QED
  BY <1>10, <1>11, <1>12 DEF CTalkInv

(* A message of results of calls of the last message.                      *)
LEMMA CResults ==
  ASSUME NEW ms, NEW os, CTalk(ms, os), ms # <<>>, Completions!Last(ms).role = "assistant",
         NEW ids \in Seq(OfTypes(CPart, Completions!Last(ms).parts, {"tool_call"})),
         NEW is \in Seq(Str), is # <<>>,
         \A i \in 1 .. Len(is) : \E k \in 1 .. Len(ids) : is[i] = ids[k].value.id,
         NEW m, m = CResult(is)
  PROVE  CTurn(m, COwn) /\ CResultsAsked(ms, Len(ms) + 1, m)
<1>1. PICK n \in Nat : n = Len(is) /\ DOMAIN is = 1 .. n /\ n # 0
  OBVIOUS
<1>2. PICK parts : parts = [i \in 1 .. n |-> Completions!Part("tool_result", is[i])]
  OBVIOUS
<1>3. ASSUME NEW i \in 1 .. n
      PROVE  parts[i] \in CPart /\ parts[i].type = "tool_result" /\ parts[i].value = is[i]
  <2>1. is[i] \in CValue("tool_result") /\ "tool_result" \in CTypes
    BY <1>1 DEF CValue, CTypes
  <2>2. parts[i] = Completions!Part("tool_result", is[i])
    BY <1>2
  <2> QED
    BY <2>1, <2>2, PartIs
<1>4. parts \in Seq(CPart) /\ Len(parts) = n /\ parts # <<>>
  <2>1. parts \in [1 .. n -> CPart]
    BY <1>2, <1>3
  <2>2. parts \in Seq(CPart) /\ Len(parts) = n
    BY <2>1
  <2> QED
    BY <1>1, <2>2
<1>5. m.role = "tool" /\ m.parts = parts /\ m.content = <<>> /\ m \in CMessage
  <2>1. m = Completions!Message("tool", <<>>, parts)
    BY <1>1, <1>2 DEF CResult
  <2>2. <<>> \in Str
    BY DEF Str
  <2> QED
    BY <1>4, <2>1, <2>2 DEF CMessage, Completions!Message
<1>6. CTurn(m, COwn)
  <2>1. CSound(m)
    BY <1>3, <1>4, <1>5 DEF CSound
  <2>2. COwn \in COrigin /\ COwn.blocks = <<>>
    BY DEF COrigin, COwn
  <2>3. CMapped(<<>>, m)
    BY DEF CMapped
  <2> QED
    BY <2>1, <2>2, <2>3 DEF CTurn
<1>7. ASSUME NEW j \in 1 .. Len(parts) PROVE CAsked(ms, Len(ms) + 1, parts[j].value)
  <2>1. j \in 1 .. n /\ parts[j].value = is[j]
    BY <1>3, <1>4
  <2>2. PICK k \in 1 .. Len(ids) : is[j] = ids[k].value.id
    BY <1>1, <2>1
  <2>3. ids[k] \in OfTypes(CPart, Completions!Last(ms).parts, {"tool_call"})
    OBVIOUS
  <2>4. ids[k].type = "tool_call" /\ Holds(Completions!Last(ms).parts, ids[k])
    BY <2>3 DEF OfTypes
  <2>5. Completions!Last(ms) = ms[Len(ms)]
    BY DEF Completions!Last
  <2>6. PICK h \in 1 .. Len(ms[Len(ms)].parts) : ms[Len(ms)].parts[h] = ids[k]
    BY <2>4, <2>5 DEF Holds
  <2>7. Len(ms) \in 1 .. Len(ms) /\ Len(ms) < Len(ms) + 1
    BY DEF CTalk
  <2>8. ms[Len(ms)].role = "assistant"
    BY <2>5
  <2> QED
    BY <2>1, <2>2, <2>4, <2>6, <2>7, <2>8 DEF CAsked
<1>8. CResultsAsked(ms, Len(ms) + 1, m)
  BY <1>5, <1>7 DEF CResultsAsked
<1> QED
  BY <1>6, <1>8

LEMMA CToolTurn == ASSUME CTalkInv, Completions!ToolTurn PROVE CTalkInv'
<1>1. PICK ms, os : ms = cMessages /\ os = cOrigin
  OBVIOUS
<1>2. CTalk(ms, os) /\ ms \in Seq(CMessage) /\ os \in Seq(COrigin) /\ Len(ms) \in Nat
  BY <1>1 DEF CTalkInv, CTalk
<1>3. PICK calls : calls = Completions!OfType(Completions!Last(ms).parts, {"tool_call"})
  OBVIOUS
<1>4. PICK values : values = Completions!Values(calls)
  OBVIOUS
<1>5. PICK ids : ids = [i \in DOMAIN values |-> values[i].id]
  OBVIOUS
<1>6. PICK turns :
        /\ turns \in {<<CResult(ids)>>, [i \in DOMAIN ids |-> CResult(<<ids[i]>>)]}
        /\ cMessages' = ms \o turns
        /\ cOrigin' = os \o [i \in DOMAIN turns |-> COwn]
  <2> DEFINE Values == Completions!Values(
                         Completions!OfType(Completions!Last(cMessages).parts, {"tool_call"}))
             is == [i \in DOMAIN Values |-> Values[i].id]
  <2>1. \E turns \in {<<CResult(is)>>, [i \in DOMAIN is |-> CResult(<<is[i]>>)]} :
          /\ cMessages' = cMessages \o turns
          /\ cOrigin' = cOrigin \o [i \in DOMAIN turns |-> COwn]
    BY Zenon DEF Completions!ToolTurn, CResult, COwn
  <2>2. Values = values /\ is = ids
    BY <1>1, <1>3, <1>4, <1>5
  <2> HIDE DEF Values, is
  <2> QED
    BY <1>1, <2>1, <2>2
<1>7. /\ ids # <<>> /\ Len(ms) + Len(ids) <= MaxMessages
      /\ cAt = "idle" /\ ms # <<>> /\ Completions!Last(ms).role = "assistant"
      /\ UNCHANGED <<cProviders, cProvider, cAt, cSent, cOutcome, cRequests>>
  BY <1>1, <1>3, <1>4, <1>5 DEF Completions!ToolTurn, Completions!LastRole
<1>8. Completions!Last(ms).parts \in Seq(CPart)
  <2>1. Len(ms) \in 1 .. Len(ms)
    BY <1>2, <1>7
  <2>2. ms[Len(ms)] \in CMessage
    BY <1>2, <2>1
  <2> QED
    BY <2>2 DEF CMessage, Completions!Last
<1>9. calls \in Seq(OfTypes(CPart, Completions!Last(ms).parts, {"tool_call"})) /\ calls \in Seq(CPart)
  <2>1. calls \in Seq(OfTypes(CPart, Completions!Last(ms).parts, {"tool_call"}))
    BY <1>3, <1>8, OfTypeHolds
  <2> QED
    BY <2>1 DEF OfTypes
<1>10. /\ ids \in Seq(Str) /\ Len(ids) = Len(calls)
       /\ \A i \in 1 .. Len(calls) : ids[i] = calls[i].value.id
  <2>1. PICK S : S = OfTypes(CPart, Completions!Last(ms).parts, {"tool_call"})
    OBVIOUS
  <2>2. \A x \in S : x.value \in CCall
    <3>1. \A x \in S : x \in CPart /\ x.type = "tool_call"
      BY <2>1 DEF OfTypes
    <3> QED
      BY <3>1, PartHas DEF CValue
  <2>3. /\ values \in Seq(CCall) /\ Len(values) = Len(calls)
        /\ \A i \in 1 .. Len(calls) : values[i] = calls[i].value
    BY <1>4, <1>9, <2>1, <2>2, ValuesAre
  <2>4. PICK n \in Nat : n = Len(values) /\ DOMAIN values = 1 .. n
    BY <2>3
  <2>5. \A i \in 1 .. n : values[i].id \in Str
    <3>1. \A x \in CCall : x.id \in Str
      BY DEF CCall
    <3> QED
      BY <2>3, <2>4, <3>1
  <2>6. ids \in [1 .. n -> Str]
    BY <1>5, <2>4, <2>5
  <2>7. ids \in Seq(Str) /\ Len(ids) = n
    BY <2>6
  <2>8. \A i \in 1 .. n : ids[i] = calls[i].value.id
    BY <1>5, <2>3, <2>4
  <2> QED
    BY <2>3, <2>4, <2>7, <2>8
<1>11. PICK o : o = COwn
  OBVIOUS
<1>12. ASSUME NEW is \in Seq(Str), is # <<>>, \A i \in 1 .. Len(is) : \E k \in 1 .. Len(ids) : is[i] = ids[k]
       PROVE  CTurn(CResult(is), o) /\ CResultsAsked(ms, Len(ms) + 1, CResult(is))
  <2>1. \A i \in 1 .. Len(is) : \E k \in 1 .. Len(calls) : is[i] = calls[k].value.id
    BY <1>10, <1>12
  <2>2. PICK m : m = CResult(is)
    OBVIOUS
  <2>3. CTurn(m, o) /\ CResultsAsked(ms, Len(ms) + 1, m)
    BY <1>2, <1>7, <1>9, <1>11, <1>12, <2>1, <2>2, CResults
  <2> QED
    BY <2>2, <2>3
<1>13. PICK us : us = [i \in DOMAIN turns |-> o]
  OBVIOUS
<1>14. CTurns(ms, turns, us) /\ Len(turns) <= Len(ids)
  <2>1. PICK n \in Nat : n = Len(ids) /\ n # 0 /\ DOMAIN ids = 1 .. n
    BY <1>7, <1>10
  <2>2. o \in COrigin
    BY <1>11 DEF COrigin, COwn
  <2>3. CASE turns = <<CResult(ids)>>
    <3>1. CTurn(CResult(ids), o) /\ CResultsAsked(ms, Len(ms) + 1, CResult(ids))
      BY <1>7, <1>10, <1>12
    <3>2. CResult(ids) \in CMessage
      BY <3>1 DEF CTurn, CSound
    <3>3. turns \in Seq(CMessage) /\ Len(turns) = 1 /\ turns[1] = CResult(ids) /\ DOMAIN turns = 1 .. 1
      BY <2>3, <3>2
    <3>4. us \in Seq(COrigin) /\ Len(us) = 1 /\ us[1] = o
      <4>1. us \in [1 .. 1 -> COrigin]
        BY <1>13, <2>2, <3>3
      <4> QED
        BY <1>13, <3>3, <4>1
    <3> QED
      BY <2>1, <3>1, <3>3, <3>4 DEF CTurns
  <2>4. CASE turns = [i \in DOMAIN ids |-> CResult(<<ids[i]>>)]
    <3>1. ASSUME NEW i \in 1 .. n
          PROVE  CTurn(turns[i], o) /\ CResultsAsked(ms, Len(ms) + 1, turns[i])
      <4>1. PICK is : is = <<ids[i]>>
        OBVIOUS
      <4>2. is \in Seq(Str) /\ Len(is) = 1 /\ is[1] = ids[i] /\ is # <<>>
        BY <1>10, <2>1, <4>1
      <4>3. \A j \in 1 .. Len(is) : \E k \in 1 .. Len(ids) : is[j] = ids[k]
        BY <2>1, <4>2
      <4>4. CTurn(CResult(is), o) /\ CResultsAsked(ms, Len(ms) + 1, CResult(is))
        BY <1>12, <4>2, <4>3
      <4>5. turns[i] = CResult(is)
        BY <2>1, <2>4, <4>1
      <4> QED
        BY <4>4, <4>5
    <3>2. turns \in Seq(CMessage) /\ Len(turns) = n /\ DOMAIN turns = 1 .. n
      <4>1. \A i \in 1 .. n : turns[i] \in CMessage
        BY <3>1 DEF CTurn, CSound
      <4>2. turns \in [1 .. n -> CMessage]
        BY <2>1, <2>4, <4>1
      <4> QED
        BY <4>2
    <3>3. us \in Seq(COrigin) /\ Len(us) = n /\ \A i \in 1 .. n : us[i] = o
      <4>1. us \in [1 .. n -> COrigin]
        BY <1>13, <2>2, <3>2
      <4> QED
        BY <1>13, <3>2, <4>1
    <3> QED
      BY <2>1, <3>1, <3>2, <3>3 DEF CTurns
  <2> QED
    BY <1>6, <2>3, <2>4
<1>15. CTalk(ms \o turns, os \o us)
  BY <1>2, <1>14, TalkGoesOn
<1>16. CTalk(cMessages, cOrigin)'
  BY <1>6, <1>11, <1>13, <1>15
<1>17. CKnown'
  <2>1. Len(cMessages') = Len(ms) + Len(turns)
    <3>1. turns \in Seq(CMessage)
      BY <1>14 DEF CTurns
    <3> QED
      BY <1>2, <1>6, <3>1, Concatenated
  <2>2. MaxMessages \in Nat /\ Len(ids) \in Nat /\ Len(turns) \in Nat
    <3>1. turns \in Seq(CMessage)
      BY <1>14 DEF CTurns
    <3> QED
      BY <1>10, <3>1, ConversationAssumption DEF Completions!CompletionAssumption
  <2>3. Len(cMessages') <= MaxMessages
    BY <1>2, <1>7, <1>14, <2>1, <2>2
  <2> QED
    BY <1>7, <2>3 DEF CTalkInv, CKnown
<1>18. CRequested'
  BY <1>7 DEF CTalkInv, CRequested, Completions!Sending
<1> QED
  BY <1>16, <1>17, <1>18 DEF CTalkInv

LEMMA CReplied == ASSUME CTalkInv, Completions!Reply PROVE CTalkInv'
<1>1. PICK ms, os, p : ms = cMessages /\ os = cOrigin /\ p = cProvider
  OBVIOUS
<1>2. CTalk(ms, os) /\ ms \in Seq(CMessage) /\ Len(ms) \in Nat /\ p \in Completions!Providers
  BY <1>1 DEF CTalkInv, CTalk, CKnown
<1>3. PICK r \in Replies, withIds \in BOOLEAN :
        LET number(i) == <<10 * (Len(ms) + 1) + i>>
            blocks == [i \in DOMAIN r |->
              IF r[i] = 0 THEN Completions!Block("text", number(i))
              ELSE Completions!Block("call",
                     Completions!Call(IF withIds THEN number(i) ELSE <<>>, <<r[i]>>))]
        IN /\ cMessages' = Append(ms, Completions!MapResponse(p, blocks))
           /\ cOrigin' = Append(os, [by |-> p, blocks |-> blocks])
  BY <1>1 DEF Completions!Reply, Completions!Append1
<1>4. PICK blocks : blocks = [i \in DOMAIN r |->
        IF r[i] = 0 THEN Completions!Block("text", <<10 * (Len(ms) + 1) + i>>)
        ELSE Completions!Block("call",
               Completions!Call(IF withIds THEN <<10 * (Len(ms) + 1) + i>> ELSE <<>>, <<r[i]>>))]
  OBVIOUS
<1>5. PICK m, o : m = Completions!MapResponse(p, blocks) /\ o = [by |-> p, blocks |-> blocks]
  OBVIOUS
<1>6. cMessages' = Append(ms, m) /\ cOrigin' = Append(os, o)
  BY <1>3, <1>4, <1>5
<1>7. /\ Len(ms) < MaxMessages /\ cAt' = "done" /\ cOutcome' = "ok"
      /\ UNCHANGED <<cProviders, cProvider, cSent, cRequests>>
  BY <1>1 DEF Completions!Reply
<1>8. blocks \in Seq(CBlock)
  <2>1. PICK n \in Nat : n = Len(r) /\ DOMAIN r = 1 .. n /\ \A i \in 1 .. n : r[i] \in Nat
    <3>1. r \in Seq(Nat)
      BY ConversationAssumption DEF Completions!CompletionAssumption
    <3> QED
      BY <3>1
  <2>2. ASSUME NEW i \in 1 .. n PROVE blocks[i] \in CBlock
    <3>1. PICK w, f, e : /\ w = <<10 * (Len(ms) + 1) + i>> /\ f = <<r[i]>>
                         /\ e = IF withIds THEN w ELSE <<>>
      OBVIOUS
    <3>2. w \in Str /\ Len(w) = 1 /\ f \in Str /\ e \in Str
      BY <1>2, <2>1, <3>1 DEF Str
    <3>3. blocks[i] = IF r[i] = 0 THEN Completions!Block("text", w)
                      ELSE Completions!Block("call", Completions!Call(e, f))
      BY <1>4, <2>1, <3>1
    <3>4. CASE r[i] = 0
      <4>1. w \in CValues /\ w \in CValue("text")
        BY <3>2 DEF CValues, CValue
      <4>2. PICK x : x = Completions!Block("text", w)
        OBVIOUS
      <4>3. /\ x \in [type : {"text", "call"}, value : CValues]
            /\ x.type = "text" /\ x.value = w
        BY <4>1, <4>2 DEF Completions!Block
      <4>4. x \in CBlock
        BY <3>2, <4>1, <4>3 DEF CBlock
      <4> QED
        BY <3>3, <3>4, <4>2, <4>4
    <3>5. CASE r[i] # 0
      <4>1. PICK c : c = Completions!Call(e, f)
        OBVIOUS
      <4>2. c \in CCall
        BY <3>2, <4>1 DEF CCall, Completions!Call
      <4>3. c \in CValues /\ c \in CValue("call")
        BY <4>2 DEF CValues, CValue
      <4>4. PICK x : x = Completions!Block("call", c)
        OBVIOUS
      <4>5. /\ x \in [type : {"text", "call"}, value : CValues]
            /\ x.type = "call" /\ x.value = c
        BY <4>3, <4>4 DEF Completions!Block
      <4>6. x \in CBlock
        BY <4>3, <4>5 DEF CBlock
      <4> QED
        BY <3>3, <3>5, <4>1, <4>4, <4>6
    <3> QED
      BY <3>4, <3>5
  <2>3. blocks \in [1 .. n -> CBlock]
    BY <1>4, <2>1, <2>2
  <2> QED
    BY <2>3
<1>9. CTurn(m, o) /\ CResultsAsked(ms, Len(ms) + 1, m)
  <2>1. CSound(m) /\ m.role = "assistant" /\ CMapped(blocks, m)
    BY <1>2, <1>5, <1>8, MapResponseIs
  <2>2. o \in COrigin /\ o.blocks = blocks
    BY <1>2, <1>5, <1>8 DEF COrigin
  <2> QED
    BY <2>1, <2>2 DEF CTurn, CResultsAsked
<1>10. CTalk(Append(ms, m), Append(os, o)) /\ Len(Append(ms, m)) = Len(ms) + 1
  BY <1>2, <1>9, OneMoreTurn
<1>11. CTalk(cMessages, cOrigin)'
  BY <1>6, <1>10
<1>12. CKnown'
  <2>1. Len(cMessages') <= MaxMessages
    <3>1. MaxMessages \in Nat
      BY ConversationAssumption DEF Completions!CompletionAssumption
    <3> QED
      BY <1>2, <1>6, <1>7, <1>10, <3>1
  <2> QED
    BY <1>7, <2>1 DEF CTalkInv, CKnown, COutcomes
<1>13. CRequested'
  BY <1>7 DEF CTalkInv, CRequested, Completions!Sending
<1> QED
  BY <1>11, <1>12, <1>13 DEF CTalkInv

LEMMA CAsks == ASSUME CTalkInv, NEW model, Completions!Complete(model) PROVE CTalkInv'
<1>1. PICK p : p = Completions!ResolveProviderName(model)
  OBVIOUS
<1>2. p \in Completions!Providers
  BY <1>1 DEF Completions!ResolveProviderName, Completions!Providers
<1>3. /\ cProvider' = p /\ cRequests < MaxRequests /\ cRequests' = cRequests + 1
      /\ UNCHANGED <<cProviders, cMessages, cOrigin>>
      /\ \/ cAt' = "done" /\ cOutcome' \in {"model_not_found", "unknown"} /\ UNCHANGED cSent
         \/ cAt' = "send" /\ cOutcome' = "none" /\ cSent' = CRequest(p, cMessages)
  BY <1>1 DEF Completions!Complete, Completions!conversation, CRequest
<1>4. CTalk(cMessages, cOrigin) /\ CTalk(cMessages, cOrigin)'
  BY <1>3 DEF CTalkInv
<1>5. CKnown'
  <2>1. MaxRequests \in Nat
    BY ConversationAssumption DEF Completions!CompletionAssumption
  <2> QED
    BY <1>2, <1>3, <2>1 DEF CTalkInv, CKnown, COutcomes
<1>6. CRequested'
  <2>1. CRequest(p, cMessages) \in Seq(CItem)
    BY <1>2, <1>4, RequestHolds
  <2>2. cSent' \in Seq(CItem)
    BY <1>3, <2>1 DEF CTalkInv, CRequested
  <2>3. cAt' = "send" => cSent' = CRequest(cProvider', cMessages')
    BY <1>3
  <2>4. cAt' \in {"send", "done"}
    BY <1>3
  <2> QED
    BY <2>2, <2>3, <2>4 DEF CRequested, Completions!Sending
<1> QED
  BY <1>4, <1>5, <1>6 DEF CTalkInv

LEMMA CTalkNext == ASSUME CTalkInv, Completions!Next \/ UNCHANGED completionVars PROVE CTalkInv'
<1>1. CASE Completions!Rejected
  <2>1. /\ cAt = "send" /\ cAt' = "done" /\ cOutcome' \in COutcomes
        /\ UNCHANGED <<cProviders, cMessages, cOrigin, cProvider, cSent, cRequests>>
    BY <1>1 DEF Completions!Rejected, Completions!conversation, COutcomes
  <2> QED
    BY <2>1 DEF CTalkInv, CKnown, CRequested, Completions!Sending
<1>2. CASE Completions!Return \/ UNCHANGED completionVars
  <2>1. /\ cAt' = cAt \/ cAt' = "idle"
        /\ UNCHANGED <<cProviders, cMessages, cOrigin, cProvider, cSent, cOutcome, cRequests>>
    BY <1>2 DEF Completions!Return, Completions!conversation, completionVars
  <2> QED
    BY <2>1 DEF CTalkInv, CKnown, CRequested, Completions!Sending
<1> QED
  BY <1>1, <1>2, CUserTurn, CToolTurn, CReplied, CAsks DEF Completions!Next

LEMMA TalkInvariant == Spec => []CTalkInv
<1>1. Init => CTalkInv
  BY CTalkInit DEF Init
<1>2. CTalkInv /\ [Next]_vars => CTalkInv'
  BY CTalkNext, OnePart
<1> QED
  BY <1>1, <1>2, PTL DEF Spec

(* Whichever provider made a tool call and whichever is asked next, the    *)
(* request holds the call and, after it, its result; only OpenAI's leaves  *)
(* out the second result of one message.  The result answers the call,     *)
(* but not at Gemini, unless the call's id is its function's name.         *)
THEOREM CallsStayAnswered == Spec => []CallsAreAnswered
<1> SUFFICES ASSUME CTalkInv PROVE CallsAreAnswered
  BY TalkInvariant, PTL
<1> SUFFICES ASSUME Completions!Sending PROVE Completions!CallsAreAnswered
  BY DEF CallsAreAnswered, Completions!CallsAreAnswered
<1>1. PICK ms, os, p, s : ms = cMessages /\ os = cOrigin /\ p = cProvider /\ s = cSent
  OBVIOUS
<1>2. /\ CTalk(ms, os) /\ ms \in Seq(CMessage) /\ p \in Completions!Providers
      /\ s = CRequest(p, ms) /\ s \in Seq(CItem)
  BY <1>1 DEF CTalkInv, CTalk, CKnown, CRequested
<1>3. CInOrder(p, ms, s)
  BY <1>2, RequestHolds
<1>4. \A i \in 1 .. Len(ms) :
        CSound(ms[i]) /\ CHolds(p, ms[i], Completions!Items(p, ms[i])) /\ CResultsAsked(ms, i, ms[i])
  BY <1>2, ItemsHold DEF CTalk, CTurn
<1>5. ASSUME NEW i \in 1 .. Len(ms), NEW j \in 1 .. Len(ms[i].parts), ms[i].parts[j].type = "tool_call"
      PROVE  Holds(s, Completions!Item("call", ms[i].parts[j].value))
  <2>1. ms[i].role = "assistant"
    <3>1. CSound(ms[i])
      BY <1>4
    <3> QED
      BY <1>5, <3>1, SoundParts DEF CSound
  <2>2. Holds(Completions!Items(p, ms[i]), Completions!Item("call", ms[i].parts[j].value))
    BY <1>4, <1>5, <2>1 DEF CHolds
  <2> QED
    BY <1>3, <2>2 DEF CInOrder
<1>6. ASSUME NEW i \in 1 .. Len(ms), NEW j \in 1 .. Len(ms[i].parts),
             ms[i].parts[j].type = "tool_result", p = "openai" => j = 1
      PROVE  \E call : /\ call.id = ms[i].parts[j].value
                       /\ Follows(s, Completions!Item("call", call),
                                     Completions!Item(CResultKind(p), ms[i].parts[j].value))
  <2>1. ms[i].role = "tool"
    <3>1. CSound(ms[i])
      BY <1>4
    <3> QED
      BY <1>6, <3>1, SoundParts DEF CSound
  <2>2. Holds(Completions!Items(p, ms[i]), Completions!Item(CResultKind(p), ms[i].parts[j].value))
    BY <1>4, <1>6, <2>1 DEF CHolds
  <2>3. CAsked(ms, i, ms[i].parts[j].value)
    BY <1>4, <2>1 DEF CResultsAsked
  <2>4. PICK h \in 1 .. Len(ms) :
          /\ h < i /\ ms[h].role = "assistant"
          /\ \E k \in 1 .. Len(ms[h].parts) :
               ms[h].parts[k].type = "tool_call" /\ ms[h].parts[k].value.id = ms[i].parts[j].value
    BY <2>3 DEF CAsked
  <2>5. PICK k \in 1 .. Len(ms[h].parts) :
          ms[h].parts[k].type = "tool_call" /\ ms[h].parts[k].value.id = ms[i].parts[j].value
    BY <2>4
  <2>6. Holds(Completions!Items(p, ms[h]), Completions!Item("call", ms[h].parts[k].value))
    BY <1>4, <2>4, <2>5 DEF CHolds
  <2>7. Follows(s, Completions!Item("call", ms[h].parts[k].value),
                   Completions!Item(CResultKind(p), ms[i].parts[j].value))
    BY <1>3, <2>2, <2>4, <2>6 DEF CInOrder
  <2> QED
    BY <2>5, <2>7
<1>7. /\ DOMAIN ms = 1 .. Len(ms) /\ DOMAIN s = 1 .. Len(s)
      /\ \A i \in 1 .. Len(ms) : DOMAIN ms[i].parts = 1 .. Len(ms[i].parts)
  <2>1. \A i \in 1 .. Len(ms) : ms[i].parts \in Seq(CPart)
    BY <1>4, SoundParts
  <2> QED
    BY <1>2, <2>1
<1>8. ASSUME NEW value, Holds(s, Completions!Item("call", value)) PROVE Completions!Has("call", value)
  <2>1. PICK k \in 1 .. Len(s) : s[k] = Completions!Item("call", value)
    BY <1>8 DEF Holds
  <2>2. k \in DOMAIN cSent /\ cSent[k].kind = "call" /\ cSent[k].value = value
    BY <1>1, <1>7, <2>1 DEF Completions!Item
  <2> QED
    BY <2>2 DEF Completions!Has
<1>9. ASSUME NEW value, NEW k \in DOMAIN s, NEW l \in DOMAIN s, NEW call, call.id = value,
             s[k] = Completions!Item("call", call), s[l] = Completions!Item(CResultKind(p), value)
      PROVE  /\ s[k].kind = "call" /\ s[l].kind \in {"result", "named"}
             /\ s[k].value.id = value /\ s[l].value = value
             /\ Completions!Answers(s[l], s[k]) <=> p # "google" \/ s[k].value.name = value
  <2>1. /\ s[k].kind = "call" /\ s[k].value = call
        /\ s[l].kind = CResultKind(p) /\ s[l].value = value
    BY <1>9 DEF Completions!Item
  <2>2. CASE p = "google"
    <3>1. s[l].kind = "named"
      BY <2>1, <2>2 DEF CResultKind
    <3>2. Completions!Answers(s[l], s[k]) <=> value = call.name
      BY <2>1, <3>1 DEF Completions!Answers
    <3> QED
      BY <1>9, <2>1, <2>2, <3>1, <3>2
  <2>3. CASE p # "google"
    <3>1. s[l].kind = "result"
      BY <2>1, <2>3 DEF CResultKind
    <3>2. Completions!Answers(s[l], s[k])
      BY <1>9, <2>1, <3>1 DEF Completions!Answers
    <3> QED
      BY <1>9, <2>1, <2>3, <3>1, <3>2
  <2> QED
    BY <2>2, <2>3
<1>10. ASSUME NEW i \in DOMAIN ms, NEW j \in DOMAIN ms[i].parts,
              ms[i].parts[j].type = "tool_result", p = "openai" => j = 1
       PROVE  \E k, l \in DOMAIN s :
                /\ k < l /\ s[k].kind = "call" /\ s[l].kind \in {"result", "named"}
                /\ s[k].value.id = ms[i].parts[j].value /\ s[l].value = ms[i].parts[j].value
                /\ Completions!Answers(s[l], s[k]) <=>
                     p # "google" \/ s[k].value.name = ms[i].parts[j].value
  <2>1. i \in 1 .. Len(ms) /\ j \in 1 .. Len(ms[i].parts)
    BY <1>7
  <2>2. PICK value : value = ms[i].parts[j].value
    OBVIOUS
  <2>3. PICK call : /\ call.id = value
                    /\ Follows(s, Completions!Item("call", call), Completions!Item(CResultKind(p), value))
    BY <1>6, <1>10, <2>1, <2>2
  <2>4. PICK k, l : /\ k \in DOMAIN s /\ l \in DOMAIN s /\ k < l
                    /\ s[k] = Completions!Item("call", call)
                    /\ s[l] = Completions!Item(CResultKind(p), value)
    BY <1>7, <2>3 DEF Follows
  <2>5. /\ s[k].kind = "call" /\ s[l].kind \in {"result", "named"}
        /\ s[k].value.id = value /\ s[l].value = value
        /\ Completions!Answers(s[l], s[k]) <=> p # "google" \/ s[k].value.name = value
    BY <1>9, <2>3, <2>4
  <2> QED
    BY <2>2, <2>4, <2>5
<1>11. ASSUME NEW i \in DOMAIN ms, NEW j \in DOMAIN ms[i].parts, ms[i].parts[j].type = "tool_call"
       PROVE  Completions!Has("call", ms[i].parts[j].value)
  BY <1>5, <1>7, <1>8, <1>11
<1> QED
  BY <1>1, <1>10, <1>11 DEF Completions!CallsAreAnswered

LEMMA CarriedOver ==
  ASSUME cSent \in Seq(CItem), NEW x, NEW text, Holds(cSent, x), Carry(x, text)
  PROVE  Completions!Carries(text)
<1>1. PICK k \in 1 .. Len(cSent) : cSent[k] = x
  BY DEF Holds
<1>2. k \in DOMAIN cSent /\ cSent[k].value \in Str
  <2>1. k \in DOMAIN cSent /\ cSent[k] \in CItem
    BY <1>1
  <2>2. PICK y \in CItem : y = cSent[k]
    BY <2>1
  <2>3. y.kind \in {"user", "assistant"} /\ y.value \in CValue(y.kind)
    BY <1>1, <2>2 DEF Carry, CItem
  <2> QED
    BY <2>1, <2>2, <2>3 DEF CValue
<1>3. cSent[k].kind \in {"user", "assistant"} /\ Holds(cSent[k].value, text)
  BY <1>1 DEF Carry
<1>4. PICK j \in 1 .. Len(cSent[k].value) : cSent[k].value[j] = text
  BY <1>3 DEF Holds
<1>5. j \in DOMAIN cSent[k].value
  BY <1>2 DEF Str
<1> QED
  BY <1>2, <1>3, <1>4, <1>5 DEF Completions!Carries

(* Every text of every provider's response is in the next request to       *)
(* OpenAI and Gemini; to Anthropic, when it was the only block of its      *)
(* response.  A user's text is, unless its message has parts as well as a  *)
(* Content: there Anthropic alone sends the Content.                       *)
THEOREM TextsAlwaysCarryOver == Spec => []TextsCarryOver
<1> SUFFICES ASSUME CTalkInv PROVE TextsCarryOver
  BY TalkInvariant, PTL
<1> SUFFICES ASSUME Completions!Sending PROVE Completions!TextsCarryOver
  BY DEF TextsCarryOver, Completions!TextsCarryOver
<1>1. PICK ms, os, p : ms = cMessages /\ os = cOrigin /\ p = cProvider
  OBVIOUS
<1>2. /\ CTalk(ms, os) /\ ms \in Seq(CMessage) /\ os \in Seq(COrigin) /\ Len(os) = Len(ms)
      /\ p \in Completions!Providers /\ cSent = CRequest(p, ms) /\ cSent \in Seq(CItem)
  BY <1>1 DEF CTalkInv, CTalk, CKnown, CRequested
<1>3. PICK s : s = cSent
  OBVIOUS
<1>4. CInOrder(p, ms, s)
  BY <1>2, <1>3, RequestHolds
<1>5. \A i \in 1 .. Len(ms) : CTurn(ms[i], os[i]) /\ CHolds(p, ms[i], Completions!Items(p, ms[i]))
  BY <1>2, ItemsHold DEF CTalk, CTurn
<1>6. ASSUME NEW i \in 1 .. Len(ms), NEW x, NEW text,
             Holds(Completions!Items(p, ms[i]), x), Carry(x, text)
      PROVE  Completions!Carries(text)
  <2>1. Holds(s, x)
    BY <1>4, <1>6 DEF CInOrder
  <2> QED
    BY <1>2, <1>3, <1>6, <2>1, CarriedOver
<1>7. ASSUME NEW i \in 1 .. Len(ms), NEW text, ms[i].role \in {"user", "assistant"},
             p = "anthropic" \/ ms[i].parts = <<>>, Holds(ms[i].content, text)
      PROVE  Completions!Carries(text)
  <2>1. ms[i].content # <<>>
    <3>1. ms[i].content \in Str
      BY <1>5, SoundParts DEF CTurn
    <3> QED
      BY <1>7, <3>1, NotEmpty DEF Str
  <2>2. Holds(Completions!Items(p, ms[i]), Completions!Item(ms[i].role, ms[i].content))
    BY <1>5, <1>7, <2>1 DEF CHolds
  <2>3. Carry(Completions!Item(ms[i].role, ms[i].content), text)
    BY <1>7, Carried
  <2> QED
    BY <1>6, <2>2, <2>3
<1>8. ASSUME NEW i \in 1 .. Len(ms), NEW j \in 1 .. Len(os[i].blocks), os[i].blocks[j].type = "text",
             p = "anthropic" => Len(os[i].blocks) = 1
      PROVE  Completions!Carries(os[i].blocks[j].value[1])
  <2>1. CMapped(os[i].blocks, ms[i]) /\ (os[i].blocks # <<>> => ms[i].role = "assistant")
    BY <1>5 DEF CTurn
  <2>2. ms[i].role = "assistant"
    BY <2>1
  <2>3. PICK text : text = os[i].blocks[j].value[1]
    OBVIOUS
  <2>4. /\ Len(os[i].blocks) = 1 => Holds(ms[i].content, text)
        /\ \/ ms[i].parts = <<>> /\ Holds(ms[i].content, text)
           \/ \E k \in 1 .. Len(ms[i].parts) :
                ms[i].parts[k].type = "text" /\ Holds(ms[i].parts[k].value, text)
    BY <1>8, <2>1, <2>3 DEF CMapped
  <2>5. CASE p = "anthropic" \/ (ms[i].parts = <<>> /\ Holds(ms[i].content, text))
    BY <1>7, <1>8, <2>2, <2>3, <2>4, <2>5
  <2>6. CASE p # "anthropic" /\ ~(ms[i].parts = <<>> /\ Holds(ms[i].content, text))
    <3>1. PICK k \in 1 .. Len(ms[i].parts) :
            ms[i].parts[k].type = "text" /\ Holds(ms[i].parts[k].value, text)
      BY <2>4, <2>6
    <3>2. PICK n \in 1 .. Len(ms[i].parts[k].value) : ms[i].parts[k].value[n] = text
      BY <3>1 DEF Holds
    <3>3. PICK x : Holds(Completions!Items(p, ms[i]), x) /\ Carry(x, ms[i].parts[k].value[n])
      BY <1>5, <2>2, <2>6, <3>1 DEF CHolds
    <3> QED
      BY <1>6, <2>3, <3>2, <3>3
  <2> QED
    BY <2>5, <2>6
<1>9. /\ DOMAIN ms = 1 .. Len(ms)
      /\ \A i \in 1 .. Len(ms) : /\ DOMAIN os[i].blocks = 1 .. Len(os[i].blocks)
                                 /\ DOMAIN ms[i].content = 1 .. Len(ms[i].content)
  <2>1. \A i \in 1 .. Len(ms) : os[i].blocks \in Seq(CBlock) /\ ms[i].content \in Seq(Nat)
    <3>1. \A i \in 1 .. Len(ms) : os[i] \in COrigin /\ ms[i].content \in Str
      BY <1>5, SoundParts DEF CTurn
    <3> QED
      BY <3>1 DEF COrigin, Str
  <2> QED
    BY <1>2, <2>1
<1>10. ASSUME NEW i \in DOMAIN ms, NEW j \in DOMAIN os[i].blocks, os[i].blocks[j].type = "text",
              p = "anthropic" => Len(os[i].blocks) = 1
       PROVE  Completions!Carries(os[i].blocks[j].value[1])
  BY <1>8, <1>9, <1>10
<1>11. ASSUME NEW i \in DOMAIN ms, ms[i].role = "user", p = "anthropic" \/ ms[i].parts = <<>>,
              NEW j \in DOMAIN ms[i].content
       PROVE  Completions!Carries(ms[i].content[j])
  <2>1. i \in 1 .. Len(ms) /\ j \in 1 .. Len(ms[i].content)
    BY <1>9
  <2>2. Holds(ms[i].content, ms[i].content[j])
    BY <2>1 DEF Holds
  <2> QED
    BY <1>7, <1>11, <2>1, <2>2
<1> QED
  BY <1>1, <1>10, <1>11 DEF Completions!TextsCarryOver

-----------------------------------------------------------------------------
(* ALL THREE STREAMS, whichever provider the router handed out.            *)

(* A stream that ends without an error, or with a failed response, has     *)
(* delivered every event that arrived, in order and with its own tool      *)
(* call; Gemini's loses none to a full channel, and Anthropic's Event      *)
(* returns what Next advanced to.                                          *)
THEOREM EveryEventArrives == Spec => []EventsArrive
<1>1. Spec => []Gemini!NoSilentTruncation /\ []Gemini!NothingSkipped
  BY GeminiTruncatesNothing, GeminiSkipsNothing
<1>2. Spec => []OpenAI!FalseAfterAllEvents
  BY OpenAIDelivers
<1>3. AInv => Anthropic!FalseAfterAllEvents /\ Anthropic!EventIsCurrent
  BY AnthropicDelivers
<1>4. /\ Gemini!NoSilentTruncation /\ Gemini!NothingSkipped /\ OpenAI!FalseAfterAllEvents
      /\ Anthropic!FalseAfterAllEvents /\ Anthropic!EventIsCurrent
      => EventsArrive
  BY DEF EventsArrive
<1> QED
  BY <1>1, <1>2, <1>3, <1>4, AnthropicInvariant, PTL

(* Each provider's stream is the same iterator to its caller: events in    *)
(* order and none skipped, an end only after the last, an error only if    *)
(* the provider failed, and nothing after Close.                           *)
THEOREM EveryStreamImplementsContract == Spec => StreamsImplementContract
BY GeminiImplementsContract, OpenAIImplementsContract, AnthropicImplementsContract
   DEF StreamsImplementContract

-----------------------------------------------------------------------------
(* The caller uses one operation, and each part's state keeps its type.    *)
Routes == {"none", "complete", "refused"} \cup Completions!Providers

Routed == route \in Routes

LEMMA RouteInvariant == Spec => []Routed
<1>1. Init => Routed
  BY DEF Init, Routed, Routes
<1>2. ASSUME Routed, [Next]_vars PROVE Routed'
  <2>1. ASSUME NEW model, CompleteStream(model) PROVE route' \in Routes
    <3>1. PICK p : p = Completions!ResolveProviderName(model)
      OBVIOUS
    <3>2. p \in Completions!Providers
      BY <3>1 DEF Completions!ResolveProviderName, Completions!Providers
    <3>3. route' = p \/ route' = "refused"
      BY <2>1, <3>1 DEF CompleteStream
    <3> QED
      BY <3>2, <3>3 DEF Routes
  <2>2. CASE UseComplete
    BY <2>2 DEF UseComplete, Routed, Routes
  <2>3. CASE Leave \/ CompletionStep \/ GeminiStep \/ OpenAIStep \/ AnthropicStep \/ UNCHANGED vars
    <3>1. route' = route
      BY <2>3 DEF Leave, CompletionStep, GeminiStep, OpenAIStep, AnthropicStep, vars
    <3> QED
      BY <1>2, <3>1 DEF Routed
  <2> QED
    BY <1>2, <2>1, <2>2, <2>3 DEF Next, Routed
<1> QED
  BY <1>1, <1>2, PTL DEF Spec

LEMMA CompletionTypes == ASSUME CTalkInv PROVE Completions!TypeOK
<1>1. PICK ms, os, s : ms = cMessages /\ os = cOrigin /\ s = cSent
  OBVIOUS
<1>2. CTalk(ms, os) /\ s \in Seq(CItem)
  BY <1>1 DEF CTalkInv, CRequested
<1>3. Len(cMessages) <= MaxMessages /\ Len(cOrigin) = Len(cMessages)
  BY <1>1, <1>2 DEF CTalkInv, CTalk, CKnown
<1>4. \A i \in DOMAIN cMessages : cMessages[i].role \in {"user", "assistant", "tool"}
  <2>1. ASSUME NEW i \in DOMAIN ms PROVE ms[i].role \in {"user", "assistant", "tool"}
    <3>1. PICK m \in CMessage : m = ms[i]
      BY <1>2, <2>1 DEF CTalk
    <3> QED
      BY <3>1 DEF CMessage
  <2> QED
    BY <1>1, <2>1
<1>5. \A i \in DOMAIN cSent : cSent[i].kind \in {"user", "assistant", "call", "result", "named", "image"}
  <2>1. ASSUME NEW i \in DOMAIN s
        PROVE  s[i].kind \in {"user", "assistant", "call", "result", "named", "image"}
    <3>1. PICK x \in CItem : x = s[i]
      BY <1>2, <2>1
    <3> QED
      BY <3>1 DEF CItem, CKinds
  <2> QED
    BY <1>1, <2>1
<1>6. cAt \in {"idle", "send", "done"}
  BY DEF CTalkInv, CKnown
<1>7. /\ cProviders \subseteq Completions!Providers /\ cProvider \in Completions!Providers
      /\ cOutcome \in COutcomes /\ cRequests \in 0 .. MaxRequests
  BY DEF CTalkInv, CKnown
<1> QED
  BY <1>3, <1>4, <1>5, <1>6, <1>7 DEF Completions!TypeOK, COutcomes

LEMMA OpenAITypes == ASSUME OInv PROVE OpenAI!TypeOK
<1>1. OType
  BY DEF OInv
<1>2. /\ \A i \in DOMAIN oWire : oWire[i] \in OWire
      /\ \A i \in DOMAIN oDelivered : oDelivered[i] \in OEvents
  BY <1>1 DEF OType
<1> QED
  BY <1>1, <1>2 DEF OType, OWire, OEvents, OpenAI!TypeOK

LEMMA AnthropicTypes == ASSUME AInv PROVE Anthropic!TypeOK
<1>1. AType
  BY DEF AInv
<1>2. \A i \in DOMAIN aWire : aWire[i] \in AWire
  BY <1>1 DEF AType
<1>3. Len(aEventQueue) <= 1 /\ aQueueIndex \in 0 .. Len(aEventQueue)
  <2>1. AControl
    BY DEF AInv
  <2>2. CASE aReturned # "true" \/ aPc = "pulling"
    <3>1. aEventQueue = <<>> /\ aQueueIndex = 0
      BY <2>1, <2>2 DEF AControl
    <3> QED
      BY <3>1
  <2>3. CASE ~(aReturned # "true" \/ aPc = "pulling")
    <3>1. aEventQueue = <<aDelivered[Len(aDelivered)]>> /\ aQueueIndex \in {0, 1}
      BY <2>1, <2>3 DEF AControl
    <3> QED
      BY <3>1
  <2> QED
    BY <2>2, <2>3
<1>4. aTools \in Nat /\ aCalls \in {"0", "1", "more"}
  BY <1>1 DEF AType
<1> QED
  BY <1>1, <1>2, <1>3, <1>4 DEF AType, AWire, AEvents, Anthropic!TypeOK

(* The router hands out one of its providers or refuses, the conversation  *)
(* and its requests hold messages and items of the kinds the connectors    *)
(* switch on, each stream's control state, wire and queue are those its    *)
(* Next can meet, and no channel or queue is over its capacity.            *)
THEOREM InferenceTypes == Spec => []TypeOK
<1>1. GInv => Gemini!TypeOK
  BY DEF GInv
<1>2. CTalkInv => Completions!TypeOK
  BY CompletionTypes
<1>3. OInv => OpenAI!TypeOK
  BY OpenAITypes
<1>4. AInv => Anthropic!TypeOK
  BY AnthropicTypes
<1>5. /\ Routed /\ Completions!TypeOK /\ Gemini!TypeOK /\ OpenAI!TypeOK /\ Anthropic!TypeOK
      => TypeOK
  BY DEF TypeOK, Routed, Routes
<1> QED
  BY <1>1, <1>2, <1>3, <1>4, <1>5, RouteInvariant, TalkInvariant, GeminiInvariant,
     OpenAIInvariant, AnthropicInvariant, PTL
=============================================================================
