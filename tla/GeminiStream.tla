---------------------------- MODULE GeminiStream ----------------------------
(***************************************************************************)
(* connectors/inference/gemini.go, CompleteStream: a goroutine forwards    *)
(* the events of the provider's responses through a buffered channel, and  *)
(* an error through another; Next selects from both, Close drains the      *)
(* first until the goroutine closes it.                                    *)
(*                                                                         *)
(* The events of a stream are numbered in the order they arrive.           *)
(***************************************************************************)
EXTENDS Integers, Sequences

CONSTANTS
  Cap,          \* capacity of eventCh
  MaxEvents,    \* bound: events of a stream, without the final one
  MaxParts,     \* bound: parts of one response
  Err, NoErr    \* the iteration error, and nil

Done == 0       \* StreamEventType_Done
NoEvent == -1   \* the zero value, before the first Next
Event == 1 .. MaxEvents

VARIABLES
  producer,     \* where the goroutine is
  pending,      \* events of the current response still to be sent
  produced,     \* number of events of the responses so far
  verdict,      \* how the responses ended: "open", "end" or "error"
  eventCh, errCh, closed,
  consumer,     \* "running", "draining" inside Close, "closed" after it
  currentEvent, streamErr, done,
  delivered     \* history: the events Next returned true for

producerVars == <<producer, pending, produced, verdict>>
consumerVars == <<consumer, currentEvent, streamErr, done, delivered>>
vars == <<producerVars, eventCh, errCh, closed, consumerVars>>

Init ==
  /\ producer = "iterate" /\ pending = <<>> /\ produced = 0 /\ verdict = "open"
  /\ eventCh = <<>> /\ errCh = <<>> /\ closed = FALSE
  /\ consumer = "running" /\ currentEvent = NoEvent /\ streamErr = NoErr /\ done = FALSE
  /\ delivered = <<>>

-----------------------------------------------------------------------------
(* The next response: one event per text or function call part; none when  *)
(* there is no candidate or no content.                                    *)
Respond ==
  /\ producer = "iterate"
  /\ \E n \in 0 .. MaxParts :
       /\ produced + n <= MaxEvents
       /\ pending' = [i \in 1 .. n |-> produced + i]
       /\ produced' = produced + n
       /\ producer' = IF n = 0 THEN "iterate" ELSE "send"
  /\ UNCHANGED <<verdict, eventCh, errCh, closed, consumerVars>>

(* Mutants: the channel has no capacity limit; a full channel loses events. *)
SendUnbounded ==
  /\ producer = "send"
  /\ eventCh' = Append(eventCh, Head(pending))
  /\ pending' = Tail(pending)
  /\ producer' = IF Tail(pending) = <<>> THEN "iterate" ELSE "send"
  /\ UNCHANGED <<produced, verdict, errCh, closed, consumerVars>>
SendOrDrop ==
  /\ producer = "send"
  /\ eventCh' = IF Len(eventCh) < Cap THEN Append(eventCh, Head(pending)) ELSE eventCh
  /\ pending' = Tail(pending)
  /\ producer' = IF Tail(pending) = <<>> THEN "iterate" ELSE "send"
  /\ UNCHANGED <<produced, verdict, errCh, closed, consumerVars>>

(* eventCh <- event blocks while the channel is full.                      *)
SendEvent ==
  /\ producer = "send" /\ Len(eventCh) < Cap
  /\ eventCh' = Append(eventCh, Head(pending))
  /\ pending' = Tail(pending)
  /\ producer' = IF Tail(pending) = <<>> THEN "iterate" ELSE "send"
  /\ UNCHANGED <<produced, verdict, errCh, closed, consumerVars>>

(* The iteration yields an error: it goes to errCh and the goroutine ends. *)
IterError ==
  /\ producer = "iterate" /\ Len(errCh) < 1
  /\ errCh' = Append(errCh, Err)
  /\ verdict' = "error" /\ producer' = "return"
  /\ UNCHANGED <<pending, produced, eventCh, closed, consumerVars>>

IterEnd ==
  /\ producer = "iterate"
  /\ verdict' = "end" /\ producer' = "finish"
  /\ UNCHANGED <<pending, produced, eventCh, errCh, closed, consumerVars>>

SendDone ==
  /\ producer = "finish" /\ Len(eventCh) < Cap
  /\ eventCh' = Append(eventCh, Done)
  /\ producer' = "return"
  /\ UNCHANGED <<pending, produced, verdict, errCh, closed, consumerVars>>

(* Mutant: the goroutine ends without closing the channel.                 *)
LeaveOpen ==
  /\ producer = "return"
  /\ producer' = "stopped"
  /\ UNCHANGED <<pending, produced, verdict, eventCh, errCh, closed, consumerVars>>

(* defer close(eventCh)                                                    *)
CloseChannel ==
  /\ producer = "return"
  /\ closed' = TRUE /\ producer' = "stopped"
  /\ UNCHANGED <<pending, produced, verdict, eventCh, errCh, consumerVars>>

-----------------------------------------------------------------------------
(* Mutant: Next has no done flag to look at.                               *)
AlwaysMayCall == consumer = "running"

(* The iterator is in use, and Next has not returned false before.         *)
MayCallNext == consumer = "running" /\ ~done

(* Next: select takes the event channel ...                                *)
NextEvent ==
  /\ MayCallNext /\ eventCh # <<>>
  /\ currentEvent' = Head(eventCh)
  /\ eventCh' = Tail(eventCh)
  /\ delivered' = Append(delivered, Head(eventCh))
  /\ UNCHANGED <<producerVars, errCh, closed, consumer, streamErr, done>>

(* Mutant: the closed channel ends the stream whatever errCh holds.        *)
ClosedWithoutError ==
  /\ MayCallNext /\ closed /\ eventCh = <<>>
  /\ done' = TRUE
  /\ UNCHANGED <<producerVars, eventCh, errCh, closed, consumer, currentEvent, streamErr, delivered>>

(* ... or finds it closed and empty, and looks for an error ...            *)
NextClosed ==
  /\ MayCallNext /\ closed /\ eventCh = <<>>
  /\ done' = TRUE
  /\ \/ /\ errCh # <<>>
        /\ streamErr' = Head(errCh) /\ errCh' = Tail(errCh)
     \/ /\ errCh = <<>>
        /\ UNCHANGED <<streamErr, errCh>>
  /\ UNCHANGED <<producerVars, eventCh, closed, consumer, currentEvent, delivered>>

(* ... or takes the error, even when events are still buffered.            *)
NextError ==
  /\ MayCallNext /\ errCh # <<>>
  /\ streamErr' = Head(errCh) /\ errCh' = Tail(errCh)
  /\ done' = TRUE
  /\ UNCHANGED <<producerVars, eventCh, closed, consumer, currentEvent, delivered>>

Close ==
  /\ consumer = "running"
  /\ consumer' = "draining"
  /\ UNCHANGED <<producerVars, eventCh, errCh, closed, currentEvent, streamErr, done, delivered>>

(* Mutant: Close returns without draining the channel.                     *)
CloseAtOnce ==
  /\ consumer = "draining" /\ consumer' = "closed"
  /\ UNCHANGED <<producerVars, eventCh, errCh, closed, currentEvent, streamErr, done, delivered>>

(* for range eventCh: until it is closed and empty.                        *)
Drain ==
  /\ consumer = "draining"
  /\ \/ /\ eventCh # <<>>
        /\ eventCh' = Tail(eventCh)
        /\ UNCHANGED consumer
     \/ /\ eventCh = <<>> /\ closed
        /\ consumer' = "closed"
        /\ UNCHANGED eventCh
  /\ UNCHANGED <<producerVars, errCh, closed, currentEvent, streamErr, done, delivered>>

(* Close has returned and the goroutine is gone.                           *)
Terminated == consumer = "closed" /\ producer = "stopped" /\ UNCHANGED vars

Next ==
  \/ Respond \/ SendEvent \/ IterError \/ IterEnd \/ SendDone \/ CloseChannel
  \/ NextEvent \/ NextClosed \/ NextError \/ Close \/ Drain
  \/ Terminated

Spec == Init /\ [][Next]_vars

(* The goroutine runs, the provider's response ends or fails some day, and *)
(* a Close that was called keeps draining.  Nobody has to call Next or     *)
(* Close.                                                                  *)
FairSpec ==
  /\ Spec
  /\ WF_vars(SendEvent \/ SendDone \/ CloseChannel)
  /\ WF_vars(IterError \/ IterEnd)
  /\ WF_vars(Drain)

-----------------------------------------------------------------------------
TypeOK ==
  /\ producer \in {"iterate", "send", "finish", "return", "stopped"}
  /\ pending \in Seq(Event)
  /\ produced \in 0 .. MaxEvents
  /\ verdict \in {"open", "end", "error"}
  /\ eventCh \in Seq(Event \cup {Done}) /\ Len(eventCh) <= Cap
  /\ errCh \in {<<>>, <<Err>>}
  /\ closed \in BOOLEAN
  /\ consumer \in {"running", "draining", "closed"}
  /\ currentEvent \in Event \cup {Done, NoEvent}
  /\ streamErr \in {Err, NoErr}
  /\ done \in BOOLEAN
  /\ delivered \in Seq(Event \cup {Done})

source ==
  [i \in 1 .. produced |-> i] \o (IF verdict = "end" THEN <<Done>> ELSE <<>>)

(* An iteration that ends without an error has seen every event of the     *)
(* provider, the final one included; a provider error is never lost, also  *)
(* when the channel is found closed before the error is taken.             *)
NoSilentTruncation ==
  done /\ streamErr = NoErr => verdict = "end" /\ delivered = source

(* Events that Next never delivers are lost only to an error.              *)
NothingSkipped ==
  consumer = "running" /\ verdict # "error" =>
    delivered \o eventCh \o pending = [i \in 1 .. produced |-> i]
      \o (IF verdict = "end" /\ producer # "finish" THEN <<Done>> ELSE <<>>)

(* Gemini's stream is a CompletionStream.                                  *)
outcome ==
  IF consumer # "running" THEN "closed"
  ELSE IF ~done THEN "open" ELSE IF streamErr = NoErr THEN "end" ELSE "error"
Contract == INSTANCE CompletionStream
ImplementsContract == Contract!Spec

(* After Close is called, or Next has returned false, the goroutine ends.  *)
ProducerStops == consumer # "running" \/ done ~> producer = "stopped"

(* Close returns.                                                          *)
CloseReturns == consumer = "draining" ~> consumer = "closed"
=============================================================================
