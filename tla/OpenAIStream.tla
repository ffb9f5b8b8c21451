---------------------------- MODULE OpenAIStream ----------------------------
(***************************************************************************)
(* connectors/inference/openai.go, CompleteStream: Next pulls server-sent  *)
(* events from the SDK's stream until one is worth an event of its own, a  *)
(* final one, a failure, or the end of the stream.                         *)
(*                                                                         *)
(* The wire is the service as this code sees it: events arrive while       *)
(* nobody reads, and the connection ends cleanly or with an error, at any  *)
(* moment.  Text and arguments are reduced to the number of the event.     *)
(***************************************************************************)
EXTENDS Integers, Sequences

CONSTANTS
  MaxEvents,     \* bound: events worth emitting, without the final one
  MaxUnread,     \* bound: events that arrived and were not read
  Failure, Broken, NoErr   \* response.failed, a transport error, nil

NoCall == 0
Event == [n : 1 .. MaxEvents, call : 0 .. MaxEvents]
Done == [n |-> 0, call |-> NoCall]        \* StreamEventType_Done
NoEvent == [n |-> 0, call |-> -1]         \* the zero value

VARIABLES
  wire,         \* SDK events that arrived and were not read
  wireEnd,      \* "open", "eof" or "broken"
  final,        \* what ended the response: "none", "done" or "failed"
  calling,      \* the function call whose arguments are arriving
  source,       \* history: the stream's events in the order they arrived
  pc,           \* the consumer: "idle", "pulling" inside Next, "closed"
  currentEvent, currentToolCall, streamErr, done,
  delivered     \* history: the events Next returned true for

service == <<wire, wireEnd, final, calling, source>>
consumer == <<pc, currentEvent, currentToolCall, streamErr, done, delivered>>
vars == <<service, consumer>>

Init ==
  /\ wire = <<>> /\ wireEnd = "open" /\ final = "none" /\ calling = NoCall
  /\ source = <<>>
  /\ pc = "idle" /\ currentEvent = NoEvent /\ currentToolCall = NoCall
  /\ streamErr = NoErr /\ done = FALSE
  /\ delivered = <<>>

-----------------------------------------------------------------------------
Arrive(event) == Len(wire) < MaxUnread /\ wire' = Append(wire, event)
Arriving == wireEnd = "open" /\ final = "none"

(* Text, the start of a function call, or a piece of the arguments of the  *)
(* one that started last.                                                  *)
ArriveEvent ==
  /\ Arriving /\ Len(source) < MaxEvents
  /\ \E kind \in {"text", "call", "args"} :
       /\ kind = "args" => calling # NoCall
       /\ calling' = IF kind = "call" THEN calling + 1 ELSE calling
       /\ Arrive([kind |-> kind, n |-> Len(source) + 1, call |-> calling'])
       /\ source' = Append(source, [n |-> Len(source) + 1,
                                    call |-> IF kind = "text" THEN NoCall ELSE calling'])
  /\ UNCHANGED <<wireEnd, final, consumer>>

(* An event the stream has no use for.                                     *)
ArriveOther ==
  /\ Arriving
  /\ Arrive([kind |-> "other", n |-> 0, call |-> NoCall])
  /\ UNCHANGED <<wireEnd, final, calling, source, consumer>>

(* response.completed or response.incomplete; response.failed.             *)
ArriveFinal ==
  /\ Arriving
  /\ \E kind \in {"done", "failed"} :
       /\ Arrive([kind |-> kind, n |-> 0, call |-> NoCall])
       /\ final' = kind
       /\ source' = IF kind = "done" THEN Append(source, Done) ELSE source
  /\ UNCHANGED <<wireEnd, calling, consumer>>

(* The connection ends; an error, or a context that is done, may overtake  *)
(* events that were not read.                                              *)
WireEnds ==
  /\ wireEnd = "open"
  /\ \/ wireEnd' = "eof" /\ UNCHANGED wire
     \/ /\ wireEnd' = "broken"
        /\ \E k \in 0 .. Len(wire) : wire' = SubSeq(wire, 1, k)
  /\ UNCHANGED <<final, calling, source, consumer>>

-----------------------------------------------------------------------------
CallNext ==
  /\ pc = "idle" /\ ~done
  /\ pc' = "pulling"
  /\ UNCHANGED <<service, currentEvent, currentToolCall, streamErr, done, delivered>>

Emit(event) ==
  /\ currentEvent' = event
  /\ delivered' = Append(delivered, event)
  /\ pc' = "idle"

(* Mutant: the arguments of a function call fall to the default case.      *)
PullWithoutArguments ==
  /\ pc = "pulling" /\ wire # <<>>
  /\ LET event == Head(wire)
     IN IF event.kind = "args"
        THEN UNCHANGED consumer
        ELSE IF event.kind = "failed"
        THEN /\ streamErr' = Failure /\ done' = TRUE /\ pc' = "idle"
             /\ UNCHANGED <<currentEvent, currentToolCall, delivered>>
        ELSE IF event.kind = "other" THEN UNCHANGED consumer
        ELSE /\ currentToolCall' = IF event.kind = "call" THEN event.call ELSE currentToolCall
             /\ Emit(IF event.kind = "done" THEN Done ELSE [n |-> event.n, call |-> event.call])
             /\ UNCHANGED <<streamErr, done>>
  /\ wire' = Tail(wire)
  /\ UNCHANGED <<wireEnd, final, calling, source>>

(* stream.Next() returned true: the switch on the type of the event.       *)
PullEvent ==
  /\ pc = "pulling" /\ wire # <<>>
  /\ LET event == Head(wire)
     IN \/ /\ event.kind \in {"text", "call", "args"}
           /\ currentToolCall' = IF event.kind = "call" THEN event.call ELSE currentToolCall
           /\ Emit([n |-> event.n,
                    call |-> IF event.kind = "text" THEN NoCall ELSE currentToolCall'])
           /\ UNCHANGED <<streamErr, done>>
        \/ /\ event.kind = "done"
           /\ Emit(Done)
           /\ UNCHANGED <<currentToolCall, streamErr, done>>
        \/ /\ event.kind = "failed"
           /\ streamErr' = Failure /\ done' = TRUE /\ pc' = "idle"
           /\ UNCHANGED <<currentEvent, currentToolCall, delivered>>
        \/ /\ event.kind = "other"
           /\ UNCHANGED consumer
  /\ wire' = Tail(wire)
  /\ UNCHANGED <<wireEnd, final, calling, source>>

(* Mutant: the stream's own error is not looked at.                        *)
PullEndSilently ==
  /\ pc = "pulling" /\ wire = <<>> /\ wireEnd # "open"
  /\ done' = TRUE /\ pc' = "idle"
  /\ UNCHANGED <<service, currentEvent, currentToolCall, streamErr, delivered>>

(* stream.Next() returned false: no more events, or an error.              *)
PullEnd ==
  /\ pc = "pulling" /\ wire = <<>> /\ wireEnd # "open"
  /\ streamErr' = IF wireEnd = "broken" THEN Broken ELSE NoErr
  /\ done' = TRUE /\ pc' = "idle"
  /\ UNCHANGED <<service, currentEvent, currentToolCall, delivered>>

Close ==
  /\ pc = "idle" /\ pc' = "closed"
  /\ UNCHANGED <<service, currentEvent, currentToolCall, streamErr, done, delivered>>

Terminated == pc = "closed" /\ UNCHANGED vars

Next ==
  \/ ArriveEvent \/ ArriveOther \/ ArriveFinal \/ WireEnds
  \/ CallNext \/ PullEvent \/ PullEnd \/ Close
  \/ Terminated

Spec == Init /\ [][Next]_vars

-----------------------------------------------------------------------------
TypeOK ==
  /\ \A i \in DOMAIN wire :
       wire[i] \in [kind : {"text", "call", "args", "done", "failed", "other"},
                    n : 0 .. MaxEvents, call : 0 .. MaxEvents]
  /\ wireEnd \in {"open", "eof", "broken"}
  /\ final \in {"none", "done", "failed"}
  /\ calling \in 0 .. MaxEvents /\ currentToolCall \in 0 .. calling
  /\ pc \in {"idle", "pulling", "closed"}
  /\ currentEvent \in Event \cup {Done, NoEvent}
  /\ streamErr \in {Failure, Broken, NoErr} /\ done \in BOOLEAN
  /\ \A i \in DOMAIN delivered : delivered[i] \in Event \cup {Done}

(* Unless the connection broke, Next returns false only after it delivered *)
(* every event that arrived, also when it reports a failed response, and a *)
(* tool call's deltas name the call they belong to.                        *)
FalseAfterAllEvents == done /\ streamErr # Broken => delivered = source

(* OpenAI's stream is a CompletionStream, for a consumer that stops when   *)
(* Next returns false.                                                     *)
verdict ==
  IF final = "failed" \/ wireEnd = "broken" THEN "error"
  ELSE IF wireEnd = "eof" THEN "end" ELSE "open"
outcome ==
  IF pc = "closed" THEN "closed"
  ELSE IF ~done THEN "open" ELSE IF streamErr = NoErr THEN "end" ELSE "error"
Contract == INSTANCE CompletionStream WITH MaxParts <- 1
ImplementsContract == Contract!Spec
=============================================================================
