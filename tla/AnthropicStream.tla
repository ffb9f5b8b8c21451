-------------------------- MODULE AnthropicStream --------------------------
(***************************************************************************)
(* connectors/inference/anthropic.go, CompleteStream: Next pulls events    *)
(* from the SDK's stream until one of them is queued as an event of this   *)
(* stream, and Event takes it off the queue.                               *)
(*                                                                         *)
(* The wire is the service as this code sees it, as in OpenAIStream.  Text *)
(* and arguments are reduced to the number of the event; the finish reason *)
(* and usage that message_delta leaves for the final event are data.       *)
(***************************************************************************)
EXTENDS Integers, Sequences

CONSTANTS
  MaxEvents,     \* bound: events worth emitting, without the final one
  MaxUnread,     \* bound: events that arrived and were not read
  OneEventCall   \* the consumer calls Event once after every Next

NoCall == 0
Event == [n : 1 .. MaxEvents, call : 0 .. MaxEvents]
Done == [n |-> 0, call |-> NoCall]        \* StreamEventType_Done
NoEvent == [n |-> 0, call |-> -1]         \* the zero value

VARIABLES
  wire,         \* SDK events that arrived and were not read
  wireEnd,      \* "open", "eof" or "broken"
  block,        \* the content block that arrives: "none", "text" or "tool"
  tools,        \* number of tool blocks so far
  source,       \* history: the stream's events in the order they arrived
  pc,           \* the consumer: "idle", "pulling" inside Next, "closed"
  eventQueue, queueIndex, currentToolCall,
  returned,     \* what Next returned last: "none", "true" or "false"
  got,          \* what Event returned since then, or NoEvent
  calls,        \* Event calls since then, "0", "1" or "more"
  delivered     \* history: the events Next advanced to

service == <<wire, wireEnd, block, tools, source>>
consumer == <<pc, eventQueue, queueIndex, currentToolCall, returned, got, calls, delivered>>
vars == <<service, consumer>>

Init ==
  /\ wire = <<>> /\ wireEnd = "open" /\ block = "none" /\ tools = 0
  /\ source = <<>>
  /\ pc = "idle" /\ eventQueue = <<>> /\ queueIndex = 0 /\ currentToolCall = NoCall
  /\ returned = "none" /\ got = NoEvent /\ calls = "0"
  /\ delivered = <<>>

-----------------------------------------------------------------------------
Complete == source # <<>> /\ source[Len(source)] = Done
Arrive(kind) ==
  /\ wireEnd = "open" /\ ~Complete /\ Len(wire) < MaxUnread
  /\ wire' = Append(wire, [kind |-> kind, n |-> Len(source) + 1, call |-> tools'])
Worth(call) ==
  /\ Len(source) < MaxEvents
  /\ source' = Append(source, [n |-> Len(source) + 1, call |-> call])

(* content_block_start: of text, or of a tool's input.                     *)
ArriveStart ==
  /\ block = "none"
  /\ \/ /\ block' = "text" /\ tools' = tools /\ Arrive("skip")
        /\ UNCHANGED source
     \/ /\ block' = "tool" /\ tools' = tools + 1 /\ Arrive("start")
        /\ Worth(tools')
  /\ UNCHANGED <<wireEnd, consumer>>

(* content_block_delta: of either, when it is not empty.                   *)
ArriveDelta ==
  /\ block # "none" /\ tools' = tools
  /\ \/ block = "text" /\ Arrive("text") /\ Worth(NoCall)
     \/ block = "tool" /\ Arrive("args") /\ Worth(tools)
     \/ Arrive("skip") /\ UNCHANGED source
  /\ UNCHANGED <<wireEnd, block, consumer>>

ArriveStop ==
  /\ block # "none" /\ block' = "none" /\ tools' = tools
  /\ Arrive("stop")
  /\ UNCHANGED <<wireEnd, source, consumer>>

(* message_stop; message_start, ping and message_delta only delay it.      *)
ArriveDone ==
  /\ block = "none" /\ tools' = tools
  /\ Arrive("done")
  /\ source' = Append(source, Done)
  /\ UNCHANGED <<wireEnd, block, consumer>>

(* The connection ends; an error, or a context that is done, may overtake  *)
(* events that were not read.                                              *)
WireEnds ==
  /\ wireEnd = "open"
  /\ \/ wireEnd' = "eof" /\ UNCHANGED wire
     \/ /\ wireEnd' = "broken"
        /\ \E k \in 0 .. Len(wire) : wire' = SubSeq(wire, 1, k)
  /\ UNCHANGED <<block, tools, source, consumer>>

-----------------------------------------------------------------------------
(* Mutant: the queue keeps what was read from it.                          *)
NextKeepsQueue ==
  /\ pc = "idle" /\ returned # "false" /\ (OneEventCall => calls = "1" \/ returned = "none")
  /\ got' = NoEvent /\ calls' = "0"
  /\ IF queueIndex < Len(eventQueue)
     THEN returned' = "true" /\ UNCHANGED <<pc, eventQueue, queueIndex>>
     ELSE pc' = "pulling" /\ queueIndex' = 0 /\ UNCHANGED <<eventQueue, returned>>
  /\ UNCHANGED <<service, currentToolCall, delivered>>

(* Next returns at once while an event is queued; otherwise it empties the *)
(* queue and pulls.                                                        *)
CallNext ==
  /\ pc = "idle" /\ returned # "false" /\ (OneEventCall => calls = "1" \/ returned = "none")
  /\ got' = NoEvent /\ calls' = "0"
  /\ IF queueIndex < Len(eventQueue)
     THEN returned' = "true" /\ UNCHANGED <<pc, eventQueue, queueIndex>>
     ELSE pc' = "pulling" /\ eventQueue' = <<>> /\ queueIndex' = 0 /\ UNCHANGED returned
  /\ UNCHANGED <<service, currentToolCall, delivered>>

(* Mutant: the start of a tool's block does not change the current call.   *)
CallAfterStale(event) ==
  IF event.kind = "stop" THEN NoCall ELSE currentToolCall

(* The tool call that is current after the event.                          *)
CallAfter(event) ==
  IF event.kind = "start" THEN event.call
  ELSE IF event.kind = "stop" THEN NoCall ELSE currentToolCall

(* Mutant: message_stop ends the stream without an event.                  *)
QueuedWithoutDone(event) ==
  IF event.kind = "text" THEN <<[n |-> event.n, call |-> NoCall]>>
  ELSE IF event.kind \in {"start", "args"}
  THEN <<[n |-> event.n, call |-> CallAfter(event)]>> ELSE <<>>

(* The events of this stream that an SDK event makes.                      *)
Queued(event) ==
  IF event.kind = "text" THEN <<[n |-> event.n, call |-> NoCall]>>
  ELSE IF event.kind \in {"start", "args"}
  THEN <<[n |-> event.n, call |-> CallAfter(event)]>>
  ELSE IF event.kind = "done" THEN <<Done>> ELSE <<>>

(* stream.Next() returned true: Next returns once something is queued.     *)
PullEvent ==
  /\ pc = "pulling" /\ wire # <<>>
  /\ currentToolCall' = CallAfter(Head(wire))
  /\ eventQueue' = eventQueue \o Queued(Head(wire))
  /\ IF eventQueue' = <<>> THEN UNCHANGED <<pc, returned>>
     ELSE pc' = "idle" /\ returned' = "true"
  /\ delivered' = delivered \o Queued(Head(wire))
  /\ wire' = Tail(wire)
  /\ UNCHANGED <<wireEnd, block, tools, source, queueIndex, got, calls>>

(* stream.Next() returned false, and so does Next; Err asks the stream.    *)
PullEnd ==
  /\ pc = "pulling" /\ wire = <<>> /\ wireEnd # "open"
  /\ pc' = "idle" /\ returned' = "false"
  /\ UNCHANGED <<service, eventQueue, queueIndex, currentToolCall, got, calls, delivered>>

(* Event takes the event off the queue.                                    *)
CallEvent ==
  /\ pc = "idle" /\ returned = "true" /\ (OneEventCall => calls = "0")
  /\ calls' = IF calls = "0" THEN "1" ELSE "more"
  /\ IF queueIndex < Len(eventQueue)
     THEN got' = eventQueue[queueIndex + 1] /\ queueIndex' = queueIndex + 1
     ELSE got' = NoEvent /\ UNCHANGED queueIndex
  /\ UNCHANGED <<service, pc, eventQueue, currentToolCall, returned, delivered>>

Close ==
  /\ pc = "idle" /\ pc' = "closed"
  /\ UNCHANGED <<service, eventQueue, queueIndex, currentToolCall, returned, got, calls, delivered>>

Terminated == pc = "closed" /\ UNCHANGED vars

Next ==
  \/ ArriveStart \/ ArriveDelta \/ ArriveStop \/ ArriveDone \/ WireEnds
  \/ CallNext \/ PullEvent \/ PullEnd \/ CallEvent \/ Close
  \/ Terminated

Spec == Init /\ [][Next]_vars

-----------------------------------------------------------------------------
(* The queue never holds more than the one event Next advanced to.         *)
TypeOK ==
  /\ \A i \in DOMAIN wire :
       wire[i] \in [kind : {"start", "text", "args", "stop", "done", "skip"},
                    n : 1 .. MaxEvents + 1, call : 0 .. MaxEvents]
  /\ wireEnd \in {"open", "eof", "broken"}
  /\ block \in {"none", "text", "tool"}
  /\ pc \in {"idle", "pulling", "closed"}
  /\ Len(eventQueue) <= 1 /\ queueIndex \in 0 .. Len(eventQueue)
  /\ currentToolCall \in 0 .. tools
  /\ returned \in {"none", "true", "false"}
  /\ got \in Event \cup {Done, NoEvent} /\ calls \in {"0", "1", "more"}

(* "Event returns the current stream event": whenever it is called after   *)
(* Next returned true, it is the event that Next advanced to.              *)
EventIsCurrent == calls # "0" => got = delivered[Len(delivered)]

(* A tool's events name its call and no others do, and every event that    *)
(* arrived was delivered when Next returns false, unless the connection    *)
(* broke.                                                                  *)
FalseAfterAllEvents == returned = "false" /\ wireEnd = "eof" => delivered = source

(* Anthropic's stream is a CompletionStream, for a consumer that calls     *)
(* Event once after every Next.                                            *)
verdict == IF wireEnd = "broken" THEN "error" ELSE IF wireEnd = "eof" THEN "end" ELSE "open"
outcome ==
  IF pc = "closed" THEN "closed"
  ELSE IF returned # "false" THEN "open" ELSE IF wireEnd = "eof" THEN "end" ELSE "error"
Contract == INSTANCE CompletionStream WITH MaxParts <- 1
ImplementsContract == Contract!Spec
=============================================================================
