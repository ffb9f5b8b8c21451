------------------------------ MODULE Inference ------------------------------
(***************************************************************************)
(* connectors/inference as its callers see it: the router, whose Complete  *)
(* is the module Completion and whose CompleteStream hands the caller the  *)
(* stream of the provider that the model's name asks for.  A behaviour is  *)
(* that of one caller, which converses or reads one stream.                *)
(***************************************************************************)
EXTENDS Integers, Sequences

CONSTANTS
  Availables, Models, Replies, MaxMessages, MaxRequests,   \* Completion
  Cap, MaxParts, Err,                                      \* GeminiStream
  Failure, Broken,                                         \* OpenAIStream
  MaxUnread,                                               \* both wires
  MaxEvents, NoErr                                         \* every stream

ASSUME InferenceAssumption ==
  /\ Cap \in Nat \ {0} /\ MaxParts \in Nat /\ MaxEvents \in Nat /\ MaxUnread \in Nat \ {0}
  /\ Err # NoErr /\ Failure # NoErr /\ Broken # NoErr

VARIABLES
  route,    \* "none", "complete", "refused", or the provider of the stream
  (* Completion *)
  cProviders, cMessages, cOrigin, cProvider, cAt, cSent, cOutcome, cRequests,
  (* GeminiStream *)
  gProducer, gPending, gProduced, gVerdict, gEventCh, gErrCh, gClosed,
  gConsumer, gCurrentEvent, gStreamErr, gDone, gDelivered,
  (* OpenAIStream *)
  oWire, oWireEnd, oFinal, oCalling, oSource, oPc, oCurrentEvent,
  oCurrentToolCall, oStreamErr, oDone, oDelivered,
  (* AnthropicStream *)
  aWire, aWireEnd, aBlock, aTools, aSource, aPc, aEventQueue, aQueueIndex,
  aCurrentToolCall, aReturned, aGot, aCalls, aDelivered

completionVars == <<
    cProviders, cMessages, cOrigin, cProvider, cAt, cSent, cOutcome, cRequests>>
geminiVars == <<
    gProducer, gPending, gProduced, gVerdict, gEventCh, gErrCh, gClosed,
    gConsumer, gCurrentEvent, gStreamErr, gDone, gDelivered>>
openAIVars == <<
    oWire, oWireEnd, oFinal, oCalling, oSource, oPc, oCurrentEvent,
    oCurrentToolCall, oStreamErr, oDone, oDelivered>>
anthropicVars == <<
    aWire, aWireEnd, aBlock, aTools, aSource, aPc, aEventQueue, aQueueIndex,
    aCurrentToolCall, aReturned, aGot, aCalls, aDelivered>>
vars == <<route, completionVars, geminiVars, openAIVars, anthropicVars>>

Completions == INSTANCE Completion WITH
  providers <- cProviders, messages <- cMessages, origin <- cOrigin,
  provider <- cProvider, at <- cAt, sent <- cSent, outcome <- cOutcome,
  requests <- cRequests
ASSUME ConversationAssumption == Completions!CompletionAssumption

Gemini == INSTANCE GeminiStream WITH
  producer <- gProducer, pending <- gPending, produced <- gProduced,
  verdict <- gVerdict, eventCh <- gEventCh, errCh <- gErrCh,
  closed <- gClosed, consumer <- gConsumer, currentEvent <- gCurrentEvent,
  streamErr <- gStreamErr, done <- gDone, delivered <- gDelivered
OpenAI == INSTANCE OpenAIStream WITH
  wire <- oWire, wireEnd <- oWireEnd, final <- oFinal, calling <- oCalling,
  source <- oSource, pc <- oPc, currentEvent <- oCurrentEvent,
  currentToolCall <- oCurrentToolCall, streamErr <- oStreamErr,
  done <- oDone, delivered <- oDelivered
Anthropic == INSTANCE AnthropicStream WITH
  wire <- aWire, wireEnd <- aWireEnd, block <- aBlock, tools <- aTools,
  source <- aSource, pc <- aPc, eventQueue <- aEventQueue,
  queueIndex <- aQueueIndex, currentToolCall <- aCurrentToolCall,
  returned <- aReturned, got <- aGot, calls <- aCalls,
  delivered <- aDelivered, OneEventCall <- TRUE

-----------------------------------------------------------------------------
Init ==
  /\ route = "none"
  /\ Completions!Init /\ Gemini!Init /\ OpenAI!Init /\ Anthropic!Init

(* The caller's choice between the two operations.                         *)
UseComplete ==
  /\ route = "none" /\ route' = "complete"
  /\ UNCHANGED <<completionVars, geminiVars, openAIVars, anthropicVars>>

CompleteStream(model) ==
  /\ route = "none"
  /\ LET p == Completions!ResolveProviderName(model) IN
       route' = IF p \in cProviders THEN p ELSE "refused"
  /\ UNCHANGED <<completionVars, geminiVars, openAIVars, anthropicVars>>

(* The caller may leave its conversation at any turn.                      *)
Leave == (route = "refused" \/ (route = "complete" /\ cAt = "idle")) /\ UNCHANGED vars

CompletionStep ==
  /\ route = "complete" /\ Completions!Next
  /\ UNCHANGED <<route, geminiVars, openAIVars, anthropicVars>>
GeminiStep ==
  /\ route = "google" /\ Gemini!Next
  /\ UNCHANGED <<route, completionVars, openAIVars, anthropicVars>>
OpenAIStep ==
  /\ route = "openai" /\ OpenAI!Next
  /\ UNCHANGED <<route, completionVars, geminiVars, anthropicVars>>
AnthropicStep ==
  /\ route = "anthropic" /\ Anthropic!Next
  /\ UNCHANGED <<route, completionVars, geminiVars, openAIVars>>

Next ==
  \/ UseComplete \/ Leave
  \/ \E model \in Models : CompleteStream(model)
  \/ CompletionStep \/ GeminiStep \/ OpenAIStep \/ AnthropicStep

(* The fairness of GeminiStream's FairSpec, once its stream is in use.     *)
Spec ==
  /\ Init /\ [][Next]_vars
  /\ WF_geminiVars(route = "google" /\ (Gemini!SendEvent \/ Gemini!SendDone \/ Gemini!CloseChannel))
  /\ WF_geminiVars(route = "google" /\ (Gemini!IterError \/ Gemini!IterEnd))
  /\ WF_geminiVars(route = "google" /\ Gemini!Drain)

-----------------------------------------------------------------------------
TypeOK ==
  /\ route \in {"none", "complete", "refused"} \cup Completions!Providers
  /\ Completions!TypeOK /\ Gemini!TypeOK /\ OpenAI!TypeOK /\ Anthropic!TypeOK

(* The conversation, whichever provider makes and gets its turns: the       *)
(* properties of Completion.                                               *)
CallsAreAnswered == Completions!CallsAreAnswered
TextsCarryOver == Completions!TextsCarryOver
IdsTellCallsApart == Completions!IdsTellCallsApart

(* A stream that ends without an error, or with a failed response, has     *)
(* delivered every event that arrived, tool calls with their own           *)
(* arguments; Gemini's loses none to a full channel, and Anthropic's Event *)
(* returns what Next advanced to.                                          *)
EventsArrive ==
  /\ Gemini!NoSilentTruncation /\ Gemini!NothingSkipped
  /\ OpenAI!FalseAfterAllEvents
  /\ Anthropic!FalseAfterAllEvents /\ Anthropic!EventIsCurrent

(* Gemini's goroutine ends after Close was called or Next returned false,  *)
(* and Close, which waits for it, returns.                                 *)
GoroutineEnds == Gemini!ProducerStops /\ Gemini!CloseReturns

(* The three streams are one iterator to their caller.                     *)
StreamsImplementContract ==
  Gemini!ImplementsContract /\ OpenAI!ImplementsContract /\ Anthropic!ImplementsContract
=============================================================================
