------------------------------ MODULE Completion ------------------------------
(***************************************************************************)
(* connectors/inference, Complete: a conversation whose turns the router   *)
(* sends to one provider or another.  Every request is rebuilt from the    *)
(* schema's messages, and every response is mapped back to one, by each    *)
(* provider in its own way.  A call of Complete asks the provider once: no *)
(* error of its client has a status that the connectors can see, so that   *)
(* none is worth another attempt.  The client may send the request again   *)
(* by itself; it is the same request, and the provider keeps nothing.      *)
(*                                                                         *)
(* A text, an id and a name are numbers and a string a sequence of them,   *)
(* so that "" is <<>> and a concatenation says what it holds.  A tool call *)
(* is its id and the function's name.  What a provider is sent is a        *)
(* sequence of items; the turn they are grouped in, parameters, arguments, *)
(* tools' schemas and usage are data.                                      *)
(***************************************************************************)
EXTENDS Integers, Sequences, SequencesExt

CONSTANTS
  Availables,   \* sets of providers that the router may have been made with
  Models,       \* the lower-cased prefix of a model name
  Replies,      \* a provider's response: 0 for a text, or the function it calls
  MaxMessages,  \* bound: messages of the conversation
  MaxRequests   \* bound: calls of Complete

Providers == {"anthropic", "openai", "google"}

CompletionAssumption ==
  /\ Availables \subseteq SUBSET Providers /\ \A r \in Replies : r \in Seq(Nat)
  /\ MaxMessages \in Nat /\ MaxRequests \in Nat

VARIABLES
  providers,    \* the providers whose connector could be made
  messages,     \* [role, content, parts]: the schema's messages, kept by the caller
  origin,       \* history: per message, [by, blocks]: whose response it was
  provider,     \* of the running call of Complete
  at,           \* "idle", "send", "done"
  sent,         \* items of the request
  outcome,      \* "none", "ok", or how Complete failed
  requests

conversation == <<messages, origin>>
vars == <<providers, conversation, provider, at, sent, outcome, requests>>

Part(type, value) == [type |-> type, value |-> value]
Block(type, value) == [type |-> type, value |-> value]
Item(kind, value) == [kind |-> kind, value |-> value]
Call(id, name) == [id |-> id, name |-> name]
Message(role, content, parts) == [role |-> role, content |-> content, parts |-> parts]

OfType(parts, types) ==
  FlattenSeq([i \in DOMAIN parts |-> IF parts[i].type \in types THEN <<parts[i]>> ELSE <<>>])
Values(parts) == [i \in DOMAIN parts |-> parts[i].value]
Each(kind, values) == [i \in DOMAIN values |-> Item(kind, values[i])]
Text(kind, content) == IF content = <<>> THEN <<>> ELSE <<Item(kind, content)>>

-----------------------------------------------------------------------------
(* buildAnthropicParams: the parts of a user's message and then its        *)
(* Content; the results of a tool's; the Content and the calls of an       *)
(* assistant's, whose text parts are not looked at.                        *)
AnthropicUserItem(p) ==
  CASE p.type = "text" -> Item("user", p.value)
    [] p.type = "tool_result" -> Item("result", p.value)
    [] p.type = "image" -> Item("image", p.value)

(* Mutant: a message of the tool role is not sent.                         *)
AnthropicNoTools(m) ==
  CASE m.role = "user" -> [i \in DOMAIN m.parts |-> AnthropicUserItem(m.parts[i])] \o Text("user", m.content)
    [] m.role = "tool" -> <<>>
    [] m.role = "assistant" ->
         Text("assistant", m.content) \o Each("call", Values(OfType(m.parts, {"tool_call"})))

AnthropicItems(m) ==
  CASE m.role = "user" ->
         [i \in DOMAIN m.parts |-> AnthropicUserItem(m.parts[i])] \o Text("user", m.content)
    [] m.role = "tool" -> Each("result", Values(OfType(m.parts, {"tool_result"})))
    [] m.role = "assistant" ->
         Text("assistant", m.content) \o Each("call", Values(OfType(m.parts, {"tool_call"})))

(* Mutant: the Content stands for the text also when there are parts.      *)
ContentAlone(m) == m.content

(* extractTextContent: the text parts, or Content when there are no parts. *)
ExtractText(m) ==
  IF m.parts = <<>> THEN m.content ELSE FlattenSeq(Values(OfType(m.parts, {"text"})))

(* buildResponsesParams: a text, also an empty one; one item per call; the *)
(* first result of a tool's message.                                       *)
OpenAIItems(m) ==
  CASE m.role = "user" -> <<Item("user", ExtractText(m))>>
    [] m.role = "tool" -> <<Item("result", m.parts[1].value)>>
    [] m.role = "assistant" ->
         LET calls == OfType(m.parts, {"tool_call"}) IN
         IF calls = <<>> THEN <<Item("assistant", ExtractText(m))>>
         ELSE Text("assistant", ExtractText(m)) \o Each("call", Values(calls))

(* ... and no result to send is an error.                                  *)
OpenAIRefuses(m) == m.role = "tool" /\ (m.parts = <<>> \/ m.parts[1].type # "tool_result")

(* convertMessageParts and convertToolMessageParts: the id of its call is  *)
(* the name a result goes by.                                              *)
GeminiItem(kind, p) ==
  IF p.type = "text" THEN Item(kind, p.value) ELSE Item("call", p.value)

GeminiItems(m) ==
  LET known == OfType(m.parts, {"text", "tool_call"})
      results == OfType(m.parts, {"tool_result"})
  IN IF m.role = "tool"
     THEN IF results = <<>> THEN Text("user", m.content) ELSE Each("named", Values(results))
     ELSE IF m.parts = <<>> THEN <<Item(m.role, m.content)>>
     ELSE IF known = <<>> THEN <<Item(m.role, <<>>)>>
     ELSE [i \in DOMAIN known |-> GeminiItem(m.role, known[i])]

Items(p, m) ==
  CASE p = "anthropic" -> AnthropicItems(m)
    [] p = "openai" -> OpenAIItems(m)
    [] p = "google" -> GeminiItems(m)

Refuses(p) == p = "openai" /\ \E i \in DOMAIN messages : OpenAIRefuses(messages[i])

-----------------------------------------------------------------------------
(* The three mappings of a response's blocks to the assistant's message.   *)
MapBlocks(blocks) ==
  [i \in DOMAIN blocks |->
     IF blocks[i].type = "text" THEN Part("text", blocks[i].value)
     ELSE Part("tool_call", blocks[i].value)]

MapAnthropic(blocks) ==
  LET texts == OfType(blocks, {"text"})
      calls == OfType(blocks, {"call"})
  IN Message("assistant", IF calls = <<>> /\ texts # <<>> THEN Last(texts).value ELSE <<>>,
             MapBlocks(blocks))

MapOpenAI(blocks) ==
  LET text == FlattenSeq(Values(OfType(blocks, {"text"})))
      calls == OfType(blocks, {"call"})
  IN IF calls = <<>> THEN Message("assistant", text, <<>>)
     ELSE Message("assistant", <<>>,
            (IF text = <<>> THEN <<>> ELSE <<Part("text", text)>>) \o MapBlocks(calls))

(* Mutant: the id is made of the name also when there is one.              *)
IdOfName(call) == Call(<<0>> \o call.name, call.name)

(* A call without an id gets one that is made of the function's name.      *)
WithId(call) == IF call.id = <<>> THEN Call(<<0>> \o call.name, call.name) ELSE call
MapGeminiBlocks(blocks) ==
  [i \in DOMAIN blocks |->
     IF blocks[i].type = "text" THEN Part("text", blocks[i].value)
     ELSE Part("tool_call", WithId(blocks[i].value))]

MapGemini(blocks) ==
  LET texts == OfType(blocks, {"text"})
  IN Message("assistant", IF texts = <<>> THEN <<>> ELSE texts[1].value, MapGeminiBlocks(blocks))

MapResponse(p, blocks) ==
  CASE p = "anthropic" -> MapAnthropic(blocks)
    [] p = "openai" -> MapOpenAI(blocks)
    [] p = "google" -> MapGemini(blocks)

-----------------------------------------------------------------------------
(* resolveProviderName.                                                    *)
ResolveProviderName(model) ==
  CASE model \in {"claude", "sonnet", "haiku"} -> "anthropic"
    [] model \in {"gpt-", "o1", "o3", "o4"} -> "openai"
    [] model = "gemini" -> "google"
    [] OTHER -> "openai"

Init ==
  /\ providers \in Availables
  /\ messages = <<>> /\ origin = <<>> /\ provider = "anthropic" /\ at = "idle" /\ sent = <<>>
  /\ outcome = "none" /\ requests = 0

LastRole == IF messages = <<>> THEN "none" ELSE Last(messages).role

Append1(message, by, blocks) ==
  /\ messages' = Append(messages, message)
  /\ origin' = Append(origin, [by |-> by, blocks |-> blocks])

(* The caller's user turn: a text, an image, or an image with a caption.   *)
UserTurn ==
  /\ at = "idle" /\ Len(messages) < MaxMessages
  /\ LastRole # "user"
  /\ LastRole = "assistant" => OfType(Last(messages).parts, {"tool_call"}) = <<>>
  /\ LET text == <<Len(messages) + 1>> IN
       \E m \in {Message("user", text, <<>>),
                 Message("user", <<>>, <<Part("text", text), Part("image", <<>>)>>),
                 Message("user", text, <<Part("image", <<>>)>>)} : Append1(m, "user", <<>>)
  /\ UNCHANGED <<providers, provider, at, sent, outcome, requests>>

(* The caller's results of the calls it was asked for: in one message, or  *)
(* in a message each.                                                      *)
ToolTurn ==
  /\ at = "idle" /\ LastRole = "assistant"
  /\ LET calls == Values(OfType(Last(messages).parts, {"tool_call"}))
         ids == [i \in DOMAIN calls |-> calls[i].id]
         Results(is) == Message("tool", <<>>, [i \in DOMAIN is |-> Part("tool_result", is[i])])
     IN /\ ids # <<>> /\ Len(messages) + Len(ids) <= MaxMessages
        /\ \E turns \in {<<Results(ids)>>, [i \in DOMAIN ids |-> Results(<<ids[i]>>)]} :
             /\ messages' = messages \o turns
             /\ origin' = origin \o [i \in DOMAIN turns |-> [by |-> "user", blocks |-> <<>>]]
  /\ UNCHANGED <<providers, provider, at, sent, outcome, requests>>

(* Complete: the router's choice, then the provider's request.             *)
Complete(model) ==
  LET p == ResolveProviderName(model) IN
  /\ at = "idle" /\ LastRole \in {"user", "tool"} /\ requests < MaxRequests
  /\ requests' = requests + 1 /\ provider' = p
  /\ IF p \notin providers THEN at' = "done" /\ outcome' = "model_not_found" /\ UNCHANGED sent
     ELSE IF Refuses(p) THEN at' = "done" /\ outcome' = "unknown" /\ UNCHANGED sent
     ELSE /\ at' = "send" /\ outcome' = "none"
          /\ sent' = FlattenSeq([i \in DOMAIN messages |-> Items(p, messages[i])])
  /\ UNCHANGED <<providers, conversation>>

(* The response: its calls have ids, which Gemini may leave out.           *)
Reply ==
  /\ at = "send" /\ Len(messages) < MaxMessages
  /\ \E r \in Replies, withIds \in BOOLEAN :
       LET number(i) == <<10 * (Len(messages) + 1) + i>>
           blocks == [i \in DOMAIN r |->
             IF r[i] = 0 THEN Block("text", number(i))
             ELSE Block("call", Call(IF withIds THEN number(i) ELSE <<>>, <<r[i]>>))]
       IN /\ withIds \/ provider = "google"
          /\ Append1(MapResponse(provider, blocks), provider, blocks)
  /\ at' = "done" /\ outcome' = "ok"
  /\ UNCHANGED <<providers, provider, sent, requests>>

(* The request fails, in the end: no error has a StatusCode method, so its *)
(* code is unknown and it is not retryable.  A response of Gemini without  *)
(* a candidate is such an error too.                                       *)
Rejected ==
  /\ at = "send" /\ at' = "done" /\ outcome' = "unknown"
  /\ UNCHANGED <<providers, conversation, provider, sent, requests>>

Return == at = "done" /\ at' = "idle"
          /\ UNCHANGED <<providers, conversation, provider, sent, outcome, requests>>

Next ==
  \/ UserTurn \/ ToolTurn \/ Reply \/ Rejected \/ Return
  \/ \E model \in Models : Complete(model)

Spec == Init /\ [][Next]_vars

-----------------------------------------------------------------------------
TypeOK ==
  /\ providers \subseteq Providers
  /\ Len(messages) <= MaxMessages /\ Len(origin) = Len(messages)
  /\ \A i \in DOMAIN messages : messages[i].role \in {"user", "assistant", "tool"}
  /\ provider \in Providers /\ at \in {"idle", "send", "done"}
  /\ \A i \in DOMAIN sent : sent[i].kind \in {"user", "assistant", "call", "result", "named", "image"}
  /\ outcome \in {"none", "ok", "model_not_found", "unknown"}
  /\ requests \in 0 .. MaxRequests

Sending == at = "send"
Has(kind, value) == \E i \in DOMAIN sent : sent[i].kind = kind /\ sent[i].value = value
Carries(text) == \E i \in DOMAIN sent :
  sent[i].kind \in {"user", "assistant"} /\ \E j \in DOMAIN sent[i].value : sent[i].value[j] = text

(* A result tells its call by the id or, without one, by the name.         *)
Answers(result, call) ==
  \/ result.kind = "result" /\ result.value = call.value.id
  \/ result.kind = "named" /\ result.value = call.value.name

(* Whichever provider made a tool call and whichever is asked next, the    *)
(* request holds the call and, after it, its result; only OpenAI's leaves  *)
(* out the second result of one message.  The result answers the call,     *)
(* but not at Gemini: there it goes by the call's id where the function's  *)
(* name is asked for, and answers only a call whose id is that name.       *)
CallsAreAnswered ==
  Sending => \A i \in DOMAIN messages : \A j \in DOMAIN messages[i].parts :
    LET part == messages[i].parts[j] IN
    /\ part.type = "tool_call" => Has("call", part.value)
    /\ part.type = "tool_result" /\ (provider = "openai" => j = 1) =>
         \E k, l \in DOMAIN sent :
           /\ k < l /\ sent[k].kind = "call" /\ sent[l].kind \in {"result", "named"}
           /\ sent[k].value.id = part.value /\ sent[l].value = part.value
           /\ Answers(sent[l], sent[k]) <=> provider # "google" \/ sent[k].value.name = part.value

(* A result, which goes by the id of its call, has one call to go to,      *)
(* whatever providers the conversation moved between: two calls have one   *)
(* id only when both are Gemini's, came without an id and are calls of one *)
(* function.                                                               *)
Anonymous(i, j) ==
  origin[i].by = "google" /\ origin[i].blocks[j].value.id = <<>>
IdsTellCallsApart ==
  \A i1, i2 \in DOMAIN messages :
    \A j1 \in DOMAIN messages[i1].parts, j2 \in DOMAIN messages[i2].parts :
      LET p1 == messages[i1].parts[j1]
          p2 == messages[i2].parts[j2]
      IN p1.type = "tool_call" /\ p2.type = "tool_call" /\ p1.value.id = p2.value.id =>
           \/ <<i1, j1>> = <<i2, j2>>
           \/ /\ Anonymous(i1, j1) /\ Anonymous(i2, j2)
              /\ p1.value.name = p2.value.name

(* Every text of every provider's response is in the next request to       *)
(* OpenAI and Gemini; to Anthropic, when it was the only block of its      *)
(* response.  A user's text is, unless its message has parts as well as a  *)
(* Content: there Anthropic alone sends the Content.                       *)
TextsCarryOver ==
  Sending => \A i \in DOMAIN messages :
    /\ \A j \in DOMAIN origin[i].blocks :
         LET block == origin[i].blocks[j] IN
         block.type = "text" /\ (provider = "anthropic" => Len(origin[i].blocks) = 1) =>
           Carries(block.value[1])
    /\ messages[i].role = "user" /\ (provider = "anthropic" \/ messages[i].parts = <<>>) =>
         \A j \in DOMAIN messages[i].content : Carries(messages[i].content[j])
=============================================================================
