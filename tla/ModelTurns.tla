------------------------------- MODULE ModelTurns -------------------------------
(* A turn of a conversation through a model plugin: the provider's reply arrives,   *)
(* event by event where it is streamed, the message is put together, its calls are *)
(* answered and the conversation is written as the provider's next request.        *)
EXTENDS ProviderModels

CONSTANTS Replies,    \* provider -> the replies it may give: sequences of blocks
          Options     \* what the request asks for: [json, think]

VARIABLES
  provider,  \* the plugin
  option,    \* the request's options
  reply,     \* the blocks of the provider's reply
  coming,    \* block -> its events not yet delivered
  acc,       \* what the plugin has accumulated
  streamed,  \* the parts of the chunks sent so far
  result,    \* what the plugin returned: at "open", "message" or "error", and parts
  next       \* the next request, once written

turnVars == <<provider, option, reply, coming, acc, streamed, result, next>>

Event(at, kind, index, id, body) ==
  [at |-> at, kind |-> kind, index |-> index, id |-> id, body |-> body]

(* A provider's events for one block, token by token.                              *)
Deltas(kind, index, body) ==
  [k \in DOMAIN body |-> Event("delta", kind, index, "", <<body[k]>>)]

(* Chat completions: the id of a call rides on its first fragment. *)
OpenAIEvents(b, i) ==
  IF b.kind # "call" THEN Deltas(b.kind, i, b.body)
  ELSE IF b.body = <<>> THEN <<Event("delta", "call", i, b.id, <<>>)>>
  ELSE <<Event("delta", "call", i, b.id, <<Head(b.body)>>)>> \o Deltas("call", i, Tail(b.body))

(* Anthropic and Converse: start, deltas, signature, stop.                          *)
BlockEvents(b, i) ==
  <<Event("start", IF b.data # <<>> /\ provider = "anthropic" THEN "redacted" ELSE b.kind,
          i, b.id, IF provider = "anthropic" THEN b.data ELSE <<>>)>>
  \o Deltas(b.kind, i, b.body)
  \o Unless(b.sig = "", Event("delta", "signature", i, b.sig, <<>>))
  \o (IF provider = "bedrock" THEN Deltas("redacted", i, b.data) ELSE <<>>)
  \o <<Event("stop", b.kind, i, "", <<>>)>>

(* Ollama and Gemini: a call comes whole; a thought's signature with its last part.  *)
PartEvents(b, i) ==
  IF b.kind = "call" THEN <<Event("delta", "call", i, b.id, b.body)>>
  ELSE [k \in DOMAIN b.body |->
         Event("delta", b.kind, i,
               IF k = Len(b.body) THEN b.sig ELSE "", <<b.body[k]>>)]

Events(b, i) == CASE provider = "openai" -> OpenAIEvents(b, i)
                  [] provider \in {"anthropic", "bedrock"} -> BlockEvents(b, i)
                  [] provider \in {"ollama", "gemini"} -> PartEvents(b, i)
                  [] OTHER -> <<>>

Take(state, ev) ==
  CASE provider = "openai" -> OpenAITake(state, ev)
    [] provider = "anthropic" -> AnthropicTake(state, ev)
    [] provider = "bedrock" -> BedrockTake(state, ev)
    [] provider = "ollama" -> OllamaTake(state, ev)
    [] provider = "gemini" -> GeminiTake(state, ev)

Whole == CASE provider = "openai" -> OpenAIWhole(reply, option.json)
           [] provider = "anthropic" -> AnthropicWhole(reply, option.json)
           [] provider = "bedrock" -> BedrockWhole(reply)
           [] provider = "ollama" -> OllamaWhole(reply, option.think)
           [] provider = "gemini" -> GeminiWhole(reply)
           [] OTHER -> InteractionsWhole(reply)

Finish == CASE provider = "openai" -> OpenAIFinish(acc, option.json)
            [] provider = "anthropic" -> AnthropicFinish(acc, option.json)
            [] provider = "bedrock" -> BedrockFinish(acc)
            [] provider = "ollama" -> OllamaFinish(acc, option.think)
            [] provider = "gemini" -> GeminiFinish(acc)
            [] OTHER -> Whole

Wire(messages) == CASE provider = "openai" -> OpenAIWire(messages)
                    [] provider = "anthropic" -> AnthropicWire(messages)
                    [] provider = "bedrock" -> BedrockWire(messages)
                    [] provider = "ollama" -> OllamaWire(messages)
                    [] provider = "gemini" -> GeminiWire(messages)
                    [] OTHER -> InteractionsWire(messages)

Nothing == [ok |-> FALSE, messages |-> <<>>]

TurnInit ==
  /\ provider \in DOMAIN Replies /\ option \in Options
  /\ reply \in Replies[provider]
  /\ coming = [i \in DOMAIN reply |-> Events(reply[i], i)]
  /\ acc = (CASE provider = "openai" -> OpenAIEmpty
              [] provider = "anthropic" -> AnthropicEmpty
              [] provider = "ollama" -> OllamaEmpty
              [] OTHER -> <<>>)
  /\ streamed = <<>> /\ next = Nothing
  /\ result = [at |-> "open", parts |-> <<>>]

(* Calls of a chat completion begin in order and then interleave; the blocks of a    *)
(* Converse or Anthropic stream carry their index; the other streams are in order.  *)
Begun(i) == Len(coming[i]) < Len(Events(reply[i], i))
Due(i) ==
  /\ coming[i] # <<>>
  /\ provider \in {"openai", "anthropic", "bedrock"} => \A j \in 1..(i - 1) : Begun(j)
  /\ provider \in {"ollama", "gemini"} => \A j \in 1..(i - 1) : coming[j] = <<>>

Deliver(i) ==
  /\ result.at = "open" /\ Due(i)
  /\ LET taken == Take(acc, Head(coming[i]))
     IN /\ acc' = taken.acc
        /\ streamed' = streamed \o taken.out
        /\ result' = IF taken.ok THEN result ELSE [at |-> "error", parts |-> <<>>]
  /\ coming' = [coming EXCEPT ![i] = Tail(@)]
  /\ UNCHANGED <<provider, option, reply, next>>

(* The stream ends, complete or cut short (a token limit, a stop). *)
StreamEnd ==
  /\ result.at = "open"
  /\ LET done == Finish
     IN result' = [at |-> IF done.ok THEN "message" ELSE "error", parts |-> done.parts]
  /\ UNCHANGED <<provider, option, reply, coming, acc, streamed, next>>

(* The calls are answered in the order of the message (resolve_tool_requests) and   *)
(* the conversation goes to the provider again.                                    *)
Answers(parts) ==
  LET calls == OfKind(parts, "call")
  IN [k \in DOMAIN calls |-> ResultPart(calls[k].id, calls[k].body)]

Conversation ==
  <<Turn("system", <<TextPart(<<"sys">>)>>), Turn("user", <<TextPart(<<"ask">>)>>),
    Turn("model", result.parts)>>
  \o Unless(Answers(result.parts) = <<>>, Turn("tool", Answers(result.parts)))
  \o Unless(Answers(result.parts) # <<>>, Turn("user", <<TextPart(<<"more">>)>>))

NextTurn ==
  /\ result.at = "message" /\ next = Nothing
  /\ next' = Wire(Conversation)
  /\ UNCHANGED <<provider, option, reply, coming, acc, streamed, result>>

TurnNext == (\E i \in DOMAIN coming : Deliver(i)) \/ StreamEnd \/ NextTurn

(* --------------------------------- properties --------------------------------- *)

Complete == \A i \in DOMAIN coming : coming[i] = <<>>
CallsOf(parts, id) == Bodies(SelectSeq(parts, LAMBDA p : p.kind = "call" /\ p.id = id))
Ids(parts, kind) == LET these == OfKind(parts, kind)
                    IN [k \in DOMAIN these |-> these[k].id]

(* Whatever order the fragments of a reply come in, the chunks a caller saw add up   *)
(* to the message it is given: the same text, the same thoughts and, call by call,  *)
(* the same arguments, also when the stream is cut short; and a reply that was       *)
(* complete says what the same reply says unstreamed, and fails only if that fails.   *)
(* The fences around a JSON answer are no text: the chunks keep them, of the messages   *)
(* only some do.                                                                   *)
SameText(a, b) == a = b \/ (option.json /\ Unfenced(a) = Unfenced(b))
StreamAddsUp ==
  /\ result.at = "error" /\ Complete /\ provider # "interactions" => ~Whole.ok
  /\ result.at = "message" /\ provider # "interactions" =>
    LET seen == IF provider = "ollama" /\ option.think /\ BodyOf(streamed, "thought") = <<>>
                  THEN ParseThinking(BodyOf(streamed, "text"))
                  ELSE [blocks |-> 0, thought |-> BodyOf(streamed, "thought"),
                        rest |-> BodyOf(streamed, "text")]
        ids == ToSet(Ids(reply, "call")) \union {""}
    IN /\ SameText(seen.rest, BodyOf(result.parts, "text"))
       /\ seen.thought = BodyOf(result.parts, "thought")
       /\ \A id \in ids : IsPrefix(CallsOf(streamed, id), CallsOf(result.parts, id))
       /\ Complete /\ (provider = "openai" => reply # <<>>) =>
            /\ \A id \in ids : CallsOf(streamed, id) = CallsOf(result.parts, id)
            /\ Whole.ok
            /\ SameText(BodyOf(Whole.parts, "text"), BodyOf(result.parts, "text"))
            /\ BodyOf(Whole.parts, "thought") = BodyOf(result.parts, "thought")
            /\ OfKind(Whole.parts, "call") = OfKind(result.parts, "call")

(* A finished message goes back to the provider that wrote it: its text, its calls  *)
(* in their order and its signed thoughts are in the next request, where every      *)
(* result names a call before it and every call has its one result, also for calls  *)
(* that came without a ref.                                                        *)
HistoryReplays ==
  next # Nothing /\ Complete /\ provider # "ollama" =>
    LET blocks == FlattenSeq([m \in DOMAIN next.messages |-> next.messages[m].parts])
        back == SelectSeq(blocks, LAMBDA p : p.kind # "result")
        Signed(parts) == SelectSeq(parts, LAMBDA p : p.kind = "thought" /\ p.sig # "")
        Sigs(parts) == [k \in DOMAIN Signed(parts) |-> Signed(parts)[k].sig]
        Own(body) == SelectSeq(body, LAMBDA t : t \notin {"sys", "ask", "more", " "})
        refs == Ids(blocks, "call")
        Ran(id) == id \notin ToSet(Ids(reply, "result"))   \* not the provider's own
    IN /\ next.ok
       /\ Own(BodyOf(back, "text")) = Own(BodyOf(result.parts, "text"))
       /\ [k \in DOMAIN OfKind(back, "call") |-> OfKind(back, "call")[k].body]
            = [k \in DOMAIN OfKind(reply, "call") |-> OfKind(reply, "call")[k].body]
       /\ provider \in {"anthropic", "bedrock", "gemini", "interactions"} =>
            /\ Bodies(Signed(back)) = Bodies(Signed(result.parts))
            /\ Sigs(back) = Sigs(reply)
       /\ provider \in {"openai", "anthropic", "bedrock", "interactions"} =>
            /\ IsInjective(refs) /\ "" \notin ToSet(refs)
            /\ SelectSeq(Ids(blocks, "result"), Ran) = refs
            /\ \A p, q \in DOMAIN blocks :
                 blocks[p].kind = "call" /\ blocks[q].kind = "result" /\ Ran(blocks[q].id)
                   => p < q
=============================================================================
