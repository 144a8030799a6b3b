---------------------------- MODULE ProviderModels ----------------------------
(* How each model plugin reads a reply, whole or from its stream, and writes a      *)
(* conversation as its provider's messages: OpenAI, Anthropic, Bedrock, Ollama,     *)
(* Gemini and the Interactions API.  Images and other media, token counts, finish   *)
(* reasons and what only a provider's dashboard shows are left out.                *)
EXTENDS Naturals, Sequences, FiniteSets, SequencesExt, TLC

(* ------------------------------ parts ------------------------------ *)
(* The parts of a message, the events of a provider's stream and the messages of   *)
(* a provider's request.  Text, thought and arguments are sequences of tokens, so   *)
(* that a fragment is a subsequence.                                              *)

(* A part, or a content block of the wire: id is the ref of a call or a result,  *)
(* sig the signature of a thought, data its redacted form.  A redacted thought is *)
(* a custom part for Anthropic and metadata of an empty thought for Bedrock.      *)
MPart(kind, id, body, sig, data) ==
  [kind |-> kind, id |-> id, body |-> body, sig |-> sig, data |-> data]
TextPart(body) == MPart("text", "", body, "", <<>>)
ThoughtPart(body, sig) == MPart("thought", "", body, sig, <<>>)
RedactedPart(data) == MPart("thought", "", <<>>, "", data)
CallPart(id, body) == MPart("call", id, body, "", <<>>)
ResultPart(id, body) == MPart("result", id, body, "", <<>>)

OfKind(parts, kind) == SelectSeq(parts, LAMBDA p : p.kind = kind)
Bodies(parts) == FlattenSeq([k \in DOMAIN parts |-> parts[k].body])
BodyOf(parts, kind) == Bodies(OfKind(parts, kind))

(* A part that is left out when there is nothing to put in it. *)
Unless(empty, part) == IF empty THEN <<>> ELSE <<part>>

(* What a plugin returns: a message's parts, or an error. *)
Message(parts) == [ok |-> TRUE, parts |-> parts]
Failure == [ok |-> FALSE, parts |-> <<>>]

(* JSON arguments: an empty string is the empty object; else the last token closes *)
(* the object, or they do not parse.                                              *)
Parses(body) == body = <<>> \/ Last(body) = "}"

(* strip_markdown_fences: a text that is fenced as a whole loses its fences. *)
Unfenced(body) ==
  IF Len(body) > 1 /\ Head(body) = "fence" /\ Last(body) = "fence"
    THEN SubSeq(body, 2, Len(body) - 1) ELSE body

StripFences(parts) ==
  [k \in DOMAIN parts |-> IF parts[k].kind = "text"
                            THEN [parts[k] EXCEPT !.body = Unfenced(@)] ELSE parts[k]]

(* A message of a conversation, and one of a provider's request. *)
Turn(role, parts) == [role |-> role, parts |-> parts]

(* ---------------------------- OpenAI ---------------------------- *)
(* genkit_openai/models: a chat completion read whole or from its deltas, and a   *)
(* conversation written as chat messages.  A delta carries the index of the tool  *)
(* call it belongs to, the id on the first fragment only.                        *)

(* ------------------------------ reading a reply ------------------------------ *)

OpenAIEmpty == [thought |-> <<>>, text |-> <<>>, calls |-> <<>>, order |-> <<>>]

(* tool_call_to_genkit of the stored call with the fragment as its input. *)
Fragment(call, body) == CallPart(call.id, body)

(* The fault of looking a fragment's call up by its arrival, not its index. *)
FragmentToLast(acc, ev) ==
  IF ev.index \notin DOMAIN acc.calls
    THEN [acc EXCEPT !.calls = (ev.index :> CallPart(ev.id, ev.body)) @@ @,
                     !.order = Append(@, ev.index)]
    ELSE [acc EXCEPT !.calls[Last(acc.order)].body = @ \o ev.body]

(* One tool-call fragment: the first of an index is stored as it came, a later    *)
(* one extends its arguments.                                                    *)
TakeFragment(acc, ev) ==
  IF ev.index \notin DOMAIN acc.calls
    THEN [acc EXCEPT !.calls = (ev.index :> CallPart(ev.id, ev.body)) @@ @,
                     !.order = Append(@, ev.index)]
    ELSE [acc EXCEPT !.calls[ev.index].body = @ \o ev.body]

(* One chunk of the completion: what is kept of it, and the parts streamed. *)
OpenAITake(acc, ev) ==
  CASE ev.kind = "thought" ->
         [acc |-> [acc EXCEPT !.thought = Append(@, ThoughtPart(ev.body, ""))],
          out |-> <<ThoughtPart(ev.body, "")>>, ok |-> TRUE]
    [] ev.kind = "text" ->
         [acc |-> [acc EXCEPT !.text = Append(@, TextPart(ev.body))],
          out |-> <<TextPart(ev.body)>>, ok |-> TRUE]
    [] ev.kind = "call" ->
         LET next == TakeFragment(acc, ev)
         IN [acc |-> next, out |-> <<Fragment(next.calls[ev.index], ev.body)>>, ok |-> TRUE]

(* MessageConverter.to_genkit: thoughts, text, then the calls, whose arguments    *)
(* are parsed or raise.                                                          *)
ToGenkit(thought, text, calls) ==
  IF \E k \in DOMAIN calls : ~Parses(calls[k].body) THEN Failure
  ELSE Message(Unless(thought = <<>>, ThoughtPart(thought, ""))
               \o Unless(text = <<>>, TextPart(text)) \o calls)

(* _clean_json_response, for the models that answer in json_object mode. *)
CleanJson(reply, json) == IF json THEN [reply EXCEPT !.parts = StripFences(@)] ELSE reply

(* The end of _generate_stream: thoughts, then text, then the calls in the order  *)
(* their first fragments came.                                                   *)
OpenAIFinish(acc, json) ==
  LET calls == ToGenkit(<<>>, <<>>, [k \in DOMAIN acc.order |-> acc.calls[acc.order[k]]])
  IN IF ~calls.ok THEN Failure
     ELSE CleanJson(Message(acc.thought \o acc.text \o calls.parts), json)

(* _generate: the same reply, not streamed; one that stops cleanly without a word    *)
(* raises, streamed it is an empty message.  A reply without any choice raises either *)
(* way and is no reply here.                                                       *)
OpenAIWhole(blocks, json) ==
  LET whole == ToGenkit(BodyOf(blocks, "thought"), BodyOf(blocks, "text"), OfKind(blocks, "call"))
  IN IF whole.parts = <<>> THEN Failure ELSE CleanJson(whole, json)

(* ----------------------------- writing a request ----------------------------- *)

(* _get_openai_role *)
OpenAIRole(role) == IF role = "model" THEN "assistant" ELSE role

(* MessageConverter.to_openai: text first, then one message of all calls, then a  *)
(* message per tool result; reasoning is never sent back.                        *)
ToOpenAI(message) ==
  LET role == OpenAIRole(message.role)
      text == OfKind(message.parts, "text")
      calls == OfKind(message.parts, "call")
      results == OfKind(message.parts, "result")
  IN Unless(text = <<>>, Turn(role, <<TextPart(Bodies(text))>>))
     \o Unless(calls = <<>>, Turn(role, calls))
     \o [k \in DOMAIN results |-> Turn(role, <<results[k]>>)]

OpenAIWire(messages) ==
  [ok |-> TRUE,
   messages |-> FlattenSeq([k \in DOMAIN messages |-> ToOpenAI(messages[k])])]

(* ---------------------------- Anthropic ---------------------------- *)
(* genkit_anthropic: the events of a message stream, the message the SDK puts       *)
(* together from them, and a conversation written as Anthropic messages.           *)

(* ------------------------------ reading a stream ------------------------------ *)

AnthropicEmpty == [pending |-> <<>>, snapshot |-> <<>>]

(* The SDK's own accumulation behind get_final_message: index -> content block.    *)
Snapshot(snapshot, ev) ==
  LET block == IF ev.index \in DOMAIN snapshot THEN snapshot[ev.index]
               ELSE MPart(IF ev.kind \in {"signature", "redacted"} THEN "thought" ELSE ev.kind,
                          "", <<>>, "", <<>>)
      grown == CASE ev.kind = "signature" -> [block EXCEPT !.sig = ev.id]
                 [] ev.kind = "redacted" -> [block EXCEPT !.data = @ \o ev.body]
                 [] ev.kind = "call" /\ ev.at = "start" -> [block EXCEPT !.id = ev.id]
                 [] OTHER -> [block EXCEPT !.body = @ \o ev.body]
  IN (ev.index :> grown) @@ snapshot

(* One event of _generate_streaming: text and thoughts go out as they come,         *)
(* redacted thinking with its start, a call when its block stops, its arguments as a  *)
(* string where they do not parse.                                                *)
AnthropicTake(acc, ev) ==
  LET opened == ev.at = "start" /\ ev.kind = "call"
      closed == ev.at = "stop" /\ ev.index \in DOMAIN acc.pending
      pending ==
        CASE opened -> (ev.index :> CallPart(ev.id, <<>>)) @@ acc.pending
          [] ev.at = "delta" /\ ev.kind = "call" /\ ev.index \in DOMAIN acc.pending ->
               [acc.pending EXCEPT ![ev.index].body = @ \o ev.body]
          [] closed -> [k \in DOMAIN acc.pending \ {ev.index} |-> acc.pending[k]]
          [] OTHER -> acc.pending
      out ==
        CASE ev.at = "start" /\ ev.kind = "redacted" -> <<RedactedPart(ev.body)>>
          [] ev.at = "delta" /\ ev.kind = "text" -> <<TextPart(ev.body)>>
          [] ev.at = "delta" /\ ev.kind = "thought" -> <<ThoughtPart(ev.body, "")>>
          [] closed -> <<acc.pending[ev.index]>>
          [] OTHER -> <<>>
  IN [acc |-> [pending |-> pending, snapshot |-> Snapshot(acc.snapshot, ev)],
      out |-> out, ok |-> TRUE]

(* maybe_strip_fences, when JSON was asked for. *)
MaybeStrip(parts, json) == IF json THEN StripFences(parts) ELSE parts

(* The final message, through _to_genkit_content: block by block. *)
AnthropicFinish(acc, json) ==
  LET indices == SetToSortSeq(DOMAIN acc.snapshot, <)
  IN Message(MaybeStrip([k \in DOMAIN indices |-> acc.snapshot[indices[k]]], json))

AnthropicWhole(blocks, json) == Message(MaybeStrip(blocks, json))

(* ------------------------------ writing a request ------------------------------ *)

(* _to_anthropic_block: a thought that has text must be signed, or the request      *)
(* raises; one without text goes back only when it is redacted.                    *)
Unsigned(part) == part.kind = "thought" /\ part.body # <<>> /\ part.sig = ""

ThinkingBlocks(part) ==
  CASE part.kind = "thought" /\ part.body # <<>> -> <<ThoughtPart(part.body, part.sig)>>
    [] part.kind = "thought" -> Unless(part.data = <<>>, RedactedPart(part.data))
    [] OTHER -> <<part>>

(* _to_anthropic_messages: without the system messages (_extract_system sends the   *)
(* first apart), tool results in a user message.                                   *)
AnthropicWire(messages) ==
  LET turns == SelectSeq(messages, LAMBDA m : m.role # "system")
      Block(m) == Turn(IF m.role = "model" THEN "assistant" ELSE "user",
                       FlattenSeq([k \in DOMAIN m.parts |-> ThinkingBlocks(m.parts[k])]))
  IN [ok |-> \A m \in DOMAIN turns : \A k \in DOMAIN turns[m].parts :
               ~Unsigned(turns[m].parts[k]),
      messages |-> [m \in DOMAIN turns |-> Block(turns[m])]]

(* ---------------------------- Bedrock ---------------------------- *)
(* genkit_amazon_bedrock: a ConverseStream reassembled block by block, a Converse   *)
(* reply read whole, and a conversation written as Converse messages.              *)

(* ------------------------------ reading a stream ------------------------------ *)

NewBlock == [call |-> FALSE, id |-> "", text |-> <<>>, thought |-> <<>>, sig |-> "",
             data |-> <<>>, input |-> <<>>]

(* _get_or_init: index -> block, made by its first event. *)
BlockAt(blocks, index) == IF index \in DOMAIN blocks THEN blocks[index] ELSE NewBlock
WithBlock(blocks, index, block) == (index :> block) @@ blocks

(* _tool_block_to_part: raises for arguments that do not parse. *)
ToolBlock(block) == IF Parses(block.input) THEN Message(<<CallPart(block.id, block.input)>>)
                                           ELSE Failure

(* _append_delta and _append_reasoning_delta: text and thoughts are streamed as     *)
(* they come; a signature, redacted data and arguments accumulate silently.        *)
AppendDelta(block, ev) ==
  CASE ev.kind = "text" -> [block EXCEPT !.text = @ \o ev.body]
    [] ev.kind = "call" -> [block EXCEPT !.call = TRUE, !.input = @ \o ev.body]
    [] ev.kind = "thought" -> [block EXCEPT !.thought = @ \o ev.body]
    [] ev.kind = "signature" -> [block EXCEPT !.sig = ev.id]
    [] ev.kind = "redacted" -> [block EXCEPT !.data = @ \o ev.body]

StreamedDelta(ev) == CASE ev.kind = "text" -> <<TextPart(ev.body)>>
                       [] ev.kind = "thought" -> <<ThoughtPart(ev.body, "")>>
                       [] OTHER -> <<>>

(* One event of consume_converse_stream; a call is streamed when its block stops. *)
BedrockTake(blocks, ev) ==
  LET block == BlockAt(blocks, ev.index)
  IN CASE ev.at = "start" ->
            [acc |-> WithBlock(blocks, ev.index,
                       IF ev.kind = "call" THEN [block EXCEPT !.call = TRUE, !.id = ev.id]
                                           ELSE block),
             out |-> <<>>, ok |-> TRUE]
       [] ev.at = "delta" ->
            [acc |-> WithBlock(blocks, ev.index, AppendDelta(block, ev)),
             out |-> StreamedDelta(ev), ok |-> TRUE]
       [] ev.at = "stop" ->
            LET part == IF block.call THEN ToolBlock(block) ELSE Message(<<>>)
            IN [acc |-> blocks, out |-> part.parts, ok |-> part.ok]

(* bedrock_reasoning_part *)
ReasoningPart(text, sig, data) == MPart("thought", "", text, sig, data)

(* One block of _blocks_to_parts: the call, or the thought and then the text. *)
BlockParts(block) ==
  IF block.call THEN ToolBlock(block)
  ELSE Message(Unless(block.thought = <<>> /\ block.data = <<>>,
                      ReasoningPart(block.thought, block.sig, block.data))
               \o Unless(block.text = <<>>, TextPart(block.text)))

(* _blocks_to_parts, in contentBlockIndex order; an empty reply is an empty text. *)
BedrockFinish(blocks) ==
  LET indices == SetToSortSeq(DOMAIN blocks, <)
      parts == [k \in DOMAIN indices |-> BlockParts(blocks[indices[k]])]
      all == FlattenSeq([k \in DOMAIN parts |-> parts[k].parts])
  IN IF \E k \in DOMAIN parts : ~parts[k].ok THEN Failure
     ELSE Message(IF all = <<>> THEN <<TextPart(<<>>)>> ELSE all)

(* content_blocks_to_parts with _reasoning_block_to_part, and to_model_response: the  *)
(* reply read whole, never without a part.  A kind of block nobody knows would raise   *)
(* here and be dropped from a stream.                                              *)
BedrockWhole(blocks) ==
  LET parts == SelectSeq(blocks, LAMBDA b : b.kind = "thought" =>
                                   b.body # <<>> \/ b.sig # "" \/ b.data # <<>>)
  IN Message(IF parts = <<>> THEN <<TextPart(<<>>)>> ELSE parts)

(* ------------------------------ writing a request ------------------------------ *)

(* _part_to_blocks: a thought goes back only with what Bedrock gave it, redacted    *)
(* data first, the text only with its signature; a call or result needs its ref.   *)
PartBlocks(part) ==
  CASE part.kind = "thought" ->
         Unless(part.data = <<>>, RedactedPart(part.data))
         \o Unless(part.body = <<>> \/ part.sig = "", ThoughtPart(part.body, part.sig))
    [] OTHER -> <<part>>

NeedsRef(part) == part.kind \in {"call", "result"} /\ part.id = ""

(* convert_messages: system messages go apart, tool results travel in a user message; *)
(* a message of no blocks is dropped.                                              *)
ConverseMessage(message) ==
  LET blocks == FlattenSeq([k \in DOMAIN message.parts |-> PartBlocks(message.parts[k])])
  IN Unless(blocks = <<>>,
            Turn(IF message.role = "model" THEN "assistant" ELSE "user", blocks))

(* build_converse_request: with tools, as here, the conversation may not end with the   *)
(* model.                                                                         *)
BedrockWire(messages) ==
  LET turns == SelectSeq(messages, LAMBDA m : m.role # "system")
      wire == FlattenSeq([k \in DOMAIN turns |-> ConverseMessage(turns[k])])
  IN [ok |-> /\ \A m \in DOMAIN turns : \A k \in DOMAIN turns[m].parts :
                  ~NeedsRef(turns[m].parts[k])
             /\ wire # <<>> => Last(wire).role # "assistant",
      messages |-> wire]

(* ---------------------------- Ollama ---------------------------- *)
(* genkit_ollama/models.py: the chunks of a chat or generate call, the reply built  *)
(* from them and the messages sent.  Ollama's calls have no ref.                   *)

(* _parse_thinking: the thinking blocks of a text, a blank line between them, and the *)
(* text without them; an opening tag without a closing one is text.                 *)
RECURSIVE ParseThinking(_)
ParseThinking(body) ==
  LET Closed(i) == {j \in DOMAIN body : j > i /\ body[j] = "</think>"}
      opens == {i \in DOMAIN body : body[i] = "<think>" /\ Closed(i) # {}}
  IN IF opens = {} THEN [blocks |-> 0, thought |-> <<>>, rest |-> body]
     ELSE LET open == CHOOSE i \in opens : \A k \in opens : i <= k
              close == CHOOSE j \in Closed(open) : \A k \in Closed(open) : j <= k
              after == ParseThinking(SubSeq(body, close + 1, Len(body)))
          IN [blocks |-> after.blocks + 1,
              thought |-> SubSeq(body, open + 1, close - 1)
                          \o Unless(after.blocks = 0, "blank line") \o after.thought,
              rest |-> SubSeq(body, 1, open - 1) \o after.rest]

(* _build_multimodal_chat_response and _build_generate_response: the thought of its *)
(* own field, or, for a complete reply to a request that asked to think, the        *)
(* inline blocks; then text and calls.                                             *)
OllamaParts(thought, text, calls, think) ==
  LET inline == IF thought = <<>> /\ think THEN ParseThinking(text)
                                           ELSE [blocks |-> 0, thought |-> thought, rest |-> text]
  IN Unless(inline.thought = <<>>, ThoughtPart(inline.thought, ""))
     \o Unless(inline.rest = <<>>, TextPart(inline.rest)) \o calls

OllamaEmpty == [thought |-> <<>>, text |-> <<>>, calls |-> <<>>]

(* One chunk of _chat_with_ollama (or _generate_ollama_response, which has no       *)
(* calls): accumulated, and streamed without a look at inline tags.                *)
OllamaTake(acc, ev) ==
  LET thought == IF ev.kind = "thought" THEN ev.body ELSE <<>>
      text == IF ev.kind = "text" THEN ev.body ELSE <<>>
      calls == IF ev.kind = "call" THEN <<CallPart("", ev.body)>> ELSE <<>>
  IN [acc |-> [thought |-> acc.thought \o thought, text |-> acc.text \o text,
               calls |-> acc.calls \o calls],
      out |-> OllamaParts(thought, text, calls, FALSE), ok |-> TRUE]

(* The last chunk with what all of them said. *)
OllamaFinish(acc, think) ==
  Message(OllamaParts(acc.thought, acc.text, acc.calls, think))

OllamaWhole(blocks, think) ==
  LET calls == OfKind(blocks, "call")
  IN Message(OllamaParts(BodyOf(blocks, "thought"), BodyOf(blocks, "text"),
                         [k \in DOMAIN calls |-> [calls[k] EXCEPT !.id = ""]], think))

(* build_chat_messages: of a message its text and tool outputs, in order; calls and *)
(* thoughts are not sent back.  The generate API sends one prompt of all the texts.   *)
OllamaWire(messages) ==
  LET Content(m) == SelectSeq(m.parts, LAMBDA p : p.kind \in {"text", "result"})
  IN [ok |-> TRUE,
      messages |-> [k \in DOMAIN messages |->
         Turn(IF messages[k].role = "model" THEN "assistant" ELSE messages[k].role,
              <<TextPart(Bodies(Content(messages[k])))>>)]]

(* ---------------------------- Gemini ---------------------------- *)
(* genkit_google_genai/models: the parts of a Gemini reply, whole or streamed, and  *)
(* a conversation written as contents.  Every chunk brings whole parts.            *)

(* PartConverter.from_gemini; a text part keeps no signature. *)
FromGemini(part) ==
  CASE part.kind = "thought" -> ThoughtPart(part.body, part.sig)
    [] part.kind = "text" -> TextPart(part.body)
    [] OTHER -> part

(* One response chunk of _streaming_generate: its parts are kept and streamed.      *)
GeminiTake(acc, ev) ==
  LET part == FromGemini(MPart(ev.kind, IF ev.kind = "call" THEN ev.id ELSE "", ev.body,
                               IF ev.kind = "thought" THEN ev.id ELSE "", <<>>))
  IN [acc |-> Append(acc, part), out |-> <<part>>, ok |-> TRUE]

GeminiFinish(acc) == Message(acc)

(* _generate with _contents_from_response: never without a part. *)
GeminiWhole(blocks) ==
  Message(IF blocks = <<>> THEN <<TextPart(<<>>)>>
          ELSE [k \in DOMAIN blocks |-> FromGemini(blocks[k])])

(* PartConverter.to_gemini: an empty text is a blank, calls and results keep their   *)
(* ids, thoughts their signature.                                                  *)
ToGemini(part) == IF part.kind = "text" /\ part.body = <<>> THEN TextPart(<<" ">>) ELSE part

(* _build_messages: system messages are configuration; a request has contents.  What  *)
(* of them a cached prefix holds is in module GeminiCalls.                          *)
GeminiWire(messages) ==
  LET turns == SelectSeq(messages, LAMBDA m : m.role # "system")
      Contents(m) == Turn(IF m.role = "model" THEN "model" ELSE "user",
                          [k \in DOMAIN m.parts |-> ToGemini(m.parts[k])])
  IN [ok |-> TRUE,
      messages |-> IF turns = <<>> THEN <<Turn("user", <<TextPart(<<" ">>)>>)>>
                   ELSE [k \in DOMAIN turns |-> Contents(turns[k])]]

(* ---------------------------- the Interactions API ---------------------------- *)
(* genkit_google_genai/_interactions: an interaction's steps read as a message, and *)
(* a conversation written as steps in which every call can be paired with its      *)
(* result.  Interactions are not streamed.                                         *)

(* from_interaction_step: a thought keeps its whole step, so its signature; the     *)
(* echo of our own input is dropped, an echoed result is stashed and sent back as   *)
(* it came, never as a tool response.                                              *)
FromStep(step) ==
  CASE step.kind = "echo" -> <<>>
    [] step.kind = "result" -> <<MPart("custom", step.id, step.body, "", <<>>)>>
    [] OTHER -> <<step>>

(* completed_response with parts_from_steps *)
InteractionsWhole(steps) ==
  Message(FlattenSeq([k \in DOMAIN steps |-> FromStep(steps[k])]))

(* --------------------------- pairing calls and results --------------------------- *)

Before(p, q) == p[1] < q[1] \/ (p[1] = q[1] /\ p[2] < q[2])

(* The fault of handing out a ref that another result already names. *)
NothingClaimed(ids) == {}

(* The refs that results already name. *)
Claimed(ids) == ids \ {""}

(* ensure_tool_ids: a call without a ref gets a fresh one; a result without one      *)
(* takes, in order, the ref of a call that no result names, or an orphan's.        *)
EnsureToolIds(messages) ==
  LET At(p) == messages[p[1]].parts[p[2]]
      places == UNION {{m} \X DOMAIN messages[m].parts : m \in DOMAIN messages}
      Nameless(kind) == {p \in places : At(p).kind = kind /\ At(p).id = ""}
      Rank(p, set) == Cardinality({q \in set : Before(q, p)})
      CallId(p) == IF At(p).id # "" THEN At(p).id
                   ELSE "auto" \o ToString(Rank(p, Nameless("call")))
      claimed == Claimed({At(p).id : p \in {q \in places : At(q).kind = "result"}})
      calls == SetToSortSeq({p \in places : At(p).kind = "call"}, Before)
      free == SelectSeq([k \in DOMAIN calls |-> CallId(calls[k])],
                        LAMBDA id : id \notin claimed)
      ResultId(p) ==
        LET rank == Rank(p, Nameless("result"))
        IN IF At(p).id # "" THEN At(p).id
           ELSE IF rank < Len(free) THEN free[rank + 1]
           ELSE "orphan" \o ToString(Cardinality(Nameless("call")) + rank - Len(free))
      Named(p) == CASE At(p).kind = "call" -> [At(p) EXCEPT !.id = CallId(p)]
                    [] At(p).kind = "result" -> [At(p) EXCEPT !.id = ResultId(p)]
                    [] OTHER -> At(p)
  IN [m \in DOMAIN messages |-> Turn(messages[m].role,
        [k \in DOMAIN messages[m].parts |-> Named(<<m, k>>)])]

(* ------------------------------ writing a request ------------------------------ *)

Inline(part) == part.kind = "text"

(* to_standalone_step: what was stashed goes back as the step it was. *)
Step(part) == Turn("step", <<IF part.kind = "custom" THEN [part EXCEPT !.kind = "result"]
                                                     ELSE part>>)

(* to_interaction_steps of one message: inline content is flushed before a step of   *)
(* its own, so the order of the parts is kept.                                      *)
MessageSteps(message) ==
  LET role == IF message.role = "model" THEN "model" ELSE "user"
      Flush(inline) == Unless(inline = <<>>, Turn(role, inline))
      AddPart(done, part) ==
        IF Inline(part) THEN [done EXCEPT !.inline = Append(@, part)]
        ELSE [steps |-> Append(done.steps \o Flush(done.inline), Step(part)), inline |-> <<>>]
      all == FoldLeft(AddPart, [steps |-> <<>>, inline |-> <<>>], message.parts)
  IN all.steps \o Flush(all.inline)

(* steps_with_folded_system_instruction: the texts of all system messages lead.      *)
InteractionsWire(messages) ==
  LET system == SelectSeq(messages, LAMBDA m : m.role = "system")
      text == FlattenSeq([k \in DOMAIN system |-> BodyOf(system[k].parts, "text")])
      turns == EnsureToolIds(SelectSeq(messages, LAMBDA m : m.role # "system"))
      steps == Unless(text = <<>>, Turn("user", <<TextPart(text)>>))
               \o FlattenSeq([k \in DOMAIN turns |-> MessageSteps(turns[k])])
  IN [ok |-> steps # <<>>, messages |-> steps]
=============================================================================
