----------------------------- MODULE SurfaceStream -----------------------------
(* The agent-to-UI bridge (genkit-a2ui: _parser.py, _middleware.py): while a      *)
(* model's reply streams, ```a2ui fences are cut out of the text and become card *)
(* parts; the finished message is parsed again, with the same surface ids, and     *)
(* says the same unless a part that is not text breaks into a fence.  Text is a   *)
(* sequence of tokens: a backtick, the word of the fence, a line break, prose, a  *)
(* part that is not text (data), and the JSON of a block as one token, or cut by  *)
(* backticks or line breaks of its own.                                         *)
EXTENDS Naturals, FiniteSets, Sequences, SequencesExt

CONSTANTS SurfaceReplies,   \* replies: sequences of pieces, prose or a fenced block
          Modes      \* values of validate: "off", "warn", "strict"

VARIABLES
  written,   \* the reply being streamed; never changes
  mode,      \* validate; never changes
  onChunk,   \* whether the caller streams; never changes
  arrived,   \* tokens that arrived so far
  parser,    \* the StreamParser of the stream
  shown,  \* what the caller's on_chunk got: tokens and cards
  message    \* how the turn ended: not yet, failed, or with what message

surfaceVars == <<written, mode, onChunk, arrived, parser, shown, message>>

(* ------------------------------------ text ------------------------------------ *)

Fence == <<"tick", "tick", "tick">>
Opening == Fence \o <<"a2ui", "nl">>

Body(b) == CASE b = "quoted" -> <<"quo", "tick", "tick", "tick", "ted">>
             [] b = "lines" -> <<"li", "nl", "nes">>
             [] b = "empty" -> <<>>
             [] OTHER -> <<b>>
BlockBodies == {"create", "update", "known", "rootless", "foreign", "bad", "quoted", "lines", "empty"}
Blank == {"nl"}

IsBlock(piece) == "body" \in DOMAIN piece
FencedBlock(piece) ==
  Opening \o piece.body \o (IF piece.closed THEN <<"nl">> \o Fence \o <<"nl">> ELSE <<>>)

(* A block may have a data part behind some of its tokens: in the middle of it.    *)
Written(piece) ==
  CASE ~IsBlock(piece) -> piece.prose
    [] piece.data = 0 -> FencedBlock(piece)
    [] OTHER -> InsertAt(FencedBlock(piece), piece.data + 1, "data")
Text(pieces) == FlattenSeq([i \in DOMAIN pieces |-> Written(pieces[i])])

At(text, i, part) == i + Len(part) - 1 <= Len(text) /\ SubSeq(text, i, i + Len(part) - 1) = part
From(text, i) == SubSeq(text, i, Len(text))
Least(S) == CHOOSE i \in S : \A j \in S : i <= j

(* OPEN_FENCE_RE and CLOSE_FENCE_RE (at the start of a line, looking from scan):  *)
(* where they match, 0 for nowhere.  HeldBack is the length that                *)
(* PARTIAL_OPEN_FENCE_RE matches at the end, of the text or of its last line.   *)
OpenAt(text) == LET m == {i \in DOMAIN text : At(text, i, Opening)}
                IN IF m = {} THEN 0 ELSE Least(m)
CloseAt(text, scan) ==
  LET m == {i \in (scan + 1)..Len(text) :
              At(text, i, Fence) /\ (i = scan + 1 \/ text[i - 1] = "nl")}
  IN IF m = {} THEN 0 ELSE Least(m)

HeldBack(text) ==
  LET Partial == {<<"tick">>, <<"tick", "tick">>, Fence}
      m == {i \in DOMAIN text : From(text, i) \in
              Partial \union {t \o <<"nl">> : t \in Partial} \union {Fence \o <<"a2ui">>}}
  IN IF m = {} THEN 0 ELSE Len(text) - Least(m) + 1

(* ---------------------------------- one block ---------------------------------- *)

(* A card part among the tokens: what it does and to which surface. *)
SurfaceId == <<"surface1", "surface2", "surface3">>
Card(kind, surface) == <<kind, surface>>

(* finalize_block: what a block becomes: cards, its own text, nothing, or a       *)
(* rejection that fails the turn.  `known` updates the surface of an earlier      *)
(* turn; `rootless` has no root component, `foreign` one that the catalog lacks. *)
FinalizeBlock(raw, sid, validate) ==
  LET text == SelectSeq(raw, LAMBDA c : c # "nl")
      means == IF text = <<>> THEN "empty"
               ELSE IF \E b \in BlockBodies : SelectSeq(Body(b), LAMBDA c : c # "nl") = text
               THEN CHOOSE b \in BlockBodies : SelectSeq(Body(b), LAMBDA c : c # "nl") = text
               ELSE "bad"
      Rejected == IF validate = "strict" THEN [as |-> "raise"] ELSE [as |-> "nothing"]
      Created == [as |-> "cards", cards |-> Card("createSurface", SurfaceId[sid])
                                              \o Card("updateComponents", SurfaceId[sid])]
  IN CASE means = "empty" -> [as |-> "nothing"]
       [] means = "bad" -> IF validate = "strict" THEN [as |-> "raise"]
                           ELSE [as |-> "prose", prose |-> Opening \o raw]
       [] means = "known" -> [as |-> "cards", cards |-> Card("updateComponents", "earlier")]
       [] means \in {"rootless", "foreign"} /\ validate # "off" -> Rejected
       [] OTHER -> Created

(* ---------------------------------- the parser ---------------------------------- *)

NewParser(validate) ==
  [buffer |-> <<>>, inBlock |-> FALSE, scan |-> 0, sid |-> 0, minted |-> 0,
   validate |-> validate, failed |-> FALSE]

(* surface_id(): the stream mints ids one after the other; the parse of the       *)
(* message replays them from the first.                                         *)
Mint(p) == p.minted + 1

(* take_open_fence *)
Opened(p, i) ==
  [p EXCEPT !.buffer = From(@, i + Len(Opening)), !.inBlock = TRUE, !.scan = 0,
            !.sid = Mint(p), !.minted = @ + 1]

(* What a closed or flushed block leaves behind. *)
Left(p, rest) == [p EXCEPT !.buffer = rest, !.inBlock = FALSE, !.scan = 0]
WithoutBreak(text) == IF text # <<>> /\ Head(text) = "nl" THEN Tail(text) ELSE text

Yield(p, out) == [p |-> p, out |-> out]

BlockOut(result, closed) ==
  CASE result.as = "cards" -> result.cards
    [] result.as = "prose" -> result.prose \o (IF closed THEN <<"nl">> \o Fence ELSE <<>>)
    [] OTHER -> <<>>

(* The scan for the closing fence goes on from the last line break seen. *)
LastBreak(p) ==
  LET breaks == {i \in DOMAIN p.buffer : p.buffer[i] = "nl"}
  IN IF breaks = {} THEN p.scan
     ELSE LET nl == CHOOSE i \in breaks : \A j \in breaks : i >= j
          IN IF nl > p.scan THEN nl ELSE p.scan

(* drain: take_open_fence, take_safe_prose and take_closed_block until nothing    *)
(* more can be taken.                                                           *)
RECURSIVE Drain(_, _)
Drain(p, final) ==
  LET open == OpenAt(p.buffer)
      close == CloseAt(p.buffer, p.scan)
      safe == Len(p.buffer) - HeldBack(p.buffer)
      Then(q, out) == LET more == Drain(q, final) IN Yield(more.p, out \o more.out)
      Finalized(raw) == FinalizeBlock(raw, p.sid, p.validate)
  IN CASE p.failed -> Yield(p, <<>>)
       [] ~p.inBlock /\ open # 0 -> Then(Opened(p, open), SubSeq(p.buffer, 1, open - 1))
       [] ~p.inBlock /\ final -> Yield([p EXCEPT !.buffer = <<>>], p.buffer)
       [] ~p.inBlock -> Yield([p EXCEPT !.buffer = From(@, safe + 1)],
                              SubSeq(p.buffer, 1, safe))
       [] close = 0 /\ ~final -> Yield([p EXCEPT !.scan = LastBreak(p)], <<>>)
       [] OTHER ->
            LET raw == IF close = 0 THEN p.buffer ELSE SubSeq(p.buffer, 1, close - 1)
                rest == IF close = 0 THEN <<>>
                        ELSE WithoutBreak(From(p.buffer, close + Len(Fence)))
                result == Finalized(raw)
            IN IF result.as = "raise" THEN Yield([p EXCEPT !.failed = TRUE], <<>>)
               ELSE Then(Left(p, rest), BlockOut(result, close # 0))

Push(p, text) == Drain([p EXCEPT !.buffer = @ \o text], FALSE)
Flush(p) == Drain(p, TRUE)

(* rewrite_parts: text parts go through the parser; a part that is not text        *)
(* passes, and ends what is open before it only in the finished message.         *)
RECURSIVE RewriteParts(_, _, _)
RewriteParts(p, parts, flushNontext) ==
  LET ended == IF flushNontext THEN Flush(p) ELSE Yield(p, <<>>)
      data == {i \in DOMAIN parts : parts[i] = "data"}
      upTo == IF data = {} THEN Len(parts) + 1 ELSE Least(data)
      step == IF parts[1] = "data" THEN Yield(ended.p, ended.out \o <<"data">>)
              ELSE Push(p, SubSeq(parts, 1, upTo - 1))
      more == RewriteParts(step.p, From(parts, IF parts[1] = "data" THEN 2 ELSE upTo),
                           flushNontext)
  IN IF parts = <<>> THEN ended ELSE Yield(more.p, step.out \o more.out)

(* -------------------------------- the middleware -------------------------------- *)

NoMessage == [as |-> "none", said |-> <<>>]
TurnFailed == [as |-> "failed", said |-> <<>>]
Said(said) == [as |-> "said", said |-> said]

SurfaceInit ==
  /\ written \in SurfaceReplies /\ mode \in Modes /\ onChunk \in BOOLEAN
  /\ arrived = 0 /\ parser = NewParser(mode)
  /\ shown = <<>> /\ message = NoMessage

(* A chunk of the model's: ChunkHandler parses it and passes on what is ready; an *)
(* error is stashed, and later chunks are dropped.                              *)
Chunk(n) ==
  /\ message = NoMessage /\ n > 0 /\ arrived + n <= Len(Text(written))
  /\ arrived' = arrived + n
  /\ LET chunk == SubSeq(Text(written), arrived + 1, arrived + n)
         step == IF onChunk THEN RewriteParts(parser, chunk, FALSE) ELSE Yield(parser, <<>>)
     IN parser' = step.p /\ shown' = IF step.p.failed THEN shown ELSE shown \o step.out
  /\ UNCHANGED <<written, mode, onChunk, message>>

(* The call of the model raises, and so does the turn.                           *)
ModelRaises ==
  /\ message = NoMessage
  /\ message' = [as |-> "raised", said |-> <<>>]
  /\ UNCHANGED <<written, mode, onChunk, arrived, parser, shown>>

(* The fault of treating a stopped turn like a finished one.                      *)
StoppedIsFlushed ==
  /\ message = NoMessage
  /\ parser' = Flush(parser).p
  /\ shown' = shown \o Flush(parser).out
  /\ message' = [as |-> "raw", said |-> SubSeq(Text(written), 1, arrived)]
  /\ UNCHANGED <<written, mode, onChunk, arrived>>

(* The model was stopped, wherever it was (a finish reason of                     *)
(* SKIP_REWRITE_FINISH_REASONS): its message goes out as it is.  What the stream's  *)
(* parser holds back is dropped, and so is a stashed error.                      *)
ModelStopped ==
  /\ message = NoMessage
  /\ message' = [as |-> "raw", said |-> SubSeq(Text(written), 1, arrived)]
  /\ UNCHANGED <<written, mode, onChunk, arrived, parser, shown>>

(* The model finished: the stashed error is raised, or what the stream's parser    *)
(* holds back is flushed; then the whole message is parsed anew.                *)
ModelReturns ==
  /\ message = NoMessage /\ arrived = Len(Text(written))
  /\ LET tail == IF onChunk THEN Flush(parser) ELSE Yield(parser, <<>>)
         whole == RewriteParts(NewParser(mode), Text(written), TRUE)
     IN IF parser.failed \/ tail.p.failed
          THEN message' = TurnFailed /\ UNCHANGED <<parser, shown>>
          ELSE /\ parser' = tail.p
               /\ shown' = shown \o tail.out
               /\ message' = IF whole.p.failed THEN TurnFailed ELSE Said(whole.out)
  /\ UNCHANGED <<written, mode, onChunk, arrived>>

SurfaceNext ==
  \/ ModelRaises \/ ModelStopped \/ ModelReturns
  \/ \E n \in 1..Len(Text(written)) : Chunk(n)

(* --------------------------------- properties --------------------------------- *)

(* Line breaks around fences come and go with the cuts between chunks. *)
Essence(out) == SelectSeq(out, LAMBDA c : c \notin Blank)
WithoutData(out) == SelectSeq(out, LAMBDA c : c # "data")
Cards(out) == SelectSeq(out, LAMBDA c : c = "updateComponents")

(* What a reply means, piece by piece, whatever the chunks: prose as it is, a block *)
(* as its cards, under the id of its turn among the blocks; up to the first block  *)
(* that fails the turn.                                                          *)
Meant(pieces, validate) ==
  LET Blocks(i) == Len(SelectSeq(SubSeq(pieces, 1, i), IsBlock))
      Means(i) == IF IsBlock(pieces[i]) THEN FinalizeBlock(pieces[i].body, Blocks(i), validate)
                  ELSE [as |-> "prose", prose |-> pieces[i].prose]
      Out(i) == IF IsBlock(pieces[i]) THEN BlockOut(Means(i), pieces[i].closed) ELSE pieces[i].prose
      raising == {i \in DOMAIN pieces : Means(i).as = "raise"}
      upTo == IF raising = {} THEN Len(pieces) ELSE Least(raising) - 1
  IN [as |-> IF raising = {} THEN "said" ELSE "failed",
      said |-> FlattenSeq([i \in 1..upTo |-> Out(i)])]

(* The stream reads on across a data part.  The message ends what is open at one:   *)
(* what came of the block before it is the block, or prose if it had not opened,    *)
(* and the rest is prose.                                                        *)
ToStream(pieces) == Meant(SelectSeq(pieces, LAMBDA x : IsBlock(x) \/ x.prose # <<"data">>), mode)
CutAtData(piece) ==
  IF ~IsBlock(piece) \/ piece.data = 0 THEN <<piece>>
  ELSE LET fenced == FencedBlock(piece)
           before == SubSeq(fenced, 1, piece.data)
       IN <<IF piece.data < Len(Opening) THEN [prose |-> before]
            ELSE [body |-> From(before, Len(Opening) + 1), closed |-> FALSE],
            [prose |-> <<"data">> \o From(fenced, piece.data + 1)]>>
ToMessage(pieces) == Meant(FlattenSeq([i \in DOMAIN pieces |-> CutAtData(pieces[i])]), mode)

(* A data part breaks in: it is in the middle of a block, or behind an open one or   *)
(* behind text that may be the start of a fence.                                 *)
DataBreaksIn(pieces) ==
  \E i \in DOMAIN pieces :
    \/ IsBlock(pieces[i]) /\ pieces[i].data # 0
    \/ /\ i > 1 /\ pieces[i] = [prose |-> <<"data">>]
       /\ IF IsBlock(pieces[i - 1]) THEN ~pieces[i - 1].closed
          ELSE HeldBack(pieces[i - 1].prose) > 0

(* However the reply is cut into chunks and wherever it ends, what the stream shows   *)
(* is never taken back: it is the beginning of what the text means, no piece of a     *)
(* fence leaks as prose, and before the model has finished there is no card of a     *)
(* block that has not closed ("the stop is the result, not a salvaged card",         *)
(* _middleware.py:76).                                                           *)
StreamShowsWhatIsReady ==
  LET closed == {i \in DOMAIN written : IsBlock(written[i]) /\ written[i].closed
                    /\ Len(Text(SubSeq(written, 1, i))) - 1 <= arrived}
  IN /\ IsPrefix(Essence(WithoutData(shown)), Essence(WithoutData(ToStream(written).said)))
     /\ message.as \in {"none", "raw"} => Len(Cards(shown)) <= Cardinality(closed)

(* "The finished message is parsed again so response.message matches;              *)
(* SurfaceIdReplay replays the same ids" (_middleware.py:94).  Of a turn that is not   *)
(* stopped the caller of the stream gets everything its text means, the reader of    *)
(* the message what its stretches between data parts mean, each under the ids of its  *)
(* blocks; a block that fails the turn fails it for both.  Where no data part breaks   *)
(* in the two are the same, with the data parts in their places.  (Where one does     *)
(* they may differ: the stream reads on, the message does not.)                   *)
StreamMatchesMessage ==
  LET streamed == ToStream(written)
      finished == ToMessage(written)
  IN /\ message.as = "failed" => finished.as = "failed" \/ (onChunk /\ streamed.as = "failed")
     /\ message.as = "said" =>
          /\ finished.as = "said" /\ Essence(message.said) = Essence(finished.said)
          /\ onChunk =>
               /\ streamed.as = "said"
               /\ Essence(WithoutData(shown)) = Essence(WithoutData(streamed.said))
               /\ ~DataBreaksIn(written) => Essence(shown) = Essence(message.said)
=============================================================================
