-------------------------------- MODULE Formats --------------------------------
(* The item formats of generate (_ai/_formats/_array.py, _jsonl.py) and the      *)
(* extraction they stand on (_core/_extract_json.py): a reply streams in chunks, *)
(* each chunk is parsed for the items it completes, and the finished message is  *)
(* parsed as a whole.  Text is a sequence of tokens: brackets, braces, commas,   *)
(* quotes (q), backslashes (b), line breaks (nl) and words (w).                   *)
EXTENDS Integers, Sequences, FiniteSets, SequencesExt

CONSTANTS Items,     \* the texts json5 reads as one object
          FormatAnswers    \* [format, text] of the replies

VARIABLES
  answered,  \* the reply being streamed; never changes
  upTo,      \* tokens that arrived
  items      \* what the chunk parsers gave, in order

formatVars == <<answered, upTo, items>>

Slice(text, i, j) == SubSeq(text, i, j)
Blanks == {"nl"}
Strip(text) == SelectSeq(text, LAMBDA c : c \notin Blanks)

(* ------------------------------- extracting JSON ------------------------------- *)

(* The arrays of items json5 reads, up to three items. *)
Joined(s) == FlattenSeq([i \in DOMAIN s |-> IF i = 1 THEN s[i] ELSE <<",">> \o s[i]])
ArrayItems(text) ==
  LET lists == {s \in BoundedSeq(Items, 3) : <<"[">> \o Joined(s) \o <<"]">> = Strip(text)}
  IN IF lists = {} THEN <<"none">> ELSE CHOOSE s \in lists : TRUE

(* One character of the scans: the character after a backslash is skipped, quotes *)
(* open and close strings, and what is inside a string counts for nothing.        *)
Skips(scan, c) == scan.esc \/ scan.str \/ c \in {"b", "q"}
Reads(scan, c) ==
  [scan EXCEPT !.esc = ~scan.esc /\ c = "b",
               !.str = IF ~scan.esc /\ c = "q" THEN ~@ ELSE @]

(* extract_json of a text that is not JSON as it stands: from the first opening   *)
(* bracket or brace outside a string to the one that closes it.                  *)
FirstValue(text) ==
  LET Step(scan, i) ==
        LET c == text[i]
            opens == scan.open = "none" /\ c \in {"{", "["}
        IN IF scan.to # 0 \/ Skips(scan, c) THEN IF scan.to # 0 THEN scan ELSE Reads(scan, c)
           ELSE CASE opens -> [scan EXCEPT !.open = c, !.from = i, !.depth = 1]
                  [] c = scan.open -> [scan EXCEPT !.depth = @ + 1]
                  [] c = (IF scan.open = "{" THEN "}" ELSE "]") /\ scan.open # "none" ->
                       [scan EXCEPT !.depth = @ - 1, !.to = IF scan.depth = 1 THEN i ELSE 0]
                  [] OTHER -> scan
  IN FoldLeftDomain(Step, [open |-> "none", from |-> 0, to |-> 0, depth |-> 0,
                           str |-> FALSE, esc |-> FALSE], text)

(* extract_json_array_from_text: the objects that end after the cursor, and the    *)
(* place behind the last of them.                                               *)
ArrayFromText(text, cursor) ==
  LET starts == {i \in DOMAIN text : text[i] = "["}
      first == IF cursor # 0 THEN cursor
               ELSE CHOOSE i \in starts : \A j \in starts : i <= j
      Step(scan, i) ==
        LET c == text[i]
        IN CASE i <= first \/ scan.stop -> scan
             [] Skips(scan, c) -> Reads(scan, c)
             [] c = "{" -> [scan EXCEPT !.depth = @ + 1, !.from = IF scan.depth = 0 THEN i ELSE @]
             [] c = "}" ->
                  IF scan.depth = 1 /\ scan.from # 0 /\ Strip(Slice(text, scan.from, i)) \in Items
                    THEN [scan EXCEPT !.depth = 0, !.from = 0, !.cursor = i,
                                      !.items = Append(@, Strip(Slice(text, scan.from, i)))]
                    ELSE [scan EXCEPT !.depth = @ - 1]
             [] c = "]" /\ scan.depth = 0 -> [scan EXCEPT !.stop = TRUE]
             [] OTHER -> scan
  IN IF cursor = 0 /\ starts = {} THEN [items |-> <<>>, cursor |-> Len(text)]
     ELSE LET end == FoldLeftDomain(Step, [depth |-> 0, from |-> 0, stop |-> FALSE,
                         items |-> <<>>, cursor |-> first, str |-> FALSE, esc |-> FALSE], text)
          IN [items |-> end.items, cursor |-> end.cursor]

(* --------------------------------- the formats --------------------------------- *)

(* Fault: goes on where the text before ended, in the middle of an item or not. *)
ArrayChunkFromHere(before, text) == ArrayFromText(text, Len(before)).items

(* ArrayFormat's chunk parser goes on from the cursor of the text before.        *)
ArrayChunk(before, text) ==
  ArrayFromText(text, IF before = <<>> THEN 0 ELSE ArrayFromText(before, 0).cursor).items

(* ArrayFormat's message parser: None unless the first JSON value is an array.    *)
ArrayMessage(text) ==
  LET whole == ArrayItems(text)
      value == FirstValue(text)
  IN IF whole # <<"none">> THEN whole
     ELSE IF value.open = "[" /\ value.to # 0 THEN ArrayItems(Slice(text, value.from, value.to))
     ELSE <<"none">>

Lines(text) ==
  LET breaks == SelectSeq([i \in DOMAIN text |-> i], LAMBDA i : text[i] = "nl")
      ends == Append(breaks, Len(text) + 1)
  IN [k \in DOMAIN ends |-> Slice(text, IF k = 1 THEN 1 ELSE ends[k - 1] + 1, ends[k] - 1)]

IsObjectLine(line) == line # <<>> /\ line[1] = "{"

(* JsonlFormat's chunk parser: from the line the chunk before ended in, up to the *)
(* first line that is not JSON yet.                                             *)
JsonlChunk(before, text) ==
  LET breaks == {i \in DOMAIN before : before[i] = "nl"}
      start == IF breaks = {} THEN 1
               ELSE (CHOOSE i \in breaks : \A j \in breaks : i >= j) + 1
      lines == SelectSeq(Lines(Slice(text, start, Len(text))), IsObjectLine)
      bad == {k \in DOMAIN lines : lines[k] \notin Items}
  IN IF bad = {} THEN lines ELSE SubSeq(lines, 1, (CHOOSE k \in bad : \A j \in bad : k <= j) - 1)

(* No line of a modelled reply opens an object and is not JSON. *)
JsonlMessage(text) == SelectSeq(Lines(text), LAMBDA line : IsObjectLine(line) /\ line \in Items)

ParseChunk(format, before, text) ==
  IF format = "array" THEN ArrayChunk(before, text) ELSE JsonlChunk(before, text)
ParseMessage(format, text) ==
  IF format = "array" THEN ArrayMessage(text) ELSE JsonlMessage(text)

(* -------------------------------- specification -------------------------------- *)

FormatInit == answered \in FormatAnswers /\ upTo = 0 /\ items = <<>>

Arrives(n) ==
  /\ n > 0 /\ upTo + n <= Len(answered.text)
  /\ upTo' = upTo + n
  /\ items' = items \o ParseChunk(answered.format, SubSeq(answered.text, 1, upTo),
                                  SubSeq(answered.text, 1, upTo + n))
  /\ UNCHANGED answered

FormatNext == \E n \in 1..Len(answered.text) : Arrives(n)

(* A line of JSONL is answered again by every chunk that goes on in its line. *)
Once(s) == SelectSeq([k \in DOMAIN s |-> IF k > 1 /\ s[k] = s[k - 1] THEN <<>> ELSE s[k]],
                     LAMBDA x : x # <<>>)
Received == IF answered.format = "array" THEN items ELSE Once(items)

(* However a reply is cut into chunks, the caller who takes the items as they     *)
(* arrive has, at the end, the items of the finished message, in its order: none *)
(* is lost at a cut inside a string, an escape, a nested object, between items or *)
(* in the text around them, and none of an array comes twice.                    *)
ItemsArrive ==
  upTo = Len(answered.text) => Received = ParseMessage(answered.format, answered.text)
=============================================================================
