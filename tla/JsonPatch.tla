------------------------------- MODULE JsonPatch -------------------------------
(* JSON patches (_ai/_json_patch.py): the runtime diffs the custom state of a    *)
(* session and a client applies the operations to its copy.  A document is       *)
(* null, a scalar, an object (keys are tuples of characters) or an array; a      *)
(* pointer is the text of RFC 6901, escapes included.  Operators that only TLC   *)
(* evaluates; test, move and copy, which diff_json never emits, are left out.     *)
EXTENDS Integers, Sequences, FiniteSets, SequencesExt

CONSTANT Documents   \* the states a session goes through

VARIABLES
  document,  \* the state at the server
  copy       \* the state at the client

patchVars == <<document, copy>>

(* --------------------------------- documents --------------------------------- *)

Null == [tag |-> "null"]
Scalar(v) == [tag |-> "scalar", v |-> v]
Object(members) == [tag |-> "object", members |-> members]
Array(items) == [tag |-> "array", items |-> items]

(* True and 1 are equal in Python but not of one type; the tag keeps them apart. *)
DeepEqual(a, b) == a = b

Container(d) == d.tag \in {"object", "array"}

(* ---------------------------------- pointers ---------------------------------- *)

Escape(key) == FlattenSeq([i \in DOMAIN key |-> CASE key[i] = "~" -> <<"~", "0">>
                                                  [] key[i] = "/" -> <<"~", "1">>
                                                  [] OTHER -> <<key[i]>>])

RECURSIVE Replaced(_, _, _)
Replaced(text, pair, char) ==
  CASE Len(text) < 2 -> text
    [] SubSeq(text, 1, 2) = pair -> <<char>> \o Replaced(SubSeq(text, 3, Len(text)), pair, char)
    [] OTHER -> <<Head(text)>> \o Replaced(Tail(text), pair, char)

(* Fault: ~0 decoded first, so that "~01" reads as a slash. *)
UnescapeSwapped(token) == Replaced(Replaced(token, <<"~", "0">>, "~"), <<"~", "1">>, "/")

(* ~1 before ~0, so that "~01" decodes to "~1". *)
Unescape(token) == Replaced(Replaced(token, <<"~", "1">>, "/"), <<"~", "0">>, "~")

Child(pointer, token) == pointer \o <<"/">> \o token

(* The tokens between the slashes; the root has none. *)
ParsePointer(pointer) ==
  LET slashes == SelectSeq([i \in DOMAIN pointer |-> i], LAMBDA i : pointer[i] = "/")
      End(k) == IF k = Len(slashes) THEN Len(pointer) ELSE slashes[k + 1] - 1
  IN [k \in DOMAIN slashes |-> Unescape(SubSeq(pointer, slashes[k] + 1, End(k)))]

Digits == <<"0", "1", "2", "3", "4", "5", "6", "7", "8", "9">>
Index(i) == <<Digits[i + 1]>>

(* int(token) of one digit, -1 for what is no index. *)
ArrayIndex(token, length, allowEnd) ==
  CASE token = <<"-">> -> IF allowEnd THEN length ELSE -1
    [] Len(token) = 1 /\ token[1] \in ToSet(Digits) ->
         (CHOOSE i \in DOMAIN Digits : Digits[i] = token[1]) - 1
    [] OTHER -> -1

(* ------------------------------------ diff ------------------------------------ *)

Op(op, path, value) == [op |-> op, path |-> path, value |-> value]

(* sorted(): any fixed order of the keys. *)
Sorted(keys) == SetToSeq(keys)

RECURSIVE DiffRecursive(_, _, _)
DiffRecursive(from, to, pointer) ==
  CASE DeepEqual(from, to) -> <<>>
    [] from.tag = "object" /\ to.tag = "object" ->
         LET keys == Sorted(DOMAIN from.members \union DOMAIN to.members)
             Ops(key) ==
               LET at == Child(pointer, Escape(key))
               IN CASE key \notin DOMAIN to.members -> <<Op("remove", at, Null)>>
                    [] key \notin DOMAIN from.members -> <<Op("add", at, to.members[key])>>
                    [] OTHER -> DiffRecursive(from.members[key], to.members[key], at)
         IN FlattenSeq([k \in DOMAIN keys |-> Ops(keys[k])])
    [] from.tag = "array" /\ to.tag = "array" ->
         LET n == Len(from.items)
             m == Len(to.items)
             common == IF n < m THEN n ELSE m
         IN FlattenSeq([i \in 1..common |->
                DiffRecursive(from.items[i], to.items[i], Child(pointer, Index(i - 1)))])
            \o [i \in 1..(m - common) |->
                  Op("add", Child(pointer, <<"-">>), to.items[common + i])]
            \o [i \in 1..(n - common) |->
                  Op("remove", Child(pointer, Index(n - i)), Null)]
    [] OTHER -> <<Op("replace", pointer, to)>>

DiffJson(from, to) == DiffRecursive(from, to, <<>>)

(* ------------------------------------ apply ------------------------------------ *)

EmptyObject == Object([k \in {} |-> Null])
Put(members, key, value) ==
  [k \in DOMAIN members \union {key} |-> IF k = key THEN value ELSE members[k]]
Without(members, key) == [k \in DOMAIN members \ {key} |-> members[k]]

SetMember(node, token, value, isAdd) ==
  CASE node.tag = "object" -> Object(Put(node.members, token, value))
    [] node.tag = "array" ->
         LET n == Len(node.items)
             i == ArrayIndex(token, n, isAdd)
         IN CASE token = <<"-">> -> Array(Append(node.items, value))
              [] i >= 0 /\ isAdd /\ i <= n -> Array(InsertAt(node.items, i + 1, value))
              [] i >= 0 /\ ~isAdd /\ i < n -> Array(ReplaceAt(node.items, i + 1, value))
              [] OTHER -> node
    [] OTHER -> Object(Put(EmptyObject.members, token, value))

(* Missing containers on the way are made; a scalar on the way gives way. *)
RECURSIVE SetPath(_, _, _, _)
SetPath(node, tokens, value, isAdd) ==
  LET token == Head(tokens)
      Inside(child) == SetPath(IF Container(child) THEN child ELSE EmptyObject,
                               Tail(tokens), value, isAdd)
  IN CASE tokens = <<>> -> value
       [] node.tag = "null" -> SetPath(EmptyObject, tokens, value, isAdd)
       [] Len(tokens) = 1 -> SetMember(node, token, value, isAdd)
       [] node.tag = "object" ->
            Object(Put(node.members, token,
                       Inside(IF token \in DOMAIN node.members THEN node.members[token]
                                                               ELSE Null)))
       [] node.tag = "array" ->
            LET i == ArrayIndex(token, Len(node.items), FALSE)
            IN IF i \in 0..(Len(node.items) - 1)
                 THEN Array([node.items EXCEPT ![i + 1] = Inside(@)]) ELSE node
       [] OTHER -> SetPath(EmptyObject, tokens, value, isAdd)

(* A member that is not there is left as it is. *)
RECURSIVE RemovePath(_, _)
RemovePath(node, tokens) ==
  LET token == Head(tokens)
      i == ArrayIndex(token, Len(node.items), FALSE)
  IN CASE tokens = <<>> \/ node.tag = "null" -> Null
       [] node.tag = "object" /\ token \in DOMAIN node.members ->
            Object(IF Len(tokens) = 1 THEN Without(node.members, token)
                   ELSE [node.members EXCEPT ![token] = RemovePath(@, Tail(tokens))])
       [] node.tag = "array" /\ i \in 0..(Len(node.items) - 1) ->
            Array(IF Len(tokens) = 1 THEN RemoveAt(node.items, i + 1)
                  ELSE [node.items EXCEPT ![i + 1] = RemovePath(@, Tail(tokens))])
       [] OTHER -> node

ApplyOp(doc, op) ==
  LET tokens == ParsePointer(op.path)
  IN CASE op.op = "add" -> SetPath(doc, tokens, op.value, TRUE)
       [] op.op = "replace" -> SetPath(doc, tokens, op.value, FALSE)
       [] op.op = "remove" -> RemovePath(doc, tokens)

ApplyJsonPatch(doc, patch) == FoldLeft(ApplyOp, doc, patch)

(* -------------------------------- specification -------------------------------- *)

PatchInit == document \in Documents /\ copy = document

(* The state becomes another one; the client applies the difference. *)
StateChanges(to) ==
  /\ to # document
  /\ document' = to
  /\ copy' = ApplyJsonPatch(copy, DiffJson(document, to))

PatchNext == \E to \in Documents : StateChanges(to)

(* A client that had the state before a change and applies the patch of the      *)
(* change has the state after it, whatever changed: keys that need escapes or    *)
(* look like indices, nulls, arrays that grow or shrink while items change,       *)
(* values that change their type.                                               *)
CopyFollows == copy = document
=============================================================================
