---------------------------- MODULE Generate_proofs ----------------------------
(***************************************************************************)
(* Proofs about the tool loop of generate(), for any number of tools,      *)
(* rounds, parallel requests and calls: what a response carries can be     *)
(* sent again, and no answer of a round that was closed is lost on the     *)
(* way out through the hooks.                                              *)
(*                                                                         *)
(* The nested run_wrap_generate calls are a stack of any height.  Every    *)
(* frame above the first was given a history that ends in the answers of   *)
(* a round, so whoever raises, at whatever height, hands one back that the *)
(* model can go on with; only the first frame may have been given a pause. *)
(* What makes remember() safe is that a hook has either not seen the reply *)
(* yet, or sees it as the last message (Remembered).                       *)
(***************************************************************************)
EXTENDS ToolPauses, ActionServers, TraceExport, FiniteSetTheorems, WellFoundedInduction, TLAPS

-----------------------------------------------------------------------------
(* Types.  A request is answered under its own id, whichever of the marks it *)
(* carries; a model message never asks twice under one id.                   *)

Marks == {"asked", "interrupt", "pending", "resolved"}
Request == {p \in [id : Nat, tool : Tools \cup {Ghost}, ref : Nat, mark : Marks, of : Nat] :
              p.ref = p.id /\ p.of = p.id}
Answer == {a \in [id : Nat, of : Nat] : a.of = a.id}

\* A set of requests no two of which share an id.
DistinctIds(parts) == \A p, q \in parts : p.id = q.id => p = q

ModelMsg == {m \in [role : {"model"}, parts : SUBSET Request, ver : Nat] : DistinctIds(m.parts)}
ToolMsg == [role : {"tool"}, parts : SUBSET Answer, ver : {0}]
Message == {User} \cup ModelMsg \cup ToolMsg
Carrier == [fin : {"stop", "interrupted", "aborted", "failed"}, msg : ModelMsg \cup {NoMsg}, request : Seq(Message)]

-----------------------------------------------------------------------------
(* The invariant *)

GTypes ==
  /\ resp \in Carrier /\ result \in Carrier /\ entry \in Seq(Message) /\ messages \in Seq(Message)
  /\ frames \in Seq(Seq(Message)) /\ last \in ModelMsg \cup {NoMsg, Unset} /\ nextId \in Nat

\* Every request is answered by the message behind it, and no two replies stand together.
Answered(h) ==
  \A i \in 1..(Len(h) - 1) : h[i].role = "model" =>
    /\ h[i + 1].role # "model"
    /\ h[i].parts # {} => h[i + 1].role = "tool" /\ Ids(h[i + 1].parts) = Ids(h[i].parts)
Good(h) == h \in Seq(Message) /\ Answered(h)

\* A history that the model is to go on with; one that ends in a pause.
Asks(h) == h # <<>> /\ Last(h).role # "model"
IsPause(m) == m \in ModelMsg /\ m.parts # {} /\ \A p \in m.parts : p.mark \in {"interrupt", "pending"}
Ends(h) == OpenParts(h) = {} \/ IsPause(Last(h))

\* The answers to these requests are in the history.
Has(h, ids) == \A x \in ids : \E i \in 1..Len(h) : h[i].role = "tool" /\ \E p \in h[i].parts : p.id = x

\* What a hook has not seen yet, or has seen as the last message.
Remembered ==
  /\ Good(messages) /\ OpenParts(messages) = {} /\ Has(messages, closed)
  /\ result.msg = NoMsg \/ (result.msg \in ModelMsg /\ result.msg.parts = {})
  /\ \/ result.msg = NoMsg
     \/ Asks(messages) /\ last = Unset
     \/ messages # <<>> /\ Last(messages) = result.msg /\ last = result.msg

ClientInv ==
  /\ Good(Messages(resp)) /\ Ends(Messages(resp))
  /\ pc # "idle" =>
       /\ Good(entry)
       /\ IF resume = NoResume THEN Asks(entry) ELSE entry # <<>> /\ IsPause(Last(entry))
  /\ \A r \in resume : r.of = r.ref
  /\ pc # "idle" /\ resume # NoResume =>
       \A r \in resume : \E p \in Interrupts(entry) :
         r.of = p.id /\ r.tool = p.tool /\ r.how \in {"respond", "restart"}

FramesInv ==
  /\ pc = "idle" <=> frames = <<>>
  /\ frames # <<>> => frames[1] = entry
  /\ \A k \in 2..Len(frames) : Good(frames[k]) /\ Asks(frames[k])
  /\ Len(frames) > 1 => closed # {}

LoopInv ==
  /\ pc = "door" => Has(Last(frames), closed) /\ (Len(frames) = 1 => closed = {})
  /\ pc \in {"before", "resume", "gatherResume"} => messages = Last(frames) /\ last = Unset /\ Has(messages, closed)
  /\ pc = "before" /\ Len(frames) = 1 => closed = {}
  /\ pc \in {"resume", "gatherResume"} => Len(frames) = 1 /\ resume # NoResume /\ closed = {}
  /\ pc \in {"model", "gather"} =>
       /\ Good(messages) /\ Asks(messages) /\ Has(messages, closed) /\ last = Unset
       /\ closed = {} => resume = NoResume

RoundInv ==
  /\ pc \notin {"gather", "gatherResume"} => out = NoRound
  /\ pc = "gather" => round # {} /\ round \subseteq Request /\ DistinctIds(round)
  /\ pc = "gatherResume" => round = OpenParts(entry) /\ \A p \in round : Resolution(p) # "unresolved"
  /\ strays # {} => pc \in {"after", "return", "idle"} /\ (pc # "idle" => result.fin # "interrupted")

ResultInv ==
  pc \in {"after", "return"} =>
    /\ Good(Messages(result)) /\ Has(Messages(result), closed)
    /\ result.fin = "interrupted" => IsPause(result.msg)
    /\ OpenParts(Messages(result)) # {} =>
         \/ result.fin = "interrupted"
         \/ pc = "return" /\ Len(frames) = 1 /\ Messages(result) = entry
    /\ result.fin # "interrupted" /\ (pc = "after" \/ Len(frames) > 1) => Remembered
    /\ pc = "after" /\ result.fin # "interrupted" /\ closed = {} => resume = NoResume

GInv == GTypes /\ ClientInv /\ FramesInv /\ LoopInv /\ RoundInv /\ ResultInv

-----------------------------------------------------------------------------
(* Messages and histories *)

\* What kinds of messages there are, and what each may carry.
LEMMA Kinds ==
  /\ User \in Message /\ User.role = "user" /\ User.parts = {}
  /\ \A m \in ModelMsg : /\ m \in Message /\ m.role = "model" /\ m.parts \subseteq Request /\ m.ver \in Nat
                         /\ m \notin {NoMsg, Unset} /\ m = Model(m.parts, m.ver)
  /\ \A m \in Message : m.role \in {"user", "model", "tool"} /\ (m.role = "model" => m \in ModelMsg) /\ m # NoMsg
  /\ \A m \in Message : m.role = "tool" => m.parts \subseteq Answer
  /\ \A m \in Message : m.role = "user" => m.parts = {}
  /\ \A parts \in SUBSET Answer : Tool(parts) \in Message
  /\ \A parts \in SUBSET Request, ver \in Nat : DistinctIds(parts) => Model(parts, ver) \in ModelMsg
<1>1. \A m \in Message : m \in {User} \cup ModelMsg \cup ToolMsg
  BY DEF Message
<1>2. \A m \in ToolMsg : m.role = "tool" /\ m.parts \subseteq Answer /\ m # NoMsg
  BY DEF ToolMsg, NoMsg
<1>3. \A m \in ModelMsg : m.role = "model" /\ m.parts \subseteq Request /\ m.ver \in Nat /\ m = Model(m.parts, m.ver)
                          /\ m \notin {NoMsg, Unset}
  BY DEF ModelMsg, NoMsg, Unset, Model
<1>4. User.role = "user" /\ User.parts = {} /\ User # NoMsg
  BY DEF User, NoMsg
<1>5. \A parts \in SUBSET Answer : Tool(parts) \in ToolMsg
  BY DEF Tool, ToolMsg
<1>6. \A parts \in SUBSET Request, ver \in Nat : DistinctIds(parts) => Model(parts, ver) \in ModelMsg
  BY DEF Model, ModelMsg
<1>7. \A m \in ModelMsg \cup ToolMsg \cup {User} : m \in Message
  BY DEF Message
<1> QED
  BY <1>1, <1>2, <1>3, <1>4, <1>5, <1>6, <1>7

\* A sequence without its last element, and that element.
LEMMA FrontLast ==
  ASSUME NEW S, NEW h \in Seq(S), h # <<>>
  PROVE  /\ Front(h) \in Seq(S) /\ Last(h) \in S /\ Len(h) \in Nat /\ Len(h) > 0 /\ Len(Front(h)) = Len(h) - 1
         /\ Last(h) = h[Len(h)]
         /\ \A i \in 1..(Len(h) - 1) : Front(h)[i] = h[i]
<1>1. Len(h) \in Nat /\ Len(h) > 0
  OBVIOUS
<1>2. Last(h) = h[Len(h)] /\ Last(h) \in S
  BY <1>1 DEF Last
<1>3. Front(h) = SubSeq(h, 1, Len(h) - 1)
  BY DEF Front
<1>4. /\ SubSeq(h, 1, Len(h) - 1) \in Seq(S) /\ Len(SubSeq(h, 1, Len(h) - 1)) = Len(h) - 1
      /\ \A i \in 1..(Len(h) - 1) : SubSeq(h, 1, Len(h) - 1)[i] = h[i]
  <2> DEFINE n == Len(h) - 1
  <2>1. n \in Nat /\ n <= Len(h)
    BY <1>1
  <2> HIDE DEF n
  <2>2. /\ SubSeq(h, 1, n) \in Seq(S) /\ Len(SubSeq(h, 1, n)) = n
    <3>1. SubSeq(h, 1, n) \in Seq(S)
      BY <2>1
    <3>2. Len(SubSeq(h, 1, n)) = n
      BY <2>1
    <3> QED
      BY <3>1, <3>2
  <2>3. ASSUME NEW i \in 1..n PROVE SubSeq(h, 1, n)[i] = h[i]
    BY <2>1, SMT
  <2> QED
    BY <2>2, <2>3 DEF n
<1> QED
  BY <1>1, <1>2, <1>3, <1>4

\* A sequence and one element more.
LEMMA Appends ==
  ASSUME NEW S, NEW h \in Seq(S), NEW m \in S
  PROVE  /\ Append(h, m) \in Seq(S) /\ Append(h, m) # <<>> /\ Last(Append(h, m)) = m /\ Front(Append(h, m)) = h
         /\ Len(Append(h, m)) = Len(h) + 1 /\ Append(h, m)[Len(h) + 1] = m /\ Len(h) \in Nat
         /\ \A i \in 1..Len(h) : Append(h, m)[i] = h[i]
<1>1. /\ Append(h, m) \in Seq(S) /\ Append(h, m) # <<>>
      /\ Len(Append(h, m)) = Len(h) + 1 /\ Append(h, m)[Len(h) + 1] = m /\ Len(h) \in Nat
      /\ \A i \in 1..Len(h) : Append(h, m)[i] = h[i]
  OBVIOUS
<1>2. Last(Append(h, m)) = m
  BY <1>1 DEF Last
<1>3. Front(Append(h, m)) = h
  <2>1. /\ Front(Append(h, m)) \in Seq(S) /\ Len(Front(Append(h, m))) = Len(h)
        /\ \A i \in 1..Len(h) : Front(Append(h, m))[i] = h[i]
    <3> DEFINE g == Append(h, m)
    <3>1. g \in Seq(S) /\ g # <<>> /\ Len(g) - 1 = Len(h)
      BY <1>1
    <3>2. Front(g) \in Seq(S) /\ Len(Front(g)) = Len(g) - 1 /\ \A i \in 1..(Len(g) - 1) : Front(g)[i] = g[i]
      BY <3>1, FrontLast
    <3> HIDE DEF g
    <3>3. \A i \in 1..Len(h) : Front(g)[i] = g[i]
      BY <3>1, <3>2
    <3> QED
      BY <1>1, <3>1, <3>2, <3>3 DEF g
  <2> QED
    BY <2>1
<1> QED
  BY <1>1, <1>2, <1>3

\* A message more.
LEMMA Grows ==
  ASSUME NEW h, Good(h), NEW m \in Message,
         h # <<>> /\ Last(h).role = "model" =>
           m.role # "model" /\ (Last(h).parts # {} => m.role = "tool" /\ Ids(m.parts) = Ids(Last(h).parts))
  PROVE  /\ Good(Append(h, m)) /\ Last(Append(h, m)) = m /\ Append(h, m) # <<>> /\ Front(Append(h, m)) = h
         /\ \A ids : Has(h, ids) => Has(Append(h, m), ids)
         /\ m.role = "tool" => Has(Append(h, m), Ids(m.parts))
<1> DEFINE g == Append(h, m)
<1>1. /\ h \in Seq(Message) /\ g \in Seq(Message) /\ g # <<>> /\ Last(g) = m /\ Front(g) = h
      /\ Len(g) = Len(h) + 1 /\ g[Len(h) + 1] = m /\ Len(h) \in Nat /\ \A i \in 1..Len(h) : g[i] = h[i]
  BY Appends DEF Good
<1> HIDE DEF g
<1>2. ASSUME NEW i \in 1..(Len(g) - 1), g[i].role = "model"
      PROVE  /\ g[i + 1].role # "model"
             /\ g[i].parts # {} => g[i + 1].role = "tool" /\ Ids(g[i + 1].parts) = Ids(g[i].parts)
  <2>1. CASE i = Len(h)
    <3>1. h # <<>> /\ Last(h) = h[i] /\ g[i + 1] = m /\ g[i] = h[i]
      BY <1>1, <2>1 DEF Last
    <3> QED
      BY <1>2, <3>1
  <2>2. CASE i # Len(h)
    <3>1. i \in 1..(Len(h) - 1) /\ g[i] = h[i] /\ g[i + 1] = h[i + 1]
      BY <1>1, <2>2
    <3> QED
      BY <1>2, <3>1 DEF Good, Answered
  <2> QED
    BY <2>1, <2>2
<1>3. Good(g)
  BY <1>1, <1>2 DEF Good, Answered
<1>4. ASSUME NEW ids, Has(h, ids) PROVE Has(g, ids)
  BY <1>1, <1>4 DEF Has
<1>5. m.role = "tool" => Has(g, Ids(m.parts))
  <2>1. Len(h) + 1 \in 1..Len(g)
    BY <1>1
  <2> QED
    BY <1>1, <2>1 DEF Has, Ids
<1> QED
  BY <1>1, <1>3, <1>4, <1>5 DEF g

\* A message less.
LEMMA Shrinks ==
  ASSUME NEW h, Good(h), h # <<>>
  PROVE  /\ Good(Front(h)) /\ Last(h) \in Message /\ h = Append(Front(h), Last(h))
         /\ Last(h).role = "model" => Front(h) = <<>> \/ Asks(Front(h))
         /\ \A ids : Has(h, ids) /\ Last(h).role = "model" => Has(Front(h), ids)
<1> DEFINE g == Front(h)
<1>1. /\ h \in Seq(Message) /\ g \in Seq(Message) /\ Len(h) \in Nat /\ Len(h) > 0 /\ Len(g) = Len(h) - 1
      /\ Last(h) = h[Len(h)] /\ Last(h) \in Message /\ \A i \in 1..(Len(h) - 1) : g[i] = h[i]
  BY FrontLast DEF Good
<1> HIDE DEF g
<1>2. Good(g)
  <2>1. \A i \in 1..(Len(g) - 1) : i \in 1..(Len(h) - 1) /\ g[i] = h[i] /\ g[i + 1] = h[i + 1]
    BY <1>1
  <2> QED
    BY <1>1, <2>1 DEF Good, Answered
<1>3. h = Append(g, Last(h))
  <2>1. /\ Append(g, Last(h)) \in Seq(Message) /\ Len(Append(g, Last(h))) = Len(h)
        /\ \A i \in 1..Len(h) : Append(g, Last(h))[i] = h[i]
    BY <1>1
  <2> QED
    BY <1>1, <2>1
<1>4. ASSUME Last(h).role = "model", g # <<>> PROVE Asks(g)
  <2>1. Len(g) \in 1..(Len(h) - 1) /\ Last(g) = h[Len(g)] /\ h[Len(g) + 1].role = "model"
    BY <1>1, <1>4 DEF Last
  <2> QED
    BY <1>4, <2>1 DEF Good, Answered, Asks
<1>5. ASSUME NEW ids, Has(h, ids), Last(h).role = "model" PROVE Has(g, ids)
  <2>1. \A i \in 1..Len(h) : h[i].role = "tool" => i \in 1..Len(g) /\ g[i] = h[i]
    BY <1>1, <1>5
  <2> QED
    BY <1>5, <2>1 DEF Has
<1> QED
  BY <1>1, <1>2, <1>3, <1>4, <1>5 DEF g

\* remember() keeps a history good, and the reply is then its last message.
LEMMA RememberIsGood ==
  ASSUME NEW h, Good(h), OpenParts(h) = {}, NEW l, NEW m,
         m = NoMsg \/ (m \in ModelMsg /\ m.parts = {}),
         m = NoMsg \/ (Asks(h) /\ l = Unset) \/ (h # <<>> /\ Last(h) = m /\ l = m)
  PROVE  /\ Good(Remember(h, l, m)) /\ OpenParts(Remember(h, l, m)) = {}
         /\ m # NoMsg => Remember(h, l, m) # <<>> /\ Last(Remember(h, l, m)) = m
         /\ \A ids : Has(h, ids) => Has(Remember(h, l, m), ids)
<1>1. CASE m = NoMsg
  BY <1>1 DEF Remember, WithClosedTurn
<1>2. CASE m # NoMsg
  <2>1. m \in Message /\ m.role = "model" /\ m.parts = {} /\ m \notin {NoMsg, Unset}
    BY <1>2, Kinds
  <2>2. CASE Asks(h) /\ l = Unset
    <3>1. Remember(h, l, m) = Append(h, m)
      <4>1. ~(h # <<>> /\ Last(h) = m)
        BY <2>1, <2>2 DEF Asks
      <4> QED
        BY <1>2, <2>2, <4>1 DEF Remember, WithClosedTurn
    <3>2. /\ Good(Append(h, m)) /\ Last(Append(h, m)) = m /\ Append(h, m) # <<>>
          /\ \A ids : Has(h, ids) => Has(Append(h, m), ids)
      BY <2>1, <2>2, Grows DEF Asks
    <3>3. OpenParts(Append(h, m)) = {}
      BY <2>1, <3>2 DEF OpenParts
    <3> QED
      BY <3>1, <3>2, <3>3
  <2>3. CASE h # <<>> /\ Last(h) = m /\ l = m
    <3>1. Remember(h, l, m) = Append(Front(h), m)
      BY <2>1, <2>3 DEF Remember
    <3>2. h = Append(Front(h), m)
      BY <2>3, Shrinks
    <3> QED
      BY <2>3, <3>1, <3>2
  <2> QED
    BY <1>2, <2>2, <2>3
<1> QED
  BY <1>1, <1>2

\* The reply that was remembered last is replaced by another.
LEMMA Rewritten ==
  ASSUME NEW h, Good(h), h # <<>>, NEW m \in ModelMsg, m.parts = {}, Last(h) = m,
         NEW n \in ModelMsg, n.parts = {}
  PROVE  /\ Remember(h, m, n) = Append(Front(h), n) /\ Good(Remember(h, m, n)) /\ OpenParts(Remember(h, m, n)) = {}
         /\ Remember(h, m, n) # <<>> /\ Last(Remember(h, m, n)) = n
         /\ \A ids : Has(h, ids) => Has(Remember(h, m, n), ids)
<1>1. m.role = "model" /\ n \in Message /\ n.role = "model" /\ m \notin {NoMsg, Unset} /\ n # NoMsg
  BY Kinds
<1>2. Remember(h, m, n) = Append(Front(h), n)
  BY <1>1 DEF Remember
<1>3. /\ Good(Front(h)) /\ (Front(h) = <<>> \/ Asks(Front(h)))
      /\ \A ids : Has(h, ids) => Has(Front(h), ids)
  BY <1>1, Shrinks
<1>4. /\ Good(Append(Front(h), n)) /\ Last(Append(Front(h), n)) = n /\ Append(Front(h), n) # <<>>
      /\ \A ids : Has(Front(h), ids) => Has(Append(Front(h), n), ids)
  BY <1>1, <1>3, Grows DEF Asks
<1>5. OpenParts(Append(Front(h), n)) = {}
  BY <1>1, <1>4 DEF OpenParts
<1> QED
  BY <1>2, <1>3, <1>4, <1>5

\* The first frame, or a nested one.
LEMMA OneOrMore == \A n \in Nat : (n > 0 => n = 1 \/ n > 1) /\ ~(n = 1 /\ n > 1)
OBVIOUS

\* A history that the model is to go on with leaves no request open.
LEMMA AsksOpensNothing == \A h : Asks(h) => OpenParts(h) = {}
BY DEF Asks, OpenParts

\* The fields of a response.
LEMMA Replies ==
  /\ \A r \in Carrier : r.msg \in ModelMsg \cup {NoMsg} /\ r.request \in Seq(Message)
  /\ \A fin \in {"aborted", "failed"}, h \in Seq(Message) :
       /\ Box(fin, h) \in Carrier /\ Box(fin, h).msg = NoMsg /\ Messages(Box(fin, h)) = h
       /\ Box(fin, h).fin # "interrupted"
  /\ FailedOrAborted \in {"aborted", "failed"}
  /\ \A fin \in {"stop", "interrupted"}, m \in ModelMsg \cup {NoMsg}, h \in Seq(Message) :
       /\ Response(fin, m, h) \in Carrier /\ Response(fin, m, h).msg = m /\ Response(fin, m, h).fin = fin
       /\ Response(fin, m, h).request = h
       /\ Messages(Response(fin, m, h)) = IF m = NoMsg THEN h ELSE Append(h, m)
<1>1. NoMsg \notin ModelMsg
  BY Kinds
<1> QED
  BY <1>1 DEF Carrier, Box, Response, Messages, FailedOrAborted

\* What the innermost run_wrap_generate was given.
LEMMA TopFrame ==
  ASSUME GInv, pc # "idle"
  PROVE  /\ Good(Last(frames)) /\ Last(frames) \in Seq(Message) /\ Len(frames) \in Nat /\ Len(frames) > 0
         /\ frames # <<>>
         /\ Len(frames) = 1 => Last(frames) = entry
         /\ Len(frames) > 1 => Asks(Last(frames)) /\ closed # {}
         /\ Good(entry) /\ (resume = NoResume => Asks(entry))
         /\ resume # NoResume => entry # <<>> /\ IsPause(Last(entry))
<1>1. /\ frames \in Seq(Seq(Message)) /\ frames # <<>> /\ frames[1] = entry
      /\ \A k \in 2..Len(frames) : Good(frames[k]) /\ Asks(frames[k])
      /\ Len(frames) > 1 => closed # {}
      /\ Good(entry) /\ (resume = NoResume => Asks(entry))
      /\ resume # NoResume => entry # <<>> /\ IsPause(Last(entry))
  BY DEF GInv, GTypes, FramesInv, ClientInv
<1>2. Len(frames) \in Nat /\ Len(frames) > 0 /\ Last(frames) = frames[Len(frames)] /\ Last(frames) \in Seq(Message)
  BY <1>1, FrontLast
<1>3. Len(frames) > 1 => Len(frames) \in 2..Len(frames)
  BY <1>2
<1>4. CASE Len(frames) = 1
  BY <1>1, <1>2, <1>4
<1>5. CASE Len(frames) > 1
  BY <1>1, <1>2, <1>3, <1>5
<1> QED
  BY <1>1, <1>2, <1>4, <1>5

-----------------------------------------------------------------------------
(* The caller *)

\* A call that is given a history to go on with, or a pause and replies to it.
LEMMA StartKeeps ==
  ASSUME GInv, NEW ms, NEW resumed, StartCall(ms, resumed), Good(ms),
         IF resumed = NoResume THEN Asks(ms) ELSE ms # <<>> /\ IsPause(Last(ms)),
         \A r \in resumed : r.of = r.ref,
         resumed # NoResume => \A r \in resumed :
           \E p \in Interrupts(ms) : r.of = p.id /\ r.tool = p.tool /\ r.how \in {"respond", "restart"}
  PROVE  GInv'
<1>1. /\ pc = "idle" /\ entry' = ms /\ resume' = resumed /\ pc' = "door" /\ frames' = <<ms>> /\ strays' = {}
      /\ closed' = {}
      /\ UNCHANGED <<resp, messages, last, result, round, out, nextId>>
  BY DEF StartCall
<1>2. ms \in Seq(Message) /\ <<ms>> \in Seq(Seq(Message)) /\ Len(<<ms>>) = 1 /\ <<ms>>[1] = ms
        /\ Last(<<ms>>) = ms /\ <<ms>> # <<>>
  BY DEF Good, Last
<1>3. GTypes'
  BY <1>1, <1>2 DEF GInv, GTypes
<1>4. ClientInv'
  BY <1>1, <1>2 DEF GInv, ClientInv
<1>5. FramesInv'
  BY <1>1, <1>2 DEF FramesInv
<1>6. LoopInv'
  BY <1>1, <1>2 DEF LoopInv, Has
<1>7. RoundInv' /\ ResultInv'
  BY <1>1 DEF GInv, RoundInv, ResultInv
<1> QED
  BY <1>3, <1>4, <1>5, <1>6, <1>7 DEF GInv

\* The caller drops a paused turn before it says something else.
LEMMA PromptKeeps == ASSUME GInv, Prompt PROVE GInv'
<1> DEFINE h == Messages(resp)
<1>1. Good(h) /\ (OpenParts(h) # {} => h # <<>> /\ Last(h).role = "model")
  BY DEF GInv, ClientInv, OpenParts
<1>2. User \in Message /\ User.role = "user"
  BY Kinds
<1> HIDE DEF h
<1>3. \A r \in NoResume : r.of = r.ref
  BY DEF NoResume
<1>4. CASE OpenParts(h) = {} /\ StartCall(Append(h, User), NoResume)
  <2>1. Good(Append(h, User)) /\ Last(Append(h, User)) = User /\ Append(h, User) # <<>>
    BY <1>1, <1>2, <1>4, Grows DEF OpenParts
  <2> QED
    BY <1>2, <1>3, <1>4, <2>1, StartKeeps DEF Asks
<1>5. CASE OpenParts(h) # {} /\ StartCall(Append(Front(h), User), NoResume)
  <2>1. Good(Front(h)) /\ (Front(h) = <<>> \/ Asks(Front(h)))
    BY <1>1, <1>5, Shrinks
  <2>2. Good(Append(Front(h), User)) /\ Last(Append(Front(h), User)) = User /\ Append(Front(h), User) # <<>>
    BY <1>2, <2>1, Grows DEF Asks
  <2> QED
    BY <1>2, <1>3, <1>5, <2>2, StartKeeps DEF Asks
<1> QED
  BY <1>4, <1>5 DEF Prompt, h

\* The caller replies to interrupts of the history it resends.
LEMMA ResumeKeeps == ASSUME GInv, Resume PROVE GInv'
<1> DEFINE h == Messages(resp)
<1>0. PICK answered \in SUBSET Interrupts(h) : \E how \in [answered -> {"respond", "restart"}] :
        /\ OpenParts(h) # {}
        /\ StartCall(h, {[of |-> p.id, tool |-> p.tool, ref |-> p.ref, how |-> how[p]] : p \in answered})
  BY DEF Resume
<1>1. PICK how \in [answered -> {"respond", "restart"}] :
        /\ OpenParts(h) # {}
        /\ StartCall(h, {[of |-> p.id, tool |-> p.tool, ref |-> p.ref, how |-> how[p]] : p \in answered})
  BY <1>0
<1> DEFINE resumed == {[of |-> p.id, tool |-> p.tool, ref |-> p.ref, how |-> how[p]] : p \in answered}
<1>2. Good(h) /\ h # <<>> /\ IsPause(Last(h)) /\ OpenParts(h) = Last(h).parts /\ Last(h) \in ModelMsg
  BY <1>1 DEF GInv, ClientInv, OpenParts, Ends, IsPause
<1>3. \A p \in answered : p \in Interrupts(h) /\ p.ref = p.id /\ how[p] \in {"respond", "restart"}
  <2>1. \A p \in Last(h).parts : p \in Request
    BY <1>2, Kinds
  <2> QED
    BY <1>1, <1>2, <2>1 DEF Interrupts, Request
<1> HIDE DEF h
<1>4. \A r \in resumed : \E p \in answered : r = [of |-> p.id, tool |-> p.tool, ref |-> p.ref, how |-> how[p]]
  OBVIOUS
<1>5. /\ \A r \in resumed : r.of = r.ref /\ r.how \in {"respond", "restart"}
      /\ \A r \in resumed : \E p \in Interrupts(h) : r.of = p.id /\ r.tool = p.tool /\ r.how \in {"respond", "restart"}
  BY <1>3, <1>4
<1> HIDE DEF resumed
<1>6. resumed # NoResume
  <2>1. \E r \in NoResume : r.how = "none"
    BY DEF NoResume
  <2> QED
    BY <1>5, <2>1
<1> QED
  BY <1>1, <1>2, <1>5, <1>6, StartKeeps DEF resumed

\* The abort signal is seen later.
LEMMA AbortKeeps == ASSUME GInv, Abort PROVE GInv'
<1>1. UNCHANGED <<client, loop, tools, nextId, closed>>
  BY DEF Abort
<1> QED
  BY <1>1 DEF client, loop, tools, GInv, GTypes, ClientInv, FramesInv, LoopInv, RoundInv, ResultInv, Remembered,
              Messages, Interrupts, OpenParts, Resolution, Matching

\* A cancelled call leaves the caller with the response it had.
LEMMA CancelKeeps == ASSUME GInv, Cancel PROVE GInv'
<1>1. /\ pc' = "idle" /\ frames' = <<>> /\ out' = NoRound /\ pc \in {"before", "model", "gather", "gatherResume"}
      /\ UNCHANGED <<resp, entry, resume, messages, last, result, strays, nextId, closed>>
  BY DEF Cancel, client
<1>2. frames' \in Seq(Seq(Message)) /\ Len(frames') = 0
  BY <1>1
<1>3. GTypes'
  BY <1>1, <1>2 DEF GInv, GTypes
<1>4. ClientInv' /\ LoopInv' /\ RoundInv' /\ ResultInv'
  BY <1>1 DEF GInv, ClientInv, LoopInv, RoundInv, ResultInv
<1>5. FramesInv'
  BY <1>1, <1>2 DEF FramesInv
<1> QED
  BY <1>3, <1>4, <1>5 DEF GInv

-----------------------------------------------------------------------------
(* run_wrap_generate and its hook *)

\* What a step leaves alone.
LEMMA ClientStays ==
  ASSUME GInv, UNCHANGED <<resp, entry, resume>>, pc # "idle" PROVE ClientInv'
BY DEF GInv, ClientInv, Messages, Interrupts, OpenParts

\* So do the frames, when a step neither enters nor leaves one.
LEMMA FramesStay ==
  ASSUME GInv, UNCHANGED <<entry, frames>>, pc # "idle", pc' # "idle", closed \subseteq closed' PROVE FramesInv'
BY DEF GInv, FramesInv

\* _raise: what was given goes back.
LEMMA RaiseKeeps ==
  ASSUME GInv, pc # "idle", NEW h, Good(h), NEW fin \in {"aborted", "failed"},
         UNCHANGED <<resp, entry, resume, frames, nextId>>, closed \subseteq closed', Has(h, closed'),
         last' \in ModelMsg \cup {NoMsg, Unset}, out' = NoRound,
         result' = Box(fin, h), messages' = h,
         \/ pc' = "return" /\ (OpenParts(h) # {} => Len(frames) = 1 /\ h = entry)
         \/ pc' = "after" /\ OpenParts(h) = {} /\ (closed' = {} => resume = NoResume)
  PROVE  GInv'
<1>1. h \in Seq(Message)
  BY DEF Good
<1>2. result' \in Carrier /\ result'.msg = NoMsg /\ Messages(result') = h /\ result'.fin # "interrupted"
  BY <1>1, Replies
<1>3. GTypes'
  BY <1>1, <1>2 DEF GInv, GTypes
<1>4. ClientInv' /\ FramesInv'
  BY ClientStays, FramesStay
<1>5. LoopInv' /\ RoundInv'
  BY <1>2 DEF LoopInv, RoundInv
<1>6. pc' = "after" \/ Len(frames') > 1 => Remembered'
  <2>1. Len(frames) > 1 => OpenParts(h) = {} \/ pc' = "after"
    <3>1. ~(Len(frames) = 1 /\ Len(frames) > 1)
      BY TopFrame, OneOrMore, Zenon
    <3> QED
      BY <3>1, Zenon
  <2>2. ASSUME pc' = "after" \/ Len(frames') > 1
        PROVE  Good(h) /\ OpenParts(h) = {} /\ Has(h, closed') /\ result'.msg = NoMsg
    BY <1>2, <2>1, <2>2
  <2> QED
    BY <2>2 DEF Remembered
<1>7. ResultInv'
  <2>1. Messages(result)' = h
    BY <1>2 DEF Messages
  <2> QED
    BY <1>2, <1>6, <2>1 DEF ResultInv
<1> QED
  BY <1>3, <1>4, <1>5, <1>7 DEF GInv

\* A frame is entered, or boxed at the door.
LEMMA DoorKeeps == ASSUME GInv, Door PROVE GInv'
<1> DEFINE f == Last(frames)
<1>1. /\ pc = "door" /\ messages' = f
      /\ UNCHANGED <<resp, entry, resume, frames, round, out, strays, nextId, closed>>
  BY DEF Door, client, tools
<1>2. /\ Good(f) /\ f \in Seq(Message) /\ Len(frames) \in Nat /\ Len(frames) > 0
      /\ (Len(frames) = 1 => f = entry /\ closed = {}) /\ (Len(frames) > 1 => Asks(f))
      /\ Has(f, closed) /\ out = NoRound /\ strays = {}
  BY <1>1, TopFrame DEF GInv, LoopInv, RoundInv
<1> HIDE DEF f
<1>3. CASE abort
  <2>1. result' = Box("aborted", f) /\ pc' = "return" /\ last' = last
    BY <1>3 DEF Door, f
  <2>2. OpenParts(f) # {} => Len(frames) = 1 /\ f = entry
    <3>1. Len(frames) = 1 \/ Len(frames) > 1
      BY <1>2, OneOrMore, Zenon
    <3> QED
      BY <1>2, <3>1, AsksOpensNothing, Zenon
  <2> QED
    BY <1>1, <1>2, <2>1, <2>2, RaiseKeeps DEF GInv, GTypes
<1>4. CASE ~abort
  <2>1. last' = Unset /\ pc' = "before" /\ result' = result
    BY <1>4 DEF Door
  <2>2. GTypes'
    BY <1>1, <1>2, <2>1 DEF GInv, GTypes
  <2>3. ClientInv' /\ FramesInv'
    BY <1>1, <2>1, ClientStays, FramesStay
  <2>4. LoopInv'
    BY <1>1, <1>2, <2>1 DEF LoopInv, f
  <2>5. RoundInv' /\ ResultInv'
    BY <1>1, <1>2, <2>1 DEF RoundInv, ResultInv
  <2> QED
    BY <2>2, <2>3, <2>4, <2>5 DEF GInv
<1> QED
  BY <1>3, <1>4

\* The hook calls next_fn, or raises with what its frame was given.
LEMMA HookBeforeKeeps == ASSUME GInv, HookBefore PROVE GInv'
<1>1. /\ pc = "before" /\ UNCHANGED <<resp, entry, resume, frames, last, round, out, strays, nextId, closed>>
  BY DEF HookBefore, client, tools
<1>2. /\ messages = Last(frames) /\ last = Unset /\ Has(messages, closed)
      /\ Len(frames) = 1 => closed = {} /\ messages = entry
      /\ Good(messages) /\ Len(frames) \in Nat /\ Len(frames) > 0 /\ (Len(frames) > 1 => Asks(messages) /\ closed # {})
      /\ out = NoRound /\ strays = {} /\ (resume = NoResume => Asks(entry))
  BY <1>1, TopFrame DEF GInv, LoopInv, RoundInv
<1>3. CASE UNCHANGED <<messages, result>> /\ pc' = IF Len(frames) = 1 /\ resume # NoResume THEN "resume" ELSE "model"
  <2>1. GTypes'
    BY <1>1, <1>3 DEF GInv, GTypes
  <2>2. ClientInv' /\ FramesInv'
    BY <1>1, <1>3, ClientStays, FramesStay
  <2>3. CASE Len(frames) = 1 /\ resume # NoResume
    BY <1>1, <1>2, <1>3, <2>1, <2>2, <2>3 DEF GInv, LoopInv, RoundInv, ResultInv
  <2>4. CASE ~(Len(frames) = 1 /\ resume # NoResume)
    <3>1. Asks(messages) /\ (closed = {} => resume = NoResume)
      BY <1>2, <2>4
    <3> QED
      BY <1>1, <1>2, <1>3, <2>1, <2>2, <2>4, <3>1 DEF GInv, LoopInv, RoundInv, ResultInv
  <2> QED
    BY <2>3, <2>4
<1>4. CASE Raise(messages)
  <2>1. OpenParts(messages) # {} => Len(frames) = 1 /\ messages = entry
    BY <1>2, AsksOpensNothing
  <2>2. FailedOrAborted \in {"aborted", "failed"} /\ result' = Box(FailedOrAborted, messages) /\ pc' = "return"
          /\ messages' = messages
    BY <1>4, Replies DEF Raise
  <2> QED
    BY <1>1, <1>2, <2>1, <2>2, RaiseKeeps DEF GInv, GTypes
<1> QED
  BY <1>1, <1>3, <1>4 DEF HookBefore


\* remember() makes a sequence of messages.
LEMMA RememberTyped ==
  ASSUME NEW h \in Seq(Message), NEW l, NEW m \in ModelMsg \cup {NoMsg}
  PROVE  Remember(h, l, m) \in Seq(Message)
<1>1. m # NoMsg => m \in Message /\ Append(h, m) \in Seq(Message)
  BY Kinds, Appends
<1>2. m # NoMsg /\ h # <<>> => Append(Front(h), m) \in Seq(Message)
  BY <1>1, FrontLast, Appends
<1> QED
  BY <1>1, <1>2 DEF Remember, WithClosedTurn

\* The hook sees the reply: it returns it, rewrites it, raises, or returns its own.
LEMMA HookAfterKeeps == ASSUME Habits = {}, GInv, HookAfter PROVE GInv'
<1> DEFINE rem == Remember(messages, last, result.msg)
           own == Model({}, 1)
<1>1. /\ pc = "after" /\ UNCHANGED <<resp, entry, resume, frames, round, out, strays, nextId, closed>>
      /\ \/ messages' = rem /\ last' = result.msg /\ pc' = "return" /\ result' = result
         \/ /\ result.msg.role = "model" /\ result.msg.parts = {}
            /\ messages' = Remember(rem, result.msg, Model({}, result.msg.ver + 1))
            /\ last' = Model({}, result.msg.ver + 1)
            /\ result' = [result EXCEPT !.msg = Model({}, result.msg.ver + 1)]
            /\ pc' = "return"
         \/ result.fin # "interrupted" /\ Raise(rem) /\ last' = result.msg
         \/ /\ closed = {} /\ result.fin # "interrupted"
            /\ messages' = Remember(rem, result.msg, own) /\ last' = own
            /\ result' = Response("stop", own, Last(frames)) /\ pc' = "return"
  BY DEF HookAfter, client, tools
<1>2. /\ result \in Carrier /\ result.msg \in ModelMsg \cup {NoMsg} /\ result.request \in Seq(Message)
      /\ messages \in Seq(Message) /\ rem \in Seq(Message) /\ out = NoRound
  BY <1>1, Replies, RememberTyped DEF GInv, GTypes, RoundInv
<1>3. /\ Good(Messages(result)) /\ Has(Messages(result), closed)
      /\ result.fin = "interrupted" => IsPause(result.msg)
      /\ OpenParts(Messages(result)) # {} => result.fin = "interrupted"
      /\ result.fin # "interrupted" => Remembered /\ (closed = {} => resume = NoResume)
  BY <1>1 DEF GInv, ResultInv
<1>4. result.fin # "interrupted" =>
        /\ Good(rem) /\ OpenParts(rem) = {} /\ Has(rem, closed)
        /\ result.msg # NoMsg => rem # <<>> /\ Last(rem) = result.msg /\ result.msg.parts = {}
  BY RememberIsGood, <1>3 DEF Remembered
<1> HIDE DEF rem
<1>5. ClientInv' /\ FramesInv' /\ (pc' = "return" => LoopInv')
  BY <1>1, ClientStays, FramesStay DEF LoopInv, Raise
<1>6. CASE messages' = rem /\ last' = result.msg /\ pc' = "return" /\ result' = result
  <2>1. GTypes'
    BY <1>1, <1>2, <1>6 DEF GInv, GTypes
  <2>2. RoundInv'
    BY <1>1, <1>6 DEF GInv, RoundInv
  <2>3. result.fin # "interrupted" => Remembered'
    BY <1>1, <1>2, <1>4, <1>6 DEF Remembered
  <2>4. ResultInv'
    <3>1. Messages(result)' = Messages(result)
      BY <1>6
    <3> QED
      BY <1>1, <1>3, <1>6, <2>3, <3>1 DEF ResultInv
  <2> QED
    BY <1>5, <1>6, <2>1, <2>2, <2>4 DEF GInv
<1>7. ASSUME result.msg.role = "model", result.msg.parts = {},
             messages' = Remember(rem, result.msg, Model({}, result.msg.ver + 1)),
             last' = Model({}, result.msg.ver + 1),
             result' = [result EXCEPT !.msg = Model({}, result.msg.ver + 1)],
             pc' = "return"
      PROVE  GInv'
  <2> DEFINE n == Model({}, result.msg.ver + 1)
  <2>1. result.msg \in ModelMsg /\ result.msg # NoMsg /\ result.msg.ver \in Nat /\ result.fin # "interrupted"
    BY <1>2, <1>3, <1>7, Kinds DEF NoMsg, IsPause
  <2>2. n \in ModelMsg /\ n.parts = {} /\ n.role = "model" /\ n # NoMsg /\ n \in Message
    <3>1. n \in ModelMsg
      BY <2>1, Kinds DEF DistinctIds
    <3> QED
      BY <3>1, Kinds DEF Model
  <2> HIDE DEF n
  <2>3. /\ messages' = Remember(rem, result.msg, n) /\ last' = n /\ result' = [result EXCEPT !.msg = n]
        /\ result'.msg = n /\ result'.fin = result.fin /\ result'.request = result.request /\ result' \in Carrier
    BY <1>2, <1>7, <2>2 DEF Carrier, n
  <2>4. /\ Good(messages') /\ OpenParts(messages') = {} /\ messages' # <<>> /\ Last(messages') = n
        /\ Has(messages', closed)
    BY <1>4, <1>7, <2>1, <2>2, <2>3, Rewritten
  <2>5. Good(Messages(result')) /\ Has(Messages(result'), closed) /\ OpenParts(Messages(result')) = {}
    <3>1. Messages(result) = Append(result.request, result.msg) /\ Messages(result') = Append(result.request, n)
      BY <2>1, <2>2, <2>3 DEF Messages
    <3>2. /\ Front(Append(result.request, result.msg)) = result.request /\ Append(result.request, result.msg) # <<>>
          /\ Last(Append(result.request, result.msg)) = result.msg
      BY <1>2, <2>1, Kinds, Appends
    <3>3. Good(result.request) /\ (result.request = <<>> \/ Asks(result.request)) /\ Has(result.request, closed)
      BY <1>3, <1>7, <3>1, <3>2, Shrinks
    <3>4. /\ Good(Append(result.request, n)) /\ Last(Append(result.request, n)) = n
          /\ Has(Append(result.request, n), closed)
      BY <2>2, <3>3, Grows DEF Asks
    <3> QED
      BY <2>2, <3>1, <3>4 DEF OpenParts
  <2>6. GTypes'
    BY <1>1, <2>2, <2>3, <2>4 DEF GInv, GTypes, Good
  <2>7. RoundInv'
    BY <1>1, <1>7, <2>3 DEF GInv, RoundInv
  <2>8. Remembered'
    BY <1>1, <2>2, <2>3, <2>4 DEF Remembered
  <2>9. ResultInv'
    <3>1. Messages(result)' = Messages(result')
      BY DEF Messages
    <3> QED
      BY <1>1, <1>7, <2>1, <2>3, <2>5, <2>8, <3>1 DEF ResultInv
  <2> QED
    BY <1>5, <1>7, <2>6, <2>7, <2>9 DEF GInv
<1>8. CASE result.fin # "interrupted" /\ Raise(rem) /\ last' = result.msg
  <2>1. FailedOrAborted \in {"aborted", "failed"} /\ result' = Box(FailedOrAborted, rem) /\ pc' = "return"
          /\ messages' = rem
    BY <1>8, Replies DEF Raise
  <2> QED
    BY <1>1, <1>2, <1>4, <1>8, <2>1, RaiseKeeps
<1>9. ASSUME closed = {}, result.fin # "interrupted",
             messages' = Remember(rem, result.msg, own), last' = own,
             result' = Response("stop", own, Last(frames)), pc' = "return"
      PROVE  GInv'
  <2>1. own \in ModelMsg /\ own \in Message /\ own.role = "model" /\ own.parts = {} /\ own # NoMsg
    <3>1. own \in ModelMsg
      BY Kinds DEF DistinctIds
    <3> QED
      BY <3>1, Kinds DEF Model
  <2> HIDE DEF own
  <2>2. /\ Good(Last(frames)) /\ Asks(Last(frames)) /\ Last(frames) \in Seq(Message) /\ ~(Len(frames) > 1)
    BY <1>1, <1>3, <1>9, TopFrame, OneOrMore, Zenon
  <2>3. /\ result' \in Carrier /\ result'.msg = own /\ result'.fin = "stop"
        /\ Messages(result') = Append(Last(frames), own)
    BY <1>9, <2>1, <2>2, Replies
  <2>4. /\ Good(Append(Last(frames), own)) /\ Last(Append(Last(frames), own)) = own
    BY <2>1, <2>2, Grows DEF Asks
  <2>5. OpenParts(Append(Last(frames), own)) = {}
    BY <2>1, <2>4 DEF OpenParts
  <2>6. messages' \in Seq(Message)
    BY <1>2, <1>9, <2>1, RememberTyped
  <2>7. GTypes'
    BY <1>1, <1>9, <2>1, <2>3, <2>6 DEF GInv, GTypes
  <2>8. RoundInv'
    BY <1>1, <1>9, <2>3 DEF GInv, RoundInv
  <2>9. ResultInv'
    <3>1. Messages(result)' = Append(Last(frames), own) /\ Has(Append(Last(frames), own), closed')
      BY <1>1, <1>9, <2>3 DEF Messages, Has
    <3> QED
      BY <1>1, <1>9, <2>2, <2>3, <2>4, <2>5, <3>1 DEF ResultInv
  <2> QED
    BY <1>5, <1>9, <2>7, <2>8, <2>9 DEF GInv
<1> QED
  BY <1>1, <1>6, <1>7, <1>8, <1>9

\* A frame returns to the one below it, or to the caller.
LEMMA ReturnKeeps == ASSUME GInv, Return PROVE GInv'
<1>1. /\ pc = "return" /\ frames' = Front(frames)
      /\ UNCHANGED <<entry, resume, messages, last, result, round, out, strays, nextId, closed>>
      /\ \/ Len(frames) = 1 /\ resp' = result /\ pc' = "idle"
         \/ Len(frames) # 1 /\ resp' = resp /\ pc' = "after"
  BY DEF Return, tools
<1>2. /\ frames \in Seq(Seq(Message)) /\ frames # <<>> /\ Len(frames) \in Nat /\ Len(frames) > 0
      /\ frames[1] = entry
      /\ \A k \in 2..Len(frames) : Good(frames[k]) /\ Asks(frames[k])
      /\ result \in Carrier /\ out = NoRound /\ (Len(frames) > 1 => closed # {})
      /\ result.msg \in ModelMsg \cup {NoMsg} /\ result.request \in Seq(Message)
  BY <1>1, TopFrame, Replies DEF GInv, GTypes, FramesInv, RoundInv
<1>3. /\ frames' \in Seq(Seq(Message)) /\ Len(frames') = Len(frames) - 1
      /\ \A k \in 1..(Len(frames) - 1) : frames'[k] = frames[k]
  BY <1>1, <1>2, FrontLast
<1>4. /\ Good(Messages(result)) /\ Has(Messages(result), closed)
      /\ result.fin = "interrupted" => IsPause(result.msg)
      /\ OpenParts(Messages(result)) # {} =>
           result.fin = "interrupted" \/ (Len(frames) = 1 /\ Messages(result) = entry)
      /\ result.fin # "interrupted" /\ Len(frames) > 1 => Remembered
  BY <1>1 DEF GInv, ResultInv
<1>5. GTypes'
  BY <1>1, <1>2, <1>3 DEF GInv, GTypes
<1>6. RoundInv'
  BY <1>1 DEF GInv, RoundInv
<1>7. LoopInv'
  BY <1>1 DEF LoopInv
<1>8. CASE Len(frames) = 1 /\ resp' = result /\ pc' = "idle"
  <2>1. Ends(Messages(result))
    <3>1. CASE OpenParts(Messages(result)) = {}
      BY <3>1 DEF Ends
    <3>2. CASE result.fin = "interrupted"
      <4>1. result.msg \in ModelMsg /\ result.msg # NoMsg /\ result.msg \in Message /\ IsPause(result.msg)
        BY <1>2, <1>4, <3>2, Kinds DEF IsPause
      <4>2. Messages(result) = Append(result.request, result.msg)
        BY <4>1 DEF Messages
      <4>3. Last(Append(result.request, result.msg)) = result.msg
        BY <1>2, <4>1, Appends
      <4> QED
        BY <4>1, <4>2, <4>3 DEF Ends
    <3>3. CASE OpenParts(Messages(result)) # {} /\ Messages(result) = entry
      BY <1>1, <3>3, TopFrame, AsksOpensNothing DEF Ends
    <3> QED
      BY <1>4, <3>1, <3>2, <3>3
  <2>2. Messages(resp)' = Messages(result)
    BY <1>8 DEF Messages
  <2>3. ClientInv'
    BY <1>1, <1>4, <1>8, <2>1, <2>2 DEF GInv, ClientInv
  <2>4. FramesInv'
    <3>1. frames' = <<>> /\ Len(frames') = 0
      BY <1>3, <1>8
    <3> QED
      BY <1>8, <3>1 DEF FramesInv
  <2>5. ResultInv'
    BY <1>8 DEF ResultInv
  <2> QED
    BY <1>5, <1>6, <1>7, <2>3, <2>4, <2>5 DEF GInv
<1>9. CASE Len(frames) # 1 /\ resp' = resp /\ pc' = "after"
  <2>1. Len(frames) > 1
    BY <1>2, <1>9, OneOrMore, Zenon
  <2>2. ClientInv'
    BY <1>1, <1>9, ClientStays
  <2>3. FramesInv'
    <3>1. frames' # <<>> /\ frames'[1] = entry
      <4>1. Len(frames') > 0 /\ 1 \in 1..(Len(frames) - 1)
        BY <1>2, <1>3, <2>1
      <4>2. frames' # <<>>
        BY <1>3, <4>1
      <4> QED
        BY <1>2, <1>3, <4>1, <4>2
    <3>2. \A k \in 2..Len(frames') : Good(frames'[k]) /\ Asks(frames'[k])
      <4>1. \A k \in 2..Len(frames') : k \in 2..Len(frames) /\ frames'[k] = frames[k]
        BY <1>2, <1>3
      <4> QED
        BY <1>2, <4>1
    <3> QED
      BY <1>1, <1>2, <1>9, <2>1, <3>1, <3>2 DEF FramesInv
  <2>4. ResultInv'
    <3>1. Messages(result)' = Messages(result) /\ (result.fin # "interrupted" => Remembered')
      BY <1>1, <1>4, <2>1 DEF Remembered
    <3>2. OpenParts(Messages(result)) # {} => result.fin = "interrupted"
      BY <1>4, <1>9
    <3> QED
      BY <1>1, <1>2, <1>4, <1>9, <2>1, <3>1, <3>2 DEF ResultInv
  <2> QED
    BY <1>5, <1>6, <1>7, <2>2, <2>3, <2>4 DEF GInv
<1> QED
  BY <1>1, <1>8, <1>9

-----------------------------------------------------------------------------
(* The resume *)

\* A reply is missing, and the pause goes back; or the restarts run.
LEMMA StartResumeKeeps == ASSUME GInv, StartResume PROVE GInv'
<1> DEFINE asked == OpenParts(Last(frames))
<1>1. /\ pc = "resume" /\ UNCHANGED <<resp, entry, resume, frames, last, nextId, closed>>
      /\ \/ Raise(messages) /\ out' = out
         \/ /\ \A p \in asked : Resolution(p) # "unresolved"
            /\ pc' = "gatherResume" /\ round' = asked /\ UNCHANGED <<result, messages, strays>>
  BY DEF StartResume, client
<1>2. /\ messages = Last(frames) /\ last = Unset /\ Has(messages, closed) /\ Len(frames) = 1 /\ resume # NoResume
      /\ closed = {} /\ messages = entry /\ Good(messages) /\ out = NoRound /\ strays = {} /\ pc # "idle"
  BY <1>1, TopFrame DEF GInv, LoopInv, RoundInv
<1>3. CASE Raise(messages) /\ out' = out
  <2>1. FailedOrAborted \in {"aborted", "failed"} /\ result' = Box(FailedOrAborted, messages) /\ pc' = "return"
          /\ messages' = messages
    BY <1>3, Replies DEF Raise
  <2> QED
    BY <1>1, <1>2, <1>3, <2>1, RaiseKeeps DEF GInv, GTypes
<1>4. CASE /\ \A p \in asked : Resolution(p) # "unresolved"
           /\ pc' = "gatherResume" /\ round' = asked /\ UNCHANGED <<result, messages, strays>>
  <2>1. GTypes'
    BY <1>1, <1>4 DEF GInv, GTypes
  <2>2. ClientInv' /\ FramesInv'
    BY <1>1, <1>2, <1>4, ClientStays, FramesStay
  <2>3. LoopInv' /\ ResultInv'
    BY <1>1, <1>2, <1>4 DEF LoopInv, ResultInv
  <2>4. asked = OpenParts(entry) /\ entry' = entry /\ OpenParts(entry)' = OpenParts(entry)
    BY <1>1, <1>2 DEF OpenParts
  <2>5. \A p \in asked : Resolution(p)' = Resolution(p)
    BY <1>1 DEF Resolution, Matching
  <2>6. RoundInv'
    BY <1>2, <1>4, <2>4, <2>5 DEF RoundInv
  <2> QED
    BY <2>1, <2>2, <2>3, <2>6 DEF GInv
<1> QED
  BY <1>1, <1>3, <1>4

\* A restarted tool ends, or gives the resume up.
LEMMA FinishRestartKeeps == ASSUME GInv, NEW id \in DOMAIN out, FinishRestart(id) PROVE GInv'
<1>1. /\ pc = "gatherResume" /\ UNCHANGED <<resp, entry, resume, frames, last, nextId, closed>>
      /\ \/ UNCHANGED <<pc, messages, result, round, strays>>
         \/ Raise(messages) /\ EndRound
  BY DEF FinishRestart, client
<1>2. /\ messages = Last(frames) /\ last = Unset /\ Has(messages, closed) /\ Len(frames) = 1
      /\ messages = entry /\ Good(messages) /\ pc # "idle"
  BY <1>1, TopFrame DEF GInv, LoopInv
<1>3. CASE UNCHANGED <<pc, messages, result, round, strays>>
  <2>1. GTypes' /\ ClientInv' /\ FramesInv'
    BY <1>1, <1>2, <1>3, ClientStays, FramesStay DEF GInv, GTypes
  <2>2. LoopInv' /\ ResultInv'
    BY <1>1, <1>3 DEF GInv, LoopInv, ResultInv
  <2>3. OpenParts(entry)' = OpenParts(entry) /\ \A p \in round : Resolution(p)' = Resolution(p)
    BY <1>1 DEF OpenParts, Resolution, Matching
  <2>4. RoundInv'
    BY <1>1, <1>3, <2>3 DEF GInv, RoundInv
  <2> QED
    BY <2>1, <2>2, <2>4 DEF GInv
<1>4. CASE Raise(messages) /\ EndRound
  <2>1. FailedOrAborted \in {"aborted", "failed"} /\ result' = Box(FailedOrAborted, messages) /\ pc' = "return"
          /\ messages' = messages
        /\ out' = NoRound
    BY <1>4, Replies DEF Raise, EndRound
  <2> QED
    BY <1>1, <1>2, <2>1, RaiseKeeps DEF GInv, GTypes
<1> QED
  BY <1>1, <1>3, <1>4

-----------------------------------------------------------------------------
(* Rounds *)

\* A round and its answers behind a history.
LEMMA ClosingKeeps ==
  ASSUME NEW h, Good(h), h = <<>> \/ Asks(h), NEW parts \in SUBSET Request, DistinctIds(parts),
         NEW answers \in SUBSET Answer, Ids(answers) = Ids(parts),
         NEW before, Has(h, before)
  PROVE  LET g == Append(Append(h, Model(parts, 0)), Tool(answers))
         IN  Good(g) /\ Asks(g) /\ OpenParts(g) = {} /\ Has(g, before \cup Ids(parts))
<1> DEFINE m == Model(parts, 0)
           f == Append(h, m)
           g == Append(f, Tool(answers))
<1>1. m \in Message /\ m.role = "model" /\ m.parts = parts
  <2>1. m \in ModelMsg
    BY Kinds
  <2> QED
    BY <2>1, Kinds DEF Model
<1>2. Tool(answers) \in Message /\ Tool(answers).role = "tool" /\ Tool(answers).parts = answers
  BY Kinds DEF Tool
<1> HIDE DEF m
<1>3. Good(f) /\ f # <<>> /\ Last(f) = m /\ Has(f, before)
  BY <1>1, Grows DEF Asks
<1> HIDE DEF f
<1>4. Good(g) /\ g # <<>> /\ Last(g) = Tool(answers) /\ Has(g, before) /\ Has(g, Ids(parts))
  BY <1>1, <1>2, <1>3, Grows
<1> HIDE DEF g
<1>5. Has(g, before \cup Ids(parts))
  BY <1>4 DEF Has
<1>6. Asks(g)
  BY <1>2, <1>4 DEF Asks
<1> QED
  BY <1>4, <1>5, <1>6, AsksOpensNothing DEF m, f, g

\* The answers of a round.
LEMMA AnswersOfRound ==
  ASSUME NEW parts \in SUBSET Request
  PROVE  /\ {[id |-> p.id, of |-> p.id] : p \in parts} \in SUBSET Answer
         /\ Ids({[id |-> p.id, of |-> p.id] : p \in parts}) = Ids(parts)
<1>1. \A p \in parts : p.id \in Nat
  BY DEF Request
<1>2. {[id |-> p.id, of |-> p.id] : p \in parts} \in SUBSET Answer
  BY <1>1 DEF Answer
<1>3. \A p \in parts : [id |-> p.id, of |-> p.id].id = p.id
  OBVIOUS
<1> QED
  BY <1>2, <1>3, ZenonT(60) DEF Ids

\* A pause shows every request of the round, and each stashed answer is that request's own.
LEMMA PauseOfRound ==
  ASSUME round \in SUBSET Request, DistinctIds(round), round # {}, \A p \in round : MeantFor(p) = p.id
  PROVE  IsPause(Model(PausedParts, 0))
<1> DEFINE shown(p) == IF out[p.id] = "interrupt" THEN [p EXCEPT !.mark = "interrupt", !.of = p.id]
                                                   ELSE [p EXCEPT !.mark = "pending", !.of = MeantFor(p)]
<1>1. PausedParts = {shown(p) : p \in round}
  BY DEF PausedParts
<1>2. ASSUME NEW p \in round
      PROVE  shown(p) \in Request /\ shown(p).id = p.id /\ shown(p).mark \in {"interrupt", "pending"}
  <2>1. p \in [id : Nat, tool : Tools \cup {Ghost}, ref : Nat, mark : Marks, of : Nat] /\ p.ref = p.id
          /\ MeantFor(p) = p.id
    BY DEF Request
  <2> QED
    BY <2>1 DEF Request, Marks
<1>3. \A p, q \in round : p.id = q.id => p = q
  BY DEF DistinctIds
<1> HIDE DEF shown
<1>4. PausedParts \in SUBSET Request /\ DistinctIds(PausedParts) /\ PausedParts # {}
      /\ \A q \in PausedParts : q.mark \in {"interrupt", "pending"}
  BY <1>1, <1>2, <1>3 DEF DistinctIds
<1>5. Model(PausedParts, 0) \in ModelMsg /\ Model(PausedParts, 0).parts = PausedParts
  BY <1>4, Kinds DEF Model
<1> QED
  BY <1>4, <1>5 DEF IsPause

\* A pause behind a history.
LEMMA PauseIsGood ==
  ASSUME NEW h, Good(h), h = <<>> \/ Asks(h), NEW m, IsPause(m), NEW ids, Has(h, ids)
  PROVE  LET r == Response("interrupted", m, h)
         IN  r \in Carrier /\ r.msg = m /\ r.fin = "interrupted" /\ Good(Messages(r)) /\ Has(Messages(r), ids)
<1>1. m \in Message /\ m \in ModelMsg /\ m # NoMsg /\ m.role = "model"
  BY Kinds DEF IsPause
<1>2. Good(Append(h, m)) /\ Has(Append(h, m), ids) /\ h \in Seq(Message)
  BY <1>1, Grows DEF Asks, Good
<1> DEFINE r == Response("interrupted", m, h)
<1>3. r \in Carrier /\ r.msg = m /\ r.fin = "interrupted" /\ Messages(r) = Append(h, m)
  BY <1>1, <1>2, Replies
<1> QED
  BY <1>2, <1>3

\* In a resume every answer goes to the request that asked for it.
LEMMA ResumeMeans ==
  ASSUME GInv, pc = "gatherResume"
  PROVE  /\ round \in SUBSET Request /\ DistinctIds(round) /\ round # {} /\ \A p \in round : MeantFor(p) = p.id
<1>1. /\ round = OpenParts(entry) /\ resume # NoResume /\ pc # "idle" /\ \A p \in round : Resolution(p) # "unresolved"
      /\ \A r \in resume : r.of = r.ref
  BY DEF GInv, RoundInv, LoopInv, ClientInv
<1>2. entry # <<>> /\ Last(entry) \in ModelMsg /\ Last(entry).parts # {}
  BY <1>1, TopFrame DEF IsPause
<1>3. round = Last(entry).parts
  BY <1>1, <1>2, Kinds DEF OpenParts
<1>4. round \in SUBSET Request /\ DistinctIds(round) /\ round # {}
  BY <1>2, <1>3 DEF ModelMsg
<1>5. ASSUME NEW p \in round PROVE MeantFor(p) = p.id
  <2>1. p.of = p.id /\ p.ref = p.id
    BY <1>4 DEF Request
  <2>2. CASE Resolution(p) = "stashed"
    BY <2>1, <2>2 DEF MeantFor
  <2>3. CASE Resolution(p) # "stashed"
    <3>1. Matching(p, Resolution(p)) # {}
      BY <1>1, <2>3 DEF Resolution
    <3>2. (CHOOSE r \in Matching(p, Resolution(p)) : TRUE) \in Matching(p, Resolution(p))
      BY <3>1
    <3>3. \A r \in Matching(p, Resolution(p)) : r.of = p.id
      BY <1>1, <2>1 DEF Matching
    <3>4. MeantFor(p) = (CHOOSE r \in Matching(p, Resolution(p)) : TRUE).of
      BY <2>3 DEF MeantFor
    <3> QED
      BY <3>2, <3>3, <3>4
  <2> QED
    BY <2>2, <2>3
<1> QED
  BY <1>4, <1>5

\* The resume is in: a pause again, or its answers behind the turn it resumes.
LEMMA EndResumeKeeps == ASSUME GInv, EndResume PROVE GInv'
<1> DEFINE before == Front(Last(frames))
           answers == {[id |-> p.id, of |-> MeantFor(p)] : p \in round}
           resolved == {[p EXCEPT !.mark = "resolved"] : p \in round}
           answered == Append(Append(before, Model(resolved, 0)), Tool(answers))
<1>1. /\ pc = "gatherResume" /\ UNCHANGED <<resp, entry, resume, frames, last, strays, nextId>>
      /\ out' = NoRound
      /\ \/ /\ result' = Response("interrupted", Model(PausedParts, 0), before) /\ pc' = "after"
            /\ UNCHANGED <<messages, closed>>
         \/ closed' = closed \union {p.id : p \in round} /\ pc' = "model" /\ messages' = answered
           /\ UNCHANGED result
         \/ closed' = closed \union {p.id : p \in round} /\ Raise(answered)
  BY DEF EndResume, EndRound, client
<1>2. /\ Last(frames) = entry /\ Len(frames) = 1 /\ last = Unset /\ resume # NoResume /\ closed = {} /\ pc # "idle"
      /\ Good(entry) /\ entry # <<>> /\ IsPause(Last(entry)) /\ strays = {}
  BY <1>1, TopFrame DEF GInv, LoopInv, RoundInv
<1>3. round \in SUBSET Request /\ DistinctIds(round) /\ round # {} /\ \A p \in round : MeantFor(p) = p.id
  BY <1>1, ResumeMeans
<1>4. Good(before) /\ (before = <<>> \/ Asks(before)) /\ Has(before, {})
  <2>1. Last(entry).role = "model"
    BY <1>2, Kinds DEF IsPause
  <2> QED
    BY <1>2, <2>1, Shrinks DEF Has
<1>5. answers \in SUBSET Answer /\ Ids(answers) = Ids(round)
  <2>1. answers = {[id |-> p.id, of |-> p.id] : p \in round}
    BY <1>3
  <2> QED
    BY <1>3, <2>1, AnswersOfRound
<1>6. resolved \in SUBSET Request /\ DistinctIds(resolved) /\ Ids(resolved) = Ids(round)
  <2>1. ASSUME NEW p \in round
        PROVE  [p EXCEPT !.mark = "resolved"] \in Request /\ [p EXCEPT !.mark = "resolved"].id = p.id
    <3>1. p \in [id : Nat, tool : Tools \cup {Ghost}, ref : Nat, mark : Marks, of : Nat] /\ p.ref = p.id
            /\ p.of = p.id
      BY <1>3 DEF Request
    <3> QED
      BY <3>1 DEF Request, Marks
  <2>2. \A p, q \in round : p.id = q.id => p = q
    BY <1>3 DEF DistinctIds
  <2> DEFINE done(p) == [p EXCEPT !.mark = "resolved"]
  <2>3. resolved = {done(p) : p \in round} /\ \A p \in round : done(p) \in Request /\ done(p).id = p.id
    BY <2>1
  <2> HIDE DEF done, resolved
  <2>4. resolved \in SUBSET Request
    BY <2>3
  <2>5. DistinctIds(resolved)
    BY <2>2, <2>3 DEF DistinctIds
  <2>6. Ids(resolved) = Ids(round)
    BY <2>3 DEF Ids
  <2> QED
    BY <2>4, <2>5, <2>6
<1> HIDE DEF before, answers, resolved
<1>7. Good(answered) /\ Asks(answered) /\ OpenParts(answered) = {} /\ Has(answered, Ids(round))
  <2>1. Has(answered, {} \cup Ids(resolved)) /\ Good(answered) /\ Asks(answered) /\ OpenParts(answered) = {}
    BY <1>4, <1>5, <1>6, ClosingKeeps
  <2>2. {} \cup Ids(resolved) = Ids(round)
    BY <1>6
  <2> QED
    BY <2>1, <2>2
<1> HIDE DEF answered
<1>8. closed \union {p.id : p \in round} = Ids(round) /\ Ids(round) # {}
  BY <1>2, <1>3 DEF Ids
<1>9. CASE /\ result' = Response("interrupted", Model(PausedParts, 0), before) /\ pc' = "after"
           /\ UNCHANGED <<messages, closed>>
  <2>1. IsPause(Model(PausedParts, 0))
    BY <1>3, PauseOfRound
  <2>2. /\ result' \in Carrier /\ result'.fin = "interrupted" /\ IsPause(result'.msg)
        /\ Good(Messages(result')) /\ Has(Messages(result'), {})
    BY <1>4, <1>9, <2>1, PauseIsGood
  <2>3. GTypes'
    BY <1>1, <1>9, <2>2 DEF GInv, GTypes
  <2>4. ClientInv' /\ FramesInv'
    BY <1>1, <1>2, <1>9, ClientStays, FramesStay
  <2>5. LoopInv' /\ RoundInv'
    BY <1>1, <1>2, <1>9 DEF LoopInv, RoundInv
  <2>6. ResultInv'
    <3>1. Messages(result)' = Messages(result')
      BY DEF Messages
    <3> QED
      BY <1>2, <1>9, <2>2, <3>1 DEF ResultInv
  <2> QED
    BY <2>3, <2>4, <2>5, <2>6 DEF GInv
<1>10. CASE closed' = closed \union {p.id : p \in round} /\ pc' = "model" /\ messages' = answered
         /\ UNCHANGED result
  <2>1. GTypes'
    BY <1>1, <1>7, <1>10 DEF GInv, GTypes, Good
  <2>2. ClientInv' /\ FramesInv'
    BY <1>1, <1>2, <1>10, ClientStays, FramesStay
  <2>3. LoopInv'
    BY <1>1, <1>2, <1>7, <1>8, <1>10 DEF LoopInv
  <2>4. RoundInv' /\ ResultInv'
    BY <1>1, <1>2, <1>10 DEF RoundInv, ResultInv
  <2> QED
    BY <2>1, <2>2, <2>3, <2>4 DEF GInv
<1>11. CASE closed' = closed \union {p.id : p \in round} /\ Raise(answered)
  <2>1. FailedOrAborted \in {"aborted", "failed"} /\ result' = Box(FailedOrAborted, answered) /\ pc' = "return"
        /\ messages' = answered
    BY <1>11, Replies DEF Raise
  <2>2. closed \subseteq closed' /\ Has(answered, closed')
    BY <1>7, <1>8, <1>11
  <2> QED
    BY <1>1, <1>2, <1>7, <2>1, <2>2, RaiseKeeps DEF GInv, GTypes
<1> QED
  BY <1>1, <1>9, <1>10, <1>11

-----------------------------------------------------------------------------
(* The model and the tools of its round *)

\* What the model may ask for.
LEMMA AskedParts ==
  ASSUME GInv, NEW asked \in Requests
  PROVE  asked # {} /\ asked \in SUBSET Request /\ DistinctIds(asked) /\ Cardinality(asked) \in Nat
<1>1. MaxParallel \in Nat /\ nextId \in Nat
  BY GenerateAssumption DEF GInv, GTypes
<1>2. PICK n \in 1..MaxParallel : asked \in
        {{[id |-> i, tool |-> f[i], ref |-> i, mark |-> "asked", of |-> i] : i \in DOMAIN f} :
           f \in [nextId..(nextId + n - 1) -> Tools \union {Ghost}]}
  BY DEF Requests
<1>3. PICK f \in [nextId..(nextId + n - 1) -> Tools \union {Ghost}] :
        asked = {[id |-> i, tool |-> f[i], ref |-> i, mark |-> "asked", of |-> i] : i \in DOMAIN f}
  BY <1>2
<1> DEFINE D == nextId..(nextId + n - 1)
           request(i) == [id |-> i, tool |-> f[i], ref |-> i, mark |-> "asked", of |-> i]
           g == [i \in D |-> request(i)]
<1>4. n \in Nat /\ n > 0 /\ nextId \in D /\ D \subseteq Nat /\ DOMAIN f = D
  BY <1>1
<1>5. IsFiniteSet(D)
  BY <1>1, <1>4, FS_Interval
<1> HIDE DEF D
<1>6. asked = {request(i) : i \in D} /\ \A i \in D : f[i] \in Tools \union {Ghost} /\ i \in Nat
  BY <1>3, <1>4 DEF D
<1>7. \A i \in D : request(i) \in Request /\ request(i).id = i
  BY <1>6 DEF Request, Marks
<1> HIDE DEF request
<1>8. g \in Surjection(D, asked)
  <2>1. g \in [D -> asked] /\ \A t \in asked : \E i \in D : g[i] = t
    BY <1>6
  <2> QED
    BY <2>1 DEF Surjection
<1>9. IsFiniteSet(asked)
  BY <1>5, <1>8, FS_Surjection
<1>10. Cardinality(asked) \in Nat
  BY <1>9, FS_CardinalityType
<1> QED
  BY <1>4, <1>6, <1>7, <1>10 DEF DistinctIds

\* The model failed, replied, or asked for tools.
LEMMA ModelAnswersKeeps == ASSUME GInv, ModelAnswers PROVE GInv'
<1>1. /\ pc = "model" /\ UNCHANGED <<resp, entry, resume, frames, messages, last, strays, closed>>
      /\ \/ Stop(Box(FailedOrAborted, messages)) /\ nextId' = nextId
         \/ \E msg \in {NoMsg, Model({}, 0)} : Stop(Response("stop", msg, messages)) /\ nextId' = nextId
         \/ \E asked \in Requests :
              /\ nextId' = nextId + Cardinality(asked)
              /\ \/ Stop(Box("aborted", messages)) \/ Stop(Box("failed", messages))
                 \/ /\ pc' = "gather" /\ round' = asked /\ UNCHANGED result
  BY DEF ModelAnswers, client
<1>2. /\ Good(messages) /\ Asks(messages) /\ Has(messages, closed) /\ last = Unset /\ (closed = {} => resume = NoResume)
      /\ messages \in Seq(Message) /\ OpenParts(messages) = {} /\ strays = {} /\ out = NoRound /\ pc # "idle"
      /\ nextId \in Nat /\ messages # <<>>
  BY <1>1, AsksOpensNothing DEF GInv, GTypes, LoopInv, RoundInv, Asks
<1>3. nextId' \in Nat
  <2>1. CASE nextId' = nextId
    BY <1>2, <2>1
  <2>2. CASE \E asked \in Requests : nextId' = nextId + Cardinality(asked)
    <3>1. PICK asked \in Requests : nextId' = nextId + Cardinality(asked)
      BY <2>2
    <3>2. Cardinality(asked) \in Nat
      BY AskedParts
    <3> QED
      BY <1>2, <3>1, <3>2
  <2> QED
    BY <1>1, <2>1, <2>2
<1>4. ASSUME NEW fin \in {"aborted", "failed"}, Stop(Box(fin, messages)) PROVE GInv'
  <2>1. result' = Box(fin, messages) /\ pc' = "after" /\ out' = out
    BY <1>4 DEF Stop
  <2>2. /\ result' \in Carrier /\ result'.msg = NoMsg /\ Messages(result') = messages /\ result'.fin # "interrupted"
    BY <1>2, <2>1, Replies
  <2>3. GTypes'
    BY <1>1, <1>2, <1>3, <2>2 DEF GInv, GTypes
  <2>4. ClientInv' /\ FramesInv'
    BY <1>1, <1>2, <2>1, ClientStays, FramesStay
  <2>5. LoopInv' /\ RoundInv'
    BY <1>1, <1>2, <2>1, <2>2 DEF LoopInv, RoundInv
  <2>6. Remembered'
    BY <1>1, <1>2, <2>2 DEF Remembered
  <2>7. ResultInv'
    <3>1. Messages(result)' = Messages(result')
      BY DEF Messages
    <3> QED
      BY <1>1, <1>2, <2>1, <2>2, <2>6, <3>1 DEF ResultInv
  <2> QED
    BY <2>3, <2>4, <2>5, <2>7 DEF GInv
<1>5. ASSUME NEW msg \in {NoMsg, Model({}, 0)}, Stop(Response("stop", msg, messages)) PROVE GInv'
  <2>1. result' = Response("stop", msg, messages) /\ pc' = "after" /\ out' = out
    BY <1>5 DEF Stop
  <2>2. msg = NoMsg \/ (msg \in ModelMsg /\ msg \in Message /\ msg.parts = {} /\ msg.role = "model" /\ msg # NoMsg)
    <3>1. Model({}, 0) \in ModelMsg
      BY Kinds DEF DistinctIds
    <3> QED
      BY <3>1, Kinds DEF Model
  <2>3. /\ result' \in Carrier /\ result'.msg = msg /\ result'.fin = "stop"
        /\ Messages(result') = IF msg = NoMsg THEN messages ELSE Append(messages, msg)
    <3>1. msg \in ModelMsg \cup {NoMsg}
      BY <2>2
    <3> DEFINE r == Response("stop", msg, messages)
    <3>2. /\ r \in Carrier /\ r.msg = msg /\ r.fin = "stop"
          /\ Messages(r) = IF msg = NoMsg THEN messages ELSE Append(messages, msg)
      BY <1>2, <3>1 DEF Response, Carrier, Messages
    <3> QED
      BY <2>1, <3>2
  <2>4. Good(Messages(result')) /\ Has(Messages(result'), closed) /\ OpenParts(Messages(result')) = {}
    <3>1. CASE msg = NoMsg
      BY <1>2, <2>3, <3>1
    <3>2. CASE msg # NoMsg
      <4>1. Good(Append(messages, msg)) /\ Has(Append(messages, msg), closed) /\ Last(Append(messages, msg)) = msg
        BY <1>2, <2>2, <3>2, Grows DEF Asks
      <4> QED
        BY <2>2, <2>3, <3>2, <4>1 DEF OpenParts
    <3> QED
      BY <3>1, <3>2
  <2>5. GTypes'
    BY <1>1, <1>2, <1>3, <2>3 DEF GInv, GTypes
  <2>6. ClientInv' /\ FramesInv'
    BY <1>1, <1>2, <2>1, ClientStays, FramesStay
  <2>7. LoopInv' /\ RoundInv'
    BY <1>1, <1>2, <2>1, <2>3 DEF LoopInv, RoundInv
  <2>8. Remembered'
    BY <1>1, <1>2, <2>2, <2>3 DEF Remembered, Asks
  <2>9. ResultInv'
    <3>1. Messages(result)' = Messages(result')
      BY DEF Messages
    <3> QED
      BY <1>1, <1>2, <2>1, <2>3, <2>4, <2>8, <3>1 DEF ResultInv
  <2> QED
    BY <2>5, <2>6, <2>7, <2>9 DEF GInv
<1>6. ASSUME NEW asked \in Requests, pc' = "gather", round' = asked, UNCHANGED result PROVE GInv'
  <2>1. asked # {} /\ asked \in SUBSET Request /\ DistinctIds(asked)
    BY AskedParts
  <2>2. GTypes'
    BY <1>1, <1>3, <1>6 DEF GInv, GTypes
  <2>3. ClientInv' /\ FramesInv'
    BY <1>1, <1>2, <1>6, ClientStays, FramesStay
  <2>4. LoopInv' /\ RoundInv' /\ ResultInv'
    BY <1>1, <1>2, <1>6, <2>1 DEF LoopInv, RoundInv, ResultInv
  <2> QED
    BY <2>2, <2>3, <2>4 DEF GInv
<1>7. FailedOrAborted \in {"aborted", "failed"}
  BY Replies
<1> QED
  BY <1>1, <1>4, <1>5, <1>6, <1>7

\* A round that is given up is boxed without its request.
LEMMA RoundIsLost ==
  ASSUME GInv, pc = "gather", NEW id, NEW fin \in {"aborted", "failed"}, LoseRound(id, fin),
         UNCHANGED <<client, abort, frames, messages, last, nextId, closed>>
  PROVE  GInv'
<1>1. result' = Box(fin, messages) /\ pc' = "after" /\ out' = NoRound /\ UNCHANGED <<resp, entry, resume>>
  BY DEF LoseRound, EndRound, client
<1>2. /\ Good(messages) /\ OpenParts(messages) = {} /\ Has(messages, closed) /\ pc # "idle"
      /\ closed = {} => resume = NoResume
  BY AsksOpensNothing DEF GInv, LoopInv
<1> QED
  BY <1>1, <1>2, RaiseKeeps DEF GInv, GTypes

\* A tool of the round ends, or fails the round.
LEMMA FinishToolKeeps == ASSUME GInv, NEW id \in DOMAIN out, FinishTool(id) PROVE GInv'
<1>1. /\ pc = "gather" /\ UNCHANGED <<client, abort, frames, messages, last, nextId, closed>>
      /\ UNCHANGED <<pc, result, round, strays>> \/ LoseRound(id, FailedOrAborted)
  BY DEF FinishTool
<1>2. CASE UNCHANGED <<pc, result, round, strays>>
  <2>1. UNCHANGED <<resp, entry, resume>> /\ pc # "idle"
    BY <1>1 DEF client
  <2>2. GTypes' /\ ClientInv' /\ FramesInv'
    BY <1>1, <1>2, <2>1, ClientStays, FramesStay DEF GInv, GTypes
  <2>3. LoopInv' /\ ResultInv' /\ RoundInv'
    BY <1>1, <1>2, <2>1 DEF GInv, LoopInv, ResultInv, RoundInv
  <2> QED
    BY <2>2, <2>3 DEF GInv
<1>3. CASE LoseRound(id, FailedOrAborted)
  <2>1. FailedOrAborted \in {"aborted", "failed"}
    BY Replies
  <2> QED
    BY <1>1, <1>3, <2>1, RoundIsLost
<1> QED
  BY <1>1, <1>2, <1>3

\* The abort watcher cancels a tool.
LEMMA CancelToolKeeps == ASSUME GInv, NEW id \in DOMAIN out, CancelTool(id) PROVE GInv'
BY RoundIsLost DEF CancelTool

\* A tool nobody waits for ends.
LEMMA StrayEndsKeeps == ASSUME GInv, NEW id \in strays, StrayEnds(id) PROVE GInv'
<1>1. UNCHANGED <<client, loop, round, out, nextId, closed>> /\ strays # {} /\ pc \in {"after", "return", "idle"}
      /\ (pc # "idle" => result.fin # "interrupted")
  BY DEF StrayEnds, GInv, RoundInv
<1>2. UNCHANGED <<resp, entry, resume, pc, frames, messages, last, result, round, out, nextId, closed>>
  BY <1>1 DEF client, loop
<1>3. RoundInv'
  BY <1>1, <1>2 DEF GInv, RoundInv
<1>4. GTypes' /\ ClientInv' /\ FramesInv' /\ LoopInv' /\ ResultInv'
  BY <1>2 DEF GInv, GTypes, ClientInv, FramesInv, LoopInv, ResultInv, Remembered, Messages, Interrupts, OpenParts
<1> QED
  BY <1>3, <1>4 DEF GInv

\* The round is in: a pause, or its answers and a frame more.
LEMMA EndRoundOfToolsKeeps == ASSUME GInv, EndRoundOfTools PROVE GInv'
<1> DEFINE answers == {[id |-> p.id, of |-> p.id] : p \in round}
           next == Append(Append(messages, Model(round, 0)), Tool(answers))
<1>1. /\ pc = "gather" /\ UNCHANGED <<resp, entry, resume, last, strays, nextId>> /\ out' = NoRound
      /\ \/ /\ result' = Response("interrupted", Model(PausedParts, 0), messages) /\ pc' = "after"
            /\ UNCHANGED <<messages, frames, closed>>
         \/ /\ closed' = closed \union {p.id : p \in round}
            /\ \/ pc' = "door" /\ messages' = next /\ frames' = Append(frames, next) /\ UNCHANGED result
               \/ Raise(next) /\ UNCHANGED frames
  BY DEF EndRoundOfTools, EndRound, client
<1>2. /\ Good(messages) /\ Asks(messages) /\ Has(messages, closed) /\ last = Unset /\ strays = {} /\ pc # "idle"
      /\ round \in SUBSET Request /\ DistinctIds(round) /\ round # {}
      /\ frames \in Seq(Seq(Message)) /\ frames # <<>> /\ frames[1] = entry
      /\ Len(frames) \in Nat /\ Len(frames) > 0
  BY <1>1, TopFrame DEF GInv, GTypes, FramesInv, LoopInv, RoundInv
<1>3. Good(next) /\ Asks(next) /\ OpenParts(next) = {} /\ Has(next, closed \cup Ids(round))
  <2>1. answers \in SUBSET Answer /\ Ids(answers) = Ids(round)
    BY <1>2, AnswersOfRound
  <2> HIDE DEF answers
  <2> QED
    BY <1>2, <2>1, ClosingKeeps
<1> HIDE DEF next
<1>4. closed \union {p.id : p \in round} = closed \cup Ids(round) /\ closed \cup Ids(round) # {}
  BY <1>2 DEF Ids
<1>5. CASE /\ result' = Response("interrupted", Model(PausedParts, 0), messages) /\ pc' = "after"
           /\ UNCHANGED <<messages, frames, closed>>
  <2>1. IsPause(Model(PausedParts, 0))
    <3>1. \A p \in round : MeantFor(p) = p.id
      BY <1>1, <1>2 DEF MeantFor, Request
    <3> QED
      BY <1>2, <3>1, PauseOfRound
  <2>2. /\ result' \in Carrier /\ result'.fin = "interrupted" /\ IsPause(result'.msg)
        /\ Good(Messages(result')) /\ Has(Messages(result'), closed)
    BY <1>2, <1>5, <2>1, PauseIsGood
  <2>3. GTypes'
    BY <1>1, <1>5, <2>2 DEF GInv, GTypes
  <2>4. ClientInv' /\ FramesInv'
    BY <1>1, <1>2, <1>5, ClientStays, FramesStay
  <2>5. LoopInv' /\ RoundInv'
    BY <1>1, <1>2, <1>5 DEF LoopInv, RoundInv
  <2>6. ResultInv'
    <3>1. Messages(result)' = Messages(result')
      BY DEF Messages
    <3> QED
      BY <1>2, <1>5, <2>2, <3>1 DEF ResultInv
  <2> QED
    BY <2>3, <2>4, <2>5, <2>6 DEF GInv
<1>6. CASE /\ closed' = closed \union {p.id : p \in round}
           /\ pc' = "door" /\ messages' = next /\ frames' = Append(frames, next) /\ UNCHANGED result
  <2>1. next \in Seq(Message)
    BY <1>3 DEF Good
  <2>2. /\ frames' \in Seq(Seq(Message)) /\ frames' # <<>> /\ Last(frames') = next /\ Len(frames') = Len(frames) + 1
        /\ frames'[Len(frames) + 1] = next /\ \A i \in 1..Len(frames) : frames'[i] = frames[i]
    BY <1>2, <1>6, <2>1, Appends
  <2>3. GTypes'
    BY <1>1, <1>6, <2>1, <2>2 DEF GInv, GTypes
  <2>4. ClientInv'
    BY <1>1, <1>2, ClientStays
  <2>5. FramesInv'
    <3>1. frames'[1] = entry
      <4>1. 1 \in 1..Len(frames)
        BY <1>2
      <4> QED
        BY <1>2, <2>2, <4>1
    <3>2. ASSUME NEW k \in 2..Len(frames') PROVE Good(frames'[k]) /\ Asks(frames'[k])
      <4>1. CASE k = Len(frames) + 1
        BY <1>3, <2>2, <4>1
      <4>2. CASE k # Len(frames) + 1
        <5>1. k \in 2..Len(frames) /\ k \in 1..Len(frames)
          BY <1>2, <2>2, <4>2
        <5> QED
          BY <2>2, <5>1 DEF GInv, FramesInv
      <4> QED
        BY <4>1, <4>2
    <3>3. closed' # {}
      BY <1>4, <1>6
    <3> QED
      BY <1>1, <1>6, <2>2, <3>1, <3>2, <3>3 DEF FramesInv
  <2>6. LoopInv'
    <3>1. Has(Last(frames'), closed')
      BY <1>3, <1>4, <1>6, <2>2
    <3>2. Len(frames') # 1
      BY <1>2, <2>2
    <3> QED
      BY <1>6, <3>1, <3>2 DEF LoopInv
  <2>7. RoundInv' /\ ResultInv'
    BY <1>1, <1>2, <1>6 DEF RoundInv, ResultInv
  <2> QED
    BY <2>3, <2>4, <2>5, <2>6, <2>7 DEF GInv
<1>7. CASE closed' = closed \union {p.id : p \in round} /\ Raise(next) /\ UNCHANGED frames
  <2>1. FailedOrAborted \in {"aborted", "failed"} /\ result' = Box(FailedOrAborted, next) /\ pc' = "return"
        /\ messages' = next
    BY <1>7, Replies DEF Raise
  <2>2. closed \subseteq closed' /\ Has(next, closed')
    BY <1>3, <1>4, <1>7
  <2> QED
    BY <1>1, <1>2, <1>3, <1>7, <2>1, <2>2, RaiseKeeps DEF GInv, GTypes
<1> QED
  BY <1>1, <1>5, <1>6, <1>7

-----------------------------------------------------------------------------
(* The theorems *)

\* Nothing was said yet.
LEMMA InitHolds == Init => GInv
<1> SUFFICES ASSUME Init PROVE GInv
  OBVIOUS
<1>1. <<>> \in Seq(Message) /\ Len(<<>>) = 0 /\ <<>> \in Seq(Seq(Message))
  OBVIOUS
<1>2. resp = Response("stop", NoMsg, <<>>) /\ resp \in Carrier /\ Messages(resp) = <<>> /\ result \in Carrier
  BY <1>1, Replies DEF Init
<1>3. Good(<<>>) /\ OpenParts(<<>>) = {}
  BY <1>1 DEF Good, Answered, OpenParts
<1>4. GTypes
  BY <1>1, <1>2 DEF Init, GTypes
<1>5. ClientInv
  BY <1>2, <1>3 DEF Init, ClientInv, Ends, NoResume
<1>6. FramesInv
  BY <1>1 DEF Init, FramesInv
<1>7. LoopInv /\ RoundInv /\ ResultInv
  BY DEF Init, LoopInv, RoundInv, ResultInv
<1> QED
  BY <1>4, <1>5, <1>6, <1>7 DEF GInv

\* Every step keeps the invariant.
LEMMA StepKeeps == ASSUME Habits = {}, GInv, [Next]_vars PROVE GInv'
<1>1. CASE UNCHANGED vars
  <2>1. UNCHANGED <<client, loop, tools, nextId, closed>>
    BY <1>1 DEF vars
  <2> QED
    BY <2>1 DEF client, loop, tools, GInv, GTypes, ClientInv, FramesInv, LoopInv, RoundInv, ResultInv,
                Remembered, Messages, Interrupts, OpenParts, Resolution, Matching
<1>2. CASE Engine
  <2>1. CASE Door \/ HookBefore \/ HookAfter \/ Return
    BY <2>1, DoorKeeps, HookBeforeKeeps, HookAfterKeeps, ReturnKeeps
  <2>2. CASE StartResume \/ EndResume \/ ModelAnswers \/ EndRoundOfTools
    BY <2>2, StartResumeKeeps, EndResumeKeeps, ModelAnswersKeeps, EndRoundOfToolsKeeps
  <2>3. CASE \E id \in DOMAIN out : FinishRestart(id) \/ CancelTool(id)
    BY <2>3, FinishRestartKeeps, CancelToolKeeps
  <2> QED
    BY <1>2, <2>1, <2>2, <2>3 DEF Engine
<1>3. CASE Prompt \/ Resume \/ Abort \/ Cancel
  BY <1>3, PromptKeeps, ResumeKeeps, AbortKeeps, CancelKeeps
<1>4. CASE (\E id \in DOMAIN out : FinishTool(id)) \/ (\E id \in strays : StrayEnds(id))
  BY <1>4, FinishToolKeeps, StrayEndsKeeps
<1> QED
  BY <1>1, <1>2, <1>3, <1>4 DEF Next

(* Whatever the tools, the hooks and the caller do: in the history of a response every    *)
(* request is answered by the message behind it, under its own id; no two replies of the   *)
(* model stand together; and only a pause, told or handed back, ends in open requests      *)
(* (GenerateRun.remember, box_from_exc, resolve_resume_options).                        *)
THEOREM HistoryCanBeResentHolds == ASSUME Habits = {} PROVE Spec => []HistoryCanBeResent
<1>1. Init => GInv
  BY InitHolds
<1>2. GInv /\ [Next]_vars => GInv'
  BY StepKeeps
<1>3. GInv => HistoryCanBeResent
  <2> SUFFICES ASSUME GInv PROVE HistoryCanBeResent
    OBVIOUS
  <2>1. pc = "return" =>
          /\ Answered(History) /\ History \in Seq(Message)
          /\ Len(frames) = 1 /\ OpenParts(History) # {} => result.fin = "interrupted" \/ History = entry
    BY DEF GInv, ResultInv, Good, History
  <2>2. Resendable
    BY <2>1 DEF Resendable, Leaving, Answered
  <2>3. OneModelTurn
    BY <2>1 DEF OneModelTurn, Answered
  <2>4. AnswersItsRequest
    <3> SUFFICES ASSUME Leaving, NEW m \in ToSet(History), m.role = "tool", NEW p \in m.parts PROVE p.of = p.id
      BY DEF AnswersItsRequest
    <3>1. m \in Message
      BY <2>1 DEF Leaving, ToSet
    <3> QED
      BY <3>1, Kinds DEF Answer
  <2> QED
    BY <2>2, <2>3, <2>4 DEF HistoryCanBeResent
<1> QED
  BY <1>1, <1>2, <1>3, PTL DEF Spec

(* The answers of every round that was closed are in the response, however the call ends   *)
(* after it; a pause is told only when nothing of its round still runs, and replying to    *)
(* all of its interrupts always suffices (run_wrap_generate, to_pending_response).         *)
THEOREM ClosedRoundsAreKept == ASSUME Habits = {} PROVE Spec => [](ClosedRoundsKept /\ PausesAreWhole)
<1>1. Init => GInv
  BY InitHolds
<1>2. GInv /\ [Next]_vars => GInv'
  BY StepKeeps
<1>3. GInv => ClosedRoundsKept
  <2> SUFFICES ASSUME GInv, Leaving, NEW x \in closed
               PROVE  \E m \in ToSet(History) : m.role = "tool" /\ x \in Ids(m.parts)
    BY DEF ClosedRoundsKept
  <2>1. Has(History, closed) /\ History \in Seq(Message)
    BY DEF GInv, ResultInv, Good, History, Leaving
  <2>2. PICK i \in 1..Len(History) : History[i].role = "tool" /\ \E p \in History[i].parts : p.id = x
    BY <2>1 DEF Has
  <2>3. History[i] \in ToSet(History) /\ x \in Ids(History[i].parts)
    BY <2>1, <2>2 DEF ToSet, Ids
  <2> QED
    BY <2>2, <2>3
<1>4. GInv => PausesAreWhole
  <2> SUFFICES ASSUME GInv PROVE PausesAreWhole
    OBVIOUS
  <2>1. pc = "return" /\ result.fin = "interrupted" => strays = {} /\ Running = {}
    BY DEF GInv, RoundInv, Running, NoRound
  <2>2. ASSUME pc = "resume", {r.of : r \in resume} = Ids(Interrupts(entry)), NEW p \in OpenParts(Last(frames))
        PROVE  Resolution(p) # "unresolved"
    <3>1. Last(frames) = entry /\ resume # NoResume /\ pc # "idle" /\ entry # <<>> /\ IsPause(Last(entry))
      BY <2>2, TopFrame DEF GInv, LoopInv
    <3>2. /\ \A r \in resume : r.of = r.ref
          /\ \A r \in resume : \E q \in Interrupts(entry) :
               r.of = q.id /\ r.tool = q.tool /\ r.how \in {"respond", "restart"}
      BY <3>1 DEF GInv, ClientInv
    <3>3. OpenParts(entry) = Last(entry).parts /\ DistinctIds(Last(entry).parts) /\ Last(entry).parts \subseteq Request
      BY <3>1 DEF OpenParts, IsPause, ModelMsg
    <3>4. p \in Last(entry).parts /\ p.ref = p.id /\ p.mark \in {"interrupt", "pending"}
      BY <2>2, <3>1, <3>3 DEF Request, IsPause
    <3>5. CASE p.mark = "pending"
      BY <3>5 DEF Resolution
    <3>6. CASE p.mark = "interrupt"
      <4>1. p.id \in Ids(Interrupts(entry))
        BY <3>3, <3>4, <3>6 DEF Ids, Interrupts
      <4>2. PICK r \in resume : r.of = p.id
        BY <2>2, <4>1
      <4>3. PICK q \in Interrupts(entry) : r.of = q.id /\ r.tool = q.tool /\ r.how \in {"respond", "restart"}
        BY <3>2
      <4>4. q = p
        BY <3>3, <3>4, <4>2, <4>3 DEF Interrupts, DistinctIds
      <4>5. r \in Matching(p, r.how)
        BY <3>2, <3>4, <4>2, <4>3, <4>4 DEF Matching
      <4> QED
        BY <3>6, <4>3, <4>5 DEF Resolution
    <3> QED
      BY <3>4, <3>5, <3>6
  <2> QED
    BY <2>1, <2>2 DEF PausesAreWhole
<1> QED
  BY <1>1, <1>2, <1>3, <1>4, PTL DEF Spec

-----------------------------------------------------------------------------
(* A round of tools with pauses in it (ToolPauses), for any round, requests of  *)
(* the same tool and ref included, any replies and any number of pauses.  An    *)
(* open request bears its question or a stashed answer, and the stash is read    *)
(* back as it was written; a run that is under way in a resume was told by the   *)
(* restart of its own request; and what is heard of a run is what it returned.   *)

(* What waits on an answered request; the answer of a closed round. *)
PauseTypes ==
  /\ pauseSite \in PauseSites
  /\ roundIs \in {"fresh", "paused", "resuming", "closed", "failed"}
  /\ asking = [i \in Requested |-> [input |-> i, meta |-> asking[i].meta]]
  /\ toolRun = [i \in Requested |-> [at |-> toolRun[i].at, input |-> toolRun[i].input,
                                     told |-> toolRun[i].told, came |-> toolRun[i].came]]
  /\ pauseTally = [pauses |-> pauseTally.pauses, failures |-> pauseTally.failures,
                   done |-> pauseTally.done, returned |-> pauseTally.returned]
  /\ pauseTally.failures \in {0, 1}
  /\ pauseTally.done \in [Requested -> Nat]
  /\ DOMAIN pauseTally.returned = Requested

IsStashed(i) == "pendingOutput" \in DOMAIN asking[i].meta

(* An open request bears its question, or an answer that fits it. *)
MarksFit(i) ==
  /\ roundIs \in {"fresh", "failed"} => DOMAIN asking[i].meta = {}
  /\ roundIs \in {"paused", "resuming"} =>
       \/ DOMAIN asking[i].meta = {"interrupt"}
       \/ /\ IsStashed(i) /\ DOMAIN asking[i].meta \subseteq StashKeys \union {"resolvedInterrupt"}
          /\ Answers(i, FromStash(asking[i].meta))
  /\ roundIs = "closed" => DOMAIN asking[i].meta \subseteq {"resolvedInterrupt"} /\ Answers(i, toolMessage[i])

RunFits(i) ==
  /\ toolRun[i].at \in {"due", "running", "asked", "ended"}
  /\ roundIs \in {"paused", "failed"} => toolRun[i].at = "due"
  /\ roundIs = "closed" => toolRun[i].at \in {"due", "ended"}
  /\ roundIs = "resuming" /\ toolRun[i].at # "due" => Route(i) = "restart"
  /\ roundIs = "fresh" /\ toolRun[i].at = "running" => toolRun[i].told = Fresh /\ toolRun[i].input = i
  /\ roundIs = "resuming" /\ toolRun[i].at = "running" =>
       toolRun[i].told = ResumeContext(PartToRun(i).meta) /\ toolRun[i].input = PartToRun(i).input
  /\ toolRun[i].at = "ended" =>
       /\ toolRun[i].came = pauseTally.returned[i] /\ pauseTally.done[i] > 0
       /\ toolRun[i].came \in Returned

(* A request that no answer waits for has not been run to its end, but in a resume that failed. *)
DoneFits(i) ==
  /\ pauseTally.done[i] <= 1 + pauseTally.failures
  /\ roundIs \in {"fresh", "paused", "resuming"} /\ toolRun[i].at # "ended" /\ ~IsStashed(i) =>
       pauseTally.done[i] <= pauseTally.failures

RepliesFitPause ==
  roundIs = "resuming" =>
    /\ DOMAIN replies \subseteq Requested
    /\ \A i \in DOMAIN replies : "interrupt" \in DOMAIN asking[i].meta /\ replies[i] \in MayReply(i)

PausesInv ==
  /\ PauseTypes /\ RepliesFitPause
  /\ \A i \in Requested : MarksFit(i) /\ RunFits(i) /\ DoneFits(i)

(* Metadata: a key that is written, keys that are taken off. *)
LEMMA KeyWritten ==
  ASSUME NEW meta, NEW key, NEW value
  PROVE  /\ DOMAIN With(meta, key, value) = DOMAIN meta \union {key}
         /\ With(meta, key, value)[key] = value
         /\ \A k \in DOMAIN meta \ {key} : With(meta, key, value)[k] = meta[k]
BY DEF With

LEMMA KeysTakenOff == ASSUME NEW meta, NEW keys PROVE DOMAIN Without(meta, keys) = DOMAIN meta \ keys
BY DEF Without

LEMMA NoKeys == DOMAIN Empty = {}
BY DEF Empty

(* An answer that waits is read back as it was written. *)
LEMMA StashIsRead ==
  ASSUME NEW part, NEW a, part = [input |-> part.input, meta |-> part.meta],
         DOMAIN part.meta \subseteq {"resolvedInterrupt"}
  PROVE  LET stashed == PendingResponse(part, a) IN
         /\ stashed = [input |-> part.input, meta |-> stashed.meta]
         /\ DOMAIN stashed.meta \subseteq StashKeys \union {"resolvedInterrupt"}
         /\ "pendingOutput" \in DOMAIN stashed.meta
         /\ FromStash(stashed.meta) = Envelope(a.output, a.content, a.metadata \union {"source"})
<1> DEFINE output == With(part.meta, "pendingOutput", a.output)
           content == IF a.content = "none" THEN output ELSE With(output, "pendingContent", a.content)
           all == IF a.metadata = {} THEN content ELSE With(content, "pendingMetadata", a.metadata)
<1>1. PendingResponse(part, a) = [part EXCEPT !.meta = all]
  BY DEF PendingResponse
<1>2. PendingResponse(part, a) = [input |-> part.input, meta |-> all]
  BY <1>1
<1>3. /\ DOMAIN output \subseteq {"resolvedInterrupt", "pendingOutput"}
      /\ "pendingOutput" \in DOMAIN output /\ output["pendingOutput"] = a.output
  <2>1. DOMAIN output = DOMAIN part.meta \union {"pendingOutput"} /\ output["pendingOutput"] = a.output
    BY DEF With
  <2> QED
    BY <2>1
<1> HIDE DEF output
<1>4. /\ DOMAIN content \subseteq {"resolvedInterrupt", "pendingOutput", "pendingContent"}
      /\ "pendingOutput" \in DOMAIN content /\ content["pendingOutput"] = a.output
      /\ "pendingContent" \in DOMAIN content <=> a.content # "none"
      /\ a.content # "none" => content["pendingContent"] = a.content
  <2>1. CASE a.content = "none"
    BY <2>1, <1>3
  <2>2. CASE a.content # "none"
    <3>1. content = With(output, "pendingContent", a.content)
      BY <2>2
    <3>2. /\ DOMAIN content = DOMAIN output \union {"pendingContent"}
          /\ content["pendingContent"] = a.content
          /\ \A k \in DOMAIN output \ {"pendingContent"} : content[k] = output[k]
      BY <3>1 DEF With
    <3> QED
      BY <2>2, <3>2, <1>3
  <2> QED
    BY <2>1, <2>2
<1> HIDE DEF content
<1>5. /\ DOMAIN all \subseteq StashKeys \union {"resolvedInterrupt"}
      /\ "pendingOutput" \in DOMAIN all /\ all["pendingOutput"] = a.output
      /\ "pendingContent" \in DOMAIN all <=> a.content # "none"
      /\ a.content # "none" => all["pendingContent"] = a.content
      /\ "pendingMetadata" \in DOMAIN all <=> a.metadata # {}
      /\ a.metadata # {} => all["pendingMetadata"] = a.metadata
  <2>1. CASE a.metadata = {}
    BY <2>1, <1>4 DEF StashKeys
  <2>2. CASE a.metadata # {}
    <3>1. all = With(content, "pendingMetadata", a.metadata)
      BY <2>2
    <3>2. /\ DOMAIN all = DOMAIN content \union {"pendingMetadata"}
          /\ all["pendingMetadata"] = a.metadata
          /\ \A k \in DOMAIN content \ {"pendingMetadata"} : all[k] = content[k]
      BY <3>1 DEF With
    <3> QED
      BY <2>2, <3>2, <1>4 DEF StashKeys
  <2> QED
    BY <2>1, <2>2
<1> HIDE DEF all
<1>6. FromStash(all) = Envelope(a.output, a.content, a.metadata \union {"source"})
  BY <1>5 DEF FromStash, Envelope
<1> QED
  BY <1>2, <1>5, <1>6

(* What fits a request still fits it from its stash. *)
LEMMA StashFits ==
  ASSUME NEW i, NEW a, Answers(i, a), a = Envelope(a.output, a.content, a.metadata)
  PROVE  Answers(i, Envelope(a.output, a.content, a.metadata \union {"source"}))
<1> DEFINE b == Envelope(a.output, a.content, a.metadata \union {"source"})
<1>1. [a EXCEPT !.metadata = @ \ {"source"}] = Envelope(a.output, a.content, a.metadata \ {"source"})
  BY DEF Envelope
<1>2. b.metadata = a.metadata \union {"source"} /\ b = [output |-> a.output, content |-> a.content, metadata |-> b.metadata]
  BY DEF Envelope
<1>3. [b EXCEPT !.metadata = @ \ {"source"}] = Envelope(a.output, a.content, b.metadata \ {"source"})
  BY <1>2 DEF Envelope
<1>4. b.metadata \ {"source"} = a.metadata \ {"source"}
  BY <1>2
<1> HIDE DEF b
<1>5. [b EXCEPT !.metadata = @ \ {"source"}] = [a EXCEPT !.metadata = @ \ {"source"}]
  BY <1>1, <1>3, <1>4
<1> QED
  BY <1>5, Zenon DEF Answers, b

Less == OpToRel(<, Nat)
LEMMA LeastOf == ASSUME NEW S, S \subseteq Nat, S # {} PROVE \E m \in S : \A n \in S : m <= n
<1>1. IsWellFoundedOn(Less, Nat)
  BY NatLessThanWellFounded DEF Less
<1>2. \A a, b \in Nat : <<a, b>> \in Less <=> a < b
  BY DEF Less, OpToRel
<1>3. \E m \in S : \A n \in S : ~(<<n, m>> \in Less)
  BY <1>1, WFMin
<1>4. PICK m \in S : \A n \in S : ~(<<n, m>> \in Less)
  BY <1>3
<1>5. ASSUME NEW n \in S PROVE m <= n
  <2>1. <<n, m>> \in Less <=> n < m
    BY <1>2, Zenon
  <2> QED
    BY <1>4, <2>1
<1> QED
  BY <1>5

LEMMA EarliestIsOne ==
  ASSUME NEW how, NEW i, PauseTypes, DOMAIN replies \subseteq Requested, Candidates(how, i) # {}
  PROVE  /\ Earliest(Candidates(how, i)) \in Candidates(how, i)
         /\ Earliest(Candidates(how, i)) \in DOMAIN replies /\ replies[Earliest(Candidates(how, i))].how = how
<1>1. Candidates(how, i) \subseteq Nat
  BY RoundsAreLists DEF Candidates, Requested, PauseTypes
<1>2. \E k \in Candidates(how, i) : \A j \in Candidates(how, i) : k <= j
  BY <1>1, LeastOf
<1>3. Earliest(Candidates(how, i)) \in Candidates(how, i)
  BY <1>2 DEF Earliest
<1> QED
  BY <1>3 DEF Candidates

(* What a restart tells. *)
LEMMA RestartTells ==
  ASSUME NEW i \in Nat, asking[i].input = i, DOMAIN asking[i].meta = {"interrupt"},
         NEW r \in MayReply(i), r.how = "restart"
  PROVE  /\ ResumeContext(r.meta).resumed = r.meta["resumed"]
         /\ ResumeContext(r.meta).original = IF r.input = New(i) THEN i ELSE 0
<1>1. PICK resumed, replace : replace \in BOOLEAN /\ r = RestartTool(i, resumed, replace)
  <2>1. Respond(i).how = "respond"
    BY DEF Respond
  <2>2. \/ r = RestartTool(i, "empty", FALSE) \/ r = RestartTool(i, "approved", FALSE)
        \/ r = RestartTool(i, "answer", FALSE) \/ r = RestartTool(i, "approved", TRUE)
    BY <2>1 DEF MayReply
  <2> QED
    BY <2>2
<1> DEFINE meta == With(asking[i].meta, "resumed", resumed)
<1>2. DOMAIN meta = {"interrupt", "resumed"}
  BY DEF With
<1> HIDE DEF meta
<1>3. r.meta = IF replace THEN With(meta, "replacedInput", i) ELSE meta
  BY <1>1 DEF RestartTool, meta
<1>4. r.input = IF replace THEN New(i) ELSE i
  BY <1>1 DEF RestartTool
<1>5. "resumed" \in DOMAIN r.meta
  BY <1>2, <1>3 DEF With
<1>6. "replacedInput" \in DOMAIN r.meta <=> replace
  BY <1>2, <1>3 DEF With
<1>7. replace => r.meta["replacedInput"] = i
  BY <1>3 DEF With
<1>8. r.input = New(i) <=> replace
  BY <1>4 DEF New
<1> QED
  BY <1>5, <1>6, <1>7, <1>8 DEF ResumeContext

LEMMA Unmoved ==
  ASSUME UNCHANGED <<pauseSite, asking, replies, roundIs>>, NEW i
  PROVE  /\ Requested' = Requested /\ Route(i)' = Route(i) /\ PartToRun(i)' = PartToRun(i)
         /\ MayReply(i)' = MayReply(i) /\ IsStashed(i)' = IsStashed(i)
BY DEF Requested, Route, PartToRun, Candidates, SameRequest, Asked, MayReply, Respond, RestartTool, IsStashed

LEMMA PausesInitInv == PausesInit => PausesInv
<1> SUFFICES ASSUME PausesInit PROVE PausesInv
  OBVIOUS
<1>1. PauseTypes
  BY DEF PausesInit, PauseTypes, NoRuns, Bare
<1>2. RepliesFitPause
  BY DEF PausesInit, RepliesFitPause
<1>3. ASSUME NEW i \in Requested PROVE MarksFit(i) /\ RunFits(i) /\ DoneFits(i)
  BY <1>3, NoKeys DEF PausesInit, MarksFit, RunFits, DoneFits, NoRuns, Bare
<1> QED
  BY <1>1, <1>2, <1>3 DEF PausesInv

LEMMA BeginRunInv == ASSUME PausesInv, NEW i \in Requested, BeginRun(i) PROVE PausesInv'
<1>1. /\ roundIs \in {"fresh", "resuming"} /\ toolRun[i].at = "due"
      /\ roundIs = "resuming" => Route(i) = "restart"
      /\ UNCHANGED <<pauseSite, asking, replies, toolMessage, roundIs, pauseTally>>
  BY DEF BeginRun, MayRun
<1>2. PICK run : /\ run = [at |-> run.at, input |-> run.input, told |-> run.told, came |-> run.came]
                 /\ toolRun' = [toolRun EXCEPT ![i] = run]
                 /\ run.at \in {"asked", "running"}
                 /\ run.at = "running" => run.input = PartToRun(i).input /\ run.told = ResumeContext(PartToRun(i).meta)
  <2> DEFINE begun == IF AsksApproval(i) THEN Bare("asked", "gate")
                      ELSE [at |-> "running", input |-> PartToRun(i).input,
                            told |-> ResumeContext(PartToRun(i).meta), came |-> "nothing"]
  <2>1. toolRun' = [toolRun EXCEPT ![i] = begun]
    BY DEF BeginRun
  <2>2. CASE AsksApproval(i)
    <3>1. begun = [at |-> "asked", input |-> 0, told |-> Fresh, came |-> "gate"]
      BY <2>2 DEF Bare
    <3> HIDE DEF begun
    <3>2. /\ begun = [at |-> begun.at, input |-> begun.input, told |-> begun.told, came |-> begun.came]
          /\ begun.at = "asked"
      BY <3>1
    <3> QED
      BY <2>1, <3>2
  <2>3. CASE ~AsksApproval(i)
    <3>1. begun = [at |-> "running", input |-> PartToRun(i).input,
                   told |-> ResumeContext(PartToRun(i).meta), came |-> "nothing"]
      BY <2>3
    <3> HIDE DEF begun
    <3>2. /\ begun = [at |-> begun.at, input |-> begun.input, told |-> begun.told, came |-> begun.came]
          /\ begun.at = "running" /\ begun.input = PartToRun(i).input
          /\ begun.told = ResumeContext(PartToRun(i).meta)
      BY <3>1, SMTT(30)
    <3> QED
      BY <2>1, <3>2, ZenonT(60)
  <2> QED
    BY <2>2, <2>3
<1>3. PauseTypes'
  BY <1>1, <1>2 DEF PausesInv, PauseTypes, Requested
<1>4. RepliesFitPause'
  BY <1>1, Unmoved DEF PausesInv, RepliesFitPause
<1>5. ASSUME NEW j \in Requested' PROVE (MarksFit(j) /\ RunFits(j) /\ DoneFits(j))'
  <2>1. j \in Requested /\ MarksFit(j) /\ RunFits(j) /\ DoneFits(j)
    BY <1>1, Unmoved DEF PausesInv
  <2>2. MarksFit(j)'
    BY <1>1, <2>1 DEF MarksFit, IsStashed, Answers
  <2>3. toolRun'[j] = IF j = i THEN run ELSE toolRun[j]
    BY <1>2, <2>1 DEF PausesInv, PauseTypes
  <2>4. DoneFits(j)'
    BY <1>1, <1>2, <2>1, <2>3 DEF DoneFits, IsStashed
  <2>5. RunFits(j)'
    <3>1. CASE j = i
      <4>1. roundIs = "fresh" /\ run.at = "running" => run.told = Fresh /\ run.input = i
        <5>1. roundIs = "fresh" => PartToRun(i) = asking[i] /\ asking[i].input = i /\ DOMAIN asking[i].meta = {}
          BY <2>1, <3>1 DEF PartToRun, MarksFit, PausesInv, PauseTypes
        <5>2. roundIs = "fresh" => ResumeContext(PartToRun(i).meta) = Fresh
          BY <5>1 DEF ResumeContext, Fresh
        <5> QED
          BY <1>2, <5>1, <5>2
      <4> QED
        BY <1>1, <1>2, <2>3, <3>1, <4>1, Unmoved DEF RunFits
    <3>2. CASE j # i
      BY <1>1, <2>1, <2>3, <3>2, Unmoved DEF RunFits
    <3> QED
      BY <3>1, <3>2
  <2> QED
    BY <2>2, <2>4, <2>5
<1> QED
  BY <1>3, <1>4, <1>5 DEF PausesInv

LEMMA ToolAsksInv == ASSUME PausesInv, NEW i \in Requested, ToolAsks(i) PROVE PausesInv'
<1>1. /\ toolRun[i].at = "running" /\ toolRun' = [toolRun EXCEPT ![i] = Bare("asked", "question")]
      /\ UNCHANGED <<pauseSite, asking, replies, toolMessage, roundIs, pauseTally>>
  BY ZenonT(60) DEF ToolAsks
<1>3. PauseTypes'
  BY <1>1, ZenonT(60) DEF PausesInv, PauseTypes, Requested, Bare
<1>4. RepliesFitPause'
  BY <1>1, Unmoved DEF PausesInv, RepliesFitPause
<1>5. ASSUME NEW j \in Requested' PROVE (MarksFit(j) /\ RunFits(j) /\ DoneFits(j))'
  <2>1. j \in Requested /\ MarksFit(j) /\ RunFits(j) /\ DoneFits(j)
    BY <1>1, Unmoved DEF PausesInv
  <2>2. MarksFit(j)'
    BY <1>1, <2>1 DEF MarksFit, IsStashed, Answers
  <2>3. toolRun'[j].at = IF j = i THEN "asked" ELSE toolRun[j].at
    BY <1>1, <2>1 DEF PausesInv, PauseTypes, Bare
  <2>4. DoneFits(j)'
    BY <1>1, <2>1, <2>3 DEF DoneFits, IsStashed
  <2>5. RunFits(j)'
    <3>1. CASE j = i
      BY <1>1, <2>1, <2>3, <3>1, Unmoved DEF RunFits
    <3>2. CASE j # i
      <4>1. toolRun'[j] = toolRun[j]
        BY <1>1, <2>1, <3>2 DEF PausesInv, PauseTypes
      <4> QED
        BY <1>1, <2>1, <4>1, Unmoved DEF RunFits
    <3> QED
      BY <3>1, <3>2
  <2> QED
    BY <2>2, <2>4, <2>5
<1> QED
  BY <1>3, <1>4, <1>5 DEF PausesInv

LEMMA GiveUpInv ==
  ASSUME PausesInv, roundIs \in {"fresh", "resuming"}, NEW others, GiveUp(others)
  PROVE  PausesInv'
<1>1. PICK on \in SUBSET {j \in others : MayEndWell(j)} :
        pauseTally' = [pauseTally EXCEPT !.failures = 1,
                         !.done = [j \in Requested |-> pauseTally.done[j] + (IF j \in on THEN 1 ELSE 0)]]
  BY DEF GiveUp
<1>2. /\ pauseTally.failures = 0 /\ roundIs' = (IF roundIs = "fresh" THEN "failed" ELSE "paused")
      /\ toolRun' = [j \in Requested |-> Bare("due", "nothing")]
      /\ UNCHANGED <<pauseSite, asking, toolMessage>>
  BY DEF GiveUp, NoRuns
<1>3. Requested' = Requested
  BY <1>2 DEF Requested
<1>4. \A j \in Requested : pauseTally.done[j] \in Nat
  BY DEF PausesInv, PauseTypes
<1>5. /\ pauseTally'.failures = 1 /\ pauseTally'.returned = pauseTally.returned
      /\ pauseTally'.done = [j \in Requested |-> pauseTally.done[j] + (IF j \in on THEN 1 ELSE 0)]
      /\ pauseTally' = [pauses |-> pauseTally'.pauses, failures |-> pauseTally'.failures,
                        done |-> pauseTally'.done, returned |-> pauseTally'.returned]
  BY <1>1 DEF PausesInv, PauseTypes
<1>6. PauseTypes'
  BY <1>2, <1>3, <1>4, <1>5 DEF PausesInv, PauseTypes, Bare
<1>7. RepliesFitPause'
  BY <1>2 DEF RepliesFitPause
<1>8. ASSUME NEW j \in Requested PROVE (MarksFit(j) /\ RunFits(j) /\ DoneFits(j))'
  <2>1. MarksFit(j) /\ RunFits(j) /\ DoneFits(j)
    BY DEF PausesInv
  <2>2. toolRun'[j].at = "due"
    BY <1>2 DEF Bare
  <2>3. pauseTally.done[j] > 0 => pauseTally'.done[j] > 0
    BY <1>4, <1>5
  <2>4. MarksFit(j)'
    <3>1. \A a : Answers(j, a) => Answers(j, a)'
      BY <1>5, <2>3 DEF Answers
    <3> HIDE DEF Answers
    <3>2. FromStash(asking[j].meta)' = FromStash(asking[j].meta)
      BY <1>2 DEF FromStash
    <3>3. Answers(j, FromStash(asking[j].meta)) => Answers(j, FromStash(asking[j].meta))'
      BY <1>2, <1>5, <2>3 DEF Answers, FromStash
    <3> QED
      BY <1>2, <2>1, <3>3 DEF MarksFit, IsStashed
  <2>5. RunFits(j)'
    BY <1>2, <2>2 DEF RunFits
  <2>6. MayEndWell(j) => toolRun[j].at # "ended" /\ ~IsStashed(j)
    <3>1. toolRun[j].at \in {"running", "due"} /\ (roundIs = "resuming" => Route(j) = "restart") =>
            toolRun[j].at # "ended" /\ ~IsStashed(j)
      BY <2>1 DEF MarksFit, IsStashed, Route
    <3> QED
      BY <2>1, <3>1 DEF MayEndWell, MayRun, RunFits
  <2>7. pauseTally'.done[j] <= 1
    BY <1>1, <1>2, <1>4, <1>5, <2>1, <2>6 DEF DoneFits
  <2>8. DoneFits(j)'
    BY <1>4, <1>5, <2>7 DEF DoneFits
  <2> QED
    BY <2>4, <2>5, <2>8
<1> QED
  BY <1>3, <1>6, <1>7, <1>8 DEF PausesInv

LEMMA ReturnsInv ==
  ASSUME PausesInv, NEW i \in Requested, NEW envelope \in Returned, Returns(i, envelope)
  PROVE  PausesInv'
<1>1. toolRun[i].at = "running" /\ RunFits(i) /\ MarksFit(i) /\ DoneFits(i)
  BY DEF Returns, PausesInv
<1>2. roundIs \in {"fresh", "resuming"} /\ (roundIs = "resuming" => Route(i) = "restart")
  BY <1>1 DEF RunFits, PausesInv, PauseTypes
<1>3. CASE ~Speaks(envelope)
  BY <1>2, <1>3, GiveUpInv DEF Returns
<1>4. CASE Speaks(envelope)
  <2>1. /\ toolRun' = [toolRun EXCEPT ![i] = Bare("ended", envelope)]
        /\ pauseTally' = [pauseTally EXCEPT !.done[i] = @ + 1, !.returned[i] = envelope]
        /\ UNCHANGED <<pauseSite, asking, replies, toolMessage, roundIs>>
    BY <1>4, SMTT(30) DEF Returns
  <2>2. ~IsStashed(i)
    BY <1>1, <1>2, ZenonT(60) DEF Route, MarksFit, IsStashed
  <2>3. /\ pauseTally'.failures = pauseTally.failures
        /\ pauseTally'.done = [pauseTally.done EXCEPT ![i] = @ + 1]
        /\ pauseTally'.returned = [pauseTally.returned EXCEPT ![i] = envelope]
        /\ pauseTally' = [pauses |-> pauseTally'.pauses, failures |-> pauseTally'.failures,
                          done |-> pauseTally'.done, returned |-> pauseTally'.returned]
    BY <2>1, ZenonT(60) DEF PausesInv, PauseTypes
  <2>4. PauseTypes'
    <3>1. pauseTally'.done \in [Requested -> Nat] /\ DOMAIN pauseTally'.returned = Requested
      BY <2>3 DEF PausesInv, PauseTypes
    <3>2. toolRun' = [j \in Requested |-> [at |-> toolRun'[j].at, input |-> toolRun'[j].input,
                                           told |-> toolRun'[j].told, came |-> toolRun'[j].came]]
      BY <2>1 DEF PausesInv, PauseTypes, Bare
    <3> QED
      BY <2>1, <2>3, <3>1, <3>2, ZenonT(60) DEF PausesInv, PauseTypes, Requested
  <2>5. RepliesFitPause'
    BY <2>1, Unmoved DEF PausesInv, RepliesFitPause
  <2>6. ASSUME NEW j \in Requested PROVE (MarksFit(j) /\ RunFits(j) /\ DoneFits(j))'
    <3>1. MarksFit(j) /\ RunFits(j) /\ DoneFits(j) /\ pauseTally.done[j] \in Nat
      BY DEF PausesInv, PauseTypes
    <3>2. CASE j = i
      <4>1. /\ toolRun'[i] = Bare("ended", envelope) /\ pauseTally'.done[i] = pauseTally.done[i] + 1
            /\ pauseTally'.returned[i] = envelope
        BY <2>1, <2>3 DEF PausesInv, PauseTypes
      <4>2. MarksFit(i)'
        BY <1>1, <1>2, <2>1, <2>2 DEF MarksFit, IsStashed
      <4>3. RunFits(i)'
        BY <1>2, <2>1, <3>1, <3>2, <4>1, Unmoved DEF RunFits, Bare
      <4>4. DoneFits(i)'
        BY <1>1, <1>2, <2>2, <2>3, <3>1, <3>2, <4>1 DEF DoneFits, Bare, PausesInv, PauseTypes
      <4> QED
        BY <3>2, <4>2, <4>3, <4>4
    <3>3. CASE j # i
      <4>1. /\ toolRun'[j] = toolRun[j] /\ pauseTally'.done[j] = pauseTally.done[j]
            /\ pauseTally'.returned[j] = pauseTally.returned[j]
        BY <2>1, <2>3, <3>3 DEF PausesInv, PauseTypes
      <4>2. MarksFit(j)'
        <5>1. Answers(j, FromStash(asking[j].meta)) => Answers(j, FromStash(asking[j].meta))'
          BY <2>1, <4>1 DEF Answers, FromStash
        <5> QED
          BY <1>2, <2>1, <3>1, <5>1 DEF MarksFit, IsStashed
      <4>3. RunFits(j)'
        BY <2>1, <3>1, <4>1, Unmoved DEF RunFits
      <4>4. DoneFits(j)'
        BY <2>1, <2>3, <3>1, <4>1 DEF DoneFits, IsStashed
      <4> QED
        BY <4>2, <4>3, <4>4
    <3> QED
      BY <3>2, <3>3
  <2>7. Requested' = Requested
    BY <2>1 DEF Requested
  <2> QED
    BY <2>4, <2>5, <2>6, <2>7 DEF PausesInv
<1> QED
  BY <1>3, <1>4

LEMMA RaisesInv == ASSUME PausesInv, NEW i \in Requested, Raises(i) PROVE PausesInv'
<1>1. roundIs \in {"fresh", "resuming"}
  BY DEF Raises, PausesInv, PauseTypes, RunFits
<1> QED
  BY <1>1, GiveUpInv DEF Raises

LEMMA UnresolvedInv == ASSUME PausesInv, Unresolved PROVE PausesInv'
BY GiveUpInv DEF Unresolved

(* What answers a request at the end of the round, and what is left of its marks. *)
LEMMA ResolvedFits ==
  ASSUME PausesInv, AllIn, NEW i \in Requested, toolRun[i].at # "asked"
  PROVE  /\ Resolved(i) = [input |-> i, meta |-> Resolved(i).meta]
         /\ DOMAIN Resolved(i).meta \subseteq {"resolvedInterrupt"}
         /\ ToolResponse(i) = Envelope(ToolResponse(i).output, ToolResponse(i).content, ToolResponse(i).metadata)
         /\ Answers(i, ToolResponse(i))
<1> DEFINE meta == asking[i].meta
<1>1. MarksFit(i) /\ RunFits(i) /\ asking[i] = [input |-> i, meta |-> meta] /\ pauseTally.done[i] \in Nat
  BY DEF PausesInv, PauseTypes
<1>2. roundIs \in {"fresh", "resuming"}
  BY DEF AllIn
<1>3. CASE roundIs = "resuming" /\ Route(i) = "stash"
  <2>1. toolRun[i].at = "due"
    BY <1>1, <1>3 DEF RunFits
  <2>2. IsStashed(i) /\ DOMAIN meta \subseteq StashKeys \union {"resolvedInterrupt"} /\ Answers(i, FromStash(meta))
    BY <1>1, <1>3 DEF MarksFit, Route, IsStashed
  <2>3. Resolved(i) = [input |-> i, meta |-> Without(meta, StashKeys)]
    BY <1>1, <1>3 DEF Resolved
  <2>4. DOMAIN Without(meta, StashKeys) \subseteq {"resolvedInterrupt"}
    BY <2>2 DEF Without
  <2>5. ToolResponse(i) = FromStash(meta)
    BY <2>1, <1>3 DEF ToolResponse
  <2>6. FromStash(meta) = Envelope(FromStash(meta).output, FromStash(meta).content, FromStash(meta).metadata)
    BY DEF FromStash, Envelope
  <2> QED
    BY <2>2, <2>3, <2>4, <2>5, <2>6
<1>4. CASE ~(roundIs = "resuming" /\ Route(i) = "stash")
  <2>1. roundIs = "fresh" => Resolved(i) = [input |-> i, meta |-> meta] /\ DOMAIN meta = {}
    BY <1>1 DEF MarksFit, Resolved
  <2>2. ASSUME roundIs = "resuming"
        PROVE  /\ Resolved(i) = [input |-> i, meta |-> Resolved(i).meta]
               /\ DOMAIN Resolved(i).meta \subseteq {"resolvedInterrupt"}
    <3>1. DOMAIN meta = {"interrupt"}
      BY <1>1, <1>4, <2>2 DEF MarksFit, IsStashed, Route
    <3> DEFINE question == IF "interrupt" \in DOMAIN meta THEN meta["interrupt"] ELSE "none"
    <3>2. Resolved(i) = [input |-> i, meta |-> With(Without(meta, {"interrupt"}), "resolvedInterrupt", question)]
      BY <1>1, <1>4, <2>2 DEF Resolved
    <3> HIDE DEF question
    <3>3. DOMAIN With(Without(meta, {"interrupt"}), "resolvedInterrupt", question) \subseteq {"resolvedInterrupt"}
      BY <3>1 DEF With, Without
    <3> QED
      BY <3>2, <3>3
  <2>3. /\ ToolResponse(i) = Envelope(ToolResponse(i).output, ToolResponse(i).content, ToolResponse(i).metadata)
        /\ Answers(i, ToolResponse(i))
    <3>1. CASE toolRun[i].at = "ended"
      <4>1. /\ ToolResponse(i) \in Returned /\ ToolResponse(i) = pauseTally.returned[i]
            /\ pauseTally.done[i] > 0
        BY <1>1, <3>1 DEF RunFits, ToolResponse
      <4>2. ASSUME NEW e \in Returned
            PROVE  e = Envelope(e.output, e.content, e.metadata) /\ e.metadata \ {"source"} = e.metadata
        <5>1. PICK output, content, metadata :
                e = Envelope(output, content, metadata) /\ metadata \in {{}, {"tool's"}}
          BY DEF Returned
        <5>2. e.output = output /\ e.content = content /\ e.metadata = metadata
          BY <5>1 DEF Envelope
        <5>3. metadata \ {"source"} = metadata
          BY <5>1
        <5> QED
          BY <5>1, <5>2, <5>3
      <4>3. [ToolResponse(i) EXCEPT !.metadata = @ \ {"source"}] = ToolResponse(i)
        BY <4>1, <4>2, ZenonT(60) DEF Envelope
      <4> QED
        BY <4>1, <4>2, <4>3 DEF Answers
    <3>2. CASE toolRun[i].at # "ended"
      <4>1. Route(i) = "respond" /\ roundIs = "resuming"
        BY <1>4, <3>2 DEF AllIn
      <4>2. Candidates("respond", i) # {} /\ DOMAIN replies \subseteq Requested
        BY <4>1 DEF Route, PausesInv, RepliesFitPause
      <4> DEFINE k == Earliest(Candidates("respond", i))
      <4>3. k \in DOMAIN replies /\ replies[k].how = "respond"
        BY <4>2, EarliestIsOne DEF PausesInv
      <4>4. replies[k] \in MayReply(k)
        BY <4>1, <4>3 DEF PausesInv, RepliesFitPause
      <4>5. replies[k].output = "reply"
        BY <4>3, <4>4 DEF MayReply, Respond, RestartTool
      <4>6. ToolResponse(i) = Envelope("reply", "none", {"interruptResponse"})
        BY <3>2, <4>1, <4>5 DEF ToolResponse
      <4>7. [ToolResponse(i) EXCEPT !.metadata = @ \ {"source"}] = Envelope("reply", "none", {"interruptResponse"})
        BY <4>6 DEF Envelope
      <4> QED
        BY <4>6, <4>7 DEF Answers, Envelope
    <3> QED
      BY <3>1, <3>2
  <2> QED
    BY <1>2, <2>1, <2>2, <2>3
<1> QED
  BY <1>3, <1>4

LEMMA RoundPausesInv == ASSUME PausesInv, RoundPauses PROVE PausesInv'
<1>1. /\ AllIn /\ roundIs \in {"fresh", "resuming"} /\ roundIs' = "paused"
      /\ asking' = [i \in Requested |-> IF i \in Unanswered THEN Stamped(asking[i], toolRun[i].came)
                                        ELSE PendingResponse(Resolved(i), ToolResponse(i))]
      /\ toolRun' = [i \in Requested |-> Bare("due", "nothing")]
      /\ pauseTally' = [pauseTally EXCEPT !.pauses = @ + 1]
      /\ UNCHANGED <<pauseSite, toolMessage>>
  BY DEF RoundPauses, AllIn, NoRuns
<1>2. Requested' = Requested
  BY <1>1 DEF Requested
<1>3. /\ pauseTally'.failures = pauseTally.failures /\ pauseTally'.done = pauseTally.done
      /\ pauseTally'.returned = pauseTally.returned
      /\ pauseTally' = [pauses |-> pauseTally'.pauses, failures |-> pauseTally'.failures,
                        done |-> pauseTally'.done, returned |-> pauseTally'.returned]
  BY <1>1 DEF PausesInv, PauseTypes
<1>4. ASSUME NEW i \in Requested
      PROVE  /\ asking'[i] = [input |-> i, meta |-> asking'[i].meta]
             /\ (MarksFit(i) /\ RunFits(i) /\ DoneFits(i))'
  <2>1. MarksFit(i) /\ RunFits(i) /\ DoneFits(i) /\ asking[i] = [input |-> i, meta |-> asking[i].meta]
    BY DEF PausesInv, PauseTypes
  <2>2. toolRun'[i].at = "due"
    BY <1>1 DEF Bare
  <2>3. RunFits(i)'
    BY <1>1, <2>2 DEF RunFits
  <2>4. CASE i \in Unanswered
    <3>1. toolRun[i].at = "asked"
      BY <2>4 DEF Unanswered
    <3>2. DOMAIN asking[i].meta \subseteq {"interrupt"} /\ ~IsStashed(i)
      BY <1>1, <2>1, <3>1 DEF MarksFit, RunFits, IsStashed, Route
    <3>3. asking'[i] = [input |-> i, meta |-> With(asking[i].meta, "interrupt", toolRun[i].came)]
      BY <1>1, <2>1, <2>4 DEF Stamped
    <3>4. DOMAIN asking'[i].meta = {"interrupt"}
      BY <3>2, <3>3 DEF With
    <3>5. MarksFit(i)'
      BY <1>1, <3>4 DEF MarksFit
    <3>6. DoneFits(i)'
      BY <1>1, <1>3, <2>1, <3>1, <3>2 DEF DoneFits
    <3> QED
      BY <2>3, <3>3, <3>5, <3>6
  <2>5. CASE i \notin Unanswered
    <3>1. toolRun[i].at # "asked"
      BY <2>5 DEF Unanswered
    <3> DEFINE part == Resolved(i)
               answer == ToolResponse(i)
               stashed == PendingResponse(part, answer)
    <3>2. /\ part = [input |-> i, meta |-> part.meta] /\ DOMAIN part.meta \subseteq {"resolvedInterrupt"}
          /\ answer = Envelope(answer.output, answer.content, answer.metadata) /\ Answers(i, answer)
      BY <1>1, <3>1, ResolvedFits
    <3>3. asking'[i] = stashed
      BY <1>1, <2>5
    <3> HIDE DEF part, answer
    <3>4. /\ stashed = [input |-> i, meta |-> stashed.meta]
          /\ DOMAIN stashed.meta \subseteq StashKeys \union {"resolvedInterrupt"}
          /\ "pendingOutput" \in DOMAIN stashed.meta
          /\ FromStash(stashed.meta) = Envelope(answer.output, answer.content, answer.metadata \union {"source"})
      BY <3>2, StashIsRead
    <3> HIDE DEF stashed
    <3>5. Answers(i, FromStash(stashed.meta))
      BY <3>2, <3>4, StashFits
    <3>6. Answers(i, FromStash(asking[i].meta))'
      BY <1>3, <3>3, <3>5 DEF Answers, FromStash
    <3>7. MarksFit(i)'
      BY <1>1, <3>3, <3>4, <3>6 DEF MarksFit, IsStashed
    <3>8. DoneFits(i)'
      BY <1>3, <2>1, <3>3, <3>4 DEF DoneFits, IsStashed
    <3> QED
      BY <2>3, <3>3, <3>4, <3>7, <3>8
  <2> QED
    BY <2>4, <2>5
<1>5. asking' = [i \in Requested |-> [input |-> i, meta |-> asking'[i].meta]]
  BY <1>1, <1>4
<1>6. PauseTypes'
  BY <1>1, <1>2, <1>3, <1>5 DEF PausesInv, PauseTypes, Bare
<1>7. RepliesFitPause'
  BY <1>1 DEF RepliesFitPause
<1> QED
  BY <1>2, <1>4, <1>6, <1>7 DEF PausesInv

LEMMA RoundClosesInv == ASSUME PausesInv, RoundCloses PROVE PausesInv'
<1>1. /\ AllIn /\ Unanswered = {} /\ roundIs \in {"fresh", "resuming"} /\ roundIs' = "closed"
      /\ asking' = [i \in Requested |-> Resolved(i)]
      /\ toolMessage' = [i \in Requested |-> ToolResponse(i)]
      /\ UNCHANGED <<pauseSite, replies, toolRun, pauseTally>>
  BY DEF RoundCloses, AllIn
<1>2. Requested' = Requested
  BY <1>1 DEF Requested
<1>3. ASSUME NEW i \in Requested
      PROVE  /\ asking'[i] = [input |-> i, meta |-> asking'[i].meta]
             /\ (MarksFit(i) /\ RunFits(i) /\ DoneFits(i))'
  <2>1. RunFits(i) /\ DoneFits(i)
    BY DEF PausesInv
  <2>2. toolRun[i].at # "asked"
    BY <1>1 DEF Unanswered
  <2> DEFINE part == Resolved(i)
             answer == ToolResponse(i)
  <2>3. /\ part = [input |-> i, meta |-> part.meta] /\ DOMAIN part.meta \subseteq {"resolvedInterrupt"}
        /\ Answers(i, answer)
    BY <1>1, <2>2, ResolvedFits
  <2>4. asking'[i] = part /\ toolMessage'[i] = answer
    BY <1>1
  <2> HIDE DEF part, answer
  <2>5. Answers(i, toolMessage[i])'
    BY <1>1, <2>3, <2>4 DEF Answers
  <2>6. MarksFit(i)'
    BY <1>1, <2>3, <2>4, <2>5 DEF MarksFit
  <2>7. toolRun[i].at \in {"due", "ended"}
    BY <1>1, <2>1, <2>2 DEF AllIn, RunFits
  <2>8. RunFits(i)'
    BY <1>1, <2>1, <2>7 DEF RunFits
  <2>9. DoneFits(i)'
    BY <1>1, <2>1 DEF DoneFits
  <2> QED
    BY <2>3, <2>4, <2>6, <2>8, <2>9
<1>4. asking' = [i \in Requested |-> [input |-> i, meta |-> asking'[i].meta]]
  BY <1>1, <1>3
<1>5. PauseTypes'
  BY <1>1, <1>2, <1>4 DEF PausesInv, PauseTypes
<1>6. RepliesFitPause'
  BY <1>1 DEF RepliesFitPause
<1> QED
  BY <1>2, <1>3, <1>5, <1>6 DEF PausesInv

LEMMA ReplyInv == ASSUME PausesInv, Reply PROVE PausesInv'
<1>1. /\ roundIs = "paused" /\ roundIs' = "resuming"
      /\ UNCHANGED <<pauseSite, asking, toolRun, toolMessage, pauseTally>>
  BY DEF Reply
<1>2. PICK said \in SUBSET {i \in Requested : "interrupt" \in DOMAIN asking[i].meta} :
        DOMAIN replies' = said /\ \A i \in said : replies'[i] \in MayReply(i)
  BY DEF Reply
<1>3. Requested' = Requested /\ \A i : MayReply(i)' = MayReply(i)
  BY <1>1 DEF Requested, MayReply, Respond, RestartTool, Asked
<1>4. PauseTypes'
  BY <1>1, <1>3 DEF PausesInv, PauseTypes
<1>5. RepliesFitPause'
  BY <1>1, <1>2, <1>3 DEF RepliesFitPause
<1>6. ASSUME NEW i \in Requested PROVE (MarksFit(i) /\ RunFits(i) /\ DoneFits(i))'
  <2>1. MarksFit(i) /\ RunFits(i) /\ DoneFits(i)
    BY DEF PausesInv
  <2>2. MarksFit(i)'
    BY <1>1, <2>1 DEF MarksFit, IsStashed, Answers, FromStash
  <2>3. RunFits(i)'
    BY <1>1, <2>1 DEF RunFits
  <2>4. DoneFits(i)'
    BY <1>1, <2>1 DEF DoneFits, IsStashed
  <2> QED
    BY <2>2, <2>3, <2>4
<1> QED
  BY <1>3, <1>4, <1>5, <1>6 DEF PausesInv

LEMMA PausesStutterInv == ASSUME PausesInv, UNCHANGED pauseVars PROVE PausesInv'
<1>1. UNCHANGED <<pauseSite, asking, replies, toolRun, toolMessage, roundIs, pauseTally>>
  BY DEF pauseVars
<1>2. PauseTypes' /\ RepliesFitPause'
  BY <1>1, Unmoved DEF PausesInv, PauseTypes, RepliesFitPause
<1>3. ASSUME NEW i \in Requested' PROVE (MarksFit(i) /\ RunFits(i) /\ DoneFits(i))'
  <2>1. i \in Requested /\ MarksFit(i) /\ RunFits(i) /\ DoneFits(i)
    BY <1>1, Unmoved DEF PausesInv
  <2>2. MarksFit(i)'
    BY <1>1, <2>1 DEF MarksFit, IsStashed, Answers, FromStash
  <2>3. RunFits(i)'
    BY <1>1, <2>1, Unmoved DEF RunFits
  <2>4. DoneFits(i)'
    BY <1>1, <2>1 DEF DoneFits, IsStashed
  <2> QED
    BY <2>2, <2>3, <2>4
<1> QED
  BY <1>2, <1>3 DEF PausesInv

LEMMA PausesInductive == PausesInv /\ [PausesNext]_pauseVars => PausesInv'
<1> SUFFICES ASSUME PausesInv, [PausesNext]_pauseVars PROVE PausesInv'
  OBVIOUS
<1>1. CASE \E i \in Requested : BeginRun(i) \/ ToolAsks(i) \/ Raises(i)
  BY <1>1, BeginRunInv, ToolAsksInv, RaisesInv
<1>2. CASE \E i \in Requested, envelope \in Returned : Returns(i, envelope)
  BY <1>2, ReturnsInv
<1>3. CASE Unresolved \/ RoundPauses \/ RoundCloses \/ Reply
  BY <1>3, UnresolvedInv, RoundPausesInv, RoundClosesInv, ReplyInv
<1>4. CASE UNCHANGED pauseVars
  BY <1>4, PausesStutterInv
<1> QED
  BY <1>1, <1>2, <1>3, <1>4 DEF PausesNext

LEMMA PausesImply == PausesInv => RepliesReachTheirTool
<1> SUFFICES ASSUME PausesInv PROVE RepliesReachTheirTool
  OBVIOUS
<1>1. ASSUME Distinct, roundIs \in {"fresh", "resuming"}, NEW i \in Requested, toolRun[i].at = "running"
      PROVE  ToldItsOwn(i)
  <2>1. RunFits(i) /\ MarksFit(i) /\ asking[i].input = i /\ i \in Nat
    BY RoundsAreLists DEF PausesInv, PauseTypes, Requested
  <2>2. CASE roundIs = "fresh"
    BY <1>1, <2>1, <2>2 DEF RunFits, ToldItsOwn
  <2>3. CASE roundIs = "resuming"
    <3>1. Route(i) = "restart" /\ toolRun[i].told = ResumeContext(PartToRun(i).meta) /\ toolRun[i].input = PartToRun(i).input
      BY <1>1, <2>1, <2>3 DEF RunFits
    <3> DEFINE k == Earliest(Candidates("restart", i))
    <3>2. Candidates("restart", i) # {} /\ DOMAIN replies \subseteq Requested
      BY <2>3, <3>1 DEF Route, PausesInv, RepliesFitPause
    <3>3. k \in Candidates("restart", i)
      BY <3>2, EarliestIsOne DEF PausesInv
    <3>4. k \in DOMAIN replies /\ replies[k].how = "restart" /\ SameRequest(replies[k], i) /\ replies[k] \in MayReply(k)
      BY <2>3, <3>3 DEF Candidates, PausesInv, RepliesFitPause
    <3>5. k \in Requested /\ replies[k].tool = Asked(k).tool /\ replies[k].ref = Asked(k).ref
      BY <3>2, <3>4 DEF MayReply, Respond, RestartTool
    <3>6. SameRequest(Asked(k), i)
      BY <3>4, <3>5 DEF SameRequest
    <3>7. k = i
      BY <1>1, <3>5, <3>6 DEF Distinct
    <3>8. PartToRun(i) = [input |-> replies[i].input, meta |-> replies[i].meta]
      BY <2>3, <3>7 DEF PartToRun
    <3>9. DOMAIN asking[i].meta = {"interrupt"}
      BY <2>1, <2>3, <3>1 DEF MarksFit, Route, IsStashed
    <3>10. /\ ResumeContext(replies[i].meta).resumed = replies[i].meta["resumed"]
           /\ ResumeContext(replies[i].meta).original = IF replies[i].input = New(i) THEN i ELSE 0
      BY <2>1, <3>4, <3>7, <3>9, RestartTells
    <3> QED
      BY <2>3, <3>1, <3>8, <3>10 DEF ToldItsOwn
  <2> QED
    BY <1>1, <2>2, <2>3
<1>2. \A i \in Requested : pauseTally.done[i] <= 1 + pauseTally.failures
  BY DEF PausesInv, DoneFits
<1>3. ASSUME roundIs = "closed", NEW i \in Requested
      PROVE  /\ Answers(i, toolMessage[i])
             /\ asking[i].input = i /\ DOMAIN asking[i].meta \subseteq {"resolvedInterrupt"}
  BY <1>3 DEF PausesInv, PauseTypes, MarksFit
<1> QED
  BY <1>1, <1>2, <1>3 DEF RepliesReachTheirTool

(* A running tool is told what its own request was answered with, the input it is to    *)
(* run with included; the answer of a closed round is the program's reply or exactly      *)
(* what the last run returned, the run's own metadata and media included; and no tool       *)
(* runs to its end more than once but for a resume that failed (resolve_resume_options,   *)
(* resume_tool_request, to_pending_response, from_pending_response).                   *)
THEOREM RepliesReachTheirToolHolds == PausesSpec => []RepliesReachTheirTool
<1>1. PausesInit => PausesInv
  BY PausesInitInv
<1>2. PausesInv /\ [PausesNext]_pauseVars => PausesInv'
  BY PausesInductive
<1>3. PausesInv => RepliesReachTheirTool
  BY PausesImply
<1> QED
  BY <1>1, <1>2, <1>3, PTL DEF PausesSpec

(* No tool runs twice for one request, and none is answered for another: both halves of it, *)
(* the loop over all rounds and the pauses of one.                                         *)
THEOREM RoundsAreWholeHolds ==
  ASSUME Habits = {} PROVE Spec /\ PausesSpec => []RoundsAreWhole
<1>1. ClosedRoundsKept /\ PausesAreWhole /\ RepliesReachTheirTool => RoundsAreWhole
  BY DEF RoundsAreWhole
<1> QED
  BY <1>1, ClosedRoundsAreKept, RepliesReachTheirToolHolds, PTL

-----------------------------------------------------------------------------
(* The servers that run a flow for an HTTP client (ActionServers).  What the    *)
(* client is told is decided where the reply ends, and by then the run is over: *)
(* a complete reply never belongs to a run that is Busy.  A chunk is counted    *)
(* for the reply when it is counted for the run, except where the client has    *)
(* gone, and the reply is then not complete.                                    *)

Busy == {"starting", "running", "cancelling"}
RunEndings == {"value", "unserializable", "caused", "uncaused", "invalid"}
Tellings == {"nothing yet", "result", "nothing", "error: own", "error: framework", "error: nothing"}

ServersTypes ==
  /\ site \in Sites
  /\ act \in [HttpRequests -> {"none", "cancelled"} \union Busy \union RunEndings]
  /\ chunks \in [HttpRequests -> Nat]
  /\ reply \in [HttpRequests -> [is : {"waiting", "sending", "complete", "broken", "abandoned"},
                                 chunks : Nat, last : Tellings]]

ReplyFits(q) ==
  /\ reply[q].is = "complete" =>
       /\ act[q] \notin Busy
       /\ (reply[q].last = "result") <=> (act[q] = "value")
       /\ (reply[q].last = "nothing") <=> (act[q] = "cancelled")
       /\ reply[q].last = "result" => reply[q].chunks = chunks[q]
       /\ Server \in {"django", "dev"} /\ reply[q].last \notin {"result", "nothing"} => reply[q].last = "error: own"
  /\ ~Streams(q) => chunks[q] = 0 /\ reply[q].chunks = 0
  /\ q \in active => act[q] \in {"running", "cancelling"}

ServersInv ==
  /\ ServersTypes
  /\ active \subseteq HttpRequests
  /\ \A q \in HttpRequests : ReplyFits(q)

LEMMA ServersInitInv == ServersInit => ServersInv
<1> SUFFICES ASSUME ServersInit PROVE ServersInv
  OBVIOUS
<1>1. ServersTypes /\ active \subseteq HttpRequests
  BY DEF ServersInit, ServersTypes, Tellings
<1>2. ASSUME NEW q \in HttpRequests PROVE ReplyFits(q)
  BY DEF ServersInit, ReplyFits
<1> QED
  BY <1>1, <1>2 DEF ServersInv

LEMMA AsksTyped ==
  ASSUME ServersTypes, NEW q \in HttpRequests
  PROVE  /\ Ask(q).ends \in RunEndings
         /\ Server \in {"fastapi", "flask", "django", "dev"}
BY SitesAssumption DEF ServersTypes, Ask, Server, RunEndings

LEMMA WordsFit ==
  ASSUME ServersTypes, NEW q \in HttpRequests, Over(q)
  PROVE  /\ LastWords(q) \in Tellings
         /\ (LastWords(q) = "result") <=> (act[q] = "value")
         /\ (LastWords(q) = "nothing") <=> (act[q] = "cancelled")
         /\ Server \in {"django", "dev"} /\ LastWords(q) \notin {"result", "nothing"} => LastWords(q) = "error: own"
<1>1. act[q] \in {"cancelled"} \union RunEndings
  BY DEF ServersTypes, Over, Busy
<1>2. \A w \in RunEndings : Told(w) \in {"error: own", "error: nothing"} /\ (Server \in {"django", "dev"} => Told(w) = "error: own")
  BY DEF Told
<1> QED
  BY <1>1, <1>2 DEF LastWords, Tellings, RunEndings

LEMMA RefuseInv == ASSUME ServersInv, NEW q \in HttpRequests, Refuse(q) PROVE ServersInv'
<1>1. PICK words \in Tellings :
        /\ reply' = [reply EXCEPT ![q].is = "complete", ![q].last = words]
        /\ words \notin {"result", "nothing"}
        /\ Server \in {"django", "dev"} => words = "error: own"
  BY DEF Refuse, Told, Tellings
<1>2. act[q] = "none" /\ UNCHANGED <<site, act, chunks, active>>
  BY DEF Refuse
<1>3. ServersTypes' /\ (active \subseteq HttpRequests)'
  BY <1>1, <1>2, ZenonT(60) DEF ServersInv, ServersTypes
<1>4. ASSUME NEW p \in HttpRequests PROVE ReplyFits(p)'
  <2>1. CASE p = q
    BY <2>1, <1>1, <1>2, ZenonT(60) DEF ServersInv, ServersTypes, ReplyFits, Busy, Server, Streams, Ask
  <2>2. CASE p # q
    BY <2>2, <1>1, <1>2 DEF ServersInv, ServersTypes, ReplyFits, Server, Streams, Ask
  <2> QED
    BY <2>1, <2>2
<1> QED
  BY <1>3, <1>4 DEF ServersInv

LEMMA ProviderFailsInv == ASSUME ServersInv, NEW q \in HttpRequests, ProviderFails(q) PROVE ServersInv'
<1>1. ServersTypes' /\ (active \subseteq HttpRequests)'
  BY ZenonT(60) DEF ServersInv, ProviderFails, ServersTypes, Tellings
<1>2. ASSUME NEW p \in HttpRequests PROVE ReplyFits(p)'
  <2>1. CASE p = q
    BY <2>1, ZenonT(60) DEF ServersInv, ProviderFails, ServersTypes, ReplyFits, Busy, Server, Streams, Ask
  <2>2. CASE p # q
    BY <2>2 DEF ServersInv, ProviderFails, ServersTypes, ReplyFits, Server, Streams, Ask
  <2> QED
    BY <2>1, <2>2
<1> QED
  BY <1>1, <1>2 DEF ServersInv

LEMMA LaunchInv == ASSUME ServersInv, NEW q \in HttpRequests, Launch(q) PROVE ServersInv'
<1>1. ServersTypes' /\ (active \subseteq HttpRequests)'
  BY DEF ServersInv, Launch, ServersTypes, Busy
<1>2. ASSUME NEW p \in HttpRequests PROVE ReplyFits(p)'
  <2>1. CASE p = q
    BY <2>1, ZenonT(60) DEF ServersInv, Launch, ServersTypes, ReplyFits, Server, Streams, Ask
  <2>2. CASE p # q
    BY <2>2 DEF ServersInv, Launch, ServersTypes, ReplyFits, Server, Streams, Ask
  <2> QED
    BY <2>1, <2>2
<1> QED
  BY <1>1, <1>2 DEF ServersInv

LEMMA TraceStartsInv == ASSUME ServersInv, NEW q \in HttpRequests, TraceStarts(q) PROVE ServersInv'
<1>1. ServersTypes' /\ (active \subseteq HttpRequests)'
  BY DEF ServersInv, TraceStarts, ServersTypes, Busy
<1>2. ASSUME NEW p \in HttpRequests PROVE ReplyFits(p)'
  <2>1. CASE p = q
    BY <2>1, ZenonT(60) DEF ServersInv, TraceStarts, ServersTypes, ReplyFits, Busy, Server, Streams, Ask
  <2>2. CASE p # q
    BY <2>2 DEF ServersInv, TraceStarts, ServersTypes, ReplyFits, Server, Streams, Ask
  <2> QED
    BY <2>1, <2>2
<1> QED
  BY <1>1, <1>2 DEF ServersInv

LEMMA SendChunkInv == ASSUME ServersInv, NEW q \in HttpRequests, SendChunk(q) PROVE ServersInv'
<1>1. ServersTypes' /\ (active \subseteq HttpRequests)'
  BY DEF ServersInv, SendChunk, ServersTypes
<1>2. ASSUME NEW p \in HttpRequests PROVE ReplyFits(p)'
  <2>1. CASE p = q
    BY <2>1 DEF ServersInv, SendChunk, ServersTypes, ReplyFits, Busy, Server, Streams, Ask
  <2>2. CASE p # q
    BY <2>2 DEF ServersInv, SendChunk, ServersTypes, ReplyFits, Server, Streams, Ask
  <2> QED
    BY <2>1, <2>2
<1> QED
  BY <1>1, <1>2 DEF ServersInv

LEMMA ActionEndsInv == ASSUME ServersInv, NEW q \in HttpRequests, ActionEnds(q) PROVE ServersInv'
<1>1. Ask(q).ends \in RunEndings
  BY AsksTyped DEF ServersInv
<1>2. ServersTypes' /\ (active \subseteq HttpRequests)'
  BY <1>1 DEF ServersInv, ActionEnds, ServersTypes
<1>3. ASSUME NEW p \in HttpRequests PROVE ReplyFits(p)'
  <2>1. CASE p = q
    BY <2>1, ZenonT(60) DEF ServersInv, ActionEnds, ServersTypes, ReplyFits, Busy, Server, Streams, Ask
  <2>2. CASE p # q
    BY <2>2 DEF ServersInv, ActionEnds, ServersTypes, ReplyFits, Server, Streams, Ask
  <2> QED
    BY <2>1, <2>2
<1> QED
  BY <1>2, <1>3 DEF ServersInv

LEMMA WholeInv == ASSUME ServersInv, NEW q \in HttpRequests, Whole(q) PROVE ServersInv'
<1> DEFINE words == LastWords(q)
<1>1. /\ words \in Tellings
      /\ (words = "result") <=> (act[q] = "value")
      /\ (words = "nothing") <=> (act[q] = "cancelled")
      /\ Server \in {"django", "dev"} /\ words \notin {"result", "nothing"} => words = "error: own"
  BY WordsFit DEF ServersInv, Whole
<1>2. /\ reply' = [reply EXCEPT ![q].is = "complete", ![q].last = words]
      /\ UNCHANGED <<site, act, chunks, active>>
      /\ Over(q) /\ ~Streams(q)
  BY DEF Whole
<1> HIDE DEF words
<1>3. ServersTypes' /\ (active \subseteq HttpRequests)'
  BY <1>1, <1>2 DEF ServersInv, ServersTypes
<1>4. ASSUME NEW p \in HttpRequests PROVE ReplyFits(p)'
  <2>1. CASE p = q
    BY <2>1, <1>1, <1>2, ZenonT(60) DEF ServersInv, Over, ServersTypes, ReplyFits, Busy, Server, Streams, Ask
  <2>2. CASE p # q
    BY <2>2, <1>2 DEF ServersInv, ServersTypes, ReplyFits, Server, Streams, Ask
  <2> QED
    BY <2>1, <2>2
<1> QED
  BY <1>3, <1>4 DEF ServersInv

LEMMA LastFrameInv == ASSUME ServersInv, NEW q \in HttpRequests, LastFrame(q) PROVE ServersInv'
<1> DEFINE words == LastWords(q)
<1>1. /\ words \in Tellings
      /\ (words = "result") <=> (act[q] = "value")
      /\ (words = "nothing") <=> (act[q] = "cancelled")
      /\ Server \in {"django", "dev"} /\ words \notin {"result", "nothing"} => words = "error: own"
  BY WordsFit DEF ServersInv, LastFrame
<1>2. /\ reply' = [reply EXCEPT ![q].is = "complete", ![q].last = words]
      /\ UNCHANGED <<site, act, chunks, active>>
      /\ Over(q) /\ Streams(q) /\ (reply[q].chunks = chunks[q] \/ (Failed(q) /\ Server # "dev"))
  BY DEF LastFrame, MayFrame
<1> HIDE DEF words
<1>3. ServersTypes' /\ (active \subseteq HttpRequests)'
  BY <1>1, <1>2 DEF ServersInv, ServersTypes
<1>4. ASSUME NEW p \in HttpRequests PROVE ReplyFits(p)'
  <2>1. CASE p = q
    <3>1. /\ reply'[q].is = "complete" /\ reply'[q].last = words /\ reply'[q].chunks = reply[q].chunks
      BY <1>2 DEF ServersInv, ServersTypes
    <3>2. act[q] \notin Busy /\ (act[q] = "value" => reply[q].chunks = chunks[q])
      BY <1>2 DEF Over, Busy, Failed
    <3>3. ReplyFits(q)
      BY DEF ServersInv
    <3> QED
      BY <2>1, <1>1, <1>2, <3>1, <3>2, <3>3 DEF ReplyFits, Server, Streams, Ask
  <2>2. CASE p # q
    BY <2>2, <1>2 DEF ServersInv, ServersTypes, ReplyFits, Server, Streams, Ask
  <2> QED
    BY <2>1, <2>2
<1> QED
  BY <1>3, <1>4 DEF ServersInv

LEMMA DriveInv == ASSUME ServersInv, NEW q \in HttpRequests, Drive(q) PROVE ServersInv'
<1>1. UNCHANGED <<site, act, chunks, active>>
  BY DEF Drive
<1>2. UNCHANGED reply \/ reply' = [reply EXCEPT ![q].is = "broken"]
  BY DEF Drive
<1>3. ServersTypes' /\ (active \subseteq HttpRequests)'
  BY <1>1, <1>2 DEF ServersInv, ServersTypes
<1>4. ASSUME NEW p \in HttpRequests PROVE ReplyFits(p)'
  <2>1. ReplyFits(p) /\ reply[p] \in [is : {"waiting", "sending", "complete", "broken", "abandoned"},
                                    chunks : Nat, last : Tellings]
    BY DEF ServersInv, ServersTypes
  <2>2. /\ reply'[p].is \in {reply[p].is, "broken"}
        /\ reply'[p].last = reply[p].last /\ reply'[p].chunks = reply[p].chunks
    BY <1>2 DEF ServersInv, ServersTypes
  <2> QED
    BY <1>1, <2>1, <2>2 DEF ReplyFits, Server, Streams, Ask
<1> QED
  BY <1>3, <1>4 DEF ServersInv

LEMMA FrameInv == ASSUME ServersInv, NEW q \in HttpRequests, Frame(q) PROVE ServersInv'
<1>1. ServersTypes' /\ (active \subseteq HttpRequests)'
  BY DEF ServersInv, Frame, ServersTypes
<1>2. ASSUME NEW p \in HttpRequests PROVE ReplyFits(p)'
  BY ZenonT(60) DEF ServersInv, Frame, MayFrame, ServersTypes, ReplyFits, Server, Streams, Ask
<1> QED
  BY <1>1, <1>2 DEF ServersInv

LEMMA DisconnectInv == ASSUME ServersInv, NEW q \in HttpRequests, Disconnect(q) PROVE ServersInv'
<1>1. ServersTypes' /\ (active \subseteq HttpRequests)'
  BY DEF ServersInv, Disconnect, ServersTypes, Busy
<1>2. ASSUME NEW p \in HttpRequests PROVE ReplyFits(p)'
  BY ZenonT(60) DEF ServersInv, Disconnect, ServersTypes, ReplyFits, Server, Streams, Ask
<1> QED
  BY <1>1, <1>2 DEF ServersInv

LEMMA CancelActionInv == ASSUME ServersInv, NEW q \in HttpRequests, CancelAction(q) PROVE ServersInv'
<1>1. ServersTypes' /\ (active \subseteq HttpRequests)'
  BY DEF ServersInv, CancelAction, ServersTypes, Busy
<1>2. ASSUME NEW p \in HttpRequests PROVE ReplyFits(p)'
  BY DEF ServersInv, CancelAction, ServersTypes, ReplyFits, Busy, Server, Streams, Ask
<1> QED
  BY <1>1, <1>2 DEF ServersInv

LEMMA ServersInductive == ServersInv /\ [ServersNext]_serverVars => ServersInv'
<1> SUFFICES ASSUME ServersInv, [ServersNext]_serverVars PROVE ServersInv'
  OBVIOUS
<1>1. CASE UNCHANGED serverVars
  BY <1>1 DEF serverVars, ServersInv, ServersTypes, ReplyFits, Server, Streams, Ask
<1>2. CASE ServersSystem
  BY <1>2, RefuseInv, LaunchInv, TraceStartsInv, ActionEndsInv, WholeInv, DriveInv, FrameInv, LastFrameInv
  DEF ServersSystem
<1>3. CASE \E q \in HttpRequests : ProviderFails(q) \/ SendChunk(q) \/ Disconnect(q) \/ CancelAction(q)
  BY <1>3, ProviderFailsInv, SendChunkInv, DisconnectInv, CancelActionInv
<1> QED
  BY <1>1, <1>2, <1>3 DEF ServersNext

LEMMA RepliesFit == ServersInv => RepliesTellTheRun
BY DEF ServersInv, ReplyFits, RepliesTellTheRun, Busy

-----------------------------------------------------------------------------
(* The retries of a telemetry exporter and of the model middleware (Retried,    *)
(* Waits): the delays of a bounded number of attempts, and what a Retry-After   *)
(* header makes of them.                                                        *)

LEMMA Pow == ASSUME NEW a \in 0..2 PROVE 2 ^ a \in Nat
<1>1. CASE a = 0
  BY <1>1
<1>2. CASE a = 1
  BY <1>2
<1>3. CASE a = 2
  BY <1>3
<1> QED
  BY <1>1, <1>2, <1>3

LEMMA MinIs == ASSUME NEW S, S \subseteq Int, NEW m \in S, \A y \in S : m <= y PROVE Min(S) = m
<1>1. \A x \in S : (\A y \in S : x <= y) <=> x = m
  OBVIOUS
<1> QED
  BY <1>1 DEF Min

LEMMA MaxIs == ASSUME NEW S, S \subseteq Int, NEW m \in S, \A y \in S : m >= y PROVE Max(S) = m
<1>1. \A x \in S : (\A y \in S : x >= y) <=> x = m
  OBVIOUS
<1> QED
  BY <1>1 DEF Max

LEMMA MinOfTwo == ASSUME NEW a \in Int, NEW b \in Int, NEW S, S = {a, b}
  PROVE /\ Min(S) = IF a <= b THEN a ELSE b
        /\ Max(S) = IF a <= b THEN b ELSE a
<1>1. S \subseteq Int /\ a \in S /\ b \in S /\ \A y \in S : y = a \/ y = b
  OBVIOUS
<1>2. CASE a <= b
  <2>1. Min(S) = a
    BY <1>1, <1>2, MinIs
  <2>2. Max(S) = b
    BY <1>1, <1>2, MaxIs
  <2> QED
    BY <1>2, <2>1, <2>2
<1>3. CASE ~(a <= b)
  <2>1. Min(S) = b
    BY <1>1, <1>3, MinIs
  <2>2. Max(S) = a
    BY <1>1, <1>3, MaxIs
  <2> QED
    BY <1>3, <2>1, <2>2
<1> QED
  BY <1>2, <1>3

LEMMA Backoffs == Backoff = [a \in 0..3 |-> IF a = 0 THEN 1000 ELSE IF a = 1 THEN 2000 ELSE IF a = 2 THEN 4000 ELSE 8000]
<1> DEFINE W == [a \in 0..3 |-> IF a = 0 THEN 1000 ELSE IF a = 1 THEN 2000 ELSE IF a = 2 THEN 4000 ELSE 8000]
<1>1. \A v \in Int : Min({v, MaxDelay}) = IF v <= 60000 THEN v ELSE 60000
  BY MinOfTwo DEF MaxDelay
<1>2. W = [attempt \in 0..MaxRetries |-> IF attempt = 0 THEN InitialDelay ELSE Min({2 * W[attempt - 1], MaxDelay})]
  <2>1. ASSUME NEW a \in 0..3
        PROVE  W[a] = IF a = 0 THEN 1000 ELSE Min({2 * W[a - 1], MaxDelay})
    <3>1. CASE a = 0
      BY <3>1
    <3>2. CASE a = 1
      BY <3>2, <1>1
    <3>3. CASE a = 2
      BY <3>3, <1>1
    <3>4. CASE a = 3
      BY <3>4, <1>1
    <3> QED
      BY <3>1, <3>2, <3>3, <3>4
  <2>2. DOMAIN W = 0..3 /\ W = [a \in 0..3 |-> W[a]]
    OBVIOUS
  <2>3. 0..MaxRetries = 0..3 /\ InitialDelay = 1000
    BY DEF InitialDelay, MaxRetries
  <2> HIDE DEF W
  <2>4. [attempt \in 0..3 |-> W[attempt]] =
          [attempt \in 0..3 |-> IF attempt = 0 THEN 1000 ELSE Min({2 * W[attempt - 1], MaxDelay})]
    BY <2>1
  <2> QED
    BY <2>2, <2>3, <2>4
<1> HIDE DEF W
<1>3. Backoff = [attempt \in 0..MaxRetries |-> IF attempt = 0 THEN InitialDelay ELSE Min({2 * Backoff[attempt - 1], MaxDelay})]
  BY <1>2 DEF Backoff
<1>4. /\ DOMAIN Backoff = 0..3 /\ Backoff = [a \in 0..3 |-> Backoff[a]]
      /\ Backoff[0] = 1000
      /\ \A a \in 1..3 : Backoff[a] = Min({2 * Backoff[a - 1], MaxDelay})
  BY <1>3 DEF MaxRetries, InitialDelay
<1>5. Backoff[1] = 2000
  BY <1>1, <1>4
<1>6. Backoff[2] = 4000
  BY <1>1, <1>4, <1>5
<1>7. Backoff[3] = 8000
  BY <1>1, <1>4, <1>6
<1> QED
  BY <1>4, <1>5, <1>6, <1>7

LEMMA WaitWithinBounds ==
  ASSUME NEW attempt \in 0..MaxRetries, NEW hint \in Int, NEW jitter \in Nat
  PROVE  /\ RetryWait(attempt, hint, jitter) \in Int
         /\ RetryWait(attempt, hint, jitter) <= MaxDelay
         /\ RetryWait(attempt, hint, jitter) >= Backoff[attempt]
         /\ RetryWait(attempt, hint, jitter) >= Min({hint, MaxDelay})
<1> DEFINE b == Backoff[attempt]
           longer == Max({b, hint})
           sum == longer + jitter
<1>1. b \in Int /\ b >= 0 /\ b <= 8000
  BY Backoffs DEF MaxRetries
<1>2. MaxDelay \in Int /\ MaxDelay = 60000
  BY DEF MaxDelay
<1>3. RetryWait(attempt, hint, jitter) = Min({sum, MaxDelay})
  BY DEF RetryWait
<1> HIDE DEF b
<1>4. longer = IF b <= hint THEN hint ELSE b
  <2> DEFINE S == {b, hint}
  <2>1. S = {b, hint} /\ longer = Max(S)
    OBVIOUS
  <2> HIDE DEF S, longer
  <2> QED
    BY <1>1, <2>1, MinOfTwo
<1> HIDE DEF longer
<1>5. longer \in Int /\ longer >= b /\ longer >= hint
  BY <1>1, <1>4
<1>6. sum \in Int /\ sum >= b /\ sum >= hint
  BY <1>1, <1>5
<1> HIDE DEF sum
<1>7. Min({sum, MaxDelay}) = IF sum <= MaxDelay THEN sum ELSE MaxDelay
  <2> DEFINE S == {sum, MaxDelay}
  <2>1. S = {sum, MaxDelay}
    OBVIOUS
  <2> HIDE DEF S
  <2>2. Min(S) = IF sum <= MaxDelay THEN sum ELSE MaxDelay
    BY <1>2, <1>6, <2>1, MinOfTwo
  <2> QED
    BY <2>2 DEF S
<1>8. Min({hint, MaxDelay}) = IF hint <= MaxDelay THEN hint ELSE MaxDelay
  <2> DEFINE S == {hint, MaxDelay}
  <2>1. S = {hint, MaxDelay}
    OBVIOUS
  <2> HIDE DEF S
  <2>2. Min(S) = IF hint <= MaxDelay THEN hint ELSE MaxDelay
    BY <1>2, <2>1, MinOfTwo
  <2> QED
    BY <2>2 DEF S
<1>9. /\ Min({sum, MaxDelay}) \in Int
      /\ Min({sum, MaxDelay}) <= MaxDelay
      /\ Min({sum, MaxDelay}) >= b
      /\ Min({sum, MaxDelay}) >= Min({hint, MaxDelay})
  BY <1>1, <1>2, <1>6, <1>7, <1>8
<1> QED
  BY <1>3, <1>9 DEF b

LEMMA CodesClassified ==
  /\ \A code \in {408, 409, 429, 500, 502, 503, 504, 529} : FromHttpCode(code) \in RetryStatuses
  /\ \A code \in {400, 401, 403, 404, 413, 422, 499, 501} : FromHttpCode(code) \notin RetryStatuses
  /\ \A code \in 400..599 : FromHttpCode(code) # Raw
<1>1. \A code \in 400..599 : FromHttpCode(code) # Raw
  <2> SUFFICES ASSUME NEW code \in 400..599 PROVE FromHttpCode(code) # Raw
    OBVIOUS
  <2>1. LastInTable(code) # Raw
    BY DEF LastInTable, Raw
  <2> QED
    BY <2>1 DEF FromHttpCode, Raw
<1>2. \A code \in {408, 500} : FromHttpCode(code) \in RetryStatuses
  BY DEF FromHttpCode, RetryStatuses
<1>3. \A code \in {409, 429, 502, 503, 504, 529} : FromHttpCode(code) = LastInTable(code)
  BY DEF FromHttpCode
<1>4. \A code \in {409, 429, 503, 504} : LastInTable(code) \in RetryStatuses
  BY DEF LastInTable, RetryStatuses
<1>5. \A code \in {502, 529} : LastInTable(code) \in RetryStatuses
  BY DEF LastInTable, RetryStatuses
<1>6. FromHttpCode(400) \notin RetryStatuses
  BY DEF FromHttpCode, RetryStatuses
<1>7. \A code \in {401, 403, 404, 413, 422, 499, 501} : FromHttpCode(code) = LastInTable(code)
  BY DEF FromHttpCode
<1>8. \A code \in {401, 403, 404} : LastInTable(code) \notin RetryStatuses
  BY DEF LastInTable, RetryStatuses
<1>9. \A code \in {413, 422, 499, 501} : LastInTable(code) \notin RetryStatuses
  BY DEF LastInTable, RetryStatuses
<1> QED
  BY <1>1, <1>2, <1>3, <1>4, <1>5, <1>6, <1>7, <1>8, <1>9

LEMMA RaisedForCode ==
  ASSUME NEW plugin \in ModelPlugins \ {"bedrock"}, NEW f, f.how = "http", f.code \in 400..599
  PROVE  Raised(plugin, f) = FromHttpCode(f.code) \/ (f.code = 529 /\ Raised(plugin, f) = "UNAVAILABLE")
<1>1. WrapHttpError(f.code) = FromHttpCode(f.code)
  BY DEF WrapHttpError
<1>2. CASE plugin = "openai"
  BY <1>1, <1>2 DEF Raised, OpenAIRaises
<1>3. CASE plugin = "anthropic"
  BY <1>3 DEF Raised, AnthropicRaises
<1>4. CASE plugin = "gemini"
  BY <1>1, <1>4 DEF Raised, GeminiRaises
<1>5. CASE plugin = "gemini stream"
  BY <1>1, <1>5 DEF Raised, GeminiStreamRaises
<1>6. CASE plugin = "ollama"
  BY <1>1, <1>6 DEF Raised, OllamaRaises
<1>7. CASE plugin = "interactions"
  BY <1>7 DEF Raised, InteractionsRaises
<1> QED
  BY <1>2, <1>3, <1>4, <1>5, <1>6, <1>7 DEF ModelPlugins

LEMMA Hints ==
  ASSUME NEW plugin \in ModelPlugins \ {"ollama"}, NEW f, Raised(plugin, f) # Raw, f.how \in {"http", "service"}
  PROVE  RetryHint(plugin, f) = ParseRetryAfter(f.after)
BY DEF RetryHint

LEMMA Parsed ==
  ASSUME NEW header, header.ms \in Int
  PROVE  /\ ParseRetryAfter(header) \in Int
         /\ header.form \in {"seconds", "date"} => header.ms < 0 \/ ParseRetryAfter(header) = header.ms
<1> DEFINE ms == header.ms
<1>1. Max({0, ms}) = IF 0 <= ms THEN ms ELSE 0
  <2> DEFINE S == {0, ms}
  <2>1. S = {0, ms} /\ 0 \in Int /\ ms \in Int
    OBVIOUS
  <2> HIDE DEF S, ms
  <2>2. Max(S) = IF 0 <= ms THEN ms ELSE 0
    BY <2>1, MinOfTwo
  <2> QED
    BY <2>2 DEF S
<1> HIDE DEF ms
<1>2. /\ Max({0, ms}) \in Int
      /\ ms < 0 \/ Max({0, ms}) = ms
  BY <1>1 DEF ms
<1> QED
  BY <1>2 DEF ParseRetryAfter, NoHint, ms

LEMMA LeastWithCap == ASSUME NEW ms \in Int
  PROVE Min({ms, MaxDelay}) = IF ms <= 60000 THEN ms ELSE 60000
<1> DEFINE S == {ms, MaxDelay}
<1>1. S = {ms, MaxDelay} /\ MaxDelay = 60000 /\ MaxDelay \in Int
  BY DEF MaxDelay
<1> HIDE DEF S
<1>2. Min(S) = IF ms <= MaxDelay THEN ms ELSE MaxDelay
  BY <1>1, MinOfTwo
<1> QED
  BY <1>1, <1>2 DEF S

LEMMA HintKept ==
  ASSUME NEW plugin \in ModelPlugins \ {"ollama"}, NEW attempt \in 0..MaxRetries - 1, NEW ms \in Int,
         NEW form \in HeaderForms, NEW jitter \in Nat
  PROVE  HintIsKept(plugin, attempt, ms, form, jitter)
<1> USE DEF Refused, HeaderForms
<1> DEFINE f == Refused(plugin, form, ms)
<1>1. Raised(plugin, f) # Raw
  <2>1. CASE plugin = "bedrock"
    BY <2>1 DEF Raised, BedrockRaises, BedrockCode, Raw
  <2>2. CASE plugin # "bedrock"
    <3>1. f.how = "http" /\ f.code = 429 /\ 429 \in 400..599 /\ plugin \in ModelPlugins \ {"bedrock"}
      BY <2>2
    <3> HIDE DEF f
    <3>2. Raised(plugin, f) = FromHttpCode(429)
      BY <3>1, RaisedForCode
    <3> QED
      BY <3>1, <3>2, CodesClassified
  <2> QED
    BY <2>1, <2>2
<1>2. f.how \in {"http", "service"} /\ f.after = [form |-> form, ms |-> ms]
  OBVIOUS
<1>3. [form |-> form, ms |-> ms].form = form /\ [form |-> form, ms |-> ms].ms = ms
  OBVIOUS
<1> HIDE DEF f, Refused
<1> DEFINE hint == RetryHint(plugin, f)
<1>4. hint = ParseRetryAfter(f.after)
  BY <1>1, <1>2, Hints
<1>5. hint \in Int /\ (form # "words" => ms < 0 \/ hint = ms)
  BY <1>2, <1>3, <1>4, Parsed
<1> HIDE DEF hint
<1> DEFINE wait == RetryWait(attempt, hint, jitter)
           capped == Min({hint, MaxDelay})
           asked == Min({ms, MaxDelay})
           backoff == Backoff[attempt]
<1>6. attempt \in 0..MaxRetries
  BY DEF MaxRetries
<1>7. wait \in Int /\ wait <= MaxDelay /\ wait >= backoff /\ wait >= capped
  BY <1>5, <1>6, WaitWithinBounds
<1>8. backoff \in Nat
  BY <1>6, Backoffs DEF MaxRetries
<1>9. asked = IF ms <= 60000 THEN ms ELSE 60000
  BY LeastWithCap
<1>10. hint = ms => capped = asked
  OBVIOUS
<1> HIDE DEF wait, capped, asked, backoff
<1>11. form # "words" => wait >= asked
  BY <1>5, <1>7, <1>8, <1>9, <1>10
<1> QED
  BY <1>7, <1>11 DEF HintIsKept, wait, capped, asked, backoff, hint, f

LEMMA Scaled == ASSUME NEW power \in Nat, NEW jitter \in {0, 1000 * power} PROVE jitter \in Nat
OBVIOUS

LEMMA Jitters == ASSUME NEW attempt \in 0..MaxRetries - 1 PROVE \A jitter \in Jitter(attempt) : jitter \in Nat
<1>1. MaxRetries - 1 = 2
  BY DEF MaxRetries
<1>2. 2 ^ attempt \in Nat
  BY <1>1, Pow, Zenon
<1> QED
  BY <1>2, Scaled, ZenonT(60) DEF Jitter

LEMMA RetryAfterKept == RetryAfterIsKept
<1>1. \A ms \in HeaderWaits : ms \in Int
  BY DEF HeaderWaits
<1>2. ASSUME NEW plugin \in ModelPlugins \ {"ollama"}, NEW attempt \in 0..MaxRetries - 1,
             NEW ms \in HeaderWaits, NEW form \in HeaderForms, NEW jitter \in Jitter(attempt)
      PROVE  HintIsKept(plugin, attempt, ms, form, jitter)
  <2>1. jitter \in Nat
    BY Jitters, Zenon
  <2>2. ms \in Int
    BY <1>1, Zenon
  <2> QED
    BY <2>1, <2>2, HintKept, Zenon
<1> QED
  BY <1>2, Zenon DEF RetryAfterIsKept

LEMMA TransientRetried == TransientIsRetried
<1> DEFINE Retries(plugin, f) == Wrapped(Raised(plugin, f)) \in RetryStatuses
           Http(code) == [how |-> "http", code |-> code]
           Service(name) == [how |-> "service", code |-> name]
           HttpPlugins == ModelPlugins \ {"bedrock"}
<1>1. ASSUME NEW plugin \in HttpPlugins, NEW code \in {408, 409, 429, 500, 502, 503, 504, 529}
      PROVE  Retries(plugin, Http(code))
  <2>1. Raised(plugin, Http(code)) = FromHttpCode(code) \/ Raised(plugin, Http(code)) = "UNAVAILABLE"
    BY RaisedForCode
  <2>2. Raised(plugin, Http(code)) \in RetryStatuses
    BY <2>1, CodesClassified DEF RetryStatuses
  <2> QED
    BY <2>2 DEF Wrapped, RetryStatuses
<1>2. ASSUME NEW plugin \in HttpPlugins, NEW code \in {400, 401, 403, 404, 413, 422, 499, 501}
      PROVE  ~Retries(plugin, Http(code))
  <2>1. Raised(plugin, Http(code)) = FromHttpCode(code)
    BY RaisedForCode
  <2>2. Wrapped(Raised(plugin, Http(code))) = FromHttpCode(code)
    BY <2>1, CodesClassified DEF Wrapped
  <2> QED
    BY <2>2, CodesClassified
<1>3. /\ \A name \in {"ThrottlingException", "ModelTimeoutException", "ServiceUnavailableException",
                     "ModelStreamErrorException"} : Retries("bedrock", Service(name))
      /\ \A name \in {"ValidationException", "AccessDeniedException", "ResourceNotFoundException"} :
           ~Retries("bedrock", Service(name))
  <2>1. \A name : Raised("bedrock", Service(name)) = BedrockCode(name)
    BY DEF Raised, BedrockRaises
  <2>2. /\ BedrockCode("ThrottlingException") = "RESOURCE_EXHAUSTED"
        /\ BedrockCode("ModelTimeoutException") = "DEADLINE_EXCEEDED"
        /\ BedrockCode("ServiceUnavailableException") = "UNAVAILABLE"
        /\ BedrockCode("ModelStreamErrorException") = "INTERNAL"
    BY DEF BedrockCode
  <2>3. /\ BedrockCode("ValidationException") = "INVALID_ARGUMENT"
        /\ BedrockCode("AccessDeniedException") = "PERMISSION_DENIED"
        /\ BedrockCode("ResourceNotFoundException") = "NOT_FOUND"
    BY DEF BedrockCode
  <2> QED
    BY <2>1, <2>2, <2>3 DEF Wrapped, Raw, RetryStatuses
<1>4. ASSUME NEW plugin \in ModelPlugins \ {"anthropic"} PROVE Retries(plugin, [how |-> "timeout"])
  <2>1. /\ OpenAIRaises([how |-> "timeout"]) = Raw
        /\ GeminiRaises([how |-> "timeout"]) = "INTERNAL"
        /\ GeminiStreamRaises([how |-> "timeout"]) = Raw
        /\ OllamaRaises([how |-> "timeout"]) = Raw
        /\ InteractionsRaises([how |-> "timeout"]) = "DEADLINE_EXCEEDED"
        /\ BedrockRaises([how |-> "timeout"]) = "DEADLINE_EXCEEDED"
    BY DEF OpenAIRaises, GeminiRaises, GeminiStreamRaises, OllamaRaises, InteractionsRaises, BedrockRaises,
      BotocoreError, OllamaConnectionError
  <2>2. Raised(plugin, [how |-> "timeout"]) \in {Raw, "INTERNAL", "DEADLINE_EXCEEDED"}
    BY <2>1 DEF Raised, ModelPlugins
  <2> QED
    BY <2>2 DEF Wrapped, Raw, RetryStatuses
<1>5. ASSUME NEW plugin \in HttpPlugins PROVE Retries(plugin, [how |-> "unreadable"])
  <2>1. /\ OpenAIRaises([how |-> "unreadable"]) = "INTERNAL"
        /\ AnthropicRaises([how |-> "unreadable"]) = Raw
        /\ GeminiRaises([how |-> "unreadable"]) = "INTERNAL"
        /\ GeminiStreamRaises([how |-> "unreadable"]) = Raw
        /\ OllamaRaises([how |-> "unreadable"]) = "INTERNAL"
        /\ InteractionsRaises([how |-> "unreadable"]) = "INTERNAL"
    BY DEF OpenAIRaises, AnthropicRaises, GeminiRaises, GeminiStreamRaises, OllamaRaises, InteractionsRaises
  <2>2. Raised(plugin, [how |-> "unreadable"]) \in {Raw, "INTERNAL"}
    BY <2>1 DEF Raised, ModelPlugins
  <2> QED
    BY <2>2 DEF Wrapped, Raw, RetryStatuses
<1>6. \A plugin \in {"openai", "ollama", "bedrock"} : ~Retries(plugin, [how |-> "misused"])
  <2>1. /\ OpenAIRaises([how |-> "misused"]) = "INVALID_ARGUMENT"
        /\ OllamaRaises([how |-> "misused"]) = "INVALID_ARGUMENT"
        /\ BedrockRaises([how |-> "misused"]) = "INVALID_ARGUMENT"
    BY DEF OpenAIRaises, OllamaRaises, BedrockRaises, BotocoreError
  <2> QED
    BY <2>1 DEF Raised, Wrapped, Raw, RetryStatuses
<1> QED
  BY <1>1, <1>2, <1>3, <1>4, <1>5, <1>6 DEF TransientIsRetried

(* For any set of requests, any mix of web servers and any number of chunks: a  *)
(* complete reply of a server tells how the run of the action ended (its value, *)
(* its own error, or nothing when it was cancelled) and holds all chunks of it; *)
(* and a call that failed in passing is tried again, after the wait its server  *)
(* asked for.  The code: handle_genkit_request of the web frameworks, the       *)
(* reflection server, and the retries.                                          *)
THEOREM FailuresAreToldHolds == ServersSpec => []FailuresAreTold
<1>1. ServersInit => ServersInv
  BY ServersInitInv
<1>2. ServersInv /\ [ServersNext]_serverVars => ServersInv'
  BY ServersInductive
<1>3. ServersInv => FailuresAreTold
  BY RepliesFit, TransientRetried, RetryAfterKept DEF FailuresAreTold
<1> QED
  BY <1>1, <1>2, <1>3, PTL DEF ServersSpec

-----------------------------------------------------------------------------
(* What leaves the process of a run (TraceExport).  The queue of a background    *)
(* exporter, for any number of threads, records and flushes: a record is in one   *)
(* place, and the count the flush waits for is what is in the queue and one       *)
(* batch.  A batch counts once, by its first record, whatever it gathered.        *)

Fates == {"made", "refused", "dropped", "queued", "taken", "posted", "failed", "evicted"}
QueueTypes ==
  /\ sink \in Sinks
  /\ outbox \in Seq(Nat) /\ unfinished \in Nat /\ fate \in Seq(Fates)
  /\ putting \in [Threads -> {StopToken} \union DOMAIN fate]
  /\ poster \in [at : {"starting", "broken", "getting", "gathering", "posting", "returned"},
                 batch : Seq(Nat), stopping : BOOLEAN]
  /\ flush \in [at : {"none", "waiting", "true", "false"}, covers : SUBSET DOMAIN fate]

Posting == poster.at \in {"gathering", "posting"}

\* A record is in one place: with a thread, in the queue, in the batch of the worker.
InHand ==
  /\ \A t \in Threads : putting[t] # StopToken => fate[putting[t]] = "made"
  /\ \A t, u \in Threads : putting[t] = putting[u] => t = u \/ putting[t] = StopToken
InQueue ==
  /\ \A i \in DOMAIN outbox : outbox[i] # StopToken => outbox[i] \in DOMAIN fate /\ fate[outbox[i]] = "queued"
  /\ \A i, j \in DOMAIN outbox : outbox[i] = outbox[j] => i = j \/ outbox[i] = StopToken
  /\ \A r \in DOMAIN fate : fate[r] = "queued" => \E i \in DOMAIN outbox : outbox[i] = r
InBatch ==
  /\ \A r \in DOMAIN fate : fate[r] = "taken" <=> \E i \in DOMAIN poster.batch : poster.batch[i] = r
  /\ \A i \in DOMAIN poster.batch : poster.batch[i] \in DOMAIN fate
  /\ ~Posting => poster.batch = <<>>

\* What is not done is in the queue, or one batch; what a flush waited for is not lost.
CountsWhatWaits == unfinished = Len(outbox) + (IF Posting THEN 1 ELSE 0)
FlushCovers ==
  /\ \A r \in flush.covers : fate[r] \in {"queued", "taken"} \/ Settled(r)
  /\ flush.at = "true" => \A r \in flush.covers : Settled(r)

QueueInv == QueueTypes /\ InHand /\ InQueue /\ InBatch /\ CountsWhatWaits /\ FlushCovers

LEMMA TailOf ==
  ASSUME NEW s \in Seq(Nat), s # <<>>
  PROVE  /\ Len(s) \in Nat \ {0} /\ DOMAIN s = 1..Len(s) /\ Head(s) = s[1] /\ Head(s) \in Nat
         /\ Tail(s) \in Seq(Nat) /\ Len(Tail(s)) = Len(s) - 1 /\ DOMAIN Tail(s) = 1..(Len(s) - 1)
         /\ \A i \in 1..(Len(s) - 1) : Tail(s)[i] = s[i + 1]
OBVIOUS

LEMMA AppendTo ==
  ASSUME NEW S, NEW s \in Seq(S), NEW x \in S
  PROVE  /\ Len(s) \in Nat /\ DOMAIN s = 1..Len(s)
         /\ Append(s, x) \in Seq(S) /\ Len(Append(s, x)) = Len(s) + 1 /\ DOMAIN Append(s, x) = 1..(Len(s) + 1)
         /\ \A i \in 1..Len(s) : Append(s, x)[i] = s[i]
         /\ Append(s, x)[Len(s) + 1] = x
OBVIOUS

LEMMA FateSet ==
  ASSUME fate \in Seq(Fates), NEW r \in DOMAIN fate, NEW f \in Fates
  PROVE  /\ [fate EXCEPT ![r] = f] \in Seq(Fates) /\ DOMAIN [fate EXCEPT ![r] = f] = DOMAIN fate
         /\ \A q \in DOMAIN fate : [fate EXCEPT ![r] = f][q] = IF q = r THEN f ELSE fate[q]
OBVIOUS

\* What a flush covers goes from the queue to the batch, and from there to what settles it.
LEMMA CoversKept ==
  ASSUME QueueInv, UNCHANGED flush,
         \A r \in DOMAIN fate :
           \/ fate'[r] = fate[r] \/ fate[r] = "made"
           \/ fate[r] = "queued" /\ fate'[r] \in {"taken", "evicted"}
           \/ fate[r] = "taken" /\ fate'[r] \in {"posted", "failed"}
  PROVE  FlushCovers'
<1>1. flush.covers \subseteq DOMAIN fate
  BY DEF QueueInv, QueueTypes
<1> QED
  BY <1>1 DEF QueueInv, FlushCovers, Settled

\* The oldest item leaves the queue.
LEMMA Dequeued ==
  ASSUME QueueInv, outbox # <<>>, outbox' = Tail(outbox), NEW f \in {"taken", "evicted"},
         fate' = IF Head(outbox) = StopToken THEN fate ELSE [fate EXCEPT ![Head(outbox)] = f],
         UNCHANGED <<putting, flush>>
  PROVE  /\ outbox' \in Seq(Nat) /\ Len(outbox) \in Nat \ {0} /\ Len(outbox') = Len(outbox) - 1
         /\ fate' \in Seq(Fates) /\ DOMAIN fate' = DOMAIN fate /\ Head(outbox) \in Nat
         /\ \A r \in DOMAIN fate : fate'[r] = IF r = Head(outbox) THEN f ELSE fate[r]
         /\ Head(outbox) = StopToken \/ (Head(outbox) \in DOMAIN fate /\ fate[Head(outbox)] = "queued")
         /\ InHand' /\ InQueue' /\ FlushCovers'
<1> DEFINE h == Head(outbox)
<1>1. outbox \in Seq(Nat) /\ fate \in Seq(Fates)
  BY DEF QueueInv, QueueTypes
<1>2. /\ Len(outbox) \in Nat \ {0} /\ DOMAIN outbox = 1..Len(outbox) /\ h = outbox[1] /\ h \in Nat
      /\ outbox' \in Seq(Nat) /\ Len(outbox') = Len(outbox) - 1 /\ DOMAIN outbox' = 1..(Len(outbox) - 1)
      /\ \A i \in 1..(Len(outbox) - 1) : outbox'[i] = outbox[i + 1]
  BY <1>1, TailOf
<1>3. h = StopToken \/ (h \in DOMAIN fate /\ fate[h] = "queued")
  BY <1>2 DEF QueueInv, InQueue
<1>4. StopToken \notin DOMAIN fate /\ DOMAIN fate \subseteq Nat
  BY <1>1 DEF StopToken
<1> HIDE DEF h
<1>5. fate' \in Seq(Fates) /\ DOMAIN fate' = DOMAIN fate
      /\ \A r \in DOMAIN fate : fate'[r] = IF r = h THEN f ELSE fate[r]
  <2>1. CASE h = StopToken
    BY <1>1, <1>4, <2>1 DEF h
  <2>2. CASE h # StopToken
    <3>1. h \in DOMAIN fate /\ f \in Fates /\ fate' = [fate EXCEPT ![h] = f]
      BY <1>3, <2>2 DEF Fates, h
    <3>2. /\ [fate EXCEPT ![h] = f] \in Seq(Fates) /\ DOMAIN [fate EXCEPT ![h] = f] = DOMAIN fate
          /\ \A q \in DOMAIN fate : [fate EXCEPT ![h] = f][q] = IF q = h THEN f ELSE fate[q]
      BY <1>1, <3>1, FateSet
    <3> QED
      BY <3>1, <3>2
  <2> QED
    BY <2>1, <2>2
<1>6. InHand'
  <2>1. \A t \in Threads : putting[t] # StopToken => putting[t] \in DOMAIN fate /\ putting[t] # h
    BY <1>3 DEF QueueInv, QueueTypes, InHand
  <2> QED
    BY <1>5, <2>1 DEF QueueInv, InHand
<1>7. InQueue'
  <2>1. ASSUME NEW i \in DOMAIN outbox', outbox'[i] # StopToken
        PROVE  outbox'[i] \in DOMAIN fate' /\ fate'[outbox'[i]] = "queued"
    <3>1. i + 1 \in DOMAIN outbox /\ 1 \in DOMAIN outbox /\ i + 1 # 1 /\ outbox'[i] = outbox[i + 1]
      BY <1>2, <2>1
    <3>2. outbox[i + 1] # h
      BY <1>2, <2>1, <3>1 DEF QueueInv, InQueue
    <3>3. outbox[i + 1] \in DOMAIN fate /\ fate[outbox[i + 1]] = "queued"
      BY <2>1, <3>1 DEF QueueInv, InQueue
    <3> QED
      BY <1>5, <3>1, <3>2, <3>3
  <2>2. ASSUME NEW i \in DOMAIN outbox', NEW j \in DOMAIN outbox', outbox'[i] = outbox'[j]
        PROVE  i = j \/ outbox'[i] = StopToken
    <3>1. i \in 1..(Len(outbox) - 1) /\ j \in 1..(Len(outbox) - 1)
      BY <1>2
    <3>2. i + 1 \in DOMAIN outbox /\ outbox'[i] = outbox[i + 1] /\ i \in Nat
      BY <1>2, <3>1
    <3>3. j + 1 \in DOMAIN outbox /\ outbox'[j] = outbox[j + 1] /\ j \in Nat
      BY <1>2, <3>1
    <3>4. i + 1 = j + 1 \/ outbox[i + 1] = StopToken
      BY <2>2, <3>2, <3>3 DEF QueueInv, InQueue
    <3> QED
      BY <3>2, <3>3, <3>4
  <2>3. ASSUME NEW r \in DOMAIN fate', fate'[r] = "queued" PROVE \E i \in DOMAIN outbox' : outbox'[i] = r
    <3>1. r \in DOMAIN fate /\ r # h /\ fate[r] = "queued"
      BY <1>5, <2>3
    <3>2. PICK k \in DOMAIN outbox : outbox[k] = r
      BY <3>1 DEF QueueInv, InQueue
    <3>3. k # 1
      BY <1>2, <3>1, <3>2
    <3>4. k - 1 \in DOMAIN outbox' /\ outbox'[k - 1] = r
      BY <1>2, <3>2, <3>3
    <3> QED
      BY <3>4
  <2> QED
    BY <2>1, <2>2, <2>3 DEF InQueue
<1>8. FlushCovers'
  BY <1>3, <1>4, <1>5, CoversKept
<1> QED
  BY <1>2, <1>3, <1>5, <1>6, <1>7, <1>8 DEF h

\* The stop token goes behind all that waits.
LEMMA StopQueued ==
  ASSUME QueueInv, outbox' = Append(outbox, StopToken), UNCHANGED <<putting, fate, flush>>
  PROVE  /\ outbox' \in Seq(Nat) /\ Len(outbox) \in Nat /\ Len(outbox') = Len(outbox) + 1
         /\ InHand' /\ InQueue' /\ FlushCovers'
<1>1. outbox \in Seq(Nat) /\ StopToken \in Nat
  BY DEF QueueInv, QueueTypes, StopToken
<1>2. /\ outbox' \in Seq(Nat) /\ Len(outbox) \in Nat /\ Len(outbox') = Len(outbox) + 1
      /\ DOMAIN outbox = 1..Len(outbox) /\ DOMAIN outbox' = 1..(Len(outbox) + 1)
      /\ \A i \in 1..Len(outbox) : outbox'[i] = outbox[i]
      /\ outbox'[Len(outbox) + 1] = StopToken
  BY <1>1, AppendTo
<1>3. \A i \in DOMAIN outbox' : (i \in DOMAIN outbox /\ outbox'[i] = outbox[i]) \/ outbox'[i] = StopToken
  BY <1>2
<1>4. \A i \in DOMAIN outbox : i \in DOMAIN outbox' /\ outbox'[i] = outbox[i]
  BY <1>2
<1>5. InQueue'
  BY <1>3, <1>4 DEF QueueInv, InQueue
<1>6. InHand' /\ FlushCovers'
  BY DEF QueueInv, InHand, FlushCovers, Settled
<1> QED
  BY <1>2, <1>5, <1>6

LEMMA QueueInitInv == QueueInit => QueueInv
<1> SUFFICES ASSUME QueueInit PROVE QueueInv
  OBVIOUS
<1>1. outbox = <<>> /\ fate = <<>> /\ poster.batch = <<>> /\ poster.at = "starting" /\ DOMAIN fate = {}
  BY DEF QueueInit
<1>2. QueueTypes
  BY <1>1 DEF QueueInit, QueueTypes
<1>3. InHand /\ InQueue /\ FlushCovers
  BY DEF QueueInit, InHand, InQueue, FlushCovers
<1>4. InBatch /\ CountsWhatWaits
  BY <1>1 DEF QueueInit, InBatch, CountsWhatWaits, Posting
<1> QED
  BY <1>2, <1>3, <1>4 DEF QueueInv

LEMMA EmitInv == ASSUME QueueInv, NEW t \in Threads, Emit(t) PROVE QueueInv'
<1> DEFINE f == IF refusing THEN "refused" ELSE "made"
           n == Len(fate) + 1
<1>1. /\ putting[t] = StopToken /\ fate' = Append(fate, f)
      /\ putting' = [putting EXCEPT ![t] = IF refusing THEN StopToken ELSE Len(fate')]
      /\ UNCHANGED <<sink, outbox, unfinished, poster, flush>>
  BY DEF Emit
<1>2. f \in Fates /\ fate \in Seq(Fates) /\ f # "queued" /\ f # "taken"
  BY DEF Fates, QueueInv, QueueTypes
<1>3. /\ fate' \in Seq(Fates) /\ DOMAIN fate = 1..Len(fate) /\ DOMAIN fate' = 1..n /\ Len(fate') = n /\ n \in Nat
      /\ \A r \in DOMAIN fate : fate'[r] = fate[r]
      /\ fate'[n] = f
  BY <1>1, <1>2, AppendTo
<1>4. DOMAIN fate' = DOMAIN fate \union {n} /\ n \notin DOMAIN fate /\ n # StopToken
  BY <1>3 DEF StopToken
<1>5. putting' = [putting EXCEPT ![t] = IF refusing THEN StopToken ELSE n] /\ (~refusing => f = "made")
  BY <1>1, <1>3
<1> HIDE DEF f, n
<1>6. QueueTypes'
  BY <1>1, <1>3, <1>4, <1>5 DEF QueueInv, QueueTypes
<1>7. InHand'
  <2>1. \A u \in Threads : putting'[u] = IF u = t THEN (IF refusing THEN StopToken ELSE n) ELSE putting[u]
    BY <1>5 DEF QueueInv, QueueTypes
  <2>2. \A u \in Threads : putting[u] # StopToken => putting[u] \in DOMAIN fate
    BY DEF QueueInv, QueueTypes
  <2> QED
    BY <1>3, <1>4, <1>5, <2>1, <2>2 DEF QueueInv, InHand
<1>8. InQueue'
  BY <1>1, <1>2, <1>3, <1>4 DEF QueueInv, InQueue
<1>9. InBatch' /\ CountsWhatWaits'
  <2>1. ~\E i \in DOMAIN poster.batch : poster.batch[i] = n
    <3>1. \A i \in DOMAIN poster.batch : poster.batch[i] \in DOMAIN fate
      BY DEF QueueInv, InBatch
    <3> QED
      BY <1>4, <3>1
  <2> QED
    BY <1>1, <1>2, <1>3, <1>4, <2>1 DEF QueueInv, InBatch, CountsWhatWaits, Posting
<1>10. FlushCovers'
  BY <1>1, <1>3, CoversKept
<1> QED
  BY <1>6, <1>7, <1>8, <1>9, <1>10 DEF QueueInv

LEMMA PutInv == ASSUME QueueInv, NEW t \in Threads, Put(t) PROVE QueueInv'
<1> DEFINE r == putting[t]
<1>1. /\ r # StopToken /\ putting' = [putting EXCEPT ![t] = StopToken]
      /\ UNCHANGED <<sink, poster, flush>>
  BY DEF Put
<1>2. r \in DOMAIN fate /\ fate[r] = "made" /\ fate \in Seq(Fates) /\ outbox \in Seq(Nat) /\ r \in Nat
  BY <1>1 DEF QueueInv, QueueTypes, InHand
<1>3. PICK f \in {"dropped", "queued"} :
        /\ fate' = [fate EXCEPT ![r] = f]
        /\ f = "dropped" => UNCHANGED <<outbox, unfinished>>
        /\ f = "queued" => outbox' = Append(outbox, r) /\ unfinished' = unfinished + 1
  BY DEF Put
<1> HIDE DEF r
<1>4. f \in Fates
  BY DEF Fates
<1>5. /\ fate' \in Seq(Fates) /\ DOMAIN fate' = DOMAIN fate
      /\ \A q \in DOMAIN fate : fate'[q] = IF q = r THEN f ELSE fate[q]
  <2>1. /\ [fate EXCEPT ![r] = f] \in Seq(Fates) /\ DOMAIN [fate EXCEPT ![r] = f] = DOMAIN fate
        /\ \A q \in DOMAIN fate : [fate EXCEPT ![r] = f][q] = IF q = r THEN f ELSE fate[q]
    BY <1>2, <1>4, FateSet
  <2> QED
    BY <1>3, <2>1
<1>6. \A i \in DOMAIN outbox : outbox[i] # r
  BY <1>1, <1>2 DEF QueueInv, InQueue
<1>7. \A i \in DOMAIN poster.batch : poster.batch[i] # r
  BY <1>2 DEF QueueInv, InBatch
<1>8. InHand'
  <2>1. \A u \in Threads : putting'[u] = IF u = t THEN StopToken ELSE putting[u]
    BY <1>1 DEF QueueInv, QueueTypes
  <2>2. \A u \in Threads \ {t} : putting[u] # StopToken => putting[u] \in DOMAIN fate /\ putting[u] # r
    BY <1>1 DEF QueueInv, QueueTypes, InHand, r
  <2> QED
    BY <1>5, <2>1, <2>2 DEF QueueInv, InHand
<1>9. InBatch'
  BY <1>1, <1>2, <1>5, <1>7 DEF QueueInv, InBatch, Posting
<1>10. FlushCovers'
  BY <1>1, <1>2, <1>5, CoversKept
<1>11. InQueue' /\ CountsWhatWaits' /\ outbox' \in Seq(Nat) /\ unfinished' \in Nat
  <2>1. CASE f = "dropped"
    BY <1>1, <1>2, <1>3, <1>5, <1>6, <2>1 DEF QueueInv, QueueTypes, InQueue, CountsWhatWaits, Posting
  <2>2. CASE f = "queued"
    <3>1. /\ outbox' \in Seq(Nat) /\ Len(outbox) \in Nat /\ Len(outbox') = Len(outbox) + 1
          /\ DOMAIN outbox = 1..Len(outbox) /\ DOMAIN outbox' = 1..(Len(outbox) + 1)
          /\ \A i \in 1..Len(outbox) : outbox'[i] = outbox[i]
          /\ outbox'[Len(outbox) + 1] = r
      <4>1. outbox' = Append(outbox, r) /\ outbox \in Seq(Nat) /\ r \in Nat
        BY <1>2, <1>3, <2>2
      <4> QED
        BY <4>1, AppendTo
    <3>2. \A i \in DOMAIN outbox : i \in DOMAIN outbox' /\ outbox'[i] = outbox[i]
      BY <3>1
    <3>3. \A i \in DOMAIN outbox' : i \in DOMAIN outbox \/ i = Len(outbox) + 1
      BY <3>1
    <3>4. Len(outbox) + 1 \in DOMAIN outbox'
      BY <3>1
    <3>5. InQueue'
      <4>1. ASSUME NEW i \in DOMAIN outbox', outbox'[i] # StopToken
            PROVE  outbox'[i] \in DOMAIN fate' /\ fate'[outbox'[i]] = "queued"
        BY <1>2, <1>5, <1>6, <2>2, <3>1, <3>2, <3>3, <4>1, SMTT(30) DEF QueueInv, InQueue
      <4>2. ASSUME NEW i \in DOMAIN outbox', NEW j \in DOMAIN outbox', outbox'[i] = outbox'[j]
            PROVE  i = j \/ outbox'[i] = StopToken
        BY <1>6, <3>1, <3>2, <3>3, <4>2 DEF QueueInv, InQueue
      <4>3. ASSUME NEW q \in DOMAIN fate', fate'[q] = "queued" PROVE \E i \in DOMAIN outbox' : outbox'[i] = q
        <5>1. CASE q = r
          BY <3>1, <3>4, <5>1
        <5>2. CASE q # r
          <6>1. q \in DOMAIN fate /\ fate[q] = "queued"
            BY <1>5, <4>3, <5>2
          <6>2. PICK k \in DOMAIN outbox : outbox[k] = q
            BY <6>1 DEF QueueInv, InQueue
          <6> QED
            BY <3>2, <6>2
        <5> QED
          BY <5>1, <5>2
      <4> QED
        BY <4>1, <4>2, <4>3 DEF InQueue
    <3>6. CountsWhatWaits' /\ unfinished' \in Nat
      <4>1. unfinished' = unfinished + 1 /\ (Posting' <=> Posting)
        BY <1>1, <1>3, <2>2 DEF Posting
      <4> DEFINE one == IF Posting THEN 1 ELSE 0
                 len == Len(outbox)
      <4>2. unfinished = len + one /\ unfinished \in Nat /\ one \in {0, 1} /\ len \in Nat /\ Len(outbox') = len + 1
        BY <3>1 DEF QueueInv, QueueTypes, CountsWhatWaits
      <4>3. one' = one
        BY <4>1
      <4> HIDE DEF one, len
      <4>4. unfinished' = Len(outbox') + one /\ unfinished' \in Nat
        BY <4>1, <4>2
      <4> QED
        BY <4>3, <4>4 DEF CountsWhatWaits, one
    <3> QED
      BY <3>1, <3>5, <3>6
  <2> QED
    BY <2>1, <2>2
<1>12. QueueTypes'
  BY <1>1, <1>5, <1>11 DEF QueueInv, QueueTypes
<1> QED
  BY <1>8, <1>9, <1>10, <1>11, <1>12 DEF QueueInv

\* What becomes of the worker alone.
LEMMA PosterMoves ==
  ASSUME QueueInv, NEW at \in {"starting", "broken", "getting", "gathering", "posting", "returned"},
         poster' = [poster EXCEPT !.at = at], Posting <=> at \in {"gathering", "posting"},
         UNCHANGED <<sink, outbox, unfinished, putting, fate, flush>>
  PROVE  QueueInv'
<1>1. poster'.at = at /\ poster'.batch = poster.batch /\ poster'.stopping = poster.stopping
  BY DEF QueueInv, QueueTypes
<1>2. QueueTypes'
  BY DEF QueueInv, QueueTypes
<1>3. Posting' <=> Posting
  BY <1>1 DEF Posting
<1>4. InHand' /\ InQueue' /\ FlushCovers'
  BY DEF QueueInv, InHand, InQueue, FlushCovers, Settled
<1>5. InBatch' /\ CountsWhatWaits'
  BY <1>1, <1>3 DEF QueueInv, InBatch, CountsWhatWaits
<1> QED
  BY <1>2, <1>4, <1>5 DEF QueueInv

LEMMA WorkerStartsInv == ASSUME QueueInv, WorkerStarts \/ GatheringEnds PROVE QueueInv'
<1>1. UNCHANGED <<sink, outbox, unfinished, putting, fate, flush>>
  BY DEF WorkerStarts, GatheringEnds
<1>2. PICK at \in {"getting", "broken", "posting"} :
        poster' = [poster EXCEPT !.at = at] /\ (Posting <=> at \in {"gathering", "posting"})
  BY DEF WorkerStarts, GatheringEnds, Posting
<1> QED
  BY <1>1, <1>2, PosterMoves

LEMMA WorkerGetsInv == ASSUME QueueInv, WorkerGets PROVE QueueInv'
<1> DEFINE h == Head(outbox)
<1>1. /\ poster.at = "getting" /\ outbox # <<>> /\ outbox' = Tail(outbox)
      /\ UNCHANGED <<sink, putting, flush>>
      /\ fate' = IF h = StopToken THEN fate ELSE [fate EXCEPT ![h] = "taken"]
  BY DEF WorkerGets
<1>2. /\ h = StopToken => poster' = [poster EXCEPT !.at = "returned"] /\ unfinished' = unfinished - 1
      /\ h # StopToken => /\ poster' = [poster EXCEPT !.at = "gathering", !.batch = <<h>>]
                          /\ unfinished' = unfinished
  BY DEF WorkerGets
<1>3. /\ outbox' \in Seq(Nat) /\ Len(outbox) \in Nat \ {0} /\ Len(outbox') = Len(outbox) - 1
      /\ fate' \in Seq(Fates) /\ DOMAIN fate' = DOMAIN fate /\ h \in Nat
      /\ \A r \in DOMAIN fate : fate'[r] = IF r = h THEN "taken" ELSE fate[r]
      /\ h = StopToken \/ (h \in DOMAIN fate /\ fate[h] = "queued")
      /\ InHand' /\ InQueue' /\ FlushCovers'
  BY <1>1, Dequeued
<1> HIDE DEF h
<1>4. ~Posting /\ poster.batch = <<>> /\ unfinished = Len(outbox)
  BY <1>1 DEF Posting, QueueInv, InBatch, CountsWhatWaits
<1>5. /\ h = StopToken => poster'.at = "returned" /\ poster'.batch = <<>>
      /\ h # StopToken => poster'.at = "gathering" /\ poster'.batch = <<h>>
      /\ poster' \in [at : {"starting", "broken", "getting", "gathering", "posting", "returned"},
                      batch : Seq(Nat), stopping : BOOLEAN]
  <2>1. poster = [at |-> poster.at, batch |-> <<>>, stopping |-> poster.stopping] /\ poster.stopping \in BOOLEAN
    BY <1>4 DEF QueueInv, QueueTypes
  <2>2. CASE h = StopToken
    <3>1. poster' = [at |-> "returned", batch |-> <<>>, stopping |-> poster.stopping]
      BY <1>2, <2>1, <2>2
    <3> QED
      BY <2>1, <2>2, <3>1
  <2>3. CASE h # StopToken
    <3>1. poster' = [at |-> "gathering", batch |-> <<h>>, stopping |-> poster.stopping]
      BY <1>2, <2>1, <2>3
    <3>2. <<h>> \in Seq(Nat)
      BY <1>3
    <3> QED
      BY <2>1, <2>3, <3>1, <3>2
  <2> QED
    BY <2>2, <2>3
<1>6. QueueTypes'
  BY <1>1, <1>2, <1>3, <1>4, <1>5 DEF QueueInv, QueueTypes
<1>7. CountsWhatWaits'
  BY <1>2, <1>3, <1>4, <1>5 DEF CountsWhatWaits, Posting
<1>8. InBatch'
  <2>1. StopToken \notin DOMAIN fate
    BY DEF QueueInv, QueueTypes, StopToken
  <2>2. \A r \in DOMAIN fate : fate[r] # "taken"
    BY <1>4 DEF QueueInv, InBatch
  <2>3. \A r \in DOMAIN fate' : fate'[r] = "taken" <=> r = h
    BY <1>3, <2>2
  <2>4. CASE h = StopToken
    BY <1>3, <1>5, <2>1, <2>3, <2>4 DEF InBatch
  <2>5. CASE h # StopToken
    <3>1. poster'.batch = <<h>> /\ Posting'
      BY <1>5, <2>5 DEF Posting
    <3>2. DOMAIN poster'.batch = {1} /\ poster'.batch[1] = h
      BY <3>1
    <3>3. h \in DOMAIN fate'
      BY <1>3, <2>5
    <3>4. \A r \in DOMAIN fate' : fate'[r] = "taken" <=> \E i \in DOMAIN poster'.batch : poster'.batch[i] = r
      BY <2>3, <3>2
    <3>5. \A i \in DOMAIN poster'.batch : poster'.batch[i] \in DOMAIN fate'
      BY <3>2, <3>3
    <3> QED
      BY <3>1, <3>4, <3>5 DEF InBatch
  <2> QED
    BY <2>4, <2>5
<1> QED
  BY <1>3, <1>6, <1>7, <1>8 DEF QueueInv

LEMMA WorkerGathersInv == ASSUME QueueInv, WorkerGathers PROVE QueueInv'
<1> DEFINE h == Head(outbox)
<1>1. /\ poster.at = "gathering" /\ outbox # <<>> /\ outbox' = Tail(outbox) /\ unfinished' = unfinished - 1
      /\ UNCHANGED <<sink, putting, flush>>
      /\ fate' = IF h = StopToken THEN fate ELSE [fate EXCEPT ![h] = "taken"]
  BY DEF WorkerGathers
<1>2. /\ h = StopToken => poster' = [poster EXCEPT !.at = "posting", !.stopping = TRUE]
      /\ h # StopToken => poster' = [poster EXCEPT !.batch = Append(@, h)]
  BY DEF WorkerGathers
<1>3. /\ outbox' \in Seq(Nat) /\ Len(outbox) \in Nat \ {0} /\ Len(outbox') = Len(outbox) - 1
      /\ fate' \in Seq(Fates) /\ DOMAIN fate' = DOMAIN fate /\ h \in Nat
      /\ \A r \in DOMAIN fate : fate'[r] = IF r = h THEN "taken" ELSE fate[r]
      /\ h = StopToken \/ (h \in DOMAIN fate /\ fate[h] = "queued")
      /\ InHand' /\ InQueue' /\ FlushCovers'
  BY <1>1, Dequeued
<1> HIDE DEF h
<1>4. Posting /\ unfinished = Len(outbox) + 1
  BY <1>1 DEF Posting, QueueInv, CountsWhatWaits
<1>5. /\ poster = [at |-> "gathering", batch |-> poster.batch, stopping |-> poster.stopping]
      /\ poster.stopping \in BOOLEAN /\ poster.batch \in Seq(Nat)
  BY <1>1 DEF QueueInv, QueueTypes
<1>6. /\ h = StopToken => poster'.batch = poster.batch
      /\ h # StopToken => poster'.batch = Append(poster.batch, h)
      /\ poster'.at \in {"gathering", "posting"}
      /\ poster' \in [at : {"starting", "broken", "getting", "gathering", "posting", "returned"},
                      batch : Seq(Nat), stopping : BOOLEAN]
  <2>1. CASE h = StopToken
    <3>1. poster' = [at |-> "posting", batch |-> poster.batch, stopping |-> TRUE]
      BY <1>2, <1>5, <2>1
    <3> QED
      BY <1>5, <2>1, <3>1
  <2>2. CASE h # StopToken
    <3>1. poster' = [at |-> "gathering", batch |-> Append(poster.batch, h), stopping |-> poster.stopping]
      BY <1>2, <1>5, <2>2
    <3>2. Append(poster.batch, h) \in Seq(Nat)
      BY <1>3, <1>5, AppendTo
    <3> QED
      BY <1>5, <2>2, <3>1, <3>2
  <2> QED
    BY <2>1, <2>2
<1>7. QueueTypes'
  BY <1>1, <1>3, <1>4, <1>6 DEF QueueInv, QueueTypes
<1>8. CountsWhatWaits' /\ Posting'
  BY <1>1, <1>3, <1>4, <1>6 DEF CountsWhatWaits, Posting
<1>9. InBatch'
  <2>1. StopToken \notin DOMAIN fate
    BY DEF QueueInv, QueueTypes, StopToken
  <2>2. /\ \A r \in DOMAIN fate : fate[r] = "taken" <=> \E i \in DOMAIN poster.batch : poster.batch[i] = r
        /\ \A i \in DOMAIN poster.batch : poster.batch[i] \in DOMAIN fate
    BY DEF QueueInv, InBatch
  <2>3. CASE h = StopToken
    <3>1. \A r \in DOMAIN fate : fate'[r] = fate[r]
      BY <1>3, <2>1, <2>3
    <3> QED
      BY <1>3, <1>6, <1>8, <2>2, <2>3, <3>1 DEF InBatch
  <2>4. CASE h # StopToken
    <3> DEFINE n == Len(poster.batch) + 1
    <3>1. /\ DOMAIN poster.batch = 1..Len(poster.batch) /\ DOMAIN poster'.batch = 1..n
          /\ \A i \in 1..Len(poster.batch) : poster'.batch[i] = poster.batch[i]
          /\ poster'.batch[n] = h /\ Len(poster.batch) \in Nat
      <4>1. poster'.batch = Append(poster.batch, h)
        BY <1>6, <2>4
      <4> QED
        BY <1>3, <1>5, <4>1, AppendTo
    <3>2. DOMAIN poster'.batch = DOMAIN poster.batch \union {n}
      BY <3>1
    <3>3. \A i \in DOMAIN poster.batch : poster'.batch[i] = poster.batch[i]
      BY <3>1
    <3> HIDE DEF n
    <3>4. \A r \in DOMAIN fate' : fate'[r] = "taken" <=> \E i \in DOMAIN poster'.batch : poster'.batch[i] = r
      <4>1. ASSUME NEW r \in DOMAIN fate', fate'[r] = "taken"
            PROVE  \E i \in DOMAIN poster'.batch : poster'.batch[i] = r
        <5>1. CASE r = h
          BY <3>1, <3>2, <5>1
        <5>2. CASE r # h
          <6>1. PICK i \in DOMAIN poster.batch : poster.batch[i] = r
            BY <1>3, <2>2, <4>1, <5>2
          <6> QED
            BY <3>2, <3>3, <6>1
        <5> QED
          BY <5>1, <5>2
      <4>2. ASSUME NEW r \in DOMAIN fate', NEW i \in DOMAIN poster'.batch, poster'.batch[i] = r
            PROVE  fate'[r] = "taken"
        <5>1. CASE i = n
          BY <1>3, <3>1, <4>2, <5>1
        <5>2. CASE i # n
          <6>1. i \in DOMAIN poster.batch /\ poster.batch[i] = r /\ r \in DOMAIN fate
            BY <1>3, <3>2, <3>3, <4>2, <5>2
          <6> QED
            BY <1>3, <2>2, <6>1
        <5> QED
          BY <5>1, <5>2
      <4> QED
        BY <4>1, <4>2
    <3>5. \A i \in DOMAIN poster'.batch : poster'.batch[i] \in DOMAIN fate'
      BY <1>3, <2>2, <2>4, <3>1, <3>2, <3>3
    <3> QED
      BY <1>8, <3>4, <3>5 DEF InBatch
  <2> QED
    BY <2>3, <2>4
<1> QED
  BY <1>3, <1>7, <1>8, <1>9 DEF QueueInv

LEMMA PostInv == ASSUME QueueInv, Post PROVE QueueInv'
<1>1. PICK outcome \in {"posted", "failed"} :
        fate' = [r \in DOMAIN fate |-> IF r \in ToSet(poster.batch) THEN outcome ELSE fate[r]]
  BY DEF Post
<1>2. /\ poster.at = "posting" /\ unfinished' = unfinished - 1
      /\ poster' = [at |-> IF poster.stopping THEN "returned" ELSE "getting", batch |-> <<>>, stopping |-> FALSE]
      /\ UNCHANGED <<sink, outbox, putting, flush>>
  BY DEF Post
<1>3. /\ poster'.at \in {"returned", "getting"} /\ poster'.batch = <<>>
      /\ poster' \in [at : {"starting", "broken", "getting", "gathering", "posting", "returned"},
                      batch : Seq(Nat), stopping : BOOLEAN]
  BY <1>2
<1>4. \A r \in DOMAIN fate : r \in ToSet(poster.batch) <=> fate[r] = "taken"
  BY DEF QueueInv, InBatch, ToSet
<1>5. /\ DOMAIN fate' = DOMAIN fate
      /\ \A r \in DOMAIN fate : fate'[r] = IF fate[r] = "taken" THEN outcome ELSE fate[r]
  BY <1>1, <1>4
<1>6. fate' \in Seq(Fates)
  <2>1. fate \in Seq(Fates) /\ outcome \in Fates
    BY DEF QueueInv, QueueTypes, Fates
  <2>2. fate' \in [1..Len(fate) -> Fates]
    BY <1>1, <2>1
  <2> QED
    BY <2>1, <2>2
<1>7. unfinished = Len(outbox) + 1 /\ outbox \in Seq(Nat) /\ ~Posting'
  BY <1>2, <1>3 DEF Posting, QueueInv, QueueTypes, CountsWhatWaits
<1>8. QueueTypes'
  BY <1>2, <1>3, <1>5, <1>6, <1>7 DEF QueueInv, QueueTypes
<1>9. CountsWhatWaits'
  BY <1>2, <1>7 DEF CountsWhatWaits
<1>10. FlushCovers'
  BY <1>2, <1>5, CoversKept
<1>11. InHand' /\ InQueue'
  <2>1. InHand'
    BY <1>2, <1>5 DEF QueueInv, QueueTypes, InHand
  <2>2. InQueue'
    BY <1>2, <1>5 DEF QueueInv, InQueue
  <2> QED
    BY <2>1, <2>2
<1>12. InBatch'
  BY <1>3, <1>5, <1>7 DEF InBatch
<1> QED
  BY <1>8, <1>9, <1>10, <1>11, <1>12 DEF QueueInv

\* A flush covers what waits; a join that returns finds nothing in the queue and no batch.
LEMMA FlushInv == ASSUME QueueInv, Flush \/ Shutdown \/ FlushReturns PROVE QueueInv'
<1>1. UNCHANGED <<sink, outbox, unfinished, putting, fate, poster>>
  BY DEF Flush, Shutdown, FlushReturns
<1>2. InHand' /\ InQueue' /\ InBatch' /\ CountsWhatWaits'
  BY <1>1 DEF QueueInv, InHand, InQueue, InBatch, CountsWhatWaits, Posting
<1>3. CASE Flush \/ Shutdown
  <2>1. flush' = [at |-> "waiting", covers |-> {r \in DOMAIN fate : fate[r] \in {"queued", "taken"}}]
    BY <1>3 DEF Flush, Shutdown, BeginFlush
  <2>2. QueueTypes'
    BY <1>1, <2>1 DEF QueueInv, QueueTypes
  <2>3. FlushCovers'
    BY <1>1, <2>1 DEF FlushCovers
  <2> QED
    BY <1>2, <2>2, <2>3 DEF QueueInv
<1>4. CASE FlushReturns
  <2>1. PICK at \in {"true", "false"} : flush' = [flush EXCEPT !.at = at] /\ (at = "true" => unfinished = 0)
    BY <1>4 DEF FlushReturns
  <2>2. QueueTypes' /\ flush'.at = at /\ flush'.covers = flush.covers
    BY <1>1, <2>1 DEF QueueInv, QueueTypes
  <2>3. at = "true" => \A r \in DOMAIN fate : fate[r] \notin {"queued", "taken"}
    <3>1. at = "true" => Len(outbox) = 0 /\ ~Posting /\ outbox \in Seq(Nat)
      BY <2>1 DEF QueueInv, QueueTypes, CountsWhatWaits
    <3>2. at = "true" => DOMAIN outbox = {} /\ poster.batch = <<>>
      BY <3>1 DEF QueueInv, InBatch
    <3> QED
      BY <3>2 DEF QueueInv, InQueue, InBatch
  <2>4. FlushCovers'
    BY <1>1, <2>2, <2>3 DEF QueueInv, QueueTypes, FlushCovers, Settled
  <2> QED
    BY <1>2, <2>2, <2>4 DEF QueueInv
<1> QED
  BY <1>3, <1>4

LEMMA PutStopInv == ASSUME QueueInv, PutStop \/ PutStopAgain PROVE QueueInv'
<1>1. UNCHANGED <<sink, putting, poster, flush>>
  BY DEF PutStop, PutStopAgain
<1>2. Posting' <=> Posting
  BY <1>1 DEF Posting
<1>3. \/ outbox' = Append(outbox, StopToken) /\ unfinished' = unfinished + 1 /\ fate' = fate
      \/ UNCHANGED <<outbox, unfinished, fate>>
      \/ /\ Full /\ outbox' = Tail(outbox) /\ unfinished' = unfinished - 1
         /\ fate' = [fate EXCEPT ![Head(outbox)] = "evicted"]
  BY DEF PutStop, PutStopAgain
<1>4. unfinished = Len(outbox) + (IF Posting THEN 1 ELSE 0) /\ unfinished \in Nat /\ outbox \in Seq(Nat)
  BY DEF QueueInv, QueueTypes, CountsWhatWaits
<1>5. CASE outbox' = Append(outbox, StopToken) /\ unfinished' = unfinished + 1 /\ fate' = fate
  <2>1. /\ outbox' \in Seq(Nat) /\ Len(outbox) \in Nat /\ Len(outbox') = Len(outbox) + 1
        /\ InHand' /\ InQueue' /\ FlushCovers'
    BY <1>1, <1>5, StopQueued
  <2>2. QueueTypes'
    BY <1>1, <1>4, <1>5, <2>1 DEF QueueInv, QueueTypes
  <2>3. InBatch' /\ CountsWhatWaits'
    BY <1>1, <1>2, <1>4, <1>5, <2>1 DEF QueueInv, InBatch, CountsWhatWaits
  <2> QED
    BY <2>1, <2>2, <2>3 DEF QueueInv
<1>6. CASE UNCHANGED <<outbox, unfinished, fate>>
  BY <1>1, <1>2, <1>6 DEF QueueInv, QueueTypes, InHand, InQueue, InBatch, CountsWhatWaits, FlushCovers, Settled
<1>7. CASE /\ Full /\ outbox' = Tail(outbox) /\ unfinished' = unfinished - 1
           /\ fate' = [fate EXCEPT ![Head(outbox)] = "evicted"]
  <2>1. outbox # <<>>
    <3>1. Len(outbox) >= 1
      BY <1>4, <1>7, QueueBounds DEF Full
    <3> QED
      BY <1>4, <3>1
  <2>2. Head(outbox) = StopToken => fate' = fate
    BY <1>7 DEF QueueInv, QueueTypes, StopToken
  <2>3. fate' = IF Head(outbox) = StopToken THEN fate ELSE [fate EXCEPT ![Head(outbox)] = "evicted"]
    BY <1>7, <2>2
  <2>4. /\ outbox' \in Seq(Nat) /\ Len(outbox) \in Nat \ {0} /\ Len(outbox') = Len(outbox) - 1
        /\ fate' \in Seq(Fates) /\ DOMAIN fate' = DOMAIN fate /\ Head(outbox) \in Nat
        /\ \A r \in DOMAIN fate : fate'[r] = IF r = Head(outbox) THEN "evicted" ELSE fate[r]
        /\ Head(outbox) = StopToken \/ (Head(outbox) \in DOMAIN fate /\ fate[Head(outbox)] = "queued")
        /\ InHand' /\ InQueue' /\ FlushCovers'
    BY <1>1, <1>7, <2>1, <2>3, Dequeued, ZenonT(60)
  <2>5. QueueTypes'
    <3>1. unfinished' = unfinished - 1 /\ unfinished \in Nat /\ Len(outbox) \in Nat \ {0}
      BY <1>4, <1>7, <2>4
    <3>2. unfinished >= Len(outbox)
      BY <1>4, <3>1
    <3>3. unfinished' \in Nat
      BY <3>1, <3>2
    <3> QED
      BY <1>1, <2>4, <3>3, SMTT(30) DEF QueueInv, QueueTypes
  <2>6. CountsWhatWaits'
    <3> DEFINE one == IF Posting THEN 1 ELSE 0
    <3>1. one' = one /\ one \in {0, 1} /\ unfinished = Len(outbox) + one
      BY <1>2, <1>4
    <3> HIDE DEF one
    <3>2. unfinished' = Len(outbox') + one
      BY <1>7, <2>4, <3>1
    <3> QED
      BY <3>1, <3>2 DEF CountsWhatWaits, one
  <2>7. \A r \in DOMAIN fate : fate'[r] = "taken" <=> fate[r] = "taken"
    <3>1. StopToken \notin DOMAIN fate
      BY DEF QueueInv, QueueTypes, StopToken
    <3> QED
      BY <2>4, <3>1
  <2>8. InBatch'
    BY <1>1, <1>2, <2>4, <2>7 DEF QueueInv, InBatch
  <2> QED
    BY <2>4, <2>5, <2>6, <2>8 DEF QueueInv
<1> QED
  BY <1>3, <1>5, <1>6, <1>7

LEMMA QueueInductive == QueueInv /\ [QueueNext]_queueVars => QueueInv'
<1> SUFFICES ASSUME QueueInv, [QueueNext]_queueVars PROVE QueueInv'
  OBVIOUS
<1>1. CASE UNCHANGED queueVars
  BY <1>1 DEF queueVars, QueueInv, QueueTypes, InHand, InQueue, InBatch, CountsWhatWaits, FlushCovers, Settled, Posting
<1> QED
  BY <1>1, EmitInv, PutInv, WorkerStartsInv, WorkerGetsInv, WorkerGathersInv, PostInv, FlushInv, PutStopInv
     DEF QueueNext, QueueSystem

LEMMA QueueImplies == QueueInv => FlushMeansPosted
<1> SUFFICES ASSUME QueueInv PROVE FlushMeansPosted
  OBVIOUS
<1>1. poster.at = "returned" => ~Posting
  BY DEF Posting
<1>2. poster.at = "returned" => poster.batch = <<>>
  BY <1>1 DEF QueueInv, InBatch
<1> QED
  BY <1>2 DEF QueueInv, InBatch, FlushCovers, FlushMeansPosted

-----------------------------------------------------------------------------
(* The spans of a run, for any tree of them, any mode and any order in which the  *)
(* collector answers, fails, and the batches of Google Cloud leave.               *)

SpanEnds == {"open", "returned", "raised", "cancelled", "paused", "reported"}
States == {"running", "success", "error", "unknown"}
Shown(s) == DevUi /\ ~tracedRun.ignored /\ Kind(s) # "prompt"

TraceTypes ==
  /\ tracedRun \in Runs
  /\ span \in [Spans -> {"none"} \union SpanEnds]
  /\ held \in SUBSET Spans
  /\ docs \in Seq([span : Spans, state : States])
  /\ collector \in [Spans -> {"nothing"} \union States]
  /\ DOMAIN cloud = Spans

\* The newest document of a span tells how the span is now, and so does the collector when it has it.
Newest(i) == \A j \in DOMAIN docs : docs[j].span = docs[i].span => j <= i
NewestTells ==
  /\ \A i \in DOMAIN docs : Newest(i) => docs[i].state = StateOf(span[docs[i].span])
  /\ \A s \in Spans :
       Shown(s) /\ span[s] # "none" /\ ~Waiting(s) /\ s \notin missed => collector[s] = StateOf(span[s])

\* Documents are of spans that began and may be shown, and a failure stays one.
NothingFalse ==
  /\ \A i \in DOMAIN docs : /\ Shown(docs[i].span) /\ span[docs[i].span] # "none"
                            /\ docs[i].state = "error" => span[docs[i].span] \in {"raised", "reported"}
  /\ \A s \in Spans : /\ collector[s] = "error" => span[s] \in {"raised", "reported"}
                      /\ collector[s] # "nothing" => Shown(s)

\* In production a span is counted when its batch has gone.
CountedOnce ==
  /\ \A s \in held : Ended(s)
  /\ tracedRun.mode = "prod" => \A s \in Spans :
       counts[s] = IF Ended(s) /\ s \notin held THEN Counted(s, span[s]) ELSE <<>>

\* What Google Cloud was sent of a span was sent with all that goes with it.
SentWhole ==
  \A s \in Spans : \A r \in cloud[s] :
    \E ending \in SpanEnds : r \in SentToCloud(s, ending) /\ SentToCloud(s, ending) \subseteq cloud[s]

TraceInv == TraceTypes /\ NewestTells /\ NothingFalse /\ CountedOnce /\ SentWhole

Documents == [span : Spans, state : States]

LEMMA ElementsOf == ASSUME NEW S, NEW s \in Seq(S) PROVE \A i \in DOMAIN s : s[i] \in S
OBVIOUS

LEMMA SpansMean ==
  ASSUME NEW s \in Spans, NEW ending \in SpanEnds
  PROVE  /\ StateOf(ending) \in States
         /\ StateOf(ending) = "error" => ending \in {"raised", "reported"}
         /\ Document(s, ending) \in Documents /\ Document(s, ending).span = s
         /\ Document(s, ending).state = StateOf(ending)
BY DEF SpanEnds, States, StateOf, Document, Documents

\* What depends on the run alone.
LEMMA RunStays ==
  ASSUME UNCHANGED tracedRun, NEW s, NEW ending
  PROVE  /\ Kind(s)' = Kind(s) /\ Shown(s)' = Shown(s) /\ DevUi' = DevUi
         /\ SentToCloud(s, ending)' = SentToCloud(s, ending) /\ Counted(s, ending)' = Counted(s, ending)
BY DEF Kind, Shown, DevUi, SentToCloud, Counted, Entries, ModelEntries, ActionEntries, Private,
       Adjusted, MarkedModel, MarkedError, Redacted, Attributes

LEMMA TraceInitInv == TraceInit => TraceInv
<1> SUFFICES ASSUME TraceInit PROVE TraceInv
  OBVIOUS
<1>1. /\ tracedRun \in Runs /\ span = [s \in Spans |-> "none"] /\ collector = [s \in Spans |-> "nothing"]
      /\ held = {} /\ docs = <<>> /\ counts = [s \in Spans |-> <<>>] /\ cloud = [s \in Spans |-> {}]
  BY DEF TraceInit
<1>2. TraceTypes
  BY <1>1 DEF TraceTypes
<1>3. DOMAIN docs = {} /\ \A s \in Spans : span[s] = "none" /\ collector[s] = "nothing" /\ ~Ended(s)
  BY <1>1 DEF Ended
<1>4. NewestTells /\ NothingFalse
  BY <1>3 DEF NewestTells, NothingFalse
<1>5. CountedOnce /\ SentWhole
  BY <1>1, <1>3 DEF CountedOnce, SentWhole
<1> QED
  BY <1>2, <1>4, <1>5 DEF TraceInv

\* What one span's new state adds to the queue.
LEMMA DocumentAdded ==
  ASSUME TraceTypes, NEW s \in Spans, NEW ending \in SpanEnds, docs' = docs \o Exported(s, ending)
  PROVE  /\ docs' \in Seq(Documents) /\ Len(docs) \in Nat /\ DOMAIN docs = 1..Len(docs)
         /\ \A i \in DOMAIN docs : i \in DOMAIN docs' /\ docs'[i] = docs[i]
         /\ ~Shown(s) => docs' = docs
         /\ Shown(s) => /\ DOMAIN docs' = DOMAIN docs \union {Len(docs) + 1}
                        /\ docs'[Len(docs) + 1] = Document(s, ending)
<1>1. docs \in Seq(Documents) /\ Document(s, ending) \in Documents
  BY SpansMean DEF TraceTypes, Documents
<1>2. CASE Shown(s)
  <2>1. docs' = docs \o <<Document(s, ending)>>
    BY <1>2 DEF Shown, Exported
  <2>2. docs' = Append(docs, Document(s, ending))
    BY <1>1, <2>1
  <2> QED
    BY <1>1, <1>2, <2>2
<1>3. CASE ~Shown(s)
  <2>1. docs' = docs \o <<>>
    BY <1>3 DEF Shown, Exported
  <2>2. docs' = docs
    BY <1>1, <2>1
  <2> QED
    BY <1>1, <1>3, <2>2
<1> QED
  BY <1>2, <1>3

\* What a span's new state sends to Google Cloud.
LEMMA SentNow ==
  ASSUME TraceInv, UNCHANGED tracedRun, NEW s \in Spans, NEW ending \in SpanEnds, CountedNow(s, ending)
  PROVE  DOMAIN cloud' = Spans /\ SentWhole' /\ (tracedRun.mode = "prod" => counts' = counts)
<1>1. cloud' = cloud \/ cloud' = [cloud EXCEPT ![s] = @ \union SentToCloud(s, ending)]
  BY DEF CountedNow
<1>2. DOMAIN cloud = Spans
  BY DEF TraceInv, TraceTypes
<1>3. ASSUME NEW u \in Spans, NEW r \in cloud'[u]
      PROVE  \E e \in SpanEnds : r \in SentToCloud(u, e) /\ SentToCloud(u, e) \subseteq cloud'[u]
  <2>1. cloud[u] \subseteq cloud'[u]
    BY <1>1, <1>2
  <2>2. CASE r \in cloud[u]
    BY <2>1, <2>2 DEF TraceInv, SentWhole
  <2>3. CASE r \notin cloud[u]
    BY <1>1, <1>2, <1>3, <2>3
  <2> QED
    BY <2>2, <2>3
<1>4. SentWhole'
  BY <1>3, RunStays DEF SentWhole
<1>5. tracedRun.mode = "prod" => counts' = counts
  BY DEF CountedNow
<1> QED
  BY <1>1, <1>2, <1>4, <1>5

\* A span opens, or ends.
LEMMA SpanMovesInv ==
  ASSUME TraceInv, NEW s \in Spans, NEW ending \in SpanEnds,
         IF ending = "open" THEN span[s] = "none" ELSE span[s] = "open",
         span' = [span EXCEPT ![s] = ending], docs' = docs \o Exported(s, ending),
         held' = IF ending # "open" /\ tracedRun.mode = "prod" THEN held \union {s} ELSE held,
         CountedNow(s, ending), UNCHANGED <<tracedRun, collector, missed>>
  PROVE  TraceInv'
<1>1. TraceTypes /\ span[s] \in {"none", "open"} /\ span \in [Spans -> {"none"} \union SpanEnds]
  BY DEF TraceInv, TraceTypes
<1>2. /\ docs' \in Seq(Documents) /\ Len(docs) \in Nat /\ DOMAIN docs = 1..Len(docs)
      /\ \A i \in DOMAIN docs : i \in DOMAIN docs' /\ docs'[i] = docs[i]
      /\ ~Shown(s) => docs' = docs
      /\ Shown(s) => /\ DOMAIN docs' = DOMAIN docs \union {Len(docs) + 1}
                     /\ docs'[Len(docs) + 1] = Document(s, ending)
  BY <1>1, DocumentAdded, SMTT(30)
<1>3. /\ StateOf(ending) = "error" => ending \in {"raised", "reported"}
      /\ Document(s, ending).span = s /\ Document(s, ending).state = StateOf(ending)
  BY SpansMean
<1>4. \A u \in Spans : span'[u] = IF u = s THEN ending ELSE span[u]
  BY <1>1
<1>5. ending # "none"
  BY ZenonT(60) DEF SpanEnds
<1>6. TraceTypes'
  BY <1>1, <1>2, SentNow, ZenonT(60) DEF TraceTypes, Documents
<1>7. \A i \in DOMAIN docs : docs[i].span \in Spans
  <2>1. docs \in Seq(Documents)
    BY <1>1 DEF TraceTypes, Documents
  <2>2. \A i \in DOMAIN docs : docs[i] \in Documents
    BY <2>1, ElementsOf
  <2>3. \A d \in Documents : d.span \in Spans
    BY DEF Documents
  <2> QED
    BY <2>2, <2>3
<1> DEFINE n == Len(docs) + 1
<1>8. NewestTells'
  <2>1. ASSUME NEW i \in DOMAIN docs', Newest(i)'
        PROVE  docs'[i].state = StateOf(span'[docs'[i].span])
    <3>1. CASE Shown(s) /\ i = n
      BY <1>2, <1>3, <1>4, <3>1
    <3>2. CASE ~(Shown(s) /\ i = n)
      <4>1. i \in DOMAIN docs /\ docs'[i] = docs[i]
        BY <1>2, <3>2, ZenonT(60)
      <4>2. Newest(i)
        BY <1>2, <2>1, <4>1, ZenonT(60) DEF Newest
      <4>3. docs[i].span # s
        <5>1. CASE Shown(s)
          <6>1. n \in DOMAIN docs' /\ docs'[n].span = s /\ ~(n <= i)
            BY <1>2, <1>3, <4>1, <5>1
          <6> QED
            BY <2>1, <4>1, <6>1 DEF Newest
        <5>2. CASE ~Shown(s)
          BY <4>1, <5>2 DEF TraceInv, NothingFalse
        <5> QED
          BY <5>1, <5>2
      <4>4. docs[i].state = StateOf(span[docs[i].span])
        BY <4>1, <4>2 DEF TraceInv, NewestTells
      <4> QED
        BY <1>4, <1>7, <4>1, <4>3, <4>4
    <3> QED
      BY <3>1, <3>2
  <2>2. ASSUME NEW u \in Spans, Shown(u), span'[u] # "none", ~Waiting(u)', u \notin missed
        PROVE  collector[u] = StateOf(span'[u])
    <3>1. u # s
      <4>1. Shown(s) => n \in DOMAIN docs' /\ docs'[n].span = s
        BY <1>2, <1>3, SMTT(30)
      <4> QED
        BY <2>2, <4>1, SMTT(30) DEF Waiting
    <3>2. ~Waiting(u)
      BY <1>2, <2>2, ZenonT(60) DEF Waiting
    <3> QED
      BY <1>4, <2>2, <3>1, <3>2 DEF TraceInv, NewestTells
  <2> QED
    BY <2>1, <2>2, RunStays DEF NewestTells
<1>9. NothingFalse'
  <2>1. ASSUME NEW i \in DOMAIN docs'
        PROVE  /\ Shown(docs'[i].span) /\ span'[docs'[i].span] # "none"
               /\ docs'[i].state = "error" => span'[docs'[i].span] \in {"raised", "reported"}
    <3>1. CASE Shown(s) /\ i = n
      BY <1>2, <1>3, <1>4, <1>5, <3>1
    <3>2. CASE ~(Shown(s) /\ i = n)
      <4>1. i \in DOMAIN docs /\ docs'[i] = docs[i]
        BY <1>2, <3>2
      <4>2. /\ Shown(docs[i].span) /\ span[docs[i].span] # "none"
            /\ docs[i].state = "error" => span[docs[i].span] \in {"raised", "reported"}
        BY <4>1 DEF TraceInv, NothingFalse
      <4> QED
        BY <1>1, <1>4, <1>5, <1>7, <4>1, <4>2
    <3> QED
      BY <3>1, <3>2
  <2>2. \A u \in Spans : /\ collector[u] = "error" => span'[u] \in {"raised", "reported"}
                         /\ collector[u] # "nothing" => Shown(u)
    BY <1>1, <1>4 DEF TraceInv, NothingFalse
  <2> QED
    BY <2>1, <2>2, RunStays DEF NothingFalse
<1>10. CountedOnce'
  <2>1. s \notin held
    BY <1>1 DEF TraceInv, CountedOnce, Ended
  <2>2. \A u \in Spans : Ended(u)' <=> IF u = s THEN ending # "open" ELSE Ended(u)
    BY <1>4, <1>5 DEF Ended
  <2>3. held \subseteq Spans
    BY <1>1 DEF TraceTypes
  <2>4. \A u \in held' : Ended(u)'
    BY <2>1, <2>2, <2>3 DEF TraceInv, CountedOnce
  <2>5. ASSUME tracedRun.mode = "prod", NEW u \in Spans
        PROVE  counts'[u] = IF Ended(u)' /\ u \notin held' THEN Counted(u, span'[u]) ELSE <<>>
    <3>1. counts' = counts /\ counts[u] = IF Ended(u) /\ u \notin held THEN Counted(u, span[u]) ELSE <<>>
      BY <2>5, SentNow DEF TraceInv, CountedOnce
    <3>2. CASE u = s
      BY <1>1, <2>2, <2>5, <3>1, <3>2 DEF Ended
    <3>3. CASE u # s
      BY <1>4, <2>2, <2>5, <3>1, <3>3
    <3> QED
      BY <3>2, <3>3
  <2> QED
    BY <2>4, <2>5, RunStays DEF CountedOnce
<1> QED
  BY <1>6, <1>8, <1>9, <1>10, SentNow DEF TraceInv

LEMMA ExportBatchInv == ASSUME TraceInv, ExportBatch PROVE TraceInv'
<1>1. /\ held' = {} /\ UNCHANGED <<tracedRun, span, docs, collector, missed>>
      /\ counts' = [s \in Spans |-> IF s \in held THEN counts[s] \o Counted(s, span[s]) ELSE counts[s]]
      /\ cloud' = [s \in Spans |-> IF s \in held THEN cloud[s] \union SentToCloud(s, span[s]) ELSE cloud[s]]
  BY DEF ExportBatch
<1>2. TraceTypes'
  BY <1>1 DEF TraceInv, TraceTypes
<1>3. NewestTells' /\ NothingFalse'
  BY <1>1, RunStays DEF TraceInv, NewestTells, Newest, NothingFalse, Waiting
<1>4. CountedOnce'
  <2>1. ASSUME tracedRun.mode = "prod", NEW s \in Spans
        PROVE  counts'[s] = IF Ended(s) THEN Counted(s, span[s]) ELSE <<>>
    <3>1. counts[s] = IF Ended(s) /\ s \notin held THEN Counted(s, span[s]) ELSE <<>>
      BY <2>1 DEF TraceInv, CountedOnce
    <3>2. CASE s \in held
      <4>1. counts[s] = <<>> /\ Ended(s)
        BY <3>1, <3>2 DEF TraceInv, CountedOnce
      <4>2. counts'[s] = <<>> \o Counted(s, span[s])
        BY <1>1, <3>2, <4>1
      <4>3. <<>> \o Counted(s, span[s]) = Counted(s, span[s])
        <5>1. Counted(s, span[s]) = <<>> \/ Counted(s, span[s]) = <<"failure">> \/ Counted(s, span[s]) = <<"success">>
          BY DEF Counted
        <5>2. <<>> \o <<>> = <<>> /\ <<>> \o <<"failure">> = <<"failure">> /\ <<>> \o <<"success">> = <<"success">>
          OBVIOUS
        <5> QED
          BY <5>1, <5>2
      <4> QED
        BY <4>1, <4>2, <4>3
    <3>3. CASE s \notin held
      BY <1>1, <3>1, <3>3
    <3> QED
      BY <3>2, <3>3
  <2> QED
    BY <1>1, <2>1, RunStays DEF CountedOnce, Ended
<1>5. SentWhole'
  <2>1. ASSUME NEW s \in Spans, NEW r \in cloud'[s]
        PROVE  \E ending \in SpanEnds : r \in SentToCloud(s, ending) /\ SentToCloud(s, ending) \subseteq cloud'[s]
    <3>1. cloud[s] \subseteq cloud'[s]
      BY <1>1
    <3>2. CASE r \in cloud[s]
      BY <3>1, <3>2 DEF TraceInv, SentWhole
    <3>3. CASE r \notin cloud[s]
      <4>1. s \in held /\ r \in SentToCloud(s, span[s]) /\ SentToCloud(s, span[s]) \subseteq cloud'[s]
        BY <1>1, <2>1, <3>3
      <4>2. span[s] \in SpanEnds
        BY <4>1 DEF TraceInv, TraceTypes, CountedOnce, Ended
      <4> QED
        BY <4>1, <4>2
    <3> QED
      BY <3>2, <3>3
  <2> QED
    BY <1>1, <2>1, RunStays DEF SentWhole
<1> QED
  BY <1>2, <1>3, <1>4, <1>5 DEF TraceInv

\* The oldest document is posted, or lost.
LEMMA WorkerPostsInv == ASSUME TraceInv, PostDocument \/ PostFails PROVE TraceInv'
<1> DEFINE h == Head(docs)
<1>1. /\ docs # <<>> /\ docs' = Tail(docs) /\ UNCHANGED <<tracedRun, span, held, counts, cloud>>
      /\ \/ collector' = [collector EXCEPT ![h.span] = h.state] /\ missed' = missed
         \/ collector' = collector /\ missed' = missed \union {h.span}
  BY DEF PostDocument, PostFails
<1>2. docs \in Seq(Documents)
  BY DEF TraceInv, TraceTypes, Documents
<1>3. /\ Len(docs) \in Nat \ {0} /\ DOMAIN docs = 1..Len(docs) /\ h = docs[1] /\ h \in Documents
      /\ docs' \in Seq(Documents) /\ DOMAIN docs' = 1..(Len(docs) - 1)
      /\ \A i \in 1..(Len(docs) - 1) : docs'[i] = docs[i + 1]
  BY <1>1, <1>2
<1>4. /\ \A i \in DOMAIN docs' : i + 1 \in DOMAIN docs /\ docs'[i] = docs[i + 1] /\ i \in Nat
      /\ \A j \in DOMAIN docs : j = 1 \/ (j - 1 \in DOMAIN docs' /\ docs'[j - 1] = docs[j] /\ j \in Nat)
  BY <1>3
<1>5. h.span \in Spans /\ h.state \in States /\ 1 \in DOMAIN docs
  BY <1>3 DEF Documents
<1> HIDE DEF h
<1>6. TraceTypes'
  BY <1>1, <1>3, <1>5 DEF TraceInv, TraceTypes, Documents
<1>7. \A u \in Spans : collector'[u] = collector[u] \/ (u = h.span /\ collector'[u] = h.state)
  BY <1>1 DEF TraceInv, TraceTypes
<1>8. NothingFalse'
  <2>1. ASSUME NEW i \in DOMAIN docs'
        PROVE  /\ Shown(docs'[i].span) /\ span[docs'[i].span] # "none"
               /\ docs'[i].state = "error" => span[docs'[i].span] \in {"raised", "reported"}
    BY <1>4 DEF TraceInv, NothingFalse
  <2>2. Shown(h.span) /\ (h.state = "error" => span[h.span] \in {"raised", "reported"})
    BY <1>3, <1>5 DEF TraceInv, NothingFalse
  <2>3. \A u \in Spans : /\ collector'[u] = "error" => span[u] \in {"raised", "reported"}
                         /\ collector'[u] # "nothing" => Shown(u)
    BY <1>7, <2>2 DEF TraceInv, NothingFalse
  <2> QED
    BY <1>1, <2>1, <2>3, RunStays DEF NothingFalse
<1>9. NewestTells'
  <2>1. ASSUME NEW i \in DOMAIN docs', Newest(i)'
        PROVE  docs'[i].state = StateOf(span[docs'[i].span])
    <3>1. i + 1 \in DOMAIN docs /\ docs'[i] = docs[i + 1] /\ i \in Nat
      BY <1>4
    <3>2. ASSUME NEW j \in DOMAIN docs, docs[j].span = docs[i + 1].span PROVE j <= i + 1
      <4>1. CASE j = 1
        BY <3>1, <4>1
      <4>2. CASE j # 1
        <5>1. j - 1 \in DOMAIN docs' /\ docs'[j - 1] = docs[j] /\ j \in Nat
          BY <1>4, <4>2
        <5>2. j - 1 <= i
          BY <2>1, <3>1, <3>2, <5>1 DEF Newest
        <5> QED
          BY <3>1, <5>1, <5>2
      <4> QED
        BY <4>1, <4>2
    <3>3. Newest(i + 1)
      BY <3>2 DEF Newest
    <3> QED
      BY <3>1, <3>3 DEF TraceInv, NewestTells
  <2>2. ASSUME NEW u \in Spans, Shown(u), span[u] # "none", ~Waiting(u)', u \notin missed'
        PROVE  collector'[u] = StateOf(span[u])
    <3>1. \A j \in DOMAIN docs : docs[j].span = u => j = 1
      BY <1>4, <2>2 DEF Waiting
    <3>2. CASE u = h.span
      <4>1. Newest(1)
        BY <1>3, <3>1, <3>2 DEF Newest
      <4>2. h.state = StateOf(span[u])
        BY <1>3, <1>5, <3>2, <4>1 DEF TraceInv, NewestTells
      <4>3. collector'[u] = h.state
        BY <1>1, <1>5, <2>2, <3>2 DEF TraceInv, TraceTypes
      <4> QED
        BY <4>2, <4>3
    <3>3. CASE u # h.span
      <4>1. ~Waiting(u)
        BY <1>3, <3>1, <3>3 DEF Waiting
      <4>2. collector'[u] = collector[u] /\ u \notin missed
        BY <1>1, <1>7, <2>2, <3>3
      <4> QED
        BY <2>2, <4>1, <4>2 DEF TraceInv, NewestTells
    <3> QED
      BY <3>2, <3>3
  <2> QED
    BY <1>1, <2>1, <2>2, RunStays DEF NewestTells
<1>10. CountedOnce' /\ SentWhole'
  BY <1>1, RunStays DEF TraceInv, CountedOnce, Ended, SentWhole
<1> QED
  BY <1>6, <1>8, <1>9, <1>10 DEF TraceInv

LEMMA TraceInductive == TraceInv /\ [TraceNext]_traceVars => TraceInv'
<1> SUFFICES ASSUME TraceInv, [TraceNext]_traceVars PROVE TraceInv'
  OBVIOUS
<1>1. ASSUME NEW s \in Spans, Open(s) PROVE TraceInv'
  BY <1>1, SpanMovesInv DEF Open, SpanEnds
<1>2. ASSUME NEW s \in Spans, NEW ending \in Endings(s), End(s, ending) PROVE TraceInv'
  <2>1. ending \in SpanEnds /\ ending # "open"
    BY DEF Endings, SpanEnds
  <2> QED
    BY <1>2, <2>1, SpanMovesInv DEF End
<1>3. CASE UNCHANGED traceVars
  <2>1. UNCHANGED <<tracedRun, span, held, docs, collector, missed, lossSaid, counts, cloud>>
    BY <1>3 DEF traceVars
  <2>2. TraceTypes' /\ NewestTells' /\ NothingFalse'
    BY <2>1, RunStays DEF TraceInv, TraceTypes, NewestTells, Newest, NothingFalse, Waiting
  <2>3. CountedOnce' /\ SentWhole'
    BY <2>1, RunStays DEF TraceInv, CountedOnce, Ended, SentWhole
  <2> QED
    BY <2>2, <2>3 DEF TraceInv
<1> QED
  BY <1>1, <1>2, <1>3, ExportBatchInv, WorkerPostsInv DEF TraceNext, TraceSystem

LEMMA TracesTell == TraceInv => TracesTellTheRun
<1> SUFFICES ASSUME TraceInv, NEW s \in Spans
             PROVE  /\ DevUi /\ ~tracedRun.ignored /\ Kind(s) # "prompt" /\ span[s] # "none" /\ ~Waiting(s)
                         /\ s \notin missed => collector[s] = StateOf(span[s])
                    /\ collector[s] = "error" => span[s] \in {"raised", "reported"}
                    /\ collector[s] # "nothing" => ~tracedRun.ignored
                    /\ tracedRun.mode = "prod" /\ Kind(s) = "model" /\ span[s] \in {"returned", "raised"} /\ s \notin held
                         => counts[s] = <<IF span[s] = "raised" THEN "failure" ELSE "success">>
  BY DEF TracesTellTheRun
<1>1. /\ Shown(s) /\ span[s] # "none" /\ ~Waiting(s) /\ s \notin missed => collector[s] = StateOf(span[s])
      /\ collector[s] = "error" => span[s] \in {"raised", "reported"}
      /\ collector[s] # "nothing" => Shown(s)
  BY DEF TraceInv, NewestTells, NothingFalse
<1>2. tracedRun.mode = "prod" /\ Kind(s) = "model" /\ span[s] \in {"returned", "raised"} /\ s \notin held
        => counts[s] = <<IF span[s] = "raised" THEN "failure" ELSE "success">>
  BY DEF TraceInv, CountedOnce, Ended, Counted, Exception
<1> QED
  BY <1>1, <1>2 DEF Shown

LEMMA CloudIsTold == TraceInv => CloudIsToldWhatMayLeave
<1> SUFFICES ASSUME TraceInv, NEW s \in Spans, NEW r \in cloud[s]
             PROVE  /\ ~tracedRun.full => IF "entry" \in DOMAIN r THEN r.entry = "config"
                                          ELSE r.attributes \intersect {"input", "output"} = {}
                    /\ tracedRun.full /\ r.of = "returned" /\ Kind(s) \in {"model", "tool", "generate"} =>
                         \A e \in {"input", "output"} : [entry |-> e, of |-> "returned"] \in cloud[s]
                    /\ "attributes" \in DOMAIN r => ("/http/status_code" \in r.attributes <=> r.of = "raised")
  BY DEF CloudIsToldWhatMayLeave
<1>1. PICK ending \in SpanEnds : r \in SentToCloud(s, ending) /\ SentToCloud(s, ending) \subseteq cloud[s]
  BY DEF TraceInv, SentWhole
<1>2. Kind(s) \in {"generate", "prompt", "model", "tool", "flow"}
  BY RunsAssumption DEF TraceInv, TraceTypes, Kind
<1>3. r.of = ending
  BY <1>1 DEF SentToCloud
<1>4. ~tracedRun.full => Entries(s, ending) \subseteq {"config"}
  BY DEF Entries, ModelEntries, ActionEntries, Private
<1>5. Attributes(s, ending) \subseteq {"input", "output", "generate", "prompt", "model", "tool", "flow", "success", "error"}
  BY <1>2 DEF Attributes
<1>6. ~tracedRun.full => Adjusted(s, ending) \intersect {"input", "output"} = {}
  BY <1>5 DEF Adjusted, MarkedModel, MarkedError, Redacted
<1>7. "/http/status_code" \in Adjusted(s, ending) <=> ending = "raised"
  BY <1>5 DEF Adjusted, MarkedModel, MarkedError, Redacted, Exception
<1>8. tracedRun.full /\ ending = "returned" /\ Kind(s) \in {"model", "tool", "generate"} =>
        \A e \in {"input", "output"} : [entry |-> e, of |-> "returned"] \in SentToCloud(s, ending)
  <2>1. ending = "returned" => {"input", "output"} \subseteq Attributes(s, ending)
    BY DEF Attributes
  <2>2. tracedRun.full /\ ending = "returned" /\ Kind(s) \in {"model", "tool", "generate"} =>
          {"input", "output"} \subseteq Entries(s, ending)
    BY <2>1 DEF Entries, ModelEntries, ActionEntries, Private
  <2> QED
    BY <2>2 DEF SentToCloud
<1>9. CASE \E e \in Entries(s, ending) : r = [entry |-> e, of |-> ending]
  <2>1. PICK e \in Entries(s, ending) : r = [entry |-> e, of |-> ending]
    BY <1>9
  <2>2. DOMAIN r = {"entry", "of"} /\ r.entry = e
    BY <2>1
  <2> QED
    BY <1>1, <1>3, <1>4, <1>8, <2>2
<1>10. CASE r = [attributes |-> Adjusted(s, ending), of |-> ending]
  <2>1. DOMAIN r = {"attributes", "of"} /\ r.attributes = Adjusted(s, ending)
    BY <1>10
  <2> QED
    BY <1>1, <1>3, <1>6, <1>7, <1>8, <2>1
<1> QED
  BY <1>1, <1>9, <1>10 DEF SentToCloud

(* A flush that answers true left nothing behind; once nothing of it waits, the  *)
(* collector shows every span as it is, unless a document of it was lost; no pause *)
(* or unfinished work looks failed; in production a model call is counted once;   *)
(* and what may not leave does not, in any log entry or attribute.  The code:     *)
(* TraceServerExporter, LogServerExporter, RealtimeSpanProcessor,                 *)
(* record_span_outcome, AdjustingTraceExporter.                                   *)
THEOREM TelemetryTellsTheRunHolds == TelemetrySpec => []TelemetryTellsTheRun
<1>1. TraceInit /\ QueueInit => TraceInv /\ QueueInv
  BY TraceInitInv, QueueInitInv
<1>2. ASSUME TraceInv, QueueInv,
             [(TraceNext /\ UNCHANGED queueVars) \/ (QueueNext /\ UNCHANGED traceVars)]_<<traceVars, queueVars>>
      PROVE  TraceInv' /\ QueueInv'
  BY <1>2, TraceInductive, QueueInductive
<1>3. TraceInv /\ QueueInv => TelemetryTellsTheRun
  BY TracesTell, CloudIsTold, QueueImplies DEF TelemetryTellsTheRun
<1> QED
  BY <1>1, <1>2, <1>3, PTL DEF TelemetrySpec

=============================================================================
