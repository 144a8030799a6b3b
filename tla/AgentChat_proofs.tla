---------------------------- MODULE AgentChat_proofs ----------------------------
(***************************************************************************)
(* Proofs about the chat client, for any number of turns, chats, chunks    *)
(* and tool rounds: a turn that fails, is rolled back or is aborted leaves *)
(* the chat as it found it.                                                *)
(*                                                                         *)
(* One turn is open at a time, so from its start to its result the view is *)
(* the one it found and, behind it, at most its own prompt; everything     *)
(* that travels for a turn carries the turn's number; and a row that was   *)
(* completed is never written again.  Of its custom state the client has,  *)
(* with the patches on their way to it, what the server has.               *)
(***************************************************************************)
EXTENDS AgentChat, FiniteSetTheorems, SequenceTheorems, TLAPS

-----------------------------------------------------------------------------
(* Types.  A message of a turn is one of Msgs({t}); a history is made of     *)
(* messages of turns that were taken.                                        *)

Msgs(ts) == [turn : ts, i : Nat, role : {"user", "model", "tool"}, parts : Seq(Nat),
             asks : BOOLEAN]
Hist == Seq(Msgs(1..turns))
Custom == SUBSET (Ids \X Nat)
Turns == 0..MaxTurns

Rows == [status : {"absent", "pending", "completed", "failed", "aborted"}, session : Turns,
         hist : Hist, custom : Custom]
Inits == [snap : Turns, session : Turns, hist : Hist, custom : Custom]
Fins == {"none", "raised", "failed", "detached", "stop", "interrupted", "empty", "aborted"}
Outputs(t) == [fin : Fins, snap : Turns, session : Turns, msg : Msgs({t}) \cup {NoMsg},
               hist : Hist, custom : Custom]
ServerTurns(t) ==
  [at : {"off", "load", "resume", "run", "done"}, init : Inits, input : {"none", "prompt", "resume"},
   deaf : BOOLEAN, session : Turns, base : Hist, good : Custom, hist : Hist, custom : Custom,
   updates : Nat, rounds : Nat, out : Outputs(t)]
Drivers(t) ==
  [pc : {"none", "unstarted", "pump", "await", "cancelling", "done"},
   kind : {"none", "stream", "detach"}, before : Nat, acc : Seq(Msgs({t})),
   how : {"open", "result", "error", "failed", "rolledBack", "cancelled"}, closed : BOOLEAN]
Channels(t) ==
  Seq([kind : {"patch"}, op : {"replace", "delta"}, custom : Custom]
      \cup [kind : {"message"}, msg : Msgs({t})] \cup {TurnEnd, Broken})
Chats == [snap : Turns, resume : Turns, session : Turns, messages : Hist, custom : Custom,
          seen : SUBSET Ids, stored : SUBSET Ids, loaded : Turns]

Types ==
  /\ mode \in {"server", "client"} /\ turns \in Turns /\ reopens \in Nat
  /\ chat \in Chats
  /\ drv = [t \in Ids |-> drv[t]] /\ \A t \in Ids : drv[t] \in Drivers(t)
  /\ srv = [t \in Ids |-> srv[t]] /\ \A t \in Ids : srv[t] \in ServerTurns(t)
  /\ chan = [t \in Ids |-> chan[t]] /\ \A t \in Ids : chan[t] \in Channels(t)
  /\ rows \in [Ids -> Rows]

-----------------------------------------------------------------------------
(* The invariant *)

\* A turn that was not taken has nothing; the ones taken before the last have settled.
Flow(t) ==
  /\ t > turns => drv[t].pc = "none" /\ drv[t].kind = "none" /\ drv[t].how = "open"
                  /\ srv[t].at = "off" /\ srv[t].out = NoOutput
  /\ t <= turns => drv[t].pc # "none" /\ (drv[t].how = "open" => t = turns)
  /\ t <= turns => (drv[t].how = "open" <=> drv[t].pc \in {"unstarted", "pump", "await"})
  /\ drv[t].pc = "unstarted" => srv[t].at = "off" /\ srv[t].input # "none"
  /\ srv[t].at = "load" => srv[t].input # "none"
  /\ srv[t].at = "run" => srv[t].hist # <<>> /\ srv[t].hist[Len(srv[t].hist)].turn = t

\* What a turn's row can be, and what an output that is no failure tells of it.
RowOf(t) ==
  /\ srv[t].at \in {"off", "load"} => rows[t].status = "absent"
  /\ rows[t].status = "completed" => srv[t].at = "done"
  /\ rows[t].status \in {"pending", "aborted"} => drv[t].kind = "detach"
  /\ srv[t].out.snap # None /\ ~Dead(srv[t].out) =>
       srv[t].out.snap = t /\ (drv[t].kind = "detach" \/ rows[t].status = "completed")

\* While a turn is open the view is what it found and, behind that, its prompt.
OpenView ==
  turns > 0 /\ drv[turns].how = "open" =>
    /\ drv[turns].before <= Len(chat.messages)
    /\ \A k \in 1..Len(chat.messages) :
         IF k <= drv[turns].before THEN chat.messages[k].turn # turns
         ELSE chat.messages[k] = Prompt(turns)

\* What is left of the turns that got no answer.
Left(t) ==
  t \notin chat.stored =>
    /\ drv[t].how \in {"failed", "rolledBack"} =>
         \A k \in 1..Len(chat.messages) : chat.messages[k].turn # t
    /\ drv[t].how = "cancelled" =>
         \A k \in 1..Len(chat.messages) : chat.messages[k].turn = t => chat.messages[k] = Prompt(t)

CInv ==
  /\ Types /\ OpenView /\ NeverStuck
  /\ \A t \in Ids : Flow(t) /\ RowOf(t)
  /\ \A t \in 1..turns : Left(t)

-----------------------------------------------------------------------------
(* Sequences of messages *)

\* A sequence over a set is one over any larger set.
LEMMA Wider ==
  ASSUME NEW A, NEW B, A \subseteq B, NEW s \in Seq(A)
  PROVE  s \in Seq(B)
OBVIOUS

\* Longer by one element, by another sequence, and shorter.
LEMMA Longer ==
  ASSUME NEW A, NEW s \in Seq(A), NEW a \in A, NEW z \in Seq(A)
  PROVE  /\ Append(s, a) \in Seq(A) /\ Len(Append(s, a)) = Len(s) + 1 /\ Append(s, a) # <<>>
         /\ Append(s, a)[Len(s) + 1] = a
         /\ \A k \in 1..Len(s) : Append(s, a)[k] = s[k]
         /\ s \o z \in Seq(A) /\ Len(s \o z) = Len(s) + Len(z)
         /\ \A k \in 1..Len(s) : (s \o z)[k] = s[k]
         /\ \A k \in 1..Len(z) : (s \o z)[Len(s) + k] = z[k]
         /\ <<a>> \in Seq(A)
OBVIOUS

LEMMA Shorter ==
  ASSUME NEW A, NEW s \in Seq(A), NEW n \in Nat, n <= Len(s)
  PROVE  /\ SubSeq(s, 1, n) \in Seq(A) /\ Len(SubSeq(s, 1, n)) = n
         /\ \A k \in 1..n : SubSeq(s, 1, n)[k] = s[k]
OBVIOUS

LEMMA Ending ==
  ASSUME NEW A, NEW s \in Seq(A), s # <<>>
  PROVE  /\ Last(s) \in A /\ Front(s) \in Seq(A) /\ Last(s) = s[Len(s)] /\ Len(s) >= 1
         /\ Tail(s) \in Seq(A) /\ Head(s) \in A
<1>1. Len(s) \in Nat /\ Len(s) >= 1 /\ s[Len(s)] \in A
  OBVIOUS
<1>2. Tail(s) \in Seq(A) /\ Head(s) \in A
  OBVIOUS
<1>3. SubSeq(s, 1, Len(s) - 1) \in Seq(A)
  BY <1>1, Shorter
<1> QED
  BY <1>1, <1>2, <1>3 DEF Last, Front

\* The messages of a turn that was taken are messages of the history.
LEMMA OwnIsKnown ==
  ASSUME NEW t \in 1..turns, turns \in Nat
  PROVE  Msgs({t}) \subseteq Msgs(1..turns) /\ Seq(Msgs({t})) \subseteq Hist
<1>1. Msgs({t}) \subseteq Msgs(1..turns)
  BY DEF Msgs
<1> QED
  BY <1>1, Wider DEF Hist

\* The messages that the model names are messages of their turn.
LEMMA Named ==
  ASSUME NEW t, NEW i \in Nat, NEW asks \in BOOLEAN
  PROVE  /\ Prompt(t) \in Msgs({t}) /\ Model(t, i, asks) \in Msgs({t}) /\ Tool(t, i) \in Msgs({t})
         /\ Model(t, i, asks).parts = <<1, 2>> /\ Tool(t, i).parts = <<1>>
<1>1. <<1>> \in Seq(Nat) /\ <<1, 2>> \in Seq(Nat)
  OBVIOUS
<1> QED
  BY <1>1 DEF Prompt, Model, Tool, Msgs

\* A history grows with the turns.
LEMMA HistGrows ==
  ASSUME turns \in Nat, turns' \in Nat, turns <= turns', NEW s \in Hist
  PROVE  s \in Hist'
<1>1. Msgs(1..turns) \subseteq Msgs(1..turns')
  BY DEF Msgs
<1>2. s \in Seq(Msgs(1..turns'))
  BY <1>1, Wider DEF Hist
<1> QED
  BY <1>2 DEF Hist

-----------------------------------------------------------------------------
(* Steps *)

\* While no turn is taken, what the types say stays what it is.
LEMMA SameTypes ==
  ASSUME turns' = turns, NEW t \in Ids
  PROVE  /\ Hist' = Hist /\ Rows' = Rows /\ Inits' = Inits /\ Chats' = Chats /\ Custom' = Custom
         /\ Outputs(t)' = Outputs(t) /\ ServerTurns(t)' = ServerTurns(t)
         /\ Drivers(t)' = Drivers(t) /\ Channels(t)' = Channels(t)
BY DEF Hist, Rows, Inits, Chats, Custom, Outputs, ServerTurns, Drivers, Channels

\* A step of one turn: it leaves the view, the place to resume from and every other turn
\* alone, and a turn that settles without a result is an aborted one or an error.
LEMMA TurnStep ==
  ASSUME ChatAssumption, CInv, NEW t \in 1..turns,
         UNCHANGED <<mode, turns, reopens>>,
         chat' \in Chats, chat'.messages = chat.messages, chat'.resume = chat.resume,
         chat'.loaded = chat.loaded, chat'.stored = chat.stored,
         drv' = [u \in Ids |-> drv'[u]], srv' = [u \in Ids |-> srv'[u]],
         chan' = [u \in Ids |-> chan'[u]], rows' \in [Ids -> Rows],
         \A u \in Ids \ {t} : drv'[u] = drv[u] /\ srv'[u] = srv[u] /\ chan'[u] = chan[u] /\ rows'[u] = rows[u],
         drv'[t] \in Drivers(t), srv'[t] \in ServerTurns(t), chan'[t] \in Channels(t),
         Flow(t)', RowOf(t)',
         drv'[t].kind = drv[t].kind,
         drv'[t].how = "open" => drv[t].how = "open" /\ drv'[t].before = drv[t].before,
         \/ drv'[t].how \in {"open", "result", "error"}
         \/ drv'[t].how = drv[t].how
         \/ drv'[t].how = "cancelled" /\ drv[t].how = "open",
         rows[t].status = "completed" => rows'[t].status = "completed"
  PROVE  CInv'
<1>1. turns \in Nat /\ turns <= MaxTurns /\ MaxTurns \in Nat /\ t \in Ids
  BY DEF CInv, Types, Turns, ChatAssumption, Ids
<1>2. Types'
  <2>1. \A u \in Ids : drv'[u] \in Drivers(u)' /\ srv'[u] \in ServerTurns(u)' /\ chan'[u] \in Channels(u)'
    <3> SUFFICES ASSUME NEW u \in Ids
                 PROVE  drv'[u] \in Drivers(u)' /\ srv'[u] \in ServerTurns(u)' /\ chan'[u] \in Channels(u)'
      OBVIOUS
    <3>1. Drivers(u)' = Drivers(u) /\ ServerTurns(u)' = ServerTurns(u) /\ Channels(u)' = Channels(u)
      BY SameTypes
    <3> QED
      BY <3>1 DEF CInv, Types
  <2>2. Chats' = Chats /\ Rows' = Rows
    BY <1>1, SameTypes
  <2> QED
    BY <2>1, <2>2 DEF CInv, Types
<1>3. ASSUME NEW u \in Ids PROVE Flow(u)' /\ RowOf(u)'
  <2>1. CASE u = t
    BY <2>1
  <2>2. CASE u # t
    BY <2>2 DEF CInv, Flow, RowOf, Dead
  <2> QED
    BY <2>1, <2>2
<1>4. OpenView'
  <2>1. ASSUME turns > 0, drv'[turns].how = "open"
        PROVE  drv[turns].how = "open" /\ drv'[turns].before = drv[turns].before
    <3>1. turns \in Ids
      BY <1>1, <2>1 DEF Ids
    <3>2. CASE turns = t
      BY <2>1, <3>2
    <3>3. CASE turns # t
      BY <2>1, <3>1, <3>3
    <3> QED
      BY <3>2, <3>3
  <2>2. OpenView
    BY DEF CInv
  <2> QED
    BY <2>1, <2>2 DEF OpenView
<1>5. NeverStuck'
  <2>1. CASE chat.resume \in {None, chat.loaded}
    BY <2>1 DEF NeverStuck
  <2>2. CASE chat.resume \notin {None, chat.loaded}
    <3>1. chat.resume \in Ids
      BY <1>1, <2>2 DEF CInv, Types, Chats, Turns, Ids, None
    <3> QED
      BY <2>2, <3>1 DEF CInv, NeverStuck, Detached
  <2> QED
    BY <2>1, <2>2
<1>6. ASSUME NEW u \in 1..turns' PROVE Left(u)'
  <2>1. Left(u) /\ u \in Ids
    BY <1>1 DEF CInv, Ids
  <2>2. CASE u # t
    BY <2>1, <2>2 DEF Left
  <2>3. CASE u = t /\ drv'[t].how = drv[t].how
    BY <2>1, <2>3 DEF Left
  <2>4. CASE u = t /\ drv'[t].how \in {"open", "result", "error"}
    BY <2>4 DEF Left
  <2>5. CASE u = t /\ drv'[t].how = "cancelled" /\ drv[t].how = "open"
    <3>1. t = turns /\ turns > 0
      BY <1>1, <2>5 DEF CInv, Flow
    <3>2. \A k \in 1..Len(chat.messages) : chat.messages[k].turn = t => chat.messages[k] = Prompt(t)
      BY <2>5, <3>1 DEF CInv, OpenView
    <3> QED
      BY <2>5, <3>2 DEF Left
  <2> QED
    BY <2>2, <2>3, <2>4, <2>5
<1> QED
  BY <1>2, <1>3, <1>4, <1>5, <1>6 DEF CInv

\* The number of the turn, and of its next message.
LEMMA TurnNumbers ==
  ASSUME ChatAssumption, CInv, NEW t \in 1..turns
  PROVE  /\ t \in Ids /\ turns \in Nat /\ turns <= MaxTurns /\ MaxTurns \in Nat /\ t \in Turns
         /\ Flow(t) /\ RowOf(t) /\ NextIndex(t) \in Nat
         /\ drv[t] \in Drivers(t) /\ srv[t] \in ServerTurns(t) /\ chan[t] \in Channels(t) /\ rows[t] \in Rows
         /\ drv = [u \in Ids |-> drv[u]] /\ srv = [u \in Ids |-> srv[u]] /\ chan = [u \in Ids |-> chan[u]]
         /\ rows \in [Ids -> Rows] /\ chat \in Chats
<1>1. turns \in Nat /\ turns <= MaxTurns /\ MaxTurns \in Nat /\ t \in Ids /\ t \in Turns
  BY DEF CInv, Types, Turns, ChatAssumption, Ids
<1>2. srv[t].hist \in Hist
  BY <1>1 DEF CInv, Types, ServerTurns
<1>3. IsFiniteSet(DOMAIN srv[t].hist)
  <2>1. DOMAIN srv[t].hist = 1..Len(srv[t].hist) /\ Len(srv[t].hist) \in Nat
    BY <1>2 DEF Hist
  <2>2. 1 \in Int /\ Len(srv[t].hist) \in Int
    BY <2>1
  <2>3. IsFiniteSet(1..Len(srv[t].hist))
    BY <2>2, FS_Interval
  <2> QED
    BY <2>1, <2>3
<1>4. IsFiniteSet({k \in DOMAIN srv[t].hist : srv[t].hist[k].turn = t})
  BY <1>3, FS_Subset
<1>5. NextIndex(t) \in Nat
  BY <1>4, FS_CardinalityType DEF NextIndex
<1> QED
  BY <1>1, <1>5 DEF CInv, Types

\* What is streamed of a turn's message are chunks of that turn.
LEMMA ChunksOfTurn ==
  ASSUME NEW t, NEW m \in Msgs({t}), NEW way
  PROVE  Chunks(m, way) \in Channels(t)
<1> DEFINE C == [kind : {"patch"}, op : {"replace", "delta"}, custom : Custom]
                \cup [kind : {"message"}, msg : Msgs({t})] \cup {TurnEnd, Broken}
<1>1. m.parts \in Seq(Nat)
  BY DEF Msgs
<1>2. ASSUME NEW n \in Nat PROVE Piece(m, n) \in C
  <2>1. <<n>> \in Seq(Nat)
    OBVIOUS
  <2>2. [m EXCEPT !.parts = <<n>>, !.asks = FALSE] \in Msgs({t})
    BY <2>1 DEF Msgs
  <2> QED
    BY <2>2 DEF Piece
<1> HIDE DEF C
<1>3. \A n \in 1..Len(m.parts) : Piece(m, m.parts[n]) \in C
  <2>1. \A n \in 1..Len(m.parts) : m.parts[n] \in Nat
    BY <1>1
  <2> QED
    BY <1>2, <2>1
<1>4. [n \in 1..Len(m.parts) |-> Piece(m, m.parts[n])] \in Seq(C) /\ <<>> \in Seq(C)
  BY <1>1, <1>3
<1>5. Chunks(m, way) \in Seq(C)
  BY <1>4 DEF Chunks
<1> QED
  BY <1>5 DEF Channels, C

\* What the server sends goes into the turn's channel, or nowhere.
LEMMA EmitKeeps ==
  ASSUME ChatAssumption, CInv, NEW t \in 1..turns, NEW cs \in Channels(t), Emit(t, cs)
  PROVE  /\ chan' = [u \in Ids |-> chan'[u]] /\ chan'[t] \in Channels(t)
         /\ \A u \in Ids \ {t} : chan'[u] = chan[u]
<1>1. t \in Ids /\ chan = [u \in Ids |-> chan[u]] /\ chan[t] \in Channels(t)
  BY TurnNumbers
<1>2. chan[t] \o cs \in Channels(t)
  BY <1>1 DEF Channels
<1>3. chan' = chan \/ chan' = [chan EXCEPT ![t] = chan[t] \o cs]
  BY DEF Emit
<1> QED
  BY <1>1, <1>2, <1>3

\* The end of a turn on the server: its output, unless the connection had answered.
LEMMA FinishKeeps ==
  ASSUME ChatAssumption, CInv, NEW t \in 1..turns, NEW out \in Outputs(t), srv' = Finish(t, out)
  PROVE  /\ srv' = [u \in Ids |-> srv'[u]] /\ srv'[t] \in ServerTurns(t)
         /\ \A u \in Ids \ {t} : srv'[u] = srv[u]
         /\ srv'[t].at = "done"
         /\ srv'[t].out = IF srv[t].out = NoOutput THEN out ELSE srv[t].out
<1>1. t \in Ids /\ srv = [u \in Ids |-> srv[u]] /\ srv[t] \in ServerTurns(t)
  BY TurnNumbers
<1> DEFINE done == [NoTurn EXCEPT !.at = "done", !.updates = srv[t].updates,
                                  !.out = IF srv[t].out = NoOutput THEN out ELSE srv[t].out]
<1>2. <<>> \in Hist /\ {} \in Custom /\ None \in Turns
  BY ChatAssumption DEF Hist, Custom, None, Turns, ChatAssumption
<1>3. done \in ServerTurns(t) /\ done.at = "done"
      /\ done.out = IF srv[t].out = NoOutput THEN out ELSE srv[t].out
  BY <1>1, <1>2 DEF ServerTurns, NoTurn, NoInit, Inits
<1>4. srv' = [srv EXCEPT ![t] = done]
  BY DEF Finish
<1> HIDE DEF done
<1> QED
  BY <1>1, <1>3, <1>4

\* transport.run_turn.
LEMMA RunTurnKeeps ==
  ASSUME ChatAssumption, CInv, NEW t \in 1..turns, RunTurn(t)
  PROVE  CInv'
<1>0. /\ t \in Ids /\ Flow(t) /\ RowOf(t) /\ drv[t] \in Drivers(t) /\ srv[t] \in ServerTurns(t)
      /\ chan[t] \in Channels(t) /\ drv = [u \in Ids |-> drv[u]] /\ srv = [u \in Ids |-> srv[u]]
      /\ chan = [u \in Ids |-> chan[u]] /\ rows \in [Ids -> Rows] /\ chat \in Chats
  BY TurnNumbers
<1> DEFINE pc == IF drv[t].kind = "detach" THEN "await" ELSE "pump"
<1>1. /\ drv[t].pc = "unstarted" /\ pc \in {"await", "pump"}
      /\ drv' = [drv EXCEPT ![t].pc = pc]
      /\ srv' = [srv EXCEPT ![t].at = "load"]
      /\ UNCHANGED <<mode, turns, reopens, chat, chan, rows>>
  BY DEF RunTurn
<1> HIDE DEF pc
<1>2. /\ drv' = [u \in Ids |-> drv'[u]] /\ drv'[t] = [drv[t] EXCEPT !.pc = pc]
      /\ \A u \in Ids \ {t} : drv'[u] = drv[u]
  BY <1>0, <1>1
<1>3. /\ drv'[t] \in Drivers(t) /\ drv'[t].pc = pc /\ drv'[t].kind = drv[t].kind
      /\ drv'[t].how = drv[t].how /\ drv'[t].before = drv[t].before
  BY <1>0, <1>1, <1>2 DEF Drivers
<1>4. /\ srv' = [u \in Ids |-> srv'[u]] /\ srv'[t] = [srv[t] EXCEPT !.at = "load"]
      /\ \A u \in Ids \ {t} : srv'[u] = srv[u]
  BY <1>0, <1>1
<1>5. /\ srv'[t] \in ServerTurns(t) /\ srv'[t].at = "load" /\ srv'[t].input = srv[t].input
      /\ srv'[t].out = srv[t].out
  BY <1>0, <1>4 DEF ServerTurns
<1>6. Flow(t)'
  BY <1>0, <1>1, <1>3, <1>5 DEF Flow
<1>7. RowOf(t)'
  BY <1>0, <1>1, <1>3, <1>5 DEF RowOf, Flow, Dead
<1> QED
  BY <1>0, <1>1, <1>2, <1>3, <1>4, <1>5, <1>6, <1>7, TurnStep

\* The session a turn runs on.
LEMMA SessionTyped ==
  ASSUME ChatAssumption, CInv, NEW t \in 1..turns, NEW from \in Sessions(t, srv[t].init)
  PROVE  from.session \in Turns /\ from.hist \in Hist /\ from.custom \in Custom
<1>1. srv[t].init \in Inits /\ t \in Turns /\ rows \in [Ids -> Rows]
  BY TurnNumbers DEF ServerTurns
<1>2. <<>> \in Hist /\ {} \in Custom
  BY DEF Hist, Custom
<1>3. ASSUME NEW r \in Ids PROVE rows[r].session \in Turns /\ rows[r].hist \in Hist /\ rows[r].custom \in Custom
  BY <1>1, <1>3 DEF Rows
<1>4. CASE mode = "client"
  BY <1>1, <1>4 DEF Sessions, Inits
<1>5. CASE mode # "client" /\ srv[t].init.snap # None
  <2>1. srv[t].init.snap \in Ids
    BY <1>1, <1>5, TurnNumbers DEF Inits, Turns, Ids, None
  <2> QED
    BY <1>3, <1>5, <2>1 DEF Sessions
<1>6. CASE mode # "client" /\ srv[t].init.snap = None
  <2> DEFINE fresh == [session |-> IF srv[t].init.session = None THEN t ELSE srv[t].init.session,
                       hist |-> <<>>, custom |-> {}]
  <2>1. CASE from = fresh
    <3>1. srv[t].init.session \in Turns
      BY <1>1 DEF Inits
    <3>2. fresh.session \in Turns /\ fresh.hist = <<>> /\ fresh.custom = {}
      BY <1>1, <3>1
    <3> QED
      BY <1>2, <2>1, <3>2
  <2>2. CASE \E r \in Ids : from = rows[r]
    BY <1>3, <2>2
  <2> QED
    BY <1>6, <2>1, <2>2 DEF Sessions
<1> QED
  BY <1>4, <1>5, <1>6

\* The outputs that tell only how a turn went, and of which session.
LEMMA Answers ==
  ASSUME ChatAssumption, NEW t, NEW fin \in Fins, NEW snap \in Turns, NEW session \in Turns
  PROVE  /\ Answer(fin, snap, session) \in Outputs(t)
         /\ Answer(fin, snap, session).fin = fin /\ Answer(fin, snap, session).snap = snap
<1>1. <<>> \in Hist /\ {} \in Custom /\ NoMsg \in Msgs({t}) \cup {NoMsg}
  BY DEF Hist, Custom
<1> QED
  BY <1>1 DEF Answer, Outputs

\* Two outputs that every turn can have.
LEMMA NoAnswers ==
  ASSUME ChatAssumption, NEW t
  PROVE  /\ NoOutput \in Outputs(t) /\ NoOutput.fin = "none" /\ NoOutput.snap = None
         /\ Raised \in Outputs(t) /\ Raised.fin = "raised" /\ Raised.snap = None
<1>1. None \in Turns /\ "none" \in Fins /\ "raised" \in Fins
  BY ChatAssumption DEF Fins, None, Turns, ChatAssumption
<1> QED
  BY <1>1, Answers DEF NoOutput, Raised

\* The turn on the session that load_session built.
LEMMA LoadedTurn ==
  ASSUME ChatAssumption, CInv, NEW t \in 1..turns, srv[t].input # "none",
         NEW from, from.session \in Turns, from.hist \in Hist, from.custom \in Custom
  PROVE  /\ OnSession(t, from) \in ServerTurns(t) /\ OnSession(t, from).at \in {"resume", "run"}
         /\ OnSession(t, from).at = "run" =>
              /\ OnSession(t, from).hist # <<>>
              /\ OnSession(t, from).hist[Len(OnSession(t, from).hist)].turn = t
         /\ OnSession(t, from).out = IF Detached(t) THEN Answer("detached", t, from.session) ELSE srv[t].out
         /\ OnSession(t, from).out.snap = IF Detached(t) THEN t ELSE srv[t].out.snap
<1>1. srv[t] \in ServerTurns(t) /\ t \in Turns
  BY TurnNumbers
<1>2. /\ srv[t].input \in {"prompt", "resume"} /\ srv[t].deaf \in BOOLEAN /\ srv[t].out \in Outputs(t)
  BY <1>1 DEF ServerTurns
<1> DEFINE at == IF srv[t].input = "resume" THEN "resume" ELSE "run"
           hist == from.hist \o (IF srv[t].input = "prompt" THEN <<Prompt(t)>> ELSE <<>>)
           out == IF Detached(t) THEN Answer("detached", t, from.session) ELSE srv[t].out
<1>3. at \in {"resume", "run"} /\ (at = "run" => srv[t].input = "prompt")
  BY <1>2
<1>4. hist \in Hist /\ (srv[t].input = "prompt" => hist # <<>> /\ hist[Len(hist)].turn = t)
  <2>1. Prompt(t) \in Msgs(1..turns) /\ Prompt(t).turn = t
    BY Named, OwnIsKnown, TurnNumbers DEF Msgs
  <2> DEFINE A == Msgs(1..turns)
             p == Prompt(t)
  <2>2. p \in A /\ from.hist \in Seq(A)
    BY <2>1 DEF Hist
  <2> HIDE DEF A, p
  <2>3. /\ from.hist \o <<p>> \in Seq(A) /\ from.hist \o <<>> \in Seq(A) /\ from.hist \o <<p>> # <<>>
        /\ (from.hist \o <<p>>)[Len(from.hist \o <<p>>)] = p
    BY <2>2
  <2> QED
    BY <2>1, <2>3 DEF Hist, A, p
<1>5. out \in Outputs(t) /\ out.snap = IF Detached(t) THEN t ELSE srv[t].out.snap
  <2>1. PICK fin \in Fins : fin = "detached"
    BY DEF Fins
  <2>2. PICK session \in Turns : session = from.session
    OBVIOUS
  <2>3. Answer(fin, t, session) \in Outputs(t) /\ Answer(fin, t, session).snap = t
    BY <1>1, Answers
  <2> QED
    BY <1>2, <2>1, <2>2, <2>3
<1>6. NoInit \in Inits
  BY ChatAssumption DEF NoInit, Inits, Hist, Custom, None, Turns, ChatAssumption
<1>7. OnSession(t, from) =
        [at |-> at, init |-> NoInit, input |-> srv[t].input, deaf |-> srv[t].deaf,
         session |-> from.session, base |-> from.hist, good |-> from.custom, hist |-> hist,
         custom |-> from.custom, updates |-> 0, rounds |-> 0, out |-> out]
  BY DEF OnSession
<1> HIDE DEF at, hist, out
<1>8. OnSession(t, from) \in ServerTurns(t)
  BY <1>2, <1>3, <1>4, <1>5, <1>6, <1>7 DEF ServerTurns
<1>9. OnSession(t, from).at = at /\ OnSession(t, from).hist = hist /\ OnSession(t, from).out = out
  BY <1>7
<1> QED
  BY <1>3, <1>4, <1>5, <1>8, <1>9 DEF out

\* load_session, and the message that came in.
LEMMA LoadKeeps ==
  ASSUME ChatAssumption, CInv, NEW t \in 1..turns, Load(t)
  PROVE  CInv'
<1>0. /\ t \in Ids /\ Flow(t) /\ RowOf(t) /\ drv[t] \in Drivers(t) /\ srv[t] \in ServerTurns(t)
      /\ chan[t] \in Channels(t) /\ drv = [u \in Ids |-> drv[u]] /\ srv = [u \in Ids |-> srv[u]]
      /\ chan = [u \in Ids |-> chan[u]] /\ rows \in [Ids -> Rows] /\ chat \in Chats
      /\ turns \in Nat /\ t <= turns
  BY TurnNumbers
<1>1. srv[t].at = "load" /\ UNCHANGED <<mode, turns, reopens, chat, drv>>
  BY DEF Load
<1>2. srv[t].input # "none" /\ rows[t].status = "absent" /\ drv[t].pc # "unstarted"
  BY <1>0, <1>1 DEF Flow, RowOf
<1>3. ASSUME NEW out \in Outputs(t), out.snap = None, srv' = Finish(t, out), UNCHANGED <<chan, rows>>
      PROVE  CInv'
  <2>1. /\ srv' = [u \in Ids |-> srv'[u]] /\ srv'[t] \in ServerTurns(t)
        /\ \A u \in Ids \ {t} : srv'[u] = srv[u]
        /\ srv'[t].at = "done"
        /\ srv'[t].out = IF srv[t].out = NoOutput THEN out ELSE srv[t].out
    BY <1>3, FinishKeeps
  <2>2. Flow(t)'
    BY <1>0, <1>1, <1>3, <2>1 DEF Flow
  <2>3. RowOf(t)'
    BY <1>0, <1>1, <1>3, <2>1 DEF RowOf, Dead
  <2> QED
    BY <1>0, <1>1, <1>3, <2>1, <2>2, <2>3, TurnStep
<1>4. ASSUME NEW from \in Sessions(t, srv[t].init), srv' = [srv EXCEPT ![t] = OnSession(t, from)],
             rows' = IF Detached(t)
                     THEN [rows EXCEPT ![t] = [status |-> "pending", session |-> from.session,
                                               hist |-> from.hist, custom |-> from.custom]]
                     ELSE rows,
             UNCHANGED chan
      PROVE  CInv'
  <2> DEFINE next == OnSession(t, from)
             row == [status |-> "pending", session |-> from.session, hist |-> from.hist, custom |-> from.custom]
  <2>1. from.session \in Turns /\ from.hist \in Hist /\ from.custom \in Custom
    BY SessionTyped
  <2>2. /\ next \in ServerTurns(t) /\ next.at \in {"resume", "run"}
        /\ next.at = "run" => next.hist # <<>> /\ next.hist[Len(next.hist)].turn = t
        /\ next.out = IF Detached(t) THEN Answer("detached", t, from.session) ELSE srv[t].out
        /\ next.out.snap = IF Detached(t) THEN t ELSE srv[t].out.snap
    BY <1>2, <2>1, LoadedTurn
  <2> HIDE DEF next
  <2>3. srv' = [srv EXCEPT ![t] = next]
    BY <1>4 DEF next
  <2>4. srv' = [u \in Ids |-> srv'[u]] /\ srv'[t] = next /\ \A u \in Ids \ {t} : srv'[u] = srv[u]
    BY <1>0, <2>3
  <2>5. row \in Rows /\ row.status = "pending"
    BY <2>1 DEF Rows
  <2>6. rows' = IF Detached(t) THEN [rows EXCEPT ![t] = row] ELSE rows
    BY <1>4
  <2> HIDE DEF row
  <2>7. /\ rows' \in [Ids -> Rows] /\ \A u \in Ids \ {t} : rows'[u] = rows[u]
        /\ IF Detached(t) THEN rows'[t].status = "pending" ELSE rows' = rows
    BY <1>0, <2>5, <2>6
  <2>8. Flow(t)'
    BY <1>0, <1>1, <1>2, <2>2, <2>4 DEF Flow
  <2>9. RowOf(t)'
    <3>1. CASE Detached(t)
      BY <1>0, <1>1, <2>2, <2>4, <2>7, <3>1 DEF RowOf, Dead, Detached
    <3>2. CASE ~Detached(t)
      BY <1>0, <1>1, <1>2, <2>2, <2>4, <2>7, <3>2 DEF RowOf, Dead, Detached
    <3> QED
      BY <3>1, <3>2
  <2> QED
    BY <1>0, <1>1, <1>2, <1>4, <2>2, <2>4, <2>7, <2>8, <2>9, TurnStep
<1>5. Answer("failed", None, None) \in Outputs(t) /\ Answer("failed", None, None).snap = None
  <2>1. "failed" \in Fins /\ None \in Turns
    BY ChatAssumption DEF Fins, None, Turns, ChatAssumption
  <2> QED
    BY <2>1, Answers
<1>6. Raised \in Outputs(t) /\ Raised.snap = None
  BY NoAnswers
<1> QED
  BY <1>3, <1>4, <1>5, <1>6 DEF Load
\* The resumed tools are in.
LEMMA ResumedKeeps ==
  ASSUME ChatAssumption, CInv, NEW t \in 1..turns, Resumed(t)
  PROVE  CInv'
<1>0. /\ t \in Ids /\ Flow(t) /\ RowOf(t) /\ drv[t] \in Drivers(t) /\ srv[t] \in ServerTurns(t)
      /\ drv = [u \in Ids |-> drv[u]] /\ srv = [u \in Ids |-> srv[u]] /\ rows \in [Ids -> Rows]
      /\ chat \in Chats /\ turns \in Nat /\ t <= turns /\ NextIndex(t) \in Nat
  BY TurnNumbers
<1> DEFINE m == Tool(t, NextIndex(t))
<1>1. /\ srv[t].at = "resume" /\ srv' = [srv EXCEPT ![t].at = "run", ![t].hist = Append(@, m)]
      /\ Emit(t, Chunks(m, "whole")) /\ UNCHANGED <<mode, turns, reopens, chat, drv, rows>>
  BY DEF Resumed
<1>2. m \in Msgs({t}) /\ m \in Msgs(1..turns) /\ m.turn = t
  BY <1>0, Named, OwnIsKnown DEF Msgs
<1> HIDE DEF m
<1>3. Chunks(m, "whole") \in Channels(t)
  BY <1>2, ChunksOfTurn
<1>4. /\ chan' = [u \in Ids |-> chan'[u]] /\ chan'[t] \in Channels(t)
      /\ \A u \in Ids \ {t} : chan'[u] = chan[u]
  BY <1>1, <1>3, EmitKeeps
<1>5. srv[t].hist \in Hist
  BY <1>0 DEF ServerTurns
<1> DEFINE hist == Append(srv[t].hist, m)
<1>6. hist \in Hist /\ hist # <<>> /\ hist[Len(hist)].turn = t
  <2> DEFINE A == Msgs(1..turns)
  <2>1. srv[t].hist \in Seq(A) /\ m \in A
    BY <1>2, <1>5 DEF Hist
  <2> HIDE DEF A
  <2>2. hist \in Seq(A) /\ hist # <<>> /\ hist[Len(hist)] = m
    BY <2>1
  <2> QED
    BY <1>2, <2>2 DEF Hist, A
<1>7. srv' = [srv EXCEPT ![t] = [srv[t] EXCEPT !.at = "run", !.hist = hist]]
  BY <1>0, <1>1
<1> HIDE DEF hist
<1>8. /\ srv' = [u \in Ids |-> srv'[u]] /\ srv'[t] = [srv[t] EXCEPT !.at = "run", !.hist = hist]
      /\ \A u \in Ids \ {t} : srv'[u] = srv[u]
  BY <1>0, <1>7
<1>9. /\ srv'[t] \in ServerTurns(t) /\ srv'[t].at = "run" /\ srv'[t].hist = hist
      /\ srv'[t].out = srv[t].out
  BY <1>0, <1>6, <1>8 DEF ServerTurns
<1>10. Flow(t)'
  BY <1>0, <1>1, <1>6, <1>9 DEF Flow
<1>11. RowOf(t)'
  BY <1>0, <1>1, <1>9 DEF RowOf, Dead
<1>12. UNCHANGED <<mode, turns, reopens, chat, drv, rows>>
  BY <1>1
<1> QED
  BY <1>0, <1>4, <1>8, <1>9, <1>10, <1>11, <1>12, TurnStep

\* A tool round.
LEMMA RoundKeeps ==
  ASSUME ChatAssumption, CInv, NEW t \in 1..turns, Round(t)
  PROVE  CInv'
<1>0. /\ t \in Ids /\ Flow(t) /\ RowOf(t) /\ drv[t] \in Drivers(t) /\ srv[t] \in ServerTurns(t)
      /\ drv = [u \in Ids |-> drv[u]] /\ srv = [u \in Ids |-> srv[u]] /\ rows \in [Ids -> Rows]
      /\ chat \in Chats /\ turns \in Nat /\ t <= turns /\ NextIndex(t) \in Nat
  BY TurnNumbers
<1> DEFINE call == Model(t, NextIndex(t), FALSE)
           answer == Tool(t, NextIndex(t) + 1)
<1>1. /\ srv[t].at = "run"
      /\ srv' = [srv EXCEPT ![t].rounds = @ + 1, ![t].hist = @ \o <<call, answer>>]
      /\ \E way \in Streams : Emit(t, Chunks(call, way) \o Chunks(answer, way))
      /\ UNCHANGED <<mode, turns, reopens, chat, drv, rows>>
  BY DEF Round
<1>2. /\ call \in Msgs({t}) /\ answer \in Msgs({t}) /\ answer.turn = t
      /\ call \in Msgs(1..turns) /\ answer \in Msgs(1..turns)
  <2>1. NextIndex(t) + 1 \in Nat
    BY <1>0
  <2> QED
    BY <1>0, <2>1, Named, OwnIsKnown DEF Msgs
<1> HIDE DEF call, answer
<1>3. /\ chan' = [u \in Ids |-> chan'[u]] /\ chan'[t] \in Channels(t)
      /\ \A u \in Ids \ {t} : chan'[u] = chan[u]
  <2>1. PICK way \in Streams : Emit(t, Chunks(call, way) \o Chunks(answer, way))
    BY <1>1
  <2>2. Chunks(call, way) \in Channels(t) /\ Chunks(answer, way) \in Channels(t)
    BY <1>2, ChunksOfTurn
  <2>3. Chunks(call, way) \o Chunks(answer, way) \in Channels(t)
    BY <2>2 DEF Channels
  <2> QED
    BY <2>1, <2>3, EmitKeeps
<1>4. srv[t].hist \in Hist /\ srv[t].rounds + 1 \in Nat
  BY <1>0 DEF ServerTurns
<1> DEFINE hist == srv[t].hist \o <<call, answer>>
<1>5. hist \in Hist /\ hist # <<>> /\ hist[Len(hist)].turn = t
  <2> DEFINE A == Msgs(1..turns)
  <2>1. srv[t].hist \in Seq(A) /\ call \in A /\ answer \in A
    BY <1>2, <1>4 DEF Hist
  <2> HIDE DEF A
  <2>2. hist \in Seq(A) /\ hist # <<>> /\ hist[Len(hist)] = answer
    BY <2>1
  <2> QED
    BY <1>2, <2>2 DEF Hist, A
<1>6. srv' = [srv EXCEPT ![t] = [srv[t] EXCEPT !.rounds = @ + 1, !.hist = hist]]
  BY <1>0, <1>1
<1> HIDE DEF hist
<1>7. /\ srv' = [u \in Ids |-> srv'[u]] /\ srv'[t] = [srv[t] EXCEPT !.rounds = @ + 1, !.hist = hist]
      /\ \A u \in Ids \ {t} : srv'[u] = srv[u]
  BY <1>0, <1>6
<1>8. /\ srv'[t] \in ServerTurns(t) /\ srv'[t].at = "run" /\ srv'[t].hist = hist
      /\ srv'[t].out = srv[t].out
  BY <1>0, <1>1, <1>4, <1>5, <1>7 DEF ServerTurns
<1>9. Flow(t)'
  BY <1>0, <1>1, <1>5, <1>8 DEF Flow
<1>10. RowOf(t)'
  BY <1>0, <1>1, <1>8 DEF RowOf, Dead
<1>11. UNCHANGED <<mode, turns, reopens, chat, drv, rows>>
  BY <1>1
<1> QED
  BY <1>0, <1>3, <1>7, <1>8, <1>9, <1>10, <1>11, TurnStep

\* A custom-state update.
LEMMA UpdateKeeps ==
  ASSUME ChatAssumption, CInv, NEW t \in 1..turns, Update(t)
  PROVE  CInv'
<1>0. /\ t \in Ids /\ Flow(t) /\ RowOf(t) /\ drv[t] \in Drivers(t) /\ srv[t] \in ServerTurns(t)
      /\ drv = [u \in Ids |-> drv[u]] /\ srv = [u \in Ids |-> srv[u]] /\ rows \in [Ids -> Rows]
      /\ chat \in Chats /\ turns \in Nat /\ t <= turns
  BY TurnNumbers
<1> DEFINE u == <<t, srv[t].updates + 1>>
           custom == srv[t].custom \cup {u}
<1>1. /\ srv[t].at = "run" /\ srv' = [srv EXCEPT ![t].updates = @ + 1, ![t].custom = @ \cup {u}]
      /\ Emit(t, <<NextPatch(t, u)>>)
      /\ UNCHANGED <<mode, turns, reopens, chat, drv, rows>>
  BY DEF Update
<1>2. srv[t].custom \in Custom /\ srv[t].updates + 1 \in Nat
  BY <1>0 DEF ServerTurns
<1>3. {u} \in Custom /\ custom \in Custom
  BY <1>0, <1>2 DEF Custom
<1>4. srv' = [srv EXCEPT ![t] = [srv[t] EXCEPT !.updates = @ + 1, !.custom = custom]]
  BY <1>0, <1>1
<1> HIDE DEF custom, u
<1>5. <<NextPatch(t, u)>> \in Channels(t)
  <2> DEFINE C == [kind : {"patch"}, op : {"replace", "delta"}, custom : Custom]
                  \cup [kind : {"message"}, msg : Msgs({t})] \cup {TurnEnd, Broken}
  <2>1. NextPatch(t, u) \in [kind : {"patch"}, op : {"replace", "delta"}, custom : Custom]
    <3>1. srv[t].custom \cup {u} \in Custom
      BY <1>2, <1>3 DEF Custom
    <3> QED
      BY <1>3, <3>1 DEF NextPatch, Patch
  <2>2. NextPatch(t, u) \in C
    BY <2>1
  <2> HIDE DEF C
  <2>3. <<NextPatch(t, u)>> \in Seq(C)
    BY <2>2
  <2> QED
    BY <2>3 DEF C, Channels
<1>6. /\ chan' = [v \in Ids |-> chan'[v]] /\ chan'[t] \in Channels(t)
      /\ \A v \in Ids \ {t} : chan'[v] = chan[v]
  BY <1>1, <1>5, EmitKeeps
<1>7. /\ srv' = [v \in Ids |-> srv'[v]]
      /\ srv'[t] = [srv[t] EXCEPT !.updates = @ + 1, !.custom = custom]
      /\ \A v \in Ids \ {t} : srv'[v] = srv[v]
  BY <1>0, <1>4
<1>8. /\ srv'[t] \in ServerTurns(t) /\ srv'[t].at = "run" /\ srv'[t].hist = srv[t].hist
      /\ srv'[t].out = srv[t].out
  BY <1>0, <1>1, <1>2, <1>3, <1>7 DEF ServerTurns
<1>9. Flow(t)'
  BY <1>0, <1>1, <1>8 DEF Flow
<1>10. RowOf(t)'
  BY <1>0, <1>1, <1>8 DEF RowOf, Dead
<1> QED
  BY <1>0, <1>1, <1>6, <1>7, <1>8, <1>9, <1>10, TurnStep
\* What a turn's end saves.
LEMMA SaveKeeps ==
  ASSUME ChatAssumption, CInv, NEW t \in 1..turns, NEW status \in {"completed", "failed"},
         NEW hist \in Hist, Save(t, status, hist)
  PROVE  /\ rows' \in [Ids -> Rows] /\ \A u \in Ids \ {t} : rows'[u] = rows[u]
         /\ rows'[t].status = IF mode = "client" \/ rows[t].status = "aborted" THEN rows[t].status ELSE status
<1>1. t \in Ids /\ rows \in [Ids -> Rows] /\ srv[t] \in ServerTurns(t)
  BY TurnNumbers
<1> DEFINE row == [status |-> status, session |-> srv[t].session, hist |-> hist, custom |-> srv[t].custom]
<1>2. row \in Rows /\ row.status = status
  BY <1>1 DEF ServerTurns, Rows
<1>3. rows' = IF mode = "client" \/ rows[t].status = "aborted" THEN rows ELSE [rows EXCEPT ![t] = row]
  BY DEF Save
<1> HIDE DEF row
<1> QED
  BY <1>1, <1>2, <1>3

\* The end of a turn, however it comes.
LEMMA TurnEnds ==
  ASSUME ChatAssumption, CInv, NEW t \in 1..turns, srv[t].at \in {"resume", "run"},
         NEW out \in Outputs(t), srv' = Finish(t, out),
         NEW cs \in Channels(t), Emit(t, cs),
         UNCHANGED <<mode, turns, reopens, chat, drv>>,
         rows' \in [Ids -> Rows], \A u \in Ids \ {t} : rows'[u] = rows[u],
         rows'[t].status \in {"pending", "aborted"} => rows'[t].status = rows[t].status,
         out.snap # None /\ ~Dead(out) =>
           out.snap = t /\ (rows'[t].status \in {"completed", "aborted"})
  PROVE  CInv'
<1>0. /\ t \in Ids /\ Flow(t) /\ RowOf(t) /\ drv[t] \in Drivers(t) /\ drv = [u \in Ids |-> drv[u]]
      /\ chat \in Chats /\ turns \in Nat /\ t <= turns
  BY TurnNumbers
<1>1. /\ srv' = [u \in Ids |-> srv'[u]] /\ srv'[t] \in ServerTurns(t)
      /\ \A u \in Ids \ {t} : srv'[u] = srv[u]
      /\ srv'[t].at = "done"
      /\ srv'[t].out = IF srv[t].out = NoOutput THEN out ELSE srv[t].out
  BY FinishKeeps
<1>2. /\ chan' = [u \in Ids |-> chan'[u]] /\ chan'[t] \in Channels(t)
      /\ \A u \in Ids \ {t} : chan'[u] = chan[u]
  BY EmitKeeps
<1>3. Flow(t)'
  BY <1>0, <1>1 DEF Flow
<1>4. rows[t].status # "completed"
  BY <1>0 DEF RowOf
<1>5. RowOf(t)'
  <2>1. rows'[t].status \in {"pending", "aborted"} => drv[t].kind = "detach"
    BY <1>0 DEF RowOf
  <2>2. srv'[t].out.snap # None /\ ~Dead(srv'[t].out) =>
          srv'[t].out.snap = t /\ (drv[t].kind = "detach" \/ rows'[t].status = "completed")
    <3>1. CASE srv[t].out = NoOutput
      BY <1>1, <2>1, <3>1
    <3>2. CASE srv[t].out # NoOutput
      BY <1>0, <1>1, <1>4, <3>2 DEF RowOf
    <3> QED
      BY <3>1, <3>2
  <2> QED
    BY <1>1, <2>1, <2>2 DEF RowOf, Dead
<1> QED
  BY <1>0, <1>1, <1>2, <1>3, <1>4, <1>5, TurnStep

\* The last message of a history that ends in one of the turn.
LEMMA OwnEnding ==
  ASSUME NEW t, NEW A, A = Msgs(1..turns), NEW s \in Seq(A), s # <<>>, s[Len(s)].turn = t
  PROVE  Last(s) \in Msgs({t})
<1>1. Last(s) \in A /\ Last(s) = s[Len(s)]
  BY Ending
<1> QED
  BY <1>1 DEF Msgs

\* A turn that ends with an output that has a row.
LEMMA EndWithKeeps ==
  ASSUME ChatAssumption, CInv, NEW t \in 1..turns, srv[t].at \in {"resume", "run"},
         NEW fin \in Fins, NEW hist \in Hist, NEW msg \in Msgs({t}) \cup {NoMsg}, NEW cs \in Channels(t),
         EndWith(t, fin, hist, msg, cs), UNCHANGED <<mode, turns, reopens, chat, drv>>
  PROVE  CInv'
<1>0. t \in Ids /\ RowOf(t) /\ srv[t] \in ServerTurns(t) /\ t \in Turns /\ mode \in {"server", "client"}
  BY TurnNumbers DEF CInv, Types
<1> DEFINE plain == Answer(fin, t, srv[t].session)
           blob == [fin |-> fin, snap |-> None, session |-> srv[t].session, msg |-> msg,
                    hist |-> hist, custom |-> srv[t].custom]
           out == IF mode = "server" THEN [plain EXCEPT !.msg = msg] ELSE blob
<1>1. srv' = Finish(t, out) /\ Save(t, "completed", hist) /\ Emit(t, Append(cs, TurnEnd))
  BY DEF EndWith
<1>2. srv[t].session \in Turns /\ srv[t].custom \in Custom /\ None \in Turns
  BY <1>0, ChatAssumption DEF ServerTurns, None, Turns, ChatAssumption
<1>3. plain \in Outputs(t) /\ plain.snap = t
  BY <1>0, <1>2, Answers
<1> HIDE DEF plain
<1>4. [plain EXCEPT !.msg = msg] \in Outputs(t) /\ [plain EXCEPT !.msg = msg].snap = t
  BY <1>3 DEF Outputs
<1>5. blob \in Outputs(t) /\ blob.snap = None
  BY <1>2 DEF Outputs
<1>6. out \in Outputs(t) /\ out.snap = IF mode = "server" THEN t ELSE None
  BY <1>4, <1>5
<1> HIDE DEF out
<1>7. Append(cs, TurnEnd) \in Channels(t)
  <2> DEFINE C == [kind : {"patch"}, op : {"replace", "delta"}, custom : Custom]
                  \cup [kind : {"message"}, msg : Msgs({t})] \cup {TurnEnd, Broken}
  <2>1. TurnEnd \in C
    OBVIOUS
  <2> HIDE DEF C
  <2>2. cs \in Seq(C)
    BY DEF C, Channels
  <2>3. Append(cs, TurnEnd) \in Seq(C)
    BY <2>1, <2>2
  <2> QED
    BY <2>3 DEF C, Channels
<1>8. /\ rows' \in [Ids -> Rows] /\ \A u \in Ids \ {t} : rows'[u] = rows[u]
      /\ rows'[t].status = IF mode = "client" \/ rows[t].status = "aborted" THEN rows[t].status
                           ELSE "completed"
  BY <1>1, SaveKeeps
<1>9. rows'[t].status \in {"pending", "aborted"} => rows'[t].status = rows[t].status
  BY <1>8
<1>10. out.snap # None /\ ~Dead(out) => out.snap = t /\ rows'[t].status \in {"completed", "aborted"}
  BY <1>0, <1>6, <1>8
<1> QED
  BY <1>1, <1>6, <1>7, <1>8, <1>9, <1>10, TurnEnds
\* Short streams of a turn.
LEMMA ShortStreams ==
  ASSUME NEW t, NEW m \in Msgs({t}), NEW n \in Nat
  PROVE  /\ <<>> \in Channels(t) /\ <<Broken>> \in Channels(t)
         /\ <<Piece(m, n), TurnEnd>> \in Channels(t)
         /\ \A cs \in Channels(t) : Append(cs, Broken) \in Channels(t)
<1> DEFINE C == [kind : {"patch"}, op : {"replace", "delta"}, custom : Custom]
                \cup [kind : {"message"}, msg : Msgs({t})] \cup {TurnEnd, Broken}
<1>1. TurnEnd \in C /\ Broken \in C
  OBVIOUS
<1>2. Piece(m, n) \in C
  <2>1. <<n>> \in Seq(Nat)
    OBVIOUS
  <2>2. [m EXCEPT !.parts = <<n>>, !.asks = FALSE] \in Msgs({t})
    BY <2>1 DEF Msgs
  <2> QED
    BY <2>2 DEF Piece
<1> HIDE DEF C
<1>3. /\ <<>> \in Seq(C) /\ <<Broken>> \in Seq(C) /\ <<Piece(m, n), TurnEnd>> \in Seq(C)
      /\ \A cs \in Seq(C) : Append(cs, Broken) \in Seq(C)
  BY <1>1, <1>2
<1> QED
  BY <1>3 DEF Channels, C

\* The end of a turn, in every way the server knows.
LEMMA EndKeeps ==
  ASSUME ChatAssumption, CInv, NEW t \in 1..turns, End(t)
  PROVE  CInv'
<1>0. /\ t \in Ids /\ Flow(t) /\ srv[t] \in ServerTurns(t) /\ rows \in [Ids -> Rows]
      /\ NextIndex(t) \in Nat /\ t \in Turns /\ turns \in Nat /\ t <= turns
  BY TurnNumbers
<1> DEFINE s == srv[t]
           A == Msgs(1..turns)
           said == Model(t, NextIndex(t), FALSE)
           asked == Model(t, NextIndex(t), TRUE)
<1>1. /\ s.hist \in Seq(A) /\ s.base \in Seq(A) /\ s.hist \in Hist /\ s.base \in Hist
      /\ s.session \in Turns /\ s.good \in Custom
  BY <1>0 DEF ServerTurns, Hist
<1>2. said \in Msgs({t}) /\ asked \in Msgs({t}) /\ said \in A /\ asked \in A
  BY <1>0, Named, OwnIsKnown
<1>3. s.at = "run" => s.hist # <<>> /\ s.hist[Len(s.hist)].turn = t
  BY <1>0 DEF Flow
<1>4. UNCHANGED <<mode, turns, reopens, chat, drv>>
  BY DEF End
<1>5. {"stop", "interrupted", "empty", "aborted", "failed"} \subseteq Fins /\ None \in Turns
  BY ChatAssumption DEF Fins, None, Turns, ChatAssumption
<1>6. /\ \A way \in Streams : Chunks(said, way) \in Channels(t) /\ Chunks(asked, way) \in Channels(t)
      /\ <<>> \in Channels(t) /\ <<Broken>> \in Channels(t) /\ <<Piece(said, 1), TurnEnd>> \in Channels(t)
  BY <1>2, ChunksOfTurn, ShortStreams
<1> HIDE DEF said, asked
<1>7. Append(s.hist, said) \in Hist /\ Append(s.hist, asked) \in Hist
  <2> HIDE DEF A
  <2>1. Append(s.hist, said) \in Seq(A) /\ Append(s.hist, asked) \in Seq(A)
    BY <1>1, <1>2
  <2> QED
    BY <2>1 DEF Hist, A
<1>8. CASE s.at = "run" /\ \E way \in Streams, msg \in {said, NoMsg} :
             EndWith(t, "stop", Append(s.hist, said), msg, Chunks(said, way))
  BY <1>2, <1>4, <1>5, <1>6, <1>7, <1>8, EndWithKeeps
<1>9. CASE s.at = "run" /\ \E way \in Streams :
             EndWith(t, "interrupted", Append(s.hist, asked), asked, Chunks(asked, way))
  BY <1>2, <1>4, <1>5, <1>6, <1>7, <1>9, EndWithKeeps
<1>10. CASE s.at = "resume" /\ Paused(s.base)
            /\ EndWith(t, "interrupted", Append(Front(s.base), asked), asked, <<>>)
  <2>1. s.base # <<>>
    BY <1>10 DEF Paused
  <2> HIDE DEF A
  <2>2. Front(s.base) \in Seq(A)
    BY <1>1, <2>1, Ending
  <2>3. Append(Front(s.base), asked) \in Seq(A)
    BY <1>2, <2>2
  <2>4. Append(Front(s.base), asked) \in Hist
    BY <2>3 DEF Hist, A
  <2> QED
    BY <1>2, <1>4, <1>5, <1>6, <1>10, <2>4, EndWithKeeps
<1>11. CASE s.at = "run" /\ \E fin \in {"empty", "aborted"} \cap Ends : EndWith(t, fin, s.hist, Last(s.hist), <<>>)
  <2>1. Last(s.hist) \in Msgs({t})
    BY <1>1, <1>3, <1>11, OwnEnding
  <2> QED
    BY <1>1, <1>4, <1>5, <1>6, <1>11, <2>1, EndWithKeeps
<1>12. CASE /\ s.at \in {"run", "resume"}
            /\ LET snap == IF mode = "server" /\ s.hist = s.base /\ s.updates = 0 THEN t ELSE None IN
               srv' = Finish(t, [Answer("failed", snap, s.session) EXCEPT
                                   !.hist = IF mode = "client" THEN s.base ELSE <<>>,
                                   !.custom = IF mode = "client" THEN s.good ELSE {}])
            /\ Emit(t, <<Piece(said, 1), TurnEnd>>)
            /\ Save(t, "failed", s.hist)
  <2> DEFINE snap == IF mode = "server" /\ s.hist = s.base /\ s.updates = 0 THEN t ELSE None
             hist == IF mode = "client" THEN s.base ELSE <<>>
             custom == IF mode = "client" THEN s.good ELSE {}
             plain == Answer("failed", snap, s.session)
             out == [plain EXCEPT !.hist = hist, !.custom = custom]
  <2>1. snap \in Turns
    BY <1>0, <1>5
  <2>2. hist \in Hist /\ custom \in Custom
    <3>1. <<>> \in Hist /\ {} \in Custom
      BY DEF Hist, Custom
    <3> QED
      BY <1>1, <3>1
  <2>3. srv' = Finish(t, out)
    BY <1>12
  <2> HIDE DEF snap, hist, custom
  <2>4. plain \in Outputs(t) /\ plain.fin = "failed"
    BY <1>1, <1>5, <2>1, Answers
  <2> HIDE DEF plain
  <2>5. out \in Outputs(t) /\ out.fin = "failed"
    BY <2>2, <2>4 DEF Outputs
  <2> HIDE DEF out
  <2>6. /\ rows' \in [Ids -> Rows] /\ \A u \in Ids \ {t} : rows'[u] = rows[u]
        /\ rows'[t].status = IF mode = "client" \/ rows[t].status = "aborted" THEN rows[t].status
                             ELSE "failed"
    BY <1>1, <1>12, SaveKeeps
  <2>7. rows'[t].status \in {"pending", "aborted"} => rows'[t].status = rows[t].status
    BY <2>6
  <2>8. Dead(out)
    BY <2>5 DEF Dead
  <2> QED
    BY <1>4, <1>6, <1>12, <2>3, <2>5, <2>6, <2>7, <2>8, TurnEnds
<1>13. CASE /\ s.at \in {"run", "resume"}
            /\ srv' = Finish(t, Raised)
            /\ Emit(t, <<Broken>>)
            /\ IF Detached(t) THEN Save(t, "failed", s.hist) ELSE UNCHANGED rows
  <2>1. /\ rows' \in [Ids -> Rows] /\ \A u \in Ids \ {t} : rows'[u] = rows[u]
        /\ rows'[t].status \in {"pending", "aborted"} => rows'[t].status = rows[t].status
    <3>1. CASE Save(t, "failed", s.hist)
      <4>1. /\ rows' \in [Ids -> Rows] /\ \A u \in Ids \ {t} : rows'[u] = rows[u]
            /\ rows'[t].status = IF mode = "client" \/ rows[t].status = "aborted" THEN rows[t].status
                                 ELSE "failed"
        BY <1>1, <3>1, SaveKeeps
      <4> QED
        BY <4>1
    <3>2. CASE UNCHANGED rows
      BY <1>0, <3>2
    <3> QED
      BY <1>13, <3>1, <3>2
  <2>2. Raised \in Outputs(t) /\ Raised.snap = None
    BY NoAnswers
  <2> QED
    BY <1>4, <1>6, <1>13, <2>1, <2>2, TurnEnds
<1> QED
  BY <1>8, <1>9, <1>10, <1>11, <1>12, <1>13 DEF End, said, asked

\* The connection breaks.
LEMMA BreakKeeps ==
  ASSUME ChatAssumption, CInv, NEW t \in 1..turns, Break(t)
  PROVE  CInv'
<1>0. /\ t \in Ids /\ Flow(t) /\ RowOf(t) /\ drv[t] \in Drivers(t) /\ srv[t] \in ServerTurns(t)
      /\ drv = [u \in Ids |-> drv[u]] /\ srv = [u \in Ids |-> srv[u]] /\ rows \in [Ids -> Rows]
      /\ chat \in Chats /\ turns \in Nat /\ t <= turns /\ chan = [u \in Ids |-> chan[u]]
      /\ chan[t] \in Channels(t)
  BY TurnNumbers
<1>1. /\ srv[t].at \in {"load", "resume", "run"}
      /\ srv' = [srv EXCEPT ![t].out = Raised, ![t].deaf = TRUE]
      /\ chan' = [chan EXCEPT ![t] = Append(@, Broken)]
      /\ UNCHANGED <<mode, turns, reopens, chat, drv, rows>>
  BY DEF Break
<1>2. Raised \in Outputs(t) /\ Raised.snap = None
  BY NoAnswers
<1>3. Append(chan[t], Broken) \in Channels(t)
  <2>1. Prompt(t) \in Msgs({t}) /\ 0 \in Nat
    BY Named
  <2> QED
    BY <1>0, <2>1, ShortStreams
<1>4. /\ chan' = [u \in Ids |-> chan'[u]] /\ chan'[t] \in Channels(t)
      /\ \A u \in Ids \ {t} : chan'[u] = chan[u]
  BY <1>0, <1>1, <1>3
<1>5. srv' = [srv EXCEPT ![t] = [srv[t] EXCEPT !.out = Raised, !.deaf = TRUE]]
  BY <1>0, <1>1
<1>6. /\ srv' = [u \in Ids |-> srv'[u]] /\ srv'[t] = [srv[t] EXCEPT !.out = Raised, !.deaf = TRUE]
      /\ \A u \in Ids \ {t} : srv'[u] = srv[u]
  BY <1>0, <1>5
<1>7. /\ srv'[t] \in ServerTurns(t) /\ srv'[t].at = srv[t].at /\ srv'[t].hist = srv[t].hist
      /\ srv'[t].out = Raised /\ srv'[t].input = srv[t].input
  <2>1. [srv[t] EXCEPT !.out = Raised, !.deaf = TRUE] \in ServerTurns(t)
    BY <1>0, <1>2 DEF ServerTurns
  <2>2. /\ srv'[t].at = srv[t].at /\ srv'[t].hist = srv[t].hist /\ srv'[t].input = srv[t].input
        /\ srv'[t].out = Raised
    BY <1>0, <1>6 DEF ServerTurns
  <2> QED
    BY <1>6, <2>1, <2>2
<1>8. Flow(t)'
  BY <1>0, <1>1, <1>7 DEF Flow
<1>9. RowOf(t)'
  BY <1>0, <1>1, <1>2, <1>7 DEF RowOf, Dead
<1>10. UNCHANGED <<mode, turns, reopens, chat, drv, rows>>
  BY <1>1
<1> QED
  BY <1>0, <1>4, <1>6, <1>7, <1>8, <1>9, <1>10, TurnStep
-----------------------------------------------------------------------------
(* The client's steps *)

\* The finally of run().
LEMMA SettleKeeps ==
  ASSUME ChatAssumption, CInv, NEW t \in 1..turns,
         NEW how \in {"result", "error", "failed", "rolledBack", "cancelled"}, Settle(t, how, "done")
  PROVE  /\ drv' = [u \in Ids |-> drv'[u]] /\ \A u \in Ids \ {t} : drv'[u] = drv[u]
         /\ drv'[t] \in Drivers(t) /\ drv'[t].pc = "done" /\ drv'[t].kind = drv[t].kind
         /\ drv'[t].how = IF drv[t].how = "open" THEN how ELSE drv[t].how
<1>0. t \in Ids /\ drv[t] \in Drivers(t) /\ drv = [u \in Ids |-> drv[u]]
  BY TurnNumbers
<1> DEFINE h == IF drv[t].how = "open" THEN how ELSE drv[t].how
           next == [drv[t] EXCEPT !.pc = "done", !.closed = TRUE, !.acc = <<>>, !.before = 0, !.how = h]
<1>1. drv' = [drv EXCEPT ![t] = next]
  BY <1>0 DEF Settle
<1>2. h \in {"open", "result", "error", "failed", "rolledBack", "cancelled"}
  BY <1>0 DEF Drivers
<1>3. <<>> \in Seq(Msgs({t}))
  OBVIOUS
<1> HIDE DEF h
<1>4. next \in Drivers(t) /\ next.pc = "done" /\ next.kind = drv[t].kind /\ next.how = h
  BY <1>0, <1>2, <1>3 DEF Drivers
<1> HIDE DEF next
<1> QED
  BY <1>0, <1>1, <1>4 DEF h

\* A chunk on the accumulator.
LEMMA AccumulateTyped ==
  ASSUME NEW t, NEW acc \in Seq(Msgs({t})), NEW m \in Msgs({t})
  PROVE  Accumulate(acc, m) \in Seq(Msgs({t}))
<1> DEFINE A == Msgs({t})
<1>1. CASE acc # <<>> /\ Last(acc).role = m.role /\ Last(acc).i = m.i
  <2> DEFINE joined == [Last(acc) EXCEPT !.parts = @ \o m.parts]
  <2>1. Last(acc) \in A /\ Front(acc) \in Seq(A)
    BY <1>1, Ending
  <2>2. m.parts \in Seq(Nat) /\ Last(acc).parts \in Seq(Nat)
    BY <2>1 DEF Msgs
  <2>3. Last(acc).parts \o m.parts \in Seq(Nat)
    BY <2>2
  <2>4. joined \in A
    BY <2>1, <2>3 DEF Msgs
  <2> HIDE DEF A, joined
  <2>5. Append(Front(acc), joined) \in Seq(A)
    BY <2>1, <2>4
  <2> QED
    BY <1>1, <2>5 DEF A, joined, Accumulate
<1>2. CASE ~(acc # <<>> /\ Last(acc).role = m.role /\ Last(acc).i = m.i)
  <2>1. Append(acc, m) \in Seq(Msgs({t}))
    OBVIOUS
  <2> QED
    BY <1>2, <2>1 DEF Accumulate
<1> QED
  BY <1>1, <1>2

\* What travels in a channel.
LEMMA ChunkTyped ==
  ASSUME NEW t, NEW s \in Channels(t), s # <<>>
  PROVE  /\ Tail(s) \in Channels(t)
         /\ Head(s).kind = "message" => Head(s).msg \in Msgs({t})
         /\ Head(s).kind = "patch" => Head(s).custom \in Custom
<1> DEFINE C == [kind : {"patch"}, op : {"replace", "delta"}, custom : Custom]
                \cup [kind : {"message"}, msg : Msgs({t})] \cup {TurnEnd, Broken}
<1>1. s \in Seq(C)
  BY DEF Channels
<1>2. \A c \in C : /\ c.kind = "message" => c.msg \in Msgs({t})
                   /\ c.kind = "patch" => c.custom \in Custom
  BY DEF TurnEnd, Broken
<1> HIDE DEF C
<1>3. Tail(s) \in Seq(C) /\ Head(s) \in C
  BY <1>1
<1> QED
  BY <1>2, <1>3 DEF C, Channels

\* run() takes the next chunk.
LEMMA PumpKeeps ==
  ASSUME ChatAssumption, CInv, NEW t \in 1..turns, Pump(t)
  PROVE  CInv'
<1>0. /\ t \in Ids /\ Flow(t) /\ RowOf(t) /\ drv[t] \in Drivers(t) /\ srv[t] \in ServerTurns(t)
      /\ drv = [u \in Ids |-> drv[u]] /\ srv = [u \in Ids |-> srv[u]] /\ rows \in [Ids -> Rows]
      /\ chat \in Chats /\ turns \in Nat /\ t <= turns /\ chan = [u \in Ids |-> chan[u]]
      /\ chan[t] \in Channels(t)
  BY TurnNumbers
<1>1. drv[t].pc = "pump" /\ UNCHANGED <<mode, turns, reopens, srv, rows>> /\ drv[t].how = "open"
  BY <1>0 DEF Pump, Flow
<1>2. /\ chan' = [u \in Ids |-> chan'[u]] /\ chan'[t] \in Channels(t)
      /\ \A u \in Ids \ {t} : chan'[u] = chan[u]
  <2>1. CASE chan[t] = <<>>
    BY <1>0, <2>1 DEF Pump
  <2>2. CASE chan[t] # <<>>
    <3>1. chan' = [chan EXCEPT ![t] = Tail(@)]
      BY <2>2 DEF Pump
    <3> QED
      BY <1>0, <2>2, <3>1, ChunkTyped
  <2> QED
    BY <2>1, <2>2
<1>3. ASSUME UNCHANGED chat, NEW next \in Drivers(t), drv' = [drv EXCEPT ![t] = next],
             next.pc \in {"pump", "await"}, next.kind = drv[t].kind, next.how = drv[t].how,
             next.before = drv[t].before
      PROVE  CInv'
  <2>1. drv' = [u \in Ids |-> drv'[u]] /\ \A u \in Ids \ {t} : drv'[u] = drv[u] /\ drv'[t] = next
    BY <1>0, <1>3
  <2>2. drv'[t] = next
    BY <1>0, <1>3
  <2>3. Flow(t)'
    BY <1>0, <1>1, <1>3, <2>2 DEF Flow
  <2>4. RowOf(t)'
    BY <1>0, <1>1, <1>3, <2>2 DEF RowOf, Dead
  <2> QED
    BY <1>0, <1>1, <1>2, <1>3, <2>1, <2>2, <2>3, <2>4, TurnStep
<1>4. CASE Head(chan[t]).kind = "message" /\ chan[t] # <<>>
           /\ drv' = [drv EXCEPT ![t].acc = Accumulate(@, Head(chan[t]).msg)] /\ UNCHANGED chat
  <2> DEFINE acc == Accumulate(drv[t].acc, Head(chan[t]).msg)
  <2>1. acc \in Seq(Msgs({t}))
    <3>1. Head(chan[t]).msg \in Msgs({t})
      BY <1>0, <1>4, ChunkTyped
    <3>2. drv[t].acc \in Seq(Msgs({t}))
      BY <1>0 DEF Drivers
    <3> QED
      BY <3>1, <3>2, AccumulateTyped
  <2>2. drv' = [drv EXCEPT ![t] = [drv[t] EXCEPT !.acc = acc]]
    BY <1>0, <1>4
  <2> HIDE DEF acc
  <2> DEFINE next == [drv[t] EXCEPT !.acc = acc]
  <2>3. /\ next \in Drivers(t) /\ next.pc = "pump" /\ next.kind = drv[t].kind
        /\ next.how = drv[t].how /\ next.before = drv[t].before
    BY <1>0, <1>1, <2>1 DEF Drivers
  <2> HIDE DEF next
  <2>4. drv' = [drv EXCEPT ![t] = next]
    BY <2>2 DEF next
  <2> QED
    BY <1>3, <1>4, <2>3, <2>4
<1>5. CASE Head(chan[t]).kind = "patch" /\ chan[t] # <<>>
           /\ chat' = [chat EXCEPT !.custom = ApplyPatch(@, Head(chan[t]))] /\ UNCHANGED drv
  <2>1. ApplyPatch(chat.custom, Head(chan[t])) \in Custom
    <3>1. Head(chan[t]).custom \in Custom /\ chat.custom \in Custom
      BY <1>0, <1>5, ChunkTyped DEF Chats
    <3> QED
      BY <3>1 DEF ApplyPatch, Custom
  <2> DEFINE custom == ApplyPatch(chat.custom, Head(chan[t]))
  <2>2. chat' = [chat EXCEPT !.custom = custom]
    BY <1>5
  <2> HIDE DEF custom
  <2>3. /\ chat' \in Chats /\ chat'.messages = chat.messages /\ chat'.resume = chat.resume
        /\ chat'.loaded = chat.loaded /\ chat'.stored = chat.stored
    BY <1>0, <2>1, <2>2 DEF Chats, custom
  <2>4. Flow(t)'
    BY <1>0, <1>1, <1>5 DEF Flow
  <2>5. RowOf(t)'
    BY <1>0, <1>1, <1>5 DEF RowOf, Dead
  <2>6. drv' = drv
    BY <1>5
  <2> QED
    BY <1>0, <1>1, <1>2, <2>3, <2>4, <2>5, <2>6, TurnStep
<1>6. CASE drv' = [drv EXCEPT ![t].pc = "await"] /\ UNCHANGED chat
  <2> DEFINE next == [drv[t] EXCEPT !.pc = "await"]
  <2>1. /\ next \in Drivers(t) /\ next.pc = "await" /\ next.kind = drv[t].kind
        /\ next.how = drv[t].how /\ next.before = drv[t].before
    BY <1>0 DEF Drivers
  <2>2. drv' = [drv EXCEPT ![t] = next]
    BY <1>0, <1>6
  <2> HIDE DEF next
  <2> QED
    BY <1>3, <1>6, <2>1, <2>2
<1>7. CASE Settle(t, "error", "done") /\ UNCHANGED chat
  <2>1. /\ drv' = [u \in Ids |-> drv'[u]] /\ \A u \in Ids \ {t} : drv'[u] = drv[u]
        /\ drv'[t] \in Drivers(t) /\ drv'[t].pc = "done" /\ drv'[t].kind = drv[t].kind
        /\ drv'[t].how = "error"
    BY <1>1, <1>7, SettleKeeps
  <2>2. Flow(t)'
    BY <1>0, <1>1, <2>1 DEF Flow
  <2>3. RowOf(t)'
    BY <1>0, <1>1, <2>1 DEF RowOf, Dead
  <2> QED
    BY <1>0, <1>1, <1>2, <1>7, <2>1, <2>2, <2>3, TurnStep
<1> QED
  BY <1>4, <1>5, <1>6, <1>7 DEF Pump

\* abort(), or a cancelled caller.
LEMMA AbortTurnKeeps ==
  ASSUME ChatAssumption, CInv, NEW t \in 1..turns, AbortTurn(t)
  PROVE  CInv'
<1>0. /\ t \in Ids /\ Flow(t) /\ RowOf(t) /\ drv[t] \in Drivers(t) /\ srv[t] \in ServerTurns(t)
      /\ drv = [u \in Ids |-> drv[u]] /\ srv = [u \in Ids |-> srv[u]] /\ rows \in [Ids -> Rows]
      /\ chat \in Chats /\ turns \in Nat /\ t <= turns /\ chan = [u \in Ids |-> chan[u]]
      /\ chan[t] \in Channels(t)
  BY TurnNumbers
<1> DEFINE pc == IF drv[t].pc = "unstarted" THEN "done" ELSE "cancelling"
           next == [drv[t] EXCEPT !.how = "cancelled", !.acc = <<>>, !.pc = pc]
<1>1. /\ drv[t].how = "open" /\ UNCHANGED <<mode, turns, reopens, chat, rows>>
      /\ drv' = [drv EXCEPT ![t] = next]
      /\ srv' = [srv EXCEPT ![t] = [srv[t] EXCEPT !.deaf = TRUE]]
      /\ chan' = [chan EXCEPT ![t] = <<>>]
  BY <1>0 DEF AbortTurn, CancelDriver
<1>2. pc \in {"done", "cancelling"} /\ <<>> \in Seq(Msgs({t}))
  OBVIOUS
<1> HIDE DEF pc
<1>3. next \in Drivers(t) /\ next.pc = pc /\ next.how = "cancelled" /\ next.kind = drv[t].kind
  BY <1>0, <1>2 DEF Drivers
<1> HIDE DEF next
<1>4. drv' = [u \in Ids |-> drv'[u]] /\ drv'[t] = next /\ \A u \in Ids \ {t} : drv'[u] = drv[u]
  BY <1>0, <1>1
<1>5. /\ srv' = [u \in Ids |-> srv'[u]] /\ srv'[t] = [srv[t] EXCEPT !.deaf = TRUE]
      /\ \A u \in Ids \ {t} : srv'[u] = srv[u]
  BY <1>0, <1>1
<1>6. /\ srv'[t] \in ServerTurns(t) /\ srv'[t].at = srv[t].at /\ srv'[t].hist = srv[t].hist
      /\ srv'[t].out = srv[t].out /\ srv'[t].input = srv[t].input
  BY <1>0, <1>5 DEF ServerTurns
<1>7. <<>> \in Channels(t)
  BY DEF Channels
<1>8. /\ chan' = [u \in Ids |-> chan'[u]] /\ chan'[t] \in Channels(t)
      /\ \A u \in Ids \ {t} : chan'[u] = chan[u]
  BY <1>0, <1>1, <1>7
<1>9. Flow(t)'
  BY <1>0, <1>1, <1>2, <1>3, <1>4, <1>6 DEF Flow
<1>10. RowOf(t)'
  BY <1>0, <1>1, <1>3, <1>4, <1>6 DEF RowOf, Dead
<1>11. UNCHANGED <<mode, turns, reopens, chat, rows>> /\ drv[t].how = "open"
  BY <1>1
<1>12. drv'[t] \in Drivers(t) /\ drv'[t].kind = drv[t].kind /\ drv'[t].how = "cancelled"
  BY <1>3, <1>4
<1> QED
  BY <1>0, <1>4, <1>5, <1>6, <1>8, <1>9, <1>10, <1>11, <1>12, TurnStep

\* The CancelledError of an aborted turn's task.
LEMMA DeliverCancelKeeps ==
  ASSUME ChatAssumption, CInv, NEW t \in 1..turns, DeliverCancel(t)
  PROVE  CInv'
<1>0. /\ t \in Ids /\ Flow(t) /\ RowOf(t) /\ drv[t] \in Drivers(t) /\ srv[t] \in ServerTurns(t)
      /\ srv = [u \in Ids |-> srv[u]] /\ rows \in [Ids -> Rows]
      /\ chat \in Chats /\ turns \in Nat /\ t <= turns /\ chan = [u \in Ids |-> chan[u]]
      /\ chan[t] \in Channels(t)
  BY TurnNumbers
<1>1. /\ drv[t].pc = "cancelling" /\ drv[t].how # "open" /\ Settle(t, "cancelled", "done")
      /\ UNCHANGED <<mode, turns, reopens, chat, srv, chan, rows>>
  BY <1>0 DEF DeliverCancel, Flow
<1>2. /\ drv' = [u \in Ids |-> drv'[u]] /\ \A u \in Ids \ {t} : drv'[u] = drv[u]
      /\ drv'[t] \in Drivers(t) /\ drv'[t].pc = "done" /\ drv'[t].kind = drv[t].kind
      /\ drv'[t].how = drv[t].how
  BY <1>1, SettleKeeps
<1>3. Flow(t)'
  BY <1>0, <1>1, <1>2 DEF Flow
<1>4. RowOf(t)'
  BY <1>0, <1>1, <1>2 DEF RowOf, Dead
<1> QED
  BY <1>0, <1>1, <1>2, <1>3, <1>4, TurnStep

\* The abort of a detached turn's row.
LEMMA AbortRowKeeps ==
  ASSUME ChatAssumption, CInv, AbortRow
  PROVE  CInv'
<1> DEFINE t == chat.snap
<1>1. t # None /\ rows[t].status = "pending" /\ UNCHANGED <<mode, turns, reopens, chat, drv, srv, chan>>
      /\ rows' = [rows EXCEPT ![t].status = "aborted"]
  BY DEF AbortRow
<1>2. t \in 1..turns
  <2>1. chat \in Chats /\ turns \in Nat /\ turns <= MaxTurns /\ MaxTurns \in Nat
    BY DEF CInv, Types, Turns, ChatAssumption
  <2>2. t \in Ids /\ t \in Nat
    BY <1>1, <2>1 DEF Chats, Turns, Ids, None
  <2>3. drv[t].kind = "detach"
    BY <1>1, <2>2 DEF CInv, RowOf
  <2>4. ~(t > turns)
    BY <2>2, <2>3 DEF CInv, Flow
  <2> QED
    BY <2>1, <2>2, <2>4 DEF Ids
<1> HIDE DEF t
<1>3. PICK n \in 1..turns : n = t
  BY <1>2
<1>0. /\ n \in Ids /\ Flow(n) /\ RowOf(n) /\ drv[n] \in Drivers(n) /\ srv[n] \in ServerTurns(n)
      /\ srv = [u \in Ids |-> srv[u]] /\ rows \in [Ids -> Rows] /\ drv = [u \in Ids |-> drv[u]]
      /\ chat \in Chats /\ turns \in Nat /\ n <= turns /\ chan = [u \in Ids |-> chan[u]]
      /\ chan[n] \in Channels(n)
  BY TurnNumbers
<1>4. rows[n].status = "pending" /\ rows' = [rows EXCEPT ![n] = [rows[n] EXCEPT !.status = "aborted"]]
  BY <1>0, <1>1, <1>3
<1>5. [rows[n] EXCEPT !.status = "aborted"] \in Rows /\ [rows[n] EXCEPT !.status = "aborted"].status = "aborted"
  BY <1>0 DEF Rows
<1>6. rows' \in [Ids -> Rows] /\ rows'[n].status = "aborted" /\ \A u \in Ids \ {n} : rows'[u] = rows[u]
  BY <1>0, <1>4, <1>5
<1>7. Flow(n)'
  BY <1>0, <1>1 DEF Flow
<1>8. RowOf(n)'
  BY <1>0, <1>1, <1>4, <1>6 DEF RowOf, Dead
<1>9. UNCHANGED <<mode, turns, reopens, chat, drv, srv, chan>>
  BY <1>1
<1> QED
  BY <1>0, <1>4, <1>6, <1>7, <1>8, <1>9, TurnStep
\* The smaller of two numbers.
LEMMA MinOf ==
  ASSUME NEW a \in Nat, NEW b \in Nat, a <= b
  PROVE  Min({a, b}) = a
<1>1. a \in {a, b} /\ \A y \in {a, b} : a <= y
  OBVIOUS
<1>2. \A x \in {a, b} : (\A y \in {a, b} : x <= y) => x = a
  OBVIOUS
<1>3. \E x \in {a, b} : \A y \in {a, b} : x <= y
  BY <1>1
<1>4. (CHOOSE x \in {a, b} : \A y \in {a, b} : x <= y) = a
  BY <1>1, <1>2
<1> QED
  BY <1>4 DEF Min

\* What a turn adds to the view.
LEMMA TurnMessagesTyped ==
  ASSUME NEW t, NEW acc \in Seq(Msgs({t})), NEW msg \in Msgs({t}) \cup {NoMsg}
  PROVE  TurnMessages(acc, msg) \in Seq(Msgs({t}))
<1>1. CASE msg = NoMsg
  BY <1>1 DEF TurnMessages
<1>2. CASE msg # NoMsg
  <2> DEFINE A == Msgs({t})
             kept == IF acc # <<>> /\ Last(acc).role = "model" THEN Front(acc) ELSE acc
  <2>1. msg \in A /\ kept \in Seq(A)
    BY <1>2, Ending
  <2> HIDE DEF A, kept
  <2>2. Append(kept, msg) \in Seq(A)
    BY <2>1
  <2> QED
    BY <1>2, <2>2 DEF A, kept, TurnMessages
<1> QED
  BY <1>1, <1>2

\* What the view is after the output of the open turn: cut back to where the turn
\* found it, or longer by messages of the turn.
LEMMA ViewAfter ==
  ASSUME ChatAssumption, CInv, NEW t \in 1..turns, drv[t].how = "open", NEW o \in Outputs(t)
  PROVE  /\ View(chat, t, o) \in Hist
         /\ Dead(o) => \A k \in 1..Len(View(chat, t, o)) : View(chat, t, o)[k].turn # t
         /\ \A k \in 1..Len(View(chat, t, o)) :
              \/ View(chat, t, o)[k].turn = t
              \/ k \in 1..Len(chat.messages) /\ View(chat, t, o)[k] = chat.messages[k]
<1>0. Flow(t) /\ drv[t] \in Drivers(t) /\ chat \in Chats /\ turns \in Nat /\ t <= turns /\ t \in Nat
  BY TurnNumbers DEF Ids
<1>1. t = turns /\ turns > 0
  BY <1>0 DEF Flow
<1>2. OpenView
  BY DEF CInv
<1> DEFINE A == Msgs(1..turns)
           ms == chat.messages
           before == drv[t].before
<1>3. ms \in Seq(A) /\ before \in Nat
  BY <1>0 DEF Chats, Hist, Drivers
<1>4. before <= Len(ms) /\ \A k \in 1..Len(ms) : k <= before => ms[k].turn # t
  BY <1>1, <1>2 DEF OpenView
<1>5. CASE Dead(o)
  <2> HIDE DEF A, ms, before
  <2>1. Len(ms) \in Nat
    BY <1>3
  <2>2. Min({before, Len(ms)}) = before
    BY <1>3, <1>4, <2>1, MinOf
  <2>3. View(chat, t, o) = SubSeq(ms, 1, before)
    BY <1>5, <2>2 DEF View, ms, before
  <2>4. /\ SubSeq(ms, 1, before) \in Seq(A) /\ Len(SubSeq(ms, 1, before)) = before
        /\ \A k \in 1..before : SubSeq(ms, 1, before)[k] = ms[k]
    BY <1>3, <1>4, Shorter
  <2>5. \A k \in 1..before : k \in 1..Len(ms) /\ ms[k].turn # t
    BY <1>3, <1>4, <2>1
  <2> QED
    BY <2>3, <2>4, <2>5 DEF Hist, A, ms
<1>6. CASE ~Dead(o)
  <2> DEFINE own == TurnMessages(drv[t].acc, o.msg)
  <2>1. own \in Seq(Msgs({t}))
    <3>1. drv[t].acc \in Seq(Msgs({t})) /\ o.msg \in Msgs({t}) \cup {NoMsg}
      BY <1>0 DEF Drivers, Outputs
    <3> QED
      BY <3>1, TurnMessagesTyped
  <2>2. own \in Seq(A)
    BY <1>0, <2>1, OwnIsKnown DEF Hist
  <2>3. \A k \in 1..Len(own) : own[k].turn = t
    <3> HIDE DEF own
    <3>1. \A k \in 1..Len(own) : own[k] \in Msgs({t})
      BY <2>1
    <3> QED
      BY <3>1 DEF Msgs
  <2>4. View(chat, t, o) = ms \o own
    BY <1>6 DEF View
  <2> HIDE DEF own, A, ms, before
  <2>5. /\ ms \o own \in Seq(A)
        /\ \A k \in 1..Len(ms \o own) :
             \/ k \in 1..Len(ms) /\ (ms \o own)[k] = ms[k]
             \/ \E j \in 1..Len(own) : (ms \o own)[k] = own[j]
    <3>1. Len(ms) \in Nat /\ Len(own) \in Nat /\ Len(ms \o own) = Len(ms) + Len(own) /\ ms \o own \in Seq(A)
          /\ \A k \in 1..Len(ms) : (ms \o own)[k] = ms[k]
          /\ \A j \in 1..Len(own) : (ms \o own)[Len(ms) + j] = own[j]
      BY <1>3, <2>2, Longer
    <3>2. ASSUME NEW k \in 1..Len(ms \o own)
          PROVE  \/ k \in 1..Len(ms) /\ (ms \o own)[k] = ms[k]
                 \/ \E j \in 1..Len(own) : (ms \o own)[k] = own[j]
      <4> HIDE <1>4
      <4>1. CASE k <= Len(ms)
        BY <3>1, <4>1
      <4>2. CASE k > Len(ms)
        <5>1. k - Len(ms) \in 1..Len(own) /\ Len(ms) + (k - Len(ms)) = k
          BY <3>1, <4>2
        <5> QED
          BY <3>1, <5>1
      <4> QED
        BY <3>1, <4>1, <4>2
    <3> QED
      BY <3>1, <3>2
  <2>6. \A k \in 1..Len(ms \o own) :
          (ms \o own)[k].turn = t \/ (k \in 1..Len(ms) /\ (ms \o own)[k] = ms[k])
    BY <2>3, <2>5
  <2>7. ms \o own \in Hist
    BY <2>5 DEF Hist, A
  <2> QED
    BY <1>6, <2>4, <2>6, <2>7 DEF ms
<1> QED
  BY <1>5, <1>6

\* The chat after an output.
LEMMA UpdateTyped ==
  ASSUME ChatAssumption, CInv, NEW t \in 1..turns, drv[t].how = "open", NEW o \in Outputs(t),
         NEW c, c = UpdateFromOutput(chat, t, o)
  PROVE  /\ c \in Chats /\ c.messages = View(chat, t, o) /\ c.resume = ResumeRow(chat, o)
         /\ c.loaded = chat.loaded /\ c.stored = chat.stored
<1>0. t \in Ids /\ chat \in Chats /\ turns \in Nat
  BY TurnNumbers
<1> DEFINE snap == IF o.snap # None THEN o.snap ELSE chat.snap
           resume == ResumeRow(chat, o)
           messages == View(chat, t, o)
           session == IF mode = "client" \/ o.session # None THEN o.session ELSE chat.session
           custom == IF mode = "client" THEN o.custom ELSE chat.custom
           seen == IF Dead(o) \/ o.fin = "detached" THEN chat.seen ELSE chat.seen \cup {t}
<1>1. messages \in Hist
  BY ViewAfter
<1>2. snap \in Turns /\ session \in Turns /\ custom \in Custom
  BY <1>0 DEF Chats, Outputs
<1>3. resume \in Turns
  BY <1>0 DEF ResumeRow, Chats, Outputs
<1>4. seen \in SUBSET Ids
  BY <1>0 DEF Chats
<1>5. c = [chat EXCEPT !.snap = snap, !.resume = resume, !.messages = messages, !.session = session,
                       !.custom = custom, !.seen = seen]
  BY DEF UpdateFromOutput
<1> HIDE DEF snap, resume, messages, session, custom, seen
<1>6. /\ c \in Chats /\ c.messages = messages /\ c.resume = resume
      /\ c.loaded = chat.loaded /\ c.stored = chat.stored
  <2>1. chat.stored \in SUBSET Ids /\ chat.loaded \in Turns
    BY <1>0 DEF Chats
  <2>2. c = [snap |-> snap, resume |-> resume, session |-> session, messages |-> messages,
             custom |-> custom, seen |-> seen, stored |-> chat.stored, loaded |-> chat.loaded]
    BY <1>0, <1>5 DEF Chats
  <2> QED
    BY <1>1, <1>2, <1>3, <1>4, <2>1, <2>2 DEF Chats
<1> QED
  BY <1>6 DEF messages, resume
\* The output is in.
LEMMA CommitKeeps ==
  ASSUME ChatAssumption, CInv, NEW t \in 1..turns, Commit(t)
  PROVE  CInv'
<1>0. /\ t \in Ids /\ Flow(t) /\ RowOf(t) /\ drv[t] \in Drivers(t) /\ srv[t] \in ServerTurns(t)
      /\ srv = [u \in Ids |-> srv[u]] /\ rows \in [Ids -> Rows]
      /\ chat \in Chats /\ turns \in Nat /\ t <= turns /\ chan = [u \in Ids |-> chan[u]]
      /\ chan[t] \in Channels(t) /\ turns <= MaxTurns /\ MaxTurns \in Nat
  BY TurnNumbers
<1> DEFINE o == srv[t].out
<1>1. /\ drv[t].pc = "await" /\ drv[t].how = "open" /\ o \in Outputs(t)
      /\ UNCHANGED <<mode, turns, reopens, srv, chan, rows>>
  BY <1>0 DEF Commit, Flow, ServerTurns
<1>2. CASE Settle(t, "error", "done") /\ UNCHANGED chat
  <2>1. /\ drv' = [u \in Ids |-> drv'[u]] /\ \A u \in Ids \ {t} : drv'[u] = drv[u]
        /\ drv'[t] \in Drivers(t) /\ drv'[t].pc = "done" /\ drv'[t].kind = drv[t].kind
        /\ drv'[t].how = "error"
    BY <1>1, <1>2, SettleKeeps
  <2>2. Flow(t)'
    BY <1>0, <1>1, <2>1 DEF Flow
  <2>3. RowOf(t)'
    BY <1>0, <1>1, <2>1 DEF RowOf, Dead
  <2> QED
    BY <1>0, <1>1, <1>2, <2>1, <2>2, <2>3, TurnStep
<1>3. CASE Settle(t, HowOf(o), "done") /\ chat' = UpdateFromOutput(chat, t, o)
  <2>1. /\ chat' \in Chats /\ chat'.messages = View(chat, t, o) /\ chat'.resume = ResumeRow(chat, o)
        /\ chat'.loaded = chat.loaded /\ chat'.stored = chat.stored
    BY <1>1, <1>3, UpdateTyped
  <2>2. /\ View(chat, t, o) \in Hist
        /\ Dead(o) => \A k \in 1..Len(View(chat, t, o)) : View(chat, t, o)[k].turn # t
        /\ \A k \in 1..Len(View(chat, t, o)) :
             \/ View(chat, t, o)[k].turn = t
             \/ k \in 1..Len(chat.messages) /\ View(chat, t, o)[k] = chat.messages[k]
    BY <1>1, ViewAfter
  <2>3. HowOf(o) \in {"failed", "rolledBack", "result"} /\ (HowOf(o) # "result" => Dead(o))
    BY DEF HowOf, Dead
  <2>4. /\ drv' = [u \in Ids |-> drv'[u]] /\ \A u \in Ids \ {t} : drv'[u] = drv[u]
        /\ drv'[t] \in Drivers(t) /\ drv'[t].pc = "done" /\ drv'[t].kind = drv[t].kind
        /\ drv'[t].how = HowOf(o)
    BY <1>1, <1>3, <2>3, SettleKeeps
  <2> HIDE DEF o
  <2>5. Types'
    <3>1. \A u \in Ids : drv'[u] \in Drivers(u)' /\ srv'[u] \in ServerTurns(u)' /\ chan'[u] \in Channels(u)'
      <4> SUFFICES ASSUME NEW u \in Ids
                   PROVE  drv'[u] \in Drivers(u)' /\ srv'[u] \in ServerTurns(u)' /\ chan'[u] \in Channels(u)'
        OBVIOUS
      <4>1. Drivers(u)' = Drivers(u) /\ ServerTurns(u)' = ServerTurns(u) /\ Channels(u)' = Channels(u)
        BY <1>1, SameTypes
      <4>2. drv'[u] \in Drivers(u)
        BY <2>4 DEF CInv, Types
      <4> QED
        BY <1>1, <4>1, <4>2 DEF CInv, Types
    <3>2. Chats' = Chats /\ Rows' = Rows
      BY <1>0, <1>1, SameTypes
    <3> QED
      BY <1>1, <2>1, <2>4, <3>1, <3>2 DEF CInv, Types
  <2>6. ASSUME NEW u \in Ids PROVE Flow(u)' /\ RowOf(u)'
    <3>1. CASE u = t
      <4>1. Flow(t)'
        BY <1>0, <1>1, <2>3, <2>4 DEF Flow
      <4>2. RowOf(t)'
        BY <1>0, <1>1, <2>4 DEF RowOf, Dead
      <4> QED
        BY <3>1, <4>1, <4>2
    <3>2. CASE u # t
      BY <1>1, <2>4, <3>2 DEF CInv, Flow, RowOf, Dead
    <3> QED
      BY <3>1, <3>2
  <2>7. OpenView'
    <3>1. turns \in Ids /\ t = turns
      BY <1>0, <1>1 DEF Ids, Flow
    <3> QED
      BY <1>1, <2>3, <2>4, <3>1 DEF OpenView
  <2>8. NeverStuck'
    <3>1. \A u \in Ids : drv'[u].kind = drv[u].kind
      BY <2>4
    <3>2. CASE o.snap # None /\ ~Dead(o)
      <4>1. o.snap = t /\ (drv[t].kind = "detach" \/ rows[t].status = "completed") /\ chat'.resume = t
        BY <1>0, <2>1, <3>2 DEF RowOf, ResumeRow, o
      <4> QED
        BY <1>0, <1>1, <3>1, <4>1 DEF NeverStuck, Detached
    <3>3. CASE ~(o.snap # None /\ ~Dead(o))
      <4>1. chat'.resume = chat.resume
        BY <2>1, <3>3 DEF ResumeRow
      <4>2. chat.resume \in Turns
        BY <1>0 DEF Chats
      <4>3. CASE chat.resume \in {None, chat.loaded}
        BY <2>1, <4>1, <4>3 DEF NeverStuck
      <4>4. CASE chat.resume \notin {None, chat.loaded}
        <5>1. chat.resume \in Ids
          BY <1>0, <4>2, <4>4 DEF Turns, Ids, None
        <5> QED
          BY <1>1, <3>1, <4>1, <4>4, <5>1 DEF CInv, NeverStuck, Detached
      <4> QED
        BY <4>3, <4>4
    <3> QED
      BY <3>2, <3>3
  <2>9. ASSUME NEW u \in 1..turns' PROVE Left(u)'
    <3>1. u \in Ids /\ u \in 1..turns /\ Left(u)
      BY <1>0, <1>1 DEF CInv, Ids
    <3>2. CASE u = t
      BY <2>1, <2>2, <2>3, <2>4, <3>2 DEF Left
    <3>3. CASE u # t
      <4>1. \A k \in 1..Len(chat'.messages) : chat'.messages[k].turn = u =>
              k \in 1..Len(chat.messages) /\ chat'.messages[k] = chat.messages[k]
        BY <2>1, <2>2, <3>3
      <4>2. drv'[u] = drv[u] /\ chat'.stored = chat.stored
        BY <2>1, <2>4, <3>1, <3>3
      <4> QED
        BY <3>1, <4>1, <4>2 DEF Left
    <3> QED
      BY <3>2, <3>3
  <2> QED
    BY <2>5, <2>6, <2>7, <2>8, <2>9 DEF CInv
<1> QED
  BY <1>2, <1>3 DEF Commit

\* The types of a longer conversation.
LEMMA TypesGrow ==
  ASSUME turns \in Nat, turns' \in Nat, turns <= turns', NEW u
  PROVE  /\ Hist \subseteq Hist' /\ Rows \subseteq Rows' /\ Inits \subseteq Inits' /\ Chats \subseteq Chats'
         /\ Outputs(u) \subseteq Outputs(u)' /\ ServerTurns(u) \subseteq ServerTurns(u)'
         /\ Drivers(u)' = Drivers(u) /\ Channels(u)' = Channels(u) /\ Custom' = Custom
<1>1. Hist \subseteq Hist' /\ Custom' = Custom
  BY HistGrows DEF Custom
<1>2. Rows \subseteq Rows' /\ Inits \subseteq Inits' /\ Chats \subseteq Chats'
  BY <1>1 DEF Rows, Inits, Chats
<1>3. Outputs(u) \subseteq Outputs(u)'
  BY <1>1 DEF Outputs
<1>4. ServerTurns(u) \subseteq ServerTurns(u)'
  BY <1>1, <1>2, <1>3 DEF ServerTurns
<1> QED
  BY <1>1, <1>2, <1>3, <1>4 DEF Drivers, Channels

\* A turn starts.
LEMMA StartKeeps ==
  ASSUME ChatAssumption, CInv, NEW kind \in {"stream", "detach"}, NEW input \in {"prompt", "resume"},
         Start(kind, input)
  PROVE  CInv'
<1>1. PICK t : t = turns + 1
  OBVIOUS
<1>2. /\ turns < MaxTurns /\ Quiet /\ turns' = t /\ UNCHANGED <<mode, reopens, chan, rows>>
      /\ chat' = [chat EXCEPT !.messages = Optimistic(t, input)]
      /\ drv' = [drv EXCEPT ![t] = [pc |-> "unstarted", kind |-> kind, before |-> Len(chat.messages),
                                    acc |-> <<>>, how |-> "open", closed |-> FALSE]]
      /\ srv' = [srv EXCEPT ![t] = [@ EXCEPT !.init = WireInit(t, input), !.input = input,
                                             !.deaf = (kind = "detach")]]
  BY <1>1 DEF Start
<1>3. /\ Types /\ turns \in Nat /\ MaxTurns \in Nat /\ t \in Ids /\ t \in Turns /\ t > turns /\ t \in Nat
      /\ t <= MaxTurns
  BY <1>1, <1>2 DEF CInv, Types, Turns, ChatAssumption, Ids
<1>4. /\ drv[t].pc = "none" /\ drv[t].kind = "none" /\ srv[t].at = "off" /\ srv[t].out = NoOutput
      /\ Flow(t) /\ RowOf(t)
  BY <1>3 DEF CInv, Flow
<1>5. /\ chat \in Chats /\ drv = [u \in Ids |-> drv[u]] /\ srv = [u \in Ids |-> srv[u]]
      /\ srv[t] \in ServerTurns(t) /\ rows \in [Ids -> Rows] /\ mode \in {"server", "client"}
  BY <1>3 DEF Types
<1>6. /\ Hist \subseteq Hist' /\ Rows \subseteq Rows' /\ Inits \subseteq Inits' /\ Chats \subseteq Chats' /\ Custom' = Custom
      /\ \A u \in Ids : /\ ServerTurns(u) \subseteq ServerTurns(u)'
                        /\ Drivers(u)' = Drivers(u) /\ Channels(u)' = Channels(u)
  <2>1. turns' \in Nat /\ turns <= turns'
    BY <1>2, <1>3
  <2> QED
    BY <1>3, <2>1, TypesGrow
<1> DEFINE ms == chat.messages
           ns == Optimistic(t, input)
<1>7. ms \in Hist /\ ms \in Seq(Msgs(1..turns)) /\ Len(ms) \in Nat
  BY <1>5 DEF Chats, Hist
<1>8. /\ ns \in Hist' /\ Len(ns) >= Len(ms) /\ Len(ns) \in Nat
      /\ \A k \in 1..Len(ns) : IF k <= Len(ms) THEN ns[k] = ms[k] ELSE ns[k] = Prompt(t)
  <2> DEFINE B == Msgs(1..t)
             p == Prompt(t)
  <2>1. ms \in Hist' /\ Hist' = Seq(B)
    BY <1>2, <1>6, <1>7 DEF Hist
  <2>2. p \in B
    <3>1. p \in Msgs({t})
      BY Named
    <3>2. t \in 1..t
      BY <1>3
    <3> QED
      BY <3>1, <3>2 DEF Msgs
  <2>3. ns = IF input = "prompt" THEN Append(ms, p) ELSE ms
    BY DEF Optimistic
  <2> HIDE DEF B, p, ms, ns
  <2>4. /\ Append(ms, p) \in Seq(B) /\ Len(Append(ms, p)) = Len(ms) + 1
        /\ Append(ms, p)[Len(ms) + 1] = p
        /\ \A k \in 1..Len(ms) : Append(ms, p)[k] = ms[k]
    BY <2>1, <2>2, Longer
  <2>5. \A k \in 1..(Len(ms) + 1) : k <= Len(ms) => k \in 1..Len(ms)
    BY <1>7
  <2>6. \A k \in 1..(Len(ms) + 1) : ~(k <= Len(ms)) => k = Len(ms) + 1
    BY <1>7
  <2>7. CASE input = "prompt"
    BY <1>7, <2>1, <2>3, <2>4, <2>5, <2>6, <2>7 DEF p
  <2>8. CASE input # "prompt"
    BY <1>7, <2>1, <2>3, <2>8
  <2> QED
    BY <2>7, <2>8
<1>9. \A k \in 1..Len(ms) : ms[k].turn \in 1..turns /\ ms[k].turn # t
  <2> DEFINE A == Msgs(1..turns)
  <2> HIDE DEF A, ms
  <2>1. ms \in Seq(A)
    BY <1>7 DEF A
  <2>2. \A k \in 1..Len(ms) : ms[k] \in A
    BY <2>1
  <2>3. \A m \in A : m.turn \in 1..turns
    BY DEF A, Msgs
  <2>4. \A n \in 1..turns : n # t
    BY <1>1, <1>3
  <2> QED
    BY <2>2, <2>3, <2>4
<1> HIDE DEF ms, ns
<1>10. /\ chat' \in Chats' /\ chat'.messages = ns /\ chat'.resume = chat.resume
       /\ chat'.loaded = chat.loaded /\ chat'.stored = chat.stored
  <2>1. chat' = [chat EXCEPT !.messages = ns]
    BY <1>2 DEF ns
  <2>2. chat \in Chats'
    BY <1>5, <1>6
  <2>3. chat' \in Chats'
    BY <1>8, <2>1, <2>2 DEF Chats
  <2>4. chat' = [chat EXCEPT !.messages = ns] /\ chat \in Chats
    BY <1>5, <2>1
  <2> QED
    BY <2>3, <2>4 DEF Chats
<1> DEFINE fresh == [pc |-> "unstarted", kind |-> kind, before |-> Len(ms),
                     acc |-> <<>>, how |-> "open", closed |-> FALSE]
<1>11. /\ drv' = [u \in Ids |-> drv'[u]] /\ \A u \in Ids \ {t} : drv'[u] = drv[u]
       /\ drv'[t] \in Drivers(t) /\ drv'[t].pc = "unstarted" /\ drv'[t].kind = kind
       /\ drv'[t].how = "open" /\ drv'[t].before = Len(ms)
  <2>1. <<>> \in Seq(Msgs({t}))
    OBVIOUS
  <2>2. /\ fresh \in Drivers(t) /\ fresh.pc = "unstarted" /\ fresh.kind = kind
        /\ fresh.how = "open" /\ fresh.before = Len(ms)
    BY <1>7, <2>1 DEF Drivers
  <2>3. drv' = [drv EXCEPT ![t] = fresh]
    BY <1>2 DEF ms
  <2> HIDE DEF fresh
  <2> QED
    BY <1>3, <1>5, <2>2, <2>3
<1>12. /\ srv' = [u \in Ids |-> srv'[u]] /\ \A u \in Ids \ {t} : srv'[u] = srv[u]
       /\ srv'[t] \in ServerTurns(t) /\ srv'[t].at = "off" /\ srv'[t].input = input
       /\ srv'[t].out = NoOutput
  <2> DEFINE init == WireInit(t, input)
             deaf == (kind = "detach")
             next == [srv[t] EXCEPT !.init = init, !.input = input, !.deaf = deaf]
  <2>1. init \in Inits
    <3>1. NoInit \in Inits
      BY ChatAssumption DEF NoInit, Inits, Hist, Custom, None, Turns, ChatAssumption
    <3>2. None \in Turns /\ chat.session \in Turns /\ chat.messages \in Hist /\ chat.custom \in Custom /\ chat.resume \in Turns
      BY <1>5, ChatAssumption DEF Chats, None, Turns, ChatAssumption
    <3>3. [NoInit EXCEPT !.snap = chat.resume] \in Inits /\ [NoInit EXCEPT !.session = chat.session] \in Inits
      BY <3>1, <3>2 DEF Inits
    <3>4. [snap |-> None, session |-> chat.session, hist |-> chat.messages, custom |-> chat.custom] \in Inits
      BY <3>2 DEF Inits
    <3> QED
      BY <3>3, <3>4 DEF WireInit
  <2>2. srv' = [srv EXCEPT ![t] = next]
    BY <1>2
  <2> HIDE DEF init
  <2>3. deaf \in BOOLEAN
    OBVIOUS
  <2> HIDE DEF deaf
  <2>4. next \in ServerTurns(t)
    BY <1>5, <2>1, <2>3 DEF ServerTurns
  <2>5. next.at = "off" /\ next.input = input /\ next.out = NoOutput
    BY <1>4, <1>5 DEF ServerTurns
  <2> HIDE DEF next
  <2> QED
    BY <1>3, <1>5, <2>2, <2>4, <2>5
<1>13. Types'
  <2>1. ASSUME NEW u \in Ids
        PROVE  drv'[u] \in Drivers(u)' /\ srv'[u] \in ServerTurns(u)' /\ chan'[u] \in Channels(u)'
    <3>1. drv'[u] \in Drivers(u) /\ srv'[u] \in ServerTurns(u) /\ chan'[u] \in Channels(u)
      BY <1>2, <1>3, <1>11, <1>12 DEF Types
    <3> QED
      BY <1>6, <3>1
  <2>2. rows' \in [Ids -> Rows']
    BY <1>2, <1>5, <1>6
  <2>3. chan' = [u \in Ids |-> chan'[u]] /\ reopens' \in Nat /\ turns' \in Turns /\ mode' \in {"server", "client"}
    BY <1>2, <1>3 DEF Types
  <2> QED
    BY <1>10, <1>11, <1>12, <2>1, <2>2, <2>3 DEF Types, Turns
<1>14. ASSUME NEW u \in Ids PROVE Flow(u)' /\ RowOf(u)'
  <2>1. CASE u = t
    <3>1. Flow(t)'
      BY <1>2, <1>3, <1>11, <1>12 DEF Flow
    <3>2. RowOf(t)'
      BY <1>2, <1>4, <1>12, NoAnswers DEF RowOf, Dead
    <3> QED
      BY <2>1, <3>1, <3>2
  <2>2. CASE u # t
    <3>1. drv'[u] = drv[u] /\ srv'[u] = srv[u] /\ rows' = rows /\ Flow(u) /\ RowOf(u)
      BY <1>2, <1>11, <1>12, <2>2 DEF CInv
    <3>2. RowOf(u)'
      BY <3>1 DEF RowOf, Dead
    <3>3. u \in Nat /\ u >= 1 /\ (u > turns <=> u > turns') /\ (u <= turns <=> u <= turns')
      BY <1>1, <1>2, <1>3, <2>2 DEF Ids
    <3>4. u <= turns => drv[u].how # "open"
      BY <1>2, <1>3, <3>1, <3>3 DEF Flow, Quiet
    <3>5. Flow(u)'
      BY <3>1, <3>3, <3>4 DEF Flow
    <3> QED
      BY <3>2, <3>5
  <2> QED
    BY <2>1, <2>2
<1>15. OpenView'
  <2>1. drv'[turns'].before = Len(ms) /\ chat'.messages = ns
    BY <1>2, <1>10, <1>11
  <2>2. \A k \in 1..Len(ns) : IF k <= Len(ms) THEN ns[k].turn # t ELSE ns[k] = Prompt(t)
    <3>1. \A k \in 1..Len(ns) : k <= Len(ms) => k \in 1..Len(ms)
      BY <1>7, <1>8
    <3> QED
      BY <1>8, <1>9, <3>1
  <2> QED
    BY <1>2, <1>8, <2>1, <2>2 DEF OpenView
<1>16. NeverStuck'
  <2>1. CASE chat.resume \in {None, chat.loaded}
    BY <1>10, <2>1 DEF NeverStuck
  <2>2. CASE chat.resume \notin {None, chat.loaded}
    <3>1. chat.resume \in Ids
      BY <1>3, <1>5, <2>2 DEF Chats, Turns, Ids, None
    <3>2. Detached(chat.resume) \/ rows[chat.resume].status = "completed"
      BY <2>2 DEF CInv, NeverStuck
    <3>3. chat.resume # t
      BY <1>4, <3>2 DEF Detached, RowOf
    <3>4. drv'[chat.resume] = drv[chat.resume]
      BY <1>11, <3>1, <3>3
    <3> QED
      BY <1>2, <1>10, <3>2, <3>4 DEF NeverStuck, Detached
  <2> QED
    BY <2>1, <2>2
<1>17. ASSUME NEW u \in 1..turns' PROVE Left(u)'
  <2>1. CASE u = t
    BY <1>11, <2>1 DEF Left
  <2>2. CASE u # t
    <3>1. u \in 1..turns /\ u \in Ids
      BY <1>1, <1>2, <1>3, <2>2 DEF Ids
    <3>2. Left(u) /\ drv'[u] = drv[u]
      BY <1>11, <2>2, <3>1 DEF CInv
    <3>3. \A k \in 1..Len(ns) : ns[k].turn = u => k \in 1..Len(ms) /\ ns[k] = ms[k]
      <4>1. Prompt(t).turn # u
        BY <2>2 DEF Prompt
      <4>2. \A k \in 1..Len(ns) : k <= Len(ms) => k \in 1..Len(ms)
        BY <1>7, <1>8
      <4> QED
        BY <1>8, <4>1, <4>2
    <3> QED
      BY <1>10, <3>2, <3>3 DEF Left, ms
  <2> QED
    BY <2>1, <2>2
<1> QED
  BY <1>13, <1>14, <1>15, <1>16, <1>17 DEF CInv
\* A chat is opened while no turn is under way.
LEMMA ChatOpened ==
  ASSUME ChatAssumption, CInv, Quiet, UNCHANGED <<mode, turns, drv, srv, chan, rows>>,
         reopens' = reopens + 1, chat' \in Chats, NeverStuck', \A t \in 1..turns : Left(t)'
  PROVE  CInv'
<1>1. Types'
  <2>1. \A u \in Ids : drv'[u] \in Drivers(u)' /\ srv'[u] \in ServerTurns(u)' /\ chan'[u] \in Channels(u)'
    <3> SUFFICES ASSUME NEW u \in Ids
                 PROVE  drv'[u] \in Drivers(u)' /\ srv'[u] \in ServerTurns(u)' /\ chan'[u] \in Channels(u)'
      OBVIOUS
    <3>1. Drivers(u)' = Drivers(u) /\ ServerTurns(u)' = ServerTurns(u) /\ Channels(u)' = Channels(u)
      BY SameTypes
    <3> QED
      BY <3>1 DEF CInv, Types
  <2>2. Chats' = Chats /\ Rows' = Rows
    BY DEF Chats, Rows, Hist
  <2>3. reopens' \in Nat
    BY DEF CInv, Types
  <2> QED
    BY <2>1, <2>2, <2>3 DEF CInv, Types
<1>2. \A t \in Ids : Flow(t)' /\ RowOf(t)'
  BY DEF CInv, Flow, RowOf, Dead
<1>3. OpenView'
  BY DEF OpenView, Quiet
<1> QED
  BY <1>1, <1>2, <1>3 DEF CInv

\* agent.chat(session_id=...)
LEMMA OpenSessionKeeps ==
  ASSUME ChatAssumption, CInv, OpenSession
  PROVE  CInv'
<1>1. /\ Quiet /\ reopens' = reopens + 1 /\ chat' = [NewChat EXCEPT !.session = chat.session]
      /\ UNCHANGED <<mode, turns, drv, srv, chan, rows>> /\ chat \in Chats
  BY DEF OpenSession, CInv, Types
<1>2. NewChat \in Chats /\ NewChat.messages = <<>> /\ NewChat.resume = None
  BY ChatAssumption DEF NewChat, Chats, Hist, Custom, None, Turns, ChatAssumption
<1>3. chat' \in Chats /\ chat'.messages = <<>> /\ chat'.resume = None
  BY <1>1, <1>2 DEF Chats
<1>4. NeverStuck'
  BY <1>3 DEF NeverStuck
<1>5. \A t \in 1..turns : Left(t)'
  BY <1>3 DEF Left
<1> QED
  BY <1>1, <1>3, <1>4, <1>5, ChatOpened

\* load_chat: whatever the row has is stored, not left over.
LEMMA LoadChatKeeps ==
  ASSUME ChatAssumption, CInv, LoadChat
  PROVE  CInv'
<1>1. Quiet /\ reopens' = reopens + 1 /\ UNCHANGED <<mode, turns, drv, srv, chan, rows>>
  BY DEF LoadChat
<1>2. PICK r \in Ids :
        chat' = [snap |-> r, resume |-> r, session |-> rows[r].session, messages |-> rows[r].hist,
                 custom |-> rows[r].custom, seen |-> {}, stored |-> TurnsIn(rows[r].hist), loaded |-> r]
  BY DEF LoadChat
<1>3. rows[r] \in Rows /\ turns \in Nat /\ turns <= MaxTurns /\ MaxTurns \in Nat /\ r \in Turns
  BY ChatAssumption DEF CInv, Types, Turns, ChatAssumption, Ids
<1> DEFINE hist == rows[r].hist
<1>4. hist \in Hist /\ rows[r].session \in Turns /\ rows[r].custom \in Custom
  BY <1>3 DEF Rows
<1>5. TurnsIn(hist) \subseteq Ids /\ \A k \in 1..Len(hist) : hist[k].turn \in TurnsIn(hist)
  <2> DEFINE A == Msgs(1..turns)
  <2>1. hist \in Seq(A)
    BY <1>4 DEF Hist
  <2>2. \A m \in A : m.turn \in Ids
    BY <1>3 DEF Msgs, Ids
  <2> HIDE DEF A, hist
  <2>3. ToSet(hist) \subseteq A /\ \A k \in 1..Len(hist) : hist[k] \in ToSet(hist)
    BY <2>1 DEF ToSet
  <2> QED
    BY <2>2, <2>3 DEF TurnsIn
<1>6. /\ chat' \in Chats /\ chat'.messages = hist /\ chat'.stored = TurnsIn(hist)
      /\ chat'.resume = r /\ chat'.loaded = r
  BY <1>2, <1>3, <1>4, <1>5 DEF Chats
<1>7. NeverStuck'
  BY <1>6 DEF NeverStuck
<1>8. \A t \in 1..turns : Left(t)'
  BY <1>5, <1>6 DEF Left
<1> QED
  BY <1>1, <1>6, <1>7, <1>8, ChatOpened

\* The invariant holds at the start.
LEMMA CInvInit ==
  ASSUME ChatAssumption, Init
  PROVE  CInv
<1>1. /\ <<>> \in Hist /\ {} \in Custom /\ None \in Turns /\ 0 \in Turns /\ None = 0 /\ MaxTurns \in Nat
      /\ mode \in {"server", "client"}
  BY DEF Init, Hist, Custom, None, Turns, ChatAssumption
<1>2. chat \in Chats /\ chat.resume = None
  BY <1>1 DEF Init, NewChat, Chats
<1>3. NoInit \in Inits
  BY <1>1 DEF NoInit, Inits
<1>4. NoRow \in Rows
  BY <1>1 DEF NoRow, Rows
<1>5. ASSUME NEW t \in Ids
      PROVE  /\ drv[t] \in Drivers(t) /\ srv[t] \in ServerTurns(t) /\ chan[t] \in Channels(t)
             /\ drv[t].pc = "none" /\ drv[t].kind = "none" /\ drv[t].how = "open"
             /\ srv[t].at = "off" /\ srv[t].out = NoOutput /\ rows[t] = NoRow
  <2>1. drv[t] = [pc |-> "none", kind |-> "none", before |-> 0, acc |-> <<>>,
                  how |-> "open", closed |-> FALSE]
    BY DEF Init
  <2>2. drv[t] \in Drivers(t)
    BY <2>1 DEF Drivers
  <2>3. srv[t] = NoTurn /\ chan[t] = <<>> /\ rows[t] = NoRow
    BY DEF Init
  <2>4. <<>> \in Channels(t)
    BY DEF Channels
  <2>5. NoTurn \in ServerTurns(t) /\ NoTurn.at = "off" /\ NoTurn.out = NoOutput
    BY <1>1, <1>3, NoAnswers DEF NoTurn, ServerTurns
  <2> QED
    BY <2>1, <2>2, <2>3, <2>4, <2>5
<1>6. Types
  <2>1. /\ drv = [t \in Ids |-> drv[t]] /\ srv = [t \in Ids |-> srv[t]] /\ chan = [t \in Ids |-> chan[t]]
        /\ rows \in [Ids -> Rows]
    BY <1>4 DEF Init
  <2> QED
    BY <1>1, <1>2, <1>5, <2>1 DEF Types, Init
<1>7. turns = 0
  BY DEF Init
<1>8. ASSUME NEW t \in Ids PROVE Flow(t) /\ RowOf(t)
  <2>1. t > turns /\ ~(t <= turns)
    BY <1>1, <1>7 DEF Ids
  <2>2. Flow(t)
    BY <1>5, <2>1 DEF Flow
  <2>3. NoRow.status = "absent"
    BY DEF NoRow
  <2> QED
    BY <1>5, <2>2, <2>3, NoAnswers DEF RowOf
<1> QED
  BY <1>2, <1>6, <1>7, <1>8 DEF CInv, OpenView, NeverStuck

\* Every step keeps the invariant.
LEMMA CInvNext ==
  ASSUME ChatAssumption, CInv, [Next]_vars
  PROVE  CInv'
<1>1. CASE Send \/ Detach
  BY <1>1, StartKeeps DEF Send, Detach
<1>2. CASE AbortRow
  BY <1>2, AbortRowKeeps
<1>3. CASE OpenSession
  BY <1>3, OpenSessionKeeps
<1>4. CASE LoadChat
  BY <1>4, LoadChatKeeps
<1>5. ASSUME NEW t \in 1..turns, Client(t) \/ Server(t) \/ Round(t) \/ Update(t) \/ Break(t) \/ AbortTurn(t)
      PROVE  CInv'
  <2>1. CASE Client(t)
    BY <2>1, RunTurnKeeps, PumpKeeps, CommitKeeps, DeliverCancelKeeps DEF Client
  <2>2. CASE Server(t)
    BY <2>2, LoadKeeps, ResumedKeeps, EndKeeps DEF Server
  <2>3. CASE Round(t) \/ Update(t) \/ Break(t) \/ AbortTurn(t)
    BY <2>3, RoundKeeps, UpdateKeeps, BreakKeeps, AbortTurnKeeps
  <2> QED
    BY <1>5, <2>1, <2>2, <2>3
<1>6. CASE UNCHANGED vars
  <2>1. UNCHANGED <<mode, turns, reopens, chat, drv, srv, chan, rows>>
    BY <1>6 DEF vars
  <2>2. Types'
    <3>1. \A u \in Ids : Drivers(u)' = Drivers(u) /\ ServerTurns(u)' = ServerTurns(u) /\ Channels(u)' = Channels(u)
      BY <2>1, SameTypes
    <3>2. Chats' = Chats /\ Rows' = Rows
      BY <2>1 DEF Chats, Rows, Hist
    <3> QED
      BY <2>1, <3>1, <3>2 DEF CInv, Types
  <2> QED
    BY <2>1, <2>2 DEF CInv, OpenView, NeverStuck, Flow, RowOf, Left, Dead, Detached
<1> QED
  BY <1>1, <1>2, <1>3, <1>4, <1>5, <1>6 DEF Next

\* What the invariant says of the turns without an answer.
LEMMA LeftOver ==
  ASSUME ChatAssumption, CInv
  PROVE  LostTurnsUndone
<1>1. chat \in Chats /\ turns \in Nat
  BY DEF CInv, Types, Turns, ChatAssumption
<1>2. ASSUME NEW t \in 1..turns, t \notin chat.stored
      PROVE  LET left == {m \in ToSet(chat.messages) : m.turn = t} IN
             /\ drv[t].how \in {"failed", "rolledBack"} => left = {}
             /\ drv[t].how = "cancelled" => left \subseteq {Prompt(t)}
  <2> DEFINE ms == chat.messages
  <2>1. Left(t)
    BY DEF CInv
  <2>2. ms \in Seq(Msgs(1..turns))
    BY <1>1 DEF Chats, Hist
  <2>3. \A m \in ToSet(ms) : \E k \in 1..Len(ms) : ms[k] = m
    <3> HIDE DEF ms
    <3> QED
      BY <2>2 DEF ToSet
  <2> QED
    BY <1>2, <2>1, <2>3 DEF Left
<1>3. UnansweredTurns
  BY <1>2 DEF UnansweredTurns
<1> QED
  BY <1>3 DEF LostTurnsUndone, CInv

\* However a turn fails, the chat goes on from what the last good one left: for any number
\* of turns, rounds and chats, and in every interleaving of the client's task, the server's
\* turn, the caller's abort and a broken connection (TurnDriver.run,
\* AgentChat._commit_output, AgentChat._rollback_optimistic).
THEOREM LostTurnsUndoneHolds == Spec => []LostTurnsUndone
<1>1. Init => CInv
  BY ChatAssumption, CInvInit
<1>2. CInv /\ [Next]_vars => CInv'
  BY ChatAssumption, CInvNext
<1>3. CInv => LostTurnsUndone
  BY ChatAssumption, LeftOver
<1> QED
  BY <1>1, <1>2, <1>3, PTL DEF Spec

-----------------------------------------------------------------------------
(* The custom state.  What the client has patched together and the patches that wait for   *)
(* it make the state of the server's turn, or of its row once the turn is over.           *)

Patches(s) == {k \in DOMAIN s : s[k].kind = "patch"}
Pending(s) == UNION {s[k].custom : k \in Patches(s)}
Rebases(s) == \E k \in Patches(s) : s[k].op = "replace"
RebaseIsFirst(s) == \A j, k \in Patches(s) : s[k].op = "replace" => k <= j

\* A turn of a chat whose client still listens, and whose answer has not failed to come.
Listened(t) ==
  mode = "server" /\ drv[t].how = "open" /\ drv[t].kind # "detach" /\ srv[t].out # Raised

Now(t) == IF srv[t].at = "done" THEN rows[t].custom ELSE srv[t].custom

Tracked(t) ==
  /\ ~srv[t].deaf
  /\ srv[t].at # "done" => /\ srv[t].out = NoOutput /\ drv[t].pc # "await"
                           /\ \A k \in DOMAIN chan[t] : chan[t][k].kind # "turnEnd"
  /\ srv[t].at \in {"off", "load"} => srv[t].updates = 0
  /\ srv[t].updates = 0 => Patches(chan[t]) = {}
  /\ \A k \in DOMAIN chan[t] : chan[t][k].kind = "turnEnd" => k = Len(chan[t])
  /\ drv[t].pc = "await" => chan[t] = <<>>
  /\ srv[t].updates > 0 =>
       /\ RebaseIsFirst(chan[t])
       /\ Now(t) = Pending(chan[t]) \cup (IF Rebases(chan[t]) THEN {} ELSE chat.custom)

\* A detached turn has no output but that it was detached, so the chat never counts it as seen;
\* any other has one when it is over, unless the connection broke.
OutputTells(t) ==
  /\ drv[t].kind = "detach" =>
       /\ srv[t].at \in {"resume", "run"} => srv[t].out.fin = "detached"
       /\ srv[t].out \in {NoOutput, Raised} \/ srv[t].out.fin \in {"failed", "detached"}
  /\ drv[t].kind # "detach" => srv[t].out \in {NoOutput, Raised} \/ srv[t].at = "done"

\* What the chat has seen to its end is over on the server as well.
SeenIsOver(t) ==
  t \in chat.seen =>
    /\ srv[t].at = "done" /\ drv[t].how # "open"
    /\ mode = "server" /\ srv[t].updates > 0 => chat.custom = rows[t].custom

StateInv ==
  /\ \A t \in Ids : t > turns => srv[t] = NoTurn /\ chan[t] = <<>>
  /\ \A t \in chat.seen : t <= turns
  /\ \A t \in 1..turns : OutputTells(t)
  /\ turns > 0 => SeenIsOver(turns) /\ (Listened(turns) => Tracked(turns))

\* What goes behind a stream and is no patch leaves the patches in it as they are.
LEMMA PatchesStay ==
  ASSUME NEW C, NEW s \in Seq(C), NEW cs \in Seq(C), \A k \in DOMAIN cs : cs[k].kind # "patch"
  PROVE  /\ Patches(s \o cs) = Patches(s) /\ Pending(s \o cs) = Pending(s)
         /\ Rebases(s \o cs) = Rebases(s) /\ RebaseIsFirst(s \o cs) = RebaseIsFirst(s)
<1> DEFINE z == s \o cs
<1>1. /\ Len(s) \in Nat /\ Len(cs) \in Nat /\ DOMAIN s = 1..Len(s) /\ DOMAIN z = 1..(Len(s) + Len(cs))
      /\ DOMAIN cs = 1..Len(cs)
      /\ \A k \in 1..Len(s) : z[k] = s[k]
      /\ \A k \in 1..Len(cs) : z[Len(s) + k] = cs[k]
  OBVIOUS
<1>2. \A k \in DOMAIN z : k \in DOMAIN s \/ z[k].kind # "patch"
  <2> SUFFICES ASSUME NEW k \in DOMAIN z, k \notin DOMAIN s PROVE z[k].kind # "patch"
    OBVIOUS
  <2>1. k - Len(s) \in 1..Len(cs) /\ k = Len(s) + (k - Len(s))
    BY <1>1
  <2>2. z[k] = cs[k - Len(s)]
    BY <1>1, <2>1
  <2> QED
    BY <1>1, <2>1, <2>2
<1> HIDE DEF z
<1>3. \A k \in DOMAIN s : k \in DOMAIN z /\ z[k] = s[k]
  BY <1>1
<1>4. Patches(z) = Patches(s)
  BY <1>2, <1>3 DEF Patches
<1>5. \A k \in Patches(s) : z[k] = s[k]
  BY <1>3 DEF Patches
<1>6. {z[k].custom : k \in Patches(z)} = {s[k].custom : k \in Patches(s)}
  BY <1>4, <1>5
<1>7. Pending(z) = Pending(s)
  BY <1>6 DEF Pending
<1>8. Rebases(z) = Rebases(s) /\ RebaseIsFirst(z) = RebaseIsFirst(s)
  BY <1>4, <1>5 DEF Rebases, RebaseIsFirst
<1> QED
  BY <1>4, <1>7, <1>8 DEF z

\* A patch behind a stream.
LEMMA PatchAdded ==
  ASSUME NEW C, NEW s \in Seq(C), NEW c \in C, c.kind = "patch"
  PROVE  LET z == s \o <<c>> IN
         /\ Patches(z) = Patches(s) \cup {Len(s) + 1}
         /\ Pending(z) = Pending(s) \cup c.custom
         /\ (Rebases(z) <=> Rebases(s) \/ c.op = "replace")
         /\ RebaseIsFirst(s) /\ (c.op = "replace" => Patches(s) = {}) => RebaseIsFirst(z)
<1> DEFINE z == s \o <<c>>
           n == Len(s) + 1
<1>1. /\ Len(s) \in Nat /\ DOMAIN s = 1..Len(s) /\ DOMAIN z = 1..n /\ z[n] = c
      /\ \A k \in 1..Len(s) : z[k] = s[k]
  OBVIOUS
<1>2. DOMAIN z = DOMAIN s \cup {n} /\ n \notin DOMAIN s /\ \A k \in DOMAIN s : z[k] = s[k] /\ k <= n
  BY <1>1
<1>3. z[n] = c /\ n \in Int
  BY <1>1
<1> HIDE DEF z, n
<1>4. Patches(z) = Patches(s) \cup {n}
  BY <1>2, <1>3 DEF Patches
<1>5. Patches(s) \subseteq DOMAIN s
  BY DEF Patches
<1>6. {z[k].custom : k \in Patches(z)} = {s[k].custom : k \in Patches(s)} \cup {c.custom}
  BY <1>2, <1>3, <1>4, <1>5
<1>7. Pending(z) = Pending(s) \cup c.custom
  BY <1>6 DEF Pending
<1>8. (Rebases(z) <=> Rebases(s) \/ c.op = "replace")
  BY <1>2, <1>3, <1>4, <1>5 DEF Rebases
<1>9. ASSUME RebaseIsFirst(s), c.op = "replace" => Patches(s) = {} PROVE RebaseIsFirst(z)
  <2> SUFFICES ASSUME NEW j \in Patches(z), NEW k \in Patches(z), z[k].op = "replace" PROVE k <= j
    BY DEF RebaseIsFirst
  <2>1. CASE k = n
    BY <1>3, <1>4, <1>9, <2>1
  <2>2. CASE k # n /\ j = n
    BY <1>2, <1>4, <1>5, <2>2
  <2>3. CASE k # n /\ j # n
    BY <1>2, <1>4, <1>5, <1>9, <2>3 DEF RebaseIsFirst
  <2> QED
    BY <2>1, <2>2, <2>3
<1> QED
  BY <1>4, <1>7, <1>8, <1>9 DEF z, n

\* Taking the first chunk of a stream: a patch adds to the client's state what it took from the
\* stream, or sets it, and then none before it was lost.
LEMMA PatchTaken ==
  ASSUME NEW C, NEW s \in Seq(C), s # <<>>, RebaseIsFirst(s), NEW custom, NEW next,
         next = IF Head(s).kind = "patch" THEN ApplyPatch(custom, Head(s)) ELSE custom
  PROVE  LET z == Tail(s) IN
         /\ RebaseIsFirst(z)
         /\ Pending(z) \cup (IF Rebases(z) THEN {} ELSE next)
              = Pending(s) \cup (IF Rebases(s) THEN {} ELSE custom)
<1> DEFINE z == Tail(s)
           c == Head(s)
<1>1. /\ Len(s) \in Nat /\ Len(s) >= 1 /\ DOMAIN s = 1..Len(s) /\ DOMAIN z = 1..(Len(s) - 1) /\ s[1] = c
      /\ \A k \in 1..(Len(s) - 1) : z[k] = s[k + 1]
  OBVIOUS
<1>2. /\ \A k \in DOMAIN z : k + 1 \in DOMAIN s /\ z[k] = s[k + 1] /\ k \in Int /\ k + 1 # 1
      /\ \A k \in DOMAIN s : k = 1 \/ (k - 1 \in DOMAIN z /\ k = (k - 1) + 1)
      /\ 1 \in DOMAIN s /\ s[1] = c /\ \A k \in DOMAIN s : k \in Int /\ k >= 1
  BY <1>1
<1> HIDE DEF z, c
<1>3. /\ \A k \in Patches(z) : k + 1 \in Patches(s) /\ z[k] = s[k + 1] /\ k \in Int /\ k + 1 # 1
      /\ \A k \in Patches(s) : k = 1 \/ (k - 1 \in Patches(z) /\ z[k - 1] = s[k])
      /\ 1 \in Patches(s) <=> c.kind = "patch"
      /\ \A k \in Patches(s) : k \in Int /\ k >= 1
  <2>1. ASSUME NEW k \in Patches(z)
        PROVE  k + 1 \in Patches(s) /\ z[k] = s[k + 1] /\ k \in Int /\ k + 1 # 1
    BY <1>2 DEF Patches
  <2>2. ASSUME NEW k \in Patches(s), k # 1 PROVE k - 1 \in Patches(z) /\ z[k - 1] = s[k]
    <3>1. k \in DOMAIN s /\ k - 1 \in DOMAIN z /\ k = (k - 1) + 1 /\ s[k].kind = "patch"
      BY <1>2, <2>2 DEF Patches
    <3>2. z[k - 1] = s[k]
      BY <1>2, <3>1
    <3> QED
      BY <3>1, <3>2 DEF Patches
  <2>3. 1 \in Patches(s) <=> c.kind = "patch"
    BY <1>2 DEF Patches
  <2>4. \A k \in Patches(s) : k \in Int /\ k >= 1
    BY <1>2 DEF Patches
  <2> QED
    BY <2>1, <2>2, <2>3, <2>4
<1>4. RebaseIsFirst(z)
  <2> SUFFICES ASSUME NEW j \in Patches(z), NEW k \in Patches(z), z[k].op = "replace" PROVE k <= j
    BY DEF RebaseIsFirst
  <2>1. k + 1 <= j + 1
    BY <1>3 DEF RebaseIsFirst
  <2> QED
    BY <1>3, <2>1
<1>5. CASE c.kind # "patch"
  <2>1. {z[k].custom : k \in Patches(z)} = {s[k].custom : k \in Patches(s)}
    <3>1. \A k \in Patches(z) : \E j \in Patches(s) : s[j].custom = z[k].custom
      BY <1>3
    <3>2. \A j \in Patches(s) : \E k \in Patches(z) : z[k].custom = s[j].custom
      BY <1>3, <1>5
    <3> QED
      BY <3>1, <3>2
  <2>2. Rebases(z) = Rebases(s)
    BY <1>3, <1>5 DEF Rebases
  <2> QED
    BY <1>4, <1>5, <2>1, <2>2 DEF Pending, z, c
<1>6. CASE c.kind = "patch"
  <2>1. {s[k].custom : k \in Patches(s)} = {z[k].custom : k \in Patches(z)} \cup {c.custom}
    <3>1. \A k \in Patches(z) : \E j \in Patches(s) : s[j].custom = z[k].custom
      BY <1>3
    <3>2. \A j \in Patches(s) : s[j].custom = c.custom \/ \E k \in Patches(z) : z[k].custom = s[j].custom
      BY <1>2, <1>3
    <3>3. 1 \in Patches(s) /\ s[1].custom = c.custom
      BY <1>2, <1>3, <1>6
    <3> QED
      BY <3>1, <3>2, <3>3
  <2>2. Pending(s) = Pending(z) \cup c.custom
    BY <2>1 DEF Pending
  <2>3. ~Rebases(z)
    <3> SUFFICES ASSUME NEW k \in Patches(z), z[k].op = "replace" PROVE FALSE
      BY DEF Rebases
    <3>1. k + 1 <= 1
      BY <1>3, <1>6 DEF RebaseIsFirst
    <3>2. k + 1 \in Patches(s) /\ k + 1 \in Int /\ k + 1 >= 1 /\ k + 1 # 1
      BY <1>3
    <3> QED
      BY <3>1, <3>2
  <2>4. Rebases(s) <=> c.op = "replace"
    BY <1>2, <1>3, <1>6, <2>3 DEF Rebases
  <2>5. next = IF c.op = "replace" THEN c.custom ELSE custom \cup c.custom
    BY <1>6 DEF ApplyPatch, c
  <2>6. Pending(z) \cup (IF Rebases(z) THEN {} ELSE next) = Pending(s) \cup (IF Rebases(s) THEN {} ELSE custom)
    BY <2>2, <2>3, <2>4, <2>5
  <2> QED
    BY <1>4, <2>6 DEF z
<1> QED
  BY <1>5, <1>6

\* A turn that is still going on, or whose driver waits, was not seen to its end.
LEMMA NotYetSeen ==
  ASSUME StateInv, turns > 0, srv[turns].at # "done" \/ drv[turns].how = "open"
  PROVE  turns \notin chat.seen
BY DEF StateInv, SeenIsOver

\* A step of one turn leaves what the other turns say of the custom state.
LEMMA StateOfOne ==
  ASSUME ChatAssumption, CInv, StateInv, NEW t \in 1..turns,
         UNCHANGED <<mode, turns>>,
         \A u \in Ids \ {t} : drv'[u] = drv[u] /\ srv'[u] = srv[u] /\ chan'[u] = chan[u] /\ rows'[u] = rows[u],
         t # turns => chat'.custom = chat.custom /\ chat'.seen = chat.seen,
         chat'.seen \subseteq chat.seen \cup {t},
         OutputTells(t)',
         t = turns => SeenIsOver(t)' /\ (Listened(t)' => Tracked(t)')
  PROVE  StateInv'
<1>1. turns \in Nat /\ turns <= MaxTurns /\ MaxTurns \in Nat /\ t \in Ids /\ t <= turns /\ turns \in Ids
  BY DEF CInv, Types, Turns, ChatAssumption, Ids
<1>2. \A u \in Ids : u > turns' => srv'[u] = NoTurn /\ chan'[u] = <<>>
  BY <1>1 DEF StateInv
<1>3. \A u \in chat'.seen : u <= turns'
  BY <1>1 DEF StateInv
<1>4. ASSUME NEW u \in 1..turns' PROVE OutputTells(u)'
  <2>1. u \in Ids /\ OutputTells(u)
    BY <1>1, <1>4 DEF StateInv, Ids
  <2> QED
    BY <2>1 DEF OutputTells
<1>5. SeenIsOver(turns)' /\ (Listened(turns)' => Tracked(turns)')
  <2>1. CASE t = turns
    BY <2>1
  <2>2. CASE t # turns
    <3>1. turns \in Ids \ {t} /\ SeenIsOver(turns) /\ (Listened(turns) => Tracked(turns))
      BY <1>1, <2>2 DEF StateInv
    <3>2. SeenIsOver(turns)'
      BY <2>2, <3>1 DEF SeenIsOver
    <3>3. Listened(turns)' => Tracked(turns)'
      BY <2>2, <3>1 DEF Listened, Tracked, Now
    <3> QED
      BY <3>2, <3>3
  <2> QED
    BY <2>1, <2>2
<1> QED
  BY <1>2, <1>3, <1>4, <1>5 DEF StateInv

\* What a turn of the server adds to the stream of one who listens.
LEMMA Streamed ==
  ASSUME ChatAssumption, CInv, NEW t \in 1..turns, NEW cs, Emit(t, cs)
  PROVE  /\ chan'[t] = IF srv[t].deaf THEN chan[t] ELSE chan[t] \o cs
         /\ \A u \in Ids \ {t} : chan'[u] = chan[u]
<1>1. t \in Ids /\ chan = [u \in Ids |-> chan[u]]
  BY TurnNumbers
<1> QED
  BY <1>1 DEF Emit

\* What is streamed of a message is no patch and not the end.
LEMMA PiecesOnly ==
  ASSUME NEW m, NEW way
  PROVE  \A k \in DOMAIN Chunks(m, way) : Chunks(m, way)[k].kind = "message"
<1>1. CASE m.role = "tool" \/ way = "whole"
  BY <1>1 DEF Chunks, Piece
<1>2. CASE ~(m.role = "tool" \/ way = "whole")
  BY <1>2 DEF Chunks
<1> QED
  BY <1>1, <1>2

\* A step of a turn on the server that goes on: it streams messages, and the state stays.
LEMMA GoesOn ==
  ASSUME ChatAssumption, CInv, StateInv, NEW t \in 1..turns, srv[t].at \in {"resume", "run"},
         UNCHANGED <<mode, turns, chat, drv, rows>>,
         NEW cs \in Channels(t), \A k \in DOMAIN cs : cs[k].kind = "message", Emit(t, cs),
         \A u \in Ids \ {t} : srv'[u] = srv[u],
         srv'[t].at = "run", srv'[t].deaf = srv[t].deaf, srv'[t].out = srv[t].out,
         srv'[t].updates = srv[t].updates, srv'[t].custom = srv[t].custom
  PROVE  StateInv'
<1>1. t \in Ids /\ chan[t] \in Channels(t)
  BY TurnNumbers
<1>2. chan'[t] = (IF srv[t].deaf THEN chan[t] ELSE chan[t] \o cs) /\ \A u \in Ids \ {t} : chan'[u] = chan[u]
  BY Streamed
<1>3. OutputTells(t)'
  BY DEF StateInv, OutputTells
<1>4. ASSUME t = turns, Listened(t)' PROVE Tracked(t)'
  <2>1. turns > 0 /\ Tracked(t) /\ ~srv[t].deaf
    BY <1>1, <1>4 DEF StateInv, Listened, Tracked, Ids
  <2> DEFINE s == chan[t]
             z == s \o cs
             C == [kind : {"patch"}, op : {"replace", "delta"}, custom : Custom]
                  \cup [kind : {"message"}, msg : Msgs({t})] \cup {TurnEnd, Broken}
  <2>2. chan'[t] = z /\ s \in Seq(C) /\ cs \in Seq(C)
    BY <1>1, <1>2, <2>1 DEF Channels
  <2> HIDE DEF C
  <2>3. /\ Patches(z) = Patches(s) /\ Pending(z) = Pending(s)
        /\ Rebases(z) = Rebases(s) /\ RebaseIsFirst(z) = RebaseIsFirst(s)
    BY <2>2, PatchesStay
  <2>4. \A k \in DOMAIN z : z[k].kind # "turnEnd"
    <3>1. \A k \in DOMAIN s : s[k].kind # "turnEnd"
      BY <2>1 DEF Tracked
    <3>2. \A k \in DOMAIN z : (k \in DOMAIN s /\ z[k] = s[k]) \/ \E j \in DOMAIN cs : z[k] = cs[j]
      <4> SUFFICES ASSUME NEW k \in DOMAIN z, k \notin DOMAIN s PROVE \E j \in DOMAIN cs : z[k] = cs[j]
        BY <2>2
      <4>1. k - Len(s) \in DOMAIN cs /\ z[k] = cs[k - Len(s)]
        BY <2>2
      <4> QED
        BY <4>1
    <3> QED
      BY <3>1, <3>2
  <2> HIDE DEF s, z
  <2>5. drv[t].pc # "await"
    BY <2>1 DEF Tracked
  <2>6. s = chan[t]
    BY DEF s
  <2> QED
    BY <2>1, <2>2, <2>3, <2>4, <2>5, <2>6 DEF Tracked, Now
<1>5. t = turns => SeenIsOver(t)'
  BY NotYetSeen DEF SeenIsOver
<1> QED
  BY <1>2, <1>3, <1>4, <1>5, StateOfOne

LEMMA StateInit == ASSUME ChatAssumption, Init PROVE StateInv
BY DEF Init, NewChat, StateInv

LEMMA RoundState ==
  ASSUME ChatAssumption, CInv, StateInv, NEW t \in 1..turns, Round(t)
  PROVE  StateInv'
<1>0. t \in Ids /\ srv[t] \in ServerTurns(t) /\ srv = [u \in Ids |-> srv[u]] /\ NextIndex(t) \in Nat
  BY TurnNumbers
<1> DEFINE call == Model(t, NextIndex(t), FALSE)
           answer == Tool(t, NextIndex(t) + 1)
<1>1. /\ srv[t].at = "run"
      /\ srv' = [srv EXCEPT ![t].rounds = @ + 1, ![t].hist = @ \o <<call, answer>>]
      /\ \E way \in Streams : Emit(t, Chunks(call, way) \o Chunks(answer, way))
      /\ UNCHANGED <<mode, turns, reopens, chat, drv, rows>>
  BY DEF Round
<1>2. call \in Msgs({t}) /\ answer \in Msgs({t})
  <2>1. NextIndex(t) + 1 \in Nat
    BY <1>0
  <2> QED
    BY <1>0, <2>1, Named
<1> DEFINE hist == srv[t].hist \o <<call, answer>>
<1>3. srv' = [srv EXCEPT ![t] = [srv[t] EXCEPT !.rounds = @ + 1, !.hist = hist]]
  BY <1>0, <1>1
<1> HIDE DEF hist, call, answer
<1>4. srv'[t] = [srv[t] EXCEPT !.rounds = @ + 1, !.hist = hist] /\ \A u \in Ids \ {t} : srv'[u] = srv[u]
  BY <1>0, <1>3
<1>5. /\ srv'[t].at = srv[t].at /\ srv'[t].deaf = srv[t].deaf /\ srv'[t].out = srv[t].out
      /\ srv'[t].updates = srv[t].updates /\ srv'[t].custom = srv[t].custom
  BY <1>0, <1>4 DEF ServerTurns
<1>6. PICK way \in Streams : Emit(t, Chunks(call, way) \o Chunks(answer, way))
  BY <1>1
<1> DEFINE cs == Chunks(call, way) \o Chunks(answer, way)
<1>7. cs \in Channels(t) /\ \A k \in DOMAIN cs : cs[k].kind = "message"
  <2>1. Chunks(call, way) \in Channels(t) /\ Chunks(answer, way) \in Channels(t)
    BY <1>2, ChunksOfTurn
  <2>2. cs \in Channels(t)
    BY <2>1 DEF Channels
  <2>3. \A k \in DOMAIN Chunks(call, way) : Chunks(call, way)[k].kind = "message"
    BY PiecesOnly
  <2>4. \A k \in DOMAIN Chunks(answer, way) : Chunks(answer, way)[k].kind = "message"
    BY PiecesOnly
  <2> DEFINE a == Chunks(call, way)
             b == Chunks(answer, way)
             C == [kind : {"patch"}, op : {"replace", "delta"}, custom : Custom]
                  \cup [kind : {"message"}, msg : Msgs({t})] \cup {TurnEnd, Broken}
  <2>5. a \in Seq(C) /\ b \in Seq(C)
    BY <2>1 DEF Channels
  <2> HIDE DEF a, b, C
  <2>6. ASSUME \A k \in DOMAIN a : a[k].kind = "message", \A k \in DOMAIN b : b[k].kind = "message",
               NEW k \in DOMAIN (a \o b)
        PROVE  (a \o b)[k].kind = "message"
    <3>1. CASE k \in DOMAIN a
      BY <2>5, <2>6, <3>1
    <3>2. CASE k \notin DOMAIN a
      <4>1. k - Len(a) \in DOMAIN b /\ (a \o b)[k] = b[k - Len(a)]
        BY <2>5, <3>2
      <4> QED
        BY <2>6, <4>1
    <3> QED
      BY <3>1, <3>2
  <2> QED
    BY <2>2, <2>3, <2>4, <2>6 DEF a, b
<1> HIDE DEF cs
<1>8. Emit(t, cs)
  BY <1>6 DEF cs
<1> QED
  BY <1>1, <1>4, <1>5, <1>7, <1>8, GoesOn

LEMMA ResumedState ==
  ASSUME ChatAssumption, CInv, StateInv, NEW t \in 1..turns, Resumed(t)
  PROVE  StateInv'
<1>0. t \in Ids /\ srv[t] \in ServerTurns(t) /\ srv = [u \in Ids |-> srv[u]] /\ NextIndex(t) \in Nat
  BY TurnNumbers
<1> DEFINE m == Tool(t, NextIndex(t))
           hist == Append(srv[t].hist, m)
<1>1. /\ srv[t].at = "resume"
      /\ srv' = [srv EXCEPT ![t].at = "run", ![t].hist = Append(@, m)]
      /\ Emit(t, Chunks(m, "whole"))
      /\ UNCHANGED <<mode, turns, reopens, chat, drv, rows>>
  BY DEF Resumed
<1>2. m \in Msgs({t})
  BY <1>0, Named
<1>3. srv' = [srv EXCEPT ![t] = [srv[t] EXCEPT !.at = "run", !.hist = hist]]
  BY <1>0, <1>1
<1> HIDE DEF hist, m
<1>4. srv'[t] = [srv[t] EXCEPT !.at = "run", !.hist = hist] /\ \A u \in Ids \ {t} : srv'[u] = srv[u]
  BY <1>0, <1>3
<1>5. /\ srv'[t].at = "run" /\ srv'[t].deaf = srv[t].deaf /\ srv'[t].out = srv[t].out
      /\ srv'[t].updates = srv[t].updates /\ srv'[t].custom = srv[t].custom
  BY <1>0, <1>4 DEF ServerTurns
<1>6. Chunks(m, "whole") \in Channels(t)
  BY <1>2, ChunksOfTurn
<1>7. \A k \in DOMAIN Chunks(m, "whole") : Chunks(m, "whole")[k].kind = "message"
  BY PiecesOnly
<1> QED
  BY <1>1, <1>4, <1>5, <1>6, <1>7, GoesOn

\* An update of the state and its patch, which sets it when it is the turn's first.
LEMMA UpdateState ==
  ASSUME ChatAssumption, CInv, StateInv, NEW t \in 1..turns, Update(t)
  PROVE  StateInv'
<1>0. /\ t \in Ids /\ srv[t] \in ServerTurns(t) /\ srv = [u \in Ids |-> srv[u]] /\ chan[t] \in Channels(t)
  BY TurnNumbers
<1> DEFINE u == <<t, srv[t].updates + 1>>
           custom == srv[t].custom \cup {u}
           c == NextPatch(t, u)
<1>1. /\ srv[t].at = "run" /\ srv' = [srv EXCEPT ![t].updates = @ + 1, ![t].custom = @ \cup {u}]
      /\ Emit(t, <<c>>)
      /\ UNCHANGED <<mode, turns, reopens, chat, drv, rows>>
  BY DEF Update
<1>2. srv' = [srv EXCEPT ![t] = [srv[t] EXCEPT !.updates = @ + 1, !.custom = custom]]
  BY <1>0, <1>1
<1>3. /\ c.kind = "patch"
      /\ srv[t].updates = 0 => c.op = "replace" /\ c.custom = custom
      /\ srv[t].updates # 0 => c.op = "delta" /\ c.custom = {u}
  BY DEF NextPatch, Patch
<1>4. c \in [kind : {"patch"}, op : {"replace", "delta"}, custom : Custom]
  <2>1. srv[t].custom \in Custom /\ srv[t].updates + 1 \in Nat
    BY <1>0 DEF ServerTurns
  <2>2. {u} \in Custom /\ custom \in Custom
    BY <1>0, <2>1 DEF Custom
  <2>3. srv[t].custom \cup {u} \in Custom
    BY <2>2
  <2> QED
    BY <2>2, <2>3 DEF NextPatch, Patch
<1>5. custom = srv[t].custom \cup {u}
  OBVIOUS
<1> HIDE DEF custom, c, u
<1>6. /\ srv'[t] = [srv[t] EXCEPT !.updates = @ + 1, !.custom = custom]
      /\ \A v \in Ids \ {t} : srv'[v] = srv[v]
  BY <1>0, <1>2
<1>7. /\ srv'[t].at = "run" /\ srv'[t].deaf = srv[t].deaf /\ srv'[t].out = srv[t].out
      /\ srv'[t].updates = srv[t].updates + 1 /\ srv'[t].custom = custom /\ srv[t].updates \in Nat
  BY <1>0, <1>1, <1>6 DEF ServerTurns
<1>8. chan'[t] = (IF srv[t].deaf THEN chan[t] ELSE chan[t] \o <<c>>) /\ \A v \in Ids \ {t} : chan'[v] = chan[v]
  BY <1>1, Streamed
<1>9. OutputTells(t)'
  BY <1>1, <1>7 DEF StateInv, OutputTells
<1>10. t = turns => SeenIsOver(t)'
  BY <1>1, NotYetSeen DEF SeenIsOver
<1>11. ASSUME t = turns, Listened(t)' PROVE Tracked(t)'
  <2>1. turns > 0 /\ Tracked(t) /\ ~srv[t].deaf
    BY <1>0, <1>1, <1>7, <1>11 DEF StateInv, Listened, Tracked, Ids
  <2> DEFINE s == chan[t]
             z == s \o <<c>>
             C == [kind : {"patch"}, op : {"replace", "delta"}, custom : Custom]
                  \cup [kind : {"message"}, msg : Msgs({t})] \cup {TurnEnd, Broken}
  <2>2. chan'[t] = z /\ s \in Seq(C) /\ c \in C
    BY <1>0, <1>4, <1>8, <2>1 DEF Channels
  <2> HIDE DEF C
  <2>3. /\ Patches(z) = Patches(s) \cup {Len(s) + 1}
        /\ Pending(z) = Pending(s) \cup c.custom
        /\ (Rebases(z) <=> Rebases(s) \/ c.op = "replace")
        /\ RebaseIsFirst(s) /\ (c.op = "replace" => Patches(s) = {}) => RebaseIsFirst(z)
    BY <1>3, <2>2, PatchAdded
  <2>4. \A k \in DOMAIN z : z[k].kind # "turnEnd"
    <3>1. \A k \in DOMAIN s : s[k].kind # "turnEnd"
      BY <1>1, <2>1 DEF Tracked
    <3> HIDE DEF s
    <3>2. \A k \in DOMAIN z : (k \in DOMAIN s /\ z[k] = s[k]) \/ z[k] = c
      BY <2>2
    <3> QED
      BY <1>3, <3>1, <3>2
  <2>5. s = chan[t]
    OBVIOUS
  <2> HIDE DEF s, z
  <2>6. drv[t].pc # "await" /\ srv[t].out = NoOutput
    BY <1>1, <2>1 DEF Tracked
  <2>7. CASE srv[t].updates = 0
    <3>1. Patches(s) = {}
      BY <2>1, <2>5, <2>7 DEF Tracked
    <3>2. Pending(s) = {} /\ RebaseIsFirst(s)
      BY <3>1 DEF Pending, RebaseIsFirst
    <3>3. Rebases(z) /\ RebaseIsFirst(z) /\ Pending(z) = custom
      BY <1>3, <2>3, <2>7, <3>1, <3>2
    <3>4. srv'[t].updates # 0
      BY <1>7
    <3> QED
      BY <1>1, <1>7, <2>1, <2>2, <2>4, <2>6, <3>3, <3>4 DEF Tracked, Now
  <2>8. CASE srv[t].updates # 0
    <3>1. srv[t].updates > 0
      BY <1>7, <2>8
    <3>2. RebaseIsFirst(s) /\ srv[t].custom = Pending(s) \cup (IF Rebases(s) THEN {} ELSE chat.custom)
      BY <1>1, <2>1, <2>5, <3>1 DEF Tracked, Now
    <3>3. RebaseIsFirst(z) /\ Pending(z) = Pending(s) \cup {u} /\ (Rebases(z) <=> Rebases(s))
      BY <1>3, <2>3, <2>8, <3>2
    <3>4. custom = Pending(z) \cup (IF Rebases(z) THEN {} ELSE chat.custom)
      BY <1>5, <3>2, <3>3
    <3>5. srv'[t].updates # 0
      BY <1>7
    <3> QED
      BY <1>1, <1>7, <2>1, <2>2, <2>4, <2>6, <3>3, <3>4, <3>5 DEF Tracked, Now
  <2> QED
    BY <2>7, <2>8
<1> QED
  BY <1>1, <1>6, <1>8, <1>9, <1>10, <1>11, StateOfOne

LEMMA Finished ==
  ASSUME ChatAssumption, CInv, NEW t \in 1..turns, NEW out, srv' = Finish(t, out)
  PROVE  /\ srv'[t].at = "done" /\ srv'[t].deaf = FALSE /\ srv'[t].updates = srv[t].updates
         /\ srv'[t].out = IF srv[t].out = NoOutput THEN out ELSE srv[t].out
         /\ \A u \in Ids \ {t} : srv'[u] = srv[u]
<1>1. t \in Ids /\ srv = [u \in Ids |-> srv[u]]
  BY TurnNumbers
<1> DEFINE next == [NoTurn EXCEPT !.at = "done", !.updates = srv[t].updates,
                                  !.out = IF srv[t].out = NoOutput THEN out ELSE srv[t].out]
<1>2. srv' = [srv EXCEPT ![t] = next]
  BY DEF Finish
<1>3. /\ next.at = "done" /\ next.deaf = FALSE /\ next.updates = srv[t].updates
      /\ next.out = IF srv[t].out = NoOutput THEN out ELSE srv[t].out
  BY DEF NoTurn
<1> HIDE DEF next
<1>4. srv'[t] = next /\ \A u \in Ids \ {t} : srv'[u] = srv[u]
  BY <1>1, <1>2
<1> QED
  BY <1>3, <1>4

\* A turn begins on the server: there are no updates yet.
LEMMA LoadState ==
  ASSUME ChatAssumption, CInv, StateInv, NEW t \in 1..turns, Load(t)
  PROVE  StateInv'
<1>0. /\ t \in Ids /\ srv = [u \in Ids |-> srv[u]] /\ rows \in [Ids -> Rows] /\ turns > 0
  BY TurnNumbers DEF Ids
<1>1. srv[t].at = "load" /\ UNCHANGED <<mode, turns, reopens, chat, drv>> /\ chan' = chan
  BY DEF Load
<1>2. t = turns => SeenIsOver(t)'
  BY <1>0, <1>1, NotYetSeen DEF SeenIsOver
<1>3. OutputTells(t)
  BY DEF StateInv
<1>4. Listened(t) /\ t = turns =>
        /\ ~srv[t].deaf /\ srv[t].out = NoOutput /\ srv[t].updates = 0 /\ drv[t].pc # "await"
        /\ Patches(chan[t]) = {} /\ \A k \in DOMAIN chan[t] : chan[t][k].kind # "turnEnd"
  BY <1>0, <1>1 DEF StateInv, Tracked
<1>5. ASSUME NEW out, out = Raised \/ out.fin = "failed", srv' = Finish(t, out), UNCHANGED rows
      PROVE  StateInv'
  <2>1. /\ srv'[t].at = "done" /\ srv'[t].deaf = FALSE /\ srv'[t].updates = srv[t].updates
        /\ srv'[t].out = IF srv[t].out = NoOutput THEN out ELSE srv[t].out
        /\ \A u \in Ids \ {t} : srv'[u] = srv[u]
    BY <1>5, Finished
  <2>2. OutputTells(t)'
    BY <1>1, <1>3, <1>5, <2>1 DEF OutputTells
  <2>3. ASSUME t = turns, Listened(t)' PROVE Tracked(t)'
    <3>1. Listened(t)
      BY <1>1, <2>1, <2>3 DEF Listened, Raised, NoOutput, Answer
    <3> QED
      BY <1>1, <1>4, <2>1, <2>3, <3>1 DEF Tracked
  <2> QED
    BY <1>1, <1>2, <1>5, <2>1, <2>2, <2>3, StateOfOne
<1>6. ASSUME NEW from, srv' = [srv EXCEPT ![t] = OnSession(t, from)],
             \A u \in Ids \ {t} : rows'[u] = rows[u]
      PROVE  StateInv'
  <2> DEFINE next == OnSession(t, from)
  <2>1. /\ next.at \in {"resume", "run"} /\ next.deaf = srv[t].deaf /\ next.updates = 0
        /\ next.out = IF Detached(t) THEN Answer("detached", t, from.session) ELSE srv[t].out
    BY DEF OnSession
  <2>2. Answer("detached", t, from.session).fin = "detached"
    BY DEF Answer
  <2> HIDE DEF next
  <2>3. srv'[t] = next /\ \A u \in Ids \ {t} : srv'[u] = srv[u]
    BY <1>0, <1>6 DEF next
  <2>4. OutputTells(t)'
    BY <1>1, <1>3, <2>1, <2>2, <2>3 DEF OutputTells, Detached
  <2>5. ASSUME t = turns, Listened(t)' PROVE Tracked(t)'
    <3>1. srv'[t].out = srv[t].out
      BY <1>1, <2>1, <2>3, <2>5 DEF Listened, Detached
    <3>2. Listened(t)
      BY <1>1, <2>5, <3>1 DEF Listened
    <3> QED
      BY <1>1, <1>4, <2>1, <2>3, <2>5, <3>1, <3>2 DEF Tracked
  <2> QED
    BY <1>1, <1>2, <1>6, <2>3, <2>4, <2>5, StateOfOne
<1>7. Answer("failed", None, None).fin = "failed"
  BY DEF Answer
<1>8. CASE \E out \in {Answer("failed", None, None), Raised} : srv' = Finish(t, out) /\ UNCHANGED rows
  BY <1>5, <1>7, <1>8
<1>9. CASE \E from \in Sessions(t, srv[t].init) :
             /\ srv' = [srv EXCEPT ![t] = OnSession(t, from)]
             /\ rows' = IF Detached(t)
                        THEN [rows EXCEPT ![t] = [status |-> "pending", session |-> from.session,
                                                  hist |-> from.hist, custom |-> from.custom]]
                        ELSE rows
  BY <1>0, <1>6, <1>9
<1> QED
  BY <1>8, <1>9 DEF Load

\* A turn ends on the server: its row has the state, unless there is no answer.
LEMMA EndsState ==
  ASSUME ChatAssumption, CInv, StateInv, NEW t \in 1..turns, srv[t].at \in {"resume", "run"},
         NEW out, srv' = Finish(t, out), UNCHANGED <<mode, turns, chat, drv>>,
         NEW cs \in Channels(t), Emit(t, cs), \A u \in Ids \ {t} : rows'[u] = rows[u],
         out # Raised =>
           /\ \A k \in DOMAIN cs : cs[k].kind # "patch" /\ (cs[k].kind = "turnEnd" => k = Len(cs))
           /\ mode = "server" /\ drv[t].kind # "detach" => rows'[t].custom = srv[t].custom
  PROVE  StateInv'
<1>1. t \in Ids /\ chan[t] \in Channels(t) /\ turns > 0
  BY TurnNumbers DEF Ids
<1>2. /\ srv'[t].at = "done" /\ srv'[t].deaf = FALSE /\ srv'[t].updates = srv[t].updates
      /\ srv'[t].out = IF srv[t].out = NoOutput THEN out ELSE srv[t].out
      /\ \A u \in Ids \ {t} : srv'[u] = srv[u]
  BY Finished
<1>3. chan'[t] = (IF srv[t].deaf THEN chan[t] ELSE chan[t] \o cs) /\ \A u \in Ids \ {t} : chan'[u] = chan[u]
  BY Streamed
<1>4. OutputTells(t)'
  <2>1. OutputTells(t)
    BY DEF StateInv
  <2> QED
    BY <1>2, <2>1 DEF OutputTells, NoOutput, Answer
<1>5. t = turns => SeenIsOver(t)'
  BY <1>1, NotYetSeen DEF SeenIsOver
<1>6. ASSUME t = turns, Listened(t)' PROVE Tracked(t)'
  <2>1. Listened(t) /\ Tracked(t)
    <3>1. Raised # NoOutput
      BY DEF Raised, NoOutput, Answer
    <3> QED
      BY <1>1, <1>2, <1>6, <3>1 DEF Listened, StateInv
  <2>2. ~srv[t].deaf /\ srv[t].out = NoOutput /\ drv[t].pc # "await" /\ mode = "server" /\ drv[t].kind # "detach"
    BY <2>1 DEF Listened, Tracked
  <2>3. out # Raised
    BY <1>2, <1>6, <2>2 DEF Listened
  <2> DEFINE s == chan[t]
             z == s \o cs
             C == [kind : {"patch"}, op : {"replace", "delta"}, custom : Custom]
                  \cup [kind : {"message"}, msg : Msgs({t})] \cup {TurnEnd, Broken}
  <2>4. chan'[t] = z /\ s \in Seq(C) /\ cs \in Seq(C) /\ s = chan[t]
    BY <1>1, <1>3, <2>2 DEF Channels
  <2>5. \A k \in DOMAIN s : s[k].kind # "turnEnd"
    BY <2>1 DEF Tracked
  <2> HIDE DEF C, s
  <2>6. /\ Patches(z) = Patches(s) /\ Pending(z) = Pending(s)
        /\ Rebases(z) = Rebases(s) /\ RebaseIsFirst(z) = RebaseIsFirst(s)
    BY <2>3, <2>4, PatchesStay
  <2>7. ASSUME NEW k \in DOMAIN z, z[k].kind = "turnEnd" PROVE k = Len(z)
    <3>1. k \notin DOMAIN s
      BY <2>4, <2>5, <2>7
    <3>2. k - Len(s) \in DOMAIN cs /\ z[k] = cs[k - Len(s)]
      BY <2>4, <3>1
    <3>3. k - Len(s) = Len(cs)
      BY <2>3, <2>7, <3>2
    <3>4. Len(z) = Len(s) + Len(cs) /\ k \in Int /\ Len(s) \in Int /\ Len(cs) \in Int
      BY <2>4
    <3> QED
      BY <3>3, <3>4
  <2> HIDE DEF z
  <2>8. srv[t].updates > 0 => RebaseIsFirst(s) /\ srv[t].custom = Pending(s) \cup (IF Rebases(s) THEN {} ELSE chat.custom)
    BY <2>1, <2>4 DEF Tracked, Now
  <2>9. srv[t].updates = 0 => Patches(s) = {}
    BY <2>1, <2>4 DEF Tracked
  <2>10. rows'[t].custom = srv[t].custom
    BY <2>2, <2>3
  <2> QED
    BY <1>2, <2>2, <2>4, <2>6, <2>7, <2>8, <2>9, <2>10 DEF Tracked, Now
<1> QED
  BY <1>2, <1>3, <1>4, <1>5, <1>6, StateOfOne

\* The row of a client that listens gets the state of its turn.
LEMMA SaveState ==
  ASSUME ChatAssumption, CInv, NEW t \in 1..turns, NEW status, NEW hist, Save(t, status, hist)
  PROVE  /\ \A u \in Ids \ {t} : rows'[u] = rows[u]
         /\ mode = "server" /\ drv[t].kind # "detach" => rows'[t].custom = srv[t].custom
<1>1. t \in Ids /\ rows \in [Ids -> Rows] /\ RowOf(t)
  BY TurnNumbers
<1>2. rows[t].status = "aborted" => drv[t].kind = "detach"
  BY <1>1 DEF RowOf
<1> QED
  BY <1>1, <1>2 DEF Save

LEMMA EndWithState ==
  ASSUME ChatAssumption, CInv, StateInv, NEW t \in 1..turns, srv[t].at \in {"resume", "run"},
         NEW fin \in Fins \ {"raised"}, NEW hist, NEW msg, NEW m \in Msgs({t}), NEW way,
         NEW cs \in {Chunks(m, way), <<>>},
         EndWith(t, fin, hist, msg, cs), UNCHANGED <<mode, turns, chat, drv>>
  PROVE  StateInv'
<1> DEFINE plain == Answer(fin, t, srv[t].session)
           blob == [fin |-> fin, snap |-> None, session |-> srv[t].session, msg |-> msg,
                    hist |-> hist, custom |-> srv[t].custom]
           out == IF mode = "server" THEN [plain EXCEPT !.msg = msg] ELSE blob
           C == [kind : {"patch"}, op : {"replace", "delta"}, custom : Custom]
                \cup [kind : {"message"}, msg : Msgs({t})] \cup {TurnEnd, Broken}
<1>1. srv' = Finish(t, out) /\ Save(t, "completed", hist) /\ Emit(t, Append(cs, TurnEnd))
  BY DEF EndWith
<1> HIDE DEF out
<1>2. TurnEnd \in C /\ TurnEnd.kind = "turnEnd"
  BY DEF TurnEnd
<1>3. cs \in Seq(C) /\ \A k \in DOMAIN cs : cs[k].kind = "message"
  <2>1. Chunks(m, way) \in Seq(C)
    BY ChunksOfTurn DEF Channels
  <2> HIDE DEF C
  <2>2. <<>> \in Seq(C) /\ DOMAIN <<>> = {}
    OBVIOUS
  <2>3. CASE cs = Chunks(m, way)
    BY <2>1, <2>3, PiecesOnly
  <2>4. CASE cs = <<>>
    BY <2>2, <2>4
  <2> QED
    BY <2>3, <2>4
<1> HIDE DEF C
<1>4. /\ Append(cs, TurnEnd) \in Seq(C)
      /\ \A k \in DOMAIN Append(cs, TurnEnd) :
           /\ Append(cs, TurnEnd)[k].kind # "patch"
           /\ Append(cs, TurnEnd)[k].kind = "turnEnd" => k = Len(Append(cs, TurnEnd))
  BY <1>2, <1>3
<1>5. Append(cs, TurnEnd) \in Channels(t)
  BY <1>4 DEF C, Channels
<1>6. /\ \A u \in Ids \ {t} : rows'[u] = rows[u]
      /\ mode = "server" /\ drv[t].kind # "detach" => rows'[t].custom = srv[t].custom
  BY <1>1, SaveState
<1> QED
  BY <1>1, <1>4, <1>5, <1>6, EndsState

LEMMA EndState ==
  ASSUME ChatAssumption, CInv, StateInv, NEW t \in 1..turns, End(t)
  PROVE  StateInv'
<1>0. t \in Ids /\ NextIndex(t) \in Nat /\ rows \in [Ids -> Rows]
  BY TurnNumbers
<1> DEFINE s == srv[t]
           said == Model(t, NextIndex(t), FALSE)
           asked == Model(t, NextIndex(t), TRUE)
<1>1. said \in Msgs({t}) /\ asked \in Msgs({t})
  BY <1>0, Named
<1>2. UNCHANGED <<mode, turns, chat, drv>> /\ s.at \in {"resume", "run"}
  BY DEF End
<1>3. {"stop", "interrupted", "empty", "aborted"} \subseteq Fins \ {"raised"}
  BY DEF Fins
<1>4. /\ <<Broken>> \in Channels(t) /\ <<Piece(said, 1), TurnEnd>> \in Channels(t)
      /\ <<Piece(said, 1), TurnEnd>>[1].kind = "message" /\ <<Piece(said, 1), TurnEnd>>[2].kind = "turnEnd"
  BY <1>1, ShortStreams DEF Piece, TurnEnd
<1> HIDE DEF said, asked
<1>5. CASE s.at = "run" /\ \E way \in Streams, msg \in {said, NoMsg} :
             EndWith(t, "stop", Append(s.hist, said), msg, Chunks(said, way))
  BY <1>1, <1>2, <1>3, <1>5, EndWithState
<1>6. CASE s.at = "run" /\ \E way \in Streams :
             EndWith(t, "interrupted", Append(s.hist, asked), asked, Chunks(asked, way))
  BY <1>1, <1>2, <1>3, <1>6, EndWithState
<1>7. CASE EndWith(t, "interrupted", Append(Front(s.base), asked), asked, <<>>)
  BY <1>1, <1>2, <1>3, <1>7, EndWithState
<1>8. CASE \E fin \in {"empty", "aborted"} \cap Ends : EndWith(t, fin, s.hist, Last(s.hist), <<>>)
  BY <1>1, <1>2, <1>3, <1>8, EndWithState
<1>9. CASE /\ \E out : srv' = Finish(t, out)
           /\ Emit(t, <<Piece(said, 1), TurnEnd>>) /\ Save(t, "failed", s.hist)
  <2> DEFINE cs == <<Piece(said, 1), TurnEnd>>
  <2>1. cs \in Channels(t) /\ \A k \in DOMAIN cs : cs[k].kind # "patch" /\ (cs[k].kind = "turnEnd" => k = Len(cs))
    <3>1. DOMAIN cs = {1, 2} /\ Len(cs) = 2
      OBVIOUS
    <3> QED
      BY <1>4, <3>1
  <2>2. Emit(t, cs)
    BY <1>9
  <2> HIDE DEF cs
  <2>3. /\ \A u \in Ids \ {t} : rows'[u] = rows[u]
        /\ mode = "server" /\ drv[t].kind # "detach" => rows'[t].custom = srv[t].custom
    BY <1>9, SaveState
  <2> QED
    BY <1>2, <1>9, <2>1, <2>2, <2>3, EndsState
<1>10. CASE /\ srv' = Finish(t, Raised) /\ Emit(t, <<Broken>>)
            /\ IF Detached(t) THEN Save(t, "failed", s.hist) ELSE UNCHANGED rows
  <2>1. \A u \in Ids \ {t} : rows'[u] = rows[u]
    BY <1>10, SaveState
  <2> QED
    BY <1>2, <1>4, <1>10, <2>1, EndsState
<1> QED
  BY <1>5, <1>6, <1>7, <1>8, <1>9, <1>10 DEF End, said, asked

\* The connection breaks: there is no answer.
LEMMA BreakState ==
  ASSUME ChatAssumption, CInv, StateInv, NEW t \in 1..turns, Break(t)
  PROVE  StateInv'
<1>0. /\ t \in Ids /\ srv[t] \in ServerTurns(t) /\ srv = [u \in Ids |-> srv[u]] /\ chan = [u \in Ids |-> chan[u]]
  BY TurnNumbers
<1>1. /\ srv[t].at \in {"load", "resume", "run"} /\ srv[t].out = NoOutput
      /\ srv' = [srv EXCEPT ![t] = [srv[t] EXCEPT !.out = Raised, !.deaf = TRUE]]
      /\ chan' = [chan EXCEPT ![t] = Append(@, Broken)]
      /\ UNCHANGED <<mode, turns, reopens, chat, drv, rows>>
  BY <1>0 DEF Break
<1>2. /\ srv'[t] = [srv[t] EXCEPT !.out = Raised, !.deaf = TRUE] /\ \A u \in Ids \ {t} : srv'[u] = srv[u]
      /\ \A u \in Ids \ {t} : chan'[u] = chan[u]
  BY <1>0, <1>1
<1>3. srv'[t].at = srv[t].at /\ srv'[t].out = Raised
  BY <1>0, <1>2 DEF ServerTurns
<1>4. OutputTells(t)'
  <2>1. OutputTells(t)
    BY DEF StateInv
  <2> QED
    BY <1>1, <1>3, <2>1 DEF OutputTells, NoOutput, Answer, Raised
<1>5. t = turns => SeenIsOver(t)'
  BY <1>1, NotYetSeen DEF SeenIsOver
<1>6. ~Listened(t)'
  BY <1>3 DEF Listened
<1> QED
  BY <1>1, <1>2, <1>4, <1>5, <1>6, StateOfOne

LEMMA RunTurnState ==
  ASSUME ChatAssumption, CInv, StateInv, NEW t \in 1..turns, RunTurn(t)
  PROVE  StateInv'
<1>0. /\ t \in Ids /\ Flow(t) /\ srv[t] \in ServerTurns(t) /\ drv[t] \in Drivers(t) /\ t <= turns /\ turns > 0
      /\ srv = [u \in Ids |-> srv[u]] /\ drv = [u \in Ids |-> drv[u]]
  BY TurnNumbers DEF Ids
<1> DEFINE pc == IF drv[t].kind = "detach" THEN "await" ELSE "pump"
<1>1. /\ drv[t].pc = "unstarted" /\ UNCHANGED <<mode, turns, reopens, chat, chan, rows>>
      /\ drv' = [drv EXCEPT ![t] = [drv[t] EXCEPT !.pc = pc]]
      /\ srv' = [srv EXCEPT ![t] = [srv[t] EXCEPT !.at = "load"]]
  BY <1>0 DEF RunTurn
<1>2. srv[t].at = "off" /\ drv[t].how = "open"
  BY <1>0, <1>1 DEF Flow
<1>3. /\ drv'[t] = [drv[t] EXCEPT !.pc = pc] /\ srv'[t] = [srv[t] EXCEPT !.at = "load"]
      /\ \A u \in Ids \ {t} : drv'[u] = drv[u] /\ srv'[u] = srv[u]
  BY <1>0, <1>1
<1>4. /\ drv'[t].pc = pc /\ drv'[t].how = drv[t].how /\ drv'[t].kind = drv[t].kind
      /\ srv'[t].at = "load" /\ srv'[t].out = srv[t].out /\ srv'[t].deaf = srv[t].deaf
      /\ srv'[t].updates = srv[t].updates
  BY <1>0, <1>3 DEF Drivers, ServerTurns
<1>5. OutputTells(t)'
  BY <1>2, <1>4 DEF StateInv, OutputTells
<1>6. t = turns => SeenIsOver(t)'
  BY <1>0, <1>1, <1>2, NotYetSeen DEF SeenIsOver
<1>7. ASSUME t = turns, Listened(t)' PROVE Tracked(t)'
  <2>1. Listened(t) /\ Tracked(t) /\ drv[t].kind # "detach"
    BY <1>0, <1>1, <1>4, <1>7 DEF Listened, StateInv
  <2>2. drv'[t].pc = "pump"
    BY <1>4, <2>1
  <2> QED
    BY <1>1, <1>2, <1>4, <2>1, <2>2 DEF Tracked
<1> QED
  BY <1>1, <1>3, <1>5, <1>6, <1>7, StateOfOne

\* run() takes the next chunk.
LEMMA PumpState ==
  ASSUME ChatAssumption, CInv, StateInv, NEW t \in 1..turns, Pump(t)
  PROVE  StateInv'
<1>0. /\ t \in Ids /\ Flow(t) /\ drv[t] \in Drivers(t) /\ drv = [u \in Ids |-> drv[u]]
      /\ chan = [u \in Ids |-> chan[u]] /\ chan[t] \in Channels(t) /\ chat \in Chats
  BY TurnNumbers
<1>1. drv[t].pc = "pump" /\ drv[t].how = "open" /\ UNCHANGED <<mode, turns, reopens, srv, rows>>
  BY <1>0 DEF Pump, Flow
<1>2. t = turns /\ turns > 0 /\ turns \notin chat.seen
  BY <1>0, <1>1, NotYetSeen DEF Flow, Ids
<1>3. chat'.seen = chat.seen
  BY <1>0 DEF Pump, Chats
<1>4. /\ drv'[t].kind = drv[t].kind /\ \A u \in Ids \ {t} : drv'[u] = drv[u] /\ chan'[u] = chan[u]
  BY <1>0 DEF Pump, Settle, Drivers
<1>5. OutputTells(t)'
  BY <1>1, <1>4 DEF StateInv, OutputTells
<1>6. SeenIsOver(t)'
  BY <1>2, <1>3 DEF SeenIsOver
<1>7. ASSUME Listened(t)' PROVE Tracked(t)'
  <2>1. Listened(t) /\ Tracked(t)
    BY <1>1, <1>2, <1>4, <1>7 DEF Listened, StateInv
  <2> DEFINE C == [kind : {"patch"}, op : {"replace", "delta"}, custom : Custom]
                  \cup [kind : {"message"}, msg : Msgs({t})] \cup {TurnEnd, Broken}
             s == chan[t]
             z == Tail(s)
  <2>2. s \in Seq(C)
    BY <1>0 DEF Channels
  <2> HIDE DEF C
  <2>3. CASE s = <<>>
    <3>1. /\ drv' = [drv EXCEPT ![t] = [drv[t] EXCEPT !.pc = "await"]] /\ UNCHANGED <<chat, chan>>
          /\ srv[t].out # NoOutput
      BY <1>0, <2>3 DEF Pump
    <3>2. srv[t].at = "done"
      BY <2>1, <3>1 DEF Tracked
    <3> QED
      BY <1>1, <2>1, <2>3, <3>1, <3>2 DEF Tracked, Now
  <2>4. CASE s # <<>>
    <3>1. chan' = [chan EXCEPT ![t] = z]
      BY <2>4 DEF Pump
    <3>2. chan'[t] = z /\ s = chan[t]
      BY <1>0, <3>1
    <3>3. /\ Len(s) \in Nat /\ Len(s) >= 1 /\ DOMAIN s = 1..Len(s) /\ DOMAIN z = 1..(Len(s) - 1) /\ s[1] = Head(s)
          /\ Len(z) = Len(s) - 1 /\ \A k \in 1..(Len(s) - 1) : z[k] = s[k + 1]
      <4> HIDE DEF s
      <4> QED
        BY <2>2, <2>4
    <3> DEFINE c == Head(s)
    <3>4. c.kind # "turnEnd" => drv'[t].pc = "pump"
      <4>1. CASE c.kind = "message"
        <5>1. drv' = [drv EXCEPT ![t] = [drv[t] EXCEPT !.acc = Accumulate(@, c.msg)]]
          BY <1>0, <2>4, <4>1 DEF Pump
        <5> QED
          BY <1>0, <1>1, <5>1 DEF Drivers
      <4>2. CASE c.kind = "patch"
        BY <1>1, <2>4, <4>2 DEF Pump
      <4>3. CASE c.kind = "error"
        <5>1. Settle(t, "error", "done")
          BY <2>4, <4>3 DEF Pump
        <5>2. drv'[t].how # "open"
          BY <1>1, <5>1, SettleKeeps
        <5> QED
          BY <1>7, <5>2 DEF Listened
      <4> QED
        BY <2>4, <4>1, <4>2, <4>3 DEF Pump
    <3>5. chat'.custom = IF c.kind = "patch" THEN ApplyPatch(chat.custom, c) ELSE chat.custom
      BY <1>0, <2>4 DEF Pump, Chats
    <3> HIDE DEF c
    <3>6. /\ \A k \in DOMAIN s : s[k].kind = "turnEnd" => k = Len(s) /\ srv[t].at = "done"
          /\ \A k \in DOMAIN z : k + 1 \in DOMAIN s
      BY <2>1, <3>2, <3>3 DEF Tracked
    <3>7. c.kind = "turnEnd" => z = <<>> /\ srv[t].at = "done"
      <4>1. c = s[1]
        BY <3>3 DEF c
      <4> HIDE DEF s
      <4>2. 1 \in DOMAIN s
        BY <3>3
      <4>3. c.kind = "turnEnd" => 1 = Len(s) /\ srv[t].at = "done"
        BY <3>6, <4>1, <4>2
      <4>4. ASSUME 1 = Len(s) PROVE z = <<>>
        <5>1. z \in Seq(C) /\ Len(z) = 0
          BY <2>2, <2>4, <4>4
        <5> HIDE DEF z
        <5> QED
          BY <5>1
      <4> QED
        BY <4>3, <4>4
    <3>8. ASSUME NEW k \in DOMAIN z, z[k].kind = "turnEnd" PROVE k = Len(z) /\ srv[t].at = "done"
      <4>1. k + 1 \in DOMAIN s /\ z[k] = s[k + 1] /\ k \in Int
        BY <3>3
      <4>2. k + 1 = Len(s) /\ srv[t].at = "done"
        BY <3>6, <3>8, <4>1
      <4> QED
        BY <3>3, <4>1, <4>2
    <3>9. Patches(s) = {} => Patches(z) = {}
      BY <3>3, <3>6 DEF Patches
    <3>10. RebaseIsFirst(s) =>
             /\ RebaseIsFirst(z)
             /\ Pending(z) \cup (IF Rebases(z) THEN {} ELSE chat'.custom)
                  = Pending(s) \cup (IF Rebases(s) THEN {} ELSE chat.custom)
      <4> HIDE DEF s
      <4> QED
        BY <2>2, <2>4, <3>5, PatchTaken DEF c
    <3>11. srv[t].updates > 0 => RebaseIsFirst(s) /\ Now(t) = Pending(s) \cup (IF Rebases(s) THEN {} ELSE chat.custom)
      BY <2>1, <3>2 DEF Tracked
    <3>12. srv[t].updates = 0 => Patches(s) = {}
      BY <2>1, <3>2 DEF Tracked
    <3>13. /\ ~srv[t].deaf /\ (srv[t].at # "done" => srv[t].out = NoOutput)
           /\ srv[t].at \in {"off", "load"} => srv[t].updates = 0
      BY <2>1 DEF Tracked
    <3>14. drv'[t].pc = "await" => z = <<>> /\ srv[t].at = "done"
      BY <3>4, <3>7
    <3> HIDE DEF s, z
    <3>15. Now(t)' = Now(t)
      BY <1>1 DEF Now
    <3>16. /\ ~srv'[t].deaf
           /\ srv'[t].at # "done" => /\ srv'[t].out = NoOutput /\ drv'[t].pc # "await"
                                     /\ \A k \in DOMAIN z : z[k].kind # "turnEnd"
           /\ srv'[t].at \in {"off", "load"} => srv'[t].updates = 0
           /\ srv'[t].updates = 0 => Patches(z) = {}
           /\ drv'[t].pc = "await" => z = <<>>
      BY <1>1, <3>8, <3>9, <3>12, <3>13, <3>14
    <3>17. srv'[t].updates > 0 =>
             /\ RebaseIsFirst(z)
             /\ Now(t)' = Pending(z) \cup (IF Rebases(z) THEN {} ELSE chat'.custom)
      BY <1>1, <3>10, <3>11, <3>15
    <3> QED
      BY <3>2, <3>8, <3>16, <3>17 DEF Tracked
  <2> QED
    BY <2>3, <2>4
<1> QED
  BY <1>1, <1>2, <1>3, <1>4, <1>5, <1>6, <1>7, StateOfOne

LEMMA AbortTurnState ==
  ASSUME ChatAssumption, CInv, StateInv, NEW t \in 1..turns, AbortTurn(t)
  PROVE  StateInv'
<1>0. /\ t \in Ids /\ turns > 0 /\ drv[t] \in Drivers(t) /\ srv[t] \in ServerTurns(t)
      /\ drv = [u \in Ids |-> drv[u]] /\ srv = [u \in Ids |-> srv[u]] /\ chan = [u \in Ids |-> chan[u]]
  BY TurnNumbers DEF Ids
<1> DEFINE pc == IF drv[t].pc = "unstarted" THEN "done" ELSE "cancelling"
           next == [drv[t] EXCEPT !.how = "cancelled", !.acc = <<>>, !.pc = pc]
<1>1. /\ drv[t].how = "open" /\ UNCHANGED <<mode, turns, reopens, chat, rows>>
      /\ drv' = [drv EXCEPT ![t] = next]
      /\ srv' = [srv EXCEPT ![t] = [srv[t] EXCEPT !.deaf = TRUE]]
      /\ chan' = [chan EXCEPT ![t] = <<>>]
  BY <1>0 DEF AbortTurn, CancelDriver
<1>2. next.how = "cancelled" /\ next.kind = drv[t].kind
  BY <1>0 DEF Drivers
<1> HIDE DEF next
<1>3. /\ drv'[t] = next /\ srv'[t].at = srv[t].at /\ srv'[t].out = srv[t].out
      /\ \A u \in Ids \ {t} : drv'[u] = drv[u] /\ srv'[u] = srv[u] /\ chan'[u] = chan[u]
  BY <1>0, <1>1 DEF ServerTurns
<1>4. OutputTells(t)'
  BY <1>2, <1>3 DEF StateInv, OutputTells
<1>5. (t = turns => SeenIsOver(t)') /\ ~Listened(t)'
  BY <1>0, <1>1, <1>2, <1>3, NotYetSeen DEF SeenIsOver, Listened
<1> QED
  BY <1>1, <1>3, <1>4, <1>5, StateOfOne

LEMMA DeliverCancelState ==
  ASSUME ChatAssumption, CInv, StateInv, NEW t \in 1..turns, DeliverCancel(t)
  PROVE  StateInv'
<1>0. t \in Ids /\ turns > 0 /\ Flow(t) /\ t <= turns
  BY TurnNumbers DEF Ids
<1>1. /\ drv[t].how # "open" /\ Settle(t, "cancelled", "done")
      /\ UNCHANGED <<mode, turns, reopens, chat, srv, chan, rows>>
  BY <1>0 DEF DeliverCancel, Flow
<1>2. /\ \A u \in Ids \ {t} : drv'[u] = drv[u]
      /\ drv'[t].kind = drv[t].kind /\ drv'[t].how = drv[t].how
  BY <1>1, SettleKeeps
<1>3. OutputTells(t)'
  BY <1>1, <1>2 DEF StateInv, OutputTells
<1>4. (t = turns => SeenIsOver(t)') /\ ~Listened(t)'
  BY <1>0, <1>1, <1>2 DEF StateInv, SeenIsOver, Listened
<1> QED
  BY <1>1, <1>2, <1>3, <1>4, StateOfOne

\* The output is in: with nothing on the way the client has the state of the row.
LEMMA CommitState ==
  ASSUME ChatAssumption, CInv, StateInv, NEW t \in 1..turns, Commit(t)
  PROVE  StateInv'
<1>0. /\ t \in Ids /\ turns > 0 /\ Flow(t) /\ t <= turns /\ chat \in Chats /\ turns \in Nat
      /\ drv[t] \in Drivers(t) /\ srv[t] \in ServerTurns(t)
  BY TurnNumbers DEF Ids
<1>1. /\ drv[t].pc = "await" /\ drv[t].how = "open" /\ srv[t].out # NoOutput
      /\ UNCHANGED <<mode, turns, reopens, srv, chan, rows>>
  BY <1>0 DEF Commit, Flow
<1>2. t = turns /\ turns \notin chat.seen
  BY <1>0, <1>1, NotYetSeen DEF Flow
<1>3. ASSUME NEW how \in {"result", "error", "failed", "rolledBack"}, Settle(t, how, "done"),
             chat'.seen \subseteq chat.seen \cup {t},
             t \in chat'.seen => srv[t].at = "done"
                                 /\ (mode = "server" /\ srv[t].updates > 0 => chat'.custom = rows[t].custom)
      PROVE  StateInv'
  <2>1. /\ \A u \in Ids \ {t} : drv'[u] = drv[u]
        /\ drv'[t].kind = drv[t].kind /\ drv'[t].how # "open"
    BY <1>1, <1>3, SettleKeeps
  <2>2. OutputTells(t)'
    BY <1>1, <2>1 DEF StateInv, OutputTells
  <2>3. SeenIsOver(t)' /\ ~Listened(t)'
    BY <1>1, <1>3, <2>1 DEF SeenIsOver, Listened
  <2> QED
    BY <1>1, <1>2, <1>3, <2>1, <2>2, <2>3, StateOfOne
<1>4. CASE srv[t].out = Raised
  <2>1. Settle(t, "error", "done") /\ UNCHANGED chat
    BY <1>4 DEF Commit
  <2> QED
    BY <1>2, <1>3, <2>1
<1>5. CASE srv[t].out # Raised
  <2> DEFINE o == srv[t].out
  <2>1. Settle(t, HowOf(o), "done") /\ chat' = UpdateFromOutput(chat, t, o)
    BY <1>5 DEF Commit
  <2>2. HowOf(o) \in {"failed", "rolledBack", "result"}
    BY DEF HowOf
  <2>3. /\ chat'.seen = (IF Dead(o) \/ o.fin = "detached" THEN chat.seen ELSE chat.seen \cup {t})
        /\ chat'.custom = (IF mode = "client" THEN o.custom ELSE chat.custom)
    BY <1>0, <2>1 DEF UpdateFromOutput, Chats
  <2>4. ASSUME t \in chat'.seen
        PROVE  srv[t].at = "done" /\ (mode = "server" /\ srv[t].updates > 0 => chat'.custom = rows[t].custom)
    <3>1. ~Dead(o) /\ o.fin # "detached"
      BY <1>2, <2>3, <2>4
    <3>2. drv[t].kind # "detach" /\ srv[t].at = "done"
      <4>1. OutputTells(t)
        BY DEF StateInv
      <4> QED
        BY <1>1, <1>5, <3>1, <4>1 DEF OutputTells, Dead
    <3>3. ASSUME mode = "server", srv[t].updates > 0 PROVE chat'.custom = rows[t].custom
      <4>1. Tracked(t)
        BY <1>0, <1>1, <1>2, <1>5, <3>2, <3>3 DEF StateInv, Listened
      <4>2. chan[t] = <<>> /\ rows[t].custom = Pending(chan[t]) \cup (IF Rebases(chan[t]) THEN {} ELSE chat.custom)
        BY <1>1, <3>2, <3>3, <4>1 DEF Tracked, Now
      <4>3. Patches(<<>>) = {}
        BY DEF Patches
      <4>4. Pending(chan[t]) = {} /\ ~Rebases(chan[t])
        BY <4>2, <4>3 DEF Pending, Rebases
      <4> QED
        BY <2>3, <3>3, <4>2, <4>4
    <3> QED
      BY <3>2, <3>3
  <2> QED
    BY <1>3, <2>1, <2>2, <2>3, <2>4
<1> QED
  BY <1>4, <1>5

\* A turn is taken.
LEMMA StartState ==
  ASSUME ChatAssumption, CInv, StateInv, NEW kind \in {"stream", "detach"},
         NEW input \in {"prompt", "resume"}, Start(kind, input)
  PROVE  StateInv'
<1> DEFINE t == turns + 1
           driver == [pc |-> "unstarted", kind |-> kind, before |-> Len(chat.messages),
                      acc |-> <<>>, how |-> "open", closed |-> FALSE]
           next == [srv[t] EXCEPT !.init = WireInit(t, input), !.input = input,
                                  !.deaf = (kind = "detach")]
<1>0. /\ turns \in Nat /\ turns < MaxTurns /\ MaxTurns \in Nat /\ t \in Ids /\ chat \in Chats /\ t > turns
      /\ drv = [u \in Ids |-> drv[u]] /\ srv = [u \in Ids |-> srv[u]]
      /\ turns' = t /\ UNCHANGED <<mode, reopens, chan, rows>>
  BY DEF CInv, Types, Turns, ChatAssumption, Ids, Start
<1>1. /\ drv' = [drv EXCEPT ![t] = driver]
      /\ srv' = [srv EXCEPT ![t] = next]
      /\ chat' = [chat EXCEPT !.messages = Optimistic(t, input)]
  BY DEF Start
<1>2. srv[t] = NoTurn /\ chan[t] = <<>>
  BY <1>0 DEF StateInv
<1>3. /\ next.at = "off" /\ next.out = NoOutput /\ next.updates = 0
      /\ next.deaf = (kind = "detach")
  BY <1>2 DEF NoTurn
<1>4. driver.pc = "unstarted" /\ driver.kind = kind
  OBVIOUS
<1> HIDE DEF next, driver
<1>5. drv'[t] = driver /\ srv'[t] = next /\ \A u \in Ids \ {t} : drv'[u] = drv[u] /\ srv'[u] = srv[u]
  BY <1>0, <1>1
<1>6. chat'.seen = chat.seen
  BY <1>0, <1>1 DEF Chats
<1>7. \A u \in Ids : u > turns' => srv'[u] = NoTurn /\ chan'[u] = <<>>
  BY <1>0, <1>5 DEF StateInv, Ids
<1>8. (\A u \in chat'.seen : u <= turns') /\ t \notin chat'.seen
  BY <1>0, <1>6 DEF StateInv, Chats, Ids
<1>9. ASSUME NEW u \in 1..turns' PROVE OutputTells(u)'
  <2>1. CASE u = t
    BY <1>3, <1>5, <2>1 DEF OutputTells
  <2>2. CASE u # t
    <3>1. u \in 1..turns /\ u \in Ids \ {t}
      BY <1>0, <1>9, <2>2 DEF Ids
    <3> QED
      BY <1>5, <3>1 DEF StateInv, OutputTells
  <2> QED
    BY <2>1, <2>2
<1>10. SeenIsOver(turns)'
  BY <1>0, <1>8 DEF SeenIsOver
<1>11. Listened(turns)' => Tracked(turns)'
  <2>1. Patches(<<>>) = {} /\ DOMAIN <<>> = {}
    BY DEF Patches
  <2>2. ASSUME Listened(turns)' PROVE ~next.deaf
    BY <1>0, <1>3, <1>4, <1>5, <2>2 DEF Listened
  <2>3. chan'[t] = <<>> /\ srv'[t] = next /\ drv'[t].pc = "unstarted" /\ turns' = t
    BY <1>0, <1>2, <1>4, <1>5
  <2> QED
    BY <1>3, <2>1, <2>2, <2>3 DEF Tracked
<1> QED
  BY <1>7, <1>8, <1>9, <1>10, <1>11 DEF StateInv

\* A chat is opened: nothing of it has been seen to its end.
LEMMA OpenedState ==
  ASSUME ChatAssumption, CInv, StateInv, Quiet, UNCHANGED <<mode, turns, drv, srv, chan, rows>>, chat'.seen = {}
  PROVE  StateInv'
<1>1. turns > 0 => ~Listened(turns)' /\ SeenIsOver(turns)'
  BY DEF Quiet, Listened, SeenIsOver
<1>2. (\A t \in Ids : t > turns' => srv'[t] = NoTurn /\ chan'[t] = <<>>) /\ \A t \in chat'.seen : t <= turns'
  BY DEF StateInv
<1>3. \A t \in 1..turns' : OutputTells(t)'
  BY DEF StateInv, OutputTells
<1> QED
  BY <1>1, <1>2, <1>3 DEF StateInv

\* An aborted row keeps its state.
LEMMA AbortRowState ==
  ASSUME ChatAssumption, CInv, StateInv, AbortRow
  PROVE  StateInv'
<1>1. /\ UNCHANGED <<mode, turns, reopens, chat, drv, srv, chan>>
      /\ rows' = [rows EXCEPT ![chat.snap].status = "aborted"]
      /\ rows \in [Ids -> Rows] /\ turns \in Nat /\ turns <= MaxTurns /\ MaxTurns \in Nat
  BY DEF AbortRow, CInv, Types, Turns, ChatAssumption
<1>2. \A u \in Ids : rows'[u].custom = rows[u].custom
  BY <1>1 DEF Rows
<1>3. turns > 0 => turns \in Ids
  BY <1>1 DEF Ids
<1>4. turns > 0 => SeenIsOver(turns)' /\ (Listened(turns)' => Tracked(turns)')
  BY <1>1, <1>2, <1>3 DEF StateInv, SeenIsOver, Listened, Tracked, Now
<1>5. \A t \in 1..turns' : OutputTells(t)'
  BY <1>1 DEF StateInv, OutputTells
<1> QED
  BY <1>1, <1>4, <1>5 DEF StateInv

LEMMA StateNext ==
  ASSUME ChatAssumption, CInv, StateInv, [Next]_vars
  PROVE  StateInv'
<1>1. CASE Send \/ Detach
  BY <1>1, StartState DEF Send, Detach
<1>2. CASE AbortRow
  BY <1>2, AbortRowState
<1>3. CASE OpenSession
  <2>1. Quiet /\ UNCHANGED <<mode, turns, drv, srv, chan, rows>> /\ chat'.seen = {}
    BY <1>3 DEF OpenSession, NewChat
  <2> QED
    BY <2>1, OpenedState
<1>4. CASE LoadChat
  <2>1. Quiet /\ UNCHANGED <<mode, turns, drv, srv, chan, rows>> /\ chat'.seen = {}
    BY <1>4 DEF LoadChat
  <2> QED
    BY <2>1, OpenedState
<1>5. ASSUME NEW t \in 1..turns, Client(t) \/ Server(t) \/ Round(t) \/ Update(t) \/ Break(t) \/ AbortTurn(t)
      PROVE  StateInv'
  <2>1. CASE Client(t)
    BY <2>1, RunTurnState, PumpState, CommitState, DeliverCancelState DEF Client
  <2>2. CASE Server(t)
    BY <2>2, LoadState, ResumedState, EndState DEF Server
  <2>3. CASE Round(t) \/ Update(t) \/ Break(t) \/ AbortTurn(t)
    BY <2>3, RoundState, UpdateState, BreakState, AbortTurnState
  <2> QED
    BY <1>5, <2>1, <2>2, <2>3
<1>6. CASE UNCHANGED vars
  <2>1. UNCHANGED <<mode, turns, chat, drv, srv, chan, rows>>
    BY <1>6 DEF vars
  <2>2. \A t : OutputTells(t)' = OutputTells(t)
    BY <2>1 DEF OutputTells
  <2>3. SeenIsOver(turns)' = SeenIsOver(turns) /\ Listened(turns)' = Listened(turns) /\ Tracked(turns)' = Tracked(turns)
    BY <2>1 DEF SeenIsOver, Listened, Tracked, Now
  <2> QED
    BY <2>1, <2>2, <2>3 DEF StateInv
<1> QED
  BY <1>1, <1>2, <1>3, <1>4, <1>5, <1>6 DEF Next

\* The state the client patches together is the server's, for any number of turns, updates and
\* chunks on the way, and whatever became of the turns before: the first patch of a turn sets
\* it, so no lost turn leaves anything in it (emit_custom_patch, TurnDriver.run).
THEOREM PatchesTellTheState == Spec => []StateFollowsPatches
<1>1. Init => CInv /\ StateInv
  BY ChatAssumption, CInvInit, StateInit
<1>2. CInv /\ StateInv /\ [Next]_vars => CInv' /\ StateInv'
  BY ChatAssumption, CInvNext, StateNext
<1>3. CInv /\ StateInv => StateFollowsPatches
  <2> SUFFICES ASSUME CInv, StateInv, mode = "server", turns \in chat.seen, srv[turns].updates > 0
               PROVE  chat.custom = rows[turns].custom
    BY DEF StateFollowsPatches
  <2>1. turns > 0
    BY DEF CInv, Types, Chats, Ids
  <2> QED
    BY <2>1 DEF StateInv, SeenIsOver
<1> QED
  BY <1>1, <1>2, <1>3, PTL DEF Spec
===============================================================================
