------------------------------- MODULE AgentChat -------------------------------
(***************************************************************************)
(* The chat client (AgentChat, TurnDriver, StreamedMessageAccumulator) over *)
(* a transport whose turns run on whether or not anybody listens.          *)
(*                                                                         *)
(* `drv` has one TurnDriver per turn, `srv` the server's side of it: what  *)
(* load_session built, what the turn did to it, the output.  Chunks travel *)
(* through `chan`.  The server is coarse here (AgentRuntime has its steps): *)
(* what it streams, what it saves and what it returns.                     *)
(*                                                                         *)
(* A message is named by its turn and its index in it; a model message     *)
(* comes in two parts.  Custom state is the set of the updates in it.      *)
(***************************************************************************)
EXTENDS Naturals, Sequences, FiniteSets, SequencesExt

CONSTANTS
  Modes,       \* the agents to talk to: "server", "client" (state_management)
  Streams,     \* how models stream a message: "whole", "none"
  Ends,        \* how turns end: "stop", "interrupted", "repaused", "empty",
               \* "failed", "aborted", "raised"
  MaxTurns,    \* bound on the turns of a behaviour
  MaxSteps,    \* bound on the tool rounds and custom-state updates of a turn
  MaxLag,      \* bound on the chunks nobody has read yet when the server goes on
  MaxReopens   \* bound on the chats opened on the session

ASSUME ChatAssumption ==
  /\ Modes \subseteq {"server", "client"}
  /\ Streams \subseteq {"whole", "none"}
  /\ Ends \subseteq {"stop", "interrupted", "repaused", "empty", "failed", "aborted", "raised"}
  /\ {MaxTurns, MaxSteps, MaxLag, MaxReopens} \subseteq Nat

VARIABLES
  mode,     \* who manages the state; never changes
  turns,    \* turns taken so far, over all chats
  reopens,  \* chats opened on the session so far
  chat,     \* the AgentChat
  drv,      \* the TurnDriver of each turn
  srv,      \* the server's side of each turn
  chan,     \* chunks on their way to each turn's pump
  rows      \* the store: the snapshot of each turn

vars == <<mode, turns, reopens, chat, drv, srv, chan, rows>>

None == 0
Ids == 1..MaxTurns
NoMsg == [turn |-> None, i |-> 0, role |-> "none", parts |-> <<>>, asks |-> FALSE]

Prompt(t) == [turn |-> t, i |-> 0, role |-> "user", parts |-> <<1>>, asks |-> FALSE]
\* A model message; `asks` when it ends in interrupts.
Model(t, i, asks) == [turn |-> t, i |-> i, role |-> "model", parts |-> <<1, 2>>, asks |-> asks]
Tool(t, i) == [turn |-> t, i |-> i, role |-> "tool", parts |-> <<1>>, asks |-> FALSE]

Of(ms, ts) == SelectSeq(ms, LAMBDA m : m.turn \in ts)
TurnsIn(ms) == {m.turn : m \in ToSet(ms)}
Paused(ms) == ms # <<>> /\ Last(ms).asks

NoRow == [status |-> "absent", session |-> None, hist |-> <<>>, custom |-> {}]
NoInit == [snap |-> None, session |-> None, hist |-> <<>>, custom |-> {}]
\* An AgentOutput that tells only how the turn went, and of which session.
Answer(fin, snap, session) ==
  [fin |-> fin, snap |-> snap, session |-> session, msg |-> NoMsg, hist |-> <<>>, custom |-> {}]
NoOutput == Answer("none", None, None)
Raised == Answer("raised", None, None)
NoTurn == [at |-> "off", init |-> NoInit, input |-> "none", deaf |-> FALSE, session |-> None,
           base |-> <<>>, good |-> {}, hist |-> <<>>, custom |-> {}, updates |-> 0,
           rounds |-> 0, out |-> NoOutput]
NewChat == [snap |-> None, resume |-> None, session |-> None, messages |-> <<>>,
            custom |-> {}, seen |-> {}, stored |-> {}, loaded |-> None]

Init ==
  /\ mode \in Modes
  /\ turns = 0
  /\ reopens = 0
  /\ chat = NewChat
  /\ drv = [t \in Ids |-> [pc |-> "none", kind |-> "none", before |-> 0, acc |-> <<>>,
                           how |-> "open", closed |-> FALSE]]
  /\ srv = [t \in Ids |-> NoTurn]
  /\ chan = [t \in Ids |-> <<>>]
  /\ rows = [t \in Ids |-> NoRow]

-----------------------------------------------------------------------------
(* Starting a turn *)

\* Single-flight: the last turn's response has settled.
Quiet == turns > 0 => drv[turns].how # "open"

Optimistic(t, input) ==
  IF input = "prompt" THEN Append(chat.messages, Prompt(t)) ELSE chat.messages

\* Fault: the payload is built after the optimistic append.
InitAfterAppend(t, input) ==
  IF mode = "client"
  THEN [snap |-> None, session |-> chat.session, hist |-> Optimistic(t, input),
        custom |-> chat.custom]
  ELSE [NoInit EXCEPT !.snap = chat.resume, !.session = chat.session]

\* _wire_init: what the turn resumes from
WireInit(t, input) ==
  IF mode = "client"
  THEN [snap |-> None, session |-> chat.session, hist |-> chat.messages, custom |-> chat.custom]
  ELSE IF chat.resume # None
  THEN [NoInit EXCEPT !.snap = chat.resume]
  ELSE [NoInit EXCEPT !.session = chat.session]

(* _start_turn and detach().  send_stream() makes a task that has not run yet;
   send() is the same turn whose first step comes at once.  Every turn gets an
   accumulator of its own. *)
Start(kind, input) ==
  LET t == turns + 1 IN
  /\ turns < MaxTurns
  /\ Quiet
  /\ input = "resume" => Paused(chat.messages)
  /\ turns' = t
  /\ chat' = [chat EXCEPT !.messages = Optimistic(t, input)]
  /\ drv' = [drv EXCEPT ![t] = [pc |-> "unstarted", kind |-> kind, before |-> Len(chat.messages),
                                acc |-> <<>>, how |-> "open", closed |-> FALSE]]
  /\ srv' = [srv EXCEPT ![t] = [@ EXCEPT !.init = WireInit(t, input), !.input = input,
                                         !.deaf = (kind = "detach")]]
  /\ UNCHANGED <<mode, reopens, chan, rows>>

Send == \E input \in {"prompt", "resume"} : Start("stream", input)
Detach == \E input \in {"prompt", "resume"} : Start("detach", input)

\* transport.run_turn: the server has the turn; detach() reads no chunk of it.
RunTurn(t) ==
  /\ drv[t].pc = "unstarted"
  /\ drv' = [drv EXCEPT ![t].pc = IF drv[t].kind = "detach" THEN "await" ELSE "pump"]
  /\ srv' = [srv EXCEPT ![t].at = "load"]
  /\ UNCHANGED <<mode, turns, reopens, chat, chan, rows>>

-----------------------------------------------------------------------------
(* The server's side of a turn *)

Patch(op, c) == [kind |-> "patch", op |-> op, custom |-> c]
Piece(m, n) == [kind |-> "message", msg |-> [m EXCEPT !.parts = <<n>>, !.asks = FALSE]]
TurnEnd == [kind |-> "turnEnd"]
Broken == [kind |-> "error"]

\* How message m is streamed; generate itself streams the tool messages.
Chunks(m, way) ==
  IF m.role = "tool" \/ way = "whole"
  THEN [n \in 1..Len(m.parts) |-> Piece(m, m.parts[n])]
  ELSE <<>>

\* send_chunk: nothing goes to a client that detached, and nobody reads what
\* goes to one that aborted or over a broken connection.
Emit(t, cs) ==
  /\ Len(chan[t]) <= MaxLag
  /\ chan' = IF srv[t].deaf THEN chan ELSE [chan EXCEPT ![t] = @ \o cs]

Detached(t) == drv[t].kind = "detach"

\* The index of the next message of the turn.
NextIndex(t) == Cardinality({k \in DOMAIN srv[t].hist : srv[t].hist[k].turn = t})

\* run() returns the output; on an exception the transport passes it on.
Finish(t, out) ==
  [srv EXCEPT ![t] = [NoTurn EXCEPT !.at = "done", !.updates = srv[t].updates,
                                    !.out = IF srv[t].out = NoOutput THEN out ELSE srv[t].out]]

\* The session a turn may run on: load_session.  Which completed row a session
\* id leads to is SessionHistory's subject; here it may be any.
Sessions(t, init) ==
  IF mode = "client" THEN {[session |-> init.session, hist |-> init.hist, custom |-> init.custom]}
  ELSE IF init.snap # None THEN {rows[init.snap]}
  ELSE {[session |-> IF init.session = None THEN t ELSE init.session, hist |-> <<>>, custom |-> {}]}
       \cup {rows[r] : r \in {r \in Ids : rows[r].status = "completed"
                                          /\ rows[r].session = init.session}}

\* The turn, on the session it loaded; a detached one has answered.
OnSession(t, from) ==
  LET s == srv[t] IN
  [at |-> IF s.input = "resume" THEN "resume" ELSE "run", init |-> NoInit, input |-> s.input,
   deaf |-> s.deaf, session |-> from.session, base |-> from.hist, good |-> from.custom,
   hist |-> from.hist \o (IF s.input = "prompt" THEN <<Prompt(t)>> ELSE <<>>),
   custom |-> from.custom, updates |-> 0, rounds |-> 0,
   out |-> IF Detached(t) THEN Answer("detached", t, from.session) ELSE s.out]

(* load_session, and the message that came in.  A row that is not completed
   is refused.  A detach leaves a pending row and answers at once; without a
   store it raises. *)
Load(t) ==
  LET s == srv[t] IN
  /\ s.at = "load"
  /\ \/ /\ s.init.snap # None
        /\ rows[s.init.snap].status # "completed"
        /\ srv' = Finish(t, Answer("failed", None, None))
        /\ UNCHANGED <<chan, rows>>
     \/ /\ Detached(t) /\ mode = "client"
        /\ srv' = Finish(t, Raised)
        /\ UNCHANGED <<chan, rows>>
     \/ /\ s.init.snap # None => rows[s.init.snap].status = "completed"
        /\ Detached(t) => mode = "server"
        /\ \E from \in Sessions(t, s.init) :
             /\ srv' = [srv EXCEPT ![t] = OnSession(t, from)]
             /\ rows' = IF Detached(t)
                        THEN [rows EXCEPT ![t] = [status |-> "pending", session |-> from.session,
                                                  hist |-> from.hist, custom |-> from.custom]]
                        ELSE rows
        /\ UNCHANGED chan
  /\ UNCHANGED <<mode, turns, reopens, chat, drv>>

\* The resumed tools are in: their message is streamed before the model runs.
Resumed(t) ==
  LET m == Tool(t, NextIndex(t)) IN
  /\ srv[t].at = "resume"
  /\ Paused(srv[t].base)
  /\ srv' = [srv EXCEPT ![t].at = "run", ![t].hist = Append(@, m)]
  /\ Emit(t, Chunks(m, "whole"))
  /\ UNCHANGED <<mode, turns, reopens, chat, drv, rows>>

HasStep(t) == srv[t].rounds + srv[t].updates < MaxSteps

\* One tool round: the model's request and the tools' answers.
Round(t) ==
  LET call == Model(t, NextIndex(t), FALSE)
      answer == Tool(t, NextIndex(t) + 1)
  IN
  /\ srv[t].at = "run"
  /\ HasStep(t)
  /\ srv' = [srv EXCEPT ![t].rounds = @ + 1, ![t].hist = @ \o <<call, answer>>]
  /\ \E way \in Streams : Emit(t, Chunks(call, way) \o Chunks(answer, way))
  /\ UNCHANGED <<mode, turns, reopens, chat, drv, rows>>

\* emit_custom_patch: the first patch of a turn re-bases the client.
NextPatch(t, u) ==
  IF srv[t].updates = 0 THEN Patch("replace", srv[t].custom \cup {u}) ELSE Patch("delta", {u})

Update(t) ==
  LET u == <<t, srv[t].updates + 1>> IN
  /\ srv[t].at = "run"
  /\ HasStep(t)
  /\ srv' = [srv EXCEPT ![t].updates = @ + 1, ![t].custom = @ \cup {u}]
  /\ Emit(t, <<NextPatch(t, u)>>)
  /\ UNCHANGED <<mode, turns, reopens, chat, drv, rows>>

\* The row of the turn: the turn-end save, or the finalizer of a detach.
Save(t, status, hist) ==
  rows' = IF mode = "client" \/ rows[t].status = "aborted" THEN rows
          ELSE [rows EXCEPT ![t] = [status |-> status, session |-> srv[t].session,
                                    hist |-> hist, custom |-> srv[t].custom]]

(* The turn ends with a message, or without: result() then returns the last
   message of the session.  The output's message is the one in the session;
   an agent may leave it to the stream. *)
EndWith(t, fin, hist, msg, cs) ==
  /\ srv' = Finish(t, IF mode = "server"
                      THEN [Answer(fin, t, srv[t].session) EXCEPT !.msg = msg]
                      ELSE [fin |-> fin, snap |-> None, session |-> srv[t].session, msg |-> msg,
                            hist |-> hist, custom |-> srv[t].custom])
  /\ Save(t, "completed", hist)
  /\ Emit(t, Append(cs, TurnEnd))

End(t) ==
  LET s == srv[t]
      reply(asks) == Model(t, NextIndex(t), asks)
  IN
  /\ \/ /\ s.at = "run" /\ "stop" \in Ends
        /\ \E way \in Streams, msg \in {reply(FALSE), NoMsg} :
             EndWith(t, "stop", Append(s.hist, reply(FALSE)), msg, Chunks(reply(FALSE), way))
     \/ /\ s.at = "run" /\ "interrupted" \in Ends
        /\ \E way \in Streams :
             EndWith(t, "interrupted", Append(s.hist, reply(TRUE)), reply(TRUE),
                     Chunks(reply(TRUE), way))
     \/ /\ s.at = "resume" /\ Paused(s.base) /\ "repaused" \in Ends
        /\ EndWith(t, "interrupted", Append(Front(s.base), reply(TRUE)), reply(TRUE), <<>>)
     \/ /\ s.at = "run" /\ {"empty", "aborted"} \cap Ends # {}
        /\ \E fin \in {"empty", "aborted"} \cap Ends : EndWith(t, fin, s.hist, Last(s.hist), <<>>)
     \/ /\ s.at \in {"run", "resume"} /\ "failed" \in Ends
        /\ LET snap == IF mode = "server" /\ s.hist = s.base /\ s.updates = 0 THEN t ELSE None IN
           srv' = Finish(t, [Answer("failed", snap, s.session) EXCEPT
                               !.hist = IF mode = "client" THEN s.base ELSE <<>>,
                               !.custom = IF mode = "client" THEN s.good ELSE {}])
        /\ Emit(t, <<Piece(reply(FALSE), 1), TurnEnd>>)
        /\ Save(t, "failed", s.hist)
     \/ /\ s.at \in {"run", "resume"} /\ "raised" \in Ends
        /\ srv' = Finish(t, Raised)
        /\ Emit(t, <<Broken>>)
        /\ IF Detached(t) THEN Save(t, "failed", s.hist) ELSE UNCHANGED rows
  /\ UNCHANGED <<mode, turns, reopens, chat, drv>>

\* The connection breaks; the server's turn goes on.
Break(t) ==
  /\ srv[t].at \in {"load", "resume", "run"}
  /\ srv[t].out = NoOutput /\ "raised" \in Ends /\ ~srv[t].deaf
  /\ srv' = [srv EXCEPT ![t].out = Raised, ![t].deaf = TRUE]
  /\ chan' = [chan EXCEPT ![t] = Append(@, Broken)]
  /\ UNCHANGED <<mode, turns, reopens, chat, drv, rows>>
-----------------------------------------------------------------------------
(* The client's side of a turn *)

\* StreamedMessageAccumulator: deltas of one role and index are one message.
Accumulate(acc, m) ==
  IF acc # <<>> /\ Last(acc).role = m.role /\ Last(acc).i = m.i
  THEN Append(Front(acc), [Last(acc) EXCEPT !.parts = @ \o m.parts])
  ELSE Append(acc, m)

ApplyPatch(custom, c) == IF c.op = "replace" THEN c.custom ELSE custom \cup c.custom

\* Fault: a turn that did not come to a result leaves its stream open.
LeaveOpen(t, how, pc) ==
  drv' = [drv EXCEPT ![t].pc = pc, ![t].closed = (how = "result"), ![t].acc = <<>>, ![t].before = 0,
                     ![t].how = IF drv[t].how = "open" THEN how ELSE @]

\* The finally of run(): the chunk queue is closed, whatever happened.
Settle(t, how, pc) ==
  drv' = [drv EXCEPT ![t].pc = pc, ![t].closed = TRUE, ![t].acc = <<>>, ![t].before = 0,
                     ![t].how = IF drv[t].how = "open" THEN how ELSE @]

(* run() takes the next chunk: it feeds the accumulator and the custom state,
   until the turn ends, the stream does, or it raises. *)
Pump(t) ==
  /\ drv[t].pc = "pump"
  /\ IF chan[t] # <<>>
     THEN LET c == Head(chan[t]) IN
          /\ chan' = [chan EXCEPT ![t] = Tail(@)]
          /\ \/ /\ c.kind = "message"
                /\ drv' = [drv EXCEPT ![t].acc = Accumulate(@, c.msg)]
                /\ UNCHANGED chat
             \/ /\ c.kind = "patch"
                /\ chat' = [chat EXCEPT !.custom = ApplyPatch(@, c)]
                /\ UNCHANGED drv
             \/ c.kind = "turnEnd" /\ drv' = [drv EXCEPT ![t].pc = "await"] /\ UNCHANGED chat
             \/ c.kind = "error" /\ Settle(t, "error", "done") /\ UNCHANGED chat
     ELSE /\ srv[t].out # NoOutput
          /\ drv' = [drv EXCEPT ![t].pc = "await"]
          /\ UNCHANGED <<chat, chan>>
  /\ UNCHANGED <<mode, turns, reopens, srv, rows>>

Dead(o) == o.fin \in {"failed", "aborted"}

\* A failed or aborted turn's row is not a place to go on from.
ResumeRow(c, o) == IF o.snap # None /\ ~Dead(o) THEN o.snap ELSE c.resume

\* _append_turn_messages: the output's reply replaces the streamed one.
TurnMessages(acc, msg) ==
  IF msg = NoMsg THEN acc
  ELSE Append(IF acc # <<>> /\ Last(acc).role = "model" THEN Front(acc) ELSE acc, msg)

View(c, t, o) ==
  IF Dead(o) THEN SubSeq(c.messages, 1, Min({drv[t].before, Len(c.messages)}))
  ELSE c.messages \o TurnMessages(drv[t].acc, o.msg)

\* _update_from_output: the client-managed blob rides home on the output.
UpdateFromOutput(c, t, o) ==
  [c EXCEPT !.snap = IF o.snap # None THEN o.snap ELSE @,
            !.resume = ResumeRow(c, o),
            !.messages = View(c, t, o),
            !.session = IF mode = "client" \/ o.session # None THEN o.session ELSE @,
            !.custom = IF mode = "client" THEN o.custom ELSE @,
            !.seen = IF Dead(o) \/ o.fin = "detached" THEN @ ELSE @ \cup {t}]

HowOf(o) == IF o.fin = "failed" THEN "failed" ELSE IF o.fin = "aborted" THEN "rolledBack" ELSE "result"

\* The output is in: commit it, or raise what it is.
Commit(t) ==
  LET o == srv[t].out IN
  /\ drv[t].pc = "await"
  /\ o # NoOutput
  /\ IF o = Raised
     THEN Settle(t, "error", "done") /\ UNCHANGED chat
     ELSE Settle(t, HowOf(o), "done") /\ chat' = UpdateFromOutput(chat, t, o)
  /\ UNCHANGED <<mode, turns, reopens, srv, chan, rows>>

\* Fault: the result is settled but the task that pumps runs on.
CancelResultOnly(t) == drv' = [drv EXCEPT ![t].how = "cancelled"] /\ UNCHANGED <<srv, chan>>

\* abort(), and a caller cancelled at an await: the result settles at once; a
\* task that never ran never gets to its finally.
CancelDriver(t) ==
  /\ drv' = [drv EXCEPT ![t].how = "cancelled", ![t].acc = <<>>,
                        ![t].pc = IF @ = "unstarted" THEN "done" ELSE "cancelling"]
  /\ srv' = [srv EXCEPT ![t].deaf = TRUE]
  /\ chan' = [chan EXCEPT ![t] = <<>>]

AbortTurn(t) ==
  /\ drv[t].pc \in {"pump", "await"} \/ (drv[t].pc = "unstarted" /\ ~Detached(t))
  /\ drv[t].how = "open"
  /\ CancelDriver(t)
  /\ UNCHANGED <<mode, turns, reopens, chat, rows>>

\* The task of an aborted turn gets its CancelledError.
DeliverCancel(t) ==
  /\ drv[t].pc = "cancelling"
  /\ Settle(t, "cancelled", "done")
  /\ UNCHANGED <<mode, turns, reopens, chat, srv, chan, rows>>

\* chat.abort(), DetachedTask.abort(): a pending row becomes aborted.
AbortRow ==
  /\ chat.snap # None
  /\ rows[chat.snap].status = "pending"
  /\ rows' = [rows EXCEPT ![chat.snap].status = "aborted"]
  /\ UNCHANGED <<mode, turns, reopens, chat, drv, srv, chan>>

\* agent.chat(session_id=...)
OpenSession ==
  /\ reopens < MaxReopens
  /\ Quiet
  /\ mode = "server" /\ chat.session # None
  /\ reopens' = reopens + 1
  /\ chat' = [NewChat EXCEPT !.session = chat.session]
  /\ UNCHANGED <<mode, turns, drv, srv, chan, rows>>

\* load_chat: a stored row, whatever its status, becomes the chat.
LoadChat ==
  /\ reopens < MaxReopens
  /\ Quiet
  /\ reopens' = reopens + 1
  /\ \E r \in {r \in Ids : rows[r].status # "absent" /\ rows[r].session = chat.session} :
       chat' = [snap |-> r, resume |-> r, session |-> rows[r].session, messages |-> rows[r].hist,
                custom |-> rows[r].custom, seen |-> {}, stored |-> TurnsIn(rows[r].hist), loaded |-> r]
  /\ UNCHANGED <<mode, turns, drv, srv, chan, rows>>

-----------------------------------------------------------------------------

Client(t) == RunTurn(t) \/ Pump(t) \/ Commit(t) \/ DeliverCancel(t)
Server(t) == Load(t) \/ Resumed(t) \/ End(t)

Next ==
  \/ Send \/ Detach \/ AbortRow \/ OpenSession \/ LoadChat
  \/ \E t \in 1..turns :
       \/ Client(t) \/ Server(t)
       \/ Round(t) \/ Update(t) \/ Break(t) \/ AbortTurn(t)

\* Tasks that can run do, and the server's turns end.
Spec == Init /\ [][Next]_vars /\ \A t \in Ids : WF_vars(Client(t)) /\ WF_vars(Server(t))

-----------------------------------------------------------------------------
(* Properties *)

Latest == drv[turns]

(* Of the turns the chat has seen to their end, or was loaded with, its running view and the row
   the next turn resumes from tell the same story, although the view was
   stitched from chunks and the row was written by the server: after aborts,
   failures, detached turns and resumes in between (AgentChat.messages). *)
ViewFollowsStore ==
  Quiet /\ mode = "server" /\ chat.resume # None =>
    LET known == chat.seen \cup chat.stored IN
    Of(chat.messages, known) = Of(rows[chat.resume].hist, known)

(* Without a store the client is the source of truth, and what it will ship
   with the next turn is exactly what the server had at the end of the last
   one: prompts of aborted turns stay in, nothing is in twice. *)
BlobIsServers ==
  mode = "client" /\ turns > 0 /\ Latest.how = "result" =>
    /\ chat.messages = srv[turns].out.hist
    /\ chat.custom = srv[turns].out.custom

(* After a turn that updated the custom state, the state the client patched
   together is the server's, even when turns before it failed half-way, were
   aborted, or ran detached (emit_custom_patch re-bases every turn). *)
StateFollowsPatches ==
  mode = "server" /\ turns \in chat.seen /\ Latest.how = "result" /\ srv[turns].updates > 0 =>
    chat.custom = rows[turns].custom

(* Every copy the client keeps, the view, the blob it ships and the state it
   patched together, tells what the server has. *)
CopiesAgree == ViewFollowsStore /\ BlobIsServers /\ StateFollowsPatches

(* A chat never points its next turn at a row that cannot be resumed, except
   at the row of a detached turn or the one it was loaded from. *)
NeverStuck ==
  \/ chat.resume \in {None, chat.loaded}
  \/ Detached(chat.resume)
  \/ rows[chat.resume].status = "completed"

(* A turn without an answer leaves the view as it found it: nothing of a failed
   turn stays (_rollback_optimistic), and of an aborted one only its prompt,
   also when its answer arrives while the next turn is under way
   (TurnDriver.abort). *)
UnansweredTurns ==
  \A t \in 1..turns :
    LET left == IF t \in chat.stored THEN {} ELSE {m \in ToSet(chat.messages) : m.turn = t} IN
    /\ drv[t].how \in {"failed", "rolledBack"} => left = {}
    /\ drv[t].how = "cancelled" => left \subseteq {Prompt(t)}

(* However a turn fails, the chat goes on from what the last good one left: it
   points at a row that can be resumed, and shows no part of the lost turn. *)
LostTurnsUndone == NeverStuck /\ UnansweredTurns

(* Whoever waits for the response of a turn, or reads its stream, gets to the
   end of it: a chat always comes back to where the next turn may be sent.  (A
   turn aborted before its task first ran leaves its stream open.) *)
TurnsSettle ==
  []<>(\A t \in Ids : srv[t].at # "off" => drv[t].how # "open" /\ drv[t].closed)
===============================================================================
