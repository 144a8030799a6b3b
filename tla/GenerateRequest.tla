---------------------------- MODULE GenerateRequest ----------------------------
(***************************************************************************)
(* What generate() asks a model: the options folded into a request, the    *)
(* instructions of the output format and the documents put into its        *)
(* messages, the tools it offers.  A program calls again and again with    *)
(* the history it got back, each call with options of its own; the request *)
(* is built anew for every turn of the tool loop (Generate has the loop).  *)
(*                                                                         *)
(* A part is text, instructions or documents, or a placeholder for them    *)
(* that a prompt template left.  A tool name is a path; models are told    *)
(* the whole of it and may call it by its last segment.                    *)
(***************************************************************************)
EXTENDS Naturals, Sequences, FiniteSets, SequencesExt

CONSTANTS
  Orders,      \* options of a call: [format, instruct, docs, tools, contributed]
  Registered,  \* names of the registered tools
  Catalog,     \* names of the tools of the dynamic action provider
  MaxAsked     \* bound on the requests of one behaviour

ASSUME MaxAsked \in Nat

VARIABLES
  order,    \* the options of the current call
  given,    \* the messages the current call was started with
  doorMsgs, \* options.messages as the loop goes on
  asked,    \* the request last sent
  tally,    \* requests sent
  offered,  \* the tools behind the request
  ran,      \* the last tool call: the name in it, and the tool that ran
  history,  \* the history the program holds
  stage     \* idle, turn (the next request is due), asked

requestVars == <<order, given, doorMsgs, asked, tally, offered, ran, history, stage>>

Say(who, parts) == [who |-> who, parts |-> parts]
Text == [is |-> "text", of |-> "words"]
Pending(is) == [is |-> is, of |-> "pending"]
NoOrder == [format |-> "none", instruct |-> "unset", docs |-> "none", tools |-> <<>>, contributed |-> <<>>]
NotRun == [called |-> <<>>, tool |-> <<>>]

RequestInit ==
  /\ order = NoOrder /\ given = <<>> /\ doorMsgs = <<>> /\ asked = <<>> /\ history = <<>>
  /\ offered = <<>> /\ ran = NotRun /\ tally = 0 /\ stage = "idle"

-----------------------------------------------------------------------------
(* Instructions and documents *)

Has(msg, is, pending) ==
  \E k \in DOMAIN msg.parts : msg.parts[k].is = is /\ (msg.parts[k].of = "pending") = pending

\* A part takes the place of the placeholder, or goes to the end
PutPart(msg, part) ==
  IF Has(msg, part.is, TRUE)
  THEN LET k == CHOOSE k \in DOMAIN msg.parts :
                  /\ msg.parts[k] = Pending(part.is)
                  /\ \A j \in 1..(k - 1) : msg.parts[j] # Pending(part.is)
       IN  [msg EXCEPT !.parts[k] = part]
  ELSE [msg EXCEPT !.parts = Append(@, part)]

LastUser(ms) == LET users == {i \in DOMAIN ms : ms[i].who = "user"}
                IN  IF users = {} THEN 0 ELSE CHOOSE i \in users : \A j \in users : j <= i

FirstOf(ms, Test(_)) == LET is == {i \in DOMAIN ms : Test(ms[i])}
                        IN  IF is = {} THEN 0 ELSE CHOOSE i \in is : \A j \in is : i <= j

\* Where instructions go: a placeholder, the system message, the last question
InstructionsAt(ms) ==
  LET waits(m) == Has(m, "output", TRUE)
      isSystem(m) == m.who = "system"
  IN  IF FirstOf(ms, waits) # 0 THEN FirstOf(ms, waits)
      ELSE IF FirstOf(ms, isSystem) # 0 THEN FirstOf(ms, isSystem) ELSE LastUser(ms)

\* Fault: instructions that are there already are not looked for.
InjectAgain(ms, text) ==
  LET i == InstructionsAt(ms)
  IN  IF i = 0 THEN ms ELSE [ms EXCEPT ![i] = PutPart(@, [is |-> "output", of |-> text])]

\* inject_instructions
InjectInstructions(ms, text) ==
  LET i == InstructionsAt(ms)
  IN  IF i = 0 \/ \E k \in DOMAIN ms : Has(ms[k], "output", FALSE) THEN ms
      ELSE [ms EXCEPT ![i] = PutPart(@, [is |-> "output", of |-> text])]

\* What a format says of itself: JSON asks the provider for the schema and leaves the
\* instructions out unless they are asked for; text has nothing to say
InstructsByDefault(format) == format \notin {"json", "text"}

\* resolve_instructions
Instructions(o) == IF o.instruct = "custom" THEN "custom" ELSE o.format
Wanted(o) ==
  /\ o.format # "none"
  /\ IF o.instruct = "unset" THEN InstructsByDefault(o.format) ELSE o.instruct # "off"
  /\ o.instruct = "custom" \/ o.format # "text"

\* apply_format
ApplyFormat(o, ms) == IF Wanted(o) THEN InjectInstructions(ms, Instructions(o)) ELSE ms

\* augment_with_context, on a copy of the request
AugmentWithContext(ms, docs) ==
  LET i == LastUser(ms)
  IN  IF docs = "none" \/ i = 0 THEN ms
      ELSE IF Has(ms[i], "context", FALSE) THEN ms
      ELSE [ms EXCEPT ![i] = PutPart(@, [is |-> "context", of |-> docs])]

-----------------------------------------------------------------------------
(* Tools: a tool is named, or selected from the provider by name or all of them *)

ShortName(name) == Last(name)

\* expand_wildcard_tools: names in order; a selector that finds nothing stays, and fails
Expand(sel) ==
  IF sel.from = "name" THEN <<sel.name>>
  ELSE LET found == SelectSeq(Catalog, LAMBDA n : sel.name \in {<<"*">>, n})
       IN  IF found = <<>> THEN <<Append(sel.name, "unresolved")>> ELSE found
ExpandWildcards(sels) == FlattenSeq([i \in DOMAIN sels |-> Expand(sels[i])])

\* What middleware contributes must not be named by the caller or by another middleware;
\* a tool of the provider is not compared here, the caller named its selector
Contribution(o) ==
  LET named == {o.tools[i].name : i \in {i \in DOMAIN o.tools : o.tools[i].from = "name"}}
  IN  IF IsInjective(o.contributed) /\ ToSet(o.contributed) \cap named = {} THEN o.contributed ELSE <<<<"clash">>>>

\* resolve_tools_from_options after the tools of the middleware were registered
Offer(o) == ExpandWildcards(o.tools) \o Contribution(o)
Resolvable(o) ==
  \A n \in ToSet(Offer(o)) : n \in Registered \cup ToSet(Catalog) \cup ToSet(o.contributed)

\* assert_valid_tool_names
ValidToolNames(names) == IsInjective([i \in DOMAIN names |-> ShortName(names[i])])

\* tool_map_from_actions: the whole name, or the last segment where no name took it before
ToolMap(names, called) ==
  LET hit(n) == n = called \/ <<ShortName(n)>> = called
  IN  IF called \in ToSet(names) THEN called
      ELSE IF FirstOf(names, hit) # 0 THEN names[FirstOf(names, hit)] ELSE <<>>

-----------------------------------------------------------------------------
(* A call *)

\* to_generate_options: the system text of the call goes first, its question last
ToMessages(system, question) ==
  (IF system THEN <<Say("system", <<Text>>)>> ELSE <<>>) \o history \o question

\* No question, one, or one of a template with its placeholders
Questions ==
  {<<>>, <<Say("user", <<Text>>)>>, <<Say("user", <<Text, Pending("context"), Pending("output")>>)>>}

\* _generate, then resolve_door.  A call whose tools cannot be found, or share a last
\* segment, raises here and changes nothing
Begin(o, system, question) ==
  /\ stage = "idle" /\ tally < MaxAsked
  /\ Resolvable(o) /\ ValidToolNames(Offer(o))
  /\ order' = o /\ given' = ToMessages(system, question)
  /\ offered' = Offer(o) /\ doorMsgs' = ApplyFormat(o, given')
  /\ stage' = "turn"
  /\ UNCHANGED <<asked, tally, ran, history>>

\* turn_request: the documents of the call, on the request alone
TurnRequest == AugmentWithContext(doorMsgs, order.docs)

\* call_model
AskModel ==
  /\ stage = "turn" /\ tally < MaxAsked
  /\ asked' = TurnRequest
  /\ tally' = tally + 1 /\ stage' = "asked"
  /\ UNCHANGED <<order, given, doorMsgs, offered, ran, history>>

\* A tool round closes: the history goes on from the options, not from the request
CallTool(called) ==
  /\ stage = "asked" /\ tally < MaxAsked /\ ToolMap(offered, called) # <<>>
  /\ ran' = [called |-> called, tool |-> ToolMap(offered, called)]
  /\ doorMsgs' = doorMsgs \o <<Say("model", <<Text>>), Say("tool", <<Text>>)>>
  /\ stage' = "turn"
  /\ UNCHANGED <<order, given, asked, tally, offered, history>>

\* The last answer, or a failure that drops the turn; either way the caller gets the
\* history it can resend (attach_resendable_history)
Finish(answer) ==
  /\ stage = "asked"
  /\ history' = doorMsgs \o answer
  /\ stage' = "idle"
  /\ order' = NoOrder /\ given' = <<>> /\ doorMsgs' = <<>>
  /\ asked' = <<>> /\ offered' = <<>> /\ ran' = NotRun
  /\ UNCHANGED tally

RequestNext ==
  \/ \E o \in Orders, system \in BOOLEAN, q \in Questions : Begin(o, system, q)
  \/ AskModel
  \/ \E i \in DOMAIN offered : CallTool(offered[i]) \/ CallTool(<<ShortName(offered[i])>>)
  \/ \E answer \in {<<>>, <<Say("model", <<Text>>)>>} : Finish(answer)

RequestSpec == RequestInit /\ [][RequestNext]_requestVars

-----------------------------------------------------------------------------
(* Properties *)

Spots(ms, is) == {<<i, k>> \in (DOMAIN ms) \X (1..4) :
                    k \in DOMAIN ms[i].parts /\ ms[i].parts[k].is = is /\ ms[i].parts[k].of # "pending"}
PartAt(ms, spot) == ms[spot[1]].parts[spot[2]]

\* However often the history is sent again, and however many turns a call takes, a request
\* tells the format's instructions once and the documents of this call once, behind the
\* question they are for; documents never get into the history, so those of one call are
\* not shown to the next (apply_format, turn_request, attach_resendable_history).
SaidOnce ==
  /\ stage = "asked" =>
       /\ Cardinality(Spots(asked, "output")) <= 1
       /\ IF order.docs # "none" /\ LastUser(asked) # 0
          THEN /\ Cardinality(Spots(asked, "context")) = 1
               /\ \A s \in Spots(asked, "context") :
                    s[1] = LastUser(asked) /\ PartAt(asked, s).of = order.docs
          ELSE Spots(asked, "context") = {}
  /\ Spots(history, "context") = {}

\* A call that wants instructions gets its own, unless its history tells some already.
InstructionsArrive ==
  stage = "asked" /\ Wanted(order) /\ Spots(given, "output") = {} /\ LastUser(given) # 0 =>
    \E s \in Spots(asked, "output") : PartAt(asked, s).of = Instructions(order)

\* Whatever name the model calls a tool by, the tool that runs is the one it was offered
\* under that name, and no other has it (assert_valid_tool_names, tool_map_from_actions).
NamesAreUnambiguous ==
  /\ ran.called # <<>> => ran.tool = ran.called \/ <<ShortName(ran.tool)>> = ran.called
  /\ stage = "asked" => \A i, j \in DOMAIN offered :
       i # j => ShortName(offered[i]) # ShortName(offered[j])

RequestsSayItOnce == SaidOnce /\ InstructionsArrive /\ NamesAreUnambiguous

\* Instructions in a request are those of its call: the next call's format is told too
\* when it goes on from a conversation that was told another.
InstructionsAreTheCalls ==
  stage = "asked" /\ Wanted(order) =>
    \A s \in Spots(asked, "output") : PartAt(asked, s).of = Instructions(order)
================================================================================
