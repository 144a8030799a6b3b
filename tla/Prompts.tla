-------------------------------- MODULE Prompts --------------------------------
(***************************************************************************)
(* Prompts: the agent that is a prompt, the settings of a call, and the    *)
(* folder prompts are loaded from.                                         *)
(*                                                                         *)
(* Three parts that share nothing, one per behaviour:                      *)
(*   turns   a prompt agent renders its template around the session's      *)
(*           messages, generates, and writes the conversation back; the    *)
(*           tags put on at render time say what to keep;                  *)
(*   config  one setting, which four layers may set under two spellings;   *)
(*   files   the scan of a directory tree for .prompt files, in whatever   *)
(*           order the file system lists them.                             *)
(*                                                                         *)
(* A message is its number: the order it was said in.  A template's text   *)
(* is number 0.                                                            *)
(***************************************************************************)
EXTENDS Integers, Sequences, FiniteSets, SequencesExt

CONSTANTS
  PromptShapes,     \* the prompts of agents: [system, messages, user]
  MaxSaid,          \* bound on the messages of a conversation
  ToolInputs,       \* what a tool may be asked with
  Folder,           \* directories and files: [path |-> [parent, kind]]
  Refs              \* the refs a provider gives its tool requests

ASSUME PromptsAssumption ==
  /\ PromptShapes \subseteq
       [system : BOOLEAN, messages : {"none", "template", "list"}, user : BOOLEAN]
  /\ MaxSaid \in Nat

VARIABLES
  job,        \* the part of this behaviour, with its parameters
  session,    \* session.messages
  said,       \* every message of the user, the model and its tools, in order
  restarted,  \* the restarts that were let through, with the request they answer
  scan,       \* the entries still to come of every directory being read
  found,      \* the prompts that were registered
  skipped     \* directories whose scan an exception ended

turnVars == <<session, said, restarted>>
fileVars == <<scan, found, skipped>>
promptVars == <<job, turnVars, fileVars>>

-----------------------------------------------------------------------------
(* Turns *)

\* Part of a message that matters here: its number, who said it, and the request it makes
Note(n, role, ask) == [n |-> n, role |-> role, ask |-> ask]
NoAsk == [ref |-> "none", input |-> "none"]
Template(role) == [msg |-> Note(0, role, NoAsk), tag |-> "none"]

\* tag_history_for_render
TagHistory(history) == [i \in DOMAIN history |-> [msg |-> history[i], tag |-> "history"]]

\* apply_preamble_tags
ApplyPreambleTags(rendered) ==
  [i \in DOMAIN rendered |->
     [rendered[i] EXCEPT !.tag = IF @ = "history" THEN "none" ELSE "preamble"]]

\* render_message_prompt, or the caller's history where the prompt has no messages: a
\* template places the history in its own text, a list has no place for it
RenderMessages(shape, history) ==
  CASE shape.messages = "none" -> history
    [] shape.messages = "template" -> <<Template("user")>> \o history \o <<Template("model")>>
    [] shape.messages = "list" -> <<Template("user"), Template("model")>>

\* render_call: the system text, the messages, the prompt's own question
RenderCall(shape, history) ==
  (IF shape.system THEN <<Template("system")>> ELSE <<>>)
    \o RenderMessages(shape, history)
    \o (IF shape.user THEN <<Template("user")>> ELSE <<>>)

\* persist_turn_messages: what was sent, less the preamble, and the reply
Persisted(request, reply) ==
  LET kept == SelectSeq(request, LAMBDA r : r.tag # "preamble")
  IN  [i \in DOMAIN kept |-> kept[i].msg] \o reply

\* find in validate_resume_against_history: the newest request with this handle
Find(history, ref) ==
  LET hits == {i \in DOMAIN history : history[i].role = "model" /\ history[i].ask.ref = ref}
  IN  IF hits = {} THEN NoAsk
      ELSE history[CHOOSE i \in hits : \A j \in hits : j <= i].ask

\* What generate answers with: a tool round closed on the way or not, then a reply, a
\* pause, or nothing at all because the round past max_turns was refused
Rounds(n) == {<<>>, <<Note(n, "model", NoAsk), Note(n + 1, "tool", NoAsk)>>}
Replies(n) ==
  {<<>>, <<Note(n, "model", NoAsk)>>}
    \cup {<<Note(n, "model", [ref |-> r, input |-> i])>> : r \in Refs, i \in ToolInputs}

\* generate_prompt_agent_turn over the messages of this turn
Generated(history) ==
  LET request == ApplyPreambleTags(RenderCall(job.shape, TagHistory(history)))
      n == Len(said) + 1 + (Len(history) - Len(session))
  IN  \E rounds \in Rounds(n) : \E reply \in Replies(n + Len(rounds)) :
        /\ session' = Persisted(request \o [i \in DOMAIN rounds |-> [msg |-> rounds[i], tag |-> "none"]],
                                reply)
        /\ said' = said \o SubSeq(history, Len(session) + 1, Len(history)) \o rounds \o reply

\* A turn with a message of the user: the runner adds it before the handler runs
SayTurn ==
  /\ job.part = "turns" /\ Len(said) + 4 <= MaxSaid
  /\ Generated(Append(session, Note(Len(said) + 1, "user", NoAsk)))
  /\ UNCHANGED <<job, restarted, fileVars>>

\* A turn that restarts a paused tool: handle_turn refuses one whose request was never
\* made, or was made with another input; past that the tool runs with what it was sent,
\* and its answer is the tool message of a closed round
RestartTurn(ref, input) ==
  /\ job.part = "turns" /\ Len(said) + 4 <= MaxSaid
  /\ Find(session, ref) = [ref |-> ref, input |-> input]
  /\ session # <<>> /\ Last(session).ask.ref = ref      \* resolve_resume_options
  /\ restarted' = Append(restarted, [ran |-> input, asked |-> Last(session).ask.input])
  /\ Generated(Append(session, Note(Len(said) + 1, "tool", NoAsk)))
  /\ UNCHANGED <<job, fileVars>>

-----------------------------------------------------------------------------
(* Config: a bag maps the spellings of one setting to "absent", "null" or a value *)

Spellings == {"field", "alias"}
Settings == {"absent", "null", "a", "b"}
Bags == {b \in [Spellings -> Settings] : \E s \in Spellings : b[s] = "absent"}

\* {**lower, **higher}
Update(lower, higher) ==
  [s \in Spellings |-> IF higher[s] # "absent" THEN higher[s] ELSE lower[s]]

\* fold_config_aliases
FoldAliases(bag) == [s \in Spellings |->
  IF s = "alias" THEN "absent"
  ELSE IF bag["alias"] # "absent" THEN bag["alias"] ELSE bag["field"]]

\* overlay_config of two layers: fold each, the last one wins, a null clears
OverlayConfig(low, high) ==
  LET merged == Update(FoldAliases(low), FoldAliases(high))
  IN  [s \in Spellings |-> IF merged[s] = "null" THEN "absent" ELSE merged[s]]

\* _call_from_opts merges the prompt's and the call's bags as written; a ModelRef's own
\* bag then goes below that, folded, and a named model has none and is not folded
MergedConfig(c) ==
  LET merged == Update(c.prompt, c.call)
  IN  IF c.isRef THEN OverlayConfig(c.ref, merged)
      ELSE [s \in Spellings |-> IF merged[s] = "null" THEN "absent" ELSE merged[s]]

\* What the plugin reads once the bag is validated: an alias is taken before a field
SettingOf(bag) == IF bag["alias"] # "absent" THEN bag["alias"] ELSE bag["field"]

\* The setting of the nearest layer that says anything
Nearest(c) ==
  LET layers == (IF c.isRef THEN <<c.ref>> ELSE <<>>) \o <<c.prompt, c.call>>
      spoken == {i \in DOMAIN layers : SettingOf(layers[i]) # "absent"}
      nearest == layers[CHOOSE i \in spoken : \A j \in spoken : j <= i]
  IN  IF spoken = {} \/ SettingOf(nearest) = "null" THEN "absent" ELSE SettingOf(nearest)

\* Calls that spell the setting as the prompt does, where both set it
Configs == {c \in [isRef : BOOLEAN, ref : Bags, prompt : Bags, call : Bags] :
              /\ c.isRef \/ c.ref = [s \in Spellings |-> "absent"]
              /\ \A s \in Spellings : c.prompt[s] # "absent" =>
                   \A other \in Spellings \ {s} : c.call[other] = "absent"}

-----------------------------------------------------------------------------
(* Files *)

EntriesOf(dir) == {p \in DOMAIN Folder : Folder[p].parent = dir}
Reading == Last(scan)     \* the innermost directory: [dir, left]

\* load_prompt_folder
LoadFolder == <<[dir |-> "root", left |-> EntriesOf("root")]>>

\* The except clause of load_prompt_folder_recursively: the directory's own scan ends
EndScan == scan' = Front(scan)

\* load_prompt, define_partial, or the call for a subdirectory
TakeEntry(p) ==
  /\ scan # <<>> /\ p \in Reading.left
  /\ UNCHANGED <<job, turnVars>>
  /\ LET rest == Append(Front(scan), [Reading EXCEPT !.left = @ \ {p}])
     IN  \/ /\ Folder[p].kind = "good"
            /\ found' = found \cup {p} /\ scan' = rest /\ UNCHANGED skipped
         \/ /\ Folder[p].kind = "bad"
            /\ skipped' = skipped \cup {Reading.dir} /\ EndScan /\ UNCHANGED found
         \/ /\ Folder[p].kind = "dir"
            /\ scan' = Append(rest, [dir |-> p, left |-> EntriesOf(p)])
            /\ UNCHANGED <<found, skipped>>

EndDirectory ==
  /\ scan # <<>> /\ Reading.left = {}
  /\ scan' = Front(scan)
  /\ UNCHANGED <<job, turnVars, found, skipped>>

-----------------------------------------------------------------------------
Jobs ==
  {[part |-> "turns", shape |-> s] : s \in PromptShapes}
    \cup {[part |-> "config", config |-> c] : c \in Configs}
    \cup {[part |-> "files"]}

PromptsInit ==
  /\ job \in Jobs
  /\ session = <<>> /\ said = <<>> /\ restarted = <<>>
  /\ scan = IF job.part = "files" THEN LoadFolder ELSE <<>>
  /\ found = {} /\ skipped = {}

PromptsNext ==
  \/ SayTurn
  \/ \E ref \in Refs, input \in ToolInputs : RestartTurn(ref, input)
  \/ EndDirectory
  \/ \E p \in DOMAIN Folder : TakeEntry(p)

PromptsSpec == PromptsInit /\ [][PromptsNext]_promptVars

-----------------------------------------------------------------------------
(* Properties *)

\* The agent's session holds the conversation, every message once and in the order it was
\* said, and nothing of the template: the tags of _preamble.py survive the rendering, and
\* persist_turn_messages tells by them what to keep.  A restart that runs has the input
\* the model asked with, though a provider gave the same ref in an earlier turn.
ConversationOnly ==
  /\ session = said
  /\ \A i \in DOMAIN restarted : restarted[i].ran = restarted[i].asked

\* A call's setting beats the prompt's, the prompt's beats the model reference's, and a
\* null clears what is below it (_call_from_opts, overlay_config), for every call that
\* spells the setting as its prompt does.
NearestConfigWins ==
  job.part = "config" => SettingOf(MergedConfig(job.config)) = Nearest(job.config)

\* A file that cannot be loaded ends the scan of its own directory only: every prompt in
\* a directory without such a file is found, whatever the order of the listing, as long
\* as the scan gets to that directory.
BadFileStaysInItsDirectory ==
  job.part = "files" /\ scan = <<>> =>
    \A p \in DOMAIN Folder :
      (Folder[p].kind = "good" /\ Folder[p].parent \notin skipped
         /\ (Folder[p].parent = "root" \/ Folder[Folder[p].parent].parent \notin skipped))
        => p \in found

\* What a prompt says is what is sent and kept, however it was written, loaded and called.
PromptsKeepTheirWord ==
  ConversationOnly /\ NearestConfigWins /\ BadFileStaysInItsDirectory
================================================================================
