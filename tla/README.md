# A specification of genkit-python

TLA+ modules for the parts of genkit-python where something can go wrong that a test
would hardly reach: the agent runtime with its stores and clients, the tool loop of
`generate` with its pauses, what each model plugin makes of a conversation, and the
services around them (registry, dev UI, streams, background jobs, batches, HTTP
handlers, telemetry). TLC checks each part on small instances. TLAPS proves, for all
instances, what the in-memory store promises and how the Firestore store answers
aborts.

In this file `agents/` is `src/packages/genkit/src/genkit/_ai/_agents/`, `ai/` is
`src/packages/genkit/src/genkit/_ai/`, `core/` is
`src/packages/genkit/src/genkit/_core/`, and `genkit_x/` is the package of plugin *x*
under `src/packages/`.

1. The system
2. The modules
3. The runs, their bounds, the fairness
4. The properties
5. The proofs
6. Where the code and its documentation disagree, and other surprises
7. What is not modelled, and the plan

## 1. The system

A program calls `generate` with messages, tools and options; a model plugin writes
them as its provider's request and reads the reply; tools are run and their answers
sent back, round by round, until the model answers, a tool pauses the call, or the
cap on rounds is met. Middleware wraps the call, each model call and each tool.

An agent is a function that owns a loop of such turns. A client sends one input per
turn; the runtime runs the turn, streams what happens, and, when the agent has a
store, saves a *snapshot* of the session after it. A snapshot names its parent, so a
session is a tree; to resume is to pick a row of it. An agent without a store is
*client-managed*: the client ships the whole state with every turn.

Everything is an *action* in a *registry*; a developer tool reaches the registry
through a reflection server, web frameworks serve actions over HTTP, and spans tell
what ran.

| component | state | operations | talks to |
|---|---|---|---|
| session stores (`agents/_session_stores/`, `agents/_session.py`) | rows by id, one lock per event loop, subscriptions | `save_snapshot(id, mutator)`, `get_snapshot`, `on_snapshot_status_change` | the runtime calls it; status streams call back |
| Firestore store (`genkit_google_cloud/session_store/firestore.py`) | documents of rows, diffs and checkpoints; a watch per subscriber | as the other stores, in transactions; `close` | Firestore, its listener threads |
| agent runtime (`agents/_runtime.py`) | intake queue of one input, the turn's counters and reserved id, the abort signal, the futures of `run()` | `run`, `run_turn`, `maybe_snapshot`, `finalize_detach`, heartbeat, abort watcher | store, session, chunk sink |
| session and its history (`agents/_session.py`, `_snapshot.py`) | messages, custom state, artifacts, version; the rows of one session | `load_session`, `select_leaf`, `walk_back_to_resumable`, `lookup`, `abort_snapshot` | store |
| chat client (`agents/_client.py`, `_transports/`) | resume handle, running view, custom state, one driver per turn | `send`, `send_stream`, `resume`, `detach`, `abort`, `load_chat` | transport to the runtime |
| generate loop (`ai/_generate.py`, `_tools.py`) | call stack of tool rounds, message list, running tools, stamps on paused requests | `generate_action`, `run_wrap_generate`, `resolve_tool_requests`, `resolve_resume_options` | models, tools, hooks |
| prompts (`ai/_prompt.py`) | rendered settings; a cache per folder prompt | `render`, `load_prompt_folder`, the turn of a prompt agent | generate, session |
| formats, partial JSON, JSON patches (`ai/_formats/`, `core/_extract_json.py`, `ai/_json_patch.py`) | the cursor of a streamed reply | pure functions | generate, client |
| middleware (`genkit_middleware/`) | queues and counters per instance, files, artifacts | `wrap_model`, `wrap_tool`, `wrap_generate` | generate loop |
| agent-to-UI bridge (`genkit_a2ui/`) | the parser of a stream | `wrap_generate`, `feed`, `flush` | model, client |
| model plugins (`genkit_google_genai`, `genkit_anthropic`, `genkit_amazon_bedrock`, `genkit_openai`, `genkit_ollama`) | clients by key and address, the server's context cache | requests, replies, streams, catalogue, embeddings | providers |
| actions and channels (`core/_action.py`, `core/_channel.py`) | closeable queues | `run`, `stream`, `stream_bidi` | everything |
| registry, plugins, dynamic providers (`core/_registry.py`, `core/_dap.py`) | action tables, parent registry, init tasks per loop, a single-flight cache per provider | `resolve_action`, `list_actions`, `register_*`, `get_or_fetch`, `invalidate_cache` | plugins |
| background operations (`core/_background.py`) | handles; the jobs are the provider's | `start`, `check`, `cancel` | models |
| reflection servers (`core/_reflection*.py`) | active runs, the developer tool's socket | JSON-RPC handlers, reconnect | registry, actions |
| dev process (`ai/_runtime.py`, `ai/_aio.py`) | server thread, runtime file, signal handlers | `run_main`, `create_runtime`, `handle_signal` | the operating system |
| web handlers (`genkit_fastapi`, `genkit_flask`, `genkit_django`) | one request | handler, frames | actions |
| tracing, telemetry (`core/_trace/`, `genkit_google_cloud/telemetry/`) | queues, workers, batches | `on_start`, `on_end`, `export`, `force_flush`, `shutdown` | collectors |
| evaluators, embedders, rerankers | the calls in flight | one action per batch | providers |

What is hard about it:

- **interleavings on one event loop.** A run has up to seven tasks. Between any two
  awaits another may take a step: a detach arrives while the turn-end save is in
  flight, an abort lands between the finalizer's read and its write, a cancel of the
  dev UI meets a run that has just ended.
- **threads and several loops.** The file store and the Bedrock SDK work in threads: to
  cancel the coroutine that waits stops nothing. Firestore's listeners post into loops
  that may be gone. The dev server has its own loop and shares the registry, its
  plugins and the cache of dynamic providers with the application's. Signals arrive
  between any two steps.
- **crashes** between two file operations, and a heartbeat that stands for "still
  alive" on a row whose process may be gone.
- **partial failure.** A turn fails after some of its tool rounds are done; a hook
  raises after the provider has billed a job; one document of a batch fails while
  others are in flight.
- **replay.** A conversation is sent again from a handle the client kept, or from the
  history of a call: everything earlier calls put into it is in it, and providers name
  (or do not name) the calls in it differently.
- **pauses.** A tool that asks a human leaves a round half done. What has run is
  stashed on the parts of the message; what runs again must be told the right thing.
- **two copies of one truth.** The client's view is stitched from chunks, the store's
  rows are written by the server. A stream and the finished message are computed by
  different code. What a plugin lists and what it resolves were written apart.

What makes each component correct:

- *store*: a save is an atomic read-modify-write; a row is created once, settles at
  most once and then keeps its status; an abort tells one caller only that it
  cancelled the turn; a status stream misses nothing and ends.
- *Firestore store*: a row that is spread over a checkpoint, diffs and a pointer
  reads as it was saved, whatever happens to the rows around it.
- *file store*: the same as the store, across crashes: what a save returned from is
  never lost, and a file is whole at every moment.
- *runtime*: what the client is told is durable; a failed turn resumes from the last
  good state; a detached row ends with the outcome of the work; `run()` answers and
  leaves no task behind; an abort is heard and holds.
- *history*: a session resumed after any mixture of failed, detached, aborted, pruned
  and crashed turns still holds every turn its client saw completed.
- *client*: the view is the server's conversation; a chat can always go on.
- *generate*: rounds that were closed are not run again; a pause tells all that was
  done; a reply reaches the run it is meant for; a history handed back can be sent
  again; an abort returns.
- *prompts, requests*: the model is told what was said, set and asked for, each once.
- *streams*: chunks add up to the message, items and cards come out once and whole,
  nothing is overtaken by the end.
- *plugins*: a history written as a provider's request pairs every result with its
  call; a wish of the program (a forced tool, a schema, a limit) reaches the provider
  in every round or is documented not to; a call goes to its own account and region.
- *services*: an answer from the registry is complete; an invalidation takes effect;
  every run of the dev UI is answered once, on its own connection; a job that was
  billed has a handle; every input of a batch has its own answer; a runtime file
  announces a server that lives.
- *telemetry*: a flush means posted; a trace names the run, and every span once.

`PROJECT.json` lists every component with what is modelled of it, every hazard with
its line and the properties that guard it, and the source lines of every definition.

## 2. The modules

Modules of one group share no state with each other unless the table says so; an MC
module puts them into one run, each behaviour taking one part (section 3).

| module | models | composed from |
|---|---|---|
| **sessions** | | |
| `SnapshotRules` | what every store applies to a row (`apply_save`, `stamp_store_fields`) and the mutators the runtime hands to it | |
| `SnapshotLifecycle` | the abstract specification: a status is created once, settles once, stays | |
| `InMemorySessionStore` | `_inmemory_store.py`, `SessionStoreLock`, `_StatusStream` | `SnapshotRules`, refines `SnapshotLifecycle` |
| `InMemorySessionStore_proofs` | theorems about it and about `SessionHistory` | both, TLAPS |
| `FileSessionStore` | `_file_store.py`: one thread step per file operation, crashes | `SnapshotRules`, refines `SnapshotLifecycle` |
| `FileSessionStore_proofs` | theorems about it | TLAPS |
| `FirestoreSessionStore` | `firestore.py`: rows as documents, saves as transactions, the attempts of an abort | `SnapshotRules`, refines `SnapshotLifecycle` until a session is deleted |
| `FirestoreSessionStore_proofs` | theorems about it and about `FirestoreWatch` | both, TLAPS |
| `FirestoreWatch` | its status streams: listener threads, event loops, `close()` from any thread | |
| `AgentRuntime` | one invocation: `_runtime.py` | `SnapshotRules`; its store calls are those of the store modules |
| `AgentRuntime_proofs` | theorems about it | TLAPS |
| `SessionHistory` | many invocations on one session, at the level of rows | `SnapshotRules`; each turn is what `AgentRuntime` leaves behind |
| `AgentChat` | the client and many turns | each turn is what `AgentRuntime` streams, saves and returns |
| `AgentChat_proofs` | theorems about it | TLAPS |
| **generation** | | |
| `Generate` | the tool loop and a program that sends its result again | |
| `Generate_proofs` | theorems about it, `ToolPauses`, `ActionServers` and `TraceExport` | TLAPS |
| `ToolPauses` | the requests of one model message over several pauses | opens up a round of `Generate`; shares no state with it |
| `GenerateRequest` | options, formats, documents and tools folded into a request, call after call | |
| `Prompts` | prompt agents, the merge of settings, the prompt folder | |
| `ShippedMiddleware` | Retry, Fallback, ToolApproval, Filesystem, Artifacts, Skills around the loop | frames as in `Generate` |
| **texts** | | |
| `JsonPatch` | `diff_json`, `apply_json_patch` over documents | |
| `Formats` | the array and JSONL formats and the extraction they stand on | |
| `SurfaceStream` | the middleware of the agent-to-UI bridge and its fence parser: stream, stop, finished message | |
| **models** | | |
| `ProviderModels` | how OpenAI, Anthropic, Bedrock, Ollama, Gemini and Gemini's Interactions API read a reply and write a conversation; their parts and events | |
| `ModelTurns` | a turn through any of them: reply, stream, calls, next request | `ProviderModels` |
| `ModelRequests` | the wishes of a call written as each provider's request, in every round | |
| `ToolSchemas` | a tool's schema as each provider is told it, the arguments that come back | |
| `GeminiCalls` | concurrent Gemini calls: clients, keys, the context cache | |
| **services** | | |
| `DynamicProvider` | a dynamic action provider and its cache | |
| `Registry` | lookup, listing, lazy plugins and prompts on two event loops | `DynamicProvider` |
| `Registry_proofs` | theorems about both and about `ShippedMiddleware` | TLAPS |
| `ReflectionV2` | the runtime's side of the dev UI | |
| `ActionStream` | a run of an action, a bidi action or `generate_stream` seen by its caller | |
| `PluginCatalog` | what plugins advertise and what they resolve | |
| `BackgroundJobs` | long-running models through hooks, polls, cancels and a restart | `PluginCatalog` resolves its operations |
| `Batches` | embeddings, evaluations and rankings of several inputs | |
| `BedrockTransport` | SDK calls on threads, deadlines, the configuration of the client | |
| `DevProcess` | runtime file, server thread, signals, `atexit` | |
| `Services_proofs` | theorems about `ActionStream`, `DevProcess`, `PluginCatalog`, `BackgroundJobs`, `BedrockTransport`, `ReflectionV2` and `GeminiCalls`, each by itself | TLAPS |
| `ActionServers` | FastAPI, Flask, Django and the dev server's `runAction`; what each plugin makes of a provider's failure, and when it is tried again | |
| `TraceExport` | realtime spans, the log queue, Google Cloud's batches, what of a span may leave | |
| **instances** | | |
| `MCSessionStores`, `MCFirestoreSessionStore`, `MCConversation`, `MCServices`, `MCApplication` | instances for TLC | the groups they name |

The runtime appears three times, at three grains. `AgentRuntime` has every await of
one invocation. `SessionHistory` keeps of a turn the row it leaves and adds the other
turns of the session. `AgentChat` keeps what reaches the client.

Definitions marked `Fault:` are slips a maintainer might make, with the signature of
the definition below them. None is part of a specification; each property is known to
fail when a definition is replaced by one of them, and `PROJECT.json` ("mutants") says
by which.

### Sessions

*SnapshotRules, SnapshotLifecycle.* A row is its status, its top-level `owner`
(`session_id`), the `session` inside its state, a state number and a heartbeat. A
mutator returns `{}` (skip) or `{row}`. `Refused` is the two checks of `apply_save`: a
foreign session, and a terminal status that would change. The abstract machine has two
actions, `Create` and `Settle`; readers who poll a row rely on nothing else.

*InMemorySessionStore.* `BeginSave` takes the lock of the caller's event loop and
copies the row, `WriteRow` applies the mutator to the copy and replaces *whatever the
id holds now*, `Notify` puts the status on the queue of every subscriber and frees the
lock. The module does not assume that this is atomic: that is `ReadStillCurrent`. A
status stream seeds itself from the store and then registers, under the lock (`Seed`,
`Register`), and reads its queue (`Yield`, `StopIteration`, `OnClose`). `LoopOf` says
which event loop a coroutine runs on, because `SessionStoreLock` makes one lock per
loop.

*FileSessionStore.* The steps of a save are those of its thread: read the file, open
the temporary file, write it, rename it. Files are inodes: `path` and `tmp` name one,
`content` says what it holds (nothing, the text of save *n*, or torn). `CancelBeat` is
what `finalize_detach` does to the heartbeat: the coroutine is gone and its lock is
free, the thread (`orphan`) goes on. `Crash` loses every task and keeps the files.

*FirestoreSessionStore.* `docs`, `shards` and `pointers` are the three collections. A
document names its *chain*: the checkpoint, how many shards that has, and the path of
diffs that ends at the document itself. A state is a set of parts, a patch adds and
drops parts as leniently as `apply_json_patch` does, so a patch applied to the wrong
state gives a wrong state and no error. `_reconstruct_from` follows a chain; its value
is a set, empty for `DATA_LOSS`. Firestore's transactions are serializable, which is
the one thing taken from outside, so `Committed` is one step: the mutator on the row
read, `UpsertMeta` or `CreateMeta` (refusals included), shards, document, pointer.
Each save may come from a store object with another `checkpoint_interval`. An attempt
that loses leaves nothing behind but what its mutator recorded: only aborts have
attempts (`BeginAbort`, `RetryAbort`, `CommitAbort`, `SkipAbort`, `GiveUpAbort`), and
an attempt has lost when anything in its `ReadSet` changed. `saved` and `newest` hold
what callers were told. `DeleteSession` deletes all documents of a session at once,
`LosePointer` the pointer alone.

*FirestoreWatch.* A subscription reads the row, attaches a watch (a thread of the SDK)
and waits on a queue its loop owns; the watch posts statuses with
`call_soon_threadsafe`, into a loop that may have ended. `close()` takes the table of
subscriptions from any thread. `Busy` marks what a loop does without an await, which
other threads can still see half done.

*AgentRuntime.* `running` is the task that holds the event loop; a step keeps it until
an await that suspends. Each task has a program counter: `fwd`
(`forward_inbound_stream`), `fn` (`run_agent_loop` and `SessionRunner.run`), `run`,
`fin` (`finalize_detach`), `beat`, `watch`, `abort` (another request). A save is issued
with the row as the task knew it, committed by the store, and returns; with an
`"immediate"` store these are one step for the caller, with a `"suspending"` one others
run in between and the store may fail. The session is its version number: each mutation
adds one, so equal numbers are equal states, which is the comparison the code makes
(`last_snapshot_version`).

*SessionHistory.* Rows are numbered by `created_at`; a row's state is the set of turns
it holds. An invocation resumes by snapshot id (the row must be completed) or by
session id: `SelectedLeaf`, then `WalkBack` one row per step. Turns complete, report a
failure, raise (and leave a recovery row, `Recover`), or detach (`work`). `home` is the
store with its options, the clients of the session and the inputs of one invocation.
`PastCap` is what `FileSessionStore.prune_chain_sync` deletes, one file per step, newest
first, and `Crash` may come between two.

*AgentChat.* `chat` holds the fields of `AgentChat`, `drv` one `TurnDriver` per turn,
`srv` the server's side, `chan` the chunks on their way, `rows` the store. A message is
its turn and index, a model message has two parts, so that a message stitched wrongly
differs from the one stored. A turn ends as `Ends` says: `stop`, `interrupted`,
`failed` (a row that cannot be resumed, or a recovery row), `aborted` (a custom agent
reports it), `raised` (an exception, with no output), `empty` and `repaused` (section
6). `Break` is a connection that ends early; the server goes on, as after `AbortTurn`.
`CancelDriver` is `TurnDriver.abort`: the response is cancelled now, the task that
pumps hears of it later (`DeliverCancel`).

### Generation

*Generate.* `frames` is the call stack of `run_wrap_generate`, one frame for each
closed round inside the `wrap_generate` hook of the one before; `pc` is where the
innermost is. The model makes up to `MaxParallel` requests, some of them to tools
nobody named, with and without refs. Tools of a round end in any order, raise or pause;
what has run when the round is given up stays in `strays`. A pause goes back to the
program (`resp`), which may answer it with replies and restarts, all of them or some,
and calls again.

*ToolPauses.* One round, seen from its parts: `asking` are the request parts of the
model message with the metadata of each, `replies` what the program says to them,
`toolRun` what each run of a tool was told and came back with, `toolMessage` the
answers once the round is closed; `pauseTally` keeps what the last run of each request
returned. The program replies to or restarts any of the
interrupts, may replace an input, and the tool may ask again; `Generate` has the same
resumption with the metadata left out.

*GenerateRequest.* `history` is what the last call returned. A call brings an *order*
(format, instructions, documents, tools); `Begin` folds it and the history into the call's
messages, `AskModel` builds the request of a turn (instructions, documents, the tools
offered), `CallTool` resolves the name the model used, and `Finish` hands the history
back. A tool is a
path, models may call it by its last segment, dynamic providers are asked for one name
or all.

*Prompts.* Three small machines, told apart by `job`: the turns of a prompt agent
(`said`, `session`), the merge of one setting given by up to four layers under two spellings, and the scan of a
folder in whatever order the file system lists it.

*ShippedMiddleware.* A turn runs the call's middleware around its model call and each of
its tools; `messages` is what the model sees, `stream` and `chunks` the numbers of the
streamed messages, `disk` the file behind Filesystem, `queue` what `read_file` left for
the next turn. A resumed call makes new instances.

### Texts and models

Documents, replies and streams are sequences of tokens, short enough to enumerate, and
long enough that every cut and every escape occurs (section 3). `JsonPatch`, `Formats`
and `SurfaceStream` have operators for the code's functions (recursive ones: TLC only)
and a machine that feeds them: a copy that follows a document patch by patch, a reply
that arrives cut anywhere. `SurfaceStream` ends its reply in each of the ways `wrap_model`
knows: the model's call raises (`ModelRaises`), the model was stopped and its raw message
goes out (`ModelStopped`), or it finished and the message is parsed again (`ModelReturns`);
with and without a stream. It has one attempt of the model and ids minted anew; a
`surface_id` of the configuration is left out.

`ModelTurns` lets a provider send a reply as its events (`OpenAIEvents`,
`BlockEvents`, `PartEvents`), folds them with the plugin's code, compares with the whole reply, answers
the calls and writes the conversation as the next request. `ModelRequests` writes the
options of a call in up to two rounds, with a model that does exactly what the request
tells it. `ToolSchemas` has one level of JSON schema with unions, references, items and
nested properties, converts it as each vendor does (`GeminiTool`, `AnthropicTool`,
`BedrockTool`, `OllamaTool`), and gives the tool what a model may write to it.
`GeminiCalls` runs two calls side by side, one HTTP request per step, with an expiry of
cached contents at any time.

### Services

*Registry, DynamicProvider.* Each event loop is a thread that runs one task at a time;
a task gives it up at an await. Steps between two accesses of tables that both threads
touch are separate. The source behind the provider has a version; a fetch reads it and
returns later.

*ReflectionV2.* `conn` counts the connections, `wire` is what each carried,
`outbox` the frames behind the one lock. Runs have a task each; cancel,
input, end of the socket and end of a run may come in any order.

*ActionStream.* A run, a channel with its queue and its close future, a reader with the
`pop` tasks it leaves behind when it gives a read up. The three surfaces (`Surfaces`)
differ in who feeds the run and in what a cancelled `await stream.response` cancels
(`LeaveResponse`): the task of `generate_stream`, but not the run of an action.

*PluginCatalog.* A name is the set of marks the code looks for, a catalogue a set of
names; `ListOf` and `ResolvedBy` are the two answers of a plugin.

*BackgroundJobs.* A call goes through an outer hook, an inner hook and the model; the
handle that comes out is stored, polled and cancelled, also by another process.

*Batches.* Inputs are what they look like to the code (text, image, both, remote,
unsupported). Bedrock's calls start up to the limit, answer in any order, fail, are
cancelled; OpenAI, Google and Ollama send a batch in one call that goes with its caller.

*BedrockTransport.* The coroutine, its deadline, its caller's cancellation and the
thread that goes on; and how the first call builds the client's configuration from
argument, session and environment.

*DevProcess.* The main thread, the daemon thread and the exit of the process. A signal
runs its handler between any two steps, inside another handler too.

*ActionServers.* A request's shape, an action's end, and the frames of the reply, for
each framework; Flask's requests share one event loop. A failure of a provider is how it
happened (a status, a timeout, a reply that cannot be read, ...) and the hint it carries;
`Raised(plugin, f)` is the `GenkitError` the plugin makes of it, `RetryWait` how long
Retry then waits.

*TraceExport.* Spans open and end with the run; each is exported as it starts and as it
ends through one queue and one worker; the collector may be down; batches are filtered
and counted. For Google Cloud the log entries are written from a span before its input and
output are redacted (`Entries`, `Adjusted`). The queue of the log records has a stop token.

## 3. The runs

A run is one question. Components that share no state share a run: its MC module adds
a variable `part`, chosen in `Init`, and each behaviour is one part with the parameters
of the others pinned to one value (`Chosen`). What such a run shows is what a run per
part would show.

| run | instance | shows |
|---|---|---|
| `session_stores` | `MCSessionStores`: memory (2 coroutines, 1 stream, 1 id, 2 sessions, 4 saves), files (2 coroutines, 2 ids, 4 saves, 1 crash, 1 heartbeat cancelled), watches (3 crowds of up to 2 subscribers on 2 loops, `close()` at any time) | saves are atomic, aborts answer once, acknowledged saves survive, rows move through one lifecycle, streams tell the row and end |
| `file_beat_torn` | the same | **fails**: section 6 |
| `firestore` | 3 rows, 2 sessions, 2 parts of a state, intervals 2 and 3, 4 saves, 1 abort of 2 attempts | rows read back as saved, documents stay bounded, an abort answers once |
| `runtime` | 3 kinds of store, 2 inputs, 1 mutation, 1 store failure | what outputs, `turnEnd` chunks, rows and aborts promise |
| `runtime_progress` | 2 inputs, 1 heartbeat, store answers at once | `run()` answers, a detached run settles and cleans up, an abort is heard |
| `runtime_detach_race` | a store that suspends | **fails**: section 6 |
| `chat` | both modes, 2 turns of up to 2 rounds or updates, 1 reopened chat | the client's view, state and handle follow the server's; lost turns leave no trace; every turn settles |
| `conversation` | `MCConversation`: patches, streamed items and cards, turns and requests and schemas of five plugins, Gemini's cache, the shipped middleware, the history of a session | copies follow, streams tell the message, histories can be replayed, wishes hold, injections keep their order, a resumed session has all its turns |
| `queued_read` | the same | **fails**: section 6 |
| `application` | `MCApplication`: the tool loop, pauses, requests, prompts, HTTP servers, exporters | rounds stay whole, histories can be sent again, the model is told once, failures and telemetry tell the run, calls settle |
| `fewshot_agent` | prompts with a list of messages | **fails**: section 6 |
| `services` | `MCServices`: registry, dev UI, a stream, catalogues, jobs, batches, Bedrock's threads, a dev process | answers are complete, invalidation works, runs and jobs are accounted for, files say who serves, waits end |

### Why these bounds

- *Saves.* The shortest story in which two saves of one row disagree needs two
  coroutines and a create, a settle and two competing mutators: four saves. A crowd of
  watchers has at most two members, because a watch meets others only in the table.
- *Firestore.* Three rows and the interval 3 give a diff on a diff on a checkpoint,
  and two branches; the interval 2 gives the full segment. One part more or less is a
  patch that fits, two parts are one that does not, and need two shards. With four
  saves a chain of three is built and any row of it rewritten. An abort begins among
  the first `AbortWindow` saves and is over before they end, which leaves room for the
  save it races with; only those saves leave a row pending, because nothing but an
  abort and a beat asks whether it is.
- *Inputs of a run.* Two inputs give every order of a plain turn and a detach, and the
  one place of the intake queue is contested. `MaxIds = 7` is never reached.
- *Rows of a session.* Four rows hold a completed turn, a failed sibling or a recovery
  row, a detached row and one more turn; the prune with a cap of two deletes with four,
  one file per step. The two clients of the strict store fork the session.
- *Turns of a chat.* What a turn does to the next shows with two. `MaxLag = 0` lets a
  turn emit only when its chunks have been read; what is emitted together is still read
  one by one, and abort or break may come in between.
- *Rounds of tools.* Three requests, two at a time, give a round with a finished, a
  paused and a failed tool, and a later round or call that meets their leftovers. Two
  pauses give a tool that asks again after it was restarted; three rounds of two
  requests give two different tools, one tool twice, and two calls no ref tells apart.
- *Texts.* Documents of two members or three items, nested once, with the five kinds of
  keys JSON pointers care about. Replies of three items, each plain, nested, with a
  bracket in a string and with an escaped quote, cut at *every* place. Replies with one or
  two card blocks and the prose that fences can be confused with, cut at every place and
  stopped or raising at every place; a data part between blocks, behind every text that may
  begin a fence, behind an open block, and at every token inside a block and its fences.
- *Models.* Per plugin, replies with a thought, text and two calls, with ids and without,
  without arguments, and their parts that exist for one vendor only. Wishes: all
  combinations of format, schema, `constrained`, tools and choice, and every
  configuration that competes with another for a field; two rounds, because what goes
  wrong is what the second request repeats. Schemas: every kind at the top and in a
  property, with references, unions and items below.
- *Gemini.* All pairs of thirteen calls on each of eleven plugins: two calls race for a
  cache, a third adds nothing but an expiry, which may come anyway.
- *Registry.* Three tasks on two loops, two of them on one; one plugin at the start and
  one that comes while others wait; one version change and one invalidation of the
  provider, which is what a stale fetch needs.
- *Dev UI.* A one-shot run over two connections, an agent run over two, and both at
  once on one: an answer to the wrong connection needs two, a cancel of the wrong run
  needs two runs.
- *Streams, batches, threads.* Each surface; three chunks and one read that is given up put an
  abandoned `pop` before, between and after chunks. Two inputs of every kind, five where
  chunks of two overtake each other under a limit of two. One event of a stream, because
  the thread asks for each in the same way.
- *Process.* One Genkit, two signals (one inside the handler of the other), six kinds of
  process.
- *Failures.* Every status, service error and way to fail that some plugin tells apart; hints
  below, at and above the backoff and above the cap. They are evaluated, not interleaved.
- *Exporters.* Two threads, a queue of one, batches of two, three records: a full queue
  with a flush, a stop and a put waiting at once. Two spans, one under the other.

Symmetry is used for the ids and sessions of the Firestore store only, in a run without
liveness. Deadlock is not reported: every instance is bounded (saves, turns, inputs), and
a finished one has nothing more to do.

### Fairness

Liveness is checked under weak fairness of the steps the code's schedulers take by
themselves, gathered per part in one action (`Engine`, `Scheduled`, `JobsSystem`,
`QueueSystem`, ...); an MC module takes the part's own. What people and other
programs do is never fair: callers need not send, read, abort or close; managers of the
dev UI need not send a turn; clients may leave; signals need not come.

- *Stores.* A coroutine that holds the lock goes on (weak); an `OnClose` that waits for
  the lock gets it in the end, although savers keep taking it in between (strong):
  `asyncio.Lock` wakes its waiters first-in first-out. Listener threads and loops that
  live go on.
- *Runtime.* The loop runs every ready task, the store answers, the handler and the agent
  function end. Tasks compete for `running`, which is taken and given back all the time,
  hence strong fairness for each task; `Commit` and the steps by which a task gives up
  the loop need weak fairness only.
- *Chat.* Tasks that can run do, and server turns end. Per turn, client and server each.
- *Tool loop.* The engine, models, hooks and restarted tools take their steps. Tools asked
  for by a model may hang for ever: `AbortReturns` must hold without them.
- *Registry.* Tasks that can run do. The source of a dynamic provider may never answer:
  `CallsEnd` says a list ends all the same, and who may wait.
- *Dev UI, streams.* Runs and their tasks go on, frames are written or fail.
- *Jobs.* The provider ends its job and the caller goes on polling (`PollsEnd` is about
  the loop of a caller who polls); failed polls and restarts are bounded.
- *Bedrock.* Threads come back: the SDK has its own read timeout, which the code sets.
  That a *caller* is released in time is asserted only with `total_timeout`.
- *Process.* Python runs on between signals; the daemon thread may stop anywhere.
- *Servers, exporters.* Actions end, frames are sent while the client listens; the worker
  takes from its queue, and the collector answers or fails.

## 4. The properties

They are stated and explained at the end of each module; `PROJECT.json` ("hazards")
says what each guards. Names that an MC module gives to a conjunction are in brackets.

- *stores*: `ReadStillCurrent`, `AbortAnswersOnce`, `StreamIsCurrent`,
  `ImplementsLifecycle`; files: `ImplementsLifecycle` again and `AcknowledgedIsKept`
  [`FilesImplementLifecycle`]; watches: `StatusesInOrder`, `NoWatchLeaks`
  [`WatchersHearTheRow`]; `StreamEnds`, `WatchersAreTold` [`StreamsEnd`].
- *Firestore*: `ReadsBack`, `DocumentsBounded` [`RowsAreWhole`]; `AbortAnswersOnce`
  counts the retries of contended transactions.
- *runtime*: `AnswersAreDurable`, `FailureResumesLastGood`, `HistoryIsAChain`,
  `DetachedRowTellsTheWork`, `AbortHolds`; `RunAnswers`, `DetachedSettles`,
  `AbortReachesHandler` [`RunsSettle`].
- *history*: `ConversationKept`, `LiveBranchWins`, `HandleSurvives`
  [`ResumeFindsConversation`].
- *client*: `ViewFollowsStore`, `BlobIsServers`, `StateFollowsPatches` [`CopiesAgree`];
  `NeverStuck`, `UnansweredTurns` [`LostTurnsUndone`]; `TurnsSettle`.
- *tool loop*: `ClosedRoundsKept`, `PausesAreWhole`, and `RepliesReachTheirTool` of
  `ToolPauses` [`RoundsAreWhole`]; `Resendable`, `OneModelTurn`, `AnswersItsRequest`
  [`HistoryCanBeResent`]; `AbortReturns`.
- *requests, prompts*: `SaidOnce`, `InstructionsArrive`, `NamesAreUnambiguous`,
  `NearestConfigWins`, `BadFileStaysInItsDirectory` and `ConversationOnly` for prompts
  without a list of messages [`ModelIsToldOnce`].
- *texts*: `CopyFollows`, `ItemsArrive`, `StreamShowsWhatIsReady` and
  `StreamMatchesMessage` with the plugins' `StreamAddsUp` [`StreamTellsTheMessage`]. The
  first holds at every step and of every ending; that stream and message are the *same*
  is said of finished turns where no data part breaks into a fence (`DataBreaksIn`), and
  what each of them says is said of the others too.
- *plugins*: `HistoryReplays`; `WishesHold` (a schema is asked for once, a loop is the
  model's and not the request's, `none` is held where it is sent, a setting travels
  once), `ArgumentsFitTheTool`, `CallsAreTheirOwn` [`ProvidersAreAskedRight`];
  `AdvertisedResolves`.
- *middleware*: `ModelSeesItsTools`, `StreamNamesMessages` [`InjectionsInOrder`].
- *services*: `AnswersAreComplete`, `InvalidationTakesEffect`; `WireTellsTheRun`,
  `NoRunLeftUnanswered`, `RegistrationsMatchRuns` [`DevUiSeesTheRun`]; `StreamIsWhole`;
  `JobsAreAccounted`; `AnswersMatchInputs`, `NoStreamLeaks`, `CallersSettingWins`
  [`CallsAreAccounted`]; `FilesTellWhoServes`; `CallsEnd`, `RunsEnd`, `ReaderIsTold`,
  `PollsEnd`, `CallsAreReleased`, `StopsWhenTold` [`EveryWaitEnds`].
- *servers, telemetry*: `RepliesTellTheRun`, `TransientIsRetried`, `RetryAfterIsKept`
  [`FailuresAreTold`]; `FlushMeansPosted`, `TracesTellTheRun`, `CloudIsToldWhatMayLeave`
  [`TelemetryTellsTheRun`]; `RequestsEnd`,
  `WorkerStops`, `TracesDrain` [`CallsSettle`, with `AbortReturns`].

Some hold under a condition the code does not promise to keep, and say so:
`DetachedRowTellsTheWork` needs a store that answers at once, `ReadsBack` a session
that did not lose its pointer document alone, `LiveBranchWins` a store that rejects
ambiguous sessions, `AcknowledgedIsKept` a snapshot whose heartbeat was not cancelled in
mid-write, `FilesTellWhoServes` a process no signal cut short, `NoJobOrphaned` hooks that
do not drop and raise in one call (`LostBetweenHooks` names them), the sameness in
`StreamMatchesMessage` a finished reply without `DataBreaksIn`, `RequestsEnd` no other
stream on Flask's loop. Section 6 describes what happens outside these conditions.
`CancelIsLocal` (registry), `InstructionsAreTheCalls` (requests), `AbortsAreNotCounted`
and `StopIsSeen` (telemetry) are what a docstring or comment says and the code does not
do; they are stated beside the model, and no run checks them.

## 5. The proofs

What TLC shows for the instances of section 3, the theorems of this section show for
every value of the constants. A theorem has the name of its property with `Holds` where
it states one; assumptions beyond those a module makes of its constants are in the
statement.

| theorem | module | assumes |
|---|---|---|
| `TypeCorrect`, `SaveIsAtomic`, `AbortTellsOneCaller`, `StoreImplementsLifecycle`, `StreamHoldsCurrent` | `InMemorySessionStore_proofs` | `OneLoop` |
| `ResumeFindsConversationHolds` | `InMemorySessionStore_proofs` | `KeptSafe` |
| `FilesKeepPromise` | `FileSessionStore_proofs` | `FileConstants` |
| `PatchRoundTrip`, `AbortTellsOneCaller`, `RowsKeepTheLifecycle`, `WatchersHearTheRowHolds` | `FirestoreSessionStore_proofs` | |
| `RowsAreWholeHolds` | `FirestoreSessionStore_proofs` | `~CallersShareIds` |
| `AnswersAreDurableHolds`, `FailureResumesLastGoodHolds`, `HistoryIsAChainHolds`, `DetachedRowTellsTheWorkHolds`, `AbortHoldsAlways` | `AgentRuntime_proofs` | |
| `LostTurnsUndoneHolds`, `PatchesTellTheState` | `AgentChat_proofs` | |
| `HistoryCanBeResentHolds`, `RoundsAreWholeHolds` | `Generate_proofs` | `Habits = {}` |
| `RepliesReachTheirToolHolds` | `Generate_proofs` | `RoundsAreLists` |
| `InvalidationTakesEffectHolds`, `AnswersAreCompleteHolds` | `Registry_proofs` | |
| `EditsStandStreamsAreOrdered` | `Registry_proofs` | |
| `StreamIsWholeHolds`, `FilesTellWhoServesHolds`, `CallsLeaveNothingHolds`, `DevUiSeesTheRunHolds` | `Services_proofs` | |
| `JobsAreAccountedHolds` | `Services_proofs` | `JobsAreNoChats` |
| `AdvertisedResolvesHolds` | `Services_proofs` | `AbsentIsNoAction` |
| `CallsGoTheirOwnWay` | `Services_proofs` | `GeminiConstants` |
| `FailuresAreToldHolds` | `Generate_proofs` | `SitesAssumption` |
| `TelemetryTellsTheRunHolds` | `Generate_proofs` | `QueueBounds`, `RunsAssumption` |

### Stores

*In memory.* `OneLoop`: every coroutine that uses the store runs on one event loop.
The invariant is `IInv == TypeOK /\ LockHeld /\ ReadStillCurrent`. `LockHeld` says
that whoever is between its read and its notify holds the lock of its loop.
`ReadStillCurrent` alone is not inductive: a second saver that also stands at `read`
could write first. With `LockHeld` and one loop there is no second saver. The
refinement follows because the row that is written was computed by `apply_save` from
the row that is still there (`ApplySaveRows`: a terminal status never changes), and
every step but `WriteRow` leaves the rows alone (`OthersKeepRows`). `AbortAnswersOnce`
is inductive on top of `IInv`: an abort that answers saw a `pending` row, which is
the row still there, so nobody was told before; and an aborted row stays one.
`StreamIsCurrent` speaks of open streams between two saves only. It needs what holds
before and during them (`SInv`): a stream that is seeded and not yet registered already
has the current status, because the lock keeps savers out until it is; what a task is
about to announce is the status of the row (`WriteAnnounced`); and an end lies in a queue
only behind a terminal status. The queue of a stream is reasoned about by its latest
status (`Latest`) and what each step of the consumer and each announcement does to it.
Without `OneLoop` these theorems are false: two loops have two locks (section 6).

*Files.* `FileConstants` says that the number of saves is a number and that no task has
the name of the free lock. `FilesKeepPromise` is `Spec => FilesImplementLifecycle`: the
refinement of `SnapshotLifecycle` for snapshots whose heartbeat is never cancelled, and
that an acknowledged save stays on disk for those no cancelled heartbeat has left a
thread behind for. The invariant `FInv` is about inodes: no two snapshots have one
(`InodeInv`), a save under way has the lock or was left behind by a cancelled heartbeat
*of another snapshot* (`LockInv`), and so what a save of this snapshot read is still what
is on disk, and the temporary file is its own (`SaveInv`). Without the exception for
`cancelled` the run `file_beat_torn` is the counterexample.

*Firestore.* No assumption but `FirestoreAssumption` of the module, and for the rows
`~CallersShareIds`.
`PatchRoundTrip`: `apply_json_patch` of a `diff_json` leads from the state it was made of
to the one it was made for, whatever the parts of a state. The invariant of
`AbortTellsOneCaller` is `AInv == Typed /\ RecordedStatusHolds /\ AbortAnswersOnce`.
There is no lock here: what stands in for it is that an attempt
that has not lost recorded the status its row still has (`RecordedStatusHolds`).
That holds because an attempt reads the document of its row (`ReadSetDoc`), so
whoever changes it makes the attempt lose (`ContendKeeps`). Hence an attempt that
commits found the row pending, when nobody had been answered; and one that writes
nothing recorded a status that is not `pending`. Every other save takes its status
from `apply_save`, which keeps `aborted` (`CommitStatus`). `Typed` is as much of
the type invariant as this needs: statuses and attempts, not chains and shards.
`RowsKeepTheLifecycle` is the refinement of `SnapshotLifecycle`, from the same two facts
(`CommitMapsToLifecycle`): a commit creates its row, settles it or leaves its status, also
when it rewrites documents for a heartbeat or comes after another writer's. One step is
not in the abstract specification: `DeleteSession` makes all rows of its session absent at
once (`Forgotten`), and their ids may be created again. The refinement is no property of
the run `firestore`; TLC agrees with it on that run's instance.

*Its rows.* `RowsAreWholeHolds` adds two parts to `AInv`. `DocsInv` is about the documents
of every session: they are within their limits, and exactly the shards a checkpoint counts
exist. `RowsInv` is about the sessions that never lost their pointer alone: the shards of a
checkpoint are cut from the state that was saved (`Whole`); a diff stands on a row of its
own session, has that row's chain and itself at the end, and its patch was made from what
that row holds; and the pointer repeats the chain of the row created last, on which
*nothing is built* (`Current`). The last is what makes the rewrite of the current row safe;
the state of any other row cannot be rewritten, and a save that keeps its state finds the
same parent and makes the same patch, so the chains behind it hold. `WholeReads` goes from there to the read: were
there a row that does not read back, one has the shortest chain, it is a diff, and its
parent reads back; so `PatchRoundTrip` applies, and the row reads back after all. The
smallest length stands in for the induction over chains, which needs an operator as a
parameter. The fold of `_reconstruct_from` (`FoldLeft` of `SequencesExt`) is a recursive
function, of which TLA+ says nothing until one is shown to exist (`FoldExists`,
`FoldTrace`); `FoldAppends` is what the proof uses of it. `~CallersShareIds` says that no
caller saves a row that names its session in the state alone under the id of another
session's row: that row would change its session under the diffs on it, and the property
is false there (section 6).

*Its status streams.* `WatchInv` has three parts. `SubInv` is about one subscription: what
was got and what waits is one word (`WordInv`), statuses in order and then ends, and once
an end is in it nothing can be told any more, because the subscription is closed or has no
watch. `Kept` says where the listener of a subscription is known, so that somebody will
stop it: a step that looks at it again, a thread, the bag of its loop, or the hands of
`close()`. `CloserInv` says that the bags behind `close()` stay empty, which they do
because an attach looks at `_closed` once more. Steps of one subscription need only
`OneMoves`, those that prune ended loops `SubsMove` and `PrunedSub`.

### One invocation

`AgentRuntime_proofs` has one invariant for its five theorems, of seventeen named parts,
and one lemma per action and part it can disturb. Four tasks write rows and none
reads what the others are about to write; what keeps them apart is the ids they hold.
So the invariant says which ids those are and when they were reserved (`IdsSuffice`,
`RunnerIds`), which task has which call (`CallsInOrder`), that with a store that never
suspends a save keeps the event loop (`SavesKeepTheLoop`), and what the row behind each
id is while its save is issued, saved, skipped or raised (`AttachedRows` for a run whose
client stays, `DetachedRow` for one that was detached). On top of these:

- `AnswersAreDurable` needs that nobody is about to write a row that a `turnEnd` chunk
  has named (`ToldRowsAreOver`), and that what `run()` saves last is the state of the
  session (`SavedRows`);
- `FailureResumesLastGood` needs that a turn moves the session on (`VersionsInOrder`),
  because the code compares states to decide whether the last row is the last good one;
- `HistoryIsAChain` needs that also the row a task *will* write stands on one that is
  there (`ParentsAreThere`);
- `AbortHolds` needs that an abort answers only after it has committed
  (`AbortCommitted`), and that a commit keeps an aborted row (`CommitKeepsRows`).

The proof is also where the exception `TurnsAddMessages` comes from (section 6): a turn
that only resumes tools may leave the session as it was.

### The chat client

`LostTurnsUndoneHolds` is `Spec => []LostTurnsUndone`: a turn that failed or was rolled
back leaves nothing of itself in the view, an aborted one at most its prompt, and the
chat never points at a row that cannot be resumed. Neither half is inductive. `OpenView`
says what the view is *while* a turn is open: what it found, then at most its own prompt;
so cutting it back at a failure restores it. `Flow` orders the turns: all before the last
have settled, a server that has not loaded has written nothing. `RowOf` says that an
output which is no failure names the turn's own row, which is completed. `Types` carries
that whatever travels for a turn (chunks, output, driver's copy) bears the turn's
number, without which a late chunk of one turn could be stitched into another. A
completed row is never written again, so what was resumable stays so.

`PatchesTellTheState` is `Spec => []StateFollowsPatches`, a part of `CopiesAgree`. Between
two chunks the client's state is not the server's. `Tracked` says what is: the client's
state with the patches on their way makes the state of the turn, or of its row once the turn
is over; and if the patch that sets the state is still on its way, it is the first of them
and the client's own state does not count. So what a lost turn left in the client is gone
with the first patch of the next one. Nothing travels behind the end of a turn, so when the
output is taken nothing is on its way (`OutputTells`, `SeenIsOver`). A turn that was aborted or
whose connection broke has no answer, and nothing is said of it.

### The tool loop

`Habits = {}` leaves out the two things a hook may do that lose a round or a pause by its
own will (section 6); every other rewrite and every exception of a hook is in the theorem.
The nested calls of `run_wrap_generate` are a stack of any height, so `FramesInv` is over
its indices: every frame above the first was given a history that ends in answers, and
only the first may have been given a pause, in a resume. Hence whoever raises, at whatever
height, hands back a history the model can go on with (`RaiseKeeps`). A history is `Good`
when every request in it is answered by the message behind it and no two replies stand
together; appending to one, cutting one and closing a round behind one keep it so (`Grows`,
`Shrinks`, `ClosingKeeps`).

The step that needs the most is the way out through the hooks. `remember()` tells "the
hook rewrote the last reply" from "the hook gave a reply of its own" by comparing messages,
and it is right because of `Remembered`: a hook either has not seen the reply, and then the
history asks for one, or sees it as its last message. `ResumeMeans` is the other half:
an answer goes to the request that asked for it, also one stashed over several pauses,
because a part keeps the id it was built for (`Request`). That is `ClosedRoundsAreKept`,
two conjuncts of `RoundsAreWhole`; the third is the next theorem.

*The pauses of a round.* `RepliesReachTheirToolHolds` is about `ToolPauses`, for any list of
requests (`RoundsAreLists`: they are numbered), also of the same tool and ref, and any
number of pauses. `MarksFit` is the part of `PausesInv` that carries it: while a round is
paused every request bears its question and nothing else, or an answer that fits it; and
the stash is read back as it was written (`StashIsRead`, `StashFits`), which holds because
the keys of a stash are written to a part that has none of them left. `RunFits` says that a
run under way in a resume was told by a restart; with requests the replies can tell apart
it is the restart of its own. The code takes the *first* reply that matches, so the proof
needs that a set of requests that is not empty has an earliest (`LeastOf`). `DoneFits`
counts: what has run to its end waits with its answer, and is not run again but after the
one resume that failed.

### Registry and dynamic providers

*InvalidationTakesEffect.* `FetchedSince` lists every place where an old listing could
hide from an invalidation: the cache, the fetch of each loop that has read. A caller that
waits, waits for the fetch of its own loop, which has yet to read or has read late enough
(`WaitsForItsLoop`).

*AnswersAreComplete.* `CallOK` follows one call through its program counter: at each
place it says where a name that is owed can still be found (already among the rows, in
the child's or the root's entries, in the init of a plugin not yet awaited, in what its
plugin resolves). It is monotone in the tables (`Stable`), and no step removes an entry or
undoes an init (`Grows`), so the steps of other tasks and loops need no further care
(`OthersStay`): one lemma for each action remains. That a loop marked ready has every
plugin that is registered *done* is part of it: the code rechecks the count for that.

### The shipped middleware

`EditsStandStreamsAreOrdered` proves two parts of `InjectionsInOrder`. *Edits*
(`EditsInv`): two edits under way have clashed, and each has read what every answered edit
without a clash has written. So whichever of them writes takes back none of those, also
when the tools of a failed call go on while the next call edits. *Streams* (`StreamInv`):
the index of the accumulator is where the stream ends: the index of the last chunk while a
turn is sending, past it when a turn begins. The messages drained at the start of a turn take
one index each, so the order of the indices carries over (`ChunksAre`). The other two parts,
`ReadsFollowReplies` and `ListedOnce`, filter and count messages and stay with TLC.

### Services

- *A streamed run.* The chunks are numbered. What is in the channel is an interval that
  ends with the last chunk emitted (`ChannelInOrder`); only the youngest of the waiting
  `pop` tasks is the reader's (`PopsInOrder`); what was taken out was seen, or eaten by an
  orphan (`TakenOnce`), and every orphan was paid for by a read given up
  (`GivenUpPays`).
- *A process in dev mode.* `DevInv` follows file, thread and exit callback of each
  Genkit. A handler may run between any two steps and inside a handler; what bounds the
  damage is that an announced server has its file until the first signal comes.
- *Jobs.* `JobsAreNoChats` says that no job has the name of a chat model of its shop: with
  such a name `generate` would run the chat model and no job at all. Every handle the
  program holds is of the action that was asked and of a job that was billed (`JobInv`);
  the one order of hooks that loses it is excepted (section 6).
- *Bedrock's threads.* An open stream is always somebody's: of the opening call, of the
  caller that reads it, or of the task that closes what was opened for nobody
  (`TransportInv`). `CallsLeaveNothing` is a conjunct of what the run checks
  (`CallsAreAccounted`); the rest of that is about batches and stays with TLC.
- *Catalogues.* `AbsentIsNoAction`: `None` is no action. What a plugin resolves depends on
  the name and its marks alone, never on the catalogue of the moment, and a listing is made
  of names of its provider (`CatalogInv`). So the theorem comes down to one lemma for each
  plugin: every entry it can list keeps its word (`KeepsItsWord`), whatever was listed when.
- *The dev UI.* `DevUiSeesTheRun` relates what was carried, what waits at the write lock
  and how far the run's task has come, and `ReflInv` keeps the three in step. A frame waits
  where its run waits for it, and no two frames of a run wait together but chunks, in order
  (`SendersInv`); a written frame was carried, and any other chunk is newer than all the
  wire has of its run (`FramesInv`). So a write cannot put a chunk out of order. `AnswerInv`
  follows the answer from the wire to the end of the task: a second one is sent only when
  the sender of the first was told that it failed or was cancelled (`Excused`). `OneRun`
  says that the chunks of an undisturbed run wait or were carried, none lost; at its end
  none waits, and counting them gives as many as it emitted. A cancellation takes frames
  out of the middle of the queue; that it keeps the order of the rest is `SendersLeft`.

*Calls of Gemini.* `CallsGoTheirOwnWay` proves three of the four parts of `CallsAreTheirOwn`
(which `ProvidersAreAskedRight` of the run `conversation` names): `KeysTravelAlone`,
`HostServesLocation` and `StartIsItsOwn`, for any number of calls, asks and plugins.
`GeminiConstants` says that None is no location, and that no address given by the user is
the host of a multi-regional location: whoever writes such an address chooses it. A
client is right from what its call asked for alone (`OwnClientIsRight`,
`CallsClientIsRight`), whatever project the probing threads left. A call remembers only the
*id* of a stored start while entries expire and other calls add theirs. The invariant
(`CachesInv`, `Holds`) is that an id is used once: a call stores one start per position, so
what stands under an id is what the call found or stored, and `Used` stays true when the
entry is gone. TLC agrees with `GeminiInv` on the run's instance. The fourth part,
`ReadsItsConversation`, compares texts that `SelectSeq` filters and stays with TLC.

*The history of a session.* `KeptSafe`: the store refuses to choose between branches and
prunes nothing, or the session has one client, who sends one input at a time, and the store
does not keep a single row (`Lone`); the two stores of the run are of these two kinds, and
outside of them the property is false in places (section 6). The invariant has a part for
each. Where branches are refused (`RefusesInv`), a completed row has a `Family`: the rows
that descend from it, none of which lost anything of it. A family is closed under building
on its members, so it has a leaf; when the session has one leaf that is it, and whoever
walks back from there stays on a `Trail` of the family until a completed row. A detached
turn that settles starts a family, and none is cut, because nothing is built on a row that
still works (`TreeFits`). Where rows are pruned (`LoneInv`), what counts is the newest row
and the one behind it: the row behind is completed, nothing is built on what is built on it
(`EndsKept`), and so the chain of a save never has one of the two past a cap of two or more
(`PastCapIs`). What the client was told is in the newest row if it is completed and in the
one behind it otherwise, and its handle is one of the two (`FollowsNewest`). `Chain` is a
recursive function too; one exists (`ClimbExists`).

### Servers and failures

`FailuresAreToldHolds` has two halves. *Replies*: what the client is told is decided where
the reply ends, so `ServersInv` says that a complete reply never belongs to a run that is
still `Busy`, and hence that no later step of the run can make the words wrong. A frame
counts a chunk the run has sent; the last frame of a run that returned needs all of them;
a reply that streams nothing has none. `SitesAssumption` lists the four servers, the shapes
of a body and the ways a run can end. *Retries*: `CodesClassified` and `RaisedForCode`
go through the tables of the plugins. `WaitWithinBounds` is the arithmetic of the backoff,
`HintKept` the wait for any integer in the header and any jitter; the property itself
quantifies over five of them.

### Telemetry

`TelemetryTellsTheRunHolds` has an invariant for each half of `TraceExport`. *The queue*
(`QueueInv`): a record is with the thread that made it, in the queue or in the batch, and in
one of them only (`InHand`, `InQueue`, `InBatch`), as the states in `fate` say. What the
flush waits for is `unfinished`, and `CountsWhatWaits` says what that is: the length of the
queue, and one for a batch. The worker marks what it gathers as done at once and the first
record of the batch only after the post, so the count comes to zero when nothing waits, and
a flush that sees it covers only what is settled. A stop token that pushes the oldest
record out of a full queue keeps the count. *The spans* (`TraceInv`): the newest document
of a span, or else the collector, tells how the span is now (`NewestTells`); a span that
looks failed has failed, which no later step can undo (`NothingFalse`); in production
nothing is counted before its batch has gone, and a span leaves with one batch
(`CountedOnce`); and of what Google Cloud has, every record came with all that was sent
with it (`SentWhole`), from which what may and what must be in it can be read off.

### What is only model-checked

- *Liveness*, and with it fairness and `ENABLED`.
- What *recursive definitions over data* compute for every input: the texts
  (`CopyFollows`, `ItemsArrive`, `StreamTellsTheMessage`) and the folds of the model plugins
  (`HistoryReplays`, the rest of `ProvidersAreAskedRight`). Each needs induction over its
  data. No module that is proved about declares or reaches a `RECURSIVE` operator.
- Sequences that are *filtered or flattened*, of which the provers know nothing:
  the rest of `CopiesAgree` of `AgentChat`, `ModelIsToldOnce`, the rest of `InjectionsInOrder`,
  `ReadsItsConversation` of `GeminiCalls`, and the batches of `CallsAreAccounted`
  (`AnswersMatchInputs`); its other half, `CallsLeaveNothing`, is proved.

## 6. Where the code and its documentation disagree, and other surprises

With a run that shows it (`PROJECT.json`, "findings"):

1. `runtime_detach_race`. A turn-end save and the `pending` save of a detach use one
   reserved id. If the turn-end save lands first the pending one is refused and
   `run()` raises, although the store works (`agents/_runtime.py:926`).
2. `file_beat_torn`. The thread of a cancelled heartbeat and the finalizer's write
   share `<id>.json.tmp`; the rename of one publishes what the other has begun
   (`agents/_session_stores/_file_store.py:92`).
3. `queued_read`. What `read_file` read while another tool of the round paused never
   reaches the model, which is told that it was queued
   (`genkit_middleware/_filesystem.py:326`).
4. `fewshot_agent`. A prompt agent whose prompt has a list of messages loses its
   conversation (`ai/_prompt.py:846`).

Without a run; each was met while modelling. The modules either have it, and their
properties say what holds all the same, or leave it out where this file says so.

**Stores and runtime**

- Two event loops have two locks, and an aborted row can be rewritten by a save that
  read it before (`agents/_session.py:78`; the check in `_util.py:145` works on the
  stale copy).
- `apply_save` compares sessions only when both rows name one at top level, and fills a
  missing one in afterwards (`_session_stores/_util.py:158`): a save that names its
  session in the state alone takes over a row of another session, and in Firestore a diff
  behind that row then reads a state nobody saved. `CallersShareIds` lets callers do so;
  it is off in the run.
- A first turn that fails before it changes the session answers with the id of its
  own failed row, which cannot be resumed (`agents/_runtime.py:600`): "server-managed
  resumes by the last-good snapshot" (`:674`), but "Only 'completed' snapshots can be
  resumed" (`:403`). Only a turn on a `resume` input adds no message of its own, so
  `AnswersAreDurable` and `FailureResumesLastGood` promise a completed row under
  `TurnsAddMessages`; with `resume` among `InputKinds` TLC finds the failed one.
- A Firestore session whose pointer document alone is gone accepts a rewrite of an
  interior row, or takes an interior row for the current one after a beat
  (`firestore.py:1052`, `:1286`); the rows behind it then read wrong states.
- A store with a smaller `shard_size` promotes an interior diff to a checkpoint when
  it rewrites its status; the rows behind it then find no patch (`firestore.py:1086`).
- A detached turn whose session got a newer row meanwhile cannot save its final state
  in Firestore: it is no longer the current row (`firestore.py:1052`).
- An abort whose first attempt saw `pending` and whose second finds the row deleted
  answers `pending` (`_snapshot.py:187`).
- After a detach the id that `TurnContext` showed the handler may not be the one the
  row gets (`_runtime.py:903`, `_types.py:55`).
- With a store that suspends, a late turn-end save settles a detached row before the
  work is over (`_runtime.py:786`).
- A row whose heartbeat is late reads as expired although its worker will settle it
  (`_snapshot.py:108`).
- A failed turn later than a detached one that completed shadows it (`_util.py:120`);
  so does a crash in the middle of a prune (`_file_store.py:124`). With
  `max_persisted_chain_length=1` the save of a failed row prunes its completed parent,
  and failed first turns are never pruned (`:118`).
- `_StatusStream.aclose()` from another task while the consumer waits raises, and
  `on_close` is never called (`_session_stores/_util.py:242`).

**Chat client**

- A turn without a model message returns the last message of the session, which the
  client appends to its view a second time (`agents/_client.py:1419`); `Ends` has
  `"empty"` for it.
- A `send_stream` turn aborted before its task first ran leaves its stream open, and
  the server never gets the turn (`agents/_client.py:905`, `:975`).
- A server-managed turn that fails leaves its patches in the chat's state; the
  docstring of `AgentError` promises the last-good state (`agents/_client.py:291`).
- A tool-request message of a model that does not stream is missing from the view
  (`agents/_client.py:1397`): `Streams` has `"none"` for it.
- A restart that pauses again leaves two paused messages in the view where the store
  has one (`ai/_generate.py:1027`): `Ends` has `"repaused"`.
- A client-managed custom agent that finishes `aborted` rolls back the messages but
  hands over its state (`agents/_client.py:1387`, `:1433`).
- A turn that ends in an exception keeps its prompt in the view, one that reports a
  failure does not (`agents/_client.py:895`).

**The tool loop and its pauses**

- `gather` gives up at the first failing tool and cancels nothing (`ai/_generate.py:2085`).
- A hook that answers with a response of its own after a closed round loses the
  round (`ai/_generate.py:1767`). After a resume that paused again, a hook that raises
  leaves two model turns in a row in the history (`:966`): `Habits` is empty in the run.
- Restarted tools have no abort watcher (`ai/_generate.py:2466`). A resume that fails is
  sent again with the same history, and restarts that had succeeded run again (`:2274`).
- Two requests to one tool without refs (Ollama gives none) are told apart by nothing:
  the first reply answers both, a restart runs the first's arguments twice.
- `resumed` reaches only the restart it came with: under ToolApproval a tool that itself
  asks must be approved again with each restart. A tool called from inside a restarted
  one sees its caller's resumption, because both are context variables.
- A restarted tool that interrupts again pauses the call once more: the wrapper's exception
  is unwrapped on the way out (`ai/_tools.py:552`; the docstring there says it cannot).
- The replaced input of a restart is not recorded in the history; an agent's client may
  not replace one at all, although `restart_tool` offers it.
- A tool whose return cannot be told (no JSON) has run, and its siblings' results are lost.
- The instructions of an earlier call's format suppress the next call's
  (`InstructionsAreTheCalls`).

**Prompts**

- A list of `messages` drops the caller's history too; `tools=[]` and `use=[]` cannot
  clear what the prompt set; a setting under its alias survives a nearer one under its
  name (`ai/_prompt.py:362`).
- One malformed `.prompt` file hides the rest of its directory; names with several dots
  collide; file prompts overwrite `context["state"]` with `None`.

**Middleware**

- A read that was queued is lost by a restart too; what the program approves with
  `prompt=` (README of ToolApproval) fails because the resumed call's last message must
  be the model's.
- Two middleware of one registered name: the second is `NOT_FOUND` (`ai/_generate.py:283`).
- A retry after chunks were streamed repeats text under the same index. Retry's sleep does
  not see an abort and starts another model call. A fallback model that does not exist
  raises `NOT_FOUND` and hides the failure it was to replace.
- Two concurrent `edit_file` calls: one edit is lost. When the skills directory becomes
  empty, the last listing stays in the system message.

**Formats and the bridge**

- An array item is lost when prose before the array has quotes or braces cut by a chunk;
  a reply without an array gives `None`; JSONL yields items again from the whole reply; a
  bad `{...}` line raises.
- "The finished message is parsed again so response.message matches"
  (`genkit_a2ui/_middleware.py:94`) fails where a part that is not text follows the
  beginning of a fence or breaks into a block: the message ends what is open there, the
  stream reads on (`flush_nontext` at `:216`, `False` at `:227`, `True` at `:252`). "see \`",
  data, "x" streams the data before the backtick. A block with data in it is one card in the
  stream and, in the message, a block of what came before (as a rule no JSON, so kept as
  text) and the rest as prose; if its fence was not open yet, the ids of
  later cards differ; and in strict mode a card that was shown can belong to a turn that then
  fails. `DataBreaksIn` names these replies: without it in `StreamMatchesMessage` TLC finds
  one at once. What each side says of them is checked.
- A stopped turn drops what its stream holds back and hands over the message with the fences
  in it, beside a stream that shows cards. A block that strict mode refused while it streamed
  does not fail that turn (`:118` comes before `:120`), although "a bad fence fails the turn"
  (`:79`).
- White space alone between two data parts is dropped by the bridge.

**Model plugins**

- *Tool choice.* OpenAI sends `none` after any tool message in the history, so a second
  round, or `required` in a later call, is impossible ("stop forcing additional tool
  calls"), and sends it without tools too. Anthropic and Bedrock repeat `required` in
  every round, up to the cap. Anthropic, Gemini and Ollama ignore `none`, Gemini and
  Ollama every choice.
- *Formats.* Bedrock and Ollama's generate API are never asked for JSON. Gemini with JSON
  and tools on a `NO_TOOLS` model neither constrains nor tells it; `constrained=False`
  drops the schema; `array` and `enum` send a schema without the JSON type. OpenAI turns
  `array` into text.
- *Settings.* OpenAI drops `max_output_tokens` (documented); `stop_sequences` beats `stop`
  in Ollama and loses in OpenAI.
- *Schemas.* Gemini drops a union property and leaves it in `required`; a recursive schema
  never ends its conversion. Ollama tells nothing inside a property. Bedrock's coercion
  skips unions, references and nullables, makes 3 of "3.7" and raises for `inf`.
  `_to_anthropic_schema` does not enter lists.
- *Replies.* OpenAI raises for an empty message at a clean stop where its stream returns
  it; a streamed DeepSeek JSON keeps its fences. Ollama: calls have no refs and are
  dropped from a history, images of earlier chunks are lost, an inline `<think>` is
  streamed as text and split in the message. Anthropic: a thought without a signature
  raises when it is sent again, a signed one without text is dropped, all but the first
  system message are ignored. Gemini: signatures on text are lost, `__` in a tool's name
  comes back as `/`. Bedrock: an unsigned thought is dropped, a truncated call without
  arguments becomes `{}` and runs, a stream without `messageStop` ends well where a whole
  reply is `OTHER`.
- *Cache.* With two cache marks Gemini stores one prefix and drops the other; two calls
  that list before either creates both create a cache.
- *Catalogues.* OpenAI's list says `tools=False` where `resolve` gives the model's own
  info; Ollama lists a model of the generate API with the capabilities of chat.
- *Failures.* Dropped connections are retried for OpenAI, Ollama and Gemini (`INTERNAL`),
  not for Anthropic, Interactions and Bedrock (`UNKNOWN`).

**Jobs and batches**

- A job is orphaned when an inner hook drops the operation and an outer one raises
  (`ai/_generate.py:1342`, docstring at `:1170`; `LostBetweenHooks`). A hook that calls
  `next` twice starts two jobs and keeps one ticket. `generate_operation` raises on a
  failed response and loses a billed ticket that `generate` keeps (`ai/_aio.py:1703`).
- A finished Veo job without response or error gives a handle that is done and has
  neither output nor error.
- An evaluator that raises `AttributeError` is run twice and gives two rows. A cancelled
  `embed` of Bedrock leaves its other calls running, and one more may start after the first
  failure. The count of the embeddings of OpenAI, Google and Ollama is never checked.
- The Ollama embedder sends one text per *part*: a document with two texts has two
  embeddings, one without text none, and what `embed_many` returns no longer lines up with
  its documents (`genkit_ollama/embedders.py:98`; `TextParts`).

**Registry, dev UI, process**

- The init of a plugin is awaited unshielded: a cancelled caller cancels the one init task
  of its loop (`core/_registry.py`, "Ensure a plugin is initialized exactly once.";
  `CancelIsLocal`).
- An invalidation while a fetch is in flight is lost: the fetch stores what it read before,
  for its whole time to live (`core/_dap.py:119`).
- A cancel that comes late gives a run a second answer or none (`core/_reflection_v2.py:663`).
- A signal between writing the runtime file and registering its removal leaves the file;
  so does an `atexit` callback registered after the callbacks began. After `run_main`,
  asyncio's `remove_signal_handler` gives SIGTERM back to the default: a second one kills
  without cleanup (`ai/_aio.py:182`). A program that survives `KeyboardInterrupt` serves
  without a file. A Genkit made off the main thread has no handlers.

**Servers and telemetry**

- FastAPI and Flask lose the messages of errors without a cause (`core/_error.py:459`).
  Two concurrent streams of Flask share one loop and one fails ("This event loop is
  already running"); a stream whose client left stalls its action. Actions behind the web
  handlers go on after their client left. The last chunks before a failure may be lost.
- An aborted model call counts as a success in Google Cloud (`AbortsAreNotCounted`); with
  `force_dev_export` each call counts twice. Nothing sets `genkit:isRoot` and
  `genkit:isFailureSource`, so the metrics of features and paths never tick; the
  configuration log reads snake-case keys of a camel-case dump. A transport failure in a
  batch drops the rest unlogged.
- The stop token of the log exporter can be lost (`put_poison_pill`; `StopIsSeen`).

## 7. What is not modelled, and the plan

Not modelled, and why:

- *Helpers for tests, samples, scripts, CI*: not part of the running system.
- *Vertex AI Model Garden, Imagen, Lyria, speech, transcription, image generation of
  OpenAI and Bedrock*: one request and one reply, without state; their names are in
  `PluginCatalog`.
- *Handlebars rendering* (`dotprompt`), *generated types* and their conversions, the
  *catalogue* of the bridge: data that no property here tells apart.
- The *metrics* of features, paths and engagement in Google Cloud: they read a span and keep
  no state but the SDK's counters.
- *The listing routes* of the reflection servers and the start of the first one: they
  answer from the registry, which is modelled.
- In the modelled parts: artifacts of a session, validation of an output against its
  schema, `return_tool_requests`, HTTP headers, polling of a detached task, expiry (a
  computed status, never stored), the weak keys of the HTTP client cache, the lock of a
  session.

Next: `return_tool_requests` and output validation in `Generate`, the polling of a
detached task and artifacts in `AgentChat`, expiry in `SessionHistory`.
