----------------------------- MODULE TraceExport -----------------------------
(* What the Dev UI and Google Cloud learn of a run.  Spans open and end with the run; the Dev    *)
(* UI's processor exports each as it starts and as it ends, through one worker to a collector     *)
(* that may be down; Google Cloud's exports ended spans in batches and counts them.  The worker's   *)
(* queue, and that of the log records, is the second part.                                   *)
EXTENDS Naturals, Sequences, SequencesExt, FiniteSets

CONSTANTS Spans,        \* spans of one run
          Parent,       \* span -> the span it runs in, or itself: the root
          Runs,         \* what a run may be: [mode, kind: span -> kind, ignored]
          MaxPending    \* bound: documents waiting for the collector

ASSUME SpansNest == Parent \in [Spans -> Spans] /\ MaxPending \in Nat

ASSUME RunsAssumption ==
  \A run \in Runs : /\ run.mode \in {"dev", "prod", "forced"} /\ {run.ignored, run.full} \subseteq BOOLEAN
                    /\ run.kind \in [Spans -> {"generate", "prompt", "model", "tool", "flow"}]

VARIABLES
  tracedRun,  \* [mode: dev, prod or forced; kind; ignored: the root carries genkitx:ignore-trace;
              \*  full: log_input_and_output]
  span,       \* per span: none, open, or how its body ended
  held,       \* ended spans the batch processor holds for Google Cloud
  docs,       \* documents on their way to the collector
  collector,  \* per span: what the collector shows of it
  missed,     \* spans with a document the collector did not get
  lossSaid,       \* failed_traces: the loss was logged, and nothing has been saved since
  counts,     \* per span: what Google Cloud counted for it
  cloud       \* per span: what else of it reached Google Cloud: spans and log entries

traceVars == <<tracedRun, span, held, docs, collector, missed, lossSaid, counts, cloud>>

TraceInit ==
  /\ tracedRun \in Runs
  /\ span = [s \in Spans |-> "none"] /\ collector = [s \in Spans |-> "nothing"]
  /\ held = {} /\ docs = <<>> /\ missed = {} /\ lossSaid = FALSE
  /\ counts = [s \in Spans |-> <<>>] /\ cloud = [s \in Spans |-> {}]

Kind(s) == tracedRun.kind[s]
Endings(s) ==
  {"returned", "raised", "cancelled", "paused"} \union (IF Kind(s) = "generate" THEN {"reported"} ELSE {})
Ended(s) == span[s] \notin {"none", "open"}

(* The fault of letting a pause end its span as any other exception does.                     *)
StateOfException(ending) ==
  CASE ending = "returned" -> "success"
    [] ending \in {"raised", "reported", "paused"} -> "error"
    [] ending = "cancelled" -> "unknown"
    [] ending = "open" -> "running"

(* record_span_outcome: genkit:state, and the red of a span that raised.  A pause is no failure,  *)
(* unfinished work is neither, a response with an error is not a win.                         *)
StateOf(ending) ==
  CASE ending \in {"returned", "paused"} -> "success"
    [] ending \in {"raised", "reported"} -> "error"
    [] ending = "cancelled" -> "unknown"
    [] ending = "open" -> "running"
Exception(ending) == ending = "raised"

(* The document of one span, encoded on the thread of the run; the Dev UI leaves out prompt      *)
(* previews, and everything under the label.                                             *)
Document(s, ending) == [span |-> s, state |-> StateOf(ending)]
DevUi == tracedRun.mode \in {"dev", "forced"}
Exported(s, ending) ==
  IF DevUi /\ Kind(s) # "prompt" /\ ~tracedRun.ignored THEN <<Document(s, ending)>> ELSE <<>>

(* Google Cloud's exporter counts a model span by its input and its exception events, whatever    *)
(* its state; a root is counted apart, but nothing marks one.                               *)
Counted(s, ending) ==
  IF Kind(s) = "model" THEN <<IF Exception(ending) THEN "failure" ELSE "success">> ELSE <<>>

(* What a span carries when it is exported: its input from the start, its output and its state     *)
(* when it has them.                                                                    *)
Attributes(s, ending) ==
  {"input", Kind(s)}
  \union (IF ending \in {"returned", "reported"} THEN {"output"} ELSE {})
  \union (IF StateOf(ending) \in {"success", "error"} THEN {StateOf(ending)} ELSE {})

(* AdjustingTraceExporter: input and output are replaced, unless they may leave; a failed span     *)
(* is marked as a failed request, a model's is named.  Nothing marks a root or the source of a     *)
(* failure, whose adjustments and metrics never come to pass.                               *)
Redacted(attrs) ==
  IF tracedRun.full THEN attrs ELSE {IF a \in {"input", "output"} THEN "<redacted>" ELSE a : a \in attrs}
MarkedError(attrs, ending) == IF Exception(ending) THEN attrs \union {"/http/status_code"} ELSE attrs
MarkedModel(attrs) == IF "model" \in attrs THEN attrs \union {"genkit/model"} ELSE attrs
Adjusted(s, ending) == MarkedModel(MarkedError(Redacted(Attributes(s, ending)), ending))

(* The log entries written before the adjustments, from the attributes as they were: the config     *)
(* of a model call, and of models, tools and generate what went in and came out, if it may leave.    *)
Private(s, ending) ==
  IF tracedRun.full THEN Attributes(s, ending) \intersect {"input", "output"} ELSE {}
ModelEntries(s, ending) == {"config"} \union Private(s, ending)
ActionEntries(s, ending) == IF Kind(s) \in {"tool", "generate"} THEN Private(s, ending) ELSE {}
Entries(s, ending) == IF Kind(s) = "model" THEN ModelEntries(s, ending) ELSE ActionEntries(s, ending)

SentToCloud(s, ending) == {[entry |-> e, of |-> ending] : e \in Entries(s, ending)}
                   \union {[attributes |-> Adjusted(s, ending), of |-> ending]}

(* In dev both exporters see a span start and end.                                         *)
CountedNow(s, ending) ==
  IF tracedRun.mode = "forced" /\ ~tracedRun.ignored
  THEN /\ counts' = [counts EXCEPT ![s] = @ \o Counted(s, ending)]
       /\ cloud' = [cloud EXCEPT ![s] = @ \union SentToCloud(s, ending)]
  ELSE UNCHANGED <<counts, cloud>>

Open(s) ==
  /\ span[s] = "none" /\ (Parent[s] = s \/ span[Parent[s]] = "open")
  /\ Len(docs) < MaxPending
  /\ span' = [span EXCEPT ![s] = "open"]
  /\ docs' = docs \o Exported(s, "open")
  /\ CountedNow(s, "open")
  /\ UNCHANGED <<tracedRun, held, collector, missed, lossSaid>>

End(s, ending) ==
  /\ span[s] = "open" /\ \A c \in Spans \ {s} : Parent[c] = s => span[c] # "open"
  /\ Len(docs) < MaxPending
  /\ span' = [span EXCEPT ![s] = ending]
  /\ docs' = docs \o Exported(s, ending)
  /\ held' = IF tracedRun.mode = "prod" THEN held \union {s} ELSE held
  /\ CountedNow(s, ending)
  /\ UNCHANGED <<tracedRun, collector, missed, lossSaid>>

(* The batch processor exports what it holds.                                             *)
ExportBatch ==
  /\ held # {} /\ held' = {}
  /\ counts' = [s \in Spans |-> IF s \in held THEN counts[s] \o Counted(s, span[s]) ELSE counts[s]]
  /\ cloud' = [s \in Spans |-> IF s \in held THEN cloud[s] \union SentToCloud(s, span[s]) ELSE cloud[s]]
  /\ UNCHANGED <<tracedRun, span, docs, collector, missed, lossSaid>>

PostDocument ==
  /\ docs # <<>> /\ docs' = Tail(docs)
  /\ collector' = [collector EXCEPT ![Head(docs).span] = Head(docs).state]
  /\ lossSaid' = FALSE
  /\ UNCHANGED <<tracedRun, span, held, missed, counts, cloud>>

PostFails ==
  /\ docs # <<>> /\ docs' = Tail(docs)
  /\ missed' = missed \union {Head(docs).span} /\ lossSaid' = TRUE
  /\ UNCHANGED <<tracedRun, span, held, collector, counts, cloud>>

TraceSystem == ExportBatch \/ PostDocument \/ PostFails
TraceNext == TraceSystem \/ \E s \in Spans : Open(s) \/ \E ending \in Endings(s) : End(s, ending)

(* -------------------------------- properties -------------------------------- *)

Waiting(s) == \E i \in DOMAIN docs : docs[i].span = s

(* Once nothing is on its way the collector shows every span as it is, unless a document of it    *)
(* was lost; nothing under the label is shown; no pause and no unfinished work looks failed; and    *)
(* in production a model call that ended by itself is counted once, as what it was.              *)
TracesTellTheRun ==
  \A s \in Spans :
       /\ DevUi /\ ~tracedRun.ignored /\ Kind(s) # "prompt" /\ span[s] # "none" /\ ~Waiting(s) /\ s \notin missed
            => collector[s] = StateOf(span[s])
       /\ collector[s] = "error" => span[s] \in {"raised", "reported"}
       /\ collector[s] # "nothing" => ~tracedRun.ignored
       /\ tracedRun.mode = "prod" /\ Kind(s) = "model" /\ span[s] \in {"returned", "raised"} /\ s \notin held
            => counts[s] = <<IF span[s] = "raised" THEN "failure" ELSE "success">>

(* What Google Cloud is sent: no input and no output unless they may leave, though the log           *)
(* entries are written before the span is redacted; what may leave of a model call, a tool or       *)
(* generate that has ended is in the log; and only a span that raised is marked failed.            *)
CloudIsToldWhatMayLeave ==
  \A s \in Spans : \A r \in cloud[s] :
    /\ ~tracedRun.full => IF "entry" \in DOMAIN r THEN r.entry = "config"
                                                ELSE r.attributes \intersect {"input", "output"} = {}
    /\ tracedRun.full /\ r.of = "returned" /\ Kind(s) \in {"model", "tool", "generate"} =>
         \A e \in {"input", "output"} : [entry |-> e, of |-> "returned"] \in cloud[s]
    /\ "attributes" \in DOMAIN r => ("/http/status_code" \in r.attributes <=> r.of = "raised")

(* record_span_outcome of an abort: "Leave genkit:state absent (OTel stays UNSET) so cloud       *)
(* metrics don't count these as either."                                                 *)
AbortsAreNotCounted ==
  \A s \in Spans : span[s] = "cancelled" => counts[s] = <<>>

(* What was exported is posted or given up.                                               *)
TracesDrain == (docs # <<>> \/ held # {}) ~> (docs = <<>> /\ held = {})

(* ------------------------- the queue of a background exporter ------------------------- *)
(* The background exporters of the Dev UI: spans (TraceServerExporter, an unbounded queue) and  *)
(* log records (LogServerExporter, a bounded one whose worker posts in batches).  Threads of     *)
(* the program put records, one worker posts them, any thread may flush, and the process shuts    *)
(* the exporter down as it exits.                                                        *)
CONSTANTS Threads,      \* threads that emit records
          Sinks,        \* which of the two exporters: "traces", "logs"
          QueueSize,    \* QUEUE_SIZE of the log exporter
          BatchSize,    \* BATCH_SIZE of the log exporter
          MaxRecords    \* bound: records emitted

ASSUME QueueBounds == QueueSize \in Nat \ {0} /\ BatchSize \in Nat \ {0} /\ MaxRecords \in Nat

StopToken == 0               \* the stop token; records are 1, 2, ...

VARIABLES
  sink,        \* the exporter; never changes
  outbox,      \* its queue: records and stop tokens
  unfinished,  \* the queue's count of items put and not marked done
  putting,     \* per thread: the record it found the exporter running for, or none
  fate,        \* what became of each record emitted so far
  poster,      \* worker: [at, batch, stopping]
  refusing,    \* stopped: no record is taken any more
  flush,       \* the last flush: [at, covers: records put before it]
  exit         \* shutdown: no, flushing, evicting, done

queueVars == <<sink, outbox, unfinished, putting, fate, poster, refusing, flush, exit>>

QueueInit ==
  /\ sink \in Sinks
  /\ outbox = <<>> /\ unfinished = 0 /\ fate = <<>>
  /\ putting = [t \in Threads |-> StopToken]
  /\ poster = [at |-> "starting", batch |-> <<>>, stopping |-> FALSE]
  /\ refusing = FALSE
  /\ flush = [at |-> "none", covers |-> {}]
  /\ exit = "no"

Full == sink = "logs" /\ Len(outbox) >= QueueSize
Settled(r) == fate[r] \in {"posted", "failed", "evicted"}

(* The check of stopped; the record is built and encoded between it and the put.              *)
Emit(t) ==
  /\ putting[t] = StopToken /\ Len(fate) < MaxRecords
  /\ fate' = Append(fate, IF refusing THEN "refused" ELSE "made")
  /\ putting' = [putting EXCEPT ![t] = IF refusing THEN StopToken ELSE Len(fate')]
  /\ UNCHANGED <<sink, outbox, unfinished, poster, refusing, flush, exit>>

(* put_nowait: a full queue drops the record; the trace exporter's has no limit.               *)
Put(t) ==
  LET r == putting[t]
  IN /\ r # StopToken
     /\ putting' = [putting EXCEPT ![t] = StopToken]
     /\ IF Full
        THEN fate' = [fate EXCEPT ![r] = "dropped"] /\ UNCHANGED <<outbox, unfinished>>
        ELSE /\ outbox' = Append(outbox, r) /\ unfinished' = unfinished + 1
             /\ fate' = [fate EXCEPT ![r] = "queued"]
     /\ UNCHANGED <<sink, poster, refusing, flush, exit>>

(* The log worker makes its HTTP client first; when that fails it takes no records.            *)
WorkerStarts ==
  /\ poster.at = "starting"
  /\ \/ poster' = [poster EXCEPT !.at = "getting"] /\ UNCHANGED refusing
     \/ /\ sink = "logs"
        /\ poster' = [poster EXCEPT !.at = "broken"] /\ refusing' = TRUE
  /\ UNCHANGED <<sink, outbox, unfinished, putting, fate, flush, exit>>

WorkerGets ==
  /\ poster.at = "getting" /\ outbox # <<>>
  /\ outbox' = Tail(outbox)
  /\ IF Head(outbox) = StopToken
     THEN /\ poster' = [poster EXCEPT !.at = "returned"] /\ unfinished' = unfinished - 1
          /\ UNCHANGED fate
     ELSE /\ poster' = [poster EXCEPT !.at = "gathering", !.batch = <<Head(outbox)>>]
          /\ fate' = [fate EXCEPT ![Head(outbox)] = "taken"]
          /\ UNCHANGED unfinished
  /\ UNCHANGED <<sink, putting, refusing, flush, exit>>

(* The rest of a batch is marked done as it is taken; its first record only after the post.     *)
WorkerGathers ==
  /\ sink = "logs" /\ poster.at = "gathering" /\ Len(poster.batch) < BatchSize /\ outbox # <<>>
  /\ outbox' = Tail(outbox) /\ unfinished' = unfinished - 1
  /\ IF Head(outbox) = StopToken
     THEN poster' = [poster EXCEPT !.at = "posting", !.stopping = TRUE] /\ UNCHANGED fate
     ELSE /\ poster' = [poster EXCEPT !.batch = Append(@, Head(outbox))]
          /\ fate' = [fate EXCEPT ![Head(outbox)] = "taken"]
  /\ UNCHANGED <<sink, putting, refusing, flush, exit>>

(* The batch is full or its delay is over; the trace worker does not gather.                  *)
GatheringEnds ==
  /\ poster.at = "gathering"
  /\ poster' = [poster EXCEPT !.at = "posting"]
  /\ UNCHANGED <<sink, outbox, unfinished, putting, fate, refusing, flush, exit>>

Post ==
  /\ poster.at = "posting"
  /\ \E outcome \in {"posted", "failed"} :
       fate' = [r \in DOMAIN fate |-> IF r \in ToSet(poster.batch) THEN outcome ELSE fate[r]]
  /\ poster' = [at |-> IF poster.stopping THEN "returned" ELSE "getting", batch |-> <<>>, stopping |-> FALSE]
  /\ unfinished' = unfinished - 1
  /\ UNCHANGED <<sink, outbox, putting, refusing, flush, exit>>

(* force_flush joins the queue on a thread of its own, for so long.                         *)
BeginFlush ==
  /\ flush.at # "waiting"
  /\ flush' = [at |-> "waiting", covers |-> {r \in DOMAIN fate : fate[r] \in {"queued", "taken"}}]

Flush ==
  /\ exit = "no" /\ BeginFlush
  /\ UNCHANGED <<sink, outbox, unfinished, putting, fate, poster, refusing, exit>>

FlushReturns ==
  /\ flush.at = "waiting"
  /\ \/ unfinished = 0 /\ flush' = [flush EXCEPT !.at = "true"]
     \/ flush' = [flush EXCEPT !.at = "false"]
  /\ UNCHANGED <<sink, outbox, unfinished, putting, fate, poster, refusing, exit>>

Shutdown ==
  /\ exit = "no" /\ BeginFlush
  /\ refusing' = TRUE /\ exit' = "flushing"
  /\ UNCHANGED <<sink, outbox, unfinished, putting, fate, poster>>

(* The stop token behind the flush; in a full queue the oldest record makes room for it, and    *)
(* a thread past its check may take the room first.                                       *)
PutStop ==
  /\ exit = "flushing" /\ flush.at # "waiting"
  /\ IF ~Full
     THEN outbox' = Append(outbox, StopToken) /\ unfinished' = unfinished + 1 /\ exit' = "done" /\ UNCHANGED fate
     ELSE /\ outbox' = Tail(outbox) /\ unfinished' = unfinished - 1 /\ exit' = "evicting"
          /\ fate' = [fate EXCEPT ![Head(outbox)] = "evicted"]
  /\ UNCHANGED <<sink, putting, poster, refusing, flush>>

PutStopAgain ==
  /\ exit = "evicting"
  /\ IF ~Full THEN outbox' = Append(outbox, StopToken) /\ unfinished' = unfinished + 1
     ELSE UNCHANGED <<outbox, unfinished>>
  /\ exit' = "done"
  /\ UNCHANGED <<sink, putting, fate, poster, refusing, flush>>

QueueSystem ==
  \/ WorkerStarts \/ WorkerGets \/ WorkerGathers \/ GatheringEnds \/ Post
  \/ FlushReturns \/ PutStop \/ PutStopAgain

QueueNext == QueueSystem \/ Flush \/ Shutdown \/ \E t \in Threads : Emit(t) \/ Put(t)

(* A process has both; neither waits for the other.                                        *)
TelemetrySpec ==
  /\ TraceInit /\ QueueInit
  /\ [][(TraceNext /\ UNCHANGED queueVars) \/ (QueueNext /\ UNCHANGED traceVars)]_<<traceVars, queueVars>>

(* -------------------------------- properties -------------------------------- *)

(* A flush that answers true left nothing behind: every record put before it was posted, or      *)
(* failed, or made room for the stop token.  And a worker that stops has posted all that was       *)
(* put before its token.                                                                *)
FlushMeansPosted ==
  /\ flush.at = "true" => \A r \in flush.covers : Settled(r)
  /\ poster.at = "returned" => \A r \in DOMAIN fate : fate[r] # "taken"

(* What leaves the process tells what ran: a flush means posted, a trace names the run,  *)
(* and what may not leave does not.                                                      *)
TelemetryTellsTheRun == FlushMeansPosted /\ TracesTellTheRun /\ CloudIsToldWhatMayLeave

(* put_poison_pill: "Make sure the worker sees the stop token even when the queue is full."        *)
StopIsSeen ==
  exit = "done" => StopToken \in ToSet(outbox) \/ poster.stopping \/ poster.at \in {"returned", "broken"}

(* A stop token in the queue ends the worker.                                              *)
WorkerStops == (StopToken \in ToSet(outbox)) ~> (poster.at \in {"returned", "broken"})
=============================================================================
