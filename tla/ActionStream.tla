----------------------------- MODULE ActionStream -----------------------------
(* A streamed action run seen by its caller: Action.stream and                   *)
(* BidiAction.stream_bidi (_core/_action.py) over Channel and CloseableQueue     *)
(* (_core/_channel.py).  One run emits chunks into the channel and ends with an  *)
(* outcome; one reader iterates, may give a read up and read on; the sender      *)
(* feeds the inputs of a bidi run and closes them.  Chunks are numbered.         *)
EXTENDS Naturals, Sequences, FiniteSets, SequencesExt

CONSTANTS MaxStreamed,  \* bound: chunks the run emits
          MaxSent,      \* bound: inputs sent
          MaxGivenUp    \* bound: reads given up

ASSUME StreamConstants == MaxStreamed \in Nat /\ MaxSent \in Nat /\ MaxGivenUp \in Nat

VARIABLES
  surface,   \* what the caller used, one of Surfaces; never changes
  feed,      \* in_queue: inputs sent, taken, closed
  fnAt,      \* the run: "start", "running", or the outcome of _close_future
  buffer,    \* chunks in channel.queue
  emitted,   \* chunks emitted so far
  reader,    \* __anext__: "idle", "waiting", or how the iteration ended
  pops,      \* pop tasks that wait at queue.get, oldest first: "mine" or "orphan"
  popped,    \* result of the reader's pop task, 0 while it has none
  seen,      \* chunks the reader got
  eaten,     \* chunks an orphaned pop task took
  response,  \* the future behind .response
  givenUp    \* reads given up

streamVars == <<surface, feed, fnAt, buffer, emitted, reader, pops, popped, seen,
                eaten, response, givenUp>>

(* A run of an action, one that reads its inputs from a stream, a generate or a prompt.  *)
Surfaces == {"stream", "bidi", "generate"}
bidi == surface = "bidi"

Outcomes == {"returned", "raised", "cancelled"}

StreamInit ==
  /\ surface \in Surfaces
  /\ feed = [sent |-> 0, taken |-> 0, closed |-> FALSE]
  /\ fnAt = "start" /\ response = "pending"
  /\ buffer = <<>> /\ emitted = 0
  /\ reader = "idle" /\ pops = <<>> /\ popped = 0
  /\ seen = <<>> /\ eaten = {} /\ givenUp = 0

Over == fnAt \in Outcomes

(* ---------------------------------- sending ---------------------------------- *)

(* BidiConnection.send, refused once the caller closed. *)
Send ==
  /\ bidi /\ ~feed.closed /\ feed.sent < MaxSent
  /\ feed' = [feed EXCEPT !.sent = @ + 1]
  /\ UNCHANGED <<surface, fnAt, buffer, emitted, reader, pops, popped, seen, eaten,
                 response, givenUp>>

(* BidiConnection.close *)
Close ==
  /\ bidi /\ ~feed.closed
  /\ feed' = [feed EXCEPT !.closed = TRUE]
  /\ UNCHANGED <<surface, fnAt, buffer, emitted, reader, pops, popped, seen, eaten,
                 response, givenUp>>

(* ---------------------------------- the run ---------------------------------- *)

(* The response of a generate is the task that runs it; the others' follow their run.    *)
Settles(how) == response' = IF surface = "generate" /\ how \in Outcomes THEN how ELSE response

(* Action.run: input and init are validated, then the function starts. *)
Start ==
  /\ fnAt = "start"
  /\ fnAt' \in {"running", "raised"}
  /\ Settles(fnAt')
  /\ UNCHANGED <<surface, feed, buffer, emitted, reader, pops, popped, seen, eaten, givenUp>>

(* The function takes the next input of its stream. *)
TakeTurn ==
  /\ fnAt = "running" /\ feed.taken < feed.sent
  /\ feed' = [feed EXCEPT !.taken = @ + 1]
  /\ UNCHANGED <<surface, fnAt, buffer, emitted, reader, pops, popped, seen, eaten,
                 response, givenUp>>

(* send_chunk: put_nowait into the channel's queue. *)
Chunk ==
  /\ fnAt = "running" /\ emitted < MaxStreamed
  /\ emitted' = emitted + 1
  /\ buffer' = Append(buffer, emitted + 1)
  /\ UNCHANGED <<surface, feed, fnAt, reader, pops, popped, seen, eaten, response, givenUp>>

(* The function returns (a bidi function when its inputs have ended and are      *)
(* drained), raises or is cancelled: _close_future is done.                      *)
FnEnds ==
  /\ fnAt = "running"
  /\ \E how \in Outcomes :
       /\ how = "returned" /\ bidi => feed.closed /\ feed.taken = feed.sent
       /\ fnAt' = how /\ Settles(how)
  /\ UNCHANGED <<surface, feed, buffer, emitted, reader, pops, popped, seen, eaten, givenUp>>

(* Fault: a cancelled run is not mirrored. *)
MirrorDone ==
  /\ fnAt \in {"returned", "raised"} /\ response = "pending"
  /\ response' = fnAt
  /\ UNCHANGED <<surface, feed, fnAt, buffer, emitted, reader, pops, popped, seen,
                 eaten, givenUp>>

(* _handle_done and _resolve_response mirror the outcome. *)
Mirror ==
  /\ Over /\ response = "pending"
  /\ response' = fnAt
  /\ UNCHANGED <<surface, feed, fnAt, buffer, emitted, reader, pops, popped, seen,
                 eaten, givenUp>>

(* ---------------------------------- reading ---------------------------------- *)

(* __anext__: a buffered chunk at once; else a pop task, waited for together     *)
(* with _close_future.                                                          *)
Read ==
  /\ reader = "idle"
  /\ IF buffer # <<>>
       THEN /\ seen' = Append(seen, Head(buffer)) /\ buffer' = Tail(buffer)
            /\ UNCHANGED <<reader, pops, popped>>
       ELSE /\ reader' = "waiting" /\ pops' = Append(pops, "mine") /\ popped' = 0
            /\ UNCHANGED <<seen, buffer>>
  /\ UNCHANGED <<surface, feed, fnAt, emitted, eaten, response, givenUp>>

(* The pop task that has waited longest gets the next chunk. *)
Pop ==
  /\ pops # <<>> /\ buffer # <<>>
  /\ pops' = Tail(pops) /\ buffer' = Tail(buffer)
  /\ IF Head(pops) = "mine"
       THEN popped' = Head(buffer) /\ UNCHANGED eaten
       ELSE eaten' = eaten \union {Head(buffer)} /\ UNCHANGED popped
  /\ UNCHANGED <<surface, feed, fnAt, emitted, reader, seen, response, givenUp>>

(* The reader's pop task is the youngest: nobody else starts one while it waits. *)
WithoutMine == SubSeq(pops, 1, Len(pops) - 1)

(* Fault: what is still buffered when the run returned is left there. *)
ResumeStops ==
  /\ reader = "waiting" /\ (popped # 0 \/ Over)
  /\ IF popped # 0
       THEN /\ seen' = Append(seen, popped) /\ popped' = 0 /\ reader' = "idle"
            /\ UNCHANGED pops
       ELSE /\ pops' = WithoutMine /\ UNCHANGED <<seen, popped>>
            /\ reader' = IF fnAt = "returned" THEN "stopped" ELSE fnAt
  /\ UNCHANGED <<surface, feed, fnAt, buffer, emitted, eaten, response, givenUp>>

(* asyncio.wait returned.  A chunk goes before the end of the run; at the end    *)
(* the pop task is given up, a failure of the run is raised, and what is still   *)
(* buffered comes before StopAsyncIteration.                                    *)
Resume ==
  /\ reader = "waiting" /\ (popped # 0 \/ Over)
  /\ IF popped # 0
       THEN /\ seen' = Append(seen, popped) /\ popped' = 0 /\ reader' = "idle"
            /\ UNCHANGED <<pops, buffer>>
       ELSE /\ pops' = WithoutMine
            /\ IF fnAt # "returned"
                 THEN reader' = fnAt /\ UNCHANGED <<seen, buffer>>
               ELSE IF buffer # <<>>
                 THEN /\ seen' = Append(seen, Head(buffer)) /\ buffer' = Tail(buffer)
                      /\ reader' = "idle"
                 ELSE reader' = "stopped" /\ UNCHANGED <<seen, buffer>>
            /\ UNCHANGED popped
  /\ UNCHANGED <<surface, feed, fnAt, emitted, eaten, response, givenUp>>

(* The read is cancelled at asyncio.wait, which leaves its pop task behind.      *)
GiveUp ==
  /\ reader = "waiting" /\ givenUp < MaxGivenUp
  /\ givenUp' = givenUp + 1
  /\ reader' = "idle"
  /\ pops' = [k \in DOMAIN pops |-> "orphan"]
  /\ eaten' = IF popped # 0 THEN eaten \union {popped} ELSE eaten
  /\ popped' = 0
  /\ UNCHANGED <<surface, feed, fnAt, buffer, emitted, seen, response>>

(* The caller that awaits .response is cancelled: a generate is cancelled with it, the   *)
(* run of an action goes on and nobody is told.                                      *)
LeaveResponse ==
  /\ response = "pending" /\ ~Over /\ givenUp < MaxGivenUp
  /\ givenUp' = givenUp + 1
  /\ IF surface = "generate" THEN fnAt' = "cancelled" /\ Settles("cancelled")
     ELSE response' = "given up" /\ UNCHANGED fnAt
  /\ UNCHANGED <<surface, feed, buffer, emitted, reader, pops, popped, seen, eaten>>

StreamSystem == Start \/ TakeTurn \/ FnEnds \/ Mirror \/ Read \/ Pop \/ Resume

StreamNext == StreamSystem \/ Send \/ Close \/ Chunk \/ GiveUp \/ LeaveResponse

(* The loop runs what is ready; the reader keeps reading; a function that has     *)
(* its inputs ends.  The sender need neither send nor close.                    *)
StreamSpec == StreamInit /\ [][StreamNext]_streamVars /\ WF_streamVars(StreamSystem)

(* --------------------------------- properties --------------------------------- *)

(* The reader gets the chunks once each, in the order the function emitted       *)
(* them, and none is missing between two it got but those a read it gave up      *)
(* itself took, one per read.  An iteration that stops has had them all, and     *)
(* stops quietly only when the run returned: a run that died shows up in the     *)
(* loop and not only in .response, which tells what the loop tells.               *)
StreamIsWhole ==
  /\ \A p, q \in DOMAIN seen : p < q => seen[p] < seen[q]
  /\ LET got == ToSet(seen)
         high == IF seen = <<>> THEN 0 ELSE Last(seen)
     IN /\ 1..high \subseteq got \union eaten
        /\ Cardinality(eaten) <= givenUp
        /\ reader = "stopped" => fnAt = "returned" /\ 1..emitted \subseteq got \union eaten
        /\ reader \in Outcomes => fnAt = reader
  /\ response \in Outcomes => fnAt = response

(* A run whose caller closes its inputs, or that takes none, ends; the reader    *)
(* and .response learn it.                                                      *)
ReaderIsTold ==
  (~bidi \/ feed.closed) ~> (response # "pending" /\ reader \notin {"idle", "waiting"})
=============================================================================
