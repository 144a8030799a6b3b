------------------------------ MODULE DevProcess ------------------------------
(* A process in dev mode: _aio.py makes each Genkit a daemon thread with the HTTP      *)
(* server of the dev UI (its WebSocket client, ReflectionV2, writes no file),           *)
(* _runtime.py announces the server in a file and has two ways to remove it, the       *)
(* signal handler's and atexit's.  Signals reach the main thread between any two       *)
(* steps, inside the handler of another one too.                                    *)
EXTENDS Integers, Sequences, FiniteSets

CONSTANTS
  Genkits,      \* the instances the program makes
  Processes,    \* kinds of process: [int, term: the handlers there were, onMain, catches]
  MaxSignals    \* bound on the signals

VARIABLES
  process,   \* the kind of this process; never changes
  main,      \* the main thread: "loading", "coroutine", "waiting", "stopped", "exiting", "gone", "killed"
  term,      \* who gets SIGTERM: "before", "handler" (handle_signal), "loop", "told", "default"
  server,    \* instance -> its thread
  up,        \* the instances whose server came up
  file,      \* instance -> its runtime file is there
  cleanups,  \* ACTIVE_CLEANUPS
  atexit,    \* instance -> its exit callback: "none", "set", "running", "done", "late"
  frames,    \* the running calls of handle_signal, the innermost first
  aborted,   \* instances whose exit callback a signal cut short
  signals    \* the signals so far

devVars == <<process, main, term, server, up, file, cleanups, atexit, frames, aborted, signals>>

DevInit ==
  /\ main = "loading" /\ term = "before"
  /\ server = [g \in Genkits |-> "unmade"] /\ up = {}
  /\ file = [g \in Genkits |-> FALSE]
  /\ cleanups = {} /\ frames = <<>> /\ aborted = {} /\ signals = <<>>
  /\ atexit = [g \in Genkits |-> "none"]

ProcessOver == main \in {"gone", "killed"}
Free == frames = <<>>       \* the main thread runs its own code
Serve(g, at) == server' = [server EXCEPT ![g] = at]

(* -------------------------------- the main thread -------------------------------- *)

\* Genkit.__init__, setup_signal_handlers: only the main thread can set handlers.
Make(g) ==
  /\ main \in {"loading", "coroutine"} /\ Free /\ server[g] = "unmade"
  /\ Serve(g, "starting")
  /\ term' = IF term = "before" /\ process.onMain THEN "handler" ELSE term
  /\ UNCHANGED <<process, main, up, file, cleanups, atexit, frames, aborted, signals>>

MainGoes(from, to, receiver) ==
  /\ main = from /\ Free /\ main' = to /\ term' = receiver
  /\ UNCHANGED <<process, server, up, file, cleanups, atexit, frames, aborted, signals>>

\* run_main: the user's coroutine, then the wait; a failure of the coroutine is logged.
RunMain == server # [g \in Genkits |-> "unmade"] /\ MainGoes("loading", "coroutine", term)
Wait == MainGoes("coroutine", "waiting", "loop")

\* _handle_sigterm: the loop hears of the signal when no handler runs, and ends the wait;
\* the receiver gives SIGTERM back as the default.  The interpreter exits when run_main
\* returns.
StopWaiting == term = "told" /\ MainGoes("waiting", "stopped", "default")
Exit == MainGoes("stopped", "exiting", term)

\* A script that ends without run_main or fails before it; SystemExit of the coroutine.
EndByItself == \E from \in {"loading", "coroutine"} : MainGoes(from, "exiting", term)

\* sync_cleanup begins, and removes the file.
CallAtexit(g) ==
  /\ main = "exiting" /\ Free /\ atexit[g] = "set" /\ \A h \in Genkits : atexit[h] # "running"
  /\ atexit' = [atexit EXCEPT ![g] = "running"]
  /\ UNCHANGED <<process, main, term, server, up, file, cleanups, frames, aborted, signals>>
SyncCleanup(g) ==
  /\ main = "exiting" /\ Free /\ atexit[g] = "running"
  /\ atexit' = [atexit EXCEPT ![g] = "done"] /\ file' = [file EXCEPT ![g] = FALSE]
  /\ UNCHANGED <<process, main, term, server, up, cleanups, frames, aborted, signals>>

\* All callbacks have run; the daemon threads are no more.
Finalize ==
  /\ main = "exiting" /\ Free /\ \A g \in Genkits : atexit[g] \notin {"set", "running"}
  /\ main' = "gone"
  /\ UNCHANGED <<process, term, server, up, file, cleanups, atexit, frames, aborted, signals>>

(* -------------------------------- the server threads -------------------------------- *)

\* ReflectionServer.startup: ready is set whether the server came up or not.
StartServer(g) ==
  /\ ~ProcessOver /\ server[g] = "starting"
  /\ Serve(g, "ready") /\ up' \in {up, up \union {g}}
  /\ UNCHANGED <<process, main, term, file, cleanups, atexit, frames, aborted, signals>>

\* Fault: the file is written as soon as the server is ready, however it is ready.
AnnouncesAny(g) == server[g] = "ready"

\* _run_server: a server that did not come up is not announced.
Announces(g) == server[g] = "ready" /\ g \in up

\* _create_and_write_runtime_file: what fails while writing ends the thread, and what it
\* has written stays, for the manager does not know the path yet.
WriteFile(g) ==
  /\ ~ProcessOver /\ Announces(g)
  /\ \E at \in {"written", "failed"}, there \in BOOLEAN :
       /\ Serve(g, at) /\ file' = [file EXCEPT ![g] = there]
       /\ at = "written" => there
  /\ UNCHANGED <<process, main, term, up, cleanups, atexit, frames, aborted, signals>>

\* _register_atexit_cleanup_handler: in time as long as no callback has run, too late
\* once the first of them, of this program or of another module, has begun.
RegisterAtexit(g) ==
  /\ ~ProcessOver /\ server[g] = "written"
  /\ Serve(g, "registering")
  /\ \/ main = "exiting" /\ atexit' = [atexit EXCEPT ![g] = "late"]
     \/ /\ \A h \in Genkits : atexit[h] \notin {"running", "done", "late"}
        /\ atexit' = [atexit EXCEPT ![g] = "set"]
  /\ UNCHANGED <<process, main, term, up, file, cleanups, frames, aborted, signals>>

\* write_runtime_file: its cleanup is known to the handler last.
RegisterCleanup(g) ==
  /\ ~ProcessOver /\ server[g] = "registering"
  /\ Serve(g, "serving") /\ cleanups' = cleanups \union {g}
  /\ UNCHANGED <<process, main, term, up, file, atexit, frames, aborted, signals>>

(* ------------------------------------ signals ------------------------------------ *)

Original(sig) == IF sig = "SIGINT" THEN process.int ELSE process.term
Handled(sig) == IF sig = "SIGINT" THEN term # "before" /\ process.onMain ELSE term = "handler"

\* What an exception raised out of a signal handler ends: the handlers it interrupted,
\* the exit callback it interrupted, or the main thread's work, unless the program
\* catches it there.
Raise ==
  /\ frames' = <<>>
  /\ \/ /\ process.catches /\ main \in {"loading", "coroutine"}
        /\ UNCHANGED <<main, term, atexit, aborted>>
     \/ /\ main' = "exiting"
        /\ aborted' = aborted \union {g \in Genkits : atexit[g] = "running"}
        /\ atexit' = [g \in Genkits |-> IF atexit[g] = "running" THEN "done" ELSE atexit[g]]
        /\ term' = IF main = "waiting" THEN "default" ELSE term

\* A signal: ignored, noted by the event loop of run_main, fatal, or a call of
\* handle_signal on the list as it is now.
Signal(sig) ==
  /\ ~ProcessOver /\ server # [g \in Genkits |-> "unmade"] /\ Len(signals) < MaxSignals
  /\ signals' = Append(signals, sig)
  /\ IF Handled(sig)
     THEN /\ frames' = IF Original(sig) = "ignore" THEN frames
                       ELSE <<[sig |-> sig, todo |-> cleanups, at |-> "none"]>> \o frames
          /\ UNCHANGED <<main, term, atexit, aborted>>
     ELSE IF sig = "SIGTERM" /\ term \in {"loop", "told"}
     THEN term' = "told" /\ UNCHANGED <<main, atexit, frames, aborted>>
     ELSE IF sig = "SIGTERM" /\ (term = "default" \/ Original(sig) = "default")
     THEN main' = "killed" /\ UNCHANGED <<term, atexit, frames, aborted>>
     ELSE IF sig = "SIGINT" /\ Original(sig) = "default"
     THEN Raise
     ELSE UNCHANGED <<main, term, atexit, frames, aborted>>
  /\ UNCHANGED <<process, server, up, file, cleanups>>

Innermost == Head(frames)
InFrame(todo, at) == frames' = <<[Innermost EXCEPT !.todo = todo, !.at = at]>> \o Tail(frames)

\* cleanup: out of the list, then off the disk.
LeaveList ==
  /\ ~ProcessOver /\ ~Free /\ Innermost.at = "none" /\ Innermost.todo # {}
  /\ \E g \in Innermost.todo : /\ cleanups' = cleanups \ {g}
                           /\ InFrame(Innermost.todo \ {g}, g)
  /\ UNCHANGED <<process, main, term, server, up, file, atexit, aborted, signals>>
RemoveFile ==
  /\ ~ProcessOver /\ ~Free /\ Innermost.at # "none"
  /\ file' = [file EXCEPT ![Innermost.at] = FALSE]
  /\ InFrame(Innermost.todo, "none")
  /\ UNCHANGED <<process, main, term, server, up, cleanups, atexit, aborted, signals>>

\* The end of handle_signal: the handler there was before raises, or comes back; where
\* there was none the process exits.
CallOriginal ==
  /\ ~ProcessOver /\ ~Free /\ Innermost.at = "none" /\ Innermost.todo = {}
  /\ \/ Original(Innermost.sig) = "default" /\ Raise
     \/ /\ Original(Innermost.sig) = "returns"
        /\ frames' = Tail(frames) /\ UNCHANGED <<main, term, atexit, aborted>>
  /\ UNCHANGED <<process, server, up, file, cleanups, signals>>

\* What goes on by itself: the threads' steps, and an exit once it has begun.
DevSystem ==
  \/ \E g \in Genkits : \/ StartServer(g) \/ WriteFile(g) \/ RegisterAtexit(g)
                        \/ RegisterCleanup(g) \/ CallAtexit(g) \/ SyncCleanup(g)
  \/ StopWaiting \/ Exit \/ Finalize \/ LeaveList \/ RemoveFile \/ CallOriginal

DevNext ==
  \/ \E g \in Genkits : Make(g)
  \/ RunMain \/ Wait \/ EndByItself
  \/ \E sig \in {"SIGINT", "SIGTERM"} : Signal(sig)
  \/ DevSystem

DevSpec == process \in Processes /\ DevInit /\ [][DevNext]_devVars

(* ---------------------------------- properties ---------------------------------- *)

\* A file announces a server that came up, and stays as long as it serves and nobody told
\* the process to stop.  A process that ends, and is not killed, leaves no file behind
\* unless its thread was between writing and registering it, or a signal cut short the
\* exit callback that removes it (_aio.py: "Both paths remove the runtime discovery files").
FilesTellWhoServes ==
  \A g \in Genkits :
    /\ file[g] => g \in up
    /\ server[g] = "serving" /\ signals = <<>> /\ main \in {"loading", "coroutine", "waiting"} => file[g]
    /\ main = "gone" /\ file[g] => atexit[g] \in {"none", "late"} \/ g \in aborted

\* A process that gets SIGTERM, had no handler for it and does not catch what the handler
\* raises, ends: whatever it was doing, and however many signals come (_aio.py, run_main;
\* _runtime.py, setup_signal_handlers).
StopsWhenTold ==
  (process.term = "default" /\ ~process.catches /\ \E k \in DOMAIN signals : signals[k] = "SIGTERM") ~> ProcessOver
=============================================================================
