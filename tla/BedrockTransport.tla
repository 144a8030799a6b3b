--------------------------- MODULE BedrockTransport ---------------------------
(* The calls of the Bedrock plugin: blocking SDK calls on worker threads, with a        *)
(* deadline and a caller that may be cancelled, and the configuration of the client      *)
(* that the first call builds.                                                      *)
EXTENDS Naturals, FiniteSets

CONSTANTS Settings,   \* what may be configured: [argument, session, ambient], key by key
          MaxEvents   \* bound: events of a stream

ASSUME EventsCounted == MaxEvents \in Nat

VARIABLES
  setting,  \* the configuration, and whether the plugin has a total timeout; never changes
  client,   \* configuration of the client, once it is built
  caller,   \* the generator: start, opening, reading, yielded, ended
  worker,   \* the thread of the call: idle, building, opening, next; what it brought
  stream,   \* the event stream: none, open, closed; events left in it
  late      \* the deadline passed; _close_abandoned_stream waits for the opening thread

transportVars == <<setting, client, caller, worker, stream, late>>

Unset == "unset"
Keys == {"read_timeout", "max_attempts", "retry_mode", "region"}
RetryKeys == {"max_attempts", "retry_mode"}

TransportInit ==
  /\ setting \in Settings
  /\ client = [config |-> [k \in Keys |-> Unset], built |-> 0]
  /\ caller = "start" /\ worker = [at |-> "idle", brought |-> "nothing"]
  /\ stream = [is |-> "none", left |-> 0]
  /\ late = [passed |-> FALSE, close |-> FALSE]

(* ------------------------------ configuration ------------------------------ *)

First(choices) == IF choices[1] # Unset THEN choices[1]
                  ELSE IF choices[2] # Unset THEN choices[2] ELSE choices[3]

(* _retry_config: the key is sent only where nothing but the default speaks for it, or     *)
(* the session does, or an argument.                                                 *)
RetrySent(k) ==
  First(<<setting.argument[k], setting.session[k],
          IF setting.ambient[k] = Unset THEN "default" ELSE Unset>>)

(* What botocore takes: what it is sent, else the environment or the profile. *)
Effective(k) ==
  CASE k \in RetryKeys -> First(<<RetrySent(k), setting.ambient[k], "sdk">>)
    [] k = "region" -> IF setting.ownSession THEN First(<<setting.argument[k], setting.session[k], setting.ambient[k]>>)
                       ELSE First(<<setting.argument[k], setting.ambient[k], setting.session[k]>>)
    [] OTHER -> First(<<setting.argument[k], setting.session[k], "default">>)

Config == [k \in Keys |-> Effective(k)]

(* --------------------------------- a stream --------------------------------- *)

Overdue == setting.timeout /\ late.passed

(* converse_stream: a worker builds the client, under a lock, and opens the stream. *)
BeginCall ==
  /\ caller = "start" /\ caller' = "opening"
  /\ worker' = [at |-> "opening", brought |-> "nothing"]
  /\ UNCHANGED <<setting, client, stream, late>>

WorkerOpens ==
  /\ worker.at = "opening"
  /\ client' = IF client.built = 0 /\ Config["region"] # Unset THEN [config |-> Config, built |-> 1] ELSE client
  /\ \/ /\ Config["region"] # Unset
        /\ \/ /\ \E n \in 0..MaxEvents : stream' = [is |-> "open", left |-> n]
              /\ worker' = [at |-> "idle", brought |-> "response"]
           \/ worker' = [at |-> "idle", brought |-> "error"] /\ UNCHANGED stream
     \/ /\ Config["region"] = Unset
        /\ worker' = [at |-> "idle", brought |-> "error"] /\ UNCHANGED stream
  /\ UNCHANGED <<setting, caller, late>>

(* The caller goes on with what the worker brought: reads, or raises.                   *)
GotResponse ==
  /\ caller = "opening" /\ worker.at = "idle" /\ worker.brought # "nothing"
  /\ caller' = IF worker.brought = "response" THEN "reading" ELSE "ended"
  /\ worker' = [worker EXCEPT !.brought = "nothing"]
  /\ UNCHANGED <<setting, client, stream, late>>

(* The fault of leaving the stream to the worker that opens it. *)
GiveUpAndForget ==
  /\ caller = "opening"
  /\ caller' = "ended"
  /\ UNCHANGED <<setting, client, worker, stream, late>>

(* Cancelled, or overdue, while the worker opens the stream: it cannot be stopped. *)
GiveUpOpening ==
  /\ caller = "opening"
  /\ caller' = "ended"
  /\ late' = [late EXCEPT !.close = TRUE]
  /\ UNCHANGED <<setting, client, worker, stream>>

(* _close_abandoned_stream, when the opening worker is done. *)
CloseAbandoned ==
  /\ late.close /\ worker.at = "idle"
  /\ late' = [late EXCEPT !.close = FALSE]
  /\ stream' = IF stream.is = "open" THEN [stream EXCEPT !.is = "closed"] ELSE stream
  /\ UNCHANGED <<setting, client, caller, worker>>

(* next() of the event stream on a worker: it parks there until an event, the end, an    *)
(* error, or the close of the stream.                                                *)
AskNext ==
  /\ caller = "reading" /\ worker.at = "idle" /\ worker.brought = "nothing"
  /\ worker' = [worker EXCEPT !.at = "next"]
  /\ UNCHANGED <<setting, client, caller, stream, late>>

WorkerBrings ==
  /\ worker.at = "next"
  /\ \/ /\ stream.is = "open" /\ stream.left > 0
        /\ stream' = [stream EXCEPT !.left = @ - 1]
        /\ worker' = [at |-> "idle", brought |-> "event"]
     \/ /\ stream.left = 0 \/ stream.is = "closed"
        /\ \E end \in {"done", "error"} : worker' = [at |-> "idle", brought |-> end]
        /\ UNCHANGED stream
  /\ UNCHANGED <<setting, client, caller, late>>

(* finally: the stream is closed on the loop, whatever the worker does. *)
Closed == stream' = [stream EXCEPT !.is = "closed"]

Yield ==
  /\ caller = "reading" /\ worker.brought = "event"
  /\ caller' = "yielded" /\ worker' = [worker EXCEPT !.brought = "nothing"]
  /\ UNCHANGED <<setting, client, stream, late>>

StreamEnds ==
  /\ caller = "reading" /\ worker.brought \in {"done", "error"}
  /\ caller' = "ended" /\ Closed /\ worker' = [worker EXCEPT !.brought = "nothing"]
  /\ UNCHANGED <<setting, client, late>>

(* The consumer wants the next event. *)
WantsNext ==
  /\ caller = "yielded" /\ caller' = "reading"
  /\ UNCHANGED <<setting, client, worker, stream, late>>

(* Cancelled, overdue, or closed by its consumer (aclosing) between or during events. *)
GiveUpReading ==
  /\ caller \in {"reading", "yielded"}
  /\ caller' = "ended" /\ Closed
  /\ UNCHANGED <<setting, client, worker, late>>

DeadlinePasses ==
  /\ caller # "start" /\ ~late.passed
  /\ late' = [late EXCEPT !.passed = TRUE]
  /\ UNCHANGED <<setting, client, caller, worker, stream>>

(* The deadline stops the wait for the worker; while the consumer has the event the       *)
(* generator does not run.                                                          *)
TimesOut == Overdue /\ (GiveUpOpening \/ (caller = "reading" /\ GiveUpReading))

(* A worker parked in next() comes back when the stream is closed; otherwise only the      *)
(* service brings it back.  An open ends, by the socket timeouts if by nothing else.      *)
TransportSystem ==
  \/ BeginCall \/ WorkerOpens \/ GotResponse \/ CloseAbandoned \/ AskNext \/ Yield
  \/ (stream.is = "closed" /\ WorkerBrings)
  \/ StreamEnds \/ WantsNext \/ DeadlinePasses \/ TimesOut

TransportNext == TransportSystem \/ WorkerBrings \/ GiveUpOpening \/ GiveUpReading

TransportSpec == TransportInit /\ [][TransportNext]_transportVars

(* -------------------------------- properties -------------------------------- *)

(* A call leaves nothing behind: however it ended (cancelled, overdue, closed by its       *)
(* consumer, failed), a stream that a worker opened for it is closed.                    *)
NoStreamLeaks == caller = "ended" /\ worker.at = "idle" /\ ~late.close => stream.is # "open"

(* The client is configured as the nearest of those who said something wants it, key by     *)
(* key: the plugin's argument, the session, the environment, the default.               *)
CallersSettingWins ==
  client.built = 1 => \A k \in Keys \ {"region"} :
    LET got == client.config[k]
    IN IF setting.argument[k] # Unset THEN got = setting.argument[k]
       ELSE IF setting.session[k] # Unset THEN got = setting.session[k]
       ELSE IF k \in RetryKeys /\ setting.ambient[k] # Unset THEN got = setting.ambient[k]
       ELSE got = "default"

CallsLeaveNothing == NoStreamLeaks /\ CallersSettingWins

(* With a total timeout every call ends, whatever the service does, and every thread that    *)
(* worked for a call that ended comes back.                                            *)
CallsAreReleased ==
  /\ (caller = "opening" /\ setting.timeout) ~> (caller = "ended")
  /\ (caller = "ended") ~> (worker.at = "idle")
=============================================================================
