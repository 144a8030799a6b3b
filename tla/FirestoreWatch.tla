---------------------------- MODULE FirestoreWatch ----------------------------
(***************************************************************************)
(* The status streams of FirestoreSessionStore.  Each subscription has a   *)
(* watch of its own: a listener thread of the Firestore SDK, which posts   *)
(* every status to the subscriber's event loop.  Three kinds of actors     *)
(* meet: the loops, the listener threads, and close(), which any thread    *)
(* may call and which takes no lock of a loop.                             *)
(*                                                                         *)
(* What a loop does without awaiting is cut where another thread can see   *)
(* the difference; while it does, the loop runs nothing else (Busy).       *)
(***************************************************************************)
EXTENDS Naturals, Sequences, FiniteSets

CONSTANTS
  Subscribers,   \* calls of on_snapshot_status_change for one snapshot
  Crowds,        \* who calls in a behaviour, how often the row passes a status, whether
                 \* the store is closed
  StoreLoops,    \* event loops that use the store
  SubLoop,       \* the loop of each subscriber
  Cells          \* loops of asyncio.run calls before the others, which may end with their
                 \* subscriptions open, as a cell of a notebook does

ASSUME WatchAssumption ==
  /\ SubLoop \in [Subscribers -> StoreLoops]
  /\ Crowds \subseteq [callers : SUBSET Subscribers, spare : Nat, closes : BOOLEAN]

VARIABLES
  crowd,     \* the parameters of this behaviour; never changes
  row,       \* status of the row, or none
  edition,   \* how often the row was written
  spare,     \* passing writes and repeats still to come
  shut,      \* store._closed
  closer,    \* progress of close(): the loop it is at and the step there
  bag,       \* open subscriptions of each loop
  dead,      \* loops that ended
  sub        \* the subscriptions

watchVars == <<crowd, row, edition, spare, shut, closer, bag, dead, sub>>

End == "end"           \* the None sentinel
Terminal == {"completed"}

\* at: where the caller is; watch: sub.watch is set; runs: the listener listens; closed:
\* sub.closed; stop: a thread that unsubscribes; wants: teardowns that wait for the lock;
\* posted: callbacks on the loop; heard: the edition last posted; hook: there is on_close
NewSub == [at |-> "new", watch |-> FALSE, runs |-> FALSE, closed |-> FALSE, stop |-> FALSE,
           wants |-> {}, tearing |-> "no", last |-> "none", posted |-> <<>>, heard |-> 0,
           queue |-> <<>>, got |-> <<>>, hook |-> FALSE]

WatchInit ==
  /\ row = "none" /\ edition = 0
  /\ shut = FALSE /\ bag = [l \in StoreLoops |-> {}] /\ dead = {}
  /\ spare = crowd.spare
  /\ closer = [step |-> IF crowd.closes THEN "idle" ELSE "never", loop |-> "none",
               left |-> {}, subs |-> {}]
  /\ sub = [s \in Subscribers |->
              [NewSub EXCEPT !.at = IF s \in crowd.callers THEN "new" ELSE "absent"]]

Busy(l) == \E s \in Subscribers : SubLoop[s] = l /\ sub[s].at \in {"locked", "attached", "checking"}
Locked(l) == \/ Busy(l)
             \/ \E s \in Subscribers : SubLoop[s] = l /\ (sub[s].at = "undoing" \/ sub[s].tearing # "no")
Alive(s) == SubLoop[s] \notin dead
Runs(s) == Alive(s) /\ ~Busy(SubLoop[s])

\* The watch is taken from the subscription and stopped by a thread
Taken(r) == [r EXCEPT !.watch = FALSE, !.closed = TRUE, !.stop = r.stop \/ r.watch]

\* _prune_closed_status_loops_locked: the subscriptions of loops that ended
Pruned(subs) ==
  [s \in Subscribers |->
     IF SubLoop[s] \in dead /\ s \in bag[SubLoop[s]]
     THEN [subs[s] EXCEPT !.closed = TRUE, !.watch = FALSE, !.runs = @ /\ ~subs[s].watch]
     ELSE subs[s]]
\* _status_loop_state
BagsOf(bags) == [l \in StoreLoops |-> IF l \in dead THEN {} ELSE bags[l]]

-----------------------------------------------------------------------------
(* on_snapshot_status_change *)

Ask(s) ==
  /\ sub[s].at = "new" /\ Runs(s)
  /\ \A c \in crowd.callers : SubLoop[c] \in Cells => SubLoop[c] \in dead \cup {SubLoop[s]}
  /\ sub' = [sub EXCEPT ![s].at = IF shut THEN "refused" ELSE "asked"]
  /\ UNCHANGED <<row, edition, spare, shut, closer, bag, dead>>

TakeLock(s) ==
  /\ sub[s].at = "asked" /\ Runs(s) /\ ~Locked(SubLoop[s])
  /\ sub' = IF shut THEN [sub EXCEPT ![s].at = "open", ![s].queue = <<End>>]
            ELSE [sub EXCEPT ![s].at = "locked"]
  /\ UNCHANGED <<row, edition, spare, shut, closer, bag, dead>>

\* _attach_status_watch with _ensure_sync_client: the listener runs before sub.watch is set
Attach(s) ==
  /\ sub[s].at = "locked"
  /\ IF shut THEN sub' = [Pruned(sub) EXCEPT ![s].at = "refused"] /\ bag' = BagsOf(bag)
     ELSE /\ sub' = [Pruned(sub) EXCEPT ![s].at = "attached", ![s].runs = TRUE]
          /\ bag' = BagsOf([bag EXCEPT ![SubLoop[s]] = @ \cup {s}])
  /\ UNCHANGED <<row, edition, spare, shut, closer, dead>>

Assign(s) ==
  /\ sub[s].at = "attached"
  /\ sub' = [sub EXCEPT ![s].at = "checking", ![s].watch = TRUE]
  /\ UNCHANGED <<row, edition, spare, shut, closer, bag, dead>>

\* Fault: a close that came during the attach is not looked for.
ServeUnchecked(s) ==
  /\ sub[s].at = "checking"
  /\ sub' = [sub EXCEPT ![s].at = "open", ![s].hook = TRUE]
  /\ UNCHANGED <<row, edition, spare, shut, closer, bag, dead>>

\* The second look at _closed: a close that raced the attach is undone here
Serve(s) ==
  /\ sub[s].at = "checking"
  /\ IF shut THEN /\ sub' = [sub EXCEPT ![s] = [Taken(@) EXCEPT !.at = "undoing"]]
                  /\ bag' = [bag EXCEPT ![SubLoop[s]] = @ \ {s}]
     ELSE sub' = [sub EXCEPT ![s].at = "open", ![s].hook = TRUE] /\ UNCHANGED bag
  /\ UNCHANGED <<row, edition, spare, shut, closer, dead>>

Undone(s) ==
  /\ sub[s].at = "undoing" /\ ~sub[s].stop /\ Runs(s)
  /\ sub' = [sub EXCEPT ![s].at = "open", ![s].queue = Append(@, End)]
  /\ UNCHANGED <<row, edition, spare, shut, closer, bag, dead>>

\* _unsubscribe_watch, in a thread
Unsubscribe(s) ==
  /\ sub[s].stop
  /\ sub' = [sub EXCEPT ![s].stop = FALSE, ![s].runs = FALSE]
  /\ UNCHANGED <<row, edition, spare, shut, closer, bag, dead>>

-----------------------------------------------------------------------------
(* The watch *)

\* on_snapshot, on the listener's thread; a row that is missing is not told, and a loop
\* that ended takes no callback
Hear(s) ==
  /\ sub[s].runs /\ row # "none" /\ Len(sub[s].posted) < 2
  /\ \/ sub[s].heard # edition /\ UNCHANGED spare
     \/ sub[s].heard = edition /\ spare > 0 /\ spare' = spare - 1
  /\ sub' = [sub EXCEPT ![s].heard = edition,
                        ![s].posted = IF Alive(s) THEN Append(@, row) ELSE @]
  /\ UNCHANGED <<row, edition, shut, closer, bag, dead>>

\* deliver, or the sentinel that close() posted
Delivered(r, status) ==
  IF status = End THEN [r EXCEPT !.queue = Append(@, End)]
  ELSE IF r.closed \/ r.last = status THEN r
  ELSE IF status \in Terminal
  THEN [r EXCEPT !.last = status, !.queue = @ \o <<status, End>>, !.closed = TRUE,
                 !.wants = @ \cup {"task"}]
  ELSE [r EXCEPT !.last = status, !.queue = Append(@, status)]

Deliver(s) ==
  /\ sub[s].posted # <<>> /\ Runs(s)
  /\ LET told == Delivered(sub[s], Head(sub[s].posted))
     IN  sub' = [sub EXCEPT ![s] = [told EXCEPT !.posted = Tail(@)]]
  /\ UNCHANGED <<row, edition, spare, shut, closer, bag, dead>>

-----------------------------------------------------------------------------
(* The consumer and the teardown *)

\* After the sentinel the stream closes itself
Take(s) ==
  /\ sub[s].at = "open" /\ sub[s].queue # <<>> /\ Runs(s)
  /\ LET status == Head(sub[s].queue)
         took == [sub[s] EXCEPT !.queue = Tail(@), !.got = Append(@, status)]
     IN  sub' = [sub EXCEPT ![s] =
                   IF status # End THEN took
                   ELSE IF took.hook THEN [took EXCEPT !.at = "closing", !.wants = @ \cup {"consumer"}]
                   ELSE [took EXCEPT !.at = "ended"]]
  /\ UNCHANGED <<row, edition, spare, shut, closer, bag, dead>>

\* aclose by a consumer that left its loop
Leave(s) ==
  /\ sub[s].at = "open" /\ Runs(s) /\ sub[s].hook
  /\ sub' = [sub EXCEPT ![s].at = "closing", ![s].wants = @ \cup {"consumer"}]
  /\ UNCHANGED <<row, edition, spare, shut, closer, bag, dead>>

\* _teardown_subscription, under the lock: cleanup after a terminal status, or on_close
Teardown(s, who) ==
  /\ who \in sub[s].wants /\ Runs(s) /\ ~Locked(SubLoop[s])
  /\ LET taken == Taken(Pruned(sub)[s])
     IN  sub' = [Pruned(sub) EXCEPT ![s] = [taken EXCEPT !.wants = @ \ {who}, !.tearing = who]]
  /\ bag' = BagsOf([bag EXCEPT ![SubLoop[s]] = @ \ {s}])
  /\ UNCHANGED <<row, edition, spare, shut, closer, dead>>

TornDown(s) ==
  /\ sub[s].tearing # "no" /\ ~sub[s].stop /\ Runs(s)
  /\ sub' = [sub EXCEPT ![s].tearing = "no",
                        ![s].at = IF sub[s].tearing = "consumer" THEN "ended" ELSE @]
  /\ UNCHANGED <<row, edition, spare, shut, closer, bag, dead>>

-----------------------------------------------------------------------------
(* close, from any thread; one that runs on a loop interleaves less *)

BeginClose ==
  /\ closer.step = "idle"
  /\ shut' = TRUE
  /\ closer' = [closer EXCEPT !.step = "next", !.left = {SubLoop[s] : s \in crowd.callers}]
  /\ UNCHANGED <<row, edition, spare, bag, dead, sub>>

\* The bag of a loop is emptied first
ClearBag(l) ==
  /\ closer.step = "next" /\ l \in closer.left
  /\ closer' = [step |-> "mark", loop |-> l, left |-> closer.left \ {l}, subs |-> bag[l]]
  /\ bag' = [bag EXCEPT ![l] = {}]
  /\ UNCHANGED <<row, edition, spare, shut, dead, sub>>

\* The subscriptions of it are closed and their watches stopped
MarkSubs ==
  /\ closer.step = "mark"
  /\ closer' = [closer EXCEPT !.step = "wake"]
  /\ sub' = [s \in Subscribers |-> IF s \in closer.subs THEN Taken(sub[s]) ELSE sub[s]]
  /\ UNCHANGED <<row, edition, spare, shut, bag, dead>>

\* Then the consumers are woken, through their loops
Wake ==
  /\ closer.step = "wake" /\ \A s \in closer.subs : ~sub[s].stop
  /\ closer' = [closer EXCEPT !.step = IF closer.left = {} THEN "done" ELSE "next", !.subs = {}]
  /\ sub' = [s \in Subscribers |->
               IF s \in closer.subs /\ Alive(s)
               THEN [sub[s] EXCEPT !.posted = Append(@, End)] ELSE sub[s]]
  /\ UNCHANGED <<row, edition, spare, shut, bag, dead>>

-----------------------------------------------------------------------------
(* The row, and loops that end *)

Write(status) ==
  /\ row # status /\ row # "completed"
  /\ IF status = "completed" THEN UNCHANGED spare ELSE spare > 0 /\ spare' = spare - 1
  /\ row' = status /\ edition' = edition + 1
  /\ UNCHANGED <<shut, closer, bag, dead, sub>>

LoopEnds(l) ==
  /\ l \in Cells \ dead /\ ~Busy(l) /\ \E s \in crowd.callers : SubLoop[s] = l
  /\ dead' = dead \cup {l}
  /\ UNCHANGED <<row, edition, spare, shut, closer, bag, sub>>

\* What loops, threads and the consumers do once there is something to do
WatchSystem ==
  \/ \E s \in Subscribers :
       \/ TakeLock(s) \/ Attach(s) \/ Assign(s) \/ Serve(s) \/ Undone(s) \/ Unsubscribe(s)
       \/ sub[s].heard # edition /\ Hear(s)
       \/ Deliver(s) \/ Take(s) \/ TornDown(s)
       \/ \E who \in sub[s].wants : Teardown(s, who)
  \/ \E l \in StoreLoops : ClearBag(l)
  \/ MarkSubs \/ Wake

WatchNext ==
  /\ UNCHANGED crowd
  /\ \/ WatchSystem
     \/ \E s \in Subscribers : Ask(s) \/ Leave(s) \/ Hear(s)
     \/ BeginClose
     \/ \E status \in {"none", "pending", "completed"} : Write(status)
     \/ \E l \in Cells : LoopEnds(l)

WatchSpec ==
  /\ crowd \in Crowds /\ WatchInit /\ [][WatchNext]_watchVars
  /\ WF_watchVars(WatchSystem /\ UNCHANGED crowd)

-----------------------------------------------------------------------------
(* Properties *)

\* What a subscriber may be told before its stream ends.
Tellings == {<<>>, <<"pending">>, <<"completed">>, <<"pending", "completed">>}

\* A subscriber gets each status once and in order, a terminal one last; its stream ends
\* after a terminal status or because this store was closed, never otherwise, however
\* deliveries, the teardown and close() race.
StatusesInOrder ==
  \A s \in Subscribers : \E told \in Tellings :
    \/ sub[s].got = told
    \/ /\ sub[s].got = Append(told, End)
       /\ shut \/ (told # <<>> /\ told[Len(told)] \in Terminal)

\* Once close() returned and no subscription is on its way, no listener is left, wherever
\* close() met an attach; after a terminal status its watch goes too.
NoWatchLeaks ==
  \A s \in Subscribers : sub[s].runs =>
    \/ sub[s].at \in {"attached", "checking", "undoing"} \/ sub[s].stop
    \/ closer.step # "done" /\ (s \in bag[SubLoop[s]] \/ s \in closer.subs)

WatchersHearTheRow == StatusesInOrder /\ NoWatchLeaks

\* Once the row is terminal or the store closed, nobody waits for ever: every stream that
\* was or is asked for ends.
WatchersAreTold ==
  (row \in Terminal \/ shut)
    ~> \A s \in crowd.callers : sub[s].at \in {"new", "ended", "refused"} \/ ~Alive(s)
================================================================================
