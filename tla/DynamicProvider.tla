--------------------------- MODULE DynamicProvider ---------------------------
(* A DynamicActionProvider (_core/_dap.py): the actions of an external source   *)
(* behind one cache that every event loop shares, with at most one fetch in     *)
(* flight per loop.  The listing is abstracted to the version of the source it  *)
(* was read from.  Callers are the tasks of the registry; a caller's wait for   *)
(* the shared fetch is asked[t].                                                *)
EXTENDS Integers

CONSTANTS Tasks, Loops, LoopOf, None,
          MaxVersion,   \* bound: versions the external source goes through
          MaxDrops,     \* bound: calls of invalidate_cache
          Keeps         \* cache_ttl_millis >= 0: a negative lifetime never keeps

(* A fetch, and a value that is kept with whether its lifetime still runs. *)
Fetches == [pc : {"asking", "read", "tracing", "done", "failed"}, ver : Nat, traced : BOOLEAN]
Kept == [ver : Nat, fresh : BOOLEAN]

ASSUME DapConstants == /\ LoopOf \in [Tasks -> Loops]
                       /\ MaxVersion \in Nat /\ MaxDrops \in Nat
                       /\ Keeps \in BOOLEAN
                       /\ None \notin Fetches \union Kept

VARIABLES
  source,    \* version of the external source now
  cache,     \* None, or the version kept and whether its lifetime still runs
  fetch,     \* loop -> None or its fetch: pc, version read, whether it is traced
  asked,     \* task -> its _get_or_fetch: pc, version answered, version owed
  dropped    \* history: the last invalidate_cache: version then, no fetch then

dapVars == <<source, cache, fetch, asked, dropped>>

NotAsked == [pc |-> "none", ver |-> 0, owed |-> 0]

DapInit ==
  /\ source = 0 /\ cache = None
  /\ fetch = [l \in Loops |-> None]
  /\ asked = [t \in Tasks |-> NotAsked]
  /\ dropped = [ver |-> 0, quiet |-> TRUE, times |-> 0]

(* The pair is taken in one read: a value whose lifetime runs answers at once. *)
Cached == cache # None /\ Keeps /\ cache.fresh

(* _get_or_fetch: the cached value, or the loop's fetch, started when there is  *)
(* none.  A fetch that ended and is not yet forgotten answers at once.          *)
GetOrFetch(t, skipTrace) ==
  LET l == LoopOf[t]
      owed == IF dropped.quiet THEN dropped.ver ELSE 0
      Ask(pc, ver) == asked' = [asked EXCEPT ![t] =
                                  [pc |-> pc, ver |-> ver, owed |-> owed]]
  IN /\ asked[t].pc = "none"
     /\ \/ /\ Cached
           /\ Ask("got", cache.ver)
           /\ UNCHANGED fetch
        \/ /\ ~Cached /\ fetch[l] = None
           /\ fetch' = [fetch EXCEPT ![l] =
                          [pc |-> "asking", ver |-> 0, traced |-> ~skipTrace]]
           /\ Ask("waiting", 0)
        \/ /\ ~Cached /\ fetch[l] # None
           /\ Ask(CASE fetch[l].pc = "done" -> "got"
                    [] fetch[l].pc = "failed" -> "failed"
                    [] OTHER -> "waiting", fetch[l].ver)
           /\ UNCHANGED fetch
     /\ UNCHANGED <<source, cache, dropped>>

(* The shared task ends: every caller that waits on it on this loop is answered. *)
Ends(l, pc) ==
  /\ fetch' = [fetch EXCEPT ![l].pc = pc]
  /\ asked' = [t \in Tasks |->
       IF LoopOf[t] = l /\ asked[t].pc = "waiting"
         THEN [asked[t] EXCEPT !.pc = IF pc = "done" THEN "got" ELSE "failed",
                               !.ver = fetch[l].ver]
         ELSE asked[t]]

(* dap_fn reads the external source. *)
DapReads(l) ==
  /\ fetch[l] # None /\ fetch[l].pc = "asking"
  /\ fetch' = [fetch EXCEPT ![l].pc = "read", ![l].ver = source]
  /\ UNCHANGED <<source, cache, asked, dropped>>

(* _do_fetch after dap_fn: the value is kept at once, before the trace action   *)
(* runs; a fetch without a trace ends here.                                     *)
DapReturns(l) ==
  /\ fetch[l] # None /\ fetch[l].pc = "read"
  /\ cache' = [ver |-> fetch[l].ver, fresh |-> TRUE]
  /\ IF fetch[l].traced
       THEN fetch' = [fetch EXCEPT ![l].pc = "tracing"] /\ UNCHANGED asked
       ELSE Ends(l, "done")
  /\ UNCHANGED <<source, dropped>>

(* The trace action of _do_fetch ended. *)
DapTraced(l) ==
  /\ fetch[l] # None /\ fetch[l].pc = "tracing"
  /\ Ends(l, "done")
  /\ UNCHANGED <<source, cache, dropped>>

(* dap_fn or the trace action raised: _do_fetch drops the cache, whoever's       *)
(* value it holds, and the callers get the exception.                           *)
DapFails(l) ==
  /\ fetch[l] # None /\ fetch[l].pc \in {"asking", "read", "tracing"}
  /\ Ends(l, "failed")
  /\ cache' = None
  /\ UNCHANGED <<source, dropped>>

(* The done callback of _forget_fetch. *)
ForgetFetch(l) ==
  /\ fetch[l] # None /\ fetch[l].pc \in {"done", "failed"}
  /\ fetch' = [fetch EXCEPT ![l] = None]
  /\ UNCHANGED <<source, cache, asked, dropped>>

(* A caller stops waiting (cancelled, or its list timed out): the wait was       *)
(* shielded, so the fetch goes on for the others.                               *)
StopAsking(t) ==
  /\ asked' = [asked EXCEPT ![t] = NotAsked]
  /\ UNCHANGED <<source, cache, fetch, dropped>>

(* Fault: forgets the fetches and keeps the value. *)
InvalidateFetches ==
  /\ dropped.times < MaxDrops
  /\ fetch' = [l \in Loops |-> None]
  /\ dropped' = [ver |-> source, quiet |-> \A l \in Loops : fetch[l] = None,
                 times |-> dropped.times + 1]
  /\ UNCHANGED <<source, cache, asked>>

InvalidateCache ==
  /\ dropped.times < MaxDrops
  /\ cache' = None
  /\ dropped' = [ver |-> source, quiet |-> \A l \in Loops : fetch[l] = None,
                 times |-> dropped.times + 1]
  /\ UNCHANGED <<source, fetch, asked>>

(* time.time() passes the expiry kept beside the value. *)
CacheExpires ==
  /\ cache # None /\ cache.fresh
  /\ cache' = [cache EXCEPT !.fresh = FALSE]
  /\ UNCHANGED <<source, fetch, asked, dropped>>

SourceChanges ==
  /\ source < MaxVersion
  /\ source' = source + 1
  /\ UNCHANGED <<cache, fetch, asked, dropped>>

(* What happens at the provider whoever its callers are. *)
DapStep(l) == DapReads(l) \/ DapReturns(l) \/ DapTraced(l) \/ DapFails(l)
              \/ ForgetFetch(l)
DapEnvironment == InvalidateCache \/ CacheExpires \/ SourceChanges

(* What invalidate_cache promises ("Drop the cached actions so the next call    *)
(* fetches them again", _dap.py:71), as far as the code keeps it: after an       *)
(* invalidation that met no fetch in flight on any loop, no call that begins     *)
(* later is answered with a listing older than the invalidation, whichever loop *)
(* fetched it, joined it or cached it.                                          *)
InvalidationTakesEffect ==
  \A t \in Tasks : asked[t].pc = "got" => asked[t].ver >= asked[t].owed
=============================================================================
