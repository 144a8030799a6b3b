---------------------------- MODULE Registry_proofs ----------------------------
(***************************************************************************)
(* Proofs about the registry, for any plugins, names, tasks and event      *)
(* loops: what the dynamic action provider answers after an invalidation,  *)
(* and that a resolution or a list misses nothing.  And about the shipped  *)
(* middleware: edits of a file, the order of a stream.                      *)
(***************************************************************************)
EXTENDS Registry, ShippedMiddleware, FiniteSetTheorems, SequenceTheorems, TLAPS

-----------------------------------------------------------------------------
(* The dynamic action provider *)

Asks == [pc : {"none", "waiting", "got", "failed"}, ver : Nat, owed : Nat]

DapTypeOK ==
  /\ source \in Nat
  /\ cache \in {None} \cup Kept
  /\ fetch \in [Loops -> {None} \cup Fetches]
  /\ asked \in [Tasks -> Asks]
  /\ dropped \in [ver : Nat, quiet : BOOLEAN, times : Nat]

\* After an invalidation that met no fetch, whatever is kept or fetched is from then on.
FetchedSince(ver) ==
  /\ ver <= source
  /\ cache # None => cache.ver >= ver
  /\ \A l \in Loops : fetch[l] # None /\ fetch[l].pc \in {"read", "tracing", "done"} => fetch[l].ver >= ver

\* A caller waits for the fetch of its loop, which pays what it owes.
WaitsForItsLoop(t) ==
  LET f == fetch[LoopOf[t]]
  IN /\ f # None /\ f.pc \in {"asking", "read", "tracing"}
     /\ IF f.pc = "asking" THEN asked[t].owed <= source ELSE asked[t].owed <= f.ver

DapInv ==
  /\ DapTypeOK
  /\ dropped.quiet => FetchedSince(dropped.ver)
  /\ \A t \in Tasks : asked[t].pc = "waiting" => WaitsForItsLoop(t)
  /\ InvalidationTakesEffect

\* A fetch is not None, nor is a value that is kept.
LEMMA FetchIsNotNone ==
  (\A f \in Fetches : f # None) /\ (\A c \in Kept : c # None)
  BY DapConstants

\* Nothing is kept, fetched or owed at the start.
LEMMA InitDap == DapInit => DapInv
  BY DEF DapInit, DapInv, DapTypeOK, FetchedSince, InvalidationTakesEffect, NotAsked, Asks

\* A call of get_action or list_actions: answered from the cache, or joined to the fetch.
LEMMA GetOrFetchStep ==
  ASSUME DapInv, NEW t \in Tasks, NEW skipTrace \in BOOLEAN, GetOrFetch(t, skipTrace)
  PROVE  DapInv'
<1> DEFINE l == LoopOf[t]
           owed == IF dropped.quiet THEN dropped.ver ELSE 0
<1>1. l \in Loops /\ owed \in Nat /\ owed <= source /\ source \in Nat /\ asked \in [Tasks -> Asks]
  BY DapConstants DEF DapInv, DapTypeOK, FetchedSince
<1>2. UNCHANGED <<source, cache, dropped>>
  BY DEF GetOrFetch
<1>3. \A k \in Loops : fetch[k] # None => fetch[k] \in Fetches
  BY DEF DapInv, DapTypeOK
<1>4. CASE Cached /\ asked' = [asked EXCEPT ![t] = [pc |-> "got", ver |-> cache.ver, owed |-> owed]] /\ fetch' = fetch
  <2>1. cache.ver \in Nat /\ cache.ver >= owed
    BY <1>4 DEF Cached, DapInv, DapTypeOK, FetchedSince, Kept
  <2>2. [pc |-> "got", ver |-> cache.ver, owed |-> owed] \in Asks
    BY <1>1, <2>1 DEF Asks
  <2>3. DapTypeOK' /\ (dropped.quiet => FetchedSince(dropped.ver))'
    BY <1>1, <1>2, <1>4, <2>2 DEF DapInv, DapTypeOK, FetchedSince
  <2>4. \A u \in Tasks : asked'[u].pc = "waiting" => asked'[u] = asked[u]
    BY <1>1, <1>4
  <2>5. \A u \in Tasks : asked'[u].pc = "got" => asked'[u].ver >= asked'[u].owed
    BY <1>1, <1>4, <2>1 DEF DapInv, InvalidationTakesEffect
  <2> QED
    BY <1>2, <1>4, <2>3, <2>4, <2>5 DEF DapInv, WaitsForItsLoop, InvalidationTakesEffect
<1>5. CASE /\ fetch[l] = None
           /\ fetch' = [fetch EXCEPT ![l] = [pc |-> "asking", ver |-> 0, traced |-> ~skipTrace]]
           /\ asked' = [asked EXCEPT ![t] = [pc |-> "waiting", ver |-> 0, owed |-> owed]]
  <2> DEFINE f == [pc |-> "asking", ver |-> 0, traced |-> ~skipTrace]
  <2>1. f \in Fetches /\ f # None /\ f.pc = "asking"
    <3>1. f \in Fetches
      BY DEF Fetches
    <3> QED
      BY <3>1, FetchIsNotNone
  <2> HIDE DEF f
  <2>2. fetch'[l] = f /\ \A k \in Loops \ {l} : fetch'[k] = fetch[k]
    BY <1>1, <1>5 DEF DapInv, DapTypeOK, f
  <2>3. asked'[t] = [pc |-> "waiting", ver |-> 0, owed |-> owed] /\ \A u \in Tasks \ {t} : asked'[u] = asked[u]
    BY <1>1, <1>5
  <2>4. DapTypeOK'
    BY <1>1, <1>2, <1>5, <2>1 DEF DapInv, DapTypeOK, Asks, f
  <2>5. (dropped.quiet => FetchedSince(dropped.ver))'
    BY <1>2, <2>1, <2>2 DEF DapInv, FetchedSince
  <2>6. \A u \in Tasks : asked'[u].pc = "waiting" => WaitsForItsLoop(u)'
    BY <1>1, <1>2, <1>5, <2>1, <2>2, <2>3 DEF DapInv, WaitsForItsLoop
  <2>7. InvalidationTakesEffect'
    BY <2>3 DEF DapInv, InvalidationTakesEffect
  <2> QED
    BY <2>4, <2>5, <2>6, <2>7 DEF DapInv
<1>6. CASE /\ fetch[l] # None /\ fetch' = fetch
           /\ asked' = [asked EXCEPT ![t] = [pc |-> CASE fetch[l].pc = "done" -> "got"
                                                      [] fetch[l].pc = "failed" -> "failed"
                                                      [] OTHER -> "waiting", ver |-> fetch[l].ver, owed |-> owed]]
  <2>1. fetch[l] \in Fetches /\ fetch[l].ver \in Nat
    BY <1>1, <1>3, <1>6 DEF Fetches
  <2>2. dropped.quiet /\ fetch[l].pc \in {"read", "tracing", "done"} => fetch[l].ver >= owed
    BY <1>1, <1>6 DEF DapInv, FetchedSince
  <2>3. ~dropped.quiet => fetch[l].ver >= owed
    BY <2>1
  <2>4. /\ asked'[t].ver = fetch[l].ver /\ asked'[t].owed = owed /\ asked'[t] \in Asks
        /\ asked'[t].pc = "got" => fetch[l].pc = "done"
        /\ asked'[t].pc = "waiting" => fetch[l].pc \in {"asking", "read", "tracing"}
        /\ \A u \in Tasks \ {t} : asked'[u] = asked[u]
    BY <1>1, <1>6, <2>1 DEF Asks, Fetches
  <2>5. DapTypeOK' /\ (dropped.quiet => FetchedSince(dropped.ver))'
    BY <1>1, <1>2, <1>6, <2>4 DEF DapInv, DapTypeOK, FetchedSince
  <2>6. \A u \in Tasks : asked'[u].pc = "waiting" => WaitsForItsLoop(u)'
    BY <1>1, <1>2, <1>6, <2>1, <2>2, <2>3, <2>4 DEF DapInv, WaitsForItsLoop
  <2>7. InvalidationTakesEffect'
    BY <2>2, <2>3, <2>4 DEF DapInv, InvalidationTakesEffect
  <2> QED
    BY <2>5, <2>6, <2>7 DEF DapInv
<1> QED
  BY <1>4, <1>5, <1>6 DEF GetOrFetch

\* A caller that stops waiting changes nothing for the others.
LEMMA StopAskingStep ==
  ASSUME DapInv, NEW t \in Tasks, StopAsking(t) PROVE DapInv'
<1>1. /\ UNCHANGED <<source, cache, fetch, dropped>>
      /\ asked \in [Tasks -> Asks] /\ asked' = [asked EXCEPT ![t] = NotAsked]
  BY DEF StopAsking, DapInv, DapTypeOK
<1>2. asked'[t] = NotAsked /\ NotAsked.pc = "none" /\ NotAsked \in Asks /\ \A u \in Tasks \ {t} : asked'[u] = asked[u]
  BY <1>1 DEF NotAsked, Asks
<1>3. DapTypeOK' /\ (dropped.quiet => FetchedSince(dropped.ver))'
  BY <1>1, <1>2 DEF DapInv, DapTypeOK, FetchedSince
<1>4. \A u \in Tasks : asked'[u].pc = "waiting" => WaitsForItsLoop(u)'
  BY <1>1, <1>2 DEF DapInv, WaitsForItsLoop
<1>5. InvalidationTakesEffect'
  BY <1>1, <1>2 DEF DapInv, InvalidationTakesEffect
<1> QED
  BY <1>3, <1>4, <1>5 DEF DapInv

\* dap_fn has read the source: what it read pays whoever waits.
LEMMA DapReadsStep ==
  ASSUME DapInv, NEW l \in Loops, DapReads(l) PROVE DapInv'
<1> DEFINE f == [fetch[l] EXCEPT !.pc = "read", !.ver = source]
<1>1. /\ UNCHANGED <<source, cache, asked, dropped>> /\ fetch[l] \in Fetches /\ fetch[l].pc = "asking"
      /\ fetch' = [fetch EXCEPT ![l] = f] /\ source \in Nat
  BY DEF DapReads, DapInv, DapTypeOK
<1>2. f \in Fetches /\ f # None /\ f.pc = "read" /\ f.ver = source
  <2>1. f \in Fetches /\ f.pc = "read" /\ f.ver = source
    BY <1>1 DEF Fetches
  <2> QED
    BY <2>1, FetchIsNotNone
<1> HIDE DEF f
<1>3. fetch'[l] = f /\ \A k \in Loops \ {l} : fetch'[k] = fetch[k]
  BY <1>1 DEF DapInv, DapTypeOK
<1>4. DapTypeOK'
  BY <1>1, <1>2 DEF DapInv, DapTypeOK
<1>5. (dropped.quiet => FetchedSince(dropped.ver))'
  BY <1>1, <1>2, <1>3 DEF DapInv, FetchedSince
<1>6. \A u \in Tasks : asked'[u].pc = "waiting" => WaitsForItsLoop(u)'
  BY <1>1, <1>2, <1>3, DapConstants DEF DapInv, WaitsForItsLoop
<1>7. InvalidationTakesEffect'
  BY <1>1 DEF DapInv, InvalidationTakesEffect
<1> QED
  BY <1>4, <1>5, <1>6, <1>7 DEF DapInv

\* The shared fetch ends, and everyone who waits for it on its loop has the answer.
LEMMA EndsStep ==
  ASSUME DapInv, NEW l \in Loops, NEW pc \in {"done", "failed"}, fetch[l] # None, Ends(l, pc),
         fetch[l].pc \in {"asking", "read", "tracing"}, pc = "done" => fetch[l].pc # "asking",
         UNCHANGED <<source, dropped>>, cache' \in {None} \cup Kept,
         cache' # None /\ dropped.quiet => cache'.ver >= dropped.ver
  PROVE  DapInv'
<1> DEFINE f == [fetch[l] EXCEPT !.pc = pc]
<1>1. /\ fetch[l] \in Fetches /\ fetch' = [fetch EXCEPT ![l] = f]
      /\ asked' = [t \in Tasks |-> IF LoopOf[t] = l /\ asked[t].pc = "waiting"
                     THEN [asked[t] EXCEPT !.pc = IF pc = "done" THEN "got" ELSE "failed", !.ver = fetch[l].ver]
                     ELSE asked[t]]
      /\ asked \in [Tasks -> Asks]
  BY DEF Ends, DapInv, DapTypeOK
<1>2. f \in Fetches /\ f.pc = pc /\ f.ver = fetch[l].ver
  BY <1>1 DEF Fetches
<1> HIDE DEF f
<1>3. fetch'[l] = f /\ \A k \in Loops \ {l} : fetch'[k] = fetch[k]
  BY <1>1 DEF DapInv, DapTypeOK
<1>4. \A t \in Tasks : \/ /\ LoopOf[t] = l /\ asked[t].pc = "waiting" /\ asked'[t] \in Asks
                          /\ asked'[t].pc = (IF pc = "done" THEN "got" ELSE "failed")
                          /\ asked'[t].ver = fetch[l].ver /\ asked'[t].owed = asked[t].owed
                       \/ asked'[t] = asked[t] /\ ~(LoopOf[t] = l /\ asked[t].pc = "waiting")
  BY <1>1 DEF Asks, Fetches
<1>5. DapTypeOK'
  <2>1. asked' \in [Tasks -> Asks]
    <3>1. \A t \in Tasks : asked'[t] \in Asks
      BY <1>1, <1>4
    <3> QED
      BY <1>1, <3>1
  <2>2. fetch' \in [Loops -> {None} \cup Fetches]
    BY <1>1, <1>2 DEF DapInv, DapTypeOK
  <2> QED
    BY <2>1, <2>2 DEF DapInv, DapTypeOK
<1>6. (dropped.quiet => FetchedSince(dropped.ver))'
  BY <1>2, <1>3 DEF DapInv, FetchedSince
<1>7. \A u \in Tasks : asked'[u].pc = "waiting" => WaitsForItsLoop(u)'
  BY <1>3, <1>4, DapConstants DEF DapInv, WaitsForItsLoop
<1>8. InvalidationTakesEffect'
  BY <1>4 DEF DapInv, WaitsForItsLoop, InvalidationTakesEffect
<1> QED
  BY <1>5, <1>6, <1>7, <1>8 DEF DapInv

\* Every step of the provider and of its surroundings.
LEMMA DapStepStep ==
  ASSUME DapInv, NEW l \in Loops, DapStep(l) PROVE DapInv'
<1>1. \A k \in Loops : fetch[k] # None => fetch[k] \in Fetches
  BY DEF DapInv, DapTypeOK
<1>2. CASE DapReads(l)
  BY <1>2, DapReadsStep
<1>3. CASE DapReturns(l)
  <2> DEFINE kept == [ver |-> fetch[l].ver, fresh |-> TRUE]
  <2>1. /\ fetch[l] # None /\ fetch[l].pc = "read" /\ UNCHANGED <<source, dropped>> /\ cache' = kept
        /\ fetch[l] \in Fetches /\ kept \in Kept
    BY <1>1, <1>3 DEF DapReturns, Fetches, Kept
  <2>2. dropped.quiet => cache'.ver >= dropped.ver
    BY <2>1 DEF DapInv, FetchedSince
  <2>3. CASE Ends(l, "done")
    BY <2>1, <2>2, <2>3, EndsStep
  <2>4. CASE fetch' = [fetch EXCEPT ![l].pc = "tracing"] /\ UNCHANGED asked
    <3> DEFINE f == [fetch[l] EXCEPT !.pc = "tracing"]
    <3>1. f \in Fetches /\ f # None /\ f.pc = "tracing" /\ f.ver = fetch[l].ver
      <4>1. f \in Fetches /\ f.pc = "tracing" /\ f.ver = fetch[l].ver
        BY <2>1 DEF Fetches
      <4> QED
        BY <4>1, FetchIsNotNone
    <3> HIDE DEF f
    <3>2. fetch' = [fetch EXCEPT ![l] = f]
      BY <2>4 DEF f
    <3>3. fetch'[l] = f /\ \A k \in Loops \ {l} : fetch'[k] = fetch[k]
      BY <3>2 DEF DapInv, DapTypeOK
    <3>4. DapTypeOK'
      BY <2>1, <2>4, <3>1, <3>2 DEF DapInv, DapTypeOK
    <3>5. (dropped.quiet => FetchedSince(dropped.ver))'
      BY <2>1, <2>2, <3>1, <3>3 DEF DapInv, FetchedSince
    <3>6. \A u \in Tasks : asked'[u].pc = "waiting" => WaitsForItsLoop(u)'
      BY <2>1, <2>4, <3>1, <3>3, DapConstants DEF DapInv, WaitsForItsLoop
    <3>7. InvalidationTakesEffect'
      BY <2>4 DEF DapInv, InvalidationTakesEffect
    <3> QED
      BY <3>4, <3>5, <3>6, <3>7 DEF DapInv
  <2> QED
    BY <1>3, <2>3, <2>4 DEF DapReturns
<1>4. CASE DapTraced(l)
  <2>1. /\ fetch[l] # None /\ fetch[l].pc = "tracing" /\ Ends(l, "done") /\ UNCHANGED <<source, dropped, cache>>
    BY <1>4 DEF DapTraced
  <2>2. cache' \in {None} \cup Kept /\ (cache' # None /\ dropped.quiet => cache'.ver >= dropped.ver)
    BY <2>1 DEF DapInv, DapTypeOK, FetchedSince
  <2> QED
    BY <2>1, <2>2, EndsStep
<1>5. CASE DapFails(l)
  BY <1>5, EndsStep DEF DapFails
<1>6. CASE ForgetFetch(l)
  <2>1. /\ fetch[l] # None /\ fetch[l].pc \in {"done", "failed"} /\ fetch' = [fetch EXCEPT ![l] = None]
        /\ UNCHANGED <<source, cache, asked, dropped>> /\ fetch \in [Loops -> {None} \cup Fetches]
    BY <1>6 DEF ForgetFetch, DapInv, DapTypeOK
  <2>2. fetch'[l] = None /\ \A k \in Loops \ {l} : fetch'[k] = fetch[k]
    BY <2>1
  <2>3. DapTypeOK' /\ (dropped.quiet => FetchedSince(dropped.ver))' /\ InvalidationTakesEffect'
    BY <2>1, <2>2 DEF DapInv, DapTypeOK, FetchedSince, InvalidationTakesEffect
  <2>4. \A u \in Tasks : asked'[u].pc = "waiting" => WaitsForItsLoop(u)'
    BY <2>1, <2>2, DapConstants DEF DapInv, WaitsForItsLoop
  <2> QED
    BY <2>3, <2>4 DEF DapInv
<1> QED
  BY <1>2, <1>3, <1>4, <1>5, <1>6 DEF DapStep

\* The cache is dropped or expires, the source moves on.
LEMMA DapEnvironmentStep ==
  ASSUME DapInv, DapEnvironment PROVE DapInv'
<1>1. CASE InvalidateCache
  BY <1>1 DEF InvalidateCache, DapInv, DapTypeOK, FetchedSince, WaitsForItsLoop, InvalidationTakesEffect
<1>2. CASE CacheExpires
  <2> DEFINE kept == [cache EXCEPT !.fresh = FALSE]
  <2>1. /\ cache # None /\ cache \in Kept /\ cache' = kept /\ UNCHANGED <<source, fetch, asked, dropped>>
    BY <1>2 DEF CacheExpires, DapInv, DapTypeOK
  <2>2. kept \in Kept /\ kept.ver = cache.ver
    BY <2>1 DEF Kept
  <2> HIDE DEF kept
  <2> QED
    BY <2>1, <2>2 DEF DapInv, DapTypeOK, FetchedSince, WaitsForItsLoop, InvalidationTakesEffect
<1>3. CASE SourceChanges
  <2>1. source' = source + 1 /\ source \in Nat /\ UNCHANGED <<cache, fetch, asked, dropped>>
    BY <1>3 DEF SourceChanges, DapInv, DapTypeOK
  <2>2. DapTypeOK' /\ (dropped.quiet => FetchedSince(dropped.ver))' /\ InvalidationTakesEffect'
    BY <2>1 DEF DapInv, DapTypeOK, FetchedSince, InvalidationTakesEffect
  <2>3. \A u \in Tasks : asked'[u].pc = "waiting" => WaitsForItsLoop(u)'
    BY <2>1 DEF DapInv, DapTypeOK, Asks, WaitsForItsLoop
  <2> QED
    BY <2>2, <2>3 DEF DapInv
<1> QED
  BY <1>1, <1>2, <1>3 DEF DapEnvironment

\* The calls of the registry touch the provider only to ask it and to stop asking.
LEMMA NextDap == DapInv /\ [RegistryNext]_registryVars => DapInv'
<1> SUFFICES ASSUME DapInv, [RegistryNext]_registryVars PROVE DapInv'
  OBVIOUS
<1>1. CASE UNCHANGED dapVars
  BY <1>1 DEF dapVars, DapInv, DapTypeOK, FetchedSince, WaitsForItsLoop, InvalidationTakesEffect
<1>2. CASE Provider
  BY <1>2, DapStepStep, DapEnvironmentStep DEF Provider
<1>3. CASE \E t \in Tasks : AskDap(t)
  BY <1>3, GetOrFetchStep DEF AskDap
<1>4. CASE \E t \in Tasks : DapAnswers(t) \/ DapListed(t) \/ CancelCall(t)
  BY <1>1, <1>4, StopAskingStep, SMTT(30) DEF DapAnswers, DapListed, CancelCall
<1>5. ASSUME NEW t \in Tasks, TaskStep(t), ~AskDap(t), ~DapAnswers(t), ~DapListed(t) PROVE UNCHANGED dapVars
  BY <1>5 DEF TaskStep, Lookup, Loaded, Ensure, AwaitInit, Recheck, PluginResolve, RegisterResolved,
     ListInit,
     ListEnsure, ListReady, ListEntries, ListLoaded, ListedEntries, Block
<1>6. ASSUME \/ \E l \in Loops, p \in Plugins : InitEnds(l, p)
             \/ \E t \in Tasks : Begin(t, plan[t])
             \/ \E p \in Plugins : RegisterPlugin(p)
      PROVE  UNCHANGED dapVars
  BY <1>6 DEF InitEnds, Begin, RegisterPlugin
<1>7. UNCHANGED registryVars => UNCHANGED dapVars
  BY DEF registryVars
<1> QED
  BY <1>1, <1>2, <1>3, <1>4, <1>5, <1>6, <1>7 DEF RegistryNext, Scheduled

\* InvalidationTakesEffect for any number of loops, callers, versions and invalidations:
\* what a call of the provider answers is never older than the last invalidate_cache
\* that met no fetch.
THEOREM InvalidationTakesEffectHolds == RegistrySpec => []InvalidationTakesEffect
<1>1. RegistryInit => DapInv
  BY InitDap DEF RegistryInit
<1>2. DapInv => InvalidationTakesEffect
  BY DEF DapInv
<1> QED
  BY <1>1, <1>2, NextDap, PTL DEF RegistrySpec

-----------------------------------------------------------------------------
(* Resolutions and lists *)

NameSet == Names \cup {NoCall.name}
ResolvePcs == {"lookup", "loading", "ensure", "recheck", "pluginResolve", "register", "askDap", "asking"}
ListPcs == {"listInit", "listEnsure", "listReady", "listEntries", "listLoading", "listed", "listDap", "listing"}
CallRecords == [pc : ResolvePcs \cup ListPcs \cup {"idle", "awaitInit", "end"}, op : {"resolve", "list"},
                name : NameSet, reg : Regs, plugin : Plugins \cup {None}, left : SUBSET (Plugins \cup NameSet),
                count : Nat, rows : SUBSET (NameSet \cup DapNames), owed : SUBSET NameSet,
                ans : {"none", "missing", "found", "error", "cancelled", "dropped"}]

RegTypeOK ==
  /\ entries \in [Regs -> SUBSET NameSet]
  /\ plugins \in SUBSET Plugins
  /\ init \in [Loops -> [Plugins -> {"none", "running", "done", "failed", "cancelled"}]]
  /\ ready \in [Loops -> BOOLEAN]
  /\ call \in [Tasks -> CallRecords]
  /\ plan \in Plans

Begun(l) == {p \in Plugins : init[l][p] # "none"}
Done(l) == {p \in Plugins : init[l][p] = "done"}

\* What a call owes is in its rows, in S, or comes with the init() of a plugin of P.
Covers(c, S, P) == \A n \in c.owed : n \in c.rows \/ n \in S \/ \E p \in P : n \in InitGives[p]

\* A resolution: where the name is to be found, if it is owed, as the call goes from the
\* child to the root, to the plugin of the name, and to what that plugin resolves.
ResolveOK(c, root, child, plugs) ==
  c.op = "resolve" =>
    /\ c.pc \in {"ensure", "awaitInit", "recheck", "pluginResolve"} => c.reg = "root"
    /\ c.pc \in {"ensure", "awaitInit"} => PluginOf[c.name] \in plugs
    /\ c.pc = "awaitInit" => c.plugin = PluginOf[c.name]
    /\ c.pc \in {"lookup", "ensure", "awaitInit"} /\ c.name \in c.owed =>
         \/ c.name \in root
         \/ c.reg = "child" /\ c.name \in child
         \/ \E p \in plugs : c.name \in InitGives[p] \cup Resolvable[p]
    /\ c.pc = "recheck" /\ c.name \in c.owed => c.name \in root \cup Resolvable[PluginOf[c.name]]
    /\ c.pc = "pluginResolve" /\ c.name \in c.owed => c.name \in Resolvable[PluginOf[c.name]]

\* The plugins P that the list found: those that are not left have given their actions.
Working(c, done, root, plugs) ==
  \E P \in SUBSET plugs :
    /\ c.count = Cardinality(P) /\ c.left \subseteq P /\ P \ c.left \subseteq done
    /\ Covers(c, root, P)

\* A list: what is owed and not yet among the rows, as the call goes from the child to
\* the root, through the plugins and over the entries.
ListOK(c, done, root, child, plugs) ==
  c.op = "list" =>
    /\ c.pc \in {"listInit", "listEntries"} /\ c.reg = "child" => Covers(c, root \cup child, plugs)
    /\ c.pc \in {"listLoading", "listed"} /\ c.reg = "child" => Covers(c, root, plugs)
    /\ c.pc = "listInit" /\ c.reg = "root" => Covers(c, root, plugs)
    /\ c.pc \in {"listEnsure", "awaitInit", "listReady"} => c.reg = "root" /\ Working(c, done, root, plugs)
    /\ c.pc = "awaitInit" => c.plugin \in c.left
    /\ c.pc = "listReady" => c.left = {}
    /\ c.pc = "listEntries" /\ c.reg = "root" => Covers(c, root, {})
    /\ c.pc \in {"listLoading", "listed"} /\ c.reg = "root" => Covers(c, {}, {})
    /\ c.pc \in {"listDap", "listing"} => Covers(c, {}, {})

Answered(c) ==
  /\ c.ans = "missing" => c.name \notin c.owed
  /\ c.ans = "found" /\ c.op = "list" => c.owed \subseteq c.rows

CallOK(c, begun, done, root, child, plugs) ==
  /\ c.pc \in ResolvePcs => c.op = "resolve"
  /\ c.pc \in ListPcs => c.op = "list"
  /\ c.pc = "awaitInit" => c.plugin \in begun
  /\ ResolveOK(c, root, child, plugs)
  /\ ListOK(c, done, root, child, plugs)
  /\ Answered(c)

CallsOK == \A t \in Tasks : CallOK(call[t], Begun(LoopOf[t]), Done(LoopOf[t]), entries["root"],
                                   entries["child"], plugins)

RegInv ==
  /\ RegTypeOK /\ CallsOK
  /\ \A l \in Loops : \A p \in Done(l) : InitGives[p] \subseteq entries["root"]
  /\ \A l \in Loops : ready[l] => plugins \subseteq Done(l)

\* Nothing is unregistered, and no init() is undone.
Grows ==
  /\ entries["root"] \subseteq entries'["root"] /\ entries'["child"] = entries["child"]
  /\ plugins \subseteq plugins'
  /\ \A l \in Loops : Begun(l) \subseteq Begun(l)' /\ Done(l) \subseteq Done(l)'

OkNow(c, t) == CallOK(c, Begun(LoopOf[t]), Done(LoopOf[t]), entries["root"], entries["child"], plugins)

\* The same of the registry that the step makes.
OkNext(c, t) == CallOK(c, Begun(LoopOf[t])', Done(LoopOf[t])', entries'["root"], entries'["child"], plugins')

\* What was true of a call stays true while the registry grows.
LEMMA Stable ==
  ASSUME NEW c, NEW b, NEW b2, NEW d, NEW d2, NEW r, NEW r2, NEW k, NEW p, NEW p2,
         b \subseteq b2, d \subseteq d2, r \subseteq r2, p \subseteq p2, CallOK(c, b, d, r, k, p)
  PROVE  CallOK(c, b2, d2, r2, k, p2)
<1>1. ResolveOK(c, r2, k, p2)
  BY DEF CallOK, ResolveOK
<1>2. \A S, S2, P, P2 : S \subseteq S2 /\ P \subseteq P2 /\ Covers(c, S, P) => Covers(c, S2, P2)
  BY DEF Covers
<1>3. Working(c, d, r, p) => Working(c, d2, r2, p2)
  <2> SUFFICES ASSUME Working(c, d, r, p) PROVE Working(c, d2, r2, p2)
    OBVIOUS
  <2>1. PICK P \in SUBSET p : c.count = Cardinality(P) /\ c.left \subseteq P /\ P \ c.left \subseteq d /\ Covers(c, r, P)
    BY DEF Working
  <2>2. Covers(c, r2, P) /\ P \in SUBSET p2 /\ P \ c.left \subseteq d2
    BY <1>2, <2>1
  <2> QED
    BY <2>1, <2>2 DEF Working
<1>4. ListOK(c, d2, r2, k, p2)
  <2>1. r \cup k \subseteq r2 \cup k
    OBVIOUS
  <2>2. (Covers(c, r \cup k, p) => Covers(c, r2 \cup k, p2)) /\ (Covers(c, r, p) => Covers(c, r2, p2))
        /\ (Covers(c, r, {}) => Covers(c, r2, {}))
    BY <1>2, <2>1
  <2> QED
    BY <1>3, <2>2 DEF CallOK, ListOK
<1> QED
  BY <1>1, <1>4 DEF CallOK

\* A call that does not move.
LEMMA OthersStay ==
  ASSUME RegInv, Grows, NEW t \in Tasks, NEW c, OkNow(c, t)
  PROVE  OkNext(c, t)
<1>1. LoopOf[t] \in Loops
  BY DapConstants
<1>2. Begun(LoopOf[t]) \subseteq Begun(LoopOf[t])' /\ Done(LoopOf[t]) \subseteq Done(LoopOf[t])'
  BY <1>1 DEF Grows
<1> QED
  BY <1>2, Stable DEF Grows, OkNow, OkNext

\* A step of task t that leaves the other calls alone: what remains to be shown.
LEMMA OneCall ==
  ASSUME RegInv, Grows, NEW t \in Tasks, NEW c \in CallRecords, call' = [call EXCEPT ![t] = c],
         OkNow(c, t) \/ OkNext(c, t)
  PROVE  call' \in [Tasks -> CallRecords] /\ CallsOK'
<1>1. call \in [Tasks -> CallRecords]
  BY DEF RegInv, RegTypeOK
<1>2. call'[t] = c /\ \A u \in Tasks \ {t} : call'[u] = call[u]
  BY <1>1
<1>3. \A u \in Tasks : OkNow(call[u], u)
  BY DEF RegInv, CallsOK, OkNow
<1>4. \A u \in Tasks : OkNext(call'[u], u)
  BY <1>2, <1>3, OthersStay
<1> QED
  BY <1>1, <1>4 DEF CallsOK, OkNext

\* An answer that is right for what the call owes.
LEMMA AnswerOK ==
  ASSUME NEW t \in Tasks, NEW c \in CallRecords, OkNow(c, t),
         NEW ans \in {"missing", "found", "error", "cancelled", "dropped"},
         ans = "missing" => c.name \notin c.owed,
         ans = "found" => c.op = "resolve" \/ c.owed \subseteq c.rows
  PROVE  [c EXCEPT !.pc = "end", !.ans = ans] \in CallRecords /\ OkNow([c EXCEPT !.pc = "end", !.ans = ans], t)
<1> DEFINE d == [c EXCEPT !.pc = "end", !.ans = ans]
<1>1. d \in CallRecords /\ d.pc = "end" /\ d.op = c.op /\ d.name = c.name /\ d.rows = c.rows /\ d.owed = c.owed
      /\ d.ans = ans
  BY DEF CallRecords
<1> HIDE DEF d
<1>2. Answered(d)
  BY <1>1 DEF Answered
<1>3. d.pc \notin ResolvePcs /\ d.pc \notin ListPcs
  BY <1>1 DEF ResolvePcs, ListPcs
<1>4. OkNow(d, t)
  BY <1>1, <1>2, <1>3 DEF OkNow, CallOK, ResolveOK, ListOK
<1> QED
  BY <1>1, <1>4 DEF d

\* A step that moves the calls and leaves the registry alone.
LEMMA QuietStep ==
  ASSUME RegInv, NEW t \in Tasks, NEW c \in CallRecords, call' = [call EXCEPT ![t] = c], OkNow(c, t),
         UNCHANGED <<entries, plugins, init, ready, plan>>
  PROVE  RegInv'
<1>1. Grows
  BY DEF Grows, Begun, Done
<1>2. call' \in [Tasks -> CallRecords] /\ CallsOK'
  BY <1>1, OneCall
<1>3. RegTypeOK'
  BY <1>2, SMTT(30) DEF RegInv, RegTypeOK
<1> QED
  BY <1>2, <1>3 DEF RegInv, Done

\* An answer, in a step that leaves the registry alone.
LEMMA AnswerStep ==
  ASSUME RegInv, NEW t \in Tasks, NEW ans \in {"missing", "found", "error", "cancelled", "dropped"}, Answers(t, ans),
         ans = "missing" => call[t].name \notin call[t].owed,
         ans = "found" => call[t].op = "resolve" \/ call[t].owed \subseteq call[t].rows,
         UNCHANGED <<entries, plugins, init, ready, plan>>
  PROVE  RegInv'
<1>1. call[t] \in CallRecords /\ OkNow(call[t], t)
  BY DEF RegInv, RegTypeOK, CallsOK, OkNow
<1>2. call' = [call EXCEPT ![t] = [call[t] EXCEPT !.pc = "end", !.ans = ans]]
  BY DEF Answers
<1> QED
  BY <1>1, <1>2, AnswerOK, QuietStep

\* The chain ends: the parent, or the answer None, when nobody known can give the name.
LEMMA FallbackStep ==
  ASSUME RegInv, NEW t \in Tasks, Fallback(t), call[t].op = "resolve",
         call[t].reg = "root" => call[t].name \notin call[t].owed,
         call[t].reg = "child" /\ call[t].name \in call[t].owed =>
            call[t].name \in entries["root"] \/ \E p \in plugins : call[t].name \in InitGives[p] \cup Resolvable[p],
         UNCHANGED <<entries, plugins, init, ready, plan>>
  PROVE  RegInv'
<1>1. call[t] \in CallRecords /\ OkNow(call[t], t) /\ call[t].reg \in Regs
  BY DEF RegInv, RegTypeOK, CallsOK, OkNow, CallRecords
<1>2. CASE call[t].reg # "child"
  <2>1. Answers(t, "missing") /\ call[t].reg = "root"
    BY <1>1, <1>2 DEF Fallback, Regs
  <2> QED
    BY <2>1, AnswerStep
<1>3. CASE call[t].reg = "child"
  <2> DEFINE c == call[t]
             d == [c EXCEPT !.pc = "lookup", !.reg = "root"]
  <2>1. call' = [call EXCEPT ![t] = d]
    BY <1>3 DEF Fallback
  <2>2. d \in CallRecords /\ d.pc = "lookup" /\ d.reg = "root" /\ d.op = "resolve" /\ d.name = c.name /\ d.owed = c.owed
        /\ d.rows = c.rows /\ d.ans = c.ans
    BY <1>1 DEF CallRecords, Regs, ResolvePcs
  <2> HIDE DEF d
  <2>3. Answered(d)
    BY <1>1, <2>2 DEF OkNow, CallOK, Answered
  <2>4. OkNow(d, t)
    BY <1>3, <2>2, <2>3 DEF OkNow, CallOK, ResolveOK, ListOK, ListPcs
  <2> QED
    BY <2>1, <2>2, <2>4, QuietStep
<1> QED
  BY <1>2, <1>3

\* A hit: found, or waiting for the factory of the prompt.
LEMMA HitStep ==
  ASSUME RegInv, NEW t \in Tasks, Hit(t), call[t].op = "resolve", UNCHANGED <<entries, plugins, init, ready, plan>>
  PROVE  RegInv'
<1>1. call[t] \in CallRecords /\ OkNow(call[t], t)
  BY DEF RegInv, RegTypeOK, CallsOK, OkNow
<1>2. CASE Answers(t, "found")
  BY <1>2, AnswerStep
<1>3. CASE Goes(t, "loading")
  <2> DEFINE d == [call[t] EXCEPT !.pc = "loading"]
  <2>1. call' = [call EXCEPT ![t] = d]
    BY <1>3 DEF Goes
  <2>2. d \in CallRecords /\ d.pc = "loading" /\ d.op = "resolve" /\ d.name = call[t].name /\ d.owed = call[t].owed
        /\ d.rows = call[t].rows /\ d.ans = call[t].ans
    BY <1>1 DEF CallRecords, ResolvePcs
  <2> HIDE DEF d
  <2>3. OkNow(d, t)
    BY <1>1, <2>2 DEF OkNow, CallOK, ResolveOK, ListOK, Answered, ListPcs
  <2> QED
    BY <2>1, <2>2, <2>3, QuietStep
<1> QED
  BY <1>2, <1>3 DEF Hit

\* The exact name, a provider's name, a plugin's name, the parent.
LEMMA LookupStep ==
  ASSUME RegInv, NEW t \in Tasks, Lookup(t), UNCHANGED plan PROVE RegInv'
<1> DEFINE c == call[t]
<1>1. /\ c \in CallRecords /\ OkNow(c, t) /\ c.pc = "lookup" /\ c.op = "resolve" /\ c.reg \in Regs
      /\ UNCHANGED <<entries, plugins, init, ready, plan>>
  BY DEF RegInv, RegTypeOK, CallsOK, OkNow, CallOK, CallRecords, Lookup, ResolvePcs
<1>2. CASE c.name \in entries[c.reg]
  BY <1>1, <1>2, HitStep DEF Lookup
<1>3. ASSUME c.name \notin entries[c.reg], c.name \in c.owed
      PROVE  \/ c.reg = "child" /\ c.name \in entries["root"]
             \/ \E p \in plugins : c.name \in InitGives[p] \cup Resolvable[p]
  BY <1>1, <1>3 DEF OkNow, CallOK, ResolveOK, Regs
<1>4. ASSUME NEW p \in plugins, c.name \in InitGives[p] \cup Resolvable[p] PROVE PluginOf[c.name] \in plugins
  BY <1>4, NamesAreNamespaced DEF RegInv, RegTypeOK
<1>5. CASE Fallback(t) /\ c.name \notin entries[c.reg] /\ (c.reg = "child" \/ PluginOf[c.name] \notin plugins)
  BY <1>1, <1>3, <1>4, <1>5, FallbackStep
<1>6. CASE Goes(t, "askDap") /\ c.name \notin entries[c.reg]
  <2> DEFINE d == [c EXCEPT !.pc = "askDap"]
  <2>1. call' = [call EXCEPT ![t] = d]
    BY <1>6 DEF Goes
  <2>2. d \in CallRecords /\ d.pc = "askDap" /\ d.op = "resolve" /\ d.name = c.name /\ d.owed = c.owed
        /\ d.rows = c.rows /\ d.ans = c.ans
    BY <1>1 DEF CallRecords, ResolvePcs
  <2> HIDE DEF d
  <2>3. OkNow(d, t)
    BY <1>1, <2>2 DEF OkNow, CallOK, ResolveOK, ListOK, Answered, ListPcs
  <2> QED
    BY <1>1, <2>1, <2>2, <2>3, QuietStep
<1>7. CASE c.reg = "root" /\ PluginOf[c.name] \in plugins /\ Goes(t, "ensure") /\ c.name \notin entries[c.reg]
  <2> DEFINE d == [c EXCEPT !.pc = "ensure"]
  <2>1. call' = [call EXCEPT ![t] = d]
    BY <1>7 DEF Goes
  <2>2. d \in CallRecords /\ d.pc = "ensure" /\ d.op = "resolve" /\ d.name = c.name /\ d.owed = c.owed
        /\ d.rows = c.rows /\ d.ans = c.ans /\ d.reg = "root"
    BY <1>1, <1>7 DEF CallRecords, ResolvePcs
  <2> HIDE DEF d
  <2>3. OkNow(d, t)
    BY <1>1, <1>3, <1>7, <2>2 DEF OkNow, CallOK, ResolveOK, ListOK, Answered, ListPcs
  <2> QED
    BY <1>1, <2>1, <2>2, <2>3, QuietStep
<1>8. CASE c.name \notin entries[c.reg]
  BY <1>1, <1>5, <1>6, <1>7, <1>8 DEF Lookup, Regs
<1> QED
  BY <1>2, <1>8

\* The factory of the prompt is done.
LEMMA LoadedStep ==
  ASSUME RegInv, NEW t \in Tasks, Loaded(t), UNCHANGED plan PROVE RegInv'
<1>1. call[t].op = "resolve"
  BY DEF RegInv, CallsOK, CallOK, Loaded, ResolvePcs
<1> QED
  BY <1>1, AnswerStep DEF Loaded

\* The state of init tasks after _ensure_plugin_initialized of p on loop l.
LEMMA EnsuredFacts ==
  ASSUME RegInv, NEW l \in Loops, NEW p \in Plugins, init' = Ensured(l, p), UNCHANGED <<entries, plugins, ready, plan>>
  PROVE  /\ Grows /\ p \in Begun(l)'
         /\ init' \in [Loops -> [Plugins -> {"none", "running", "done", "failed", "cancelled"}]]
         /\ \A k \in Loops : Done(k)' = Done(k)
<1>1. init \in [Loops -> [Plugins -> {"none", "running", "done", "failed", "cancelled"}]]
  BY DEF RegInv, RegTypeOK
<1>2. CASE init[l][p] # "none"
  BY <1>1, <1>2 DEF Ensured, Grows, Begun, Done
<1>3. CASE init[l][p] = "none"
  <2>1. init' = [init EXCEPT ![l][p] = "running"]
    BY <1>3 DEF Ensured
  <2>2. init' \in [Loops -> [Plugins -> {"none", "running", "done", "failed", "cancelled"}]]
    BY <1>1, <2>1
  <2>3. \A k \in Loops, q \in Plugins : init'[k][q] = IF k = l /\ q = p THEN "running" ELSE init[k][q]
    BY <1>1, <2>1
  <2> QED
    BY <1>3, <2>2, <2>3 DEF Grows, Begun, Done
<1> QED
  BY <1>2, <1>3

\* A step that starts the init() of a plugin and goes on to await it.
LEMMA EnsureKeeps ==
  ASSUME RegInv, NEW t \in Tasks, NEW p \in Plugins, NEW c \in CallRecords, call' = [call EXCEPT ![t] = c],
         init' = Ensured(LoopOf[t], p), UNCHANGED <<entries, plugins, ready, plan>>, OkNext(c, t)
  PROVE  RegInv'
<1>1. LoopOf[t] \in Loops
  BY DapConstants
<1>2. /\ Grows /\ init' \in [Loops -> [Plugins -> {"none", "running", "done", "failed", "cancelled"}]]
      /\ \A k \in Loops : Done(k)' = Done(k)
  BY <1>1, EnsuredFacts
<1>3. call' \in [Tasks -> CallRecords] /\ CallsOK'
  BY <1>2, OneCall
<1> QED
  BY <1>2, <1>3 DEF RegInv, RegTypeOK

\* A resolution awaits the init() of the plugin of its name.
LEMMA EnsureStep ==
  ASSUME RegInv, NEW t \in Tasks, Ensure(t), UNCHANGED plan PROVE RegInv'
<1> DEFINE c == call[t]
           p == PluginOf[c.name]
           d == [c EXCEPT !.pc = "awaitInit", !.plugin = p]
<1>1. c \in CallRecords /\ OkNow(c, t) /\ c.pc = "ensure" /\ c.op = "resolve" /\ LoopOf[t] \in Loops /\ p \in Plugins
  BY DapConstants DEF RegInv, RegTypeOK, CallsOK, OkNow, CallOK, ResolveOK, Ensure, ResolvePcs
<1>2. /\ call' = [call EXCEPT ![t] = d] /\ init' = Ensured(LoopOf[t], p)
      /\ UNCHANGED <<entries, plugins, ready, plan>>
  BY DEF Ensure
<1>3. d \in CallRecords /\ d.pc = "awaitInit" /\ d.op = "resolve" /\ d.name = c.name /\ d.owed = c.owed
      /\ d.rows = c.rows /\ d.ans = c.ans /\ d.reg = c.reg /\ d.plugin = p
  BY <1>1 DEF CallRecords
<1> HIDE DEF d
<1>4. p \in Begun(LoopOf[t])' /\ p = PluginOf[c.name]
  BY <1>1, <1>2, EnsuredFacts
<1> HIDE DEF p
<1>5. OkNext(d, t)
  BY <1>1, <1>2, <1>3, <1>4 DEF OkNow, OkNext, CallOK, ResolveOK, ListOK, Answered, ListPcs, ResolvePcs
<1> QED
  BY <1>1, <1>2, <1>3, <1>5, EnsureKeeps

\* A list awaits the init() of one of the plugins left.
LEMMA ListEnsureStep ==
  ASSUME RegInv, NEW t \in Tasks, NEW p \in Plugins, ListEnsure(t, p), UNCHANGED plan PROVE RegInv'
<1> DEFINE c == call[t]
           d == [c EXCEPT !.pc = "awaitInit", !.plugin = p]
<1>1. c \in CallRecords /\ OkNow(c, t) /\ c.pc = "listEnsure" /\ c.op = "list" /\ LoopOf[t] \in Loops /\ p \in c.left
  BY DapConstants DEF RegInv, RegTypeOK, CallsOK, OkNow, CallOK, ListEnsure, ListPcs
<1>2. /\ call' = [call EXCEPT ![t] = d] /\ init' = Ensured(LoopOf[t], p)
      /\ UNCHANGED <<entries, plugins, ready, plan>>
  BY DEF ListEnsure
<1>3. d \in CallRecords /\ d.pc = "awaitInit" /\ d.op = "list" /\ d.name = c.name /\ d.owed = c.owed
      /\ d.rows = c.rows /\ d.ans = c.ans /\ d.reg = c.reg /\ d.plugin = p /\ d.left = c.left /\ d.count = c.count
  BY <1>1 DEF CallRecords
<1> HIDE DEF d
<1>4. p \in Begun(LoopOf[t])' /\ Done(LoopOf[t])' = Done(LoopOf[t])
  BY <1>1, <1>2, EnsuredFacts
<1>5. c.reg = "root" /\ Working(c, Done(LoopOf[t]), entries["root"], plugins)
  BY <1>1 DEF OkNow, CallOK, ListOK
<1>6. Working(d, Done(LoopOf[t])', entries'["root"], plugins')
  BY <1>2, <1>3, <1>4, <1>5 DEF Working, Covers
<1>7. OkNext(d, t)
  BY <1>1, <1>3, <1>4, <1>5, <1>6 DEF OkNow, OkNext, CallOK, ResolveOK, ListOK, Answered, ListPcs,
     ResolvePcs
<1> QED
  BY <1>1, <1>2, <1>3, <1>7, EnsureKeeps

\* init() returned its actions, or raised.
LEMMA InitEndsStep ==
  ASSUME RegInv, NEW l \in Loops, NEW p \in Plugins, InitEnds(l, p), UNCHANGED plan PROVE RegInv'
<1>1. /\ init \in [Loops -> [Plugins -> {"none", "running", "done", "failed", "cancelled"}]]
      /\ init[l][p] = "running" /\ UNCHANGED <<plugins, ready, plan, call>>
      /\ entries \in [Regs -> SUBSET NameSet]
  BY DEF RegInv, RegTypeOK, InitEnds
<1>2. PICK s \in {"done", "failed"} :
        /\ init' = [init EXCEPT ![l][p] = s]
        /\ IF s = "done" THEN entries' = [entries EXCEPT !["root"] = @ \cup InitGives[p]] ELSE entries' = entries
  BY DEF InitEnds
<1>3. \A k \in Loops, q \in Plugins : init'[k][q] = IF k = l /\ q = p THEN s ELSE init[k][q]
  BY <1>1, <1>2
<1>4. /\ entries'["child"] = entries["child"]
      /\ entries'["root"] = IF s = "done" THEN entries["root"] \cup InitGives[p] ELSE entries["root"]
  BY <1>1, <1>2 DEF Regs
<1>5. Grows
  BY <1>1, <1>3, <1>4 DEF Grows, Begun, Done
<1>6. RegTypeOK'
  <2>1. init' \in [Loops -> [Plugins -> {"none", "running", "done", "failed", "cancelled"}]]
    BY <1>1, <1>2
  <2>2. entries' \in [Regs -> SUBSET NameSet]
    BY <1>1, <1>2, RegistryConstants DEF NameSet
  <2> QED
    BY <1>1, <2>1, <2>2 DEF RegInv, RegTypeOK
<1>7. CallsOK'
  BY <1>1, <1>5, OthersStay DEF RegInv, CallsOK, OkNow, OkNext
<1>8. \A k \in Loops : \A q \in Done(k)' : InitGives[q] \subseteq entries'["root"]
  BY <1>3, <1>4 DEF RegInv, Done
<1>9. \A k \in Loops : ready'[k] => plugins' \subseteq Done(k)'
  BY <1>1, <1>5 DEF RegInv, Grows
<1> QED
  BY <1>6, <1>7, <1>8, <1>9 DEF RegInv

\* The init() awaited has returned, has raised, or was cancelled.
LEMMA AwaitInitStep ==
  ASSUME RegInv, NEW t \in Tasks, AwaitInit(t), UNCHANGED plan PROVE RegInv'
<1> DEFINE c == call[t]
           p == c.plugin
           ended == init[LoopOf[t]][p]
           rest == c.left \ {p}
<1>1. /\ c \in CallRecords /\ OkNow(c, t) /\ c.pc = "awaitInit" /\ LoopOf[t] \in Loops
      /\ ended # "running" /\ UNCHANGED <<entries, plugins, init, ready, plan>>
  BY DapConstants DEF RegInv, RegTypeOK, CallsOK, OkNow, AwaitInit
<1>2. p \in Begun(LoopOf[t])
  BY <1>1 DEF OkNow, CallOK
<1>3. p \in Plugins /\ ended \in {"done", "failed", "cancelled"}
  BY <1>1, <1>2 DEF Begun, RegInv, RegTypeOK
<1>4. CASE ended \in {"failed", "cancelled"}
  <2>1. Answers(t, "error") \/ Answers(t, "cancelled")
    <3>1. CASE ended = "failed"
      BY <3>1 DEF AwaitInit
    <3>2. CASE ended = "cancelled"
      BY <3>2 DEF AwaitInit
    <3> QED
      BY <1>4, <3>1, <3>2
  <2> QED
    BY <1>1, <2>1, AnswerStep
<1>5. CASE ended = "done" /\ c.op = "resolve"
  <2> DEFINE d == [c EXCEPT !.pc = "recheck"]
  <2>1. call' = [call EXCEPT ![t] = d]
    BY <1>5 DEF AwaitInit, Goes
  <2>2. d \in CallRecords /\ d.pc = "recheck" /\ d.op = "resolve" /\ d.name = c.name /\ d.owed = c.owed
        /\ d.rows = c.rows /\ d.ans = c.ans /\ d.reg = c.reg
    BY <1>1, <1>5 DEF CallRecords, ResolvePcs
  <2> HIDE DEF d
  <2>3. InitGives[p] \subseteq entries["root"]
    BY <1>1, <1>3, <1>5 DEF RegInv, Done
  <2>4. c.reg = "root" /\ p = PluginOf[c.name]
    BY <1>1, <1>5 DEF OkNow, CallOK, ResolveOK
  <2>5. c.name \in c.owed => c.name \in entries["root"] \/ \E q \in plugins : c.name \in InitGives[q] \cup Resolvable[q]
    BY <1>1, <1>5, <2>4 DEF OkNow, CallOK, ResolveOK
  <2>6. \A q \in plugins : c.name \in InitGives[q] \cup Resolvable[q] => q = p
    BY <2>4, NamesAreNamespaced DEF RegInv, RegTypeOK
  <2>7. c.name \in c.owed => c.name \in entries["root"] \cup Resolvable[PluginOf[c.name]]
    BY <2>3, <2>4, <2>5, <2>6
  <2>8. OkNow(d, t)
    BY <1>1, <2>2, <2>4, <2>7 DEF OkNow, CallOK, ResolveOK, ListOK, Answered, ListPcs
  <2> QED
    BY <1>1, <2>1, <2>2, <2>8, QuietStep
<1>6. CASE ended = "done" /\ c.op # "resolve"
  <2> DEFINE pc == IF rest = {} THEN "listReady" ELSE "listEnsure"
             d == [c EXCEPT !.left = rest, !.pc = pc]
  <2>1. call' = [call EXCEPT ![t] = d]
    BY <1>6 DEF AwaitInit
  <2>2. d \in CallRecords /\ d.pc = pc /\ d.op = "list" /\ d.name = c.name /\ d.owed = c.owed
        /\ d.rows = c.rows /\ d.ans = c.ans /\ d.reg = c.reg /\ d.left = rest /\ d.count = c.count
    BY <1>1, <1>6 DEF CallRecords, ListPcs
  <2> HIDE DEF d
  <2>3. c.op = "list" /\ c.reg = "root" /\ Working(c, Done(LoopOf[t]), entries["root"], plugins)
    BY <1>1, <1>6 DEF OkNow, CallOK, ListOK, CallRecords
  <2>4. Working(d, Done(LoopOf[t]), entries["root"], plugins)
    <3>1. PICK P \in SUBSET plugins : /\ c.count = Cardinality(P) /\ c.left \subseteq P
                                      /\ P \ c.left \subseteq Done(LoopOf[t]) /\ Covers(c, entries["root"], P)
      BY <2>3 DEF Working
    <3>2. p \in Done(LoopOf[t])
      BY <1>3, <1>6 DEF Done
    <3>3. P \ rest \subseteq Done(LoopOf[t]) /\ rest \subseteq P
      BY <3>1, <3>2
    <3>4. Covers(d, entries["root"], P)
      BY <2>2, <3>1 DEF Covers
    <3> QED
      BY <2>2, <3>1, <3>3, <3>4 DEF Working
  <2>5. OkNow(d, t)
    BY <1>1, <2>2, <2>3, <2>4 DEF OkNow, CallOK, ResolveOK, ListOK, Answered, ResolvePcs, ListPcs
  <2> QED
    BY <1>1, <2>1, <2>2, <2>5, QuietStep
<1> QED
  BY <1>3, <1>4, <1>5, <1>6

\* init() registered the very action, or the plugin is asked for it.
LEMMA RecheckStep ==
  ASSUME RegInv, NEW t \in Tasks, Recheck(t), UNCHANGED plan PROVE RegInv'
<1> DEFINE c == call[t]
           d == [c EXCEPT !.pc = "pluginResolve"]
<1>1. /\ c \in CallRecords /\ OkNow(c, t) /\ c.pc = "recheck" /\ c.op = "resolve"
      /\ UNCHANGED <<entries, plugins, init, ready, plan>>
  BY DEF RegInv, RegTypeOK, CallsOK, OkNow, CallOK, Recheck, ResolvePcs
<1>2. CASE Hit(t)
  BY <1>1, <1>2, HitStep
<1>3. CASE c.name \notin entries["root"] /\ Goes(t, "pluginResolve")
  <2>1. call' = [call EXCEPT ![t] = d]
    BY <1>3 DEF Goes
  <2>2. d \in CallRecords /\ d.pc = "pluginResolve" /\ d.op = "resolve" /\ d.name = c.name /\ d.owed = c.owed
        /\ d.rows = c.rows /\ d.ans = c.ans /\ d.reg = c.reg
    BY <1>1 DEF CallRecords, ResolvePcs
  <2> HIDE DEF d
  <2>3. OkNow(d, t)
    BY <1>1, <1>3, <2>2 DEF OkNow, CallOK, ResolveOK, ListOK, Answered, ListPcs
  <2> QED
    BY <1>1, <2>1, <2>2, <2>3, QuietStep
<1> QED
  BY <1>2, <1>3 DEF Recheck

\* plugin.resolve raised, found the action, or did not know it.
LEMMA PluginResolveStep ==
  ASSUME RegInv, NEW t \in Tasks, PluginResolve(t), UNCHANGED plan PROVE RegInv'
<1> DEFINE c == call[t]
           d == [c EXCEPT !.pc = "register"]
<1>1. /\ c \in CallRecords /\ OkNow(c, t) /\ c.pc = "pluginResolve" /\ c.op = "resolve"
      /\ UNCHANGED <<entries, plugins, init, ready, plan>>
  BY DEF RegInv, RegTypeOK, CallsOK, OkNow, CallOK, PluginResolve, ResolvePcs
<1>2. CASE Answers(t, "error")
  BY <1>1, <1>2, AnswerStep
<1>3. CASE Goes(t, "register")
  <2>1. call' = [call EXCEPT ![t] = d]
    BY <1>3 DEF Goes
  <2>2. d \in CallRecords /\ d.pc = "register" /\ d.op = "resolve" /\ d.name = c.name /\ d.owed = c.owed
        /\ d.rows = c.rows /\ d.ans = c.ans /\ d.reg = c.reg
    BY <1>1 DEF CallRecords, ResolvePcs
  <2> HIDE DEF d
  <2>3. OkNow(d, t)
    BY <1>1, <2>2 DEF OkNow, CallOK, ResolveOK, ListOK, Answered, ListPcs
  <2> QED
    BY <1>1, <2>1, <2>2, <2>3, QuietStep
<1>4. CASE c.name \notin Resolvable[PluginOf[c.name]] /\ Fallback(t)
  <2>1. c.reg = "root" /\ c.name \notin c.owed
    BY <1>1, <1>4 DEF OkNow, CallOK, ResolveOK
  <2> QED
    BY <1>1, <1>4, <2>1, FallbackStep
<1> QED
  BY <1>2, <1>3, <1>4 DEF PluginResolve

\* The root registers what the plugin resolved.
LEMMA RegisterResolvedStep ==
  ASSUME RegInv, NEW t \in Tasks, RegisterResolved(t), UNCHANGED plan PROVE RegInv'
<1> DEFINE c == call[t]
           d == [c EXCEPT !.pc = "end", !.ans = "found"]
<1>1. /\ c \in CallRecords /\ OkNow(c, t) /\ c.op = "resolve" /\ call' = [call EXCEPT ![t] = d]
      /\ UNCHANGED <<plugins, init, ready, plan>> /\ entries \in [Regs -> SUBSET NameSet]
      /\ entries' = [entries EXCEPT !["root"] = @ \cup {c.name}]
  BY DEF RegInv, RegTypeOK, CallsOK, OkNow, CallOK, RegisterResolved, Answers, ResolvePcs
<1>2. d \in CallRecords /\ OkNow(d, t)
  BY <1>1, AnswerOK
<1> HIDE DEF d
<1>3. /\ entries' \in [Regs -> SUBSET NameSet] /\ entries'["child"] = entries["child"]
      /\ entries["root"] \subseteq entries'["root"]
  BY <1>1 DEF CallRecords, Regs
<1>4. Grows
  BY <1>1, <1>3 DEF Grows, Begun, Done
<1>5. call' \in [Tasks -> CallRecords] /\ CallsOK'
  BY <1>1, <1>2, <1>4, OneCall
<1>6. RegTypeOK'
  BY <1>1, <1>3, <1>5 DEF RegInv, RegTypeOK
<1> QED
  BY <1>1, <1>3, <1>5, <1>6, SMTT(30) DEF RegInv, Done

\* The provider is asked, by a resolution or at the end of a list, and answers.
LEMMA AskDapStep ==
  ASSUME RegInv, NEW t \in Tasks, AskDap(t), UNCHANGED plan PROVE RegInv'
<1> DEFINE c == call[t]
           pc == IF c.pc = "listDap" THEN "listing" ELSE "asking"
           d == [c EXCEPT !.pc = pc]
<1>1. /\ c \in CallRecords /\ OkNow(c, t) /\ c.pc \in {"askDap", "listDap"} /\ call' = [call EXCEPT ![t] = d]
      /\ UNCHANGED <<entries, plugins, init, ready, plan>>
  BY DEF RegInv, RegTypeOK, CallsOK, OkNow, CallOK, AskDap, Goes
<1>2. d \in CallRecords /\ d.pc = pc /\ d.op = c.op /\ d.name = c.name /\ d.owed = c.owed
      /\ d.rows = c.rows /\ d.ans = c.ans /\ d.reg = c.reg
  BY <1>1 DEF CallRecords, ResolvePcs, ListPcs
<1> HIDE DEF d
<1>3. CASE c.pc = "listDap"
  <2>1. c.op = "list" /\ Covers(c, {}, {})
    BY <1>1, <1>3 DEF OkNow, CallOK, ListOK, ListPcs
  <2>2. Covers(d, {}, {})
    BY <1>2, <2>1 DEF Covers
  <2>3. OkNow(d, t)
    BY <1>1, <1>2, <1>3, <2>1, <2>2 DEF OkNow, CallOK, ResolveOK, ListOK, Answered, ListPcs, ResolvePcs
  <2> QED
    BY <1>1, <1>2, <2>3, QuietStep
<1>4. CASE c.pc = "askDap"
  <2>1. c.op = "resolve"
    BY <1>1, <1>4 DEF OkNow, CallOK, ResolvePcs
  <2>2. OkNow(d, t)
    BY <1>1, <1>2, <1>4, <2>1 DEF OkNow, CallOK, ResolveOK, ListOK, Answered, ListPcs, ResolvePcs
  <2> QED
    BY <1>1, <1>2, <2>2, QuietStep
<1> QED
  BY <1>1, <1>3, <1>4

\* The provider knows the name, or the resolution ends with an error.
LEMMA DapAnswersStep ==
  ASSUME RegInv, NEW t \in Tasks, DapAnswers(t), UNCHANGED plan PROVE RegInv'
<1>1. call[t].op = "resolve" /\ UNCHANGED <<entries, plugins, init, ready, plan>>
  BY DEF RegInv, CallsOK, CallOK, DapAnswers, ResolvePcs
<1>2. Answers(t, "found") \/ Answers(t, "error")
  BY DEF DapAnswers
<1> QED
  BY <1>1, <1>2, AnswerStep

\* A list initialises the plugins of now, unless its loop has, or it is at the child.
LEMMA ListInitStep ==
  ASSUME RegInv, NEW t \in Tasks, ListInit(t), UNCHANGED plan PROVE RegInv'
<1> DEFINE c == call[t]
<1>1. /\ c \in CallRecords /\ OkNow(c, t) /\ c.pc = "listInit" /\ c.op = "list" /\ c.reg \in Regs
      /\ UNCHANGED <<entries, plugins, init, ready, plan>> /\ LoopOf[t] \in Loops
  BY DapConstants DEF RegInv, RegTypeOK, CallsOK, OkNow, CallOK, ListInit, ListPcs, CallRecords
<1>2. CASE ready[LoopOf[t]] \/ c.reg = "child"
  <2> DEFINE d == [c EXCEPT !.pc = "listEntries"]
  <2>1. call' = [call EXCEPT ![t] = d]
    BY <1>2 DEF ListInit, Goes
  <2>2. d \in CallRecords /\ d.pc = "listEntries" /\ d.op = "list" /\ d.name = c.name /\ d.owed = c.owed
        /\ d.rows = c.rows /\ d.ans = c.ans /\ d.reg = c.reg
    BY <1>1 DEF CallRecords, ListPcs
  <2> HIDE DEF d
  <2>3. CASE c.reg = "child"
    <3>1. Covers(d, entries["root"] \cup entries["child"], plugins)
      BY <1>1, <2>2, <2>3 DEF OkNow, CallOK, ListOK, Covers
    <3>2. OkNow(d, t)
      BY <1>1, <2>2, <2>3, <3>1 DEF OkNow, CallOK, ResolveOK, ListOK, Answered, ResolvePcs
    <3> QED
      BY <1>1, <2>1, <2>2, <3>2, QuietStep
  <2>4. CASE c.reg = "root" /\ ready[LoopOf[t]]
    <3>1. Covers(c, entries["root"], plugins)
      BY <1>1, <2>4 DEF OkNow, CallOK, ListOK
    <3>2. \A p \in plugins : InitGives[p] \subseteq entries["root"]
      BY <1>1, <2>4 DEF RegInv
    <3>3. Covers(d, entries["root"], {})
      BY <2>2, <3>1, <3>2 DEF Covers
    <3>4. OkNow(d, t)
      BY <1>1, <2>2, <2>4, <3>3 DEF OkNow, CallOK, ResolveOK, ListOK, Answered, ResolvePcs
    <3> QED
      BY <1>1, <2>1, <2>2, <3>4, QuietStep
  <2> QED
    BY <1>1, <1>2, <2>3, <2>4 DEF Regs
<1>3. CASE ~ready[LoopOf[t]] /\ c.reg = "root"
  <2> DEFINE pc == IF plugins = {} THEN "listReady" ELSE "listEnsure"
             d == [c EXCEPT !.left = plugins, !.count = Cardinality(plugins), !.pc = pc]
  <2>1. call' = [call EXCEPT ![t] = d]
    BY <1>3 DEF ListInit
  <2>2. Cardinality(plugins) \in Nat /\ plugins \subseteq Plugins
    BY RegistryConstants, FS_Subset, FS_CardinalityType DEF RegInv, RegTypeOK
  <2>3. d \in CallRecords /\ d.pc = pc /\ d.op = "list" /\ d.name = c.name /\ d.owed = c.owed /\ d.left = plugins
        /\ d.count = Cardinality(plugins) /\ d.rows = c.rows /\ d.ans = c.ans /\ d.reg = c.reg
    BY <1>1, <2>2 DEF CallRecords, ListPcs
  <2> HIDE DEF d
  <2>4. Covers(d, entries["root"], plugins)
    BY <1>1, <1>3, <2>3 DEF OkNow, CallOK, ListOK, Covers
  <2>5. Working(d, Done(LoopOf[t]), entries["root"], plugins)
    BY <2>3, <2>4 DEF Working
  <2>6. OkNow(d, t)
    BY <1>1, <1>3, <2>3, <2>5 DEF OkNow, CallOK, ResolveOK, ListOK, Answered, ResolvePcs
  <2> QED
    BY <1>1, <2>1, <2>3, <2>6, QuietStep
<1> QED
  BY <1>1, <1>2, <1>3 DEF Regs

\* Every plugin found has given its actions; the loop is marked done when no plugin came.
LEMMA ListReadyStep ==
  ASSUME RegInv, NEW t \in Tasks, ListReady(t), UNCHANGED plan PROVE RegInv'
<1> DEFINE c == call[t]
           l == LoopOf[t]
           d == [c EXCEPT !.pc = "listEntries"]
<1>1. /\ c \in CallRecords /\ OkNow(c, t) /\ c.pc = "listReady" /\ c.op = "list" /\ call' = [call EXCEPT ![t] = d]
      /\ UNCHANGED <<entries, plugins, init, plan>> /\ l \in Loops
  BY DapConstants DEF RegInv, RegTypeOK, CallsOK, OkNow, CallOK, ListReady, ListPcs, Goes
<1>2. c.reg = "root" /\ c.left = {}
  BY <1>1 DEF OkNow, CallOK, ListOK
<1>3. PICK P \in SUBSET plugins : /\ c.count = Cardinality(P) /\ P \subseteq Done(l) /\ Covers(c, entries["root"], P)
  BY <1>1, <1>2 DEF OkNow, CallOK, ListOK, Working
<1>4. d \in CallRecords /\ d.pc = "listEntries" /\ d.op = "list" /\ d.name = c.name /\ d.owed = c.owed
      /\ d.rows = c.rows /\ d.ans = c.ans /\ d.reg = "root"
  BY <1>1, <1>2 DEF CallRecords, ListPcs
<1> HIDE DEF d
<1>5. Covers(d, entries["root"], {})
  BY <1>1, <1>3, <1>4 DEF RegInv, Covers
<1>6. OkNow(d, t)
  BY <1>1, <1>4, <1>5 DEF OkNow, CallOK, ResolveOK, ListOK, Answered, ResolvePcs
<1>7. Grows
  BY <1>1 DEF Grows, Begun, Done
<1>8. call' \in [Tasks -> CallRecords] /\ CallsOK'
  BY <1>1, <1>4, <1>6, <1>7, OneCall
<1>9. RegTypeOK' /\ \A k \in Loops : ready'[k] => ready[k] \/ (k = l /\ Cardinality(plugins) = c.count)
  BY <1>1, <1>8 DEF RegInv, RegTypeOK, ListReady
<1>10. Cardinality(plugins) = c.count => plugins \subseteq Done(l)
  <2> SUFFICES ASSUME Cardinality(plugins) = Cardinality(P) PROVE plugins = P
    BY <1>3
  <2>1. IsFiniteSet(plugins) /\ P \subseteq plugins
    BY RegistryConstants, FS_Subset DEF RegInv, RegTypeOK
  <2>2. P # plugins => Cardinality(P) < Cardinality(plugins)
    BY <2>1, FS_Subset
  <2>3. Cardinality(P) \in Nat
    BY <2>1, FS_Subset, FS_CardinalityType
  <2> QED
    BY <2>2, <2>3
<1>11. \A k \in Loops : ready'[k] => plugins' \subseteq Done(k)'
  BY <1>1, <1>9, <1>10 DEF RegInv, Done
<1> QED
  BY <1>1, <1>8, <1>9, <1>11 DEF RegInv, Done

\* The rows of the registered actions.
LEMMA ListEntriesStep ==
  ASSUME RegInv, NEW t \in Tasks, ListEntries(t), UNCHANGED plan PROVE RegInv'
<1> DEFINE c == call[t]
           lazy == (entries[c.reg] \cap LazyNames) \ loading
           pc == IF lazy = {} THEN "listed" ELSE "listLoading"
           rows == c.rows \cup entries[c.reg]
           d == [c EXCEPT !.rows = rows, !.left = lazy, !.pc = pc]
<1>1. /\ c \in CallRecords /\ OkNow(c, t) /\ c.pc = "listEntries" /\ c.op = "list" /\ call' = [call EXCEPT ![t] = d]
      /\ UNCHANGED <<entries, plugins, init, ready, plan>> /\ c.reg \in Regs /\ entries[c.reg] \subseteq NameSet
  BY SMTT(30) DEF RegInv, RegTypeOK, CallsOK, OkNow, CallOK, ListEntries, ListPcs, CallRecords
<1>2. d \in CallRecords /\ d.pc = pc /\ d.op = "list" /\ d.name = c.name /\ d.owed = c.owed
      /\ d.rows = rows /\ d.ans = c.ans /\ d.reg = c.reg
  BY <1>1 DEF CallRecords, ListPcs
<1> HIDE DEF d
<1>3. CASE c.reg = "child"
  <2>1. Covers(d, entries["root"], plugins)
    BY <1>1, <1>2, <1>3 DEF OkNow, CallOK, ListOK, Covers
  <2>2. OkNow(d, t)
    BY <1>1, <1>2, <1>3, <2>1 DEF OkNow, CallOK, ResolveOK, ListOK, Answered, ResolvePcs
  <2> QED
    BY <1>1, <1>2, <2>2, QuietStep
<1>4. CASE c.reg = "root"
  <2>1. Covers(d, {}, {})
    BY <1>1, <1>2, <1>4 DEF OkNow, CallOK, ListOK, Covers
  <2>2. OkNow(d, t)
    BY <1>1, <1>2, <1>4, <2>1 DEF OkNow, CallOK, ResolveOK, ListOK, Answered, ResolvePcs
  <2> QED
    BY <1>1, <1>2, <2>2, QuietStep
<1> QED
  BY <1>1, <1>3, <1>4 DEF Regs

\* The lazy prompts of the list are loaded.
LEMMA ListLoadedStep ==
  ASSUME RegInv, NEW t \in Tasks, ListLoaded(t), UNCHANGED plan PROVE RegInv'
<1> DEFINE c == call[t]
           d == [c EXCEPT !.pc = "listed", !.left = {}]
<1>1. /\ c \in CallRecords /\ OkNow(c, t) /\ c.pc = "listLoading" /\ c.op = "list" /\ call' = [call EXCEPT ![t] = d]
      /\ UNCHANGED <<entries, plugins, init, ready, plan>>
  BY DEF RegInv, RegTypeOK, CallsOK, OkNow, CallOK, ListLoaded, ListPcs
<1>2. d \in CallRecords /\ d.pc = "listed" /\ d.op = "list" /\ d.name = c.name /\ d.owed = c.owed
      /\ d.rows = c.rows /\ d.ans = c.ans /\ d.reg = c.reg
  BY <1>1 DEF CallRecords, ListPcs
<1> HIDE DEF d
<1>3. \A S, P : Covers(c, S, P) => Covers(d, S, P)
  BY <1>2 DEF Covers
<1>4. OkNow(d, t)
  BY <1>1, <1>2, <1>3 DEF OkNow, CallOK, ResolveOK, ListOK, Answered, ResolvePcs
<1> QED
  BY <1>1, <1>2, <1>4, QuietStep

\* The child goes on with its parent's list, the root with the provider.
LEMMA ListedEntriesStep ==
  ASSUME RegInv, NEW t \in Tasks, ListedEntries(t), UNCHANGED plan PROVE RegInv'
<1> DEFINE c == call[t]
<1>1. /\ c \in CallRecords /\ OkNow(c, t) /\ c.pc = "listed" /\ c.op = "list" /\ c.reg \in Regs
      /\ UNCHANGED <<entries, plugins, init, ready, plan>>
  BY DEF RegInv, RegTypeOK, CallsOK, OkNow, CallOK, ListedEntries, ListPcs, CallRecords
<1>2. CASE c.reg = "root"
  <2> DEFINE d == [c EXCEPT !.pc = "listDap"]
  <2>1. call' = [call EXCEPT ![t] = d]
    BY <1>2 DEF ListedEntries, Goes
  <2>2. d \in CallRecords /\ d.pc = "listDap" /\ d.op = "list" /\ d.name = c.name /\ d.owed = c.owed
        /\ d.rows = c.rows /\ d.ans = c.ans /\ d.reg = c.reg
    BY <1>1 DEF CallRecords, ListPcs
  <2> HIDE DEF d
  <2>3. Covers(d, {}, {})
    BY <1>1, <1>2, <2>2 DEF OkNow, CallOK, ListOK, Covers
  <2>4. OkNow(d, t)
    BY <1>1, <2>2, <2>3 DEF OkNow, CallOK, ResolveOK, ListOK, Answered, ResolvePcs
  <2> QED
    BY <1>1, <2>1, <2>2, <2>4, QuietStep
<1>3. CASE c.reg = "child"
  <2> DEFINE d == [c EXCEPT !.pc = "listInit", !.reg = "root"]
  <2>1. call' = [call EXCEPT ![t] = d]
    BY <1>3 DEF ListedEntries
  <2>2. d \in CallRecords /\ d.pc = "listInit" /\ d.op = "list" /\ d.name = c.name /\ d.owed = c.owed
        /\ d.rows = c.rows /\ d.ans = c.ans /\ d.reg = "root"
    BY <1>1 DEF CallRecords, ListPcs, Regs
  <2> HIDE DEF d
  <2>3. Covers(d, entries["root"], plugins)
    BY <1>1, <1>3, <2>2 DEF OkNow, CallOK, ListOK, Covers
  <2>4. OkNow(d, t)
    BY <1>1, <2>2, <2>3 DEF OkNow, CallOK, ResolveOK, ListOK, Answered, ResolvePcs
  <2> QED
    BY <1>1, <2>1, <2>2, <2>4, QuietStep
<1> QED
  BY <1>1, <1>2, <1>3 DEF Regs

\* The provider's rows, or none.
LEMMA DapListedStep ==
  ASSUME RegInv, NEW t \in Tasks, DapListed(t), UNCHANGED plan PROVE RegInv'
<1> DEFINE c == call[t]
           more == IF asked[t].pc = "got" THEN Listed(asked[t].ver) ELSE {}
           rows == c.rows \cup more
           d == [c EXCEPT !.pc = "end", !.ans = "found", !.rows = rows]
<1>1. /\ c \in CallRecords /\ OkNow(c, t) /\ c.pc = "listing" /\ c.op = "list" /\ call' = [call EXCEPT ![t] = d]
      /\ UNCHANGED <<entries, plugins, init, ready, plan>> /\ more \subseteq DapNames
  BY DEF RegInv, RegTypeOK, CallsOK, OkNow, CallOK, DapListed, ListPcs, Listed
<1>2. d \in CallRecords /\ d.pc = "end" /\ d.op = "list" /\ d.owed = c.owed /\ c.rows \subseteq d.rows /\ d.ans = "found"
  BY <1>1 DEF CallRecords
<1> HIDE DEF d
<1>3. c.owed \subseteq c.rows
  BY <1>1 DEF OkNow, CallOK, ListOK, Covers
<1>4. OkNow(d, t)
  BY <1>2, <1>3 DEF OkNow, CallOK, ResolveOK, ListOK, Answered, ResolvePcs, ListPcs
<1> QED
  BY <1>1, <1>2, <1>4, QuietStep

\* A plugin is registered: every loop has plugins to initialise again.
LEMMA RegisterPluginStep ==
  ASSUME RegInv, NEW p \in Plugins, RegisterPlugin(p), UNCHANGED plan PROVE RegInv'
<1>1. /\ UNCHANGED <<entries, init, call, plan>> /\ plugins' = plugins \cup {p} /\ ready' = [l \in Loops |-> FALSE]
  BY DEF RegisterPlugin
<1>2. Grows
  BY <1>1 DEF Grows, Begun, Done
<1>3. CallsOK'
  BY <1>1, <1>2, OthersStay, SMTT(30) DEF RegInv, CallsOK, OkNow, OkNext
<1>4. RegTypeOK'
  BY <1>1 DEF RegInv, RegTypeOK
<1> QED
  BY <1>1, <1>3, <1>4 DEF RegInv, Done

\* The caller is cancelled, and an init() it waits for with it.
LEMMA CancelCallStep ==
  ASSUME RegInv, NEW t \in Tasks, CancelCall(t), UNCHANGED plan PROVE RegInv'
<1> DEFINE c == call[t]
           l == LoopOf[t]
           d == [c EXCEPT !.pc = "end", !.ans = "dropped"]
<1>1. /\ c \in CallRecords /\ OkNow(c, t) /\ call' = [call EXCEPT ![t] = d]
      /\ UNCHANGED <<entries, plugins, ready, plan>>
      /\ init \in [Loops -> [Plugins -> {"none", "running", "done", "failed", "cancelled"}]] /\ l \in Loops
  BY DapConstants DEF RegInv, RegTypeOK, CallsOK, OkNow, CancelCall, Answers
<1>2. d \in CallRecords /\ OkNow(d, t)
  BY <1>1, AnswerOK
<1> HIDE DEF d
<1>3. /\ init' \in [Loops -> [Plugins -> {"none", "running", "done", "failed", "cancelled"}]]
      /\ \A k \in Loops, q \in Plugins : \/ init'[k][q] = init[k][q]
                                         \/ init[k][q] = "running" /\ init'[k][q] = "cancelled"
  <2>1. CASE init' = init
    BY <1>1, <2>1
  <2>2. CASE init[l][c.plugin] = "running" /\ init' = [init EXCEPT ![l][c.plugin] = "cancelled"]
    BY <1>1, <2>2
  <2> QED
    BY <2>1, <2>2 DEF CancelCall
<1>4. Grows /\ \A k \in Loops : Done(k)' = Done(k)
  <2>1. ASSUME NEW k \in Loops PROVE Begun(k) \subseteq Begun(k)' /\ Done(k)' = Done(k)
    <3>1. \A q \in Plugins : (init[k][q] # "none" => init'[k][q] # "none") /\ (init'[k][q] = "done" <=> init[k][q] = "done")
      BY <1>3
    <3> QED
      BY <3>1 DEF Begun, Done
  <2> QED
    BY <1>1, <2>1 DEF Grows
<1>5. call' \in [Tasks -> CallRecords] /\ CallsOK'
  BY <1>1, <1>2, <1>4, OneCall
<1>6. RegTypeOK'
  BY <1>1, <1>3, <1>5 DEF RegInv, RegTypeOK
<1> QED
  BY <1>1, <1>4, <1>5, <1>6 DEF RegInv

\* A call begins: what it owes is what the chain and the plugins of now can give.
LEMMA BeginStep ==
  ASSUME RegInv, NEW t \in Tasks, Begin(t, plan[t]), UNCHANGED plan PROVE RegInv'
<1> DEFINE q == plan[t]
           pc == IF q.op = "resolve" THEN "lookup" ELSE "listInit"
           owed == Chain(q.reg) \cup UNION {IF q.op = "list" THEN InitGives[p]
                                            ELSE InitGives[p] \cup Resolvable[p] : p \in plugins}
           d == [NoCall EXCEPT !.op = q.op, !.name = q.name, !.reg = q.reg, !.pc = pc, !.owed = owed]
<1>1. /\ call' = [call EXCEPT ![t] = d] /\ UNCHANGED <<entries, plugins, init, ready, plan>>
      /\ q # None /\ plan \in Plans
  BY DEF Begin, RegInv, RegTypeOK
<1>2. q \in [op : {"resolve", "list"}, name : Names, reg : Regs]
  BY <1>1, RegistryConstants, SMTT(30)
<1>3. owed \subseteq NameSet
  BY <1>2, RegistryConstants, SMTT(30) DEF RegInv, RegTypeOK, Chain, NameSet, Regs
<1>4. d \in CallRecords /\ d.pc = pc /\ d.op = q.op /\ d.name = q.name /\ d.reg = q.reg /\ d.owed = owed
      /\ d.rows = {} /\ d.ans = "none"
  BY <1>2, <1>3 DEF CallRecords, NoCall, NameSet, ResolvePcs, ListPcs, Regs
<1>5. CASE q.op = "resolve"
  <2>1. \A n \in d.owed : \/ n \in entries["root"] \/ (d.reg = "child" /\ n \in entries["child"])
                          \/ \E p \in plugins : n \in InitGives[p] \cup Resolvable[p]
    BY <1>4, <1>5 DEF Chain
  <2> HIDE DEF d
  <2>2. OkNow(d, t)
    BY <1>4, <1>5, <2>1 DEF OkNow, CallOK, ResolveOK, ListOK, Answered, ListPcs
  <2> QED
    BY <1>1, <1>4, <2>2, QuietStep
<1>6. CASE q.op = "list"
  <2>1. /\ Covers(d, entries["root"] \cup entries["child"], plugins)
        /\ d.reg = "root" => Covers(d, entries["root"], plugins)
    BY <1>4, <1>6 DEF Chain, Covers
  <2> HIDE DEF d
  <2>2. OkNow(d, t)
    BY <1>4, <1>6, <2>1 DEF OkNow, CallOK, ResolveOK, ListOK, Answered, ResolvePcs
  <2> QED
    BY <1>1, <1>4, <2>2, QuietStep
<1> QED
  BY <1>2, <1>5, <1>6

\* Nothing is called and nothing initialised at the start.
LEMMA InitReg == RegistryInit => RegInv
<1> SUFFICES ASSUME RegistryInit PROVE RegInv
  OBVIOUS
<1>1. NoCall \in CallRecords /\ NoCall.pc = "idle" /\ NoCall.op = "resolve" /\ NoCall.ans = "none"
  BY DEF NoCall, CallRecords, NameSet, Regs
<1>2. RegTypeOK
  <2>1. Own \in [Regs -> SUBSET NameSet]
    BY RegistryConstants DEF NameSet
  <2> QED
    BY <1>1, <2>1, RegistryConstants DEF RegistryInit, RegTypeOK
<1>3. \A t \in Tasks : call[t] = NoCall
  BY DEF RegistryInit
<1>4. CallsOK
  BY <1>1, <1>3 DEF CallsOK, CallOK, ResolveOK, ListOK, Answered, ResolvePcs, ListPcs
<1>5. \A l \in Loops : Done(l) = {} /\ ~ready[l]
  BY DEF RegistryInit, Done
<1> QED
  BY <1>2, <1>4, <1>5 DEF RegInv

\* Every step keeps the invariant.
LEMMA NextReg == RegInv /\ [RegistryNext]_registryVars => RegInv'
<1> SUFFICES ASSUME RegInv, [RegistryNext]_registryVars PROVE RegInv'
  OBVIOUS
<1>1. CASE UNCHANGED <<entries, plugins, init, ready, call, plan>>
  BY <1>1 DEF RegInv, RegTypeOK, CallsOK, Begun, Done
<1>2. CASE UNCHANGED registryVars \/ Provider
  BY <1>1, <1>2 DEF registryVars, regVars, Provider
<1>3. ASSUME NEW t \in Tasks, TaskStep(t), UNCHANGED plan PROVE RegInv'
  <2>1. CASE Block(t)
    BY <1>1, <1>3, <2>1 DEF Block
  <2> QED
    BY <1>3, <2>1, LookupStep, LoadedStep, EnsureStep, AwaitInitStep, RecheckStep, PluginResolveStep,
       RegisterResolvedStep, AskDapStep, DapAnswersStep, ListInitStep, ListEnsureStep, ListReadyStep,
       ListEntriesStep, ListLoadedStep, ListedEntriesStep, DapListedStep DEF TaskStep
<1> QED
  BY <1>2, <1>3, InitEndsStep, CancelCallStep, BeginStep, RegisterPluginStep DEF RegistryNext, Scheduled

\* AnswersAreComplete for any plugins, names, tasks, loops and plans: no resolution ends
\* with None, and no list without a row, that somebody known when the call was made gives.
THEOREM AnswersAreCompleteHolds == RegistrySpec => []AnswersAreComplete
<1>1. RegInv => AnswersAreComplete
  BY DEF RegInv, CallsOK, CallOK, Answered, AnswersAreComplete
<1> QED
  BY <1>1, InitReg, NextReg, PTL DEF RegistrySpec

-----------------------------------------------------------------------------
(* The shipped middleware.  Edits of one file by tools on threads, those of a failed *)
(* call among them, and the indexes of the messages a call streams.               *)

\* The edits that have read the file and not yet written it.
Editing == {w \in tools : w.at = "read"}

ToolShape(w) == w = [tool |-> w.tool, n |-> w.n, at |-> w.at, seen |-> w.seen,
                     restart |-> w.restart, left |-> w.left]

\* Two edits under way have clashed, and each has seen the answered edits that have not:
\* so whichever writes takes none of those back.
EditsInv ==
  /\ disk = [file |-> disk.file, acked |-> disk.acked, clashed |-> disk.clashed]
  /\ \A w \in tools : ToolShape(w)
  /\ \A v, w \in Editing : v # w => v.n \in disk.clashed
  /\ \A w \in Editing : disk.acked \ disk.clashed \subseteq w.seen
  /\ EditsStand

\* Whatever its elements are.
IsSequence(s) == s \in Seq({s[k] : k \in DOMAIN s})

ChunkRoles == {"user", "model", "tool"}
ChunkRecords == [index : Nat, role : ChunkRoles]

\* The accumulator stands at the end of the stream: at the index of the last message
\* while it has sent some of it, past all of them when it has not, or a turn begins.
StreamInv ==
  /\ IsSequence(queue) /\ "at" \in DOMAIN run
  /\ chunks \in [index : Nat, role : ChunkRoles, sent : BOOLEAN]
  /\ stream \in Seq(ChunkRecords)
  /\ \A i \in DOMAIN stream : stream[i].index <= chunks.index
  /\ run.at = "turn" \/ ~chunks.sent => \A i \in DOMAIN stream : stream[i].index < chunks.index
  /\ \A i \in DOMAIN stream : stream[i].index = chunks.index => stream[i].role = chunks.role
  /\ StreamNamesMessages

MwInv == EditsInv /\ StreamInv

\* A sequence is one of its own elements, and stays one with another at its end or with
\* others in their places.
LEMMA OfItsElements == ASSUME NEW S, NEW s \in Seq(S) PROVE IsSequence(s)
<1>1. DOMAIN s = 1..Len(s) /\ Len(s) \in Nat
  OBVIOUS
<1>2. s = [k \in 1..Len(s) |-> s[k]]
  OBVIOUS
<1>3. \A k \in 1..Len(s) : s[k] \in {s[j] : j \in DOMAIN s}
  BY <1>1
<1> QED
  BY <1>1, <1>2, <1>3 DEF IsSequence

LEMMA SequenceGrows ==
  ASSUME NEW s, IsSequence(s), NEW e
  PROVE  IsSequence(Append(s, e))
<1> DEFINE S == {s[k] : k \in DOMAIN s} \union {e}
<1>1. s \in Seq(S) /\ e \in S
  BY DEF IsSequence
<1> HIDE DEF S
<1>2. Append(s, e) \in Seq(S)
  BY <1>1
<1> QED
  BY <1>2, OfItsElements

LEMMA SameDomain ==
  ASSUME NEW s, IsSequence(s), NEW t, t = [k \in DOMAIN s |-> t[k]]
  PROVE  IsSequence(t)
<1> DEFINE S == {t[k] : k \in DOMAIN t}
<1>1. DOMAIN s = 1..Len(s) /\ Len(s) \in Nat
  BY DEF IsSequence
<1>2. t \in [1..Len(s) -> S]
  BY <1>1
<1> HIDE DEF S
<1>3. t \in Seq(S)
  BY <1>1, <1>2
<1> QED
  BY <1>3 DEF IsSequence, S

LEMMA ChunksAre ==
  ASSUME NEW s \in Seq(ChunkRecords)
  PROVE  /\ DOMAIN s = 1..Len(s) /\ Len(s) \in Nat
         /\ \A i \in DOMAIN s : s[i].index \in Nat
<1>1. DOMAIN s = 1..Len(s) /\ Len(s) \in Nat /\ \A i \in DOMAIN s : s[i] \in ChunkRecords
  OBVIOUS
<1> QED
  BY <1>1 DEF ChunkRecords

LEMMA MwBegins == MwInit => MwInv
<1> SUFFICES ASSUME MwInit PROVE MwInv
  OBVIOUS
<1>1. EditsInv
  BY DEF MwInit, EditsInv, Editing, EditsStand
<1>2. StreamInv
  <2>1. queue = <<>> /\ stream = <<>> /\ chunks = [index |-> 0, role |-> "model", sent |-> FALSE]
    BY DEF MwInit
  <2>2. IsSequence(queue)
    <3>1. <<>> \in Seq({})
      OBVIOUS
    <3> QED
      BY <2>1, <3>1, OfItsElements
  <2>3. stream \in Seq(ChunkRecords) /\ DOMAIN stream = {}
    BY <2>1
  <2>4. chunks.index = 0 /\ chunks \in [index : Nat, role : ChunkRoles, sent : BOOLEAN]
    BY <2>1 DEF ChunkRoles
  <2>5. "at" \in DOMAIN run
    BY DEF MwInit
  <2> QED
    BY <2>2, <2>3, <2>4, <2>5 DEF StreamInv, StreamNamesMessages
<1> QED
  BY <1>1, <1>2 DEF MwInv

\* Tools that come, go, or end without an edit disturb none.
LEMMA EditsUndisturbed ==
  ASSUME EditsInv, disk' = disk, \A w \in tools' : ToolShape(w), Editing' \subseteq Editing
  PROVE  EditsInv'
BY DEF EditsInv, EditsStand, ToolShape

\* The tool that went on, and how.
LEMMA ToolGoesOn ==
  ASSUME EditsInv, NEW w \in tools, NEW at, at # "read", tools' = With(w, at)
  PROVE  Editing' = Editing \ {w} /\ \A v \in tools' : ToolShape(v)
<1> DEFINE x == [w EXCEPT !.at = at]
<1>1. x = [tool |-> w.tool, n |-> w.n, at |-> at, seen |-> w.seen,
           restart |-> w.restart, left |-> w.left]
  BY DEF EditsInv, ToolShape
<1>2. tools' = (tools \ {w}) \union {x}
  BY DEF With
<1> HIDE DEF x
<1>3. x.at = at /\ ToolShape(x)
  BY <1>1 DEF ToolShape
<1> QED
  BY <1>2, <1>3 DEF Editing, EditsInv

LEMMA EditReadsKeeps == ASSUME EditsInv, EditReads PROVE EditsInv'
<1>1. PICK w \in tools :
        /\ MayRun(w) /\ w.tool = "edit_file"
        /\ LET other == {v.n : v \in {u \in tools \ {w} : u.at = "read"}}
           IN disk' = [disk EXCEPT !.clashed = @ \union other \union (IF other = {} THEN {} ELSE {w.n})]
        /\ tools' = (tools \ {w}) \union {[w EXCEPT !.at = "read", !.seen = disk.file]}
  BY DEF EditReads
<1> DEFINE other == {v.n : v \in {u \in tools \ {w} : u.at = "read"}}
           more == disk.clashed \union other \union (IF other = {} THEN {} ELSE {w.n})
           x == [w EXCEPT !.at = "read", !.seen = disk.file]
<1>2. disk' = [file |-> disk.file, acked |-> disk.acked, clashed |-> more]
  <2>1. disk' = [disk EXCEPT !.clashed = more]
    BY <1>1
  <2> HIDE DEF more
  <2> QED
    BY <2>1 DEF EditsInv
<1>3. x = [tool |-> w.tool, n |-> w.n, at |-> "read", seen |-> disk.file,
           restart |-> w.restart, left |-> w.left]
  <2> DEFINE y == [w EXCEPT !.at = "read"]
  <2>1. y = [tool |-> w.tool, n |-> w.n, at |-> "read", seen |-> w.seen,
             restart |-> w.restart, left |-> w.left]
    BY DEF EditsInv, ToolShape
  <2>2. x = [y EXCEPT !.seen = disk.file]
    OBVIOUS
  <2> HIDE DEF x, y
  <2> QED
    BY <2>1, <2>2
<1>4. tools' = (tools \ {w}) \union {x}
  BY <1>1
<1>5. w.at = "waiting"
  BY <1>1 DEF MayRun
<1>6. \A v \in Editing : v \in tools \ {w} /\ v.n \in other
  BY <1>5 DEF Editing
<1>7. disk.clashed \subseteq more /\ other \subseteq more /\ (Editing # {} => w.n \in more)
  BY <1>6
<1> HIDE DEF x, more, other
<1>8. x.n = w.n /\ x.at = "read" /\ x.seen = disk.file /\ ToolShape(x)
  BY <1>3 DEF ToolShape
<1>9. Editing' = Editing \union {x}
  BY <1>4, <1>5, <1>8 DEF Editing
<1>10. disk'.file = disk.file /\ disk'.acked = disk.acked /\ disk'.clashed = more
  BY <1>2
<1>11. \A u, v \in Editing' : u # v => u.n \in more
  BY <1>6, <1>7, <1>8, <1>9 DEF EditsInv
<1>12. \A v \in Editing' : disk.acked \ more \subseteq v.seen
  BY <1>7, <1>8, <1>9 DEF EditsInv, EditsStand
<1>13. \A v \in tools' : ToolShape(v)
  BY <1>4, <1>8 DEF EditsInv
<1> QED
  BY <1>2, <1>7, <1>10, <1>11, <1>12, <1>13 DEF EditsInv, EditsStand, ToolShape

LEMMA EditWritesKeeps == ASSUME EditsInv, EditWrites PROVE EditsInv'
<1>1. PICK w \in tools :
        /\ w.at = "read"
        /\ disk' = [disk EXCEPT !.file = w.seen \union {w.n},
                                !.acked = IF w.left THEN @ ELSE @ \union {w.n}]
        /\ tools' = With(w, "done")
  BY DEF EditWrites
<1> DEFINE answered == IF w.left THEN disk.acked ELSE disk.acked \union {w.n}
           y == [disk EXCEPT !.file = w.seen \union {w.n}]
<1>2. disk' = [file |-> w.seen \union {w.n}, acked |-> answered, clashed |-> disk.clashed]
  <2>1. y = [file |-> w.seen \union {w.n}, acked |-> disk.acked, clashed |-> disk.clashed]
    BY DEF EditsInv
  <2>2. disk' = [y EXCEPT !.acked = answered]
    BY <1>1
  <2> HIDE DEF y, answered
  <2> QED
    BY <2>1, <2>2
<1>3. answered \subseteq disk.acked \union {w.n}
  OBVIOUS
<1> HIDE DEF answered
<1>4. disk'.file = w.seen \union {w.n} /\ disk'.acked = answered /\ disk'.clashed = disk.clashed
  BY <1>2
<1>5. Editing' = Editing \ {w} /\ \A v \in tools' : ToolShape(v)
  BY <1>1, ToolGoesOn
<1>6. w \in Editing /\ disk.acked \ disk.clashed \subseteq w.seen
  BY <1>1 DEF Editing, EditsInv
<1>7. \A v \in Editing' : w.n \in disk.clashed /\ disk.acked \ disk.clashed \subseteq v.seen
  BY <1>5, <1>6 DEF EditsInv
<1>8. \A v \in Editing' : answered \ disk.clashed \subseteq v.seen
  BY <1>3, <1>7
<1>9. answered \ disk.clashed \subseteq w.seen \union {w.n}
  BY <1>3, <1>6
<1>10. \A u, v \in Editing' : u # v => u.n \in disk.clashed
  BY <1>5 DEF EditsInv
<1> QED
  BY <1>2, <1>4, <1>5, <1>8, <1>9, <1>10 DEF EditsInv, EditsStand, ToolShape

\* The tools of a call that failed go on with what they have read.
LEMMA LeftKeeps ==
  ASSUME EditsInv, ToolFails
  PROVE  EditsInv'
<1>1. PICK w \in Mine :
        tools' = {[v EXCEPT !.left = TRUE] : v \in {u \in tools \ {w} : u.at # "paused" /\ u.tool # "raises"}}
  BY DEF ToolFails
<1>2. ASSUME NEW x \in tools'
      PROVE  \E v \in tools : /\ x = [tool |-> v.tool, n |-> v.n, at |-> v.at, seen |-> v.seen,
                                      restart |-> v.restart, left |-> TRUE]
                              /\ ToolShape(x) /\ x.at = v.at /\ x.n = v.n /\ x.seen = v.seen
  <2>1. PICK v \in tools : x = [v EXCEPT !.left = TRUE]
    BY <1>1
  <2>2. x = [tool |-> v.tool, n |-> v.n, at |-> v.at, seen |-> v.seen,
             restart |-> v.restart, left |-> TRUE]
    <3>1. ToolShape(v)
      BY DEF EditsInv
    <3> QED
      BY <2>1, <3>1 DEF ToolShape
  <2>3. ToolShape(x) /\ x.at = v.at /\ x.n = v.n /\ x.seen = v.seen
    BY <2>2 DEF ToolShape
  <2> QED
    BY <2>2, <2>3
<1>3. disk' = disk
  BY DEF ToolFails
<1>4. ASSUME NEW x \in Editing', NEW z \in Editing', x # z PROVE x.n \in disk.clashed
  <2>1. x \in tools' /\ z \in tools' /\ x.at = "read" /\ z.at = "read"
    BY DEF Editing
  <2>2. PICK v \in tools : /\ x = [tool |-> v.tool, n |-> v.n, at |-> v.at, seen |-> v.seen,
                                   restart |-> v.restart, left |-> TRUE]
                           /\ x.at = v.at /\ x.n = v.n
    BY <1>2, <2>1
  <2>3. PICK u \in tools : /\ z = [tool |-> u.tool, n |-> u.n, at |-> u.at, seen |-> u.seen,
                                   restart |-> u.restart, left |-> TRUE]
                           /\ z.at = u.at
    BY <1>2, <2>1
  <2>4. u # v
    BY <1>4, <2>2, <2>3
  <2> QED
    BY <2>1, <2>2, <2>3, <2>4 DEF EditsInv, Editing
<1>5. ASSUME NEW x \in Editing' PROVE disk.acked \ disk.clashed \subseteq x.seen
  <2>1. x \in tools' /\ x.at = "read"
    BY DEF Editing
  <2>2. PICK v \in tools : x.at = v.at /\ x.seen = v.seen
    BY <1>2, <2>1
  <2> QED
    BY <2>1, <2>2 DEF EditsInv, Editing
<1> QED
  BY <1>2, <1>3, <1>4, <1>5 DEF EditsInv, EditsStand, ToolShape

LEMMA EditsKept == ASSUME EditsInv, [MwNext]_mwVars PROVE EditsInv'
<1>1. CASE tools' = tools /\ disk' = disk
  BY <1>1, EditsUndisturbed DEF EditsInv, Editing
<1>2. CASE StartTurn
  <2>1. disk' = disk /\ \A w \in tools' : w \in tools \/ (ToolShape(w) /\ w.at = "waiting")
    BY <1>2 DEF StartTurn, ToolShape
  <2> QED
    BY <2>1, EditsUndisturbed DEF EditsInv, Editing
<1>3. CASE ModelAnswers
  <2>1. disk' = disk /\ \A w \in tools' : w \in tools \/ (ToolShape(w) /\ w.at = "waiting")
    BY <1>3 DEF ModelAnswers, ToolShape
  <2> QED
    BY <2>1, EditsUndisturbed DEF EditsInv, Editing
<1>4. CASE Approval \/ ReadFile \/ WriteArtifact
  <2>1. PICK w \in tools, at \in {"paused", "done"} : tools' = With(w, at)
    BY <1>4 DEF Approval, ReadFile, WriteArtifact, Mine
  <2>2. disk' = disk
    BY <1>4 DEF Approval, ReadFile, WriteArtifact
  <2>3. at # "read"
    OBVIOUS
  <2> QED
    BY <2>1, <2>2, <2>3, ToolGoesOn, EditsUndisturbed
<1>5. CASE RoundCloses \/ RoundPauses \/ ResumeCloses
  <2>1. disk' = disk /\ tools' \subseteq tools
    BY <1>5 DEF RoundCloses, RoundPauses, ResumeCloses, Orphans
  <2> QED
    BY <2>1, EditsUndisturbed DEF EditsInv, Editing
<1>6. \/ tools' = tools /\ disk' = disk
      \/ StartTurn \/ ModelAnswers \/ Approval \/ ReadFile \/ WriteArtifact \/ EditReads \/ EditWrites
      \/ ToolFails \/ RoundCloses \/ RoundPauses \/ ResumeCloses
  BY DEF MwNext, mwVars, ModelStreams, ModelFails, NextCall, SkillsChange
<1> QED
  BY <1>1, <1>2, <1>3, <1>4, <1>5, <1>6, EditReadsKeeps, EditWritesKeeps, LeftKeeps

LEMMA QueueStays == ASSUME IsSequence(queue), NEW part, NEW others, Enqueued(part, others) PROVE IsSequence(queue')
<1> DEFINE m == User(part)
           put == [queue EXCEPT ![Len(queue)].parts = Append(@, part)]
<1>1. CASE queue' = Append(queue, m)
  BY <1>1, SequenceGrows
<1>2. CASE queue' = <<m>>
  <2>1. <<m>> = Append(<<>>, m) /\ <<>> \in Seq({m})
    OBVIOUS
  <2> QED
    BY <1>2, <2>1, OfItsElements, SequenceGrows
<1>3. CASE queue' = put
  <2> DEFINE x == [queue[Len(queue)] EXCEPT !.parts = Append(@, part)]
  <2>1. put = [queue EXCEPT ![Len(queue)] = x]
    OBVIOUS
  <2> HIDE DEF put, x
  <2>2. put = [k \in DOMAIN queue |-> put[k]]
    BY <2>1
  <2> QED
    BY <1>3, <2>2, SameDomain
<1>4. queue' = Append(queue, m) \/ queue' = <<m>> \/ queue' = put
  BY DEF Enqueued
<1> QED
  BY <1>1, <1>2, <1>3, <1>4

\* A chunk of the model or of the tools comes at the end.
LEMMA ChunkComes ==
  ASSUME StreamInv, NEW role \in ChunkRoles, NEW at \in Nat, chunks.index <= at,
         at = chunks.index => chunks.role = role \/ ~chunks.sent,
         stream' = Append(stream, [index |-> at, role |-> role])
  PROVE  /\ stream' \in Seq(ChunkRecords)
         /\ \A i \in DOMAIN stream' : stream'[i].index <= at
         /\ \A i \in DOMAIN stream' : stream'[i].index = at => stream'[i].role = role
         /\ StreamNamesMessages'
<1> DEFINE c == [index |-> at, role |-> role]
<1>1. c \in ChunkRecords /\ c.index = at /\ c.role = role
  BY DEF ChunkRecords
<1> HIDE DEF c
<1>2. stream \in Seq(ChunkRecords) /\ chunks.index \in Nat /\ chunks.sent \in BOOLEAN
  BY DEF StreamInv
<1>3. /\ stream' = Append(stream, c) /\ stream' \in Seq(ChunkRecords)
      /\ DOMAIN stream' = 1..(Len(stream) + 1) /\ Len(stream) \in Nat /\ DOMAIN stream = 1..Len(stream)
      /\ \A i \in DOMAIN stream : stream'[i] = stream[i]
      /\ stream'[Len(stream) + 1] = c
  BY <1>1, <1>2 DEF c
<1>4. \A i \in DOMAIN stream : stream[i].index \in Nat
  BY <1>2, ChunksAre
<1>5. \A i \in DOMAIN stream : stream[i].index <= at /\ (stream[i].index = at => stream[i].role = role)
  BY <1>2, <1>4 DEF StreamInv
<1>6. \A i \in DOMAIN stream' : i \in DOMAIN stream \/ stream'[i] = c
  BY <1>3
<1>7. \A i \in DOMAIN stream' : stream'[i].index <= at /\ (stream'[i].index = at => stream'[i].role = role)
  BY <1>1, <1>3, <1>5, <1>6
<1>8. StreamNamesMessages'
  <2> SUFFICES ASSUME NEW i \in DOMAIN stream', NEW j \in DOMAIN stream', i < j
               PROVE  /\ stream'[i].index <= stream'[j].index
                      /\ stream'[i].index = stream'[j].index => stream'[i].role = stream'[j].role
    BY DEF StreamNamesMessages
  <2>1. i \in DOMAIN stream
    BY <1>3
  <2>2. CASE j \in DOMAIN stream
    BY <1>3, <2>1, <2>2 DEF StreamInv, StreamNamesMessages
  <2>3. CASE stream'[j] = c
    BY <1>1, <1>3, <1>5, <2>1, <2>3
  <2> QED
    BY <1>6, <2>2, <2>3
<1> QED
  BY <1>3, <1>7, <1>8

\* What the filesystem sends at the start of a turn has an index each, behind all that was sent.
LEMMA DrainedCome ==
  ASSUME StreamInv, run.at = "turn", stream' = stream \o DrainedChunks
  PROVE  /\ AfterDrained \in Nat
         /\ stream' \in Seq(ChunkRecords)
         /\ \A i \in DOMAIN stream' : stream'[i].index < AfterDrained
         /\ StreamNamesMessages'
<1> DEFINE d == DrainedChunks
           l == Len(stream)
           q == Len(queue)
<1>1. q \in Nat /\ DOMAIN queue = 1..q
  BY DEF StreamInv, IsSequence
<1>2. /\ l \in Nat /\ DOMAIN stream = 1..l /\ stream \in Seq(ChunkRecords) /\ chunks.index \in Nat
      /\ \A i \in 1..l : stream[i].index \in Nat /\ stream[i].index < chunks.index
  <2>1. stream \in Seq(ChunkRecords) /\ chunks.index \in Nat
    BY DEF StreamInv
  <2> QED
    BY <2>1, ChunksAre DEF StreamInv
<1>3. d \in [1..q -> ChunkRecords] /\ \A k \in 1..q : d[k].index = chunks.index + k - 1
  <2>1. d = [k \in 1..q |-> [index |-> chunks.index + k - 1, role |-> "user"]]
    BY <1>1 DEF DrainedChunks
  <2>2. \A k \in 1..q : chunks.index + k - 1 \in Nat
    BY <1>1, <1>2
  <2>3. \A k \in 1..q : [index |-> chunks.index + k - 1, role |-> "user"] \in ChunkRecords
    BY <2>2 DEF ChunkRecords, ChunkRoles
  <2> HIDE DEF d, q
  <2>4. \A k \in 1..q : d[k] = [index |-> chunks.index + k - 1, role |-> "user"]
    BY <2>1
  <2> QED
    BY <2>1, <2>3, <2>4
<1> HIDE DEF d
<1>4. d \in Seq(ChunkRecords) /\ Len(d) = q
  BY <1>1, <1>3
<1>5. /\ stream' = stream \o d /\ stream' \in Seq(ChunkRecords) /\ DOMAIN stream' = 1..(l + q)
      /\ \A i \in 1..l : stream'[i] = stream[i]
      /\ \A k \in 1..q : stream'[l + k] = d[k]
  <2>1. stream' = stream \o d
    BY DEF d
  <2>2. stream' \in Seq(ChunkRecords) /\ Len(stream') = Len(stream) + Len(d)
    <3>1. stream \in Seq(ChunkRecords) /\ d \in Seq(ChunkRecords)
      BY <1>2, <1>4
    <3> QED
      BY <2>1, <3>1, ConcatProperties
  <2>3. DOMAIN stream' = 1..(l + q)
    BY <1>4, <2>2, ChunksAre
  <2>4. \A i \in 1..(l + q) : stream'[i] = IF i <= l THEN stream[i] ELSE d[i - l]
    BY <1>2, <1>4, <2>1, ConcatProperties
  <2>5. ASSUME NEW k \in 1..q PROVE stream'[l + k] = d[k]
    <3>1. l + k \in 1..(l + q) /\ ~(l + k <= l) /\ (l + k) - l = k
      BY <1>1, <1>2
    <3> QED
      BY <2>4, <3>1
  <2>6. ASSUME NEW i \in 1..l PROVE stream'[i] = stream[i]
    <3>1. i \in 1..(l + q) /\ i <= l
      BY <1>1, <1>2
    <3> QED
      BY <2>4, <3>1
  <2> QED
    BY <2>1, <2>2, <2>3, <2>5, <2>6
<1>6. AfterDrained = chunks.index + q
  BY DEF AfterDrained
<1>7. \A i \in DOMAIN stream' : i \in 1..l \/ \E k \in 1..q : i = l + k /\ stream'[i].index = chunks.index + k - 1
  <2> SUFFICES ASSUME NEW i \in 1..(l + q), i \notin 1..l
               PROVE  \E k \in 1..q : i = l + k /\ stream'[i].index = chunks.index + k - 1
    BY <1>5
  <2>1. i - l \in 1..q /\ i = l + (i - l)
    BY <1>1, <1>2
  <2>2. stream'[i].index = chunks.index + (i - l) - 1
    BY <1>3, <1>5, <2>1
  <2> QED
    BY <2>1, <2>2
<1>8. ASSUME NEW i \in DOMAIN stream' PROVE stream'[i].index < AfterDrained
  <2>1. CASE i \in 1..l
    BY <1>1, <1>2, <1>5, <1>6, <2>1
  <2>2. ASSUME NEW k \in 1..q, stream'[i].index = chunks.index + k - 1 PROVE stream'[i].index < AfterDrained
    BY <1>1, <1>2, <1>6, <2>2
  <2> QED
    BY <1>7, <2>1, <2>2
<1>9. StreamNamesMessages'
  <2> SUFFICES ASSUME NEW i \in DOMAIN stream', NEW j \in DOMAIN stream', i < j
               PROVE  /\ stream'[i].index <= stream'[j].index
                      /\ stream'[i].index = stream'[j].index => stream'[i].role = stream'[j].role
    BY DEF StreamNamesMessages
  <2>1. CASE j \in 1..l
    <3>1. i \in 1..l
      BY <1>1, <1>2, <1>5, <2>1
    <3> QED
      BY <1>2, <1>5, <2>1, <3>1 DEF StreamInv, StreamNamesMessages
  <2>2. CASE j \notin 1..l
    <3>1. PICK k \in 1..q : j = l + k /\ stream'[j].index = chunks.index + k - 1
      BY <1>7, <2>2
    <3>2. stream'[i].index < stream'[j].index
      <4>1. CASE i \in 1..l
        BY <1>1, <1>2, <1>5, <3>1, <4>1
      <4>2. CASE i \notin 1..l
        <5>1. PICK h \in 1..q : i = l + h /\ stream'[i].index = chunks.index + h - 1
          BY <1>7, <4>2
        <5> QED
          BY <1>1, <1>2, <3>1, <5>1
      <4> QED
        BY <4>1, <4>2
    <3>3. stream'[i].index \in Nat /\ stream'[j].index \in Nat
      <4>1. \A n \in DOMAIN stream' : stream'[n].index \in Nat
        BY <1>5, ChunksAre
      <4> QED
        BY <4>1
    <3> QED
      BY <3>2, <3>3
  <2> QED
    BY <2>1, <2>2
<1> QED
  BY <1>1, <1>2, <1>5, <1>6, <1>8, <1>9

\* Made sends a chunk, and the accumulator stands at it.
LEMMA MadeKeeps ==
  ASSUME StreamInv, NEW role \in ChunkRoles, Made(role), run'.at # "turn",
         IsSequence(queue'), "at" \in DOMAIN run'
  PROVE  StreamInv'
<1> DEFINE at == IF role # chunks.role /\ chunks.sent THEN chunks.index + 1 ELSE chunks.index
<1>1. /\ chunks' = [index |-> at, role |-> role, sent |-> TRUE]
      /\ stream' = Append(stream, [index |-> at, role |-> role])
  BY DEF Made
<1>2. chunks.index \in Nat /\ chunks.sent \in BOOLEAN
  BY DEF StreamInv
<1>3. at \in Nat /\ chunks.index <= at /\ (at = chunks.index => chunks.role = role \/ ~chunks.sent)
  BY <1>2
<1> HIDE DEF at
<1>4. /\ stream' \in Seq(ChunkRecords)
      /\ \A i \in DOMAIN stream' : stream'[i].index <= at
      /\ \A i \in DOMAIN stream' : stream'[i].index = at => stream'[i].role = role
      /\ StreamNamesMessages'
  BY <1>1, <1>3, ChunkComes
<1>5. /\ chunks'.index = at /\ chunks'.role = role /\ chunks'.sent = TRUE
      /\ chunks' \in [index : Nat, role : ChunkRoles, sent : BOOLEAN]
  BY <1>1, <1>3
<1> QED
  BY <1>4, <1>5 DEF StreamInv

\* The message of the tools ends a turn, and the next one starts behind it.
LEMMA RoundClosesKeeps == ASSUME StreamInv, RoundCloses, "at" \in DOMAIN run' PROVE StreamInv'
<1> DEFINE at == IF chunks.role # "tool" /\ chunks.sent THEN chunks.index + 1 ELSE chunks.index
<1>1. /\ chunks' = [index |-> at + 1, role |-> "tool", sent |-> TRUE] /\ queue' = queue
      /\ stream' = Append(stream, [index |-> at, role |-> "tool"])
  BY DEF RoundCloses
<1>2. chunks.index \in Nat /\ chunks.sent \in BOOLEAN
  BY DEF StreamInv
<1>3. at \in Nat /\ chunks.index <= at /\ (at = chunks.index => chunks.role = "tool" \/ ~chunks.sent)
  BY <1>2
<1> HIDE DEF at
<1>4. /\ stream' \in Seq(ChunkRecords)
      /\ \A i \in DOMAIN stream' : stream'[i].index <= at
      /\ StreamNamesMessages'
  BY <1>1, <1>3, ChunkComes DEF ChunkRoles
<1>5. \A i \in DOMAIN stream' : stream'[i].index \in Nat
  BY <1>4, ChunksAre
<1>6. at + 1 \in Nat /\ \A i \in DOMAIN stream' : stream'[i].index < at + 1
  BY <1>3, <1>4, <1>5
<1>7. \A i \in DOMAIN stream' : stream'[i].index <= at + 1 /\ stream'[i].index # at + 1
  BY <1>5, <1>6
<1>8. chunks'.index = at + 1 /\ chunks' \in [index : Nat, role : ChunkRoles, sent : BOOLEAN]
  BY <1>1, <1>6 DEF ChunkRoles
<1>9. IsSequence(queue')
  BY <1>1 DEF StreamInv
<1> QED
  BY <1>4, <1>6, <1>7, <1>8, <1>9 DEF StreamInv

LEMMA StartTurnKeeps == ASSUME StreamInv, StartTurn, "at" \in DOMAIN run' PROVE StreamInv'
<1>1. /\ stream' = stream \o DrainedChunks /\ queue' = <<>> /\ run.at = "turn"
      /\ chunks' = [index |-> AfterDrained, role |-> "model", sent |-> FALSE]
  BY DEF StartTurn
<1>2. /\ AfterDrained \in Nat
      /\ stream' \in Seq(ChunkRecords)
      /\ \A i \in DOMAIN stream' : stream'[i].index < AfterDrained
      /\ StreamNamesMessages'
  BY <1>1, DrainedCome
<1>3. \A i \in DOMAIN stream' : stream'[i].index \in Nat
  BY <1>2, ChunksAre
<1>4. \A i \in DOMAIN stream' : stream'[i].index <= AfterDrained /\ stream'[i].index # AfterDrained
  BY <1>2, <1>3
<1>5. chunks'.index = AfterDrained /\ chunks' \in [index : Nat, role : ChunkRoles, sent : BOOLEAN]
  BY <1>1, <1>2 DEF ChunkRoles
<1>6. IsSequence(queue')
  <2>1. <<>> \in Seq({})
    OBVIOUS
  <2> QED
    BY <1>1, <2>1, OfItsElements
<1> QED
  BY <1>2, <1>4, <1>5, <1>6 DEF StreamInv

\* A step that sends nothing, and begins no turn.
LEMMA NothingSent ==
  ASSUME StreamInv, stream' = stream, chunks' = chunks, IsSequence(queue'), "at" \in DOMAIN run',
         run'.at = "turn" => run.at = "turn"
  PROVE  StreamInv'
BY DEF StreamInv, StreamNamesMessages

LEMMA NextCallKeeps == ASSUME NextCall, "at" \in DOMAIN run' PROVE StreamInv'
<1>1. /\ queue' = <<>> /\ stream' = <<>>
      /\ chunks' = [index |-> 0, role |-> "model", sent |-> FALSE]
  BY DEF NextCall
<1>2. IsSequence(queue')
  <2>1. <<>> \in Seq({})
    OBVIOUS
  <2> QED
    BY <1>1, <2>1, OfItsElements
<1>3. /\ stream' \in Seq(ChunkRecords) /\ DOMAIN stream' = {}
      /\ chunks' \in [index : Nat, role : ChunkRoles, sent : BOOLEAN]
  BY <1>1 DEF ChunkRoles
<1> QED
  BY <1>2, <1>3 DEF StreamInv, StreamNamesMessages

\* A step but for the next turn leaves the call where it is, or at another place than a turn.
LEMMA RunIs == ASSUME "at" \in DOMAIN run, [MwNext]_mwVars PROVE "at" \in DOMAIN run'
BY DEF MwNext, mwVars, StartTurn, ModelStreams, ModelFails, AfterFailure, ModelAnswers, Approval,
       ReadFile, EditReads, EditWrites, WriteArtifact, ToolFails, RoundCloses, RoundPauses,
       ResumeCloses, NextCall, SkillsChange

LEMMA StreamKept == ASSUME StreamInv, [MwNext]_mwVars PROVE StreamInv'
<1>1. "at" \in DOMAIN run /\ "at" \in DOMAIN run'
  BY RunIs DEF StreamInv
<1>2. IsSequence(queue)
  BY DEF StreamInv
<1>3. CASE ReadFile
  <2>1. stream' = stream /\ chunks' = chunks /\ run' = run
    BY <1>3 DEF ReadFile
  <2>2. queue' = queue \/ \E part, others : Enqueued(part, others)
    BY <1>3 DEF ReadFile
  <2>3. IsSequence(queue')
    BY <1>2, <2>2, QueueStays
  <2> QED
    BY <1>1, <2>1, <2>3, NothingSent
<1>4. CASE ModelStreams
  <2>1. Made("model") /\ run' = run /\ run.at = "model" /\ queue' = queue
    BY <1>4 DEF ModelStreams
  <2> QED
    BY <1>1, <1>2, <2>1, MadeKeeps DEF ChunkRoles
<1>5. CASE ResumeCloses
  <2>1. Made("tool") /\ run' = [run EXCEPT !.at = "model"] /\ queue' = queue
    BY <1>5 DEF ResumeCloses
  <2>2. run'.at = "model"
    BY <1>1, <2>1
  <2> QED
    BY <1>1, <1>2, <2>1, <2>2, MadeKeeps DEF ChunkRoles
<1>6. CASE stream' = stream /\ chunks' = chunks /\ queue' = queue /\ (run'.at = "turn" => run.at = "turn")
  BY <1>1, <1>2, <1>6, NothingSent
<1>7. CASE Approval \/ EditReads \/ EditWrites \/ WriteArtifact \/ SkillsChange \/ UNCHANGED mwVars
  BY <1>6, <1>7 DEF Approval, EditReads, EditWrites, WriteArtifact, SkillsChange, mwVars
<1>8. CASE ModelFails
  <2>1. run'.at \in {run.at, "failed"}
    BY <1>1, <1>8 DEF ModelFails, AfterFailure
  <2> QED
    BY <1>6, <1>8, <2>1 DEF ModelFails
<1>9. CASE ModelAnswers
  <2>1. run'.at \in {"done", "tools"}
    BY <1>1, <1>9 DEF ModelAnswers
  <2> QED
    BY <1>6, <1>9, <2>1 DEF ModelAnswers
<1>10. CASE ToolFails \/ RoundPauses
  <2>1. run'.at \in {"failed", "paused"}
    BY <1>1, <1>10 DEF ToolFails, RoundPauses
  <2> QED
    BY <1>6, <1>10, <2>1 DEF ToolFails, RoundPauses
<1>11. CASE StartTurn \/ RoundCloses \/ NextCall
  BY <1>1, <1>11, StartTurnKeeps, RoundClosesKeeps, NextCallKeeps
<1> QED
  BY <1>3, <1>4, <1>5, <1>7, <1>8, <1>9, <1>10, <1>11 DEF MwNext

\* Whichever tools of whichever calls edit the file at the same time, those a failed call left
\* to go on among them: an edit that was answered and had it to itself is in the file.  And
\* the chunks a call sends, of its model, its tools and what Filesystem adds, come in the order
\* of its messages, two of one index with one role (genkit_middleware/_filesystem.py,
\* ChunkAccumulator).
THEOREM EditsStandStreamsAreOrdered == MwSpec => [](EditsStand /\ StreamNamesMessages)
<1>1. MwInv /\ [MwNext]_mwVars => MwInv'
  BY EditsKept, StreamKept DEF MwInv
<1>2. MwInv => EditsStand /\ StreamNamesMessages
  BY DEF MwInv, EditsInv, StreamInv
<1> QED
  BY MwBegins, <1>1, <1>2, PTL DEF MwSpec
=============================================================================
