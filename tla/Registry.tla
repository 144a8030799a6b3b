------------------------------- MODULE Registry -------------------------------
(* The registry (_core/_registry.py) as the application and the dev reflection  *)
(* server use it at once: a child registry over the root, plugins initialised   *)
(* lazily once per event loop, prompts loaded on first access, one dynamic      *)
(* action provider.  Each loop is a thread; a thread runs one task at a time    *)
(* and a task gives it up only at an await.  Every task makes one call.         *)
EXTENDS DynamicProvider, FiniteSets

CONSTANTS Plugins,      \* all plugins
          Early,        \* those registered before the first call
          PluginOf,     \* name -> the plugin its first segment names, or None
          InitGives,    \* plugin -> the names its init() returns actions for
          Resolvable,   \* plugin -> the names its resolve() knows
          Own,          \* "root" | "child" -> the names registered beforehand
          LazyNames,    \* names of prompts loaded from files
          DapNames,     \* names <provider>:<kind>/<name> of the provider
          Plans         \* the calls tasks may make: task -> None or op, name, reg

Names == DOMAIN PluginOf
Regs == {"root", "child"}

(* The namespace of register_action_instance: the name of a plugin's action begins   *)
(* with the plugin's, and only such names are asked of plugin.resolve.             *)
ASSUME NamesAreNamespaced ==
  \A p \in Plugins : \A n \in InitGives[p] \union Resolvable[p] : PluginOf[n] = p

ASSUME RegistryConstants ==
  /\ IsFiniteSet(Plugins) /\ Early \subseteq Plugins
  /\ InitGives \in [Plugins -> SUBSET Names]
  /\ Resolvable \in [Plugins -> SUBSET Names]
  /\ Own \in [Regs -> SUBSET Names] /\ Own["child"] \intersect LazyNames = {}
  /\ Plans \subseteq [Tasks -> {None} \union
                        [op : {"resolve", "list"}, name : Names, reg : Regs]]

VARIABLES
  entries,   \* registry -> the names in its _entries
  plugins,   \* the root's _plugins
  init,      \* loop -> plugin -> the cached init task
  ready,     \* loop -> _all_plugins_initialized
  loading,   \* _loading_actions
  lock,      \* the root's RLock: the loop (thread) that holds it and how deep
  blocked,   \* loop -> None or the task whose `with self._lock` blocks the thread
  call,      \* task -> its call
  plan       \* the calls of this behaviour, chosen at the start

regVars == <<entries, plugins, init, ready, loading, lock, blocked, call, plan>>
registryVars == <<dapVars, regVars>>

NoCall == [pc |-> "idle", op |-> "resolve", name |-> CHOOSE n \in Names : TRUE,
           reg |-> "root", plugin |-> None, left |-> {}, count |-> 0, rows |-> {}, owed |-> {},
           ans |-> "none"]

RegistryInit ==
  /\ DapInit
  /\ entries = Own /\ plugins = Early
  /\ init = [l \in Loops |-> [p \in Plugins |-> "none"]]
  /\ ready = [l \in Loops |-> FALSE]
  /\ loading = {}
  /\ lock = [owner |-> None, depth |-> 0]
  /\ blocked = [l \in Loops |-> None]
  /\ call = [t \in Tasks |-> NoCall]
  /\ plan \in Plans

(* ------------------------------ threads and lock ------------------------------ *)

(* The thread is free to run t: none of its tasks blocks it. *)
CanRun(t) == blocked[LoopOf[t]] \in {None, t}
Idle(l) == blocked[l] = None

(* `with self._lock:` can be entered: the RLock is free or this thread's. *)
Lockable(l) == lock.owner \in {None, l}

(* A step that enters and leaves the lock without an await between. *)
Briefly(t) == /\ CanRun(t) /\ Lockable(LoopOf[t])
              /\ blocked' = [blocked EXCEPT ![LoopOf[t]] = None]
              /\ UNCHANGED lock

(* A step that enters the lock and awaits inside. *)
Acquires(t) ==
  /\ CanRun(t) /\ Lockable(LoopOf[t])
  /\ blocked' = [blocked EXCEPT ![LoopOf[t]] = None]
  /\ lock' = [owner |-> LoopOf[t], depth |-> lock.depth + 1]

Released == IF lock.depth = 1 THEN [owner |-> None, depth |-> 0]
                              ELSE [lock EXCEPT !.depth = @ - 1]

NeedsLock(pc) == pc \in {"lookup", "ensure", "recheck", "register", "listInit",
                         "listReady", "listEntries", "listDap"}

(* The other thread holds the lock across an await: this whole thread stops. *)
Block(t) ==
  /\ NeedsLock(call[t].pc) /\ CanRun(t) /\ ~Lockable(LoopOf[t])
  /\ Idle(LoopOf[t])
  /\ blocked' = [blocked EXCEPT ![LoopOf[t]] = t]
  /\ UNCHANGED <<dapVars, entries, plugins, init, ready, loading, lock, call>>

(* --------------------------------- resolving --------------------------------- *)

Goes(t, pc) == call' = [call EXCEPT ![t].pc = pc]
Answers(t, ans) == call' = [call EXCEPT ![t].pc = "end", ![t].ans = ans]

(* What the chain of registries knows without asking anyone new. *)
Chain(r) == entries["root"] \union (IF r = "child" THEN entries["child"] ELSE {})

Begin(t, q) ==
  /\ call[t].pc = "idle" /\ CanRun(t) /\ q # None
  /\ call' = [call EXCEPT ![t] =
       [NoCall EXCEPT !.op = q.op, !.name = q.name, !.reg = q.reg,
          !.pc = IF q.op = "resolve" THEN "lookup" ELSE "listInit",
          !.owed = Chain(q.reg) \union UNION {
                     IF q.op = "list" THEN InitGives[p]
                     ELSE InitGives[p] \union Resolvable[p] : p \in plugins}]]
  /\ UNCHANGED <<dapVars, entries, plugins, init, ready, loading, lock, blocked>>

(* Nothing in this registry: the parent is asked, or the answer is None. *)
Fallback(t) == IF call[t].reg = "child"
                 THEN call' = [call EXCEPT ![t].pc = "lookup", ![t].reg = "root"]
                 ELSE Answers(t, "missing")

(* _trigger_lazy_loading of a hit, reached inside `with self._lock`: the factory *)
(* is awaited with the lock held, unless another call is already loading it.     *)
Hit(t) ==
  LET n == call[t].name
  IN IF n \in LazyNames /\ n \notin loading
       THEN /\ Acquires(t)
            /\ loading' = loading \union {n}
            /\ Goes(t, "loading")
       ELSE Briefly(t) /\ Answers(t, "found") /\ UNCHANGED loading

(* resolve_action on one registry: the exact name; then a provider-qualified    *)
(* name; then the plugin its first segment names; then the parent.              *)
Lookup(t) ==
  LET n == call[t].name
      r == call[t].reg
  IN /\ call[t].pc = "lookup"
     /\ \/ n \in entries[r] /\ Hit(t)
        \/ /\ n \notin entries[r]
           /\ Briefly(t) /\ UNCHANGED loading
           /\ CASE n \in DapNames -> IF r = "root" THEN Goes(t, "askDap")
                                                   ELSE Fallback(t)
                [] n \notin DapNames /\ r = "root" /\ PluginOf[n] \in plugins -> Goes(t, "ensure")
                [] OTHER -> Fallback(t)
     /\ UNCHANGED <<dapVars, entries, plugins, init, ready>>

(* The factory ended, well or badly (a failure is only logged). *)
Loaded(t) ==
  /\ call[t].pc = "loading" /\ CanRun(t)
  /\ loading' = loading \ {call[t].name}
  /\ lock' = Released
  /\ Answers(t, "found")
  /\ UNCHANGED <<dapVars, entries, plugins, init, ready, blocked>>

(* _ensure_plugin_initialized: one task per loop and plugin, made under the     *)
(* lock and kept for ever, whatever it ended with.                              *)
Ensured(l, p) == IF init[l][p] = "none" THEN [init EXCEPT ![l][p] = "running"]
                                        ELSE init

Ensure(t) ==
  /\ call[t].pc = "ensure" /\ Briefly(t)
  /\ LET p == PluginOf[call[t].name]
     IN /\ init' = Ensured(LoopOf[t], p)
        /\ call' = [call EXCEPT ![t].pc = "awaitInit", ![t].plugin = p]
  /\ UNCHANGED <<dapVars, entries, plugins, ready, loading>>

(* run_init: plugin.init() returned its actions, which are registered under the *)
(* plugin's namespace, or it raised.                                            *)
InitEnds(l, p) ==
  /\ init[l][p] = "running" /\ Idle(l) /\ Lockable(l)
  /\ \/ /\ init' = [init EXCEPT ![l][p] = "done"]
        /\ entries' = [entries EXCEPT !["root"] = @ \union InitGives[p]]
     \/ /\ init' = [init EXCEPT ![l][p] = "failed"]
        /\ UNCHANGED entries
  /\ UNCHANGED <<dapVars, plugins, ready, loading, lock, blocked, call>>

(* `await task` returned, raised or was cancelled with the shared task.  A list *)
(* goes on with the plugins left, a resolve with what init() registered.        *)
AwaitInit(t) ==
  LET p == call[t].plugin
      ended == init[LoopOf[t]][p]
      rest == call[t].left \ {p}
  IN /\ call[t].pc = "awaitInit" /\ CanRun(t)
     /\ ended # "running"
     /\ CASE ended = "failed" -> Answers(t, "error")
          [] ended = "cancelled" -> Answers(t, "cancelled")
          [] ended = "done" /\ call[t].op = "resolve" -> Goes(t, "recheck")
          [] OTHER -> call' = [call EXCEPT ![t].left = rest,
                        ![t].pc = IF rest = {} THEN "listReady" ELSE "listEnsure"]
     /\ UNCHANGED <<dapVars, entries, plugins, init, ready, loading, lock, blocked>>

(* init() may have registered the very action. *)
Recheck(t) ==
  /\ call[t].pc = "recheck"
  /\ \/ call[t].name \in entries["root"] /\ Hit(t)
     \/ /\ call[t].name \notin entries["root"]
        /\ Briefly(t) /\ Goes(t, "pluginResolve") /\ UNCHANGED loading
  /\ UNCHANGED <<dapVars, entries, plugins, init, ready>>

(* plugin.resolve(kind, name), which may raise. *)
PluginResolve(t) ==
  LET n == call[t].name
  IN /\ call[t].pc = "pluginResolve" /\ CanRun(t)
     /\ \/ Answers(t, "error")
        \/ n \in Resolvable[PluginOf[n]] /\ Goes(t, "register")
        \/ n \notin Resolvable[PluginOf[n]] /\ Fallback(t)
     /\ UNCHANGED <<dapVars, entries, plugins, init, ready, loading, lock, blocked>>

(* register_action_instance of what the plugin resolved. *)
RegisterResolved(t) ==
  /\ call[t].pc = "register" /\ Briefly(t)
  /\ entries' = [entries EXCEPT !["root"] = @ \union {call[t].name}]
  /\ Answers(t, "found")
  /\ UNCHANGED <<dapVars, plugins, init, ready, loading>>

(* _resolve_dap_qualified_action: dap.get_action *)
AskDap(t) ==
  /\ call[t].pc \in {"askDap", "listDap"} /\ Briefly(t)
  /\ GetOrFetch(t, call[t].pc = "listDap")
  /\ Goes(t, IF call[t].pc = "listDap" THEN "listing" ELSE "asking")
  /\ UNCHANGED <<entries, plugins, init, ready, loading>>

(* The provider's children at a version of the source: none before the first. *)
Listed(ver) == IF ver = 0 THEN {} ELSE DapNames

DapAnswers(t) ==
  /\ call[t].pc = "asking" /\ CanRun(t)
  /\ asked[t].pc \in {"got", "failed"}
  /\ Answers(t, IF asked[t].pc = "got" /\ call[t].name \in Listed(asked[t].ver)
                  THEN "found" ELSE "error")
  /\ StopAsking(t)
  /\ UNCHANGED <<entries, plugins, init, ready, loading, lock, blocked>>

(* ---------------------------------- listing ---------------------------------- *)

(* list_actions begins with initialize_all_plugins: skipped when this loop has  *)
(* done it; else the plugins of now are initialised one after the other.        *)
ListInit(t) ==
  /\ call[t].pc = "listInit" /\ Briefly(t)
  /\ IF ready[LoopOf[t]] \/ call[t].reg = "child"
       THEN Goes(t, "listEntries")
       ELSE call' = [call EXCEPT ![t].left = plugins, ![t].count = Cardinality(plugins),
                       ![t].pc = IF plugins = {} THEN "listReady" ELSE "listEnsure"]
  /\ UNCHANGED <<dapVars, entries, plugins, init, ready, loading>>

ListEnsure(t, p) ==
  /\ call[t].pc = "listEnsure" /\ p \in call[t].left
  /\ Briefly(t)
  /\ init' = Ensured(LoopOf[t], p)
  /\ call' = [call EXCEPT ![t].pc = "awaitInit", ![t].plugin = p]
  /\ UNCHANGED <<dapVars, entries, plugins, ready, loading>>

(* Fault: the loop is marked done though a plugin came meanwhile. *)
ListReadyAnyway(t) ==
  /\ call[t].pc = "listReady" /\ Briefly(t)
  /\ ready' = [ready EXCEPT ![LoopOf[t]] = TRUE]
  /\ Goes(t, "listEntries")
  /\ UNCHANGED <<dapVars, entries, plugins, init, loading>>

(* The loop is marked done unless a plugin was registered meanwhile. *)
ListReady(t) ==
  /\ call[t].pc = "listReady" /\ Briefly(t)
  /\ ready' = IF Cardinality(plugins) = call[t].count
                THEN [ready EXCEPT ![LoopOf[t]] = TRUE] ELSE ready
  /\ Goes(t, "listEntries")
  /\ UNCHANGED <<dapVars, entries, plugins, init, loading>>

(* Rows of the registered actions, after those each plugin advertises (left out: *)
(* a plugin that raises there contributes none); resolve_actions_by_kind loads   *)
(* the lazy ones with the lock released.                                        *)
ListEntries(t) ==
  LET r == call[t].reg
      lazy == (entries[r] \intersect LazyNames) \ loading
  IN /\ call[t].pc = "listEntries" /\ Briefly(t)
     /\ call' = [call EXCEPT ![t].rows = @ \union entries[r],
                             ![t].left = lazy,
                             ![t].pc = IF lazy = {} THEN "listed" ELSE "listLoading"]
     /\ loading' = loading \union lazy
     /\ UNCHANGED <<dapVars, entries, plugins, init, ready>>

ListLoaded(t) ==
  /\ call[t].pc = "listLoading" /\ CanRun(t)
  /\ loading' = loading \ call[t].left
  /\ call' = [call EXCEPT ![t].pc = "listed", ![t].left = {}]
  /\ UNCHANGED <<dapVars, entries, plugins, init, ready, lock, blocked>>

(* The provider lives on the root; a child goes on with its parent's list. *)
ListedEntries(t) ==
  /\ call[t].pc = "listed" /\ CanRun(t)
  /\ IF call[t].reg = "root" THEN Goes(t, "listDap")
       ELSE call' = [call EXCEPT ![t].pc = "listInit", ![t].reg = "root"]
  /\ UNCHANGED <<dapVars, entries, plugins, init, ready, loading, lock, blocked>>

(* _list_dap_children: the rows, none when the provider failed, none when the   *)
(* timeout came first (the fetch is not cancelled).                             *)
DapListed(t) ==
  /\ call[t].pc = "listing" /\ CanRun(t)
  /\ call' = [call EXCEPT ![t].pc = "end", ![t].ans = "found",
        ![t].rows = @ \union (IF asked[t].pc = "got" THEN Listed(asked[t].ver) ELSE {})]
  /\ StopAsking(t)
  /\ UNCHANGED <<entries, plugins, init, ready, loading, lock, blocked>>

(* ----------------------------- around the calls ----------------------------- *)

(* Bound: only where some call lists. *)
RegisterPlugin(p) ==
  /\ p \notin plugins
  /\ \E t \in Tasks : plan[t] # None /\ plan[t].op = "list"
  /\ \E l \in Loops : Idle(l) /\ Lockable(l)
  /\ plugins' = plugins \union {p}
  /\ ready' = [l \in Loops |-> FALSE]
  /\ UNCHANGED <<dapVars, entries, init, loading, lock, blocked, call>>

(* The caller is cancelled at an await.  The shared init task is awaited        *)
(* unshielded, so it is cancelled with the caller; the shielded fetch is not.   *)
(* Bound: one call is cancelled.                                                *)
CancelCall(t) ==
  LET c == call[t]
      l == LoopOf[t]
  IN /\ \A u \in Tasks : call[u].ans # "dropped"
     /\ c.pc \in {"awaitInit", "loading", "pluginResolve",
                  "listLoading", "asking", "listing"}
     /\ Idle(l)
     /\ Answers(t, "dropped")
     /\ init' = IF c.pc = "awaitInit" /\ init[l][c.plugin] = "running"
                  THEN [init EXCEPT ![l][c.plugin] = "cancelled"] ELSE init
     /\ IF c.pc = "loading"
          THEN lock' = Released /\ loading' = loading \ {c.name}
          ELSE /\ UNCHANGED lock
               /\ loading' = IF c.pc = "listLoading" THEN loading \ c.left ELSE loading
     /\ IF c.pc \in {"asking", "listing"} THEN StopAsking(t) ELSE UNCHANGED dapVars
     /\ UNCHANGED <<entries, plugins, ready, blocked>>

(* Bound: the provider's surroundings change only in plans that name it. *)
ReachesProvider ==
  \E t \in Tasks : plan[t] # None /\ plan[t].name \in DapNames

Provider == /\ \/ \E l \in Loops : Idle(l) /\ DapStep(l)
               \/ ReachesProvider /\ DapEnvironment
            /\ UNCHANGED regVars

TaskStep(t) ==
  \/ Lookup(t) \/ Loaded(t) \/ Ensure(t) \/ AwaitInit(t) \/ Recheck(t)
  \/ PluginResolve(t) \/ RegisterResolved(t) \/ AskDap(t) \/ DapAnswers(t)
  \/ ListInit(t) \/ (\E p \in Plugins : ListEnsure(t, p))
  \/ ListReady(t) \/ ListEntries(t) \/ ListLoaded(t)
  \/ ListedEntries(t) \/ DapListed(t) \/ Block(t)

(* What the event loops do by themselves: tasks are scheduled, an init returns or *)
(* raises.                                                                      *)
Scheduled == \/ \E t \in Tasks : TaskStep(t)
             \/ \E l \in Loops, p \in Plugins : InitEnds(l, p)

RegistryNext ==
  \/ /\ \/ Scheduled
        \/ \E t \in Tasks : CancelCall(t) \/ Begin(t, plan[t])
        \/ \E p \in Plugins : RegisterPlugin(p)
     /\ UNCHANGED plan
  \/ Provider

(* Some task that can run does; the provider need not move, for a remote          *)
(* transport can stall (_registry.py:60).                                       *)
RegistrySpec == RegistryInit /\ [][RegistryNext]_registryVars
                /\ WF_registryVars(Scheduled /\ UNCHANGED plan)

(* --------------------------------- properties --------------------------------- *)

(* resolve_action answers None only for a name that nobody in the chain of      *)
(* registries knew when the call was made and no plugin registered then can     *)
(* produce: neither what init() registers while the call waits nor what          *)
(* plugin.resolve finds is missed.  A list_actions answer misses no action      *)
(* registered when the call was made, nor one that init() of a plugin           *)
(* registered by then returns, though another call initialised the plugin,      *)
(* another loop did, or the plugin came while this loop was being marked done.  *)
AnswersAreComplete ==
  \A t \in Tasks :
    /\ call[t].ans = "missing" => call[t].name \notin call[t].owed
    /\ call[t].ans = "found" /\ call[t].op = "list" => call[t].owed \subseteq call[t].rows

(* A task that gives up its call (a client that goes away) disturbs no other    *)
(* call: no call that was not itself cancelled ends in a CancelledError.        *)
CancelIsLocal == \A t \in Tasks : call[t].ans # "cancelled"

(* Every call ends, a list even when the provider never answers; only a resolve *)
(* of the provider's own name may wait for it.  No thread stays behind the lock *)
(* that another thread holds while it loads a prompt.                           *)
CallsEnd ==
  \A t \in Tasks :
    call[t].pc \in {"lookup", "listInit"} ~>
      call[t].pc = "end" \/ (call[t].pc = "asking" /\ call[t].op = "resolve")
=============================================================================
