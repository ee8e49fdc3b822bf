----------------------------- MODULE McpSessions -----------------------------
(***************************************************************************)
(* The MCP sessions of the Go supervisor.  SupervisedMCPBackend puts a     *)
(* read-write gate before MCPTransportBackend, which keeps one session     *)
(* (a transport, that is a server process) per plugin.  Callers use the    *)
(* sessions; mcpLifecycle prewarms them, prunes idle ones, and closes      *)
(* everything when the supervisor stops.                                   *)
(*                                                                         *)
(* Goroutines: the callers, the lifecycle, and one that prewarms each      *)
(* plugin, named by the plugin.  backend.mu protects short sections: each  *)
(* is one step.  The lock of a plugin and the lock of a transport are held *)
(* across requests.                                                        *)
(***************************************************************************)
EXTENDS Naturals, FiniteSets

CONSTANTS
    Callers,     \* goroutines of the MCP runtime
    Plugins,
    Transports,  \* bound: transports that exist at a time
    Life,        \* the lifecycle goroutine
    None

Workers == Callers \cup Plugins
Goroutines == Workers \cup {Life}

ASSUME McpAssumption ==
    /\ IsFiniteSet(Goroutines) /\ IsFiniteSet(Transports)
    /\ Callers \cap Plugins = {}
    /\ Life \notin Workers
    /\ None \notin Goroutines \cup Transports

VARIABLES
    stopping,   \* the supervisor has cancelled the context
    closed,     \* backend.closed; shutdownCancel() is called with it
    readers,    \* who holds gate.RLock()
    writer,     \* who holds or has announced gate.Lock(): the lifecycle only
    pc,
    op,         \* what a goroutine was asked to do
    plugin,     \* ... on which plugin
    attempt,    \* rounds of ListTools so far
    tr,         \* the transport a goroutine has in hand
    pluginLock, \* holder of locks[plugin]
    session,    \* sessions[plugin].Transport
    idle,       \* sessions[plugin].LastUsed is IdleTTL ago
    process,    \* the server process of a transport
    mu,         \* holder of transport.mu
    sweep       \* what PruneIdle or Close has yet to close

gateVars == <<stopping, closed, readers, writer>>
jobVars == <<op, plugin, attempt, tr>>
poolVars == <<pluginLock, session, idle>>
serverVars == <<process, mu>>
vars == <<gateVars, pc, jobVars, poolVars, serverVars, sweep>>

Ops == {"call", "list", "prewarm", "prune", "close"}
PCs == {"rest", "rlock", "blocked", "begun", "plugin", "lock", "lookup", "closeOld",
        "create", "init", "store", "use", "request", "invalidate", "closeBad",
        "release", "loop", "join", "announce", "wlock", "sweep", "ended"}

Goto(g, next) == pc' = [pc EXCEPT ![g] = next]
Hold(g, t) == tr' = [tr EXCEPT ![g] = t]

\* transport.Close() and abortLocked() kill the process group
Kill(t) == process' = [process EXCEPT ![t] = "dead"]

\* a transport nobody refers to any more can stand for a new one
Unused(t) ==
    /\ process[t] = "dead" /\ mu[t] = None /\ t \notin sweep
    /\ \A p \in Plugins : session[p] # t
    /\ \A g \in Goroutines : tr[g] # t

-----------------------------------------------------------------------------
(* SupervisedMCPBackend.begin and its cleanup *)

Call(c, o, p) ==
    /\ pc[c] = "rest"
    /\ op' = [op EXCEPT ![c] = o]
    /\ plugin' = [plugin EXCEPT ![c] = p]
    /\ attempt' = [attempt EXCEPT ![c] = 1]
    /\ Goto(c, "rlock")
    /\ UNCHANGED <<gateVars, tr, poolVars, serverVars, sweep>>

\* A reader that finds a writer, waiting or not, waits for it to be done.
RLock(g) ==
    /\ pc[g] = "rlock"
    /\ IF writer = None
       THEN readers' = readers \cup {g} /\ Goto(g, "begun")
       ELSE UNCHANGED readers /\ Goto(g, "blocked")
    /\ UNCHANGED <<stopping, closed, writer, jobVars, poolVars, serverVars, sweep>>

\* Broken on purpose: begin does not look at closed.
BegunUnchecked(c) ==
    /\ c \in Callers /\ pc[c] = "begun"
    /\ Goto(c, "plugin")
    /\ UNCHANGED <<gateVars, jobVars, poolVars, serverVars, sweep>>

\* closed.Load() under the read lock
Begun(c) ==
    /\ c \in Callers /\ pc[c] = "begun"
    /\ Goto(c, IF closed THEN "release" ELSE "plugin")
    /\ UNCHANGED <<gateVars, jobVars, poolVars, serverVars, sweep>>

\* cleanup; a prewarming goroutine runs under the lifecycle's read lock
Release(g) ==
    /\ pc[g] = "release"
    /\ readers' = readers \ {g}
    /\ Goto(g, IF g = Life THEN "loop" ELSE "rest")
    /\ UNCHANGED <<stopping, closed, writer, jobVars, poolVars, serverVars, sweep>>

-----------------------------------------------------------------------------
(* MCPTransportBackend.managedTransport *)

\* PluginStatus: a missing token or command makes the plugin unusable
Status(g) ==
    /\ pc[g] = "plugin"
    /\ Goto(g, "lock") \/ Goto(g, "release")
    /\ UNCHANGED <<gateVars, jobVars, poolVars, serverVars, sweep>>

LockPlugin(g) ==
    /\ pc[g] = "lock"
    /\ pluginLock[plugin[g]] = None
    /\ pluginLock' = [pluginLock EXCEPT ![plugin[g]] = g]
    /\ Goto(g, "lookup")
    /\ UNCHANGED <<gateVars, jobVars, session, idle, serverVars, sweep>>

Unlock(g) == pluginLock' = [pluginLock EXCEPT ![plugin[g]] = None]

\* the session is in use: take it
Found(g) ==
    LET p == plugin[g] IN
    /\ pc[g] = "lookup"
    /\ session[p] # None /\ ~idle[p]
    /\ Hold(g, session[p])
    /\ Unlock(g)
    /\ Goto(g, "use")
    /\ UNCHANGED <<gateVars, op, plugin, attempt, session, idle, serverVars, sweep>>

\* no session, or one that has been idle too long and is closed first
NotFound(g) ==
    LET p == plugin[g] IN
    /\ pc[g] = "lookup"
    /\ session[p] = None \/ idle[p]
    /\ Hold(g, session[p])
    /\ session' = [session EXCEPT ![p] = None]
    /\ idle' = [idle EXCEPT ![p] = FALSE]
    /\ Goto(g, IF session[p] = None THEN "create" ELSE "closeOld")
    /\ UNCHANGED <<gateVars, op, plugin, attempt, pluginLock, serverVars, sweep>>

\* transport.Close() waits for the request in progress on it
CloseOld(g) ==
    /\ pc[g] = "closeOld"
    /\ mu[tr[g]] = None
    /\ Kill(tr[g])
    /\ Hold(g, None)
    /\ Goto(g, "create")
    /\ UNCHANGED <<gateVars, op, plugin, attempt, poolVars, mu, sweep>>

\* Broken on purpose: the early return keeps the plugin's lock.
CreateFailsLocked(g) ==
    /\ pc[g] = "create"
    /\ Goto(g, "release")
    /\ UNCHANGED <<gateVars, jobVars, poolVars, serverVars, sweep>>

\* the factory or the start of the process fails
CreateFails(g) ==
    /\ pc[g] = "create"
    /\ Unlock(g)
    /\ Goto(g, "release")
    /\ UNCHANGED <<gateVars, jobVars, session, idle, serverVars, sweep>>

\* the server process is started and asked to initialize
Create(g, t) ==
    /\ pc[g] = "create"
    /\ Unused(t)
    /\ process' = [process EXCEPT ![t] = "started"]
    /\ mu' = [mu EXCEPT ![t] = g]
    /\ Hold(g, t)
    /\ Goto(g, "init")
    /\ UNCHANGED <<gateVars, op, plugin, attempt, poolVars, sweep>>

\* an error, RequestTimeout or the shutdown: abortLocked, and Close
InitFails(g) ==
    /\ pc[g] = "init"
    /\ Kill(tr[g])
    /\ mu' = [mu EXCEPT ![tr[g]] = None]
    /\ Hold(g, None)
    /\ Unlock(g)
    /\ Goto(g, "release")
    /\ UNCHANGED <<gateVars, op, plugin, attempt, session, idle, sweep>>

InitDone(g) ==
    /\ pc[g] = "init"
    /\ process' = [process EXCEPT ![tr[g]] = "ready"]
    /\ mu' = [mu EXCEPT ![tr[g]] = None]
    /\ Goto(g, "store")
    /\ UNCHANGED <<gateVars, jobVars, poolVars, sweep>>

\* The session is recorded under the time of the lookup, so it may be idle
\* from the start.
Store(g) ==
    /\ pc[g] = "store"
    /\ session' = [session EXCEPT ![plugin[g]] = tr[g]]
    /\ Unlock(g)
    /\ Goto(g, "use")
    /\ UNCHANGED <<gateVars, jobVars, idle, serverVars, sweep>>

-----------------------------------------------------------------------------
(* MCPTransportBackend.ListTools, CallTool, invalidate *)

\* transport.mu is ours; a transport that was closed or aborted meanwhile is
\* "not initialized"
Request(g) ==
    LET t == tr[g] IN
    /\ pc[g] = "use" /\ mu[t] = None
    /\ IF process[t] = "ready"
       THEN mu' = [mu EXCEPT ![t] = g] /\ Goto(g, "request")
       ELSE UNCHANGED mu /\ Goto(g, "invalidate")
    /\ UNCHANGED <<gateVars, jobVars, poolVars, process, sweep>>

Answered(g) ==
    /\ pc[g] = "request"
    /\ mu' = [mu EXCEPT ![tr[g]] = None]
    /\ Hold(g, None)
    /\ Goto(g, "release")
    /\ UNCHANGED <<gateVars, op, plugin, attempt, poolVars, process, sweep>>

\* The request fails.  When its context ended (RequestTimeout, shutdown) the
\* process is killed, otherwise it lives on.
RequestFails(g) ==
    /\ pc[g] = "request"
    /\ UNCHANGED process \/ Kill(tr[g])
    /\ mu' = [mu EXCEPT ![tr[g]] = None]
    /\ Goto(g, "invalidate")
    /\ UNCHANGED <<gateVars, jobVars, poolVars, sweep>>

\* Broken on purpose: ListTools tries for ever.
AfterFailureForever(g) == IF op[g] = "call" THEN "release" ELSE "plugin"

\* ListTools tries once more, CallTool does not
AfterFailure(g) == IF op[g] = "call" \/ attempt[g] = 2 THEN "release" ELSE "plugin"

\* Broken on purpose: the entry of the plugin goes, whoever's it is.
InvalidateAny(g) ==
    LET p == plugin[g] IN
    /\ pc[g] = "invalidate"
    /\ session' = [session EXCEPT ![p] = None]
    /\ idle' = [idle EXCEPT ![p] = FALSE]
    /\ IF session[p] = tr[g]
       THEN Goto(g, "closeBad") /\ UNCHANGED <<tr, attempt>>
       ELSE /\ Hold(g, None) /\ Goto(g, AfterFailure(g))
            /\ attempt' = [attempt EXCEPT ![g] = 2]
    /\ UNCHANGED <<gateVars, op, plugin, pluginLock, serverVars, sweep>>

\* the session is dropped and closed unless it is another one by now
Invalidate(g) ==
    LET p == plugin[g] IN
    /\ pc[g] = "invalidate"
    /\ IF session[p] = tr[g]
       THEN /\ session' = [session EXCEPT ![p] = None]
            /\ idle' = [idle EXCEPT ![p] = FALSE]
            /\ Goto(g, "closeBad") /\ UNCHANGED <<tr, attempt>>
       ELSE /\ Hold(g, None) /\ Goto(g, AfterFailure(g))
            /\ attempt' = [attempt EXCEPT ![g] = 2]
            /\ UNCHANGED <<session, idle>>
    /\ UNCHANGED <<gateVars, op, plugin, pluginLock, serverVars, sweep>>

CloseBad(g) ==
    /\ pc[g] = "closeBad"
    /\ mu[tr[g]] = None
    /\ Kill(tr[g])
    /\ Hold(g, None)
    /\ Goto(g, AfterFailure(g))
    /\ attempt' = [attempt EXCEPT ![g] = 2]
    /\ UNCHANGED <<gateVars, op, plugin, poolVars, mu, sweep>>

-----------------------------------------------------------------------------
(* mcpLifecycle *)

\* a prewarm, at the start and at every health tick
PrewarmTick ==
    /\ pc[Life] = "loop"
    /\ op' = [op EXCEPT ![Life] = "prewarm"]
    /\ Goto(Life, "rlock")
    /\ UNCHANGED <<gateVars, plugin, attempt, tr, poolVars, serverVars, sweep>>

\* Prewarm runs ListTools of the backend behind the gate for every plugin.
Prewarm ==
    /\ pc[Life] = "begun"
    /\ IF closed THEN Goto(Life, "release") /\ UNCHANGED attempt
       ELSE /\ pc' = [g \in Goroutines |-> IF g \in Plugins THEN "plugin"
                                           ELSE IF g = Life THEN "join" ELSE pc[g]]
            /\ attempt' = [g \in Goroutines |-> IF g \in Plugins THEN 1 ELSE attempt[g]]
    /\ UNCHANGED <<gateVars, op, plugin, tr, poolVars, serverVars, sweep>>

Prewarmed ==
    /\ pc[Life] = "join"
    /\ \A p \in Plugins : pc[p] = "rest"
    /\ Goto(Life, "release")
    /\ UNCHANGED <<gateVars, jobVars, poolVars, serverVars, sweep>>

PruneTick ==
    /\ pc[Life] = "loop"
    /\ op' = [op EXCEPT ![Life] = "prune"]
    /\ Goto(Life, "announce")
    /\ UNCHANGED <<gateVars, plugin, attempt, tr, poolVars, serverVars, sweep>>

\* the context is done: closed.CompareAndSwap and shutdownCancel
Close ==
    /\ pc[Life] = "loop" /\ stopping
    /\ closed' = TRUE
    /\ op' = [op EXCEPT ![Life] = "close"]
    /\ Goto(Life, "announce")
    /\ UNCHANGED <<stopping, readers, writer, plugin, attempt, tr, poolVars,
                   serverVars, sweep>>

\* gate.Lock(): from here on new readers wait
Announce ==
    /\ pc[Life] = "announce"
    /\ writer' = Life
    /\ Goto(Life, "wlock")
    /\ UNCHANGED <<stopping, closed, readers, jobVars, poolVars, serverVars, sweep>>

Targets == {p \in Plugins : session[p] # None /\ (op[Life] = "close" \/ idle[p])}

\* Broken on purpose: Lock() does not wait for the readers.
NotExclusive == TRUE

\* Lock() waits for the readers
Exclusive == readers = {}

\* PruneIdle takes the idle sessions out of the map, Close all of them
SweepBegins ==
    /\ pc[Life] = "wlock" /\ Exclusive
    /\ sweep' = {session[p] : p \in Targets}
    /\ session' = [p \in Plugins |-> IF p \in Targets THEN None ELSE session[p]]
    /\ idle' = [p \in Plugins |-> IF p \in Targets THEN FALSE ELSE idle[p]]
    /\ Goto(Life, "sweep")
    /\ UNCHANGED <<gateVars, jobVars, pluginLock, serverVars>>

SweepOne(t) ==
    /\ pc[Life] = "sweep" /\ t \in sweep
    /\ mu[t] = None
    /\ Kill(t)
    /\ sweep' = sweep \ {t}
    /\ UNCHANGED <<gateVars, pc, jobVars, poolVars, mu>>

\* gate.Unlock() lets all readers in that have waited
SweepEnds ==
    /\ pc[Life] = "sweep" /\ sweep = {}
    /\ writer' = None
    /\ readers' = {g \in Goroutines : pc[g] = "blocked"}
    /\ pc' = [g \in Goroutines |->
                CASE g = Life -> IF op[Life] = "close" THEN "ended" ELSE "loop"
                  [] g # Life /\ pc[g] = "blocked" -> "begun"
                  [] OTHER -> pc[g]]
    /\ UNCHANGED <<stopping, closed, jobVars, poolVars, serverVars, sweep>>

-----------------------------------------------------------------------------
(* What happens outside *)

\* the supervisor stops: a signal, or the failure of another component
Stop ==
    /\ ~stopping
    /\ stopping' = TRUE
    /\ UNCHANGED <<closed, readers, writer, pc, jobVars, poolVars, serverVars, sweep>>

\* IdleTTL passes since the last lookup of the session
GrowIdle(p) ==
    /\ session[p] # None /\ ~idle[p]
    /\ idle' = [idle EXCEPT ![p] = TRUE]
    /\ UNCHANGED <<gateVars, pc, jobVars, pluginLock, session, serverVars, sweep>>

Init ==
    /\ stopping = FALSE /\ closed = FALSE
    /\ readers = {} /\ writer = None
    /\ pc = [g \in Goroutines |-> IF g = Life THEN "rlock" ELSE "rest"]
    /\ op = [g \in Goroutines |-> IF g \in Callers THEN "call"
                                  ELSE IF g = Life THEN "prewarm" ELSE "list"]
    /\ \E home \in [Goroutines -> Plugins] :
          plugin = [g \in Goroutines |-> IF g \in Plugins THEN g ELSE home[g]]
    /\ attempt = [g \in Goroutines |-> 1]
    /\ tr = [g \in Goroutines |-> None]
    /\ pluginLock = [p \in Plugins |-> None]
    /\ session = [p \in Plugins |-> None]
    /\ idle = [p \in Plugins |-> FALSE]
    /\ process = [t \in Transports |-> "dead"]
    /\ mu = [t \in Transports |-> None]
    /\ sweep = {}

Locking(g) == LockPlugin(g) \/ CloseOld(g) \/ CloseBad(g) \/ Request(g)

Working(g) ==
    \/ Status(g) \/ Found(g) \/ NotFound(g) \/ CreateFails(g)
    \/ InitFails(g) \/ InitDone(g) \/ Store(g)
    \/ Answered(g) \/ RequestFails(g) \/ Invalidate(g)
    \/ \E t \in Transports : Create(g, t)

Gate(g) == RLock(g) \/ Begun(g) \/ Release(g)

LifeStep ==
    \/ Prewarm \/ Prewarmed \/ Announce \/ SweepBegins \/ SweepEnds
    \/ \E t \in Transports : SweepOne(t)

Next ==
    \/ Stop \/ PrewarmTick \/ PruneTick \/ Close \/ LifeStep
    \/ \E g \in Workers : Locking(g) \/ Working(g)
    \/ \E g \in Goroutines : Gate(g)
    \/ \E p \in Plugins : GrowIdle(p)
    \/ \E c \in Callers, o \in {"call", "list"}, p \in Plugins : Call(c, o, p)

Spec == Init /\ [][Next]_vars

\* Every goroutine runs, and every request ends, by its timeout at the latest.
\* A waiter of a sync.Mutex is served in the end (the mutex has a starvation
\* mode), and the select of runWithTicks chooses among the ready channels at
\* random, so it does not miss ctx.Done() for ever.
Fairness ==
    /\ \A g \in Workers : WF_vars(Working(g)) /\ SF_vars(Locking(g))
    /\ \A g \in Goroutines : WF_vars(Gate(g))
    /\ WF_vars(LifeStep) /\ SF_vars(Close)

FairSpec == Spec /\ Fairness

-----------------------------------------------------------------------------

TypeOK ==
    /\ stopping \in BOOLEAN /\ closed \in BOOLEAN
    /\ readers \subseteq Goroutines /\ writer \in {Life, None}
    /\ pc \in [Goroutines -> PCs]
    /\ op \in [Goroutines -> Ops]
    /\ plugin \in [Goroutines -> Plugins]
    /\ attempt \in [Goroutines -> {1, 2}]
    /\ tr \in [Goroutines -> Transports \cup {None}]
    /\ pluginLock \in [Plugins -> Workers \cup {None}]
    /\ session \in [Plugins -> Transports \cup {None}]
    /\ idle \in [Plugins -> BOOLEAN]
    /\ process \in [Transports -> {"dead", "started", "ready"}]
    /\ mu \in [Transports -> Workers \cup {None}]
    /\ sweep \subseteq Transports

\* Somebody will still close the process of t.
Owned(t) ==
    \/ \E p \in Plugins : session[p] = t
    \/ t \in sweep
    \/ \E g \in Workers : tr[g] = t /\ pc[g] \in {"init", "store", "closeOld", "closeBad"}

\* No server process is orphaned: every one that runs is in the map of
\* sessions, or in the hands of a goroutine that will put it there or close it,
\* whatever calls fail, expire, are invalidated or swept at the same time.
NoOrphans == \A t \in Transports : process[t] # "dead" => Owned(t)

\* "An idle sweep can never tear down a session while ListTools/CallTool/Prewarm
\* is using it": nobody has a transport in hand that is being swept.
SweptUnused == \A t \in sweep, g \in Goroutines : tr[g] # t

\* "No new calls can start after close begins", nor are any left when it ends:
\* Close leaves no session and no server process behind.
ClosedForGood ==
    pc[Life] = "ended" =>
        /\ \A t \in Transports : process[t] = "dead"
        /\ \A g \in Workers : pc[g] \in {"rest", "rlock", "begun", "release"}

\* No lock is left behind and no wait is circular.  Who waits for a plugin waits
\* for a worker that is opening its session; who waits for a transport, there or
\* later, waits for a worker whose request is on its way, which waits for nobody.
\* A reader that waits at the gate waits for a sweep, and the sweep for readers
\* that have work in hand.
NobodyStuck ==
    /\ \A p \in Plugins : pluginLock[p] # None =>
          LET g == pluginLock[p] IN
          plugin[g] = p /\ pc[g] \in {"lookup", "closeOld", "create", "init", "store"}
    /\ \A t \in Transports : mu[t] # None =>
          LET g == mu[t] IN tr[g] = t /\ pc[g] \in {"init", "request"}
    /\ \A g \in Goroutines : pc[g] = "blocked" => pc[Life] \in {"wlock", "sweep"}
    /\ pc[Life] = "wlock" => \A g \in readers : pc[g] \notin {"rest", "rlock", "blocked", "wlock"}

\* When the supervisor stops, the lifecycle ends.
ShutdownEnds == stopping ~> pc[Life] = "ended"

\* Every call returns: behind sweeps, behind each other, during a shutdown.
CallsReturn == \A c \in Callers : pc[c] # "rest" ~> pc[c] = "rest"

=============================================================================
