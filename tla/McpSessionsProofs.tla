-------------------------- MODULE McpSessionsProofs --------------------------
(***************************************************************************)
(* For any number of callers, plugins and transports: types, NoOrphans,    *)
(* SweptUnused, ClosedForGood, NobodyStuck.                                *)
(***************************************************************************)
EXTENDS McpSessions, TLAPS

-----------------------------------------------------------------------------
(* The inductive invariant *)

Opening == {"closeOld", "create", "init", "store"}
Holding == {"closeOld", "init", "store", "use", "request", "invalidate", "closeBad"}
LifePCs == {"rlock", "blocked", "begun", "release", "loop", "join", "announce", "wlock",
            "sweep", "ended"}
Inside == {"begun", "plugin", "lock", "lookup", "create", "release"} \cup Holding

WorkerPCs == {"rest", "rlock", "blocked"} \cup Inside

\* Who holds the lifecycle's lock or a prewarming goroutine's place is inside
\* the gate, and a sweep finds nobody inside.
Gated ==
    /\ writer = Life <=> pc[Life] \in {"wlock", "sweep"}
    /\ pc[Life] = "sweep" => readers = {}
    /\ sweep # {} => pc[Life] = "sweep"
    /\ \A c \in Callers : pc[c] \in Inside => c \in readers
    /\ \A p \in Plugins : pc[p] # "rest" => pc[Life] = "join" /\ pc[p] \in Inside

\* Transports are in the hands of those whose step needs one.
Handled ==
    /\ \A g \in Workers : IF pc[g] \in Holding THEN tr[g] \in Transports ELSE tr[g] = None
    /\ \A g \in Workers : pc[g] \in WorkerPCs
    /\ tr[Life] = None
    /\ pc[Life] \in LifePCs

\* The plugin's lock covers a transport from the lookup until it is recorded,
\* and its session is gone meanwhile.
Locked ==
    \A g \in Workers :
        /\ pc[g] \in Opening \cup {"lookup"} => pluginLock[plugin[g]] = g
        /\ pc[g] \in Opening => session[plugin[g]] = None

\* Nothing comes back after Close.
Shut ==
    /\ op[Life] = "close" => pc[Life] \in {"announce", "wlock", "sweep", "ended"} /\ closed
    /\ pc[Life] = "ended" => op[Life] = "close"
    /\ pc[Life] \in {"sweep", "ended"} /\ op[Life] = "close" => \A p \in Plugins : session[p] = None
    /\ pc[Life] = "ended" => \A g \in Workers : pc[g] \in {"rest", "rlock", "begun", "release"}

\* A lock has a holder whose step needs it.
Left ==
    /\ \A p \in Plugins : pluginLock[p] # None =>
          plugin[pluginLock[p]] = p /\ pc[pluginLock[p]] \in Opening \cup {"lookup"}
    /\ \A t \in Transports : mu[t] # None => tr[mu[t]] = t /\ pc[mu[t]] \in {"init", "request"}

\* The gate has readers that are inside, and who waits at it waits for a sweep.
Admitted ==
    /\ \A g \in readers : IF g = Life THEN pc[Life] \in {"begun", "join", "release"}
                          ELSE pc[g] \in Inside
    /\ \A g \in Workers : pc[g] = "blocked" => pc[Life] \in {"wlock", "sweep"}
    /\ pc[Life] # "blocked"

Inv == Gated /\ Handled /\ Locked /\ NoOrphans /\ Shut /\ Left /\ Admitted

\* What the assumption says of the goroutines.
LEMMA Constants ==
    /\ None \notin Goroutines /\ None \notin Transports
    /\ Life \notin Workers /\ Life \in Goroutines /\ Life # None
    /\ Workers \subseteq Goroutines /\ Callers \subseteq Workers /\ Plugins \subseteq Workers
    /\ Callers \cap Plugins = {} /\ Goroutines = Workers \cup {Life}
    /\ Workers = Callers \cup Plugins
  BY McpAssumption DEF Goroutines, Workers

-----------------------------------------------------------------------------
(* Types *)

\* The initial state has the types.
LEMMA InitTyped == Init => TypeOK
  <1> SUFFICES ASSUME Init PROVE TypeOK
    OBVIOUS
  <1> USE Constants DEF Init
  <1>1. pc \in [Goroutines -> PCs] /\ op \in [Goroutines -> Ops]
    BY DEF PCs, Ops
  <1>2. plugin \in [Goroutines -> Plugins]
    <2>1. PICK home \in [Goroutines -> Plugins] :
             plugin = [g \in Goroutines |-> IF g \in Plugins THEN g ELSE home[g]]
      OBVIOUS
    <2>2. \A g \in Goroutines : (IF g \in Plugins THEN g ELSE home[g]) \in Plugins
      OBVIOUS
    <2>3. QED
      BY <2>1, <2>2
  <1>3. attempt \in [Goroutines -> {1, 2}] /\ tr \in [Goroutines -> Transports \cup {None}]
    OBVIOUS
  <1>4. /\ pluginLock \in [Plugins -> Workers \cup {None}]
        /\ session \in [Plugins -> Transports \cup {None}]
        /\ idle \in [Plugins -> BOOLEAN]
    OBVIOUS
  <1>5. /\ process \in [Transports -> {"dead", "started", "ready"}]
        /\ mu \in [Transports -> Workers \cup {None}]
    OBVIOUS
  <1>6. QED
    BY <1>1, <1>2, <1>3, <1>4, <1>5 DEF TypeOK

\* Every step keeps the types.
LEMMA NextTyped == TypeOK /\ [Next]_vars => TypeOK'
  <1> SUFFICES ASSUME TypeOK, [Next]_vars PROVE TypeOK'
    OBVIOUS
  <1> USE Constants DEF TypeOK, gateVars, jobVars, poolVars, serverVars, Goto, Hold, Kill
  <1>1. CASE Stop \/ PrewarmTick \/ PruneTick \/ Close
    <2>1. CASE Stop
      BY <2>1 DEF Stop
    <2>5. CASE PruneTick
      BY <2>5 DEF PruneTick, PCs, Ops
    <2>2. CASE PrewarmTick
      BY <2>2 DEF PrewarmTick, PCs, Ops
    <2>3. CASE Close
      BY <2>3 DEF Close, PCs, Ops
    <2>4. QED
      BY <1>1, <2>1, <2>2, <2>3, <2>5
  <1>2. CASE Prewarm
    <2>1. pc' \in [Goroutines -> PCs]
      BY <1>2 DEF Prewarm, PCs
    <2>2. attempt' \in [Goroutines -> {1, 2}]
      BY <1>2 DEF Prewarm
    <2>3. QED
      BY <1>2, <2>1, <2>2 DEF Prewarm
  <1>3. CASE Prewarmed \/ Announce
    BY <1>3 DEF Prewarmed, Announce, PCs
  <1>4. CASE SweepBegins
    <2>1. sweep' \subseteq Transports
      BY <1>4 DEF SweepBegins, Targets
    <2>2. session' \in [Plugins -> Transports \cup {None}] /\ idle' \in [Plugins -> BOOLEAN]
      BY <1>4 DEF SweepBegins
    <2>3. QED
      BY <1>4, <2>1, <2>2 DEF SweepBegins, PCs
  <1>5. CASE SweepEnds
    <2>1. pc' \in [Goroutines -> PCs]
      <3>1. \A g \in Goroutines : (CASE g = Life -> IF op[Life] = "close" THEN "ended" ELSE "loop"
                                     [] pc[g] = "blocked" -> "begun"
                                     [] OTHER -> pc[g]) \in PCs
        BY DEF PCs
      <3>2. QED
        BY <1>5, <3>1 DEF SweepEnds
    <2>2. readers' \subseteq Goroutines /\ writer' = None
      BY <1>5 DEF SweepEnds
    <2>3. QED
      BY <1>5, <2>1, <2>2 DEF SweepEnds
  <1>6. ASSUME NEW t \in Transports, SweepOne(t) PROVE TypeOK'
    BY <1>6 DEF SweepOne
  <1>7. ASSUME NEW p \in Plugins, GrowIdle(p) PROVE TypeOK'
    BY <1>7 DEF GrowIdle
  <1>8. ASSUME NEW c \in Callers, NEW o \in {"call", "list"}, NEW p \in Plugins, Call(c, o, p)
        PROVE TypeOK'
    BY <1>8 DEF Call, PCs, Ops
  <1>9. ASSUME NEW g \in Goroutines, Gate(g) PROVE TypeOK'
    BY <1>9 DEF Gate, RLock, Begun, Release, PCs
  <1>10. ASSUME NEW g \in Workers, Locking(g) PROVE TypeOK'
    <2>1. CASE LockPlugin(g)
      BY <2>1 DEF LockPlugin, PCs
    <2>2. CASE CloseOld(g)
      BY <2>2 DEF CloseOld, PCs
    <2>3. CASE CloseBad(g)
      BY <2>3 DEF CloseBad, AfterFailure, PCs
    <2>4. CASE Request(g)
      BY <2>4 DEF Request, PCs
    <2>5. QED
      BY <1>10, <2>1, <2>2, <2>3, <2>4 DEF Locking
  <1>11. ASSUME NEW g \in Workers, Status(g) \/ Found(g) \/ NotFound(g) PROVE TypeOK'
    <2>1. CASE Status(g)
      BY <2>1 DEF Status, PCs
    <2>2. CASE Found(g)
      BY <2>2 DEF Found, Unlock, PCs
    <2>3. CASE NotFound(g)
      BY <2>3 DEF NotFound, PCs
    <2>4. QED
      BY <1>11, <2>1, <2>2, <2>3
  <1>12. ASSUME NEW g \in Workers, NEW t \in Transports, Create(g, t) PROVE TypeOK'
    BY <1>12 DEF Create, PCs
  <1>13. ASSUME NEW g \in Workers, CreateFails(g) \/ InitFails(g) \/ InitDone(g) \/ Store(g)
         PROVE  TypeOK'
    <2>1. CASE CreateFails(g) \/ Store(g)
      BY <2>1 DEF CreateFails, Store, Unlock, PCs
    <2>2. CASE InitFails(g)
      BY <2>2 DEF InitFails, Unlock, PCs
    <2>3. CASE InitDone(g)
      BY <2>3 DEF InitDone, PCs
    <2>4. QED
      BY <1>13, <2>1, <2>2, <2>3
  <1>14. ASSUME NEW g \in Workers, Answered(g) \/ RequestFails(g) \/ Invalidate(g) PROVE TypeOK'
    <2>1. CASE Answered(g)
      BY <2>1 DEF Answered, PCs
    <2>2. CASE RequestFails(g)
      <3>1. process' \in [Transports -> {"dead", "started", "ready"}]
        BY <2>2 DEF RequestFails
      <3>2. QED
        BY <2>2, <3>1 DEF RequestFails, PCs
    <2>3. CASE Invalidate(g)
      <3>1. CASE session[plugin[g]] = tr[g]
        <4>0. /\ session' = [session EXCEPT ![plugin[g]] = None]
              /\ idle' = [idle EXCEPT ![plugin[g]] = FALSE]
              /\ pc' = [pc EXCEPT ![g] = "closeBad"]
          BY <2>3, <3>1 DEF Invalidate
        <4>1. /\ session' \in [Plugins -> Transports \cup {None}]
              /\ idle' \in [Plugins -> BOOLEAN]
              /\ pc' \in [Goroutines -> PCs]
          BY <4>0 DEF PCs
        <4>2. tr' = tr /\ attempt' = attempt
          BY <2>3, <3>1 DEF Invalidate
        <4>3. UNCHANGED <<gateVars, op, plugin, pluginLock, serverVars, sweep>>
          BY <2>3 DEF Invalidate
        <4>4. QED
          BY <4>1, <4>2, <4>3
      <3>2. CASE session[plugin[g]] # tr[g]
        BY <2>3, <3>2 DEF Invalidate, AfterFailure, PCs
      <3>3. QED
        BY <3>1, <3>2
    <2>4. QED
      BY <1>14, <2>1, <2>2, <2>3
  <1>15. CASE UNCHANGED vars
    BY <1>15 DEF vars
  <1> HIDE DEF TypeOK, gateVars, jobVars, poolVars, serverVars, Goto, Hold, Kill
  <1>16. QED
    BY <1>1, <1>2, <1>3, <1>4, <1>5, <1>6, <1>7, <1>8, <1>9, <1>10, <1>11, <1>12, <1>13,
       <1>14, <1>15 DEF Next, LifeStep, Working

\* The state of the gate, the goroutines, the sessions and the servers keeps its
\* types.
THEOREM Typing == Spec => []TypeOK
  BY InitTyped, NextTyped, PTL DEF Spec

-----------------------------------------------------------------------------
(* The gate *)

Inner == {"plugin", "lock", "lookup", "create"} \cup Holding

\* A worker's steps between the gate and its release change the state of that
\* worker, and neither the gate nor the lifecycle.
LEMMA WorkerStep ==
    ASSUME TypeOK, NEW g \in Workers, Locking(g) \/ Working(g)
    PROVE  /\ pc[g] \in Inner
           /\ \E next \in Inner \cup {"release"} : pc' = [pc EXCEPT ![g] = next]
           /\ UNCHANGED <<stopping, closed, readers, writer, op, plugin, sweep>>
  <1> USE Constants DEF Inner, Holding, Goto, gateVars, jobVars
  <1>1. CASE LockPlugin(g) \/ CloseOld(g) \/ Status(g) \/ Found(g) \/ CreateFails(g)
    BY <1>1 DEF LockPlugin, CloseOld, Status, Found, CreateFails
  <1>2. CASE NotFound(g)
    BY <1>2 DEF NotFound
  <1>3. CASE CloseBad(g)
    BY <1>3 DEF CloseBad, AfterFailure
  <1>4. CASE Request(g)
    BY <1>4 DEF Request
  <1>5. CASE \E t \in Transports : Create(g, t)
    BY <1>5 DEF Create
  <1>6. CASE InitFails(g) \/ InitDone(g) \/ Store(g) \/ Answered(g) \/ RequestFails(g)
    BY <1>6 DEF InitFails, InitDone, Store, Answered, RequestFails
  <1>7. CASE Invalidate(g)
    BY <1>7 DEF Invalidate, AfterFailure
  <1>8. QED
    BY <1>1, <1>2, <1>3, <1>4, <1>5, <1>6, <1>7 DEF Locking, Working

\* While the lifecycle sweeps, and after it has ended, no worker is at work.
LEMMA NobodyInside ==
    ASSUME TypeOK, Gated, Shut, pc[Life] \in {"sweep", "ended"}
    PROVE  \A g \in Workers : pc[g] \notin Inner
  BY Constants DEF Gated, Shut, Inner, Inside, Holding

\* The gate stays shut or open as its holders say.
LEMMA NextGated ==
    ASSUME TypeOK, Gated, Handled, Next
    PROVE  Gated'
  <1> USE Constants
  <1>1. ASSUME NEW g \in Workers, Locking(g) \/ Working(g) PROVE Gated'
    <2>1. PICK next \in Inner \cup {"release"} : pc' = [pc EXCEPT ![g] = next]
      BY <1>1, WorkerStep
    <2>2. pc[g] \in Inner /\ UNCHANGED <<readers, writer, sweep>>
      BY <1>1, WorkerStep
    <2>3. QED
      BY <2>1, <2>2 DEF Gated, Inner, Inside, Holding, TypeOK
  <1>2. ASSUME NEW g \in Goroutines, RLock(g) PROVE Gated'
    BY <1>2 DEF RLock, Goto, Gated, Inside, Holding, TypeOK
  <1>3. ASSUME NEW g \in Goroutines, Begun(g) PROVE Gated'
    BY <1>3 DEF Begun, Goto, gateVars, Gated, Inside, Holding, TypeOK
  <1>4. ASSUME NEW g \in Goroutines, Release(g) PROVE Gated'
    BY <1>4 DEF Release, Goto, Gated, Inside, Holding, TypeOK
  <1>5. CASE Stop \/ PrewarmTick \/ PruneTick \/ Close \/ Announce
    BY <1>5 DEF Stop, PrewarmTick, PruneTick, Close, Announce, Goto, gateVars, Gated,
                Inside, Holding, TypeOK
  <1>6. CASE Prewarm \/ Prewarmed
    BY <1>6 DEF Prewarm, Prewarmed, Goto, gateVars, Gated, Inside, Holding, TypeOK
  <1>7. CASE SweepBegins
    BY <1>7 DEF SweepBegins, Exclusive, Goto, gateVars, Gated, Inside, Holding, TypeOK
  <1>8. CASE \E t \in Transports : SweepOne(t)
    BY <1>8 DEF SweepOne, gateVars, Gated, TypeOK
  <1>9. CASE SweepEnds
    <2>1. /\ writer' = None /\ sweep' = {} /\ pc'[Life] \in {"ended", "loop"}
          /\ readers' = {g \in Goroutines : pc[g] = "blocked"}
      BY <1>9 DEF SweepEnds, TypeOK
    <2>2. \A g \in Workers : pc'[g] = IF pc[g] = "blocked" THEN "begun" ELSE pc[g]
      BY <1>9 DEF SweepEnds, TypeOK
    <2>3. QED
      BY <1>9, <2>1, <2>2 DEF SweepEnds, Gated, Inside, Holding
  <1>10. ASSUME NEW c \in Callers, NEW o \in {"call", "list"}, NEW p \in Plugins, Call(c, o, p)
         PROVE  Gated'
    BY <1>10 DEF Call, Goto, gateVars, Gated, Inside, Holding, TypeOK
  <1>11. ASSUME NEW p \in Plugins, GrowIdle(p) PROVE Gated'
    BY <1>11 DEF GrowIdle, gateVars, Gated
  <1>12. QED
    BY <1>1, <1>2, <1>3, <1>4, <1>5, <1>6, <1>7, <1>8, <1>9, <1>10, <1>11
       DEF Next, LifeStep, Gate

-----------------------------------------------------------------------------
(* Transports in hand *)

\* The steps that neither a worker at work nor a sweep takes.
Outer ==
    \/ Stop \/ PrewarmTick \/ PruneTick \/ Close \/ Announce \/ Prewarm \/ Prewarmed \/ SweepEnds
    \/ \E g \in Goroutines : Gate(g)
    \/ \E c \in Callers, o \in {"call", "list"}, p \in Plugins : Call(c, o, p)

\* They leave sessions, transports and locks alone, and nobody who takes one has
\* a transport in hand before or after it.
LEMMA OuterStep ==
    ASSUME TypeOK, Gated, Handled, Outer
    PROVE  /\ UNCHANGED <<tr, pluginLock, session, idle, process, mu, sweep>>
           /\ \A g \in Workers : pc'[g] \in WorkerPCs
           /\ \A g \in Workers : pc'[g] # pc[g] => /\ pc[g] \notin Inner
                                                   /\ pc'[g] \notin Opening \cup Holding \cup {"lookup"}
           /\ \A g \in Workers : pc[g] \in Inner => plugin'[g] = plugin[g]
           /\ pc'[Life] \in LifePCs
  <1> USE Constants DEF Inner, Inside, Opening, Holding, LifePCs, WorkerPCs, Goto, gateVars, jobVars, poolVars, serverVars
  <1>1. CASE Stop \/ PrewarmTick \/ PruneTick \/ Close \/ Announce \/ Prewarmed
    BY <1>1 DEF Stop, PrewarmTick, PruneTick, Close, Announce, Prewarmed, TypeOK, Handled
  <1>2. CASE Prewarm
    BY <1>2 DEF Prewarm, TypeOK, Gated, Handled
  <1>3. CASE SweepEnds
    BY <1>3 DEF SweepEnds, TypeOK, Handled
  <1>4. ASSUME NEW g \in Goroutines, RLock(g) \/ Begun(g) \/ Release(g) PROVE
            /\ UNCHANGED <<tr, plugin, pluginLock, session, idle, process, mu, sweep>>
            /\ \A h \in Workers : pc'[h] \in WorkerPCs
            /\ \A h \in Workers : pc'[h] # pc[h] => /\ pc[h] \notin Inner
                                                    /\ pc'[h] \notin Opening \cup Holding \cup {"lookup"}
            /\ pc'[Life] \in LifePCs
    BY <1>4 DEF RLock, Begun, Release, TypeOK, Handled
  <1>5. ASSUME NEW c \in Callers, NEW o \in {"call", "list"}, NEW p \in Plugins, Call(c, o, p) PROVE
            /\ UNCHANGED <<tr, pluginLock, session, idle, process, mu, sweep>>
            /\ \A h \in Workers : pc'[h] \in WorkerPCs
            /\ \A h \in Workers : pc'[h] # pc[h] => /\ pc[h] \notin Inner
                                                    /\ pc'[h] \notin Opening \cup Holding \cup {"lookup"}
            /\ \A h \in Workers : pc[h] \in Inner => plugin'[h] = plugin[h]
            /\ pc'[Life] \in LifePCs
    BY <1>5 DEF Call, TypeOK, Handled
  <1>6. QED
    BY <1>1, <1>2, <1>3, <1>4, <1>5 DEF Outer, Gate

\* Every step of the program is one of these.
LEMMA Steps ==
    ASSUME Next
    PROVE  \/ Outer \/ SweepBegins
           \/ \E t \in Transports : SweepOne(t)
           \/ \E p \in Plugins : GrowIdle(p)
           \/ \E g \in Workers : Locking(g) \/ Working(g)
  BY DEF Next, LifeStep, Outer

\* A transport is in hand exactly where a step needs it.
LEMMA NextHandled ==
    ASSUME TypeOK, Gated, Handled, Next
    PROVE  Handled'
  <1> USE Constants
  <1>1. CASE Outer
    BY <1>1, OuterStep DEF Handled, Holding, Inner
  <1>2. CASE SweepBegins
    BY <1>2 DEF SweepBegins, Handled, Holding, LifePCs, WorkerPCs, Goto, jobVars, TypeOK
  <1>3. CASE (\E t \in Transports : SweepOne(t)) \/ (\E p \in Plugins : GrowIdle(p))
    BY <1>3 DEF SweepOne, GrowIdle, Handled, jobVars
  <1>4. ASSUME NEW g \in Workers, Locking(g) \/ Working(g) PROVE Handled'
    <2> USE DEF Handled, Holding, Inside, WorkerPCs, Goto, Hold, jobVars, TypeOK
    <2>1. CASE LockPlugin(g) \/ Status(g)
      BY <2>1 DEF LockPlugin, Status
    <2>2. CASE CloseOld(g) \/ CloseBad(g)
      BY <2>2 DEF CloseOld, CloseBad, AfterFailure
    <2>3. CASE Request(g)
      BY <2>3 DEF Request
    <2>4. CASE Found(g)
      BY <2>4 DEF Found
    <2>5. CASE NotFound(g)
      BY <2>5 DEF NotFound
    <2>6. CASE \E t \in Transports : Create(g, t)
      BY <2>6 DEF Create
    <2>7. CASE CreateFails(g) \/ InitFails(g) \/ InitDone(g) \/ Store(g)
      BY <2>7 DEF CreateFails, InitFails, InitDone, Store
    <2>8. CASE Answered(g) \/ RequestFails(g)
      BY <2>8 DEF Answered, RequestFails
    <2>9. CASE Invalidate(g)
      BY <2>9 DEF Invalidate, AfterFailure
    <2>10. QED
      BY <1>4, <2>1, <2>2, <2>3, <2>4, <2>5, <2>6, <2>7, <2>8, <2>9 DEF Locking, Working
  <1>5. QED
    BY <1>1, <1>2, <1>3, <1>4, Steps

-----------------------------------------------------------------------------
(* The locks of the plugins *)

\* From the lookup until the session is recorded the lock of the plugin is held,
\* by one worker, and nobody else records a session meanwhile.
LEMMA NextLocked ==
    ASSUME TypeOK, Gated, Handled, Locked, Next
    PROVE  Locked'
  <1> USE Constants
  <1>1. CASE Outer
    BY <1>1, OuterStep DEF Locked, Opening, Holding, Inner
  <1>2. CASE SweepBegins
    BY <1>2 DEF SweepBegins, Locked, Opening, Goto, jobVars, TypeOK
  <1>3. CASE (\E t \in Transports : SweepOne(t)) \/ (\E p \in Plugins : GrowIdle(p))
    BY <1>3 DEF SweepOne, GrowIdle, Locked, jobVars, poolVars
  <1>4. ASSUME NEW g \in Workers, Locking(g) \/ Working(g) PROVE Locked'
    <2> USE DEF Locked, Opening, Goto, jobVars, poolVars, TypeOK
    <2>1. CASE LockPlugin(g)
      BY <2>1 DEF LockPlugin
    <2>2. CASE CloseOld(g) \/ Status(g) \/ InitDone(g) \/ Answered(g) \/ RequestFails(g) \/ Request(g)
      BY <2>2 DEF CloseOld, Status, InitDone, Answered, RequestFails, Request
    <2>3. CASE CloseBad(g)
      BY <2>3 DEF CloseBad, AfterFailure
    <2>4. CASE Found(g)
      BY <2>4 DEF Found, Unlock
    <2>5. CASE NotFound(g)
      BY <2>5 DEF NotFound
    <2>6. CASE \E t \in Transports : Create(g, t)
      BY <2>6 DEF Create
    <2>7. CASE CreateFails(g) \/ InitFails(g)
      BY <2>7 DEF CreateFails, InitFails, Unlock
    <2>8. CASE Store(g)
      BY <2>8 DEF Store, Unlock
    <2>9. CASE Invalidate(g)
      BY <2>9 DEF Invalidate, AfterFailure
    <2>10. QED
      BY <1>4, <2>1, <2>2, <2>3, <2>4, <2>5, <2>6, <2>7, <2>8, <2>9 DEF Locking, Working
  <1>5. QED
    BY <1>1, <1>2, <1>3, <1>4, Steps

\* Whoever stops needing a lock gives it back, and nobody takes one that is held.
LEMMA NextLeft ==
    ASSUME TypeOK, Gated, Handled, Locked, Left, Next
    PROVE  Left'
  <1> USE Constants
  <1>1. CASE Outer
    <2>1. \A p \in Plugins : pluginLock[p] # None =>
             pluginLock[p] \in Workers /\ pc[pluginLock[p]] \in Inner
      BY DEF Left, TypeOK, Opening, Inner, Holding
    <2>2. \A t \in Transports : mu[t] # None => mu[t] \in Workers /\ pc[mu[t]] \in Inner
      BY DEF Left, TypeOK, Inner, Holding
    <2>3. QED
      BY <1>1, <2>1, <2>2, OuterStep DEF Left
  <1>2. CASE SweepBegins
    BY <1>2 DEF SweepBegins, Left, Opening, Goto, jobVars, serverVars, TypeOK
  <1>3. CASE (\E t \in Transports : SweepOne(t)) \/ (\E p \in Plugins : GrowIdle(p))
    BY <1>3 DEF SweepOne, GrowIdle, Left, jobVars, poolVars, serverVars
  <1>4. ASSUME NEW g \in Workers, Locking(g) \/ Working(g) PROVE Left'
    <2> USE DEF Left, Opening, Goto, Hold, jobVars, poolVars, serverVars, TypeOK
    <2>1. CASE LockPlugin(g)
      BY <2>1 DEF LockPlugin
    <2>2. CASE CloseOld(g) \/ Status(g)
      BY <2>2 DEF CloseOld, Status
    <2>3. CASE CloseBad(g)
      BY <2>3 DEF CloseBad, AfterFailure
    <2>4. CASE Request(g)
      BY <2>4 DEF Request, Handled, Holding
    <2>5. CASE Found(g)
      BY <2>5 DEF Found, Unlock
    <2>6. CASE NotFound(g)
      BY <2>6 DEF NotFound
    <2>7. ASSUME NEW t \in Transports, Create(g, t) PROVE Left'
      BY <2>7 DEF Create, Unused
    <2>8. CASE CreateFails(g)
      BY <2>8 DEF CreateFails, Unlock
    <2>9. CASE InitFails(g)
      BY <2>9 DEF InitFails, Unlock
    <2>10. CASE InitDone(g)
      BY <2>10 DEF InitDone
    <2>11. CASE Store(g)
      BY <2>11 DEF Store, Unlock
    <2>12. CASE Answered(g) \/ RequestFails(g)
      BY <2>12 DEF Answered, RequestFails
    <2>13. CASE Invalidate(g)
      BY <2>13 DEF Invalidate, AfterFailure
    <2>14. QED
      BY <1>4, <2>1, <2>2, <2>3, <2>4, <2>5, <2>6, <2>7, <2>8, <2>9, <2>10, <2>11, <2>12, <2>13
         DEF Locking, Working
  <1>5. QED
    BY <1>1, <1>2, <1>3, <1>4, Steps

\* The gate lets in who is counted, and nobody waits at it without a sweep.
LEMMA NextAdmitted ==
    ASSUME TypeOK, Gated, Handled, Shut, Admitted, Next
    PROVE  Admitted'
  <1> USE Constants DEF Inside, Holding
  <1>1. ASSUME NEW g \in Workers, Locking(g) \/ Working(g) PROVE Admitted'
    <2>1. PICK next \in Inner \cup {"release"} : pc' = [pc EXCEPT ![g] = next]
      BY <1>1, WorkerStep
    <2>2. pc[g] \in Inner /\ UNCHANGED readers
      BY <1>1, WorkerStep
    <2>3. QED
      BY <2>1, <2>2 DEF Admitted, Inner, TypeOK
  <1>2. ASSUME NEW g \in Goroutines, RLock(g) PROVE Admitted'
    BY <1>2 DEF RLock, Goto, Admitted, Gated, TypeOK
  <1>3. ASSUME NEW g \in Goroutines, Begun(g) PROVE Admitted'
    BY <1>3 DEF Begun, Goto, gateVars, Admitted, TypeOK
  <1>4. ASSUME NEW g \in Goroutines, Release(g) PROVE Admitted'
    BY <1>4 DEF Release, Goto, Admitted, TypeOK
  <1>5. CASE Stop \/ PrewarmTick \/ PruneTick \/ Close \/ Announce
    BY <1>5 DEF Stop, PrewarmTick, PruneTick, Close, Announce, Goto, gateVars, Admitted, TypeOK
  <1>6. CASE Prewarm \/ Prewarmed
    BY <1>6 DEF Prewarm, Prewarmed, Goto, gateVars, Admitted, Gated, TypeOK
  <1>7. CASE SweepBegins
    BY <1>7 DEF SweepBegins, Goto, gateVars, Admitted, TypeOK
  <1>8. CASE \E t \in Transports : SweepOne(t)
    BY <1>8 DEF SweepOne, gateVars, Admitted
  <1>9. CASE SweepEnds
    <2>1. pc'[Life] \in {"ended", "loop"} /\ readers' = {g \in Goroutines : pc[g] = "blocked"}
      BY <1>9 DEF SweepEnds, TypeOK
    <2>2. \A g \in Workers : pc'[g] = IF pc[g] = "blocked" THEN "begun" ELSE pc[g]
      BY <1>9 DEF SweepEnds, TypeOK
    <2>3. QED
      BY <1>9, <2>1, <2>2 DEF SweepEnds, Admitted
  <1>10. ASSUME NEW c \in Callers, NEW o \in {"call", "list"}, NEW p \in Plugins, Call(c, o, p)
         PROVE  Admitted'
    BY <1>10 DEF Call, Goto, gateVars, Admitted, TypeOK
  <1>11. ASSUME NEW p \in Plugins, GrowIdle(p) PROVE Admitted'
    BY <1>11 DEF GrowIdle, gateVars, Admitted
  <1>12. QED
    BY <1>1, <1>2, <1>3, <1>4, <1>5, <1>6, <1>7, <1>8, <1>9, <1>10, <1>11
       DEF Next, LifeStep, Gate

-----------------------------------------------------------------------------
(* The server processes *)

\* A server process that runs keeps an owner.
LEMMA NextNoOrphans ==
    ASSUME TypeOK, Gated, Handled, Locked, NoOrphans, Next
    PROVE  NoOrphans'
  <1> USE Constants
  <1>1. CASE Outer
    BY <1>1, OuterStep DEF NoOrphans, Owned, Holding, Inner
  <1>2. CASE SweepBegins
    BY <1>2 DEF SweepBegins, Targets, Gated, NoOrphans, Owned, Goto, jobVars, serverVars, TypeOK
  <1>3. CASE \E t \in Transports : SweepOne(t)
    BY <1>3 DEF SweepOne, Kill, NoOrphans, Owned, jobVars, poolVars, TypeOK
  <1>4. CASE \E p \in Plugins : GrowIdle(p)
    BY <1>4 DEF GrowIdle, NoOrphans, Owned, jobVars, serverVars
  <1>5. ASSUME NEW g \in Workers, Locking(g) \/ Working(g) PROVE NoOrphans'
    <2> USE DEF NoOrphans, Owned, Goto, Hold, Kill, jobVars, poolVars, serverVars, TypeOK
    <2>1. CASE LockPlugin(g) \/ Status(g)
      BY <2>1 DEF LockPlugin, Status
    <2>2. CASE CloseOld(g)
      BY <2>2 DEF CloseOld
    <2>3. CASE CloseBad(g)
      BY <2>3 DEF CloseBad, AfterFailure
    <2>4. CASE Request(g)
      BY <2>4 DEF Request
    <2>5. CASE Found(g)
      BY <2>5 DEF Found
    <2>6. CASE NotFound(g)
      BY <2>6 DEF NotFound
    <2>7. ASSUME NEW t \in Transports, Create(g, t) PROVE NoOrphans'
      BY <2>7, tr[g] = None DEF Create, Handled, Holding
    <2>8. CASE CreateFails(g) \/ InitFails(g)
      BY <2>8 DEF CreateFails, InitFails
    <2>9. CASE InitDone(g)
      BY <2>9 DEF InitDone
    <2>10. CASE Store(g)
      BY <2>10 DEF Store, Locked, Opening
    <2>11. CASE Answered(g) \/ RequestFails(g)
      BY <2>11 DEF Answered, RequestFails
    <2>12. CASE Invalidate(g)
      BY <2>12 DEF Invalidate, AfterFailure
    <2>13. QED
      BY <1>5, <2>1, <2>2, <2>3, <2>4, <2>5, <2>6, <2>7, <2>8, <2>9, <2>10, <2>11, <2>12
         DEF Locking, Working
  <1>6. QED
    BY <1>1, <1>2, <1>3, <1>4, <1>5, Steps

-----------------------------------------------------------------------------
(* The end *)

\* After Close no session comes back and no worker gets past the gate.
LEMMA NextShut ==
    ASSUME TypeOK, Gated, Handled, Shut, Next
    PROVE  Shut'
  <1> USE Constants
  <1>1. CASE Stop \/ PrewarmTick \/ PruneTick \/ Close \/ Announce \/ Prewarmed
    BY <1>1 DEF Stop, PrewarmTick, PruneTick, Close, Announce, Prewarmed, Goto, Shut, gateVars,
                jobVars, poolVars, TypeOK
  <1>2. CASE Prewarm
    BY <1>2 DEF Prewarm, Goto, Shut, gateVars, poolVars, TypeOK
  <1>3. CASE SweepEnds
    <2>1. \A g \in Workers : pc'[g] = IF pc[g] = "blocked" THEN "begun" ELSE pc[g]
      BY <1>3 DEF SweepEnds, TypeOK
    <2>2. pc'[Life] = IF op[Life] = "close" THEN "ended" ELSE "loop"
      BY <1>3 DEF SweepEnds, TypeOK
    <2>3. pc[Life] = "sweep" /\ UNCHANGED <<op, session, closed>>
      BY <1>3 DEF SweepEnds, jobVars, poolVars
    <2>4. \A g \in Workers : pc[g] \in WorkerPCs /\ pc[g] \notin Inner
      BY <2>3, NobodyInside DEF Handled
    <2>5. \A g \in Workers : pc[g] \in {"rest", "rlock", "blocked", "begun", "release"}
      BY <2>4 DEF WorkerPCs, Inside, Inner
    <2>6. QED
      BY <2>1, <2>2, <2>3, <2>5 DEF Shut
  <1>4. ASSUME NEW g \in Goroutines, RLock(g) \/ Begun(g) \/ Release(g) PROVE Shut'
    <2>1. CASE RLock(g)
      <3>1. pc[Life] = "ended" => writer = None
        BY DEF Gated, TypeOK
      <3>2. PICK next \in {"begun", "blocked"} :
               pc' = [pc EXCEPT ![g] = next] /\ (next = "blocked" => writer # None)
        BY <2>1 DEF RLock, Goto
      <3>3. pc[g] = "rlock" /\ UNCHANGED <<op, closed, session>>
        BY <2>1 DEF RLock, jobVars, poolVars
      <3>4. QED
        BY <3>1, <3>2, <3>3 DEF Shut, TypeOK
    <2>2. CASE Begun(g)
      BY <2>2 DEF Begun, Goto, Shut, gateVars, jobVars, poolVars, TypeOK
    <2>3. CASE Release(g)
      BY <2>3 DEF Release, Goto, Shut, jobVars, poolVars, TypeOK
    <2>4. QED
      BY <1>4, <2>1, <2>2, <2>3
  <1>5. ASSUME NEW c \in Callers, NEW o \in {"call", "list"}, NEW p \in Plugins, Call(c, o, p)
        PROVE  Shut'
    BY <1>5 DEF Call, Goto, Shut, gateVars, poolVars, TypeOK
  <1>6. CASE SweepBegins
    BY <1>6 DEF SweepBegins, Targets, Goto, Shut, gateVars, jobVars, TypeOK
  <1>7. CASE (\E t \in Transports : SweepOne(t)) \/ (\E p \in Plugins : GrowIdle(p))
    BY <1>7 DEF SweepOne, GrowIdle, Shut, gateVars, jobVars, poolVars
  <1>8. ASSUME NEW g \in Workers, Locking(g) \/ Working(g) PROVE Shut'
    <2>1. PICK next \in Inner \cup {"release"} : pc' = [pc EXCEPT ![g] = next]
      BY <1>8, WorkerStep
    <2>2. pc[g] \in Inner /\ UNCHANGED <<closed, op>>
      BY <1>8, WorkerStep
    <2>3. pc[Life] \notin {"sweep", "ended"}
      BY <2>2, NobodyInside
    <2>4. QED
      BY <2>1, <2>2, <2>3 DEF Shut, TypeOK
  <1>9. QED
    BY <1>1, <1>2, <1>3, <1>4, <1>5, <1>6, <1>7, <1>8, Steps DEF Outer, Gate

-----------------------------------------------------------------------------
(* The theorems *)

\* Nobody is inside the gate and no server runs at first.
LEMMA InitInv == Init => Inv
  <1> SUFFICES ASSUME Init PROVE Inv
    OBVIOUS
  <1> USE Constants DEF Init
  <1>1. \A g \in Workers : pc[g] = "rest" /\ tr[g] = None
    OBVIOUS
  <1>2. pc[Life] = "rlock" /\ op[Life] = "prewarm" /\ tr[Life] = None
    OBVIOUS
  <1>3. Gated
    BY <1>1, <1>2 DEF Gated, Inside, Holding
  <1>4. Handled
    BY <1>1, <1>2 DEF Handled, Holding, WorkerPCs, LifePCs
  <1>5. Locked
    BY <1>1 DEF Locked, Opening
  <1>6. NoOrphans
    BY DEF NoOrphans
  <1>7. Shut
    BY <1>2 DEF Shut
  <1>8. Left
    BY DEF Left
  <1>9. Admitted
    BY <1>1, <1>2 DEF Admitted
  <1>10. QED
    BY <1>3, <1>4, <1>5, <1>6, <1>7, <1>8, <1>9 DEF Inv

\* Every step keeps the invariant.
LEMMA NextInv == TypeOK /\ Inv /\ [Next]_vars => Inv'
  <1>1. TypeOK /\ Inv /\ Next => Inv'
    BY NextGated, NextHandled, NextLocked, NextNoOrphans, NextShut, NextLeft, NextAdmitted
       DEF Inv
  <1>2. Inv /\ UNCHANGED vars => Inv'
    BY DEF Inv, Gated, Handled, Locked, NoOrphans, Owned, Shut, Left, Admitted, vars, gateVars,
           jobVars, poolVars, serverVars
  <1>3. QED
    BY <1>1, <1>2

\* No server process is left running without somebody who will close it.
THEOREM NothingOrphaned == Spec => []NoOrphans
  <1>1. Inv => NoOrphans
    BY DEF Inv
  <1>2. QED
    BY InitTyped, NextTyped, InitInv, NextInv, <1>1, PTL DEF Spec

\* No transport is swept while a call or a prewarm has it in hand.
THEOREM SweptAlone == Spec => []SweptUnused
  <1>1. TypeOK /\ Inv => SweptUnused
    <2> SUFFICES ASSUME TypeOK, Inv, NEW t \in sweep, NEW g \in Goroutines PROVE tr[g] # t
      BY DEF SweptUnused
    <2>1. pc[Life] = "sweep"
      BY DEF Inv, Gated
    <2>2. \A h \in Workers : pc[h] \notin Holding
      BY <2>1, NobodyInside DEF Inv, Inner
    <2>3. tr[g] = None
      BY <2>2, Constants DEF Inv, Handled
    <2>4. QED
      BY <2>3, Constants DEF TypeOK
  <1>2. QED
    BY InitTyped, NextTyped, InitInv, NextInv, <1>1, PTL DEF Spec

\* When the lifecycle has ended no server process runs and no call gets past
\* the gate.
THEOREM ClosedAtEnd == Spec => []ClosedForGood
  <1>1. TypeOK /\ Inv => ClosedForGood
    <2> SUFFICES ASSUME TypeOK, Inv, pc[Life] = "ended" PROVE ClosedForGood
      BY DEF ClosedForGood
    <2>1. \A g \in Workers : pc[g] \in {"rest", "rlock", "begun", "release"}
      BY DEF Inv, Shut
    <2>2. (\A p \in Plugins : session[p] = None) /\ sweep = {}
      BY DEF Inv, Shut, Gated
    <2>3. \A t \in Transports : ~Owned(t)
      BY <2>1, <2>2, Constants DEF Owned
    <2>4. QED
      BY <2>1, <2>3 DEF ClosedForGood, Inv, NoOrphans
  <1>2. QED
    BY InitTyped, NextTyped, InitInv, NextInv, <1>1, PTL DEF Spec

\* No plugin or transport stays locked by a worker that has gone on, the locks
\* are taken in one order, and who waits at the gate waits for a sweep that
\* waits for workers: nobody waits for itself, with any number of workers.
THEOREM NobodyIsStuck == Spec => []NobodyStuck
  <1>1. TypeOK /\ Inv => NobodyStuck
    <2> SUFFICES ASSUME TypeOK, Inv PROVE NobodyStuck
      OBVIOUS
    <2>1. /\ \A p \in Plugins : pluginLock[p] # None =>
                plugin[pluginLock[p]] = p /\ pc[pluginLock[p]] \in Opening \cup {"lookup"}
          /\ \A t \in Transports : mu[t] # None =>
                tr[mu[t]] = t /\ pc[mu[t]] \in {"init", "request"}
      BY DEF Inv, Left
    <2>2. \A g \in Goroutines : pc[g] = "blocked" => pc[Life] \in {"wlock", "sweep"}
      BY Constants DEF Inv, Admitted
    <2>3. pc[Life] = "wlock" =>
             \A g \in readers : pc[g] \notin {"rest", "rlock", "blocked", "wlock"}
      BY DEF Inv, Admitted, Inside, Holding
    <2>4. QED
      BY <2>1, <2>2, <2>3 DEF NobodyStuck, Opening
  <1>2. QED
    BY InitTyped, NextTyped, InitInv, NextInv, <1>1, PTL DEF Spec

=============================================================================
