--------------------------- MODULE WatchdogProofs ---------------------------
(* For any number of processes, any grace and retry, and any number of     *)
(* faults: the types, SparesSessions and GraceKept.                        *)
EXTENDS Watchdog, TLAPS

-----------------------------------------------------------------------------
(* The inductive invariant *)

\* where the hook has looked at the session with the owner in hand
Proved == {"state2", "owner2", "term", "wait1", "tmux3", "state3", "owner3", "kill", "wait2"}

\* The lock's worker has passed Flock.  The hook's owner has had the lock, so it
\* never starts again, and a session found missing once is never the owner's.
Identified ==
    /\ lock \in Workers => worker[lock] \in {"serving", "termed"}
    /\ hook \in Proved \cup {"tmux2"} =>
          owner \in Workers /\ worker[owner] # "starting"
    /\ hook \in Proved => session # owner

\* The watchdog has no older evidence than its checks of the last Grace gave it.
Aged ==
    /\ since # None => since <= quiet
    /\ dog = "recover" => since = Grace

\* What the assumption says of the constants.
LEMMA Constants ==
    /\ Grace \in Nat /\ Grace > 0 /\ Retry \in Nat /\ Retry > 0 /\ MaxFaults \in Nat
    /\ None \notin Workers /\ Dog \notin Workers /\ Hook \notin Workers
    /\ Dog # Hook /\ Dog # None /\ Hook # None
    /\ None \notin Nat
  BY WatchdogAssumption

\* Later is None for None and otherwise a number below its cap that keeps the
\* order of times.
LEMMA LaterTyped ==
    ASSUME NEW cap \in Nat, NEW d \in 1..2
    PROVE  /\ Later(None, cap, d) = None
           /\ \A a \in 0..cap : Later(a, cap, d) \in 0..cap
           /\ \A a, b \in 0..cap : a <= b => Later(a, cap, d) <= Later(b, cap, d)
           /\ Later(cap, cap, d) = cap
  BY Constants DEF Later

\* The initial state has the types.
LEMMA InitTyped == Init => TypeOK
  BY Constants DEF Init, TypeOK, WorkerStates, DogStates, HookStates

\* Every step of the program keeps the types.
LEMMA NextTyped == TypeOK /\ [Next]_vars => TypeOK'
  <1> SUFFICES ASSUME TypeOK, [Next]_vars PROVE TypeOK'
    OBVIOUS
  <1> USE Constants
  <1>w. CASE \E w \in Workers : Flock(w) \/ TermEnds(w) \/ WorkerDies(w) \/ Operator(w)
    BY <1>w DEF Flock, TermEnds, WorkerDies, Operator, Gone, NewSession, Fault,
                TypeOK, WorkerStates, dogVars, hookVars
  <1>s. CASE SessionLost \/ DogRestarts
    BY <1>s DEF SessionLost, DogRestarts, Reset, DropIf, Fault, TypeOK, DogStates,
                dogVars, hookVars
  <1>d. ASSUME NEW d \in 1..2, Sleep(d) PROVE TypeOK'
    <2>1. since' \in (0..Grace) \cup {None}
      BY <1>d, LaterTyped DEF Sleep, TypeOK
    <2>2. last' \in (0..Retry) \cup {None}
      BY <1>d, LaterTyped DEF Sleep, TypeOK
    <2>3. quiet' \in 0..Grace
      BY <1>d, LaterTyped DEF Sleep, TypeOK
    <2>4. QED
      BY <1>d, <2>1, <2>2, <2>3 DEF Sleep, DogGoes, TypeOK, DogStates, worldVars, hookVars
  <1>c. CASE SessionFound \/ SessionMissing \/ ProbeUnknown \/ ProbeFree \/ ProbeDone
    BY <1>c DEF SessionFound, SessionMissing, ProbeUnknown, ProbeFree, ProbeDone,
                DogGoes, Reset, Fault, TypeOK, DogStates, worldVars, hookVars
  <1>p. CASE ProbeHeld \/ CallHook \/ HookMissing \/ HookReturned \/ HeldAgain
    BY <1>p DEF ProbeHeld, CallHook, HookMissing, HookReturned, HeldAgain, Age, DogGoes, Fault,
                TypeOK, DogStates, HookStates, worldVars, hookVars
  <1>l. CASE Launch \/ LaunchFails
    BY <1>l DEF Launch, LaunchFails, NewSession, DogGoes, Fault, TypeOK, DogStates,
                WorkerStates, worldVars, hookVars
  <1>h. CASE HookStep
    <2>1. CASE TmuxHas("tmux1", "state1") \/ TmuxHas("tmux2", "state2")
               \/ TmuxHas("tmux3", "state3")
      BY <2>1 DEF TmuxHas, HookExits, TypeOK, HookStates, worldVars, dogVars
    <2>2. CASE StateHeld("state1", "owner1") \/ StateHeld("state2", "owner2")
               \/ StateHeld("state3", "owner3")
      BY <2>2 DEF StateHeld, HookGoes, TypeOK, HookStates, worldVars, dogVars
    <2>3. CASE SameOwner("owner2", "term") \/ SameOwner("owner3", "kill") \/ Identify
      BY <2>3 DEF SameOwner, Identify, HookExits, TypeOK, HookStates, worldVars, dogVars
    <2>4. CASE Term \/ Kill
      BY <2>4 DEF Term, Kill, Gone, HookExits, TypeOK, HookStates, WorkerStates,
                  worldVars, dogVars
    <2>5. CASE TermWaited \/ KillWaited \/ StateFree \/ StateDropped \/ HookFails
      BY <2>5 DEF TermWaited, KillWaited, StateFree, StateDropped, HookFails, HookGoes,
                  HookExits, DropIf, Fault, TypeOK, HookStates, worldVars, dogVars
    <2>6. QED
      BY <1>h, <2>1, <2>2, <2>3, <2>4, <2>5 DEF HookStep
  <1>u. CASE UNCHANGED vars
    BY <1>u DEF TypeOK, vars, worldVars, dogVars, hookVars
  <1>q. QED
    BY <1>w, <1>s, <1>d, <1>c, <1>p, <1>l, <1>h, <1>u DEF Next, DogStep

\* The state of watchdog, hook, workers and lock keeps its types.
THEOREM Typing == Spec => []TypeOK
  BY InitTyped, NextTyped, PTL DEF Spec

-----------------------------------------------------------------------------
(* The hook's victims *)

\* Nothing is identified at first.
LEMMA InitIdentified == Init => Identified
  BY Constants DEF Init, Identified, Proved

\* Every step keeps what the hook has proved.
LEMMA NextIdentified == TypeOK /\ Identified /\ [Next]_vars => Identified'
  <1> SUFFICES ASSUME TypeOK, Identified, [Next]_vars PROVE Identified'
    OBVIOUS
  <1> USE Constants
  <1>w. ASSUME NEW w \in Workers, Flock(w) \/ TermEnds(w) \/ WorkerDies(w) PROVE Identified'
    BY <1>w DEF Flock, TermEnds, WorkerDies, Gone, Fault, Identified, Proved,
                TypeOK, WorkerStates, dogVars, hookVars
  <1>o. ASSUME NEW w \in Workers, Operator(w) PROVE Identified'
    BY <1>o DEF Operator, NewSession, Identified, Proved, TypeOK, dogVars, hookVars
  <1>s. CASE SessionLost \/ DogRestarts
    BY <1>s DEF SessionLost, DogRestarts, DropIf, Identified, Proved, TypeOK,
                dogVars, hookVars
  <1>c. CASE (\E d \in 1..2 : Sleep(d)) \/ SessionFound \/ SessionMissing \/ ProbeUnknown
             \/ ProbeFree \/ ProbeDone
    BY <1>c DEF Sleep, SessionFound, SessionMissing, ProbeUnknown, ProbeFree, ProbeDone,
                Identified, Proved, worldVars, hookVars
  <1>p. CASE ProbeHeld \/ CallHook \/ HookMissing \/ HookReturned \/ HeldAgain \/ LaunchFails
    BY <1>p DEF ProbeHeld, CallHook, HookMissing, HookReturned, HeldAgain, LaunchFails,
                Identified, Proved, worldVars, hookVars
  <1>l. CASE Launch
    BY <1>l DEF Launch, NewSession, Identified, Proved, TypeOK, hookVars
  <1>h. CASE HookStep
    <2>1. CASE TmuxHas("tmux1", "state1") \/ TmuxHas("tmux2", "state2")
               \/ TmuxHas("tmux3", "state3")
      BY <2>1 DEF TmuxHas, HookExits, Identified, Proved, TypeOK, worldVars
    <2>2. CASE StateHeld("state1", "owner1") \/ StateHeld("state2", "owner2")
               \/ StateHeld("state3", "owner3")
      BY <2>2 DEF StateHeld, HookGoes, Identified, Proved, worldVars
    <2>3. CASE SameOwner("owner2", "term") \/ SameOwner("owner3", "kill") \/ Identify
      BY <2>3 DEF SameOwner, Identify, HookExits, Identified, Proved, TypeOK, worldVars
    <2>4. CASE Term \/ Kill
      BY <2>4 DEF Term, Kill, Gone, HookExits, Identified, Proved, TypeOK, WorkerStates,
                  worldVars
    <2>5. CASE TermWaited \/ KillWaited \/ StateFree \/ StateDropped \/ HookFails
      BY <2>5 DEF TermWaited, KillWaited, StateFree, StateDropped, HookFails, HookGoes,
                  HookExits, DropIf, Identified, Proved, HookStates, TypeOK, worldVars
    <2>6. QED
      BY <1>h, <2>1, <2>2, <2>3, <2>4, <2>5 DEF HookStep
  <1>u. CASE UNCHANGED vars
    BY <1>u DEF Identified, vars, worldVars, hookVars
  <1>q. QED
    BY <1>w, <1>o, <1>s, <1>c, <1>p, <1>l, <1>h, <1>u DEF Next, DogStep

\* What the hook has proved makes the signal safe.
LEMMA SignalIsSafe ==
    TypeOK /\ Identified /\ [Next]_vars
        => [hook' \in {"wait1", "wait2"} /\ hook' # hook => session # owner]_vars
  <1> SUFFICES ASSUME Identified, Next, hook' \in {"wait1", "wait2"}, hook' # hook
               PROVE  session # owner
    OBVIOUS
  <1>1. Term \/ Kill
    BY DEF Next, DogStep, HookStep, Flock, TermEnds, WorkerDies, Operator, SessionLost,
           DogRestarts, Sleep, SessionFound, SessionMissing, ProbeUnknown, ProbeFree,
           ProbeDone, ProbeHeld, CallHook, HookMissing, HookReturned, HeldAgain, Launch,
           LaunchFails,
           TmuxHas, StateHeld, SameOwner, Identify, TermWaited, KillWaited, StateFree,
           StateDropped, HookFails, HookGoes, HookExits, hookVars
  <1>2. QED
    BY <1>1 DEF Term, Kill, HookExits, Identified, Proved

\* The hook signals no worker that has a session, whatever workers, operators
\* and other watchdogs do between its steps.
THEOREM Spared == Spec => SparesSessions
  BY InitTyped, NextTyped, InitIdentified, NextIdentified, SignalIsSafe, PTL
     DEF Spec, SparesSessions

-----------------------------------------------------------------------------
(* The grace of an orphan *)

\* There is no evidence at first.
LEMMA InitAged == Init => Aged
  BY Constants DEF Init, Aged

\* An orphan's age never exceeds the time that nothing spoke against it.
LEMMA NextAged == TypeOK /\ Aged /\ [Next]_vars => Aged'
  <1> SUFFICES ASSUME TypeOK, Aged, [Next]_vars PROVE Aged'
    OBVIOUS
  <1> USE Constants
  <1>d. ASSUME NEW d \in 1..2, Sleep(d) PROVE Aged'
    BY <1>d, LaterTyped DEF Sleep, DogGoes, Aged, TypeOK
  <1>c. CASE SessionFound \/ SessionMissing \/ ProbeUnknown \/ ProbeFree \/ ProbeDone
             \/ DogRestarts
    BY <1>c DEF SessionFound, SessionMissing, ProbeUnknown, ProbeFree, ProbeDone,
                DogRestarts, DogGoes, Reset, Aged, TypeOK
  <1>p. CASE ProbeHeld
    BY <1>p DEF ProbeHeld, Age, Aged, TypeOK
  <1>k. CASE CallHook \/ HookMissing \/ HookReturned \/ HeldAgain \/ Launch \/ LaunchFails
    BY <1>k DEF CallHook, HookMissing, HookReturned, HeldAgain, Launch, LaunchFails,
                DogGoes, Aged
  <1>w. CASE SessionLost \/ HookStep
             \/ \E w \in Workers : Flock(w) \/ TermEnds(w) \/ WorkerDies(w) \/ Operator(w)
    <2>1. UNCHANGED dogVars
      BY <1>w DEF SessionLost, Flock, TermEnds, WorkerDies, Operator, HookStep,
                  TmuxHas, StateHeld, SameOwner, Identify, Term, TermWaited, Kill,
                  KillWaited, StateFree, StateDropped, HookFails
    <2>2. QED
      BY <2>1 DEF Aged, dogVars
  <1>u. CASE UNCHANGED vars
    BY <1>u DEF Aged, vars, dogVars
  <1>q. QED
    BY <1>d, <1>c, <1>p, <1>k, <1>w, <1>u DEF Next, DogStep

\* At "recover" the orphan's age is Grace, so nothing spoke against it that long.
LEMMA RecoveryIsDue ==
    TypeOK /\ Aged => [dog = "recover" /\ dog' # "recover" => quiet = Grace]_vars
  BY Constants DEF Aged, TypeOK

\* No recovery starts before each check of the grace has found an orphan,
\* through lost answers, restarts and returning sessions.
THEOREM GraceObserved == Spec => GraceKept
  BY InitTyped, NextTyped, InitAged, NextAged, RecoveryIsDue, PTL DEF Spec, GraceKept

=============================================================================
