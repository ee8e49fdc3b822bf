------------------------------ MODULE Watchdog ------------------------------
(***************************************************************************)
(* The watchdog of the Go supervisor keeps one bot worker running in a     *)
(* tmux session.  A worker holds a flock while it runs.  When the session  *)
(* is gone and the lock is free, the watchdog launches a new session; when *)
(* the lock stays held for OrphanGrace it calls the recovery hook, a shell *)
(* script that ends the orphaned worker, first with TERM, then with KILL.  *)
(*                                                                         *)
(* The watchdog, the hook and the workers are processes: any of them may   *)
(* die between two steps, and the hook outlives a watchdog that is killed. *)
(* Whoever probes a free lock holds it for a moment.                       *)
(***************************************************************************)
EXTENDS Naturals, FiniteSets

CONSTANTS
    Workers,     \* processes that exist at a time, each a pid with its start time
    Grace,       \* OrphanGrace, in loop intervals
    Retry,       \* OrphanRetry, in loop intervals
    MaxFaults,   \* bound on faults and on what an operator does
    Dog, Hook,   \* as holders of the lock
    None

ASSUME WatchdogAssumption ==
    /\ IsFiniteSet(Workers)
    /\ Grace \in Nat \ {0} /\ Retry \in Nat \ {0} /\ MaxFaults \in Nat
    /\ Workers \cap {Dog, Hook, None} = {}
    /\ Dog # Hook /\ Dog # None /\ Hook # None /\ None \notin Nat

VARIABLES
    session,   \* the worker in the tmux session
    worker,    \* what each process is doing
    lock,      \* holder of the worker lock
    dog,       \* where the watchdog is
    since,     \* now - botSessionMissingSince; None when that is zero
    last,      \* now - lastOrphanRecovery; None when that is zero
    hook,      \* where the hook is
    owner,     \* the process the hook has identified
    quiet,     \* history: time since the last check that spoke against an orphan
    faults

worldVars == <<session, worker, lock>>
dogVars == <<dog, since, last, quiet>>
hookVars == <<hook, owner>>
vars == <<worldVars, dogVars, hookVars, faults>>

WorkerStates == {"none", "starting", "serving", "termed"}
DogStates == {"sleep", "check", "probe", "free", "recover", "waiting", "again", "launch"}
HookStates == {"off", "drop", "tmux1", "state1", "owner1", "tmux2", "state2", "owner2",
               "term", "wait1", "tmux3", "state3", "owner3", "kill", "wait2"}

\* one of the MaxFaults things that go wrong
Fault == faults < MaxFaults /\ faults' = faults + 1

-----------------------------------------------------------------------------
(* Workers and their session *)

\* tmux new-session
NewSession(w) ==
    /\ session = None
    /\ worker[w] = "none" /\ owner # w
    /\ session' = w
    /\ worker' = [worker EXCEPT ![w] = "starting"]

\* A worker goes, and the session that ran it.
Gone(w) ==
    /\ worker' = [worker EXCEPT ![w] = "none"]
    /\ session' = IF session = w THEN None ELSE session
    /\ lock' = IF lock = w THEN None ELSE lock

\* flock(LOCK_EX | LOCK_NB); a worker that does not get it exits
Flock(w) ==
    /\ worker[w] = "starting"
    /\ IF lock = None
       THEN /\ lock' = w
            /\ worker' = [worker EXCEPT ![w] = "serving"]
            /\ UNCHANGED session
       ELSE Gone(w)
    /\ UNCHANGED <<dogVars, hookVars, faults>>

\* a worker that was sent TERM may end, in its own time
TermEnds(w) ==
    /\ worker[w] = "termed"
    /\ Gone(w)
    /\ UNCHANGED <<dogVars, hookVars, faults>>

WorkerDies(w) ==
    /\ worker[w] # "none" /\ Fault
    /\ Gone(w)
    /\ UNCHANGED <<dogVars, hookVars>>

\* The session ends and its worker does not: an orphan.
SessionLost ==
    /\ session # None /\ Fault
    /\ session' = None
    /\ UNCHANGED <<worker, lock, dogVars, hookVars>>

\* an operator opens the session by hand
Operator(w) ==
    /\ Fault
    /\ NewSession(w)
    /\ UNCHANGED <<lock, dogVars, hookVars>>

-----------------------------------------------------------------------------
(* The watchdog: Run, tick, ensureBotSession *)

DogGoes(a, b) == dog = a /\ dog' = b

\* Broken on purpose: the age of an orphan is not forgotten.
ResetLast == UNCHANGED since /\ last' = None

\* resetBotOrphanTracking
Reset == since' = None /\ last' = None

\* A time is told apart up to the threshold it is compared with.
Later(time, cap, d) ==
    IF time = None THEN None ELSE IF time + d < cap THEN time + d ELSE cap

\* the loop interval, and what the commands of the tick take on top of it
Sleep(d) ==
    /\ DogGoes("sleep", "check")
    /\ since' = Later(since, Grace, d)
    /\ last' = Later(last, Retry, d)
    /\ quiet' = Later(quiet, Grace, d)
    /\ UNCHANGED <<worldVars, hookVars, faults>>

SessionFound ==
    /\ DogGoes("check", "sleep")
    /\ session # None
    /\ Reset /\ quiet' = 0
    /\ UNCHANGED <<worldVars, hookVars, faults>>

\* has-session that outlasts CommandTimeout counts as missing
SessionMissing ==
    /\ DogGoes("check", "probe")
    /\ IF session = None THEN UNCHANGED faults ELSE Fault
    /\ UNCHANGED <<worldVars, since, last, quiet, hookVars>>

\* botWorkerLockState, called at "probe" and "again"
ProbeUnknown ==
    /\ dog \in {"probe", "again"} /\ Fault
    /\ dog' = "sleep"
    /\ IF dog = "probe" THEN since' = None /\ quiet' = 0 ELSE UNCHANGED <<since, quiet>>
    /\ UNCHANGED <<worldVars, last, hookVars>>

ProbeFree ==
    /\ dog \in {"probe", "again"}
    /\ lock = None /\ lock' = Dog
    /\ dog' = "free"
    /\ UNCHANGED <<session, worker, since, last, quiet, hookVars, faults>>

ProbeDone ==
    /\ DogGoes("free", "launch")
    /\ lock' = None
    /\ Reset /\ quiet' = 0
    /\ UNCHANGED <<session, worker, hookVars, faults>>

Age == IF since = None THEN 0 ELSE since

\* Broken on purpose: a recovery that failed is never tried again.
ProbeHeldOnce ==
    /\ dog = "probe" /\ lock # None
    /\ since' = Age
    /\ dog' = IF Age < Grace THEN "sleep" ELSE IF last # None THEN "again" ELSE "recover"
    /\ UNCHANGED <<worldVars, last, quiet, hookVars, faults>>

\* The orphan is left alone until it is old enough, and between two recoveries.
ProbeHeld ==
    /\ dog = "probe" /\ lock # None
    /\ since' = Age
    /\ dog' = IF Age < Grace THEN "sleep"
              ELSE IF last # None /\ last < Retry THEN "again" ELSE "recover"
    /\ UNCHANGED <<worldVars, last, quiet, hookVars, faults>>

\* recoverVerifiedOrphan; a hook that is still running makes this one exit
CallHook ==
    /\ dog = "recover"
    /\ last' = 0
    /\ IF hook = "off"
       THEN hook' = "tmux1" /\ dog' = "waiting"
       ELSE UNCHANGED hook /\ dog' = "again"
    /\ UNCHANGED <<worldVars, since, quiet, owner, faults>>

\* the recovery script is missing or not executable: no try is counted
HookMissing ==
    /\ DogGoes("recover", "again") /\ Fault
    /\ UNCHANGED <<worldVars, since, last, quiet, hookVars>>

\* whatever the hook reports
HookReturned ==
    /\ DogGoes("waiting", "again")
    /\ hook = "off"
    /\ UNCHANGED <<worldVars, since, last, quiet, hookVars, faults>>

HeldAgain ==
    /\ DogGoes("again", "sleep")
    /\ lock # None
    /\ UNCHANGED <<worldVars, since, last, quiet, hookVars, faults>>

\* launchBotSession; tmux refuses when there is a session by now
Launch ==
    /\ DogGoes("launch", "sleep")
    /\ IF session = None THEN \E w \in Workers : NewSession(w)
                         ELSE UNCHANGED <<session, worker>>
    /\ UNCHANGED <<lock, since, last, quiet, hookVars, faults>>

\* the launcher is missing, or tmux fails
LaunchFails ==
    /\ DogGoes("launch", "sleep") /\ Fault
    /\ UNCHANGED <<worldVars, since, last, quiet, hookVars>>

DropIf(g) == lock' = IF lock = g THEN None ELSE lock

\* The supervisor is killed and started again.  A hook that runs goes on.
DogRestarts ==
    /\ Fault
    /\ dog' = "check"
    /\ Reset /\ quiet' = 0
    /\ DropIf(Dog)
    /\ UNCHANGED <<session, worker, hookVars>>

-----------------------------------------------------------------------------
(* The hook: orphan_recover_main *)

HookGoes(a, b) == hook = a /\ hook' = b

HookExits == hook' = "off" /\ owner' = None

\* Broken on purpose: the session is looked for only once before TERM.
TmuxHasOnce(at, next) ==
    /\ hook = at
    /\ IF session = None \/ at = "tmux2" THEN hook' = next /\ UNCHANGED owner ELSE HookExits
    /\ UNCHANGED <<worldVars, dogVars, faults>>

\* tmux_has: it is over when the session is back
TmuxHas(at, next) ==
    /\ hook = at
    /\ IF session = None THEN hook' = next /\ UNCHANGED owner ELSE HookExits
    /\ UNCHANGED <<worldVars, dogVars, faults>>

\* guest_lock_state: HELD
StateHeld(at, next) ==
    /\ HookGoes(at, next)
    /\ lock # None
    /\ UNCHANGED <<worldVars, dogVars, owner, faults>>

\* guest_lock_state: FREE, wherever it is asked; there is nothing left to do
StateFree ==
    /\ hook \in HookStates \ {"off", "drop", "tmux1", "tmux2", "term", "tmux3", "kill"}
    /\ lock = None /\ lock' = Hook
    /\ hook' = "drop"
    /\ UNCHANGED <<session, worker, dogVars, owner, faults>>

StateDropped ==
    /\ hook = "drop"
    /\ lock' = None
    /\ HookExits
    /\ UNCHANGED <<session, worker, dogVars, faults>>

\* resolve_lock_owner, the first time
Identify ==
    /\ hook = "owner1" /\ lock # None
    /\ IF lock \in Workers THEN hook' = "tmux2" /\ owner' = lock ELSE HookExits
    /\ UNCHANGED <<worldVars, dogVars, faults>>

\* resolve_lock_owner and same_process_identity
SameOwner(at, next) ==
    /\ hook = at /\ lock # None
    /\ IF lock = owner THEN hook' = next /\ UNCHANGED owner ELSE HookExits
    /\ UNCHANGED <<worldVars, dogVars, faults>>

\* signal_exact_pid; without a process it fails
Term ==
    /\ hook = "term"
    /\ IF worker[owner] = "none" THEN HookExits /\ UNCHANGED worker
       ELSE /\ hook' = "wait1" /\ UNCHANGED owner
            /\ worker' = [worker EXCEPT ![owner] = "termed"]
    /\ UNCHANGED <<session, lock, dogVars, faults>>

Kill ==
    /\ hook = "kill"
    /\ IF worker[owner] = "none" THEN HookExits /\ UNCHANGED worldVars
       ELSE hook' = "wait2" /\ UNCHANGED owner /\ Gone(owner)
    /\ UNCHANGED <<dogVars, faults>>

\* wait_guest_lock_not_held: the deadline passes; UNKNOWN is taken for it
TermWaited ==
    /\ HookGoes("wait1", "tmux3")
    /\ lock # None \/ faults < MaxFaults
    /\ faults' = IF lock # None THEN faults ELSE faults + 1
    /\ UNCHANGED <<worldVars, dogVars, owner>>

KillWaited ==
    /\ hook = "wait2" /\ lock # None
    /\ HookExits
    /\ UNCHANGED <<worldVars, dogVars, faults>>

\* A probe or a proof fails, or the watchdog's patience (OrphanRecoveryTimeout)
\* ends, or the hook is killed.
HookFails ==
    /\ hook # "off" /\ Fault
    /\ HookExits
    /\ DropIf(Hook)
    /\ UNCHANGED <<session, worker, dogVars>>

-----------------------------------------------------------------------------

Init ==
    /\ session = None
    /\ worker = [w \in Workers |-> "none"]
    /\ lock = None
    /\ dog = "check" /\ since = None /\ last = None
    /\ hook = "off" /\ owner = None
    /\ quiet = 0
    /\ faults = 0

DogStep ==
    \/ \E d \in 1..2 : Sleep(d)
    \/ SessionFound \/ SessionMissing \/ ProbeUnknown \/ ProbeFree \/ ProbeDone
    \/ ProbeHeld \/ CallHook \/ HookMissing \/ HookReturned \/ HeldAgain
    \/ Launch \/ LaunchFails

HookStep ==
    \/ TmuxHas("tmux1", "state1") \/ StateHeld("state1", "owner1") \/ Identify
    \/ TmuxHas("tmux2", "state2") \/ StateHeld("state2", "owner2") \/ SameOwner("owner2", "term")
    \/ Term \/ TermWaited
    \/ TmuxHas("tmux3", "state3") \/ StateHeld("state3", "owner3") \/ SameOwner("owner3", "kill")
    \/ Kill \/ KillWaited
    \/ StateFree \/ StateDropped \/ HookFails

Next ==
    \/ DogStep \/ HookStep \/ DogRestarts \/ SessionLost
    \/ \E w \in Workers : Flock(w) \/ TermEnds(w) \/ WorkerDies(w) \/ Operator(w)

Spec == Init /\ [][Next]_vars

\* The processes run; commands end or time out.  A worker that was sent TERM
\* need not end.
Fairness ==
    /\ WF_vars(DogStep) /\ WF_vars(HookStep)
    /\ \A w \in Workers : WF_vars(Flock(w))

FairSpec == Spec /\ Fairness

-----------------------------------------------------------------------------

TypeOK ==
    /\ session \in Workers \cup {None}
    /\ worker \in [Workers -> WorkerStates]
    /\ lock \in Workers \cup {Dog, Hook, None}
    /\ dog \in DogStates /\ hook \in HookStates
    /\ since \in (0..Grace) \cup {None}
    /\ last \in (0..Retry) \cup {None}
    /\ quiet \in 0..Grace
    /\ owner \in Workers \cup {None}
    /\ faults \in 0..MaxFaults

\* The hook ends orphans only: it signals no worker that has a session, also
\* when the orphan it identified is gone and another worker has been started,
\* by an operator or by a second watchdog, while it was at work.
SparesSessions ==
    [][hook' \in {"wait1", "wait2"} /\ hook' # hook => session # owner]_vars

\* No recovery starts before each check during OrphanGrace has found the
\* session missing and the lock held; a check that found the session, a free
\* lock or nothing at all starts the time anew.
GraceKept == [][dog = "recover" /\ dog' # "recover" => quiet = Grace]_vars

\* Once things stop going wrong a worker runs in its session, for good, also
\* when what went wrong has left an orphan that ignores TERM.
Recovers == <>[](\E w \in Workers : session = w /\ worker[w] = "serving")

=============================================================================
