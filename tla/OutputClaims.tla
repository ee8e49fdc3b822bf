---------------------------- MODULE OutputClaims ----------------------------
(***************************************************************************)
(* The output guard of the Atri assistant: several bot processes share a   *)
(* directory of claim files, one per source message.  _claim_output_once   *)
(* works on it under a cross-process flock; the lock dies with its holder. *)
(*                                                                         *)
(* A claim file is its mtime: under the mutex no other worker can replace  *)
(* the file between the inode check and the unlink, so the inode adds      *)
(* nothing.  Any call of the file system may fail when Faulty; the code    *)
(* then accepts the message ("fails open") without recording a claim.      *)
(***************************************************************************)
EXTENDS ClaimFiles

CONSTANT Nobody

ASSUME OutputAssumption == Nobody \notin Workers

VARIABLES
    mutex,      \* holder of the flock on .claims.lock
    verdict     \* what the last finished or finishing call returns

vars == <<clock, claim, mutex, pc, msg, now, lastSweep, verdict, lastClaim>>

\* "duplicate" and "stuck" are the two refusals: a live claim was found, or an
\* expired one is still there after the attempt to remove it.
Verdicts == {"none", "owner", "failOpen", "duplicate", "stuck"}
PCs == {"idle", "lock", "sweep", "stat", "unlink", "create", "unlock"}

\* Broken on purpose: a claim of age TTL is still held to be live.
ExpiredLate(mtime, at) == mtime # Never /\ at - mtime > TTL

Expired(mtime, at) == mtime # Never /\ at - mtime >= TTL

\* Broken on purpose: the sweep is one tick early.
SweepableEarly(at) == {m \in Messages : claim[m] # Never /\ at - claim[m] >= TTL - 1}

\* the claims that _sweep_stale_claims removes: strictly older than TTL
Sweepable(at) == {m \in Messages : claim[m] # Never /\ at - claim[m] > TTL}

Return(w, v) == verdict' = [verdict EXCEPT ![w] = v]

-----------------------------------------------------------------------------

\* a response state asks for the message it answers (_ensure_state_owner);
\* the clock is read before the mutex is waited for
Ask(w, m) ==
    /\ pc[w] = "idle"
    /\ msg' = [msg EXCEPT ![w] = m]
    /\ now' = [now EXCEPT ![w] = clock]
    /\ Goto(w, "lock")
    /\ Return(w, "none")
    /\ UNCHANGED <<clock, claim, mutex, lastSweep, lastClaim>>

\* the directory or the lock file cannot be opened
OpenFails(w) ==
    /\ Faulty /\ pc[w] = "lock"
    /\ Goto(w, "idle")
    /\ Return(w, "failOpen")
    /\ UNCHANGED <<clock, claim, mutex, msg, now, lastSweep, lastClaim>>

\* Broken on purpose: the lock is shared (LOCK_SH).
LockShared(w) ==
    /\ pc[w] = "lock"
    /\ mutex' = w
    /\ Goto(w, "sweep")
    /\ UNCHANGED <<clock, claim, msg, now, lastSweep, verdict, lastClaim>>

Lock(w) ==
    /\ pc[w] = "lock"
    /\ mutex = Nobody
    /\ mutex' = w
    /\ Goto(w, "sweep")
    /\ UNCHANGED <<clock, claim, msg, now, lastSweep, verdict, lastClaim>>

\* Files that cannot be removed stay, and the sweep goes on.
Sweep(w) ==
    /\ pc[w] = "sweep"
    /\ IF now[w] - lastSweep[w] < SweepEvery
       THEN UNCHANGED <<claim, lastSweep>>
       ELSE /\ lastSweep' = [lastSweep EXCEPT ![w] = now[w]]
            /\ \E gone \in SUBSET Sweepable(now[w]) :
                 /\ Faulty \/ gone = Sweepable(now[w])
                 /\ claim' = [m \in Messages |-> IF m \in gone THEN Never ELSE claim[m]]
    /\ Goto(w, "stat")
    /\ UNCHANGED <<clock, mutex, msg, now, verdict, lastClaim>>

\* path.stat(): no claim, a live claim, or an expired one
Inspect(w) ==
    /\ pc[w] = "stat"
    /\ \/ claim[msg[w]] = Never /\ Goto(w, "create") /\ UNCHANGED verdict
       \/ /\ claim[msg[w]] # Never /\ ~Expired(claim[msg[w]], now[w])
          /\ Goto(w, "unlock") /\ Return(w, "duplicate")
       \/ Expired(claim[msg[w]], now[w]) /\ Goto(w, "unlink") /\ UNCHANGED verdict
       \/ Faulty /\ Goto(w, "unlock") /\ Return(w, "failOpen")
    /\ UNCHANGED <<clock, claim, mutex, msg, now, lastSweep, lastClaim>>

\* _safe_unlink_same_inode swallows every error; a file that is still there
\* afterwards turns the caller away, an exists() that fails does not.
RemoveExpired(w) ==
    /\ pc[w] = "unlink"
    /\ \/ /\ claim' = [claim EXCEPT ![msg[w]] = Never]
          /\ Goto(w, "create") /\ UNCHANGED verdict
       \/ /\ Faulty /\ UNCHANGED claim
          /\ Goto(w, "unlock") /\ Return(w, "stuck")
       \/ /\ Faulty /\ claim' \in {claim, [claim EXCEPT ![msg[w]] = Never]}
          /\ Goto(w, "unlock") /\ Return(w, "failOpen")
    /\ UNCHANGED <<clock, mutex, msg, now, lastSweep, lastClaim>>

\* os.open(O_CREAT | O_EXCL) and os.write.  A failed write removes the file
\* again, or leaves it when that fails too, and fails open.
Create(w) ==
    /\ pc[w] = "create"
    /\ Goto(w, "unlock")
    /\ IF claim[msg[w]] # Never
       THEN /\ Return(w, "duplicate")
            /\ UNCHANGED <<claim, lastClaim>>
       ELSE \/ /\ claim' = [claim EXCEPT ![msg[w]] = clock]
               /\ lastClaim' = [lastClaim EXCEPT ![msg[w]] = clock]
               /\ Return(w, "owner")
            \/ /\ Faulty
               /\ claim' \in {claim, [claim EXCEPT ![msg[w]] = clock]}
               /\ Return(w, "failOpen")
               /\ UNCHANGED lastClaim
    /\ UNCHANGED <<clock, mutex, msg, now, lastSweep>>

Unlock(w) ==
    /\ pc[w] = "unlock"
    /\ mutex' = Nobody
    /\ Goto(w, "idle")
    /\ UNCHANGED <<clock, claim, msg, now, lastSweep, verdict, lastClaim>>

\* The process dies and is started again: the kernel drops its flock.
Restart(w) ==
    /\ mutex' = IF mutex = w THEN Nobody ELSE mutex
    /\ Goto(w, "idle")
    /\ Return(w, "none")
    /\ lastSweep' = [lastSweep EXCEPT ![w] = LongAgo]
    /\ UNCHANGED <<clock, claim, msg, now, lastClaim>>

Tick ==
    /\ clock < MaxClock
    /\ clock' = clock + 1
    /\ UNCHANGED <<claim, mutex, pc, msg, now, lastSweep, verdict, lastClaim>>

Init ==
    /\ clock = 0
    /\ claim = [m \in Messages |-> Never]
    /\ mutex = Nobody
    /\ pc = [w \in Workers |-> "idle"]
    /\ msg \in [Workers -> Messages]
    /\ now = [w \in Workers |-> 0]
    /\ lastSweep = [w \in Workers |-> LongAgo]
    /\ verdict = [w \in Workers |-> "none"]
    /\ lastClaim = [m \in Messages |-> Never]

Work(w) ==
    \/ OpenFails(w) \/ Lock(w) \/ Sweep(w) \/ Inspect(w)
    \/ RemoveExpired(w) \/ Create(w) \/ Unlock(w)

Next ==
    \/ Tick
    \/ \E w \in Workers : Work(w) \/ Restart(w) \/ \E m \in Messages : Ask(w, m)

Spec == Init /\ [][Next]_vars

-----------------------------------------------------------------------------

TypeOK ==
    /\ clock \in Nat
    /\ claim \in [Messages -> Nat \cup {Never}]
    /\ mutex \in Workers \cup {Nobody}
    /\ pc \in [Workers -> PCs]
    /\ msg \in [Workers -> Messages]
    /\ now \in [Workers -> Nat]
    /\ lastSweep \in [Workers -> Int]
    /\ verdict \in [Workers -> Verdicts]
    /\ lastClaim \in [Messages -> Nat \cup {Never}]

\* The store keeps the promise of ClaimOnce: no second claim on a message
\* within TTL, though workers read the clock long before they get the mutex,
\* sweep each other's files, and die at any point.
ClaimEnd == [m \in Messages |-> IF lastClaim[m] = Never THEN 0 ELSE lastClaim[m] + TTL]

Promise == INSTANCE ClaimOnce WITH time <- clock, until <- ClaimEnd

Implements == Promise!Spec

\* Nobody removes the file of a claim that has not expired at the time of the
\* removal, or replaces it: not the sweep, not a worker with an old clock.
LiveClaimsKept ==
    [][\A m \in Messages :
          claim[m] # Never /\ claim'[m] # claim[m] =>
              claim'[m] = Never /\ clock - claim[m] >= TTL]_vars

\* Who is turned away is a duplicate: the claim it met is younger than TTL by
\* its own clock.  Failing calls "fail open rather than suppressing Atri
\* replies"; the one that does not is the removal of an expired claim.
RefusedOnlyDuplicates ==
    \A w \in Workers :
        pc[w] = "unlock" /\ verdict[w] \in {"duplicate", "stuck"} =>
            /\ claim[msg[w]] # Never
            /\ verdict[w] = "duplicate" <=> now[w] - claim[msg[w]] < TTL

=============================================================================
