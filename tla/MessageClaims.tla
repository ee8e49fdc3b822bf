--------------------------- MODULE MessageClaims ---------------------------
(***************************************************************************)
(* The ingress guard of the Atri assistant: _claim_message_once keeps one  *)
(* claim file per Telegram message in a directory that all bot processes   *)
(* share.  There is no lock: each system call is a step of its own, and    *)
(* those of several processes interleave.  Within a process the function   *)
(* does not suspend, so a worker makes one call at a time, whichever of    *)
(* the two guarded routes it comes from.                                   *)
(*                                                                         *)
(* Definitions that OutputClaims has too are named Ingress... here: one    *)
(* module, ClaimsProofs, reasons about both guards.                        *)
(***************************************************************************)
EXTENDS ClaimFiles

VARIABLES
    retried,     \* the second and last round of the loop
    todo,        \* claims the sweep has listed and not looked at
    doomed,      \* the claim the sweep found stale and is about to unlink
    firstClaim   \* history: when a message was first claimed

callVars == <<msg, now, retried>>
sweepVars == <<todo, doomed, lastSweep>>
ingressVars == <<clock, claim, pc, callVars, sweepVars, firstClaim, lastClaim>>

IngressPCs == {"idle", "open", "stat", "unlink", "sweep", "sweepUnlink"}

\* the age of a claim; a file that is gone counts as new
Age(m, at) == IF claim[m] = Never THEN 0 ELSE at - claim[m]

-----------------------------------------------------------------------------

\* a handler receives the message: time.time(), mkdir
Receive(w, m) ==
    /\ pc[w] = "idle"
    /\ msg' = [msg EXCEPT ![w] = m]
    /\ now' = [now EXCEPT ![w] = clock]
    /\ retried' = [retried EXCEPT ![w] = FALSE]
    /\ Goto(w, "open")
    /\ UNCHANGED <<clock, claim, sweepVars, firstClaim, lastClaim>>

\* Broken on purpose: the file is opened without O_EXCL.
CreateNotExclusive(w) ==
    LET m == msg[w] IN
    /\ pc[w] = "open"
    /\ claim' = [claim EXCEPT ![m] = clock]
    /\ lastClaim' = [lastClaim EXCEPT ![m] = clock]
    /\ firstClaim' = [firstClaim EXCEPT ![m] = IF @ = Never THEN clock ELSE @]
    /\ Goto(w, "sweep")
    /\ UNCHANGED <<clock, callVars, sweepVars>>

\* os.open(O_CREAT | O_EXCL) creates the file: the message is accepted
CreateClaim(w) ==
    LET m == msg[w] IN
    /\ pc[w] = "open"
    /\ claim[m] = Never
    /\ claim' = [claim EXCEPT ![m] = clock]
    /\ lastClaim' = [lastClaim EXCEPT ![m] = clock]
    /\ firstClaim' = [firstClaim EXCEPT ![m] = IF @ = Never THEN clock ELSE @]
    /\ \/ \* the write fails: the exception leaves the function and the handler
          Faulty /\ Goto(w, "idle") /\ UNCHANGED <<todo, lastSweep>>
       \/ /\ now[w] - lastSweep[w] < SweepEvery
          /\ todo' = [todo EXCEPT ![w] = {}]
          /\ Goto(w, "sweep") /\ UNCHANGED lastSweep
       \/ \* iterdir() of the sweep, right after the claim
          /\ now[w] - lastSweep[w] >= SweepEvery
          /\ todo' = [todo EXCEPT ![w] = {n \in Messages : claim'[n] # Never}]
          /\ lastSweep' = [lastSweep EXCEPT ![w] = now[w]]
          /\ Goto(w, "sweep")
    /\ UNCHANGED <<clock, callVars, doomed>>

Exists(w) ==
    /\ pc[w] = "open"
    /\ claim[msg[w]] # Never
    /\ Goto(w, "stat")
    /\ UNCHANGED <<clock, claim, callVars, sweepVars, firstClaim, lastClaim>>

\* mkdir or open fails: the message is accepted without a claim
ClaimFails(w) ==
    /\ Faulty /\ pc[w] = "open"
    /\ Goto(w, "idle")
    /\ UNCHANGED <<clock, claim, callVars, sweepVars, firstClaim, lastClaim>>

\* the claim is stale, or the message is dropped; a file that cannot be read
\* counts as new, too
Stat(w) ==
    /\ pc[w] = "stat"
    /\ \/ Age(msg[w], now[w]) >= TTL /\ Goto(w, "unlink")
       \/ (Age(msg[w], now[w]) < TTL \/ Faulty) /\ Goto(w, "idle")
    /\ UNCHANGED <<clock, claim, callVars, sweepVars, firstClaim, lastClaim>>

\* path.unlink() removes whatever file is there by now, then the loop goes
\* round once more; a missing file, or a second round, drops the message.
Unlink(w) ==
    /\ pc[w] = "unlink"
    /\ \/ /\ claim[msg[w]] # Never
          /\ claim' = [claim EXCEPT ![msg[w]] = Never]
          /\ Goto(w, IF retried[w] THEN "idle" ELSE "open")
          /\ retried' = [retried EXCEPT ![w] = TRUE]
       \/ /\ claim[msg[w]] = Never \/ Faulty
          /\ Goto(w, "idle")
          /\ UNCHANGED <<claim, retried>>
    /\ UNCHANGED <<clock, msg, now, sweepVars, firstClaim, lastClaim>>

\* one path of the sweep: stat, and, if the claim is stale, unlink
SweepStat(w, m) ==
    /\ pc[w] = "sweep" /\ m \in todo[w]
    /\ todo' = [todo EXCEPT ![w] = @ \ {m}]
    /\ \/ /\ Age(m, now[w]) > TTL
          /\ doomed' = [doomed EXCEPT ![w] = m]
          /\ Goto(w, "sweepUnlink")
       \/ /\ Age(m, now[w]) <= TTL \/ Faulty
          /\ UNCHANGED <<doomed, pc>>
    /\ UNCHANGED <<clock, claim, callVars, lastSweep, firstClaim, lastClaim>>

SweepUnlink(w) ==
    /\ pc[w] = "sweepUnlink"
    /\ \/ claim' = [claim EXCEPT ![doomed[w]] = Never]
       \/ Faulty /\ UNCHANGED claim
    /\ Goto(w, "sweep")
    /\ UNCHANGED <<clock, callVars, sweepVars, firstClaim, lastClaim>>

\* the sweep is over: _claim_message_once returns True
Accepted(w) ==
    /\ pc[w] = "sweep" /\ todo[w] = {}
    /\ Goto(w, "idle")
    /\ UNCHANGED <<clock, claim, callVars, sweepVars, firstClaim, lastClaim>>

\* the process dies and is started again
IngressRestart(w) ==
    /\ Goto(w, "idle")
    /\ lastSweep' = [lastSweep EXCEPT ![w] = LongAgo]
    /\ todo' = [todo EXCEPT ![w] = {}]
    /\ UNCHANGED <<clock, claim, callVars, doomed, firstClaim, lastClaim>>

IngressTick ==
    /\ clock < MaxClock
    /\ clock' = clock + 1
    /\ UNCHANGED <<claim, pc, callVars, sweepVars, firstClaim, lastClaim>>

IngressInit ==
    /\ clock = 0
    /\ claim = [m \in Messages |-> Never]
    /\ pc = [w \in Workers |-> "idle"]
    /\ msg \in [Workers -> Messages]
    /\ now = [w \in Workers |-> 0]
    /\ retried = [w \in Workers |-> FALSE]
    /\ todo = [w \in Workers |-> {}]
    /\ doomed = msg
    /\ lastSweep = [w \in Workers |-> LongAgo]
    /\ firstClaim = [m \in Messages |-> Never]
    /\ lastClaim = [m \in Messages |-> Never]

IngressNext ==
    \/ IngressTick
    \/ \E w \in Workers :
          \/ CreateClaim(w) \/ Exists(w) \/ ClaimFails(w) \/ Stat(w) \/ Unlink(w)
          \/ SweepUnlink(w) \/ Accepted(w) \/ IngressRestart(w)
          \/ \E m \in Messages : Receive(w, m) \/ SweepStat(w, m)

IngressSpec == IngressInit /\ [][IngressNext]_ingressVars

-----------------------------------------------------------------------------

IngressTypeOK ==
    /\ clock \in Nat
    /\ claim \in [Messages -> Nat \cup {Never}]
    /\ pc \in [Workers -> IngressPCs]
    /\ msg \in [Workers -> Messages] /\ doomed \in [Workers -> Messages]
    /\ now \in [Workers -> Nat]
    /\ retried \in [Workers -> BOOLEAN]
    /\ todo \in [Workers -> SUBSET Messages]
    /\ lastSweep \in [Workers -> Int]
    /\ firstClaim \in [Messages -> Nat \cup {Never}]
    /\ lastClaim \in [Messages -> Nat \cup {Never}]

\* "Atomically claim one Telegram message across tasks/processes": the claim
\* that a message gets on arrival is exclusive for a whole TTL, because a file
\* that young is never found stale by a stat before it.  Later claims are not:
\* two processes that find the same stale file can both accept the message.
FirstClaimExclusive ==
    [][\A m \in Messages :
          firstClaim[m] # Never /\ lastClaim'[m] # lastClaim[m] =>
              clock - firstClaim[m] >= TTL]_ingressVars

=============================================================================
