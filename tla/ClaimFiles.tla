----------------------------- MODULE ClaimFiles -----------------------------
(***************************************************************************)
(* What the two guards of the Atri assistant have in common: a directory   *)
(* of claim files, one per Telegram message, that several bot processes    *)
(* share.  A claim file is its modification time.                          *)
(***************************************************************************)
EXTENDS Integers

CONSTANTS
    Workers,     \* bot processes that share the directory
    Messages,
    TTL,         \* how long a claim lasts, in ticks
    SweepEvery,  \* the least time between two sweeps of a process
    MaxClock,    \* bound on the clock
    Faulty,      \* whether file system calls may fail
    Never

ASSUME ClaimAssumption ==
    /\ TTL \in Nat \ {0} /\ SweepEvery \in Nat /\ MaxClock \in Nat
    /\ Faulty \in BOOLEAN
    /\ Never \notin Int

VARIABLES
    clock,
    claim,      \* mtime of the claim file of each message, Never if absent
    pc,         \* per worker: the next step of the function that claims
    msg,        \* the message being claimed
    now,        \* time.time() at the start of the call
    lastSweep,  \* _LAST_SWEEP_AT of the process
    lastClaim   \* history: when a claim on the message last succeeded

\* _LAST_SWEEP_AT = 0.0 in a new process: its first call sweeps
LongAgo == -SweepEvery

Goto(w, next) == pc' = [pc EXCEPT ![w] = next]

=============================================================================
