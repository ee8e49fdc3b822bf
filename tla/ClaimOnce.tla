----------------------------- MODULE ClaimOnce -----------------------------
(***************************************************************************)
(* What a claim store promises its users: a message is claimed, and then   *)
(* not again until TTL has passed since the last claim.  The two stores of *)
(* the Atri assistant (MessageClaims, OutputClaims) state this promise in  *)
(* the docstrings of their claim functions.                                *)
(***************************************************************************)
EXTENDS Integers

CONSTANTS
    Messages,
    TTL      \* how long a claim lasts, a positive number

VARIABLES
    time,    \* the wall clock the workers share
    until    \* when the claim on each message ends

Init ==
    /\ time = 0
    /\ until = [m \in Messages |-> 0]

Claimable(m) == until[m] <= time

Claim(m) ==
    /\ Claimable(m)
    /\ until' = [until EXCEPT ![m] = time + TTL]
    /\ UNCHANGED time

Tick ==
    /\ time' = time + 1
    /\ UNCHANGED until

Next == Tick \/ \E m \in Messages : Claim(m)

Spec == Init /\ [][Next]_<<time, until>>

=============================================================================
