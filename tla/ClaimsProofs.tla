---------------------------- MODULE ClaimsProofs ----------------------------
(***************************************************************************)
(* What the two guards of the assistant keep for any number of processes   *)
(* and messages, any TTL, crashes and failing system calls included.  The  *)
(* output guard, with its lock, implements ClaimOnce and turns only        *)
(* duplicates away; the ingress guard, without one, keeps the promise of   *)
(* ClaimOnce for the first claim on a message.                             *)
(***************************************************************************)
EXTENDS MessageClaims, OutputClaims, TLAPS

-----------------------------------------------------------------------------
(* The output guard *)

Critical == {"sweep", "stat", "unlink", "create", "unlock"}

\* one holder of the flock
Exclusive == \A w \in Workers : pc[w] \in Critical => mutex = w

\* no clock reading and no mtime lies in the future
NoFuture ==
    /\ \A w \in Workers : now[w] <= clock
    /\ \A m \in Messages : claim[m] # Never => claim[m] <= clock

\* what the steps between Inspect and Create rely on
Inspected ==
    \A w \in Workers :
        /\ pc[w] = "unlink" => Expired(claim[msg[w]], now[w])
        /\ pc[w] = "create" => claim[msg[w]] = Never

\* a claim that has not expired is still on disk, or a younger one is
Recorded ==
    \A m \in Messages :
        lastClaim[m] # Never =>
            /\ lastClaim[m] <= clock
            /\ \/ clock - lastClaim[m] >= TTL
               \/ claim[m] # Never /\ lastClaim[m] <= claim[m]

OutputInv == TypeOK /\ Exclusive /\ NoFuture /\ Inspected /\ Recorded

LEMMA InitOutputInv == Init => OutputInv
BY ClaimAssumption, OutputAssumption
DEF Init, OutputInv, TypeOK, PCs, Verdicts, LongAgo, Exclusive, Critical, NoFuture,
    Inspected, Recorded

LEMMA NextOutputInv == OutputInv /\ [Next]_vars => OutputInv'
<1> SUFFICES ASSUME OutputInv, [Next]_vars PROVE OutputInv'
  OBVIOUS
<1> USE ClaimAssumption, OutputAssumption
    DEF OutputInv, TypeOK, PCs, Verdicts, Exclusive, Critical, NoFuture, Inspected,
        Recorded, Expired, Goto, Return
<1>1. CASE Tick
  BY <1>1 DEF Tick
<1>2. ASSUME NEW w \in Workers, NEW m \in Messages, Ask(w, m) PROVE OutputInv'
  BY <1>2 DEF Ask
<1>3. ASSUME NEW w \in Workers, OpenFails(w) PROVE OutputInv'
  BY <1>3 DEF OpenFails
<1>4. ASSUME NEW w \in Workers, Lock(w) PROVE OutputInv'
  BY <1>4 DEF Lock
<1>5. ASSUME NEW w \in Workers, Sweep(w) PROVE OutputInv'
  BY <1>5 DEF Sweep, Sweepable
<1>6. ASSUME NEW w \in Workers, Inspect(w) PROVE OutputInv'
  BY <1>6 DEF Inspect
<1>7. ASSUME NEW w \in Workers, RemoveExpired(w) PROVE OutputInv'
  BY <1>7 DEF RemoveExpired
<1>8. ASSUME NEW w \in Workers, Create(w) PROVE OutputInv'
  BY <1>8 DEF Create
<1>9. ASSUME NEW w \in Workers, Unlock(w) PROVE OutputInv'
  BY <1>9 DEF Unlock
<1>10. ASSUME NEW w \in Workers, Restart(w) PROVE OutputInv'
  BY <1>10 DEF Restart, LongAgo
<1>11. CASE UNCHANGED vars
  BY <1>11 DEF vars
<1> QED
  BY <1>1, <1>2, <1>3, <1>4, <1>5, <1>6, <1>7, <1>8, <1>9, <1>10, <1>11 DEF Next, Work

LEMMA OutputInvariance == Spec => []OutputInv
BY InitOutputInv, NextOutputInv, PTL DEF Spec

\* All variables of _claim_output_once and of its callers keep their types.
THEOREM OutputTyping == Spec => []TypeOK
<1>1. OutputInv => TypeOK
  BY DEF OutputInv
<1> QED BY <1>1, OutputInvariance, PTL

\* Every step of the store is a step of ClaimOnce or changes neither the clock
\* nor the end of a claim: no message is claimed twice within TTL, however the workers
\* interleave, crash, or read the clock before they wait for the flock.
THEOREM Refinement == Spec => Implements
<1>1. Init => Promise!Init
  BY DEF Init, Promise!Init, ClaimEnd
<1>2. OutputInv /\ [Next]_vars => [Promise!Next]_<<clock, ClaimEnd>>
  <2> SUFFICES ASSUME OutputInv, [Next]_vars
               PROVE  Promise!Next \/ UNCHANGED <<clock, ClaimEnd>>
    OBVIOUS
  <2>1. CASE Tick
    BY <2>1 DEF Tick, Promise!Next, Promise!Tick, ClaimEnd
  <2>2. ASSUME NEW w \in Workers, Create(w)
        PROVE  Promise!Next \/ UNCHANGED <<clock, ClaimEnd>>
    <3>1. msg[w] \in Messages /\ clock \in Nat /\ claim \in [Messages -> Nat \cup {Never}]
      BY DEF OutputInv, TypeOK
    <3>2. CASE lastClaim' = [lastClaim EXCEPT ![msg[w]] = clock] /\ claim[msg[w]] = Never
      <4>1. Promise!Claimable(msg[w])
        BY <3>1, <3>2, ClaimAssumption, OutputAssumption
           DEF OutputInv, TypeOK, Recorded, Promise!Claimable, ClaimEnd
      <4>2. Promise!Claim(msg[w])
        <5>1. ClaimEnd' = [ClaimEnd EXCEPT ![msg[w]] = clock + TTL]
          <6>1. lastClaim \in [Messages -> Nat \cup {Never}] /\ clock # Never
            BY <3>1, ClaimAssumption, OutputAssumption DEF OutputInv, TypeOK
          <6>2. ASSUME NEW m \in Messages
                PROVE  ClaimEnd'[m] = [ClaimEnd EXCEPT ![msg[w]] = clock + TTL][m]
            BY <3>1, <3>2, <6>1 DEF ClaimEnd
          <6> QED BY <6>2 DEF ClaimEnd
        <5> QED BY <2>2, <4>1, <5>1 DEF Create, Promise!Claim
      <4> QED BY <3>1, <4>2 DEF Promise!Next
    <3> QED BY <2>2, <3>2 DEF Create, ClaimEnd
  <2>3. ASSUME NEW w \in Workers, ~Create(w), Work(w) \/ Restart(w)
        PROVE  UNCHANGED <<clock, ClaimEnd>>
    BY <2>3 DEF Work, OpenFails, Lock, Sweep, Inspect, RemoveExpired, Unlock, Restart,
              ClaimEnd
  <2>4. ASSUME NEW w \in Workers, NEW m \in Messages, Ask(w, m)
        PROVE  UNCHANGED <<clock, ClaimEnd>>
    BY <2>4 DEF Ask, ClaimEnd
  <2>5. CASE UNCHANGED vars
    BY <2>5 DEF vars, ClaimEnd
  <2> QED BY <2>1, <2>2, <2>3, <2>4, <2>5 DEF Next, Work
<1> QED BY <1>1, <1>2, OutputInvariance, PTL DEF Spec, Implements, Promise!Spec

\* A claim file younger than TTL is neither removed nor replaced by anyone, so
\* the unlink of one worker never hits the fresh claim of another.
THEOREM NoClaimLost == Spec => LiveClaimsKept
<1> DEFINE Kept == \A m \in Messages :
                      claim[m] # Never /\ claim'[m] # claim[m] =>
                          claim'[m] = Never /\ clock - claim[m] >= TTL
<1>1. OutputInv /\ [Next]_vars => [Kept]_vars
  <2> SUFFICES ASSUME OutputInv, Next PROVE Kept
    OBVIOUS
  <2> USE ClaimAssumption, OutputAssumption DEF OutputInv, TypeOK
  <2>1. ASSUME NEW w \in Workers, Sweep(w) PROVE Kept
    BY <2>1 DEF Sweep, Sweepable, NoFuture
  <2>2. ASSUME NEW w \in Workers, RemoveExpired(w) PROVE Kept
    BY <2>2 DEF RemoveExpired, NoFuture, Inspected, Expired
  <2>3. ASSUME NEW w \in Workers, Create(w) PROVE Kept
    BY <2>3 DEF Create
  <2>4. ASSUME ~\E w \in Workers : Sweep(w) \/ RemoveExpired(w) \/ Create(w)
        PROVE  UNCHANGED claim
    BY <2>4 DEF Next, Work, Tick, Ask, OpenFails, Lock, Inspect, Unlock, Restart
  <2>5. UNCHANGED claim => Kept
    OBVIOUS
  <2> QED BY <2>1, <2>2, <2>3, <2>4, <2>5
<1> QED BY <1>1, OutputInvariance, PTL DEF Spec, LiveClaimsKept

\* Whatever calls of the file system fail: a worker that is turned away met a
\* claim on its message younger than TTL, or one that could not be removed.
THEOREM Refusals == Spec => []RefusedOnlyDuplicates
<1>1. Init => RefusedOnlyDuplicates
  BY DEF Init, RefusedOnlyDuplicates
<1>2. OutputInv /\ RefusedOnlyDuplicates /\ [Next]_vars => RefusedOnlyDuplicates'
  <2> SUFFICES ASSUME OutputInv, RefusedOnlyDuplicates, [Next]_vars
               PROVE  RefusedOnlyDuplicates'
    OBVIOUS
  <2> USE ClaimAssumption, OutputAssumption
      DEF OutputInv, TypeOK, PCs, Verdicts, Exclusive, Critical, NoFuture, Inspected,
          Expired, Goto, Return, RefusedOnlyDuplicates
  <2>1. CASE Tick
    BY <2>1 DEF Tick
  <2>2. ASSUME NEW w \in Workers, NEW m \in Messages, Ask(w, m)
        PROVE  RefusedOnlyDuplicates'
    BY <2>2 DEF Ask
  <2>3. ASSUME NEW w \in Workers, OpenFails(w) \/ Lock(w) \/ Unlock(w) \/ Restart(w)
        PROVE  RefusedOnlyDuplicates'
    BY <2>3 DEF OpenFails, Lock, Unlock, Restart
  <2>4. ASSUME NEW w \in Workers, Sweep(w) PROVE RefusedOnlyDuplicates'
    BY <2>4 DEF Sweep
  <2>5. ASSUME NEW w \in Workers, Inspect(w) PROVE RefusedOnlyDuplicates'
    BY <2>5 DEF Inspect
  <2>6. ASSUME NEW w \in Workers, RemoveExpired(w) PROVE RefusedOnlyDuplicates'
    BY <2>6 DEF RemoveExpired
  <2>7. ASSUME NEW w \in Workers, Create(w) PROVE RefusedOnlyDuplicates'
    BY <2>7 DEF Create
  <2>8. CASE UNCHANGED vars
    BY <2>8 DEF vars
  <2> QED BY <2>1, <2>2, <2>3, <2>4, <2>5, <2>6, <2>7, <2>8 DEF Next, Work
<1> QED BY <1>1, <1>2, OutputInvariance, PTL DEF Spec

-----------------------------------------------------------------------------
(* The ingress guard *)

\* the first claim on m is TTL old
Aged(m) == firstClaim[m] # Never /\ clock - firstClaim[m] >= TTL

Punctual == \A w \in Workers : now[w] <= clock

\* a claim on disk is no older than the first claim on its message, and while
\* that is young it is on disk
Held ==
    \A m \in Messages :
        /\ claim[m] # Never =>
              firstClaim[m] # Never /\ firstClaim[m] <= claim[m] /\ claim[m] <= clock
        /\ firstClaim[m] # Never /\ claim[m] = Never => Aged(m)

\* only an aged message has a worker about to unlink its claim
Armed ==
    \A w \in Workers :
        /\ pc[w] = "unlink" => Aged(msg[w])
        /\ pc[w] = "sweepUnlink" => Aged(doomed[w])

IngressInv == IngressTypeOK /\ Punctual /\ Held /\ Armed

LEMMA InitIngressInv == IngressInit => IngressInv
BY ClaimAssumption
DEF IngressInit, IngressInv, IngressTypeOK, IngressPCs, LongAgo, Punctual, Held, Armed

LEMMA NextIngressInv == IngressInv /\ [IngressNext]_ingressVars => IngressInv'
<1> SUFFICES ASSUME IngressInv, [IngressNext]_ingressVars PROVE IngressInv'
  OBVIOUS
<1> USE ClaimAssumption
    DEF IngressInv, IngressTypeOK, IngressPCs, Punctual, Held, Armed, Aged, Goto,
        callVars, sweepVars
<1>1. CASE IngressTick
  BY <1>1 DEF IngressTick
<1>2. ASSUME NEW w \in Workers, NEW m \in Messages, Receive(w, m) PROVE IngressInv'
  BY <1>2 DEF Receive
<1>3. ASSUME NEW w \in Workers, CreateClaim(w) PROVE IngressInv'
  BY <1>3 DEF CreateClaim
<1>4. ASSUME NEW w \in Workers, Exists(w) \/ ClaimFails(w) PROVE IngressInv'
  BY <1>4 DEF Exists, ClaimFails
<1>5. ASSUME NEW w \in Workers, Stat(w) PROVE IngressInv'
  BY <1>5 DEF Stat, Age
<1>6. ASSUME NEW w \in Workers, Unlink(w) PROVE IngressInv'
  BY <1>6 DEF Unlink
<1>7. ASSUME NEW w \in Workers, NEW m \in Messages, SweepStat(w, m) PROVE IngressInv'
  BY <1>7 DEF SweepStat, Age
<1>8. ASSUME NEW w \in Workers, SweepUnlink(w) PROVE IngressInv'
  BY <1>8 DEF SweepUnlink
<1>9. ASSUME NEW w \in Workers, Accepted(w) \/ IngressRestart(w) PROVE IngressInv'
  BY <1>9 DEF Accepted, IngressRestart, LongAgo
<1>10. CASE UNCHANGED ingressVars
  BY <1>10 DEF ingressVars
<1> QED
  BY <1>1, <1>2, <1>3, <1>4, <1>5, <1>6, <1>7, <1>8, <1>9, <1>10 DEF IngressNext

LEMMA IngressInvariance == IngressSpec => []IngressInv
BY InitIngressInv, NextIngressInv, PTL DEF IngressSpec

\* The claim a message gets when it first arrives keeps every other process,
\* route and redelivery away for TTL (_claim_message_once, _sweep_stale_claims).
THEOREM FirstTTL == IngressSpec => FirstClaimExclusive
<1> DEFINE Kept == \A m \in Messages :
                      firstClaim[m] # Never /\ lastClaim'[m] # lastClaim[m] =>
                          clock - firstClaim[m] >= TTL
<1>1. IngressInv /\ [IngressNext]_ingressVars => [Kept]_ingressVars
  <2> SUFFICES ASSUME IngressInv, IngressNext PROVE Kept
    OBVIOUS
  <2>1. ASSUME NEW w \in Workers, CreateClaim(w) PROVE Kept
    BY <2>1 DEF CreateClaim, IngressInv, IngressTypeOK, Held, Aged
  <2>2. ASSUME ~\E w \in Workers : CreateClaim(w) PROVE UNCHANGED lastClaim
    BY <2>2 DEF IngressNext, IngressTick, Receive, Exists, ClaimFails, Stat, Unlink, SweepStat,
                SweepUnlink, Accepted, IngressRestart
  <2> QED BY <2>1, <2>2
<1> QED BY <1>1, IngressInvariance, PTL DEF IngressSpec, FirstClaimExclusive

\* The variables of the guard keep their types in every process.
THEOREM IngressTyping == IngressSpec => []IngressTypeOK
<1>1. IngressInv => IngressTypeOK
  BY DEF IngressInv
<1> QED BY <1>1, IngressInvariance, PTL

=============================================================================
