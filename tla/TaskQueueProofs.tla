-------------------------- MODULE TaskQueueProofs --------------------------
(***************************************************************************)
(* Proofs that, for any set of tasks and any limits, the queues of         *)
(* TaskQueue stay well formed, count no task twice, lose no wake-up, take  *)
(* no slot from a running transfer, leak slots only through a cancel or an *)
(* exception that nobody catches, keep nobody waiting for a free slot and  *)
(* admit nobody beyond the limits.                                         *)
(***************************************************************************)
EXTENDS TaskQueue, FiniteSetTheorems, SequenceTheorems, TLAPS

-----------------------------------------------------------------------------
(* Sequences without repetitions: cutting a prefix, appending, deleting *)

LEMMA ElemsAppend ==
    ASSUME NEW S, NEW s \in Seq(S), NEW t \in S, NoRepeats(s), t \notin Elems(s)
    PROVE  /\ Append(s, t) \in Seq(S)
           /\ NoRepeats(Append(s, t))
           /\ Elems(Append(s, t)) = Elems(s) \cup {t}
BY DEF NoRepeats, Elems

LEMMA ElemsSplit ==
    ASSUME NEW S, NEW s \in Seq(S), NoRepeats(s), NEW k \in 0 .. Len(s)
    PROVE  /\ SubSeq(s, k + 1, Len(s)) \in Seq(S)
           /\ NoRepeats(SubSeq(s, k + 1, Len(s)))
           /\ Elems(SubSeq(s, k + 1, Len(s))) \subseteq Elems(s)
           /\ Elems(SubSeq(s, 1, k)) = Elems(s) \ Elems(SubSeq(s, k + 1, Len(s)))
<1> DEFINE hd == SubSeq(s, 1, k)
           tl == SubSeq(s, k + 1, Len(s))
<1>1. /\ hd \in Seq(S) /\ Len(hd) = k
      /\ \A i \in 1 .. k : hd[i] = s[i]
  OBVIOUS
<1>2. /\ tl \in Seq(S) /\ Len(tl) = Len(s) - k
      /\ \A i \in 1 .. Len(s) - k : tl[i] = s[k + i]
  OBVIOUS
<1> HIDE DEF hd, tl
<1>3. NoRepeats(tl)
  BY <1>2 DEF NoRepeats
<1>4. Elems(tl) \subseteq Elems(s)
  BY <1>2 DEF Elems
<1>5. Elems(hd) \subseteq Elems(s) \ Elems(tl)
  <2> SUFFICES ASSUME NEW i \in 1 .. k
               PROVE  s[i] \in Elems(s) /\ s[i] \notin Elems(tl)
    BY <1>1 DEF Elems
  <2>1. s[i] \in Elems(s)
    BY DEF Elems
  <2>2. ASSUME NEW j \in 1 .. Len(s) - k PROVE tl[j] # s[i]
    BY <1>2 DEF NoRepeats
  <2> QED BY <2>1, <2>2, <1>2 DEF Elems
<1>6. Elems(s) \ Elems(tl) \subseteq Elems(hd)
  <2> SUFFICES ASSUME NEW i \in 1 .. Len(s), s[i] \notin Elems(tl)
               PROVE  s[i] \in Elems(hd)
    BY DEF Elems
  <2>1. CASE i \in 1 .. k
    BY <2>1, <1>1 DEF Elems
  <2>2. CASE i \notin 1 .. k
    <3>1. /\ i - k \in 1 .. Len(s) - k
          /\ s[i] = tl[i - k]
      BY <2>2, <1>2
    <3> QED BY <3>1, <1>2 DEF Elems
  <2> QED BY <2>1, <2>2
<1> QED BY <1>2, <1>3, <1>4, <1>5, <1>6 DEF hd, tl

LEMMA ElemsWithout ==
    ASSUME NEW S, NEW s \in Seq(S), NoRepeats(s), NEW t
    PROVE  /\ Without(s, t) \in Seq(S)
           /\ NoRepeats(Without(s, t))
           /\ Elems(Without(s, t)) = Elems(s) \ {t}
<1>1. CASE t \notin Elems(s)
  BY <1>1 DEF Without
<1>2. CASE t \in Elems(s)
  <2> DEFINE k == CHOOSE i \in 1 .. Len(s) : s[i] = t
             hd == SubSeq(s, 1, k - 1)
             tl == SubSeq(s, k + 1, Len(s))
             r == hd \o tl
  <2>1. k \in 1 .. Len(s) /\ s[k] = t
    BY <1>2 DEF Elems
  <2>2. /\ r \in Seq(S) /\ Len(r) = Len(s) - 1
        /\ \A i \in 1 .. Len(s) - 1 : r[i] = IF i < k THEN s[i] ELSE s[i + 1]
    <3> HIDE DEF k
    <3>1. /\ hd \in Seq(S) /\ Len(hd) = k - 1
          /\ \A i \in 1 .. k - 1 : hd[i] = s[i]
      BY <2>1
    <3>2. /\ tl \in Seq(S) /\ Len(tl) = Len(s) - k
          /\ \A i \in 1 .. Len(s) - k : tl[i] = s[k + i]
      BY <2>1
    <3> HIDE DEF hd, tl
    <3>3. /\ r \in Seq(S) /\ Len(r) = Len(hd) + Len(tl)
          /\ \A i \in 1 .. Len(hd) + Len(tl) :
                r[i] = IF i <= Len(hd) THEN hd[i] ELSE tl[i - Len(hd)]
      BY <3>1, <3>2, ConcatProperties, Zenon
    <3> HIDE DEF r
    <3>4. ASSUME NEW i \in 1 .. Len(s) - 1
          PROVE  r[i] = IF i < k THEN s[i] ELSE s[i + 1]
      <4>1. i \in 1 .. Len(hd) + Len(tl)
        BY <2>1, <3>1, <3>2
      <4>2. CASE i < k
        BY <4>1, <4>2, <2>1, <3>1, <3>3
      <4>3. CASE i >= k
        <5>1. i - Len(hd) \in 1 .. Len(s) - k /\ ~(i <= Len(hd))
          BY <4>3, <2>1, <3>1
        <5>2. r[i] = tl[i - Len(hd)]
          BY <5>1, <4>1, <3>3
        <5>3. tl[i - Len(hd)] = s[k + (i - Len(hd))]
          BY <5>1, <3>2
        <5>4. k + (i - Len(hd)) = i + 1
          BY <2>1, <3>1
        <5> QED BY <5>2, <5>3, <5>4, <4>3, <2>1
      <4> QED BY <4>2, <4>3, <2>1
    <3> QED BY <3>1, <3>2, <3>3, <3>4, <2>1
  <2>3. Without(s, t) = r
    BY <1>2 DEF Without
  <2> HIDE DEF r, k
  <2>4. NoRepeats(r)
    <3> SUFFICES ASSUME NEW i \in 1 .. Len(s) - 1, NEW j \in 1 .. Len(s) - 1,
                        r[i] = r[j]
                 PROVE  i = j
      BY <2>2 DEF NoRepeats
    <3> QED BY <2>1, <2>2 DEF NoRepeats
  <2>5. Elems(r) \subseteq Elems(s) \ {t}
    <3> SUFFICES ASSUME NEW i \in 1 .. Len(s) - 1
                 PROVE  r[i] \in Elems(s) /\ r[i] # t
      BY <2>2 DEF Elems
    <3>1. \E j \in 1 .. Len(s) : j # k /\ r[i] = s[j]
      <4>1. CASE i < k
        BY <4>1, <2>1, <2>2
      <4>2. CASE i >= k
        BY <4>2, <2>1, <2>2
      <4> QED BY <4>1, <4>2, <2>1
    <3> QED BY <3>1, <2>1 DEF NoRepeats, Elems
  <2>6. Elems(s) \ {t} \subseteq Elems(r)
    <3> SUFFICES ASSUME NEW i \in 1 .. Len(s), s[i] # t PROVE s[i] \in Elems(r)
      BY DEF Elems
    <3>1. CASE i < k
      BY <3>1, <2>1, <2>2 DEF Elems
    <3>2. CASE i > k
      <4>1. i - 1 \in k .. Len(s) - 1 /\ r[i - 1] = s[i]
        BY <3>2, <2>1, <2>2
      <4> QED BY <4>1, <2>1, <2>2 DEF Elems
    <3> QED BY <3>1, <3>2, <2>1
  <2> QED BY <2>2, <2>3, <2>4, <2>5, <2>6
<1> QED BY <1>1, <1>2

-----------------------------------------------------------------------------
(* The inductive invariant *)

\* Before its upload a task is nowhere in the upload half of the queues, and
\* once past the download queue it is not in that queue either; from then on it
\* is nowhere in the download half, and once past the upload queue not there.
BeforeUpload == {"add", "resume", "dl", "dlDone", "post", "proc", "procRun", "checkUp"}
LateUpload == {"regUp", "up", "fin", "finQueue"}

PlaceOf(t) ==
    /\ pc[t] = "new" =>
          t \notin Elems(queuedDl) \cup Elems(queuedUp) \cup nonQueuedDl
                   \cup nonQueuedUp \cup signalled
    /\ pc[t] \in {"addQueued", "waitDl"} => t \notin Elems(queuedUp) \cup nonQueuedUp
    /\ pc[t] \in BeforeUpload =>
          t \notin Elems(queuedDl) \cup Elems(queuedUp) \cup nonQueuedUp
    /\ pc[t] \in {"enqUp", "waitUp"} => t \notin Elems(queuedDl) \cup nonQueuedDl
    /\ pc[t] \in LateUpload =>
          t \notin Elems(queuedDl) \cup nonQueuedDl \cup Elems(queuedUp)

Unsignalled == (Elems(queuedDl) \cup Elems(queuedUp)) \cap signalled = {}

Placement ==
    /\ OnePlace
    /\ Unsignalled
    /\ NoLostWakeup
    /\ \A t \in Tasks : PlaceOf(t)

IndInv == TypeOK /\ Placement

-----------------------------------------------------------------------------
(* What start_from_queued does to the sets *)

Refilled(qd, qu, nd, nu, sg) ==
    LET dls == Elems(qd) \ Elems(queuedDl')
        ups == Elems(qu) \ Elems(queuedUp')
    IN /\ queuedDl' \in Seq(Tasks) /\ NoRepeats(queuedDl') /\ Elems(queuedDl') \subseteq Elems(qd)
       /\ queuedUp' \in Seq(Tasks) /\ NoRepeats(queuedUp') /\ Elems(queuedUp') \subseteq Elems(qu)
       /\ nonQueuedDl' = nd \cup dls
       /\ nonQueuedUp' = nu \cup ups
       /\ signalled' = sg \cup dls \cup ups

LEMMA ElemsType ==
    ASSUME NEW S, NEW s \in Seq(S)
    PROVE  Elems(s) \subseteq S
BY DEF Elems

LEMMA RefillIsRefilled ==
    ASSUME NEW qd \in Seq(Tasks), NoRepeats(qd), NEW qu \in Seq(Tasks), NoRepeats(qu),
           NEW nd \in SUBSET Tasks, NEW nu \in SUBSET Tasks, NEW sg,
           limits \in LimitChoices,
           StartFromQueued(qd, qu, nd, nu, sg)
    PROVE  Refilled(qd, qu, nd, nu, sg)
<1>1. /\ limits.all \in Nat /\ limits.dl \in Nat /\ limits.up \in Nat
  BY TaskAssumption
<1>2. /\ Cardinality(nd) \in Nat /\ Cardinality(nu) \in Nat
  BY TaskAssumption, FS_Subset, FS_CardinalityType
<1>3. ASSUME NEW q \in Seq(Tasks), NEW limit \in Nat, NEW used \in Nat
      PROVE  Room(q, limit, used) \in 0 .. Len(q)
  BY DEF Room, Lesser
<1>4. ASSUME NEW n \in Nat, NEW room \in 0 .. n, NEW free \in Int, NEW limited \in BOOLEAN
      PROVE  (IF limited THEN room ELSE IF free > 0 THEN Lesser(room, free) ELSE 0) \in 0 .. n
  BY DEF Lesser
<1>5. UpRoom(qu, nd, nu) \in 0 .. Len(qu)
  <2>1. limits.all - (Cardinality(nd) + Cardinality(nu)) \in Int
    BY <1>1, <1>2
  <2>2. Room(qu, limits.up, Cardinality(nu)) \in 0 .. Len(qu)
    BY <1>1, <1>2, <1>3, Zenon
  <2>3. Len(qu) \in Nat
    OBVIOUS
  <2> QED BY <2>1, <2>2, <2>3, <1>4, Zenon DEF UpRoom
<1>6. DlRoom(qd, qu, nd, nu) \in 0 .. Len(qd)
  <2>1. limits.all - (Cardinality(nd) + Cardinality(nu)) - UpRoom(qu, nd, nu) \in Int
    BY <1>1, <1>2, <1>5
  <2>2. Room(qd, limits.dl, Cardinality(nd)) \in 0 .. Len(qd)
    BY <1>1, <1>2, <1>3, Zenon
  <2>3. Len(qd) \in Nat
    OBVIOUS
  <2> QED BY <2>1, <2>2, <2>3, <1>4, Zenon DEF DlRoom
<1> QED
  BY <1>5, <1>6, ElemsSplit DEF StartFromQueued, StartFirst, Refilled

-----------------------------------------------------------------------------
(* Every action but the two checks only moves tasks out of the queues *)

QueueMoves ==
    /\ queuedDl' \in Seq(Tasks) /\ queuedUp' \in Seq(Tasks)
    /\ nonQueuedDl' \in SUBSET Tasks /\ nonQueuedUp' \in SUBSET Tasks
    /\ signalled' \in SUBSET Tasks
    /\ OnePlace' /\ Unsignalled'
    /\ Elems(queuedDl') \subseteq Elems(queuedDl)
    /\ Elems(queuedUp') \subseteq Elems(queuedUp)
    /\ nonQueuedDl' \subseteq nonQueuedDl \cup Elems(queuedDl)
    /\ nonQueuedUp' \subseteq nonQueuedUp \cup Elems(queuedUp)
    /\ signalled' \subseteq signalled \cup Elems(queuedDl) \cup Elems(queuedUp)
    /\ signalled \subseteq signalled'
    /\ Elems(queuedDl) \subseteq signalled' \cup Elems(queuedDl')
    /\ Elems(queuedUp) \subseteq signalled' \cup Elems(queuedUp')

LEMMA QuietMoves ==
    ASSUME IndInv, UNCHANGED queueVars
    PROVE  QueueMoves
BY DEF IndInv, TypeOK, Placement, OnePlace, Unsignalled, QueueMoves, queueVars

LEMMA RefillMoves ==
    ASSUME IndInv,
           NEW qd \in Seq(Tasks), NoRepeats(qd), Elems(qd) \subseteq Elems(queuedDl),
           NEW qu \in Seq(Tasks), NoRepeats(qu), Elems(qu) \subseteq Elems(queuedUp),
           NEW nd \in SUBSET nonQueuedDl, NEW nu \in SUBSET nonQueuedUp,
           NEW sg, sg = signalled \cup (Elems(queuedDl) \ Elems(qd))
                                  \cup (Elems(queuedUp) \ Elems(qu)),
           StartFromQueued(qd, qu, nd, nu, sg)
    PROVE  QueueMoves
<1>1. Refilled(qd, qu, nd, nu, sg)
  <2>1. limits \in LimitChoices /\ nd \in SUBSET Tasks /\ nu \in SUBSET Tasks
    BY DEF IndInv, TypeOK
  <2> QED BY <2>1, RefillIsRefilled
<1>2. Elems(queuedDl) \subseteq Tasks /\ Elems(queuedUp) \subseteq Tasks
  BY ElemsType DEF IndInv, TypeOK
<1> QED
  BY <1>1, <1>2
  DEF IndInv, TypeOK, Placement, OnePlace, Unsignalled, Refilled, QueueMoves

LEMMA ReleaseMoves ==
    ASSUME IndInv, NEW t \in Tasks, ReleaseAll(t)
    PROVE  QueueMoves
<1> DEFINE qd == Without(queuedDl, t)
           qu == Without(queuedUp, t)
           sg == IF t \in Elems(queuedDl) \cup Elems(queuedUp)
                 THEN signalled \cup {t} ELSE signalled
<1>1. /\ qd \in Seq(Tasks) /\ NoRepeats(qd) /\ Elems(qd) = Elems(queuedDl) \ {t}
      /\ qu \in Seq(Tasks) /\ NoRepeats(qu) /\ Elems(qu) = Elems(queuedUp) \ {t}
  BY ElemsWithout DEF IndInv, TypeOK, Placement, OnePlace
<1>2. StartFromQueued(qd, qu, nonQueuedDl \ {t}, nonQueuedUp \ {t}, sg)
  BY DEF ReleaseAll
<1> HIDE DEF qd, qu
<1>3. sg = signalled \cup (Elems(queuedDl) \ Elems(qd)) \cup (Elems(queuedUp) \ Elems(qu))
  BY <1>1
<1> HIDE DEF sg
<1> QED BY <1>1, <1>2, <1>3, RefillMoves

LEMMA StartOneMoves ==
    ASSUME IndInv, NEW t \in Tasks,
           \/ t \in Elems(queuedDl) /\ StartOneDl(t)
           \/ t \in Elems(queuedUp) /\ StartOneUp(t)
    PROVE  QueueMoves
<1>1. /\ Without(queuedDl, t) \in Seq(Tasks) /\ NoRepeats(Without(queuedDl, t))
      /\ Elems(Without(queuedDl, t)) = Elems(queuedDl) \ {t}
      /\ Without(queuedUp, t) \in Seq(Tasks) /\ NoRepeats(Without(queuedUp, t))
      /\ Elems(Without(queuedUp, t)) = Elems(queuedUp) \ {t}
  BY ElemsWithout DEF IndInv, TypeOK, Placement, OnePlace
<1>2. CASE t \in Elems(queuedDl) /\ StartOneDl(t)
  BY <1>1, <1>2
  DEF IndInv, TypeOK, Placement, OnePlace, Unsignalled, StartOneDl, QueueMoves
<1>3. CASE t \in Elems(queuedUp) /\ StartOneUp(t)
  BY <1>1, <1>3
  DEF IndInv, TypeOK, Placement, OnePlace, Unsignalled, StartOneUp, QueueMoves
<1> QED BY <1>2, <1>3

\* the jumps of a main coroutine that need nothing but QueueMoves
LegalGoto(t, next) ==
    /\ next # "new"
    /\ next \in {"addQueued", "waitDl"} => pc[t] \in {"addQueued", "waitDl"}
    /\ next \in {"enqUp", "waitUp"} => pc[t] \in {"enqUp", "waitUp"}
    /\ next \in BeforeUpload =>
          pc[t] \in BeforeUpload \/ (pc[t] = "waitDl" /\ t \in signalled)
    /\ next \in LateUpload =>
          pc[t] \in LateUpload \/ (pc[t] = "waitUp" /\ t \in signalled)

LEMMA MovesKeepPlacement ==
    ASSUME IndInv, QueueMoves, NEW t \in Tasks, NEW next,
           LegalGoto(t, next), Goto(t, next)
    PROVE  Placement'
<1>1. pc \in [Tasks -> PCs] /\ pc' = [pc EXCEPT ![t] = next]
  BY DEF IndInv, TypeOK, Goto
<1>2. ASSUME NEW u \in Tasks PROVE PlaceOf(u)'
  <2>1. CASE u = t
    BY <1>1, <2>1 DEF IndInv, Placement, PlaceOf, Unsignalled, QueueMoves,
                      LegalGoto, BeforeUpload, LateUpload
  <2>2. CASE u # t
    <3>1. pc'[u] = pc[u]
      BY <1>1, <2>2
    <3> QED BY <3>1 DEF IndInv, Placement, PlaceOf, QueueMoves
  <2> QED BY <2>1, <2>2
<1>3. NoLostWakeup'
  <2> SUFFICES ASSUME NEW u \in Tasks
               PROVE /\ pc'[u] \in {"addQueued", "waitDl"} =>
                             u \in signalled' \cup Elems(queuedDl')
                     /\ pc'[u] \in {"enqUp", "waitUp"} =>
                             u \in signalled' \cup Elems(queuedUp')
    BY DEF NoLostWakeup
  <2>1. /\ pc'[u] \in {"addQueued", "waitDl"} => pc[u] \in {"addQueued", "waitDl"}
        /\ pc'[u] \in {"enqUp", "waitUp"} => pc[u] \in {"enqUp", "waitUp"}
    BY <1>1 DEF LegalGoto
  <2> QED BY <2>1 DEF IndInv, Placement, NoLostWakeup, QueueMoves
<1> QED BY <1>2, <1>3 DEF Placement, QueueMoves

LEMMA StillKeepsPlacement ==
    ASSUME IndInv, QueueMoves, UNCHANGED pc
    PROVE  Placement'
BY DEF IndInv, Placement, PlaceOf, NoLostWakeup, QueueMoves

-----------------------------------------------------------------------------
(* The two checks put a task somewhere new *)

LEMMA CheckDlKeepsPlacement ==
    ASSUME IndInv, NEW t \in Tasks, CheckDl(t)
    PROVE  Placement' /\ queuedDl' \in Seq(Tasks)
<1>1. /\ pc[t] = "new" /\ pc \in [Tasks -> PCs]
      /\ t \notin Elems(queuedDl) \cup Elems(queuedUp) \cup nonQueuedDl
                  \cup nonQueuedUp \cup signalled
  BY DEF CheckDl, IndInv, TypeOK, Placement, PlaceOf
<1>2. CASE MustQueueDl(t)
  <2>1. /\ queuedDl' = Append(queuedDl, t) /\ Goto(t, "addQueued")
        /\ UNCHANGED <<queuedUp, nonQueuedDl, nonQueuedUp, signalled>>
    BY <1>2 DEF CheckDl
  <2>2. /\ queuedDl' \in Seq(Tasks)
        /\ NoRepeats(queuedDl') /\ Elems(queuedDl') = Elems(queuedDl) \cup {t}
    BY <1>1, <2>1, ElemsAppend DEF IndInv, TypeOK, Placement, OnePlace
  <2> QED
    BY <1>1, <2>1, <2>2
    DEF Goto, IndInv, Placement, OnePlace, Unsignalled, NoLostWakeup, PlaceOf, BeforeUpload, LateUpload
<1>3. CASE ~MustQueueDl(t)
  <2>1. /\ nonQueuedDl' = nonQueuedDl \cup {t} /\ Goto(t, "add")
        /\ UNCHANGED <<queuedDl, queuedUp, nonQueuedUp, signalled>>
    BY <1>3 DEF CheckDl
  <2> QED
    BY <1>1, <2>1
    DEF Goto, IndInv, TypeOK, Placement, OnePlace, Unsignalled, NoLostWakeup, PlaceOf, BeforeUpload, LateUpload
<1> QED BY <1>2, <1>3

LEMMA CheckUpKeepsPlacement ==
    ASSUME IndInv, NEW t \in Tasks, CheckUp(t)
    PROVE  /\ Placement'
           /\ queuedDl' \in Seq(Tasks) /\ queuedUp' \in Seq(Tasks)
           /\ nonQueuedDl' \in SUBSET Tasks /\ nonQueuedUp' \in SUBSET Tasks
           /\ signalled' \in SUBSET Tasks
<1>1. /\ pc[t] = "checkUp" /\ pc \in [Tasks -> PCs]
      /\ t \notin Elems(queuedDl) \cup Elems(queuedUp) \cup nonQueuedUp
  BY DEF CheckUp, IndInv, TypeOK, Placement, PlaceOf, BeforeUpload, LateUpload
<1>2. Elems(queuedDl) \subseteq Tasks /\ Elems(queuedUp) \subseteq Tasks
  BY ElemsType DEF IndInv, TypeOK
<1>3. CASE MustQueueUp(t)
  <2> DEFINE qu == Append(queuedUp, t)
  <2>1. /\ StartFromQueued(queuedDl, qu, nonQueuedDl \ {t}, nonQueuedUp, signalled \ {t})
        /\ Goto(t, "enqUp")
    BY <1>3 DEF CheckUp
  <2>2. /\ qu \in Seq(Tasks) /\ NoRepeats(qu) /\ Elems(qu) = Elems(queuedUp) \cup {t}
    BY <1>1, ElemsAppend DEF IndInv, TypeOK, Placement, OnePlace
  <2> HIDE DEF qu
  <2>3. Refilled(queuedDl, qu, nonQueuedDl \ {t}, nonQueuedUp, signalled \ {t})
    BY <2>1, <2>2, RefillIsRefilled DEF IndInv, TypeOK, Placement, OnePlace
  <2> QED
    BY <1>1, <1>2, <2>1, <2>2, <2>3
    DEF Goto, Refilled, IndInv, TypeOK, Placement, OnePlace, Unsignalled, NoLostWakeup,
        PlaceOf, BeforeUpload, LateUpload
<1>4. CASE ~MustQueueUp(t)
  <2>1. /\ StartFromQueued(queuedDl, queuedUp, nonQueuedDl \ {t},
                           nonQueuedUp \cup {t}, signalled)
        /\ Goto(t, "regUp")
    BY <1>4 DEF CheckUp
  <2>2. Refilled(queuedDl, queuedUp, nonQueuedDl \ {t}, nonQueuedUp \cup {t}, signalled)
    BY <2>1, RefillIsRefilled DEF IndInv, TypeOK, Placement, OnePlace
  <2> QED
    BY <1>1, <1>2, <2>1, <2>2
    DEF Goto, Refilled, IndInv, TypeOK, Placement, OnePlace, Unsignalled, NoLostWakeup,
        PlaceOf, BeforeUpload, LateUpload
<1> QED BY <1>3, <1>4

LEMMA RefillFromMoves ==
    ASSUME IndInv, NEW nd \in SUBSET nonQueuedDl, NEW nu \in SUBSET nonQueuedUp,
           StartFromQueued(queuedDl, queuedUp, nd, nu, signalled)
    PROVE  QueueMoves
<1>1. /\ queuedDl \in Seq(Tasks) /\ NoRepeats(queuedDl)
      /\ queuedUp \in Seq(Tasks) /\ NoRepeats(queuedUp)
  BY DEF IndInv, TypeOK, Placement, OnePlace
<1>2. signalled = signalled \cup (Elems(queuedDl) \ Elems(queuedDl))
                            \cup (Elems(queuedUp) \ Elems(queuedUp))
  OBVIOUS
<1> QED BY <1>1, <1>2, RefillMoves

-----------------------------------------------------------------------------
(* The invariant holds in every reachable state *)

LEMMA InitIndInv == Init => IndInv
<1> SUFFICES ASSUME Init PROVE IndInv
  OBVIOUS
<1>1. queuedDl = <<>> /\ queuedUp = <<>> /\ signalled = {}
  BY DEF Init
<1>2. Elems(queuedDl) = {} /\ Elems(queuedUp) = {}
  BY <1>1 DEF Elems
<1>3. TypeOK
  <2>1. queuedDl \in Seq(Tasks) /\ queuedUp \in Seq(Tasks)
    BY <1>1
  <2>2. pc \in [Tasks -> PCs] /\ handler \in [Tasks -> {"idle", "dict", "queue"}]
    BY DEF Init, PCs
  <2>3. forceDl \subseteq Tasks /\ forceUp \subseteq Tasks
    BY TaskAssumption DEF Init
  <2> QED BY <2>1, <2>2, <2>3, Zenon DEF Init, TypeOK
<1>4. OnePlace /\ Unsignalled
  BY <1>1, <1>2 DEF Init, OnePlace, Unsignalled, NoRepeats
<1>5. NoLostWakeup /\ \A t \in Tasks : PlaceOf(t)
  BY <1>1, <1>2 DEF Init, NoLostWakeup, PlaceOf, BeforeUpload, LateUpload
<1> QED BY <1>3, <1>4, <1>5 DEF IndInv, Placement

\* the part of TypeOK that the queues have no say in
RestTyped ==
    /\ limits \in LimitChoices /\ refillDue \in BOOLEAN
    /\ taskDict \subseteq Tasks
    /\ pc \in [Tasks -> PCs]
    /\ handler \in [Tasks -> {"idle", "dict", "queue"}]
    /\ cancelled \subseteq Tasks /\ failed \subseteq Tasks /\ broken \subseteq Tasks
    /\ forceDl \subseteq Tasks /\ forceUp \subseteq Tasks

LEMMA DownloadStepKeepsIndInv ==
    ASSUME IndInv, NEW t \in Tasks, DownloadStep(t)
    PROVE  IndInv'
<1>0. TypeOK /\ RestTyped
  BY DEF IndInv, TypeOK, RestTyped
<1>1. CASE CheckDl(t)
  <2>1. Placement' /\ queuedDl' \in Seq(Tasks)
    BY <1>1, CheckDlKeepsPlacement
  <2>2. TypeOK'
    BY <1>0, <1>1, <2>1 DEF CheckDl, Goto, TypeOK, PCs, confVars, flagVars
  <2> QED BY <2>1, <2>2 DEF IndInv
<1>2. CASE ~CheckDl(t)
  <2>1. UNCHANGED queueVars
    BY <1>2 DEF DownloadStep, RegisterQueued, WakeDl, ResumeEngine,
                Register, DlAbandoned, DlFinished, DlFailed
  <2>2. QueueMoves
    BY <2>1, QuietMoves
  <2>3. \E next \in PCs : LegalGoto(t, next) /\ Goto(t, next)
    BY <1>2 DEF DownloadStep, RegisterQueued, WakeDl, ResumeEngine,
                Register, DlAbandoned, DlFinished, DlFailed,
                LegalGoto, BeforeUpload, LateUpload, Goto, PCs
  <2>4. RestTyped'
    BY <1>0, <1>2, <2>3
    DEF DownloadStep, RegisterQueued, WakeDl, ResumeEngine, Register,
        DlAbandoned, DlFinished, DlFailed, Goto, RestTyped, confVars, flagVars
  <2> QED
    BY <2>2, <2>3, <2>4, MovesKeepPlacement DEF IndInv, TypeOK, RestTyped, QueueMoves
<1> QED BY <1>1, <1>2

\* the steps of the upload half that leave the queues alone
QuietUploadStep(t) ==
    \/ CompleteStart(t) \/ NothingToUpload(t) \/ StageStart(t) \/ StageEnd(t)
    \/ NoStages(t) \/ RegisterQueuedUp(t) \/ WakeUp(t) \/ RegisterUp(t)
    \/ UpAbandoned(t) \/ UpFailed(t) \/ UpFinished(t) \/ UploadComplete(t)
    \/ StartSeeding(t) \/ SeedFinished(t) \/ ErrorDict(t)

LEMMA UploadStepKeepsIndInv ==
    ASSUME IndInv, NEW t \in Tasks, UploadStep(t)
    PROVE  IndInv'
<1>0. TypeOK /\ RestTyped
  BY DEF IndInv, TypeOK, RestTyped
<1>1. ASSUME QueueMoves, RestTyped', NEW next, LegalGoto(t, next), Goto(t, next)
      PROVE  IndInv'
  BY <1>1, MovesKeepPlacement DEF IndInv, TypeOK, RestTyped, QueueMoves
<1>2. CASE QuietUploadStep(t)
  <2>1. UNCHANGED queueVars
    BY <1>2 DEF QuietUploadStep, CompleteStart, NothingToUpload, StageStart, StageEnd,
        NoStages, RegisterQueuedUp, WakeUp, RegisterUp, UpAbandoned, UpFailed,
        UpFinished, UploadComplete, StartSeeding, SeedFinished, ErrorDict
  <2>2. QueueMoves
    BY <2>1, QuietMoves
  <2>3. \E next \in PCs : LegalGoto(t, next) /\ Goto(t, next)
    BY <1>2 DEF QuietUploadStep, CompleteStart, NothingToUpload, StageStart, StageEnd,
        NoStages, RegisterQueuedUp, WakeUp, RegisterUp, UpAbandoned, UpFailed,
        UpFinished, UploadComplete, StartSeeding, SeedFinished, ErrorDict,
        LegalGoto, BeforeUpload, LateUpload, Goto, PCs
  <2>4. RestTyped'
    BY <1>0, <1>2, <2>3
    DEF QuietUploadStep, CompleteStart, NothingToUpload, StageStart, StageEnd,
        NoStages, RegisterQueuedUp, WakeUp, RegisterUp, UpAbandoned, UpFailed,
        UpFinished, UploadComplete, StartSeeding, SeedFinished, ErrorDict,
        Goto, RestTyped, confVars, flagVars
  <2> QED BY <1>1, <2>2, <2>3, <2>4
<1>3. CASE FreeDownloadSlot(t)
  <2>1. QueueMoves
    <3>1. CASE limits.all = 0
      BY <1>3, <3>1, RefillFromMoves DEF FreeDownloadSlot
    <3>2. CASE limits.all # 0
      BY <1>3, <3>2, QuietMoves DEF FreeDownloadSlot
    <3> QED BY <3>1, <3>2
  <2>2. LegalGoto(t, "proc") /\ Goto(t, "proc") /\ RestTyped'
    BY <1>0, <1>3
    DEF FreeDownloadSlot, LegalGoto, BeforeUpload, LateUpload, Goto, RestTyped, PCs, confVars, flagVars
  <2> QED BY <1>1, <2>1, <2>2
<1>4. CASE FreeUploadSlot(t)
  <2>1. QueueMoves
    BY <1>4, RefillFromMoves DEF FreeUploadSlot
  <2>2. /\ \E next \in {"seedReg", "done"} : LegalGoto(t, next) /\ Goto(t, next)
        /\ RestTyped'
    BY <1>0, <1>4
    DEF FreeUploadSlot, LegalGoto, BeforeUpload, LateUpload, Goto, RestTyped, PCs, confVars, flagVars
  <2> QED BY <1>1, <2>1, <2>2
<1>5. CASE ErrorQueue(t)
  <2>1. QueueMoves
    BY <1>5, ReleaseMoves DEF ErrorQueue
  <2>2. LegalGoto(t, "done") /\ Goto(t, "done") /\ RestTyped'
    BY <1>0, <1>5
    DEF ErrorQueue, LegalGoto, BeforeUpload, LateUpload, Goto, RestTyped, PCs, confVars, flagVars
  <2> QED BY <1>1, <2>1, <2>2
<1>6. CASE CheckUp(t)
  <2>1. RestTyped'
    BY <1>0, <1>6 DEF CheckUp, Goto, RestTyped, PCs, confVars, flagVars
  <2> QED
    BY <1>6, <2>1, CheckUpKeepsPlacement DEF IndInv, TypeOK, RestTyped
<1> QED
  BY <1>2, <1>3, <1>4, <1>5, <1>6 DEF UploadStep, QuietUploadStep

LEMMA StillKeepsIndInv ==
    ASSUME IndInv, QueueMoves, UNCHANGED pc, RestTyped'
    PROVE  IndInv'
BY StillKeepsPlacement DEF IndInv, TypeOK, RestTyped, QueueMoves

LEMMA NextKeepsIndInv == IndInv /\ [Next]_vars => IndInv'
<1> SUFFICES ASSUME IndInv, [Next]_vars PROVE IndInv'
  OBVIOUS
<1>0. TypeOK /\ RestTyped
  BY DEF IndInv, TypeOK, RestTyped
<1>1. ASSUME NEW t \in Tasks, DownloadStep(t) \/ UploadStep(t) PROVE IndInv'
  BY <1>1, DownloadStepKeepsIndInv, UploadStepKeepsIndInv
<1>2. ASSUME NEW t \in Tasks,
             HandlerDict(t) \/ Cancel(t) \/ EngineError(t) \/ HandlerDies(t)
      PROVE  IndInv'
  <2>1. QueueMoves /\ UNCHANGED pc
    BY <1>2, QuietMoves DEF HandlerDict, Cancel, EngineError, HandlerDies, queueVars
  <2>2. RestTyped'
    BY <1>0, <1>2
    DEF HandlerDict, Cancel, EngineError, HandlerDies, RestTyped, confVars, flagVars
  <2> QED BY <2>1, <2>2, StillKeepsIndInv
<1>8. ASSUME NEW t \in Tasks, AddFails(t) \/ CoroutineDies(t) PROVE IndInv'
  <2>1. QueueMoves
    BY <1>8, QuietMoves DEF AddFails, CoroutineDies
  <2>2. \E next \in {"errDict", "done"} : LegalGoto(t, next) /\ Goto(t, next)
    BY <1>8 DEF AddFails, CoroutineDies, LegalGoto, BeforeUpload, LateUpload
  <2>3. RestTyped'
    BY <1>0, <1>8
    DEF AddFails, CoroutineDies, Goto, RestTyped, PCs, confVars, flagVars
  <2> QED BY <2>1, <2>2, <2>3, MovesKeepPlacement DEF IndInv, TypeOK, RestTyped, QueueMoves
<1>3. ASSUME NEW t \in Tasks, HandlerQueue(t) PROVE IndInv'
  <2>1. QueueMoves /\ UNCHANGED pc
    BY <1>3, ReleaseMoves DEF HandlerQueue
  <2>2. RestTyped'
    BY <1>0, <1>3 DEF HandlerQueue, RestTyped, confVars, flagVars
  <2> QED BY <2>1, <2>2, StillKeepsIndInv
<1>4. ASSUME NEW t \in Tasks, NEW d \in BOOLEAN, NEW u \in BOOLEAN, ForceStart(t, d, u)
      PROVE  IndInv'
  <2>1. \/ UNCHANGED queueVars
        \/ t \in Elems(queuedDl) /\ StartOneDl(t)
        \/ t \in Elems(queuedUp) /\ StartOneUp(t)
    BY <1>4 DEF ForceStart
  <2>2. QueueMoves
    BY <2>1, QuietMoves, StartOneMoves
  <2>3. UNCHANGED pc /\ RestTyped'
    BY <1>0, <1>4 DEF ForceStart, RestTyped, confVars
  <2> QED BY <2>2, <2>3, StillKeepsIndInv
<1>5. ASSUME NEW new \in LimitChoices, EditLimits(new) PROVE IndInv'
  <2>1. QueueMoves /\ UNCHANGED pc
    BY <1>5, QuietMoves DEF EditLimits
  <2>2. RestTyped'
    BY <1>0, <1>5 DEF EditLimits, RestTyped, flagVars
  <2> QED BY <2>1, <2>2, StillKeepsIndInv
<1>6. CASE RefillAfterEdit
  <2>1. QueueMoves /\ UNCHANGED pc
    BY <1>6, RefillFromMoves DEF RefillAfterEdit
  <2>2. RestTyped'
    BY <1>0, <1>6 DEF RefillAfterEdit, RestTyped, flagVars
  <2> QED BY <2>1, <2>2, StillKeepsIndInv
<1>7. CASE UNCHANGED vars
  <2>1. QueueMoves /\ UNCHANGED pc
    BY <1>7, QuietMoves DEF vars
  <2>2. RestTyped'
    BY <1>0, <1>7 DEF vars, RestTyped, confVars, flagVars
  <2> QED BY <2>1, <2>2, StillKeepsIndInv
<1> QED
  BY <1>1, <1>2, <1>3, <1>4, <1>5, <1>6, <1>7, <1>8 DEF Next, HandlerStep, ExceptionStep

LEMMA IndInvAlways == Spec => []IndInv
BY InitIndInv, NextKeepsIndInv, PTL DEF Spec

-----------------------------------------------------------------------------
(* A transfer that nobody stopped keeps its slot *)

\* Who is woken in a queue has the slot by then; and only a cancel command or
\* an engine error starts the second coroutine of a task.
OnSlot(u) ==
    u \notin cancelled \cup failed =>
        /\ handler[u] = "idle"
        /\ pc[u] \in {"add", "resume", "dl", "dlDone"} => u \in nonQueuedDl
        /\ pc[u] \in {"regUp", "up"} => u \in nonQueuedUp
        /\ pc[u] \in {"addQueued", "waitDl"} /\ u \in signalled => u \in nonQueuedDl
        /\ pc[u] \in {"enqUp", "waitUp"} /\ u \in signalled => u \in nonQueuedUp

SlotInv == \A u \in Tasks : OnSlot(u)

\* u keeps what it holds, and leaves a queue only for the admitted set
KeepsSlots(u) ==
    /\ u \in nonQueuedDl => u \in nonQueuedDl'
    /\ u \in nonQueuedUp => u \in nonQueuedUp'
    /\ u \in Elems(queuedDl) => u \in Elems(queuedDl') \cup nonQueuedDl'
    /\ u \in Elems(queuedUp) => u \in Elems(queuedUp') \cup nonQueuedUp'
    /\ u \in signalled' => u \in signalled \cup Elems(queuedDl) \cup Elems(queuedUp)

LEMMA QuietKeepsSlots ==
    ASSUME UNCHANGED queueVars, NEW u
    PROVE  KeepsSlots(u)
BY DEF KeepsSlots, queueVars

LEMMA RefillKeepsSlots ==
    ASSUME NEW qd, NEW qu, NEW nd, NEW nu, NEW sg, Refilled(qd, qu, nd, nu, sg),
           NEW u,
           u \in Elems(qd) <=> u \in Elems(queuedDl),
           u \in Elems(qu) <=> u \in Elems(queuedUp),
           u \in nonQueuedDl => u \in nd, u \in nonQueuedUp => u \in nu,
           u \in sg => u \in signalled
    PROVE  KeepsSlots(u)
BY DEF Refilled, KeepsSlots

\* start_from_queued after a release of nd or nu
LEMMA RefillFromRefilled ==
    ASSUME IndInv, NEW nd \in SUBSET Tasks, NEW nu \in SUBSET Tasks,
           StartFromQueued(queuedDl, queuedUp, nd, nu, signalled)
    PROVE  Refilled(queuedDl, queuedUp, nd, nu, signalled)
BY RefillIsRefilled DEF IndInv, TypeOK, Placement, OnePlace

\* The queue part of the error handlers keeps everybody else's slot, and leaves
\* its own task nowhere.
LEMMA ReleaseEffect ==
    ASSUME IndInv, NEW t \in Tasks, ReleaseAll(t)
    PROVE  /\ \A u \in Tasks \ {t} : KeepsSlots(u)
           /\ t \notin Elems(queuedDl') \cup Elems(queuedUp')
           /\ t \notin nonQueuedDl' \cup nonQueuedUp'
<1> DEFINE qd == Without(queuedDl, t)
           qu == Without(queuedUp, t)
           sg == IF t \in Elems(queuedDl) \cup Elems(queuedUp)
                 THEN signalled \cup {t} ELSE signalled
<1>1. /\ qd \in Seq(Tasks) /\ NoRepeats(qd) /\ Elems(qd) = Elems(queuedDl) \ {t}
      /\ qu \in Seq(Tasks) /\ NoRepeats(qu) /\ Elems(qu) = Elems(queuedUp) \ {t}
  BY ElemsWithout DEF IndInv, TypeOK, Placement, OnePlace
<1>2. StartFromQueued(qd, qu, nonQueuedDl \ {t}, nonQueuedUp \ {t}, sg)
  BY DEF ReleaseAll
<1> HIDE DEF qd, qu
<1>3. \A u \in Tasks \ {t} : u \in sg => u \in signalled
  OBVIOUS
<1> HIDE DEF sg
<1>4. Refilled(qd, qu, nonQueuedDl \ {t}, nonQueuedUp \ {t}, sg)
  <2>1. limits \in LimitChoices /\ nonQueuedDl \ {t} \in SUBSET Tasks
        /\ nonQueuedUp \ {t} \in SUBSET Tasks
    BY DEF IndInv, TypeOK
  <2> QED BY <1>1, <1>2, <2>1, RefillIsRefilled
<1>5. ASSUME NEW u \in Tasks \ {t} PROVE KeepsSlots(u)
  BY <1>1, <1>3, <1>4, RefillKeepsSlots
<1> QED BY <1>1, <1>4, <1>5 DEF Refilled

LEMMA StartOneKeepsSlots ==
    ASSUME IndInv, NEW t \in Tasks, StartOneDl(t) \/ StartOneUp(t),
           t \in Elems(queuedDl) \cup Elems(queuedUp)
    PROVE  \A u \in Tasks : KeepsSlots(u)
<1>1. /\ Elems(Without(queuedDl, t)) = Elems(queuedDl) \ {t}
      /\ Elems(Without(queuedUp, t)) = Elems(queuedUp) \ {t}
  BY ElemsWithout DEF IndInv, TypeOK, Placement, OnePlace
<1> QED BY <1>1 DEF StartOneDl, StartOneUp, KeepsSlots

\* the steps of others, and of the second coroutine and the operators
LEMMA OthersStayOnSlot ==
    ASSUME IndInv, Unsignalled', NEW u \in Tasks, OnSlot(u), KeepsSlots(u),
           pc'[u] = pc[u], u \notin cancelled' \cup failed' => handler'[u] = handler[u],
           cancelled \subseteq cancelled', failed \subseteq failed'
    PROVE  OnSlot(u)'
<1>1. /\ pc[u] \in {"addQueued", "waitDl"} => u \notin Elems(queuedUp)
      /\ pc[u] \in {"enqUp", "waitUp"} => u \notin Elems(queuedDl)
  BY DEF IndInv, Placement, PlaceOf
<1> QED BY <1>1 DEF OnSlot, KeepsSlots, Unsignalled

LEMMA DownloadStepKeepsSlotInv ==
    ASSUME IndInv, IndInv', SlotInv, NEW t \in Tasks, DownloadStep(t)
    PROVE  SlotInv'
<1>1. /\ \A u \in Tasks \ {t} : KeepsSlots(u) /\ pc'[u] = pc[u]
      /\ UNCHANGED <<handler, cancelled, failed>>
  <2>1. CASE CheckDl(t)
    <3>1. \A u \in Tasks \ {t} : u \in Elems(queuedDl) => u \in Elems(queuedDl')
      <4>1. t \notin Elems(queuedDl) /\ NoRepeats(queuedDl) /\ queuedDl \in Seq(Tasks)
        BY <2>1 DEF CheckDl, IndInv, TypeOK, Placement, PlaceOf, OnePlace
      <4>2. queuedDl' = Append(queuedDl, t) \/ queuedDl' = queuedDl
        BY <2>1 DEF CheckDl
      <4>3. Elems(Append(queuedDl, t)) = Elems(queuedDl) \cup {t}
        BY <4>1, ElemsAppend
      <4> QED BY <4>2, <4>3
    <3>2. /\ nonQueuedDl \subseteq nonQueuedDl'
          /\ UNCHANGED <<queuedUp, nonQueuedUp, signalled, handler, cancelled, failed>>
          /\ \E next \in PCs : pc' = [pc EXCEPT ![t] = next]
      BY <2>1 DEF CheckDl, Goto, PCs, flagVars
    <3>3. pc \in [Tasks -> PCs]
      BY DEF IndInv, TypeOK
    <3> QED BY <3>1, <3>2, <3>3 DEF KeepsSlots
  <2>2. CASE ~CheckDl(t)
    <3>1. UNCHANGED queueVars
      BY <2>2 DEF DownloadStep, RegisterQueued, WakeDl, ResumeEngine,
                  Register, DlAbandoned, DlFinished, DlFailed
    <3>2. \A u \in Tasks \ {t} : pc'[u] = pc[u]
      BY <2>2 DEF DownloadStep, RegisterQueued, WakeDl, ResumeEngine,
                  Register, DlAbandoned, DlFinished, DlFailed, Goto, IndInv, TypeOK
    <3>3. UNCHANGED <<handler, cancelled, failed>>
      BY <2>2 DEF DownloadStep, RegisterQueued, WakeDl, ResumeEngine,
                  Register, DlAbandoned, DlFinished, DlFailed, flagVars
    <3> QED BY <3>1, <3>2, <3>3, QuietKeepsSlots
  <2> QED BY <2>1, <2>2
<1>2. ASSUME NEW u \in Tasks \ {t} PROVE OnSlot(u)'
  BY <1>1, OthersStayOnSlot DEF SlotInv, IndInv, Placement
<1>3. OnSlot(t)'
  <2>1. OnSlot(t) /\ PlaceOf(t) /\ pc \in [Tasks -> PCs]
    BY DEF SlotInv, IndInv, Placement, TypeOK
  <2>2. CASE CheckDl(t)
    BY <2>1, <2>2 DEF CheckDl, Goto, OnSlot, PlaceOf, flagVars
  <2>3. CASE ~CheckDl(t)
    BY <2>1, <2>3
    DEF DownloadStep, RegisterQueued, WakeDl, ResumeEngine, Register,
        DlAbandoned, DlFinished, DlFailed, Goto, OnSlot, queueVars, flagVars
  <2> QED BY <2>2, <2>3
<1> QED BY <1>2, <1>3 DEF SlotInv

LEMMA UploadStepKeepsSlotInv ==
    ASSUME IndInv, IndInv', SlotInv, NEW t \in Tasks, UploadStep(t)
    PROVE  SlotInv'
<1>0. /\ UNCHANGED <<handler, cancelled, failed>>
      /\ \E next \in PCs : Goto(t, next)
  <2>1. CASE QuietUploadStep(t)
    BY <2>1 DEF QuietUploadStep, CompleteStart, NothingToUpload, StageStart, StageEnd,
        NoStages, RegisterQueuedUp, WakeUp, RegisterUp, UpAbandoned, UpFailed,
        UpFinished, UploadComplete, StartSeeding, SeedFinished, ErrorDict,
        PCs, Goto, flagVars
  <2>2. CASE ~QuietUploadStep(t)
    BY <2>2 DEF UploadStep, QuietUploadStep, FreeDownloadSlot, CheckUp, FreeUploadSlot,
        ErrorQueue, PCs, Goto, flagVars
  <2> QED BY <2>1, <2>2
<1>1. \A u \in Tasks \ {t} : pc'[u] = pc[u]
  BY <1>0 DEF Goto, IndInv, TypeOK
<1>2. ASSUME \A u \in Tasks \ {t} : KeepsSlots(u), OnSlot(t)' PROVE SlotInv'
  <2>1. ASSUME NEW u \in Tasks \ {t} PROVE OnSlot(u)'
    BY <1>0, <1>1, <1>2, OthersStayOnSlot DEF SlotInv, IndInv, Placement
  <2> QED BY <1>2, <2>1 DEF SlotInv
<1>3. OnSlot(t) /\ PlaceOf(t) /\ pc \in [Tasks -> PCs]
  BY DEF SlotInv, IndInv, Placement, TypeOK
<1>4. CASE QuietUploadStep(t)
  <2>1. UNCHANGED queueVars
    BY <1>4 DEF QuietUploadStep, CompleteStart, NothingToUpload, StageStart, StageEnd,
        NoStages, RegisterQueuedUp, WakeUp, RegisterUp, UpAbandoned, UpFailed,
        UpFinished, UploadComplete, StartSeeding, SeedFinished, ErrorDict
  <2>2. OnSlot(t)'
    BY <1>0, <1>3, <1>4, <2>1
    DEF QuietUploadStep, CompleteStart, NothingToUpload, StageStart, StageEnd,
        NoStages, RegisterQueuedUp, WakeUp, RegisterUp, UpAbandoned, UpFailed,
        UpFinished, UploadComplete, StartSeeding, SeedFinished, ErrorDict,
        Goto, OnSlot, queueVars
  <2> QED BY <1>2, <2>1, <2>2, QuietKeepsSlots
<1>5. CASE FreeDownloadSlot(t)
  <2>1. \A u \in Tasks \ {t} : KeepsSlots(u)
    <3>1. CASE limits.all = 0
      <4>1. Refilled(queuedDl, queuedUp, nonQueuedDl \ {t}, nonQueuedUp, signalled)
        BY <1>5, <3>1, RefillFromRefilled DEF FreeDownloadSlot, IndInv, TypeOK
      <4> QED BY <4>1, RefillKeepsSlots
    <3>2. CASE limits.all # 0
      BY <1>5, <3>2, QuietKeepsSlots DEF FreeDownloadSlot
    <3> QED BY <3>1, <3>2
  <2>2. OnSlot(t)'
    BY <1>0, <1>3, <1>5 DEF FreeDownloadSlot, Goto, OnSlot
  <2> QED BY <1>2, <2>1, <2>2
<1>6. CASE FreeUploadSlot(t)
  <2>1. Refilled(queuedDl, queuedUp, nonQueuedDl, nonQueuedUp \ {t}, signalled)
    BY <1>6, RefillFromRefilled DEF FreeUploadSlot, IndInv, TypeOK
  <2>2. \A u \in Tasks \ {t} : KeepsSlots(u)
    BY <2>1, RefillKeepsSlots
  <2>3. OnSlot(t)'
    BY <1>0, <1>3, <1>6 DEF FreeUploadSlot, Goto, OnSlot
  <2> QED BY <1>2, <2>2, <2>3
<1>7. CASE ErrorQueue(t)
  <2>1. \A u \in Tasks \ {t} : KeepsSlots(u)
    BY <1>7, ReleaseEffect DEF ErrorQueue
  <2>2. OnSlot(t)'
    BY <1>0, <1>3, <1>7 DEF ErrorQueue, Goto, OnSlot
  <2> QED BY <1>2, <2>1, <2>2
<1>8. CASE CheckUp(t)
  <2>0. t \notin Elems(queuedUp)
    BY <1>3, <1>8 DEF CheckUp, PlaceOf, BeforeUpload
  <2>1. CASE MustQueueUp(t)
    <3> DEFINE qu == Append(queuedUp, t)
    <3>1. /\ qu \in Seq(Tasks) /\ NoRepeats(qu) /\ Elems(qu) = Elems(queuedUp) \cup {t}
      BY <2>0, ElemsAppend DEF IndInv, TypeOK, Placement, OnePlace
    <3>2. StartFromQueued(queuedDl, qu, nonQueuedDl \ {t}, nonQueuedUp, signalled \ {t})
          /\ Goto(t, "enqUp")
      BY <1>8, <2>1 DEF CheckUp
    <3> HIDE DEF qu
    <3>3. Refilled(queuedDl, qu, nonQueuedDl \ {t}, nonQueuedUp, signalled \ {t})
      BY <3>1, <3>2, RefillIsRefilled DEF IndInv, TypeOK, Placement, OnePlace
    <3>4. \A u \in Tasks \ {t} : KeepsSlots(u)
      BY <3>1, <3>3, RefillKeepsSlots
    <3>5. OnSlot(t)'
      <4>1. pc'[t] = "enqUp" /\ t \notin Elems(queuedDl)
        BY <1>3, <1>8, <3>2 DEF Goto, CheckUp, PlaceOf, BeforeUpload
      <4> QED BY <1>0, <1>3, <3>3, <4>1 DEF Refilled, OnSlot
    <3> QED BY <1>2, <3>4, <3>5
  <2>2. CASE ~MustQueueUp(t)
    <3>1. StartFromQueued(queuedDl, queuedUp, nonQueuedDl \ {t},
                          nonQueuedUp \cup {t}, signalled)
          /\ Goto(t, "regUp")
      BY <1>8, <2>2 DEF CheckUp
    <3>2. Refilled(queuedDl, queuedUp, nonQueuedDl \ {t}, nonQueuedUp \cup {t}, signalled)
      BY <3>1, RefillFromRefilled DEF IndInv, TypeOK
    <3>3. \A u \in Tasks \ {t} : KeepsSlots(u)
      BY <3>2, RefillKeepsSlots
    <3>4. OnSlot(t)'
      <4>1. pc'[t] = "regUp" /\ t \in nonQueuedUp'
        BY <1>3, <3>1, <3>2 DEF Goto, Refilled
      <4> QED BY <1>0, <1>3, <4>1 DEF OnSlot
    <3> QED BY <1>2, <3>3, <3>4
  <2> QED BY <2>1, <2>2
<1> QED
  BY <1>4, <1>5, <1>6, <1>7, <1>8 DEF UploadStep, QuietUploadStep

LEMMA NextKeepsSlotInv == IndInv /\ IndInv' /\ SlotInv /\ [Next]_vars => SlotInv'
<1> SUFFICES ASSUME IndInv, IndInv', SlotInv, [Next]_vars PROVE SlotInv'
  OBVIOUS
<1>0. ASSUME \A u \in Tasks : KeepsSlots(u), UNCHANGED pc,
             \A u \in Tasks \ (cancelled' \cup failed') : handler'[u] = handler[u],
             cancelled \subseteq cancelled', failed \subseteq failed'
      PROVE  SlotInv'
  <2> SUFFICES ASSUME NEW u \in Tasks PROVE OnSlot(u)'
    BY DEF SlotInv
  <2> QED BY <1>0, OthersStayOnSlot DEF SlotInv, IndInv, Placement
<1>1. ASSUME NEW t \in Tasks, DownloadStep(t) \/ UploadStep(t) PROVE SlotInv'
  BY <1>1, DownloadStepKeepsSlotInv, UploadStepKeepsSlotInv
<1>2. ASSUME NEW t \in Tasks, HandlerStep(t) PROVE SlotInv'
  <2>1. t \in cancelled \cup failed
    BY <1>2 DEF HandlerStep, HandlerDict, HandlerQueue, SlotInv, OnSlot
  <2>2. UNCHANGED <<pc, cancelled, failed>>
    BY <1>2 DEF HandlerStep, HandlerDict, HandlerQueue, flagVars
  <2>3. \A u \in Tasks \ {t} : handler'[u] = handler[u]
    BY <1>2 DEF HandlerStep, HandlerDict, HandlerQueue, IndInv, TypeOK
  <2>4. \A u \in Tasks \ {t} : KeepsSlots(u)
    BY <1>2, QuietKeepsSlots, ReleaseEffect DEF HandlerStep, HandlerDict, HandlerQueue
  <2>5. ASSUME NEW u \in Tasks \ {t} PROVE OnSlot(u)'
    BY <2>2, <2>3, <2>4, OthersStayOnSlot DEF SlotInv, IndInv, Placement
  <2>6. OnSlot(t)'
    BY <2>1, <2>2 DEF OnSlot
  <2> QED BY <2>5, <2>6 DEF SlotInv
<1>7. ASSUME NEW t \in Tasks, AddFails(t) \/ CoroutineDies(t) PROVE SlotInv'
  <2>1. /\ \A u \in Tasks \ {t} : pc'[u] = pc[u]
        /\ pc'[t] \in {"errDict", "done"}
        /\ UNCHANGED <<handler, cancelled, failed>> /\ UNCHANGED queueVars
    BY <1>7 DEF AddFails, CoroutineDies, Goto, IndInv, TypeOK, flagVars
  <2>2. ASSUME NEW u \in Tasks \ {t} PROVE OnSlot(u)'
    BY <2>1, QuietKeepsSlots, OthersStayOnSlot DEF SlotInv, IndInv, Placement
  <2>3. OnSlot(t)'
    BY <2>1 DEF SlotInv, OnSlot
  <2> QED BY <2>2, <2>3 DEF SlotInv
<1>8. ASSUME NEW t \in Tasks, HandlerDies(t) PROVE SlotInv'
  <2>1. /\ \A u \in Tasks \ {t} : handler'[u] = handler[u]
        /\ handler'[t] = "idle"
        /\ UNCHANGED <<pc, cancelled, failed>> /\ UNCHANGED queueVars
    BY <1>8 DEF HandlerDies, IndInv, TypeOK
  <2>2. ASSUME NEW u \in Tasks \ {t} PROVE OnSlot(u)'
    BY <2>1, QuietKeepsSlots, OthersStayOnSlot DEF SlotInv, IndInv, Placement
  <2>3. OnSlot(t)'
    BY <2>1 DEF SlotInv, OnSlot, queueVars
  <2> QED BY <2>2, <2>3 DEF SlotInv
<1>3. ASSUME NEW t \in Tasks, Cancel(t) \/ EngineError(t) PROVE SlotInv'
  <2>1. \A u \in Tasks : KeepsSlots(u)
    BY <1>3, QuietKeepsSlots DEF Cancel, EngineError
  <2>2. /\ UNCHANGED pc /\ cancelled \subseteq cancelled' /\ failed \subseteq failed'
        /\ t \in cancelled' \cup failed'
    BY <1>3 DEF Cancel, EngineError
  <2>3. \A u \in Tasks \ {t} : handler'[u] = handler[u]
    BY <1>3 DEF Cancel, EngineError, IndInv, TypeOK
  <2> QED BY <1>0, <2>1, <2>2, <2>3
<1>4. ASSUME NEW t \in Tasks, NEW d \in BOOLEAN, NEW u \in BOOLEAN, ForceStart(t, d, u)
      PROVE  SlotInv'
  <2>1. \/ UNCHANGED queueVars
        \/ /\ StartOneDl(t) \/ StartOneUp(t)
           /\ t \in Elems(queuedDl) \cup Elems(queuedUp)
    BY <1>4 DEF ForceStart
  <2>2. \A v \in Tasks : KeepsSlots(v)
    BY <2>1, QuietKeepsSlots, StartOneKeepsSlots
  <2>3. UNCHANGED <<pc, handler, cancelled, failed>>
    BY <1>4 DEF ForceStart
  <2> QED BY <1>0, <2>2, <2>3
<1>5. CASE RefillAfterEdit
  <2>1. Refilled(queuedDl, queuedUp, nonQueuedDl, nonQueuedUp, signalled)
    BY <1>5, RefillFromRefilled DEF RefillAfterEdit, IndInv, TypeOK
  <2>2. \A u \in Tasks : KeepsSlots(u)
    BY <2>1, RefillKeepsSlots
  <2>3. UNCHANGED <<pc, handler, cancelled, failed>>
    BY <1>5 DEF RefillAfterEdit, flagVars
  <2> QED BY <1>0, <2>2, <2>3
<1>6. CASE (\E new \in LimitChoices : EditLimits(new)) \/ UNCHANGED vars
  <2>1. UNCHANGED queueVars /\ UNCHANGED <<pc, handler, cancelled, failed>>
    BY <1>6 DEF EditLimits, vars, flagVars
  <2> QED BY <1>0, <2>1, QuietKeepsSlots
<1> QED BY <1>1, <1>2, <1>3, <1>4, <1>5, <1>6, <1>7, <1>8 DEF Next, ExceptionStep

LEMMA SlotInvAlways == Spec => []SlotInv
<1>1. Init => SlotInv
  BY DEF Init, SlotInv, OnSlot
<1> QED BY <1>1, NextKeepsSlotInv, IndInvAlways, PTL DEF Spec

-----------------------------------------------------------------------------
(* Only a cancelled task or one that lost a coroutine leaves a slot behind *)

Nowhere(u) ==
    u \notin Elems(queuedDl) \cup Elems(queuedUp) \cup nonQueuedDl \cup nonQueuedUp

\* What main coroutine and error handler leave to each other: a task that misses
\* its entry of task_dict has a handler that has yet to take it out of the
\* queues, or is out of them.
EndsClean(u) ==
    /\ pc[u] \in {"seedReg", "seed"} => Nowhere(u)
    /\ u \notin cancelled \cup broken =>
          /\ u \notin EngineTasks => handler[u] = "idle"
          /\ u \in EngineTasks /\ pc[u] \in {"new", "addQueued", "add"} =>
                handler[u] = "idle" /\ u \notin taskDict
          /\ pc[u] \in {"waitDl", "resume", "dl", "dlDone"} =>
                \/ u \in taskDict \/ handler[u] = "queue"
                \/ u \notin Elems(queuedDl) \cup nonQueuedDl
          /\ pc[u] = "done" =>
                /\ u \notin Elems(queuedDl) \cup Elems(queuedUp)
                /\ handler[u] # "idle" \/ u \notin nonQueuedDl \cup nonQueuedUp

CleanInv == \A u \in Tasks : EndsClean(u)

\* u enters no queue, and an admitted set only from the queue before it
StaysOut(u) ==
    /\ u \in Elems(queuedDl') => u \in Elems(queuedDl)
    /\ u \in Elems(queuedUp') => u \in Elems(queuedUp)
    /\ u \in nonQueuedDl' => u \in nonQueuedDl \cup Elems(queuedDl)
    /\ u \in nonQueuedUp' => u \in nonQueuedUp \cup Elems(queuedUp)

LEMMA MovesStayOut ==
    ASSUME QueueMoves
    PROVE  \A u \in Tasks : StaysOut(u)
BY DEF QueueMoves, StaysOut

LEMMA OthersEndClean ==
    ASSUME IndInv, NEW u \in Tasks, EndsClean(u), StaysOut(u), pc'[u] = pc[u],
           handler'[u] = handler[u], u \in taskDict <=> u \in taskDict',
           cancelled \subseteq cancelled', broken \subseteq broken'
    PROVE  EndsClean(u)'
BY DEF EndsClean, Nowhere, StaysOut

LEMMA DownloadStepEndsClean ==
    ASSUME IndInv, CleanInv, NEW t \in Tasks, DownloadStep(t)
    PROVE  CleanInv'
<1>1. /\ \A u \in Tasks \ {t} : pc'[u] = pc[u] /\ (u \in taskDict <=> u \in taskDict')
      /\ UNCHANGED <<handler, cancelled, broken>>
  <2>1. /\ \E next \in PCs : pc' = [pc EXCEPT ![t] = next]
        /\ \A u \in Tasks \ {t} : u \in taskDict <=> u \in taskDict'
        /\ UNCHANGED <<handler, cancelled, broken>>
    BY DEF DownloadStep, CheckDl, AddFails, RegisterQueued, WakeDl, ResumeEngine,
           Register, DlAbandoned, DlFinished, DlFailed, Goto, PCs, flagVars
  <2> QED BY <2>1 DEF IndInv, TypeOK
<1>2. EndsClean(t) /\ PlaceOf(t) /\ pc \in [Tasks -> PCs]
  BY DEF CleanInv, IndInv, Placement, TypeOK
<1>3. ASSUME \A u \in Tasks \ {t} : StaysOut(u), EndsClean(t)' PROVE CleanInv'
  <2>1. ASSUME NEW u \in Tasks \ {t} PROVE EndsClean(u)'
    BY <1>1, <1>3, OthersEndClean DEF CleanInv
  <2> QED BY <1>3, <2>1 DEF CleanInv
<1>4. CASE CheckDl(t)
  <2>1. \A u \in Tasks \ {t} : u \in Elems(queuedDl') => u \in Elems(queuedDl)
    <3>1. t \notin Elems(queuedDl) /\ NoRepeats(queuedDl) /\ queuedDl \in Seq(Tasks)
      BY <1>2, <1>4 DEF CheckDl, IndInv, TypeOK, Placement, PlaceOf, OnePlace
    <3>2. queuedDl' = Append(queuedDl, t) \/ queuedDl' = queuedDl
      BY <1>4 DEF CheckDl
    <3>3. Elems(Append(queuedDl, t)) = Elems(queuedDl) \cup {t}
      BY <3>1, ElemsAppend
    <3> QED BY <3>2, <3>3
  <2>2. /\ nonQueuedDl' \subseteq nonQueuedDl \cup {t}
        /\ UNCHANGED <<queuedUp, nonQueuedUp>>
    BY <1>4 DEF CheckDl
  <2>3. \A u \in Tasks \ {t} : StaysOut(u)
    BY <2>1, <2>2 DEF StaysOut
  <2>4. pc[t] = "new" /\ pc'[t] \in {"addQueued", "add"}
    BY <1>2, <1>4 DEF CheckDl, Goto
  <2>5. EndsClean(t)'
    BY <1>1, <1>2, <1>4, <2>4 DEF CheckDl, EndsClean
  <2> QED BY <1>3, <2>3, <2>5
<1>5. CASE ~CheckDl(t)
  <2>1. UNCHANGED queueVars
    BY <1>5 DEF DownloadStep, RegisterQueued, WakeDl, ResumeEngine,
                Register, DlAbandoned, DlFinished, DlFailed
  <2>2. EndsClean(t)'
    BY <1>1, <1>2, <1>5, <2>1
    DEF DownloadStep, RegisterQueued, WakeDl, ResumeEngine, Register,
        DlAbandoned, DlFinished, DlFailed, Goto, EndsClean, PlaceOf, BeforeUpload,
        queueVars
  <2> QED BY <1>3, <2>1, <2>2, QuietMoves, MovesStayOut
<1> QED BY <1>4, <1>5

LEMMA UploadStepEndsClean ==
    ASSUME IndInv, IndInv', CleanInv, NEW t \in Tasks, UploadStep(t)
    PROVE  CleanInv'
<1>1. /\ \A u \in Tasks \ {t} : pc'[u] = pc[u] /\ (u \in taskDict <=> u \in taskDict')
      /\ UNCHANGED <<handler, cancelled, broken>>
  <2>1. /\ \E next \in PCs : pc' = [pc EXCEPT ![t] = next]
        /\ \A u \in Tasks \ {t} : u \in taskDict <=> u \in taskDict'
        /\ UNCHANGED <<handler, cancelled, broken>>
    <3>1. CASE QuietUploadStep(t)
      BY <3>1 DEF QuietUploadStep, CompleteStart, NothingToUpload, StageStart, StageEnd,
          NoStages, RegisterQueuedUp, WakeUp, RegisterUp, UpAbandoned, UpFailed,
          UpFinished, UploadComplete, StartSeeding, SeedFinished, ErrorDict,
          PCs, Goto, flagVars
    <3>2. CASE ~QuietUploadStep(t)
      BY <3>2 DEF UploadStep, QuietUploadStep, FreeDownloadSlot, CheckUp, FreeUploadSlot,
          ErrorQueue, PCs, Goto, flagVars
    <3> QED BY <3>1, <3>2
  <2> QED BY <2>1 DEF IndInv, TypeOK
<1>2. EndsClean(t) /\ PlaceOf(t) /\ pc \in [Tasks -> PCs]
  BY DEF CleanInv, IndInv, Placement, TypeOK
<1>3. ASSUME \A u \in Tasks \ {t} : StaysOut(u), EndsClean(t)' PROVE CleanInv'
  <2>1. ASSUME NEW u \in Tasks \ {t} PROVE EndsClean(u)'
    BY <1>1, <1>3, OthersEndClean DEF CleanInv
  <2> QED BY <1>3, <2>1 DEF CleanInv
<1>4. CASE QuietUploadStep(t)
  <2>1. UNCHANGED queueVars
    BY <1>4 DEF QuietUploadStep, CompleteStart, NothingToUpload, StageStart, StageEnd,
        NoStages, RegisterQueuedUp, WakeUp, RegisterUp, UpAbandoned, UpFailed,
        UpFinished, UploadComplete, StartSeeding, SeedFinished, ErrorDict
  <2>2. EndsClean(t)'
    <3>1. /\ pc'[t] \in {"seedReg", "seed"} => pc[t] = "seedReg"
          /\ pc'[t] \notin {"new", "addQueued", "add", "waitDl", "resume", "dl", "dlDone"}
          /\ pc'[t] = "done" => \/ t \in cancelled
                                \/ pc[t] = "dlDone" /\ t \notin taskDict
                                \/ pc[t] \in {"seedReg", "seed"}
      BY <1>2, <1>4
      DEF QuietUploadStep, CompleteStart, NothingToUpload, StageStart, StageEnd,
          NoStages, RegisterQueuedUp, WakeUp, RegisterUp, UpAbandoned, UpFailed,
          UpFinished, UploadComplete, StartSeeding, SeedFinished, ErrorDict, Goto
    <3> QED
      BY <1>1, <1>2, <2>1, <3>1 DEF EndsClean, Nowhere, PlaceOf, BeforeUpload, queueVars
  <2> QED BY <1>3, <2>1, <2>2, QuietMoves, MovesStayOut
<1>5. CASE FreeDownloadSlot(t)
  <2>1. QueueMoves
    <3>1. CASE limits.all = 0
      BY <1>5, <3>1, RefillFromMoves DEF FreeDownloadSlot
    <3>2. CASE limits.all # 0
      BY <1>5, <3>2, QuietMoves DEF FreeDownloadSlot
    <3> QED BY <3>1, <3>2
  <2>2. pc'[t] = "proc"
    BY <1>2, <1>5 DEF FreeDownloadSlot, Goto
  <2> QED BY <1>1, <1>2, <1>3, <2>1, <2>2, MovesStayOut DEF EndsClean
<1>6. CASE FreeUploadSlot(t)
  <2>1. QueueMoves
    BY <1>6, RefillFromMoves DEF FreeUploadSlot
  <2>2. Refilled(queuedDl, queuedUp, nonQueuedDl, nonQueuedUp \ {t}, signalled)
    BY <1>6, RefillFromRefilled DEF FreeUploadSlot, IndInv, TypeOK
  <2>3. pc[t] \in LateUpload
    BY <1>6 DEF FreeUploadSlot, LateUpload
  <2>4. Nowhere(t)'
    BY <1>2, <2>2, <2>3 DEF Nowhere, Refilled, PlaceOf
  <2>5. pc'[t] \in {"seedReg", "done"}
    BY <1>2, <1>6 DEF FreeUploadSlot, Goto
  <2> QED BY <1>1, <1>2, <1>3, <2>1, <2>4, <2>5, MovesStayOut DEF EndsClean, Nowhere
<1>7. CASE ErrorQueue(t)
  <2>1. QueueMoves /\ Nowhere(t)'
    BY <1>7, ReleaseMoves, ReleaseEffect DEF ErrorQueue, Nowhere
  <2>2. pc'[t] = "done"
    BY <1>2, <1>7 DEF ErrorQueue, Goto
  <2> QED BY <1>1, <1>2, <1>3, <2>1, <2>2, MovesStayOut DEF EndsClean, Nowhere
<1>8. CASE CheckUp(t)
  <2>1. pc'[t] \in {"enqUp", "regUp"}
    BY <1>2, <1>8 DEF CheckUp, Goto
  <2>2. EndsClean(t)'
    BY <1>1, <1>2, <2>1 DEF EndsClean
  <2>3. t \notin Elems(queuedUp)
    BY <1>2, <1>8 DEF CheckUp, PlaceOf, BeforeUpload
  <2>4. CASE MustQueueUp(t)
    <3> DEFINE qu == Append(queuedUp, t)
    <3>1. /\ qu \in Seq(Tasks) /\ NoRepeats(qu) /\ Elems(qu) = Elems(queuedUp) \cup {t}
      BY <2>3, ElemsAppend DEF IndInv, TypeOK, Placement, OnePlace
    <3>2. StartFromQueued(queuedDl, qu, nonQueuedDl \ {t}, nonQueuedUp, signalled \ {t})
      BY <1>8, <2>4 DEF CheckUp
    <3> HIDE DEF qu
    <3>3. Refilled(queuedDl, qu, nonQueuedDl \ {t}, nonQueuedUp, signalled \ {t})
      BY <3>1, <3>2, RefillIsRefilled DEF IndInv, TypeOK, Placement, OnePlace
    <3>4. \A u \in Tasks \ {t} : StaysOut(u)
      BY <3>1, <3>3 DEF Refilled, StaysOut
    <3> QED BY <1>3, <2>2, <3>4
  <2>5. CASE ~MustQueueUp(t)
    <3>1. StartFromQueued(queuedDl, queuedUp, nonQueuedDl \ {t},
                          nonQueuedUp \cup {t}, signalled)
      BY <1>8, <2>5 DEF CheckUp
    <3>2. Refilled(queuedDl, queuedUp, nonQueuedDl \ {t}, nonQueuedUp \cup {t}, signalled)
      BY <3>1, RefillFromRefilled DEF IndInv, TypeOK
    <3>3. \A u \in Tasks \ {t} : StaysOut(u)
      BY <3>2 DEF Refilled, StaysOut
    <3> QED BY <1>3, <2>2, <3>3
  <2> QED BY <2>4, <2>5
<1> QED
  BY <1>4, <1>5, <1>6, <1>7, <1>8 DEF UploadStep, QuietUploadStep

LEMMA NextEndsClean == IndInv /\ IndInv' /\ CleanInv /\ [Next]_vars => CleanInv'
<1> SUFFICES ASSUME IndInv, IndInv', CleanInv, [Next]_vars PROVE CleanInv'
  OBVIOUS
<1>1. ASSUME NEW t \in Tasks, DownloadStep(t) \/ UploadStep(t) PROVE CleanInv'
  BY <1>1, DownloadStepEndsClean, UploadStepEndsClean
<1>2. ASSUME NEW t \in Tasks,
             HandlerStep(t) \/ Cancel(t) \/ EngineError(t) \/ HandlerDies(t)
      PROVE  CleanInv'
  <2>1. EndsClean(t) /\ handler \in [Tasks -> {"idle", "dict", "queue"}]
    BY DEF CleanInv, IndInv, TypeOK
  <2>2. QueueMoves
    BY <1>2, QuietMoves, ReleaseMoves
    DEF HandlerStep, HandlerDict, HandlerQueue, Cancel, EngineError, HandlerDies
  <2>3. /\ UNCHANGED pc /\ cancelled \subseteq cancelled' /\ broken \subseteq broken'
        /\ \A u \in Tasks \ {t} : /\ handler'[u] = handler[u]
                                  /\ u \in taskDict <=> u \in taskDict'
    BY <1>2, <2>1 DEF HandlerStep, HandlerDict, HandlerQueue, Cancel, EngineError,
                      HandlerDies, flagVars
  <2>4. ASSUME NEW u \in Tasks \ {t} PROVE EndsClean(u)'
    BY <2>2, <2>3, OthersEndClean, MovesStayOut DEF CleanInv
  <2>5. StaysOut(t)
    BY <2>2, MovesStayOut
  <2>6. EndsClean(t)'
    <3>1. CASE HandlerDict(t)
      BY <2>1, <2>3, <2>5, <3>1 DEF HandlerDict, EndsClean, Nowhere, queueVars, flagVars
    <3>2. CASE HandlerQueue(t)
      <4>1. Nowhere(t)' /\ UNCHANGED taskDict
        BY <3>2, ReleaseEffect DEF HandlerQueue, Nowhere
      <4> QED BY <2>1, <2>3, <3>2, <4>1 DEF HandlerQueue, EndsClean, Nowhere, flagVars
    <3>3. CASE Cancel(t)
      BY <2>1, <2>3, <3>3 DEF Cancel, EndsClean, Nowhere, queueVars
    <3>4. CASE EngineError(t)
      BY <2>1, <2>3, <3>4 DEF EngineError, EndsClean, Nowhere, queueVars
    <3>5. CASE HandlerDies(t)
      BY <2>1, <3>5 DEF HandlerDies, EndsClean, Nowhere, queueVars
    <3> QED BY <1>2, <3>1, <3>2, <3>3, <3>4, <3>5 DEF HandlerStep
  <2> QED BY <2>4, <2>6 DEF CleanInv
<1>7. ASSUME NEW t \in Tasks, AddFails(t) \/ CoroutineDies(t) PROVE CleanInv'
  <2>1. /\ \A u \in Tasks \ {t} : pc'[u] = pc[u]
        /\ pc'[t] = "errDict" \/ (pc'[t] = "done" /\ t \in broken')
        /\ UNCHANGED <<handler, taskDict, cancelled>> /\ UNCHANGED queueVars
        /\ broken \subseteq broken'
    BY <1>7 DEF AddFails, CoroutineDies, Goto, IndInv, TypeOK, flagVars
  <2>2. QueueMoves
    BY <2>1, QuietMoves
  <2>3. ASSUME NEW u \in Tasks \ {t} PROVE EndsClean(u)'
    BY <2>1, <2>2, OthersEndClean, MovesStayOut DEF CleanInv
  <2>4. EndsClean(t)'
    BY <2>1 DEF CleanInv, EndsClean
  <2> QED BY <2>3, <2>4 DEF CleanInv
<1>3. ASSUME QueueMoves, UNCHANGED <<pc, handler, taskDict, cancelled, broken>> PROVE CleanInv'
  <2> SUFFICES ASSUME NEW u \in Tasks PROVE EndsClean(u)'
    BY DEF CleanInv
  <2> QED BY <1>3, OthersEndClean, MovesStayOut DEF CleanInv
<1>4. ASSUME NEW t \in Tasks, NEW d \in BOOLEAN, NEW u \in BOOLEAN, ForceStart(t, d, u)
      PROVE  CleanInv'
  <2>1. \/ UNCHANGED queueVars
        \/ t \in Elems(queuedDl) /\ StartOneDl(t)
        \/ t \in Elems(queuedUp) /\ StartOneUp(t)
    BY <1>4 DEF ForceStart
  <2>2. QueueMoves
    BY <2>1, QuietMoves, StartOneMoves
  <2> QED BY <1>3, <1>4, <2>2 DEF ForceStart
<1>5. CASE RefillAfterEdit
  <2>1. QueueMoves
    BY <1>5, RefillFromMoves DEF RefillAfterEdit
  <2> QED BY <1>3, <1>5, <2>1 DEF RefillAfterEdit, flagVars
<1>6. CASE (\E new \in LimitChoices : EditLimits(new)) \/ UNCHANGED vars
  <2>1. UNCHANGED <<pc, handler, taskDict, cancelled, broken>> /\ UNCHANGED queueVars
    BY <1>6 DEF EditLimits, vars, flagVars
  <2> QED BY <1>3, <2>1, QuietMoves
<1> QED BY <1>1, <1>2, <1>4, <1>5, <1>6, <1>7 DEF Next, ExceptionStep

LEMMA CleanInvAlways == Spec => []CleanInv
<1>1. Init => CleanInv
  BY DEF Init, CleanInv, EndsClean
<1> QED BY <1>1, NextEndsClean, IndInvAlways, PTL DEF Spec

-----------------------------------------------------------------------------
(* How many tasks a refill starts *)

LEMMA ElemsCount ==
    ASSUME NEW S, NEW s \in Seq(S), NoRepeats(s)
    PROVE  IsFiniteSet(Elems(s)) /\ Cardinality(Elems(s)) = Len(s)
<1>1. Len(s) \in Nat /\ s \in [1 .. Len(s) -> Elems(s)]
  BY DEF Elems
<1>2. s \in Bijection(1 .. Len(s), Elems(s))
  BY <1>1 DEF Bijection, Injection, Surjection, IsInjective, NoRepeats, Elems
<1>3. ExistsBijection(1 .. Len(s), Elems(s))
  BY <1>2 DEF ExistsBijection
<1> QED BY <1>1, <1>3, FS_NatBijection, FS_CountingElements

LEMMA PrefixCount ==
    ASSUME NEW S, NEW s \in Seq(S), NoRepeats(s), NEW k \in 0 .. Len(s)
    PROVE  /\ Len(SubSeq(s, k + 1, Len(s))) = Len(s) - k
           /\ IsFiniteSet(Elems(SubSeq(s, 1, k)))
           /\ Cardinality(Elems(SubSeq(s, 1, k))) = k
<1> DEFINE hd == SubSeq(s, 1, k)
<1>1. /\ hd \in Seq(S) /\ Len(hd) = k
      /\ \A i \in 1 .. k : hd[i] = s[i]
  OBVIOUS
<1>2. Len(SubSeq(s, k + 1, Len(s))) = Len(s) - k
  OBVIOUS
<1> HIDE DEF hd
<1>3. NoRepeats(hd)
  BY <1>1 DEF NoRepeats
<1>4. IsFiniteSet(Elems(hd)) /\ Cardinality(Elems(hd)) = k
  BY <1>1, <1>3, ElemsCount
<1> QED BY <1>2, <1>4 DEF hd

\* Room over numbers: n tasks wait, used of limit slots are taken
RoomFor(n, limit, used) ==
    IF limit = 0 THEN n ELSE IF used < limit THEN Lesser(n, limit - used) ELSE 0

\* the common limit on top of it
Capped(all, room, free) ==
    IF all = 0 THEN room ELSE IF free > 0 THEN Lesser(room, free) ELSE 0

LEMMA RoomForSpent ==
    ASSUME NEW n \in Nat, NEW limit \in Nat, NEW used \in Nat, NEW r,
           r = RoomFor(n, limit, used)
    PROVE  /\ r \in 0 .. n
           /\ RoomFor(n - r, limit, used + r) = 0
           /\ r > 0 /\ limit > 0 => used + r <= limit
BY DEF RoomFor, Lesser

\* fewer waiting and more slots taken never make room
LEMMA RoomForShrinks ==
    ASSUME NEW n \in Nat, NEW limit \in Nat, NEW used \in Nat,
           NEW m \in Nat, NEW more \in Nat, m <= n, used <= more,
           RoomFor(n, limit, used) = 0
    PROVE  RoomFor(m, limit, more) = 0
BY DEF RoomFor, Lesser

\* The uploads take what they can of the free slots, the downloads of what is
\* left: ru and rd find room under their own limits, ku and kd are started.
Starts(all, total, ru, rd, ku, kd) ==
    /\ ku = Capped(all, ru, all - total)
    /\ kd = Capped(all, rd, all - total - ku)

LEMMA StartsTyped ==
    ASSUME NEW all \in Nat, NEW total \in Nat,
           NEW nu \in Nat, NEW lu \in Nat, NEW uu \in Nat,
           NEW nd \in Nat, NEW ld \in Nat, NEW ud \in Nat,
           NEW ku, NEW kd,
           Starts(all, total, RoomFor(nu, lu, uu), RoomFor(nd, ld, ud), ku, kd)
    PROVE  ku \in 0 .. nu /\ kd \in 0 .. nd
<1>1. RoomFor(nu, lu, uu) \in 0 .. nu /\ RoomFor(nd, ld, ud) \in 0 .. nd
  BY RoomForSpent
<1>2. ku \in 0 .. nu
  BY <1>1 DEF Starts, Capped, Lesser
<1> QED BY <1>1, <1>2 DEF Starts, Capped, Lesser

LEMMA RoomsSpent ==
    ASSUME NEW all, NEW total, NEW nu, NEW lu, NEW uu, NEW nd, NEW ld, NEW ud,
           NEW ku, NEW kd,
           all \in Nat, total \in Nat, nu \in Nat, lu \in Nat, uu \in Nat,
           nd \in Nat, ld \in Nat, ud \in Nat, ku \in Nat, kd \in Nat,
           Starts(all, total, RoomFor(nu, lu, uu), RoomFor(nd, ld, ud), ku, kd)
    PROVE  /\ Capped(all, RoomFor(nu - ku, lu, uu + ku), all - (total + ku + kd)) = 0
           /\ Capped(all, RoomFor(nd - kd, ld, ud + kd), all - (total + ku + kd)) = 0
           /\ ku > 0 /\ lu > 0 => uu + ku <= lu
           /\ kd > 0 /\ ld > 0 => ud + kd <= ld
           /\ (ku > 0 \/ kd > 0) /\ all > 0 => total + ku + kd <= all
<1> DEFINE ru == RoomFor(nu, lu, uu)
           rd == RoomFor(nd, ld, ud)
<1>0. /\ ku = Capped(all, ru, all - total)
      /\ kd = Capped(all, rd, all - total - ku)
  BY DEF Starts
<1>1. /\ ru \in 0 .. nu /\ RoomFor(nu - ru, lu, uu + ru) = 0
      /\ ru > 0 /\ lu > 0 => uu + ru <= lu
  BY RoomForSpent
<1>2. /\ rd \in 0 .. nd /\ RoomFor(nd - rd, ld, ud + rd) = 0
      /\ rd > 0 /\ ld > 0 => ud + rd <= ld
  BY RoomForSpent
<1>3. /\ all = 0 => ku = ru
      /\ all > 0 /\ all - total <= 0 => ku = 0
      /\ all > 0 /\ all - total > 0 => \/ ku = ru /\ ru <= all - total
                                       \/ ku = all - total /\ ku < ru
  BY <1>0, <1>1 DEF Capped, Lesser
<1>4. ku \in 0 .. nu /\ kd \in 0 .. nd
  BY StartsTyped
<1>5. /\ all = 0 => kd = rd
      /\ all > 0 /\ all - total - ku <= 0 => kd = 0
      /\ all > 0 /\ all - total - ku > 0 => \/ kd = rd /\ rd <= all - total - ku
                                            \/ kd = all - total - ku /\ kd < rd
  BY <1>0, <1>2, <1>4 DEF Capped, Lesser
<1> HIDE DEF ru, rd
<1>6. ku < ru => all > 0 /\ all - (total + ku + kd) <= 0
  BY <1>1, <1>3, <1>4, <1>5
<1>7. kd < rd => all > 0 /\ all - (total + ku + kd) <= 0
  BY <1>2, <1>3, <1>4, <1>5
<1>8. ku <= ru /\ kd <= rd
  BY <1>1, <1>2, <1>3, <1>5, <1>4
<1>9. Capped(all, RoomFor(nu - ku, lu, uu + ku), all - (total + ku + kd)) = 0
  <2>1. CASE ku = ru
    BY <1>1, <2>1 DEF Capped, Lesser
  <2>2. CASE ku < ru
    BY <1>6, <2>2, <1>4 DEF Capped
  <2> QED BY <2>1, <2>2, <1>8, <1>1, <1>4
<1>10. Capped(all, RoomFor(nd - kd, ld, ud + kd), all - (total + ku + kd)) = 0
  <2>1. CASE kd = rd
    BY <1>2, <2>1 DEF Capped, Lesser
  <2>2. CASE kd < rd
    BY <1>7, <2>2, <1>4 DEF Capped
  <2> QED BY <2>1, <2>2, <1>8, <1>2
<1>11. (ku > 0 \/ kd > 0) /\ all > 0 => total + ku + kd <= all
  BY <1>3, <1>4, <1>5
<1>12. /\ ku > 0 /\ lu > 0 => uu + ku <= lu
       /\ kd > 0 /\ ld > 0 => ud + kd <= ld
  BY <1>1, <1>2, <1>4, <1>8
<1> QED BY <1>9, <1>10, <1>11, <1>12

\* What a refill does, in numbers
RefillBy(qd, qu, nd, nu, kd, ku) ==
    /\ Starts(limits.all, Cardinality(nd) + Cardinality(nu),
              RoomFor(Len(qu), limits.up, Cardinality(nu)),
              RoomFor(Len(qd), limits.dl, Cardinality(nd)), ku, kd)
    /\ Len(queuedDl') = Len(qd) - kd
    /\ Len(queuedUp') = Len(qu) - ku
    /\ Cardinality(nonQueuedDl') = Cardinality(nd) + kd
    /\ Cardinality(nonQueuedUp') = Cardinality(nu) + ku
    /\ kd = 0 => nonQueuedDl' = nd
    /\ ku = 0 => nonQueuedUp' = nu

LEMMA SetsAreFinite ==
    ASSUME NEW S \in SUBSET Tasks
    PROVE  IsFiniteSet(S) /\ Cardinality(S) \in Nat
BY TaskAssumption, FS_Subset, FS_CardinalityType

LEMMA LimitsAreNat ==
    ASSUME limits \in LimitChoices
    PROVE  limits.all \in Nat /\ limits.dl \in Nat /\ limits.up \in Nat
BY TaskAssumption

LEMMA RefillCounts ==
    ASSUME NEW qd \in Seq(Tasks), NoRepeats(qd), NEW qu \in Seq(Tasks), NoRepeats(qu),
           NEW nd \in SUBSET Tasks, NEW nu \in SUBSET Tasks,
           Elems(qd) \cap nd = {}, Elems(qu) \cap nu = {}, NEW sg,
           limits \in LimitChoices,
           StartFromQueued(qd, qu, nd, nu, sg)
    PROVE  \E kd \in Nat, ku \in Nat : RefillBy(qd, qu, nd, nu, kd, ku)
<1> DEFINE kd == DlRoom(qd, qu, nd, nu)
           ku == UpRoom(qu, nd, nu)
           dls == Elems(SubSeq(qd, 1, kd))
           ups == Elems(SubSeq(qu, 1, ku))
<1>1. /\ limits.all \in Nat /\ limits.dl \in Nat /\ limits.up \in Nat
      /\ IsFiniteSet(nd) /\ IsFiniteSet(nu)
      /\ Cardinality(nd) \in Nat /\ Cardinality(nu) \in Nat
      /\ Len(qd) \in Nat /\ Len(qu) \in Nat
  BY LimitsAreNat, SetsAreFinite
<1>2. Starts(limits.all, Cardinality(nd) + Cardinality(nu),
             RoomFor(Len(qu), limits.up, Cardinality(nu)),
             RoomFor(Len(qd), limits.dl, Cardinality(nd)), ku, kd)
  BY DEF Starts, UpRoom, DlRoom, Room, RoomFor, Capped
<1>3. /\ queuedDl' = SubSeq(qd, kd + 1, Len(qd)) /\ nonQueuedDl' = nd \cup dls
      /\ queuedUp' = SubSeq(qu, ku + 1, Len(qu)) /\ nonQueuedUp' = nu \cup ups
  BY Zenon DEF StartFromQueued, StartFirst
<1> HIDE DEF kd, ku
<1>4. ku \in 0 .. Len(qu) /\ kd \in 0 .. Len(qd)
  <2>1. Cardinality(nd) + Cardinality(nu) \in Nat
    BY <1>1
  <2> QED BY <1>1, <1>2, <2>1, StartsTyped
<1>5. /\ Len(queuedDl') = Len(qd) - kd /\ IsFiniteSet(dls) /\ Cardinality(dls) = kd
      /\ Len(queuedUp') = Len(qu) - ku /\ IsFiniteSet(ups) /\ Cardinality(ups) = ku
  BY <1>3, <1>4, PrefixCount
<1>6. dls \subseteq Elems(qd) /\ ups \subseteq Elems(qu)
  BY <1>4, ElemsSplit
<1> HIDE DEF dls, ups
<1>7. nd \cap dls = {} /\ nu \cap ups = {}
  BY <1>6
<1>8. Cardinality(nonQueuedDl') = Cardinality(nd) + kd
  <2>1. Cardinality(nd \cup dls) = Cardinality(nd) + Cardinality(dls) - Cardinality(nd \cap dls)
    BY <1>1, <1>5, FS_Union, Zenon
  <2>2. Cardinality(nd \cap dls) = 0
    BY <1>7, FS_EmptySet
  <2>3. Cardinality(nd \cup dls) = Cardinality(nd) + kd
    BY <1>1, <1>4, <1>5, <2>1, <2>2
  <2> QED BY <1>3, <2>3
<1>9. Cardinality(nonQueuedUp') = Cardinality(nu) + ku
  <2>1. Cardinality(nu \cup ups) = Cardinality(nu) + Cardinality(ups) - Cardinality(nu \cap ups)
    BY <1>1, <1>5, FS_Union, Zenon
  <2>2. Cardinality(nu \cap ups) = 0
    BY <1>7, FS_EmptySet
  <2>3. Cardinality(nu \cup ups) = Cardinality(nu) + ku
    BY <1>1, <1>4, <1>5, <2>1, <2>2
  <2> QED BY <1>3, <2>3
<1>10. /\ kd = 0 => nonQueuedDl' = nd
       /\ ku = 0 => nonQueuedUp' = nu
  BY <1>3, <1>5, FS_EmptySet
<1>11. kd \in Nat /\ ku \in Nat
  BY <1>1, <1>4
<1>12. RefillBy(qd, qu, nd, nu, kd, ku)
  BY <1>2, <1>5, <1>8, <1>9, <1>10, Zenon DEF RefillBy
<1> QED BY <1>11, <1>12, Zenon

-----------------------------------------------------------------------------
(* Nobody waits while a slot is free *)

Slots == Cardinality(nonQueuedDl) + Cardinality(nonQueuedUp)

NoRoom ==
    /\ Capped(limits.all, RoomFor(Len(queuedUp), limits.up, Cardinality(nonQueuedUp)),
              limits.all - Slots) = 0
    /\ Capped(limits.all, RoomFor(Len(queuedDl), limits.dl, Cardinality(nonQueuedDl)),
              limits.all - Slots) = 0

IdleInv == ~refillDue => NoRoom

\* A refill leaves no room, and starts nobody beyond a limit.
LEMMA RefillFills ==
    ASSUME NEW qd \in Seq(Tasks), NoRepeats(qd), NEW qu \in Seq(Tasks), NoRepeats(qu),
           NEW nd \in SUBSET Tasks, NEW nu \in SUBSET Tasks,
           Elems(qd) \cap nd = {}, Elems(qu) \cap nu = {}, NEW sg,
           limits \in LimitChoices, limits' = limits,
           StartFromQueued(qd, qu, nd, nu, sg)
    PROVE  /\ NoRoom'
           /\ \/ nonQueuedDl' = nd
              \/ /\ limits.dl > 0 => Cardinality(nonQueuedDl') <= limits.dl
                 /\ limits.all > 0 => Slots' <= limits.all
           /\ \/ nonQueuedUp' = nu
              \/ /\ limits.up > 0 => Cardinality(nonQueuedUp') <= limits.up
                 /\ limits.all > 0 => Slots' <= limits.all
<1>1. PICK kd \in Nat, ku \in Nat : RefillBy(qd, qu, nd, nu, kd, ku)
  BY RefillCounts
<1>2. /\ limits.all \in Nat /\ limits.dl \in Nat /\ limits.up \in Nat
      /\ Cardinality(nd) \in Nat /\ Cardinality(nu) \in Nat
      /\ Len(qd) \in Nat /\ Len(qu) \in Nat
  BY LimitsAreNat, SetsAreFinite
<1> DEFINE total == Cardinality(nd) + Cardinality(nu)
<1>3. total \in Nat
  BY <1>2
<1>4. Starts(limits.all, total, RoomFor(Len(qu), limits.up, Cardinality(nu)),
             RoomFor(Len(qd), limits.dl, Cardinality(nd)), ku, kd)
  BY <1>1 DEF RefillBy
<1>5. Slots' = total + ku + kd
  BY <1>1, <1>2 DEF RefillBy, Slots
<1> HIDE DEF total
<1>6. /\ Capped(limits.all, RoomFor(Len(qu) - ku, limits.up, Cardinality(nu) + ku),
                limits.all - (total + ku + kd)) = 0
      /\ Capped(limits.all, RoomFor(Len(qd) - kd, limits.dl, Cardinality(nd) + kd),
                limits.all - (total + ku + kd)) = 0
      /\ ku > 0 /\ limits.up > 0 => Cardinality(nu) + ku <= limits.up
      /\ kd > 0 /\ limits.dl > 0 => Cardinality(nd) + kd <= limits.dl
      /\ (ku > 0 \/ kd > 0) /\ limits.all > 0 => total + ku + kd <= limits.all
  BY <1>2, <1>3, <1>4, RoomsSpent
<1>7. /\ Len(queuedDl') = Len(qd) - kd /\ Len(queuedUp') = Len(qu) - ku
      /\ Cardinality(nonQueuedDl') = Cardinality(nd) + kd
      /\ Cardinality(nonQueuedUp') = Cardinality(nu) + ku
      /\ kd = 0 => nonQueuedDl' = nd
      /\ ku = 0 => nonQueuedUp' = nu
  BY <1>1 DEF RefillBy
<1>8. NoRoom'
  BY <1>5, <1>6, <1>7, Zenon DEF NoRoom
<1>9. (kd = 0 \/ kd > 0) /\ (ku = 0 \/ ku > 0)
  OBVIOUS
<1> QED BY <1>5, <1>6, <1>7, <1>8, <1>9

\* whoever leaves a queue for an admitted set makes no room
LEMMA NoRoomLasts ==
    ASSUME IndInv, NoRoom, limits' = limits,
           queuedDl' \in Seq(Tasks), Len(queuedDl') <= Len(queuedDl),
           queuedUp' \in Seq(Tasks), Len(queuedUp') <= Len(queuedUp),
           nonQueuedDl' \in SUBSET Tasks, nonQueuedDl \subseteq nonQueuedDl',
           nonQueuedUp' \in SUBSET Tasks, nonQueuedUp \subseteq nonQueuedUp'
    PROVE  NoRoom'
<1>1. /\ limits.all \in Nat /\ limits.dl \in Nat /\ limits.up \in Nat
      /\ Len(queuedDl) \in Nat /\ Len(queuedUp) \in Nat
      /\ Len(queuedDl') \in Nat /\ Len(queuedUp') \in Nat
  BY LimitsAreNat DEF IndInv, TypeOK
<1>2. /\ Cardinality(nonQueuedDl) \in Nat /\ Cardinality(nonQueuedDl') \in Nat
      /\ Cardinality(nonQueuedUp) \in Nat /\ Cardinality(nonQueuedUp') \in Nat
  BY SetsAreFinite DEF IndInv, TypeOK
<1>3. /\ Cardinality(nonQueuedDl) <= Cardinality(nonQueuedDl')
      /\ Cardinality(nonQueuedUp) <= Cardinality(nonQueuedUp')
  BY SetsAreFinite, FS_Subset
<1>4. ASSUME NEW room \in Nat, NEW less \in Nat, room = 0 => less = 0,
             NEW total \in Nat, NEW grown \in Nat, total <= grown,
             Capped(limits.all, room, limits.all - total) = 0
      PROVE  Capped(limits.all, less, limits.all - grown) = 0
  BY <1>1, <1>4 DEF Capped, Lesser
<1>5. Slots \in Nat /\ Slots' \in Nat /\ Slots <= Slots'
  BY <1>2, <1>3 DEF Slots
<1>6. /\ Capped(limits.all, RoomFor(Len(queuedUp), limits.up, Cardinality(nonQueuedUp)),
                limits.all - Slots) = 0
      /\ Capped(limits.all, RoomFor(Len(queuedDl), limits.dl, Cardinality(nonQueuedDl)),
                limits.all - Slots) = 0
  BY Zenon DEF NoRoom
<1>7. Capped(limits.all, RoomFor(Len(queuedUp'), limits.up, Cardinality(nonQueuedUp')),
             limits.all - Slots') = 0
  <2> DEFINE room == RoomFor(Len(queuedUp), limits.up, Cardinality(nonQueuedUp))
             less == RoomFor(Len(queuedUp'), limits.up, Cardinality(nonQueuedUp'))
  <2>1. room \in Nat /\ less \in Nat
    BY <1>1, <1>2 DEF RoomFor, Lesser
  <2>2. room = 0 => less = 0
    BY <1>1, <1>2, <1>3, RoomForShrinks
  <2>3. Capped(limits.all, room, limits.all - Slots) = 0
    BY <1>6
  <2> HIDE DEF room, less
  <2>4. Capped(limits.all, less, limits.all - Slots') = 0
    BY <1>4, <1>5, <2>1, <2>2, <2>3
  <2> QED BY <2>4 DEF less
<1>8. Capped(limits.all, RoomFor(Len(queuedDl'), limits.dl, Cardinality(nonQueuedDl')),
             limits.all - Slots') = 0
  <2> DEFINE room == RoomFor(Len(queuedDl), limits.dl, Cardinality(nonQueuedDl))
             less == RoomFor(Len(queuedDl'), limits.dl, Cardinality(nonQueuedDl'))
  <2>1. room \in Nat /\ less \in Nat
    BY <1>1, <1>2 DEF RoomFor, Lesser
  <2>2. room = 0 => less = 0
    BY <1>1, <1>2, <1>3, RoomForShrinks
  <2>3. Capped(limits.all, room, limits.all - Slots) = 0
    BY <1>6
  <2> HIDE DEF room, less
  <2>4. Capped(limits.all, less, limits.all - Slots') = 0
    BY <1>4, <1>5, <2>1, <2>2, <2>3
  <2> QED BY <2>4 DEF less
<1> QED BY <1>7, <1>8, Zenon DEF NoRoom

\* What a step owes to the queues: a task that it admits fits under the limits,
\* and where nobody could be started nobody can be started after it.
Admits ==
    /\ AdmissionWithinLimits
    /\ UNCHANGED confVars
    /\ NoRoom => NoRoom'

LEMMA NobodyAdmitted ==
    ASSUME nonQueuedDl' \subseteq nonQueuedDl, nonQueuedUp' \subseteq nonQueuedUp
    PROVE  AdmissionWithinLimits
BY DEF AdmissionWithinLimits

LEMMA QuietAdmits ==
    ASSUME UNCHANGED queueVars, UNCHANGED confVars
    PROVE  Admits
<1>1. AdmissionWithinLimits
  BY NobodyAdmitted DEF queueVars
<1>2. NoRoom => NoRoom'
  BY DEF NoRoom, Slots, queueVars, confVars
<1> QED BY <1>1, <1>2 DEF Admits

LEMMA RefillAdmits ==
    ASSUME IndInv, UNCHANGED confVars,
           NEW qd \in Seq(Tasks), NoRepeats(qd), Elems(qd) \subseteq Elems(queuedDl),
           NEW qu \in Seq(Tasks), NoRepeats(qu), Elems(qu) \subseteq Elems(queuedUp),
           NEW nd \in SUBSET nonQueuedDl, NEW nu \in SUBSET nonQueuedUp, NEW sg,
           StartFromQueued(qd, qu, nd, nu, sg)
    PROVE  Admits /\ NoRoom'
<1>1. /\ nd \in SUBSET Tasks /\ nu \in SUBSET Tasks
      /\ Elems(qd) \cap nd = {} /\ Elems(qu) \cap nu = {}
      /\ limits \in LimitChoices /\ limits' = limits
  BY DEF IndInv, TypeOK, Placement, OnePlace, confVars
<1>2. /\ NoRoom'
      /\ \/ nonQueuedDl' = nd
         \/ /\ limits.dl > 0 => Cardinality(nonQueuedDl') <= limits.dl
            /\ limits.all > 0 => Slots' <= limits.all
      /\ \/ nonQueuedUp' = nu
         \/ /\ limits.up > 0 => Cardinality(nonQueuedUp') <= limits.up
            /\ limits.all > 0 => Slots' <= limits.all
  BY <1>1, RefillFills
<1>3. AdmissionWithinLimits
  BY <1>2, Zenon DEF AdmissionWithinLimits, Slots
<1> QED BY <1>2, <1>3 DEF Admits

LEMMA RefillFromAdmits ==
    ASSUME IndInv, UNCHANGED confVars,
           NEW nd \in SUBSET nonQueuedDl, NEW nu \in SUBSET nonQueuedUp,
           StartFromQueued(queuedDl, queuedUp, nd, nu, signalled)
    PROVE  Admits /\ NoRoom'
<1>1. /\ queuedDl \in Seq(Tasks) /\ NoRepeats(queuedDl)
      /\ queuedUp \in Seq(Tasks) /\ NoRepeats(queuedUp)
  BY DEF IndInv, TypeOK, Placement, OnePlace
<1> QED BY <1>1, RefillAdmits

LEMMA ReleaseAdmits ==
    ASSUME IndInv, UNCHANGED confVars, NEW t \in Tasks, ReleaseAll(t)
    PROVE  Admits
<1> DEFINE qd == Without(queuedDl, t)
           qu == Without(queuedUp, t)
           sg == IF t \in Elems(queuedDl) \cup Elems(queuedUp)
                 THEN signalled \cup {t} ELSE signalled
<1>1. /\ qd \in Seq(Tasks) /\ NoRepeats(qd) /\ Elems(qd) = Elems(queuedDl) \ {t}
      /\ qu \in Seq(Tasks) /\ NoRepeats(qu) /\ Elems(qu) = Elems(queuedUp) \ {t}
  BY ElemsWithout DEF IndInv, TypeOK, Placement, OnePlace
<1>2. StartFromQueued(qd, qu, nonQueuedDl \ {t}, nonQueuedUp \ {t}, sg)
  BY DEF ReleaseAll
<1> HIDE DEF qd, qu, sg
<1> QED BY <1>1, <1>2, RefillAdmits

\* one more in a set
LEMMA OneMore ==
    ASSUME NEW S \in SUBSET Tasks, NEW t \in Tasks
    PROVE  /\ Cardinality(S) \in Nat
           /\ t \notin S => Cardinality(S \cup {t}) = Cardinality(S) + 1
           /\ Cardinality(S) <= Cardinality(S \cup {t})
           /\ Cardinality(S \ {t}) <= Cardinality(S)
<1>1. IsFiniteSet(S) /\ IsFiniteSet(S \cup {t})
  BY SetsAreFinite
<1> QED BY <1>1, FS_CardinalityType, FS_AddElement, FS_Subset

LEMMA CheckDlAdmits ==
    ASSUME IndInv, NEW t \in Tasks, CheckDl(t)
    PROVE  Admits
<1>1. /\ pc[t] = "new" /\ UNCHANGED confVars
      /\ UNCHANGED <<queuedUp, nonQueuedUp, forceDl, forceUp>>
  BY DEF CheckDl, flagVars
<1>2. /\ t \notin nonQueuedDl /\ nonQueuedDl \in SUBSET Tasks /\ nonQueuedUp \in SUBSET Tasks
      /\ queuedDl \in Seq(Tasks) /\ queuedUp \in Seq(Tasks)
  BY <1>1 DEF IndInv, TypeOK, Placement, PlaceOf
<1>3. /\ limits.all \in Nat /\ limits.dl \in Nat /\ limits.up \in Nat
      /\ Cardinality(nonQueuedDl) \in Nat /\ Cardinality(nonQueuedUp) \in Nat
  BY <1>2, LimitsAreNat, SetsAreFinite DEF IndInv, TypeOK
<1>4. limits' = limits
  BY <1>1 DEF confVars
<1>5. CASE MustQueueDl(t)
  <2>1. queuedDl' = Append(queuedDl, t) /\ UNCHANGED nonQueuedDl
    BY <1>5 DEF CheckDl
  <2>2. OverLimit(limits.dl, Cardinality(nonQueuedDl), Slots)
    BY <1>5 DEF MustQueueDl, Slots
  <2>3. Slots' = Slots /\ Slots \in Nat
    BY <1>1, <1>3, <2>1 DEF Slots
  <2>4. Capped(limits.all, RoomFor(Len(queuedDl'), limits.dl, Cardinality(nonQueuedDl)),
               limits.all - Slots) = 0
    <3>1. CASE limits.all > 0 /\ Slots >= limits.all
      BY <1>3, <2>3, <3>1 DEF Capped
    <3>2. CASE limits.dl > 0 /\ Cardinality(nonQueuedDl) >= limits.dl
      <4>1. RoomFor(Len(queuedDl'), limits.dl, Cardinality(nonQueuedDl)) = 0
        BY <1>3, <3>2 DEF RoomFor
      <4> QED BY <1>3, <2>3, <4>1 DEF Capped, Lesser
    <3> QED BY <2>2, <3>1, <3>2 DEF OverLimit
  <2>5. NoRoom => NoRoom'
    BY <1>1, <1>4, <2>1, <2>3, <2>4 DEF NoRoom
  <2>6. AdmissionWithinLimits
    BY <1>1, <2>1, NobodyAdmitted
  <2> QED BY <1>1, <2>5, <2>6 DEF Admits
<1>6. CASE ~MustQueueDl(t)
  <2>1. nonQueuedDl' = nonQueuedDl \cup {t} /\ UNCHANGED queuedDl
    BY <1>6 DEF CheckDl
  <2>2. Cardinality(nonQueuedDl') = Cardinality(nonQueuedDl) + 1
    BY <1>2, <2>1, OneMore
  <2>3. t \in ForceRun \cup forceDl'
        \/ ~OverLimit(limits.dl, Cardinality(nonQueuedDl), Slots)
    BY <1>1, <1>6 DEF MustQueueDl, Slots
  <2>4. Slots' = Slots + 1 /\ Slots \in Nat
    BY <1>1, <1>3, <2>2 DEF Slots
  <2>5. \/ t \in ForceRun \cup forceDl'
        \/ /\ limits.dl > 0 => Cardinality(nonQueuedDl') <= limits.dl
           /\ limits.all > 0 /\ limits.dl = 0 => Slots' <= limits.all
    BY <1>3, <2>2, <2>3, <2>4 DEF OverLimit
  <2>6. AdmissionWithinLimits
    BY <1>1, <2>1, <2>5 DEF AdmissionWithinLimits, Slots
  <2>7. NoRoom => NoRoom'
    <3>1. nonQueuedDl' \in SUBSET Tasks /\ queuedDl' \in Seq(Tasks) /\ queuedUp' \in Seq(Tasks)
          /\ Len(queuedDl') <= Len(queuedDl) /\ Len(queuedUp') <= Len(queuedUp)
      BY <1>1, <1>2, <2>1
    <3> QED BY <1>1, <1>2, <1>4, <2>1, <3>1, NoRoomLasts
  <2> QED BY <1>1, <2>6, <2>7 DEF Admits
<1> QED BY <1>5, <1>6

LEMMA CheckUpAdmits ==
    ASSUME IndInv, NEW t \in Tasks, CheckUp(t)
    PROVE  Admits
<1>1. /\ pc[t] = "checkUp" /\ UNCHANGED confVars /\ limits' = limits
      /\ UNCHANGED <<forceDl, forceUp>>
  BY DEF CheckUp, flagVars, confVars
<1>2. /\ queuedDl \in Seq(Tasks) /\ NoRepeats(queuedDl)
      /\ queuedUp \in Seq(Tasks) /\ NoRepeats(queuedUp)
      /\ nonQueuedDl \in SUBSET Tasks /\ nonQueuedUp \in SUBSET Tasks
      /\ Elems(queuedDl) \cap nonQueuedDl = {} /\ Elems(queuedUp) \cap nonQueuedUp = {}
      /\ t \notin Elems(queuedDl) \cup Elems(queuedUp) \cup nonQueuedUp
      /\ limits \in LimitChoices
  BY <1>1 DEF IndInv, TypeOK, Placement, OnePlace, PlaceOf, BeforeUpload
<1>3. CASE MustQueueUp(t)
  <2> DEFINE qu == Append(queuedUp, t)
  <2>1. StartFromQueued(queuedDl, qu, nonQueuedDl \ {t}, nonQueuedUp, signalled \ {t})
    BY <1>3 DEF CheckUp
  <2>2. qu \in Seq(Tasks) /\ NoRepeats(qu) /\ Elems(qu) = Elems(queuedUp) \cup {t}
    BY <1>2, ElemsAppend
  <2> HIDE DEF qu
  <2>3. nonQueuedDl \ {t} \in SUBSET Tasks /\ Elems(queuedDl) \cap (nonQueuedDl \ {t}) = {}
        /\ Elems(qu) \cap nonQueuedUp = {}
    BY <1>2, <2>2
  <2>4. /\ NoRoom'
        /\ \/ nonQueuedDl' = nonQueuedDl \ {t}
           \/ /\ limits.dl > 0 => Cardinality(nonQueuedDl') <= limits.dl
              /\ limits.all > 0 => Slots' <= limits.all
        /\ \/ nonQueuedUp' = nonQueuedUp
           \/ /\ limits.up > 0 => Cardinality(nonQueuedUp') <= limits.up
              /\ limits.all > 0 => Slots' <= limits.all
    BY <1>1, <1>2, <2>1, <2>2, <2>3, RefillFills
  <2>5. AdmissionWithinLimits
    BY <2>4 DEF AdmissionWithinLimits, Slots
  <2> QED BY <1>1, <2>4, <2>5 DEF Admits
<1>4. CASE ~MustQueueUp(t)
  <2> DEFINE nd == nonQueuedDl \ {t}
             nu == nonQueuedUp \cup {t}
  <2>1. StartFromQueued(queuedDl, queuedUp, nd, nu, signalled)
    BY <1>4 DEF CheckUp
  <2>2. nd \in SUBSET Tasks /\ nu \in SUBSET Tasks
        /\ Elems(queuedDl) \cap nd = {} /\ Elems(queuedUp) \cap nu = {}
    BY <1>2
  <2>3. /\ NoRoom'
        /\ \/ nonQueuedDl' = nd
           \/ /\ limits.dl > 0 => Cardinality(nonQueuedDl') <= limits.dl
              /\ limits.all > 0 => Slots' <= limits.all
        /\ \/ nonQueuedUp' = nu
           \/ /\ limits.up > 0 => Cardinality(nonQueuedUp') <= limits.up
              /\ limits.all > 0 => Slots' <= limits.all
    BY <1>1, <1>2, <2>1, <2>2, RefillFills
  <2>4. /\ limits.all \in Nat /\ limits.up \in Nat
        /\ Cardinality(nd) \in Nat /\ Cardinality(nonQueuedUp) \in Nat
        /\ Cardinality(nu) = Cardinality(nonQueuedUp) + 1
    BY <1>2, <2>2, LimitsAreNat, OneMore
  <2>5. t \in ForceRun \cup forceUp'
        \/ ~OverLimit(limits.up, Cardinality(nonQueuedUp), Cardinality(nd) + Cardinality(nonQueuedUp))
    BY <1>1, <1>4 DEF MustQueueUp
  <2>6. \/ t \in ForceRun \cup forceUp'
        \/ /\ limits.up > 0 => Cardinality(nu) <= limits.up
           /\ limits.all > 0 /\ limits.up = 0 => Cardinality(nd) + Cardinality(nu) <= limits.all
    BY <2>4, <2>5 DEF OverLimit
  <2>7. nd \subseteq nonQueuedDl /\ nu \ nonQueuedUp \subseteq {t}
    OBVIOUS
  <2> HIDE DEF nd, nu
  <2>8. AdmissionWithinLimits
    BY <2>3, <2>6, <2>7 DEF AdmissionWithinLimits, Slots
  <2> QED BY <1>1, <2>3, <2>8 DEF Admits
<1> QED BY <1>3, <1>4

LEMMA ForceStartAdmits ==
    ASSUME IndInv, NEW t \in Tasks, NEW d \in BOOLEAN, NEW u \in BOOLEAN, ForceStart(t, d, u)
    PROVE  Admits
<1>1. /\ UNCHANGED confVars /\ limits' = limits
      /\ \/ UNCHANGED queueVars
         \/ t \in Elems(queuedDl) /\ StartOneDl(t) /\ t \in forceDl'
         \/ t \in Elems(queuedUp) /\ StartOneUp(t) /\ t \in forceUp'
  BY DEF ForceStart, confVars
<1>2. /\ queuedDl \in Seq(Tasks) /\ NoRepeats(queuedDl)
      /\ queuedUp \in Seq(Tasks) /\ NoRepeats(queuedUp)
      /\ nonQueuedDl \in SUBSET Tasks /\ nonQueuedUp \in SUBSET Tasks
  BY DEF IndInv, TypeOK, Placement, OnePlace
<1>3. ASSUME NEW s \in Seq(Tasks), NoRepeats(s)
      PROVE  Without(s, t) \in Seq(Tasks) /\ Len(Without(s, t)) <= Len(s)
  <2>1. /\ Without(s, t) \in Seq(Tasks) /\ NoRepeats(Without(s, t))
        /\ Elems(Without(s, t)) = Elems(s) \ {t}
    BY <1>3, ElemsWithout
  <2>2. /\ IsFiniteSet(Elems(s)) /\ Cardinality(Elems(s)) = Len(s)
        /\ Cardinality(Elems(Without(s, t))) = Len(Without(s, t))
    BY <1>3, <2>1, ElemsCount
  <2> QED BY <2>1, <2>2, FS_Subset
<1>4. CASE UNCHANGED queueVars
  BY <1>1, <1>4, QuietAdmits
<1>5. CASE t \in Elems(queuedDl) /\ StartOneDl(t) /\ t \in forceDl'
  <2>1. /\ queuedDl' = Without(queuedDl, t) /\ nonQueuedDl' = nonQueuedDl \cup {t}
        /\ UNCHANGED <<queuedUp, nonQueuedUp>>
    BY <1>5 DEF StartOneDl
  <2>2. AdmissionWithinLimits
    BY <1>5, <2>1 DEF AdmissionWithinLimits
  <2>3. /\ queuedDl' \in Seq(Tasks) /\ Len(queuedDl') <= Len(queuedDl)
        /\ queuedUp' \in Seq(Tasks) /\ Len(queuedUp') <= Len(queuedUp)
        /\ nonQueuedDl' \in SUBSET Tasks /\ nonQueuedUp' \in SUBSET Tasks
        /\ nonQueuedDl \subseteq nonQueuedDl' /\ nonQueuedUp \subseteq nonQueuedUp'
    BY <1>2, <1>3, <2>1
  <2> QED BY <1>1, <2>2, <2>3, NoRoomLasts DEF Admits
<1>6. CASE t \in Elems(queuedUp) /\ StartOneUp(t) /\ t \in forceUp'
  <2>1. /\ queuedUp' = Without(queuedUp, t) /\ nonQueuedUp' = nonQueuedUp \cup {t}
        /\ UNCHANGED <<queuedDl, nonQueuedDl>>
    BY <1>6 DEF StartOneUp
  <2>2. AdmissionWithinLimits
    BY <1>6, <2>1 DEF AdmissionWithinLimits
  <2>3. /\ queuedDl' \in Seq(Tasks) /\ Len(queuedDl') <= Len(queuedDl)
        /\ queuedUp' \in Seq(Tasks) /\ Len(queuedUp') <= Len(queuedUp)
        /\ nonQueuedDl' \in SUBSET Tasks /\ nonQueuedUp' \in SUBSET Tasks
        /\ nonQueuedDl \subseteq nonQueuedDl' /\ nonQueuedUp \subseteq nonQueuedUp'
    BY <1>2, <1>3, <2>1
  <2> QED BY <1>1, <2>2, <2>3, NoRoomLasts DEF Admits
<1> QED BY <1>1, <1>4, <1>5, <1>6

LEMMA StepAdmits ==
    ASSUME IndInv, NEW t \in Tasks,
           \/ DownloadStep(t) \/ UploadStep(t) \/ HandlerStep(t)
           \/ Cancel(t) \/ EngineError(t) \/ ExceptionStep(t)
    PROVE  Admits
<1>1. CASE DownloadStep(t)
  <2>1. CASE CheckDl(t)
    BY <2>1, CheckDlAdmits
  <2>2. CASE ~CheckDl(t)
    <3>1. UNCHANGED queueVars /\ UNCHANGED confVars
      BY <1>1, <2>2 DEF DownloadStep, RegisterQueued, WakeDl, ResumeEngine,
                Register, DlAbandoned, DlFinished, DlFailed
    <3> QED BY <3>1, QuietAdmits
  <2> QED BY <2>1, <2>2
<1>2. CASE UploadStep(t)
  <2>1. CASE QuietUploadStep(t)
    <3>1. UNCHANGED queueVars /\ UNCHANGED confVars
      BY <2>1 DEF QuietUploadStep, CompleteStart, NothingToUpload, StageStart, StageEnd,
          NoStages, RegisterQueuedUp, WakeUp, RegisterUp, UpAbandoned, UpFailed,
          UpFinished, UploadComplete, StartSeeding, SeedFinished, ErrorDict
    <3> QED BY <3>1, QuietAdmits
  <2>2. CASE FreeDownloadSlot(t)
    <3>1. UNCHANGED confVars
      BY <2>2 DEF FreeDownloadSlot
    <3>2. CASE limits.all = 0
      BY <2>2, <3>1, <3>2, RefillFromAdmits DEF FreeDownloadSlot
    <3>3. CASE limits.all # 0
      BY <2>2, <3>1, <3>3, QuietAdmits DEF FreeDownloadSlot
    <3> QED BY <3>2, <3>3
  <2>3. CASE FreeUploadSlot(t)
    BY <2>3, RefillFromAdmits DEF FreeUploadSlot
  <2>4. CASE ErrorQueue(t)
    BY <2>4, ReleaseAdmits DEF ErrorQueue
  <2>5. CASE CheckUp(t)
    BY <2>5, CheckUpAdmits
  <2> QED BY <1>2, <2>1, <2>2, <2>3, <2>4, <2>5 DEF UploadStep, QuietUploadStep
<1>3. CASE HandlerQueue(t)
  BY <1>3, ReleaseAdmits DEF HandlerQueue
<1>4. CASE HandlerDict(t) \/ Cancel(t) \/ EngineError(t) \/ ExceptionStep(t)
  BY <1>4, QuietAdmits
  DEF HandlerDict, Cancel, EngineError, ExceptionStep, AddFails, CoroutineDies, HandlerDies
<1> QED BY <1>1, <1>2, <1>3, <1>4 DEF HandlerStep

LEMMA NextAdmits ==
    IndInv /\ [Next]_vars => AdmissionWithinLimits /\ (IdleInv => IdleInv')
<1> SUFFICES ASSUME IndInv, [Next]_vars
             PROVE  AdmissionWithinLimits /\ (IdleInv => IdleInv')
  OBVIOUS
<1>1. ASSUME Admits PROVE AdmissionWithinLimits /\ (IdleInv => IdleInv')
  BY <1>1 DEF Admits, IdleInv, confVars
<1>2. CASE RefillAfterEdit
  <2> DEFINE sq == StartFromQueued(queuedDl, queuedUp, nonQueuedDl, nonQueuedUp, signalled)
  <2>1. sq /\ limits' = limits
    BY <1>2 DEF RefillAfterEdit
  <2>2. /\ queuedDl \in Seq(Tasks) /\ NoRepeats(queuedDl)
        /\ queuedUp \in Seq(Tasks) /\ NoRepeats(queuedUp)
        /\ nonQueuedDl \in SUBSET Tasks /\ nonQueuedUp \in SUBSET Tasks
        /\ Elems(queuedDl) \cap nonQueuedDl = {} /\ Elems(queuedUp) \cap nonQueuedUp = {}
        /\ limits \in LimitChoices
    BY DEF IndInv, TypeOK, Placement, OnePlace
  <2>3. /\ NoRoom'
        /\ \/ nonQueuedDl' = nonQueuedDl
           \/ /\ limits.dl > 0 => Cardinality(nonQueuedDl') <= limits.dl
              /\ limits.all > 0 => Slots' <= limits.all
        /\ \/ nonQueuedUp' = nonQueuedUp
           \/ /\ limits.up > 0 => Cardinality(nonQueuedUp') <= limits.up
              /\ limits.all > 0 => Slots' <= limits.all
    BY <2>1, <2>2, RefillFills
  <2>4. AdmissionWithinLimits
    BY <2>3 DEF AdmissionWithinLimits, Slots
  <2> QED BY <2>3, <2>4 DEF IdleInv
<1>3. CASE \E new \in LimitChoices : EditLimits(new)
  <2>1. UNCHANGED queueVars /\ refillDue' = TRUE
    BY <1>3 DEF EditLimits
  <2>2. AdmissionWithinLimits
    BY <2>1, NobodyAdmitted DEF queueVars
  <2> QED BY <2>1, <2>2 DEF IdleInv
<1>4. CASE UNCHANGED vars
  BY <1>1, <1>4, QuietAdmits DEF vars
<1> QED BY <1>1, <1>2, <1>3, <1>4, StepAdmits, ForceStartAdmits DEF Next

LEMMA IdleInvAlways == Spec => []IdleInv
<1>1. Init => IdleInv
  <2> SUFFICES ASSUME Init PROVE NoRoom
    BY DEF IdleInv
  <2>1. /\ limits.all \in Nat /\ limits.dl \in Nat /\ limits.up \in Nat
        /\ Len(queuedDl) = 0 /\ Len(queuedUp) = 0
        /\ Cardinality(nonQueuedDl) = 0 /\ Cardinality(nonQueuedUp) = 0
    BY LimitsAreNat, FS_EmptySet DEF Init
  <2> QED BY <2>1 DEF NoRoom, Slots, Capped, RoomFor, Lesser
<1>2. IndInv /\ IdleInv /\ [Next]_vars => IdleInv'
  BY NextAdmits
<1> QED BY <1>1, <1>2, IndInvAlways, PTL DEF Spec

-----------------------------------------------------------------------------
(* The results *)

\* The queues, the admitted sets and the control state keep their types, for
\* any set of tasks and any limits (all of task_manager.py, task_listener.py).
THEOREM Typing == Spec => []TypeOK
<1>1. IndInv => TypeOK
  BY DEF IndInv
<1> QED BY <1>1, IndInvAlways, PTL

\* A task is never in two of queued_dl, queued_up, non_queued_dl and
\* non_queued_up, whatever cancels, force starts and settings edits come between
\* its own steps: the counts compared with the limits are exact.
THEOREM CountedOnce == Spec => []OnePlace
<1>1. IndInv => OnePlace
  BY DEF IndInv, Placement
<1> QED BY <1>1, IndInvAlways, PTL

\* Whoever waits for its queue event is in the queue or has the event set: no
\* path drops an event without setting it.
THEOREM WakeupsKept == Spec => []NoLostWakeup
<1>1. IndInv => NoLostWakeup
  BY DEF IndInv, Placement
<1> QED BY <1>1, IndInvAlways, PTL

\* A transfer that neither a cancel nor an engine error has stopped runs on a
\* slot: no refill, force start or handler of another task takes it away.
THEOREM SlotsOfTheRunning == Spec => []RunningHaveSlots
<1>1. SlotInv => RunningHaveSlots
  BY DEF SlotInv, OnSlot, RunningHaveSlots
<1> QED BY <1>1, SlotInvAlways, PTL

\* A task that ends without a cancel and without an uncaught exception leaves no
\* slot behind: a failed add, an engine error beside the main coroutine, a missing
\* task_dict entry, a force start or a refill never makes it (on_download_error,
\* on_upload_error, on_upload_complete give everything back).
THEOREM ErrorsGiveSlotsBack == Spec => []HandledErrorsLeakNothing
<1>1. CleanInv => HandledErrorsLeakNothing
  BY DEF CleanInv, EndsClean, HandledErrorsLeakNothing, Leaked
<1> QED BY <1>1, CleanInvAlways, PTL

\* Outside the gap of a settings edit nobody waits while start_from_queued would
\* start somebody, for any limits: every place that gives a slot back refills,
\* and check_running_tasks queues a task only when there is no room for it.
THEOREM NobodyWaitsIdly == Spec => []NoIdleCapacity
<1>1. IndInv /\ IdleInv => NoIdleCapacity
  <2> SUFFICES ASSUME IndInv, NoRoom
               PROVE  /\ UpRoom(queuedUp, nonQueuedDl, nonQueuedUp) = 0
                      /\ DlRoom(queuedDl, queuedUp, nonQueuedDl, nonQueuedUp) = 0
    BY DEF IdleInv, NoIdleCapacity
  <2>1. UpRoom(queuedUp, nonQueuedDl, nonQueuedUp) = 0
    BY DEF NoRoom, Slots, UpRoom, Room, RoomFor, Capped
  <2>2. limits.all - Slots - 0 = limits.all - Slots
    <3>1. Slots \in Nat /\ limits.all \in Nat
      BY LimitsAreNat, SetsAreFinite DEF Slots, IndInv, TypeOK
    <3> QED BY <3>1
  <2>3. DlRoom(queuedDl, queuedUp, nonQueuedDl, nonQueuedUp) = 0
    BY <2>1, <2>2 DEF NoRoom, Slots, DlRoom, Room, RoomFor, Capped
  <2> QED BY <2>1, <2>3
<1> QED BY <1>1, IndInvAlways, IdleInvAlways, PTL

\* A task that enters an admitted set without being forced finds room for itself
\* under the limits of that moment, whichever refill, check or handler admits it
\* (check_running_tasks, start_from_queued).
THEOREM AdmissionsFit == Spec => LimitsRespected
<1>1. IndInv /\ [Next]_vars => AdmissionWithinLimits
  BY NextAdmits
<1> QED BY <1>1, IndInvAlways, PTL DEF Spec, LimitsRespected

=============================================================================
