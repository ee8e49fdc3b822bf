--------------------------- MODULE AssistantProofs ---------------------------
(***************************************************************************)
(* Proofs about the assistant.  Conversation: for any number of chats,     *)
(* requests and commands and any limits, the variables keep their types,   *)
(* the requests of a chat take turns, the model is shown the end of what   *)
(* was said, what is forgotten stays forgotten, and nobody waits for what  *)
(* cannot come.  VertexTurn: for any number of rounds, retries and tool    *)
(* calls, GitHub is consulted before a turn that demands it is answered,   *)
(* and authentication is given up only with a refreshed token.             *)
(***************************************************************************)
EXTENDS Conversation, VertexTurn, WellFoundedInduction, SequenceTheorems,
        FiniteSetTheorems, TLAPS

-----------------------------------------------------------------------------
(* Sequences *)

\* Induction: a set that has 0 and all successors has all natural numbers.
LEMMA SetInduction ==
    ASSUME NEW T, 0 \in T, \A n \in Nat : n \in T => n + 1 \in T
    PROVE  Nat \subseteq T
<1> DEFINE R == OpToRel(<, Nat)
<1>1. IsWellFoundedOn(R, Nat)
  BY NatLessThanWellFounded
<1>2. \A m, n \in Nat : m < n => <<m, n>> \in R
  BY DEF OpToRel
<1> HIDE DEF R
<1>3. SUFFICES ASSUME Nat \ T # {} PROVE FALSE
  OBVIOUS
<1>4. PICK x \in Nat \ T : \A y \in Nat \ T : ~ (<<y, x>> \in R)
  BY <1>1, <1>3, WFMin
<1>5. x - 1 \in Nat /\ x - 1 < x
  BY <1>4
<1>6. x - 1 \in T
  BY <1>2, <1>4, <1>5
<1>7. (x - 1) + 1 \in T
  BY <1>5, <1>6
<1> QED BY <1>4, <1>5, <1>7

\* What is kept of a sequence is in the set and was in the sequence.
LEMMA KeptTypes ==
    ASSUME NEW T, NEW s \in Seq(T), NEW S
    PROVE  Kept(s, S) \in Seq(T \cap S)
<1> DEFINE Body(f, i) == IF i = 0 THEN <<>>
                         ELSE IF s[i] \in S THEN Append(f[i - 1], s[i]) ELSE f[i - 1]
           Defined(f, m) == f = [i \in 0..m |-> Body(f, i)]
           kept == CHOOSE f : Defined(f, Len(s))
           Definable == {m \in Nat : \E f : Defined(f, m)}
           Typed == {m \in Nat : m <= Len(s) => kept[m] \in Seq(T \cap S)}
<1>1. Kept(s, S) = kept[Len(s)]
  BY DEF Kept
<1>2. Len(s) \in Nat /\ \A i \in 1..Len(s) : s[i] \in T
  OBVIOUS
<1>3. ASSUME NEW f, NEW g, NEW i \in Nat, i # 0 => f[i - 1] = g[i - 1]
      PROVE  Body(f, i) = Body(g, i)
  BY <1>3
<1>4. Defined(kept, Len(s))
  <2> HIDE DEF Body
  <2>1. 0 \in Definable
    <3>1. Body(<<>>, 0) = <<>> /\ Body([i \in 0..0 |-> <<>>], 0) = <<>>
      BY DEF Body
    <3>2. Defined([i \in 0..0 |-> <<>>], 0)
      BY <3>1
    <3> QED BY <3>2
  <2>2. ASSUME NEW n \in Nat, n \in Definable PROVE n + 1 \in Definable
    <3>1. PICK f : Defined(f, n)
      BY <2>2
    <3> DEFINE g == [i \in 0..(n + 1) |-> Body(f, i)]
    <3>2. \A i \in 0..n : f[i] = Body(f, i)
      BY <3>1
    <3>3. \A i \in 0..n : g[i] = f[i]
      BY <3>2
    <3>4. ASSUME NEW i \in 0..(n + 1) PROVE Body(g, i) = Body(f, i)
      <4>1. i # 0 => i - 1 \in 0..n
        OBVIOUS
      <4> HIDE DEF g
      <4>2. i # 0 => f[i - 1] = g[i - 1]
        BY <3>3, <4>1
      <4> QED BY <1>3, <4>2
    <3>5. Defined(g, n + 1)
      BY <3>4
    <3>6. n + 1 \in Nat
      OBVIOUS
    <3> HIDE DEF g, Defined
    <3> QED BY <3>5, <3>6
  <2>3. Nat \subseteq Definable
    <3> HIDE DEF Definable
    <3> QED BY <2>1, <2>2, SetInduction
  <2> QED BY <1>2, <2>3
<1>5. \A i \in 0..Len(s) : kept[i] = Body(kept, i)
  <2> HIDE DEF kept, Body
  <2> QED BY <1>4
<1> HIDE DEF kept
<1>6. 0 \in Typed
  <2>1. 0 \in 0..Len(s) /\ Body(kept, 0) = <<>>
    BY <1>2
  <2>2. kept[0] = <<>>
    BY <1>5, <2>1
  <2>3. <<>> \in Seq(T \cap S)
    BY EmptySeq
  <2> QED BY <2>2, <2>3
<1>7. ASSUME NEW n \in Nat, n \in Typed PROVE n + 1 \in Typed
  <2>1. SUFFICES ASSUME n + 1 <= Len(s) PROVE kept[n + 1] \in Seq(T \cap S)
    OBVIOUS
  <2>2. kept[n] \in Seq(T \cap S) /\ s[n + 1] \in T
    BY <1>2, <1>7, <2>1
  <2>3. n + 1 \in 0..Len(s) /\ n + 1 # 0 /\ (n + 1) - 1 = n
    BY <1>2, <2>1
  <2>4. kept[n + 1] = IF s[n + 1] \in S THEN Append(kept[n], s[n + 1]) ELSE kept[n]
    BY <1>5, <2>3
  <2> QED BY <2>2, <2>4
<1>8. Nat \subseteq Typed
  <2> HIDE DEF Typed
  <2> QED BY <1>6, <1>7, SetInduction
<1> QED BY <1>1, <1>2, <1>8
\* The end of a sequence.
LEMMA LastOfProperties ==
    ASSUME NEW T, NEW s \in Seq(T), NEW n \in Nat
    PROVE  /\ LastOf(n, s) \in Seq(T)
           /\ Len(LastOf(n, s)) = Lesser(n, Len(s))
           /\ \A i \in 1..Lesser(n, Len(s)) : LastOf(n, s)[i] = s[Len(s) - Lesser(n, Len(s)) + i]
<1> DEFINE m == Len(s) - Lesser(n, Len(s)) + 1
<1>1. Len(s) \in Nat /\ Lesser(n, Len(s)) \in 0..Len(s)
  BY DEF Lesser
<1>2. m \in 1..(Len(s) + 1) /\ Len(s) - m + 1 = Lesser(n, Len(s))
  BY <1>1
<1> HIDE DEF m
<1>3. /\ SubSeq(s, m, Len(s)) \in Seq(T)
      /\ Len(SubSeq(s, m, Len(s))) = IF m <= Len(s) THEN Len(s) - m + 1 ELSE 0
      /\ \A i \in 1..(Len(s) - m + 1) : SubSeq(s, m, Len(s))[i] = s[m + i - 1]
  BY <1>1, <1>2, SubSeqProperties
<1>4. LastOf(n, s) = SubSeq(s, m, Len(s))
  BY DEF LastOf, m
<1>5. \A i \in 1..Lesser(n, Len(s)) : m + i - 1 = Len(s) - Lesser(n, Len(s)) + i
  BY <1>1 DEF m
<1> QED BY <1>1, <1>2, <1>3, <1>4, <1>5

\* A part of the end is the end.
LEMMA EndOf ==
    ASSUME NEW T, NEW s \in Seq(T), NEW t \in Seq(T)
    PROVE  t = LastOf(Len(t), s) <=>
             /\ Len(t) <= Len(s)
             /\ \A i \in 1..Len(t) : t[i] = s[Len(s) - Len(t) + i]
<1>1. Len(t) \in Nat /\ Len(s) \in Nat
  OBVIOUS
<1> DEFINE e == LastOf(Len(t), s)
<1>2. /\ e \in Seq(T) /\ Len(e) = Lesser(Len(t), Len(s))
      /\ \A i \in 1..Lesser(Len(t), Len(s)) : e[i] = s[Len(s) - Lesser(Len(t), Len(s)) + i]
  BY <1>1, LastOfProperties
<1> HIDE DEF e
<1>3. Len(t) <= Len(s) => Lesser(Len(t), Len(s)) = Len(t)
  BY <1>1 DEF Lesser
<1>4. t = e => Len(t) <= Len(s)
  BY <1>1, <1>2 DEF Lesser
<1>5. ASSUME Len(t) <= Len(s), \A i \in 1..Len(t) : t[i] = s[Len(s) - Len(t) + i]
      PROVE  t = e
  <2>1. Len(e) = Len(t) /\ \A i \in 1..Len(t) : e[i] = t[i]
    BY <1>2, <1>3, <1>5
  <2> QED BY <1>2, <2>1, SeqEqual
<1>6. t = e => \A i \in 1..Len(t) : t[i] = s[Len(s) - Len(t) + i]
  BY <1>2, <1>3, <1>4
<1> QED BY <1>4, <1>5, <1>6 DEF e

Bound == Lesser(HistorySize, StoredSize)

\* Recent, in terms of elements
LEMMA RecentMeans ==
    ASSUME NEW s \in Seq(Requests), NEW t \in Seq(Requests)
    PROVE  Recent(t, s) <=>
             /\ Len(t) <= Len(s)
             /\ Len(t) >= Bound \/ Len(t) >= Len(s)
             /\ \A i \in 1..Len(t) : t[i] = s[Len(s) - Len(t) + i]
<1>1. Len(t) \in Nat /\ Len(s) \in Nat /\ Bound \in Nat
  BY ConversationAssumption DEF Bound, Lesser
<1>2. Len(t) >= Lesser(Bound, Len(s)) <=> Len(t) >= Bound \/ Len(t) >= Len(s)
  BY <1>1 DEF Lesser
<1> QED BY <1>2, EndOf DEF Recent, Bound

LEMMA RecentItself == ASSUME NEW s \in Seq(Requests) PROVE Recent(s, s)
BY RecentMeans

\* Trimming the end of what was said leaves the end of it.
LEMMA RecentTrimmed ==
    ASSUME NEW s \in Seq(Requests), NEW t \in Seq(Requests), Recent(t, s),
           NEW n \in Nat, n >= Bound
    PROVE  Recent(LastOf(n, t), s)
<1> DEFINE e == LastOf(n, t)
<1>1. /\ Len(t) <= Len(s) /\ Len(t) \in Nat /\ Len(s) \in Nat
      /\ Len(t) >= Bound \/ Len(t) >= Len(s)
      /\ \A i \in 1..Len(t) : t[i] = s[Len(s) - Len(t) + i]
  BY RecentMeans
<1>2. /\ e \in Seq(Requests) /\ Len(e) = Lesser(n, Len(t))
      /\ \A i \in 1..Lesser(n, Len(t)) : e[i] = t[Len(t) - Lesser(n, Len(t)) + i]
  BY LastOfProperties
<1> HIDE DEF e
<1>3. Bound \in Nat
  BY ConversationAssumption DEF Bound, Lesser
<1>4. Len(e) <= Len(s) /\ (Len(e) >= Bound \/ Len(e) >= Len(s))
  BY <1>1, <1>2, <1>3 DEF Lesser
<1>5. ASSUME NEW i \in 1..Len(e) PROVE e[i] = s[Len(s) - Len(e) + i]
  <2> DEFINE j == Len(t) - Len(e) + i
  <2>1. Len(e) \in 0..Len(t)
    BY <1>1, <1>2 DEF Lesser
  <2>2. j \in 1..Len(t) /\ Len(s) - Len(t) + j = Len(s) - Len(e) + i
    BY <1>1, <2>1
  <2>3. e[i] = t[j]
    BY <1>2
  <2> HIDE DEF j
  <2> QED BY <1>1, <2>2, <2>3
<1> QED BY <1>2, <1>4, <1>5, RecentMeans DEF e

\* What both have added is added at the end.
LEMMA RecentAppended ==
    ASSUME NEW s \in Seq(Requests), NEW t \in Seq(Requests), Recent(t, s), NEW r \in Requests
    PROVE  Recent(Append(t, r), Append(s, r))
<1> DEFINE u == Append(t, r)
           v == Append(s, r)
<1>1. /\ Len(t) <= Len(s) /\ Len(t) \in Nat /\ Len(s) \in Nat
      /\ Len(t) >= Bound \/ Len(t) >= Len(s)
      /\ \A i \in 1..Len(t) : t[i] = s[Len(s) - Len(t) + i]
  BY RecentMeans
<1>2. /\ u \in Seq(Requests) /\ Len(u) = Len(t) + 1
      /\ \A i \in 1..Len(t) : u[i] = t[i]
      /\ u[Len(t) + 1] = r
  BY AppendProperties
<1>3. /\ v \in Seq(Requests) /\ Len(v) = Len(s) + 1
      /\ \A i \in 1..Len(s) : v[i] = s[i]
      /\ v[Len(s) + 1] = r
  BY AppendProperties
<1> HIDE DEF u, v
<1>4. Bound \in Nat
  BY ConversationAssumption DEF Bound, Lesser
<1>5. Len(u) <= Len(v) /\ (Len(u) >= Bound \/ Len(u) >= Len(v))
  BY <1>1, <1>2, <1>3, <1>4
<1>6. ASSUME NEW i \in 1..Len(u) PROVE u[i] = v[Len(v) - Len(u) + i]
  <2> DEFINE j == Len(s) - Len(t) + i
  <2>1. Len(v) - Len(u) + i = j
    BY <1>1, <1>2, <1>3
  <2>2. CASE i \in 1..Len(t)
    <3>1. j \in 1..Len(s)
      BY <1>1, <2>2
    <3> HIDE DEF j
    <3>2. u[i] = t[i] /\ v[j] = s[j]
      BY <1>2, <1>3, <2>2, <3>1
    <3> QED BY <1>1, <2>1, <2>2, <3>2 DEF j
  <2>3. CASE i = Len(t) + 1
    BY <1>1, <1>2, <1>3, <2>1, <2>3
  <2> QED BY <1>1, <1>2, <2>2, <2>3
<1> QED BY <1>2, <1>3, <1>5, <1>6, RecentMeans DEF u, v

LEMMA RecentElements ==
    ASSUME NEW s \in Seq(Requests), NEW t \in Seq(Requests), Recent(t, s)
    PROVE  Elements(t) \subseteq Elements(s)
<1>1. /\ Len(t) <= Len(s) /\ Len(t) \in Nat /\ Len(s) \in Nat
      /\ \A i \in 1..Len(t) : t[i] = s[Len(s) - Len(t) + i]
  BY RecentMeans
<1>2. \A i \in 1..Len(t) : Len(s) - Len(t) + i \in 1..Len(s)
  BY <1>1
<1> QED BY <1>1, <1>2 DEF Elements

-----------------------------------------------------------------------------
(* The inductive invariant *)

\* the calls that wait for the database
Ops == [chat : Chats, by : Requests \cup Commands, rows : Seq(Requests)]
CommandPCs == {"new", "clear", "told", "failed", "switched"}
InChatPCs == {"gate", "queued"} \cup Critical

Asking ==
    /\ pc \in [Requests -> PCs]
    /\ chat \in [Requests -> Chats \cup {None}]
    /\ lock \in [Requests -> Requests \cup {None}]
    /\ context \in [Requests -> Seq(Requests)]
    /\ \A r \in Requests :
          /\ pc[r] \in InChatPCs => chat[r] \in Chats
          /\ pc[r] \in InChatPCs \ {"gate"} => lock[r] \in Requests
Tables ==
    /\ table \in [Chats -> Requests \cup {None}]
    /\ waiting \in [Requests -> Seq(Requests)]
    /\ seen \in Seq(Chats) /\ disabled \subseteq Chats
Remembering ==
    /\ history \in [Chats -> Seq(Requests)] /\ loaded \subseteq Chats
    /\ \A c \in Chats : Len(history[c]) <= HistorySize
Storing ==
    /\ stored \in [Chats -> Seq(Requests)] /\ dbQueue \in Seq(Ops)
    /\ \A c \in Chats : Len(stored[c]) <= StoredSize
    /\ \A i \in 1..Len(dbQueue) : Len(dbQueue[i].rows) <= StoredSize
Commanding ==
    /\ command \in [Commands -> [pc : CommandPCs, chat : Chats \cup {None}]]
    /\ \A k \in Commands : command[k].pc \in {"clear", "told"} => command[k].chat \in Chats
Telling ==
    /\ log \in [Chats -> Seq(Requests)]
    /\ dropped \subseteq Chats /\ tainted \subseteq Chats

Typed == Asking /\ Tables /\ Remembering /\ Storing /\ Commanding /\ Telling /\ restarts \in 0..MaxRestarts

\* No lock object is known before its request has been admitted.
Unmade(l) ==
    pc[l] \in {"new", "gate"} =>
        /\ waiting[l] = <<>>
        /\ \A c \in Chats : table[c] # l
        /\ \A r \in Requests : lock[r] # l

\* Who waits for a lock is among its waiters; who holds one is alone.
Listed(r) == pc[r] = "queued" => \E i \in 1..Len(waiting[lock[r]]) : waiting[lock[r]][i] = r
Alone(q, r) == pc[q] \in Critical /\ pc[r] \in Critical /\ lock[q] = lock[r] => q = r

\* the lock that is waited for or held is the one of the table
Current(r) ==
    pc[r] \in InChatPCs \ {"gate"} /\ chat[r] \notin tainted => table[chat[r]] = lock[r]

Locking ==
    \A r \in Requests :
        Unmade(r) /\ Listed(r) /\ Current(r) /\ \A q \in Requests : Alone(q, r)

\* A call to the database is that of a request that saves, or of a command.
Owned(op) ==
    \/ op.by \in Requests /\ pc[op.by] = "save" /\ chat[op.by] = op.chat
    \/ /\ op.by \in Commands /\ op.rows = <<>>
       /\ command[op.by].pc = "clear" /\ command[op.by].chat = op.chat
Owning ==
    /\ \A i \in 1..Len(dbQueue) : Owned(dbQueue[i])
    /\ \A i, j \in 1..Len(dbQueue) : dbQueue[i].by = dbQueue[j].by => i = j

Pending(c) == \E i \in 1..Len(dbQueue) : dbQueue[i].chat = c

\* while a command clears c nothing is said
Cleared(c) ==
    Clearing(c) => log[c] = <<>> /\ \A r \in Requests : chat[r] = c => pc[r] \notin Critical

\* what is said is in memory, queued and in the database, as far as they keep it
Remembered(c) ==
    IF c \in loaded THEN Recent(history[c], log[c]) ELSE history[c] = <<>>
Queued(c) ==
    \A i \in 1..Len(dbQueue) : dbQueue[i].chat = c => Recent(dbQueue[i].rows, log[c])
Saved(c) ==
    /\ c \notin dropped /\ ~Pending(c) => Recent(stored[c], log[c])
    /\ ~Clearing(c) => Elements(stored[c]) \subseteq Elements(log[c])

\* what a request that holds the lock has read
Informed(r) ==
    /\ pc[r] \in {"read", "extend"} => chat[r] \notin loaded
    /\ pc[r] = "extend" => Recent(context[r], log[chat[r]])
    /\ pc[r] \in {"ask", "generate", "error", "save"} => chat[r] \in loaded
    /\ pc[r] \in {"ask", "generate"} => context[r] = history[chat[r]]

Intact ==
    /\ \A c \in dropped : stored[c] = <<>>
    /\ \A c \in Chats \ tainted : Cleared(c) /\ Remembered(c) /\ Queued(c) /\ Saved(c)
    /\ \A r \in Requests : chat[r] \notin tainted => Informed(r)

IndInv == Typed /\ Locking /\ Owning /\ Intact

\* The line at a lock: requests that wait for it, each of them once.
InLine(l) ==
    /\ \A i \in 1..Len(waiting[l]) :
          pc[waiting[l][i]] = "queued" /\ lock[waiting[l][i]] = l
    /\ \A i, j \in 1..Len(waiting[l]) : waiting[l][i] = waiting[l][j] => i = j
Lining == \A l \in Requests : InLine(l)

\* Whoever waits for the database has a call there.
Calling(k) == \E i \in 1..Len(dbQueue) : dbQueue[i].by = k
Served ==
    /\ \A r \in Requests : pc[r] = "save" => Calling(r)
    /\ \A k \in Commands : command[k].pc = "clear" => Calling(k)

-----------------------------------------------------------------------------
(* Steps of one request *)

\* only r's variables change
Others(r) ==
    \A q \in Requests \ {r} :
        /\ pc'[q] = pc[q] /\ chat'[q] = chat[q]
        /\ lock'[q] = lock[q] /\ context'[q] = context[q]

LEMMA Ended ==
    ASSUME Asking, NEW r \in Requests, End(r)
    PROVE  /\ Asking' /\ Others(r)
           /\ pc'[r] = "done" /\ chat'[r] = None /\ lock'[r] = None
<1>1. "done" \in PCs /\ "done" \notin InChatPCs
  BY DEF PCs, InChatPCs, Critical
<1>2. <<>> \in Seq(Requests)
  BY EmptySeq
<1>3. /\ pc'[r] = "done" /\ chat'[r] = None /\ lock'[r] = None /\ context'[r] = <<>>
      /\ Others(r)
  BY DEF End, Goto, Asking, Others
<1> QED BY <1>1, <1>2, <1>3 DEF End, Goto, Asking, Others

LEMMA Went ==
    ASSUME Asking, NEW r \in Requests, NEW p \in PCs, Goto(r, p), UNCHANGED <<chat, lock>>,
           p \in InChatPCs => pc[r] \in InChatPCs,
           p \in InChatPCs \ {"gate"} => pc[r] \in InChatPCs \ {"gate"},
           \/ UNCHANGED context
           \/ \E x \in Seq(Requests) : context' = [context EXCEPT ![r] = x]
    PROVE  /\ Asking' /\ Others(r)
           /\ pc'[r] = p /\ chat'[r] = chat[r] /\ lock'[r] = lock[r]
<1>1. pc' \in [Requests -> PCs] /\ pc'[r] = p
  BY DEF Goto, Asking
<1>2. context' \in [Requests -> Seq(Requests)] /\ Others(r)
  <2>1. CASE UNCHANGED context
    BY <2>1 DEF Goto, Asking, Others
  <2>2. ASSUME NEW x \in Seq(Requests), context' = [context EXCEPT ![r] = x]
        PROVE  context' \in [Requests -> Seq(Requests)] /\ Others(r)
    BY <2>2 DEF Goto, Asking, Others
  <2> QED BY <2>1, <2>2
<1> QED BY <1>1, <1>2 DEF Asking, Others

LEMMA Entered ==
    ASSUME Asking, Remembering, NEW r \in Requests, pc[r] \in {"gate", "queued"},
           NEW l \in Requests, Enter(r, l), UNCHANGED chat
    PROVE  /\ Asking' /\ Others(r)
           /\ chat'[r] = chat[r] /\ lock'[r] = l
           /\ chat[r] \in loaded => pc'[r] = "ask" /\ context'[r] = history[chat[r]]
           /\ chat[r] \notin loaded => pc'[r] = "read"
           /\ tainted' = tainted \cup IF Clearing(chat[r]) THEN {chat[r]} ELSE {}
<1>1. {"ask", "read"} \subseteq PCs
  BY DEF PCs, Critical
<1>2. chat[r] \in Chats
  BY DEF Asking, InChatPCs
<1>3. /\ pc' \in [Requests -> PCs] /\ lock' \in [Requests -> Requests \cup {None}]
      /\ context' \in [Requests -> Seq(Requests)]
  BY <1>1, <1>2 DEF Enter, Goto, Asking, Remembering
<1>4. /\ lock'[r] = l
      /\ chat[r] \in loaded => pc'[r] = "ask" /\ context'[r] = history[chat[r]]
      /\ chat[r] \notin loaded => pc'[r] = "read"
      /\ Others(r)
  BY DEF Enter, Goto, Asking, Others
<1>5. Asking'
  BY <1>2, <1>3, <1>4 DEF Asking, Others
<1>6. tainted' = tainted \cup IF Clearing(chat[r]) THEN {chat[r]} ELSE {}
  BY DEF Enter
<1> QED BY <1>4, <1>5, <1>6

LEMMA Received ==
    ASSUME Asking, NEW r \in Requests, NEW c \in Chats, Receive(r, c)
    PROVE  /\ Asking' /\ Others(r)
           /\ pc'[r] \in {"gate", "done"} /\ lock'[r] = lock[r]
<1>1. {"gate", "done"} \subseteq PCs /\ "done" \notin InChatPCs
  BY DEF PCs, InChatPCs, Critical
<1>2. /\ pc' \in [Requests -> PCs] /\ chat' \in [Requests -> Chats \cup {None}]
      /\ UNCHANGED <<lock, context>>
  BY <1>1 DEF Receive, Goto, Asking
<1>3. \/ pc'[r] = "gate" /\ chat'[r] = c
      \/ pc'[r] = "done"
  BY DEF Receive, Goto, Asking
<1>4. Others(r)
  BY DEF Receive, Goto, Asking, Others
<1>5. ASSUME NEW q \in Requests
      PROVE  /\ pc'[q] \in InChatPCs => chat'[q] \in Chats
             /\ pc'[q] \in InChatPCs \ {"gate"} => lock'[q] \in Requests
  BY <1>1, <1>2, <1>3, <1>4 DEF Asking, Others
<1> QED BY <1>2, <1>3, <1>4, <1>5 DEF Asking

LEMMA Waits ==
    ASSUME Asking, Tables, NEW r \in Requests, Admit(r), pc'[r] = "queued"
    PROVE  /\ Asking' /\ Others(r) /\ chat'[r] = chat[r]
           /\ UNCHANGED tainted
           /\ lock'[r] = IF table[chat[r]] = None THEN r ELSE table[chat[r]]
           /\ waiting' = [waiting EXCEPT ![lock'[r]] = Append(@, r)]
<1> DEFINE l == IF table[chat[r]] = None THEN r ELSE table[chat[r]]
<1>1. chat[r] \in Chats /\ l \in Requests /\ UNCHANGED chat
  BY DEF Admit, Asking, Tables, InChatPCs
<1> HIDE DEF l
<1>2. /\ waiting' = [waiting EXCEPT ![l] = Append(@, r)] /\ lock' = [lock EXCEPT ![r] = l]
      /\ Goto(r, "queued") /\ UNCHANGED <<context, tainted>>
  <2>1. ~Enter(r, l)
    BY DEF Enter, Goto, Asking
  <2> QED BY <2>1 DEF Admit, l
<1>3. "queued" \in PCs
  BY DEF PCs
<1>4. /\ pc' \in [Requests -> PCs] /\ lock' \in [Requests -> Requests \cup {None}]
      /\ pc'[r] = "queued" /\ lock'[r] = l /\ Others(r)
  BY <1>1, <1>2, <1>3 DEF Goto, Asking, Others
<1>5. Asking'
  BY <1>1, <1>2, <1>4 DEF Asking, Others
<1> QED BY <1>1, <1>2, <1>4, <1>5 DEF l

-----------------------------------------------------------------------------
(* Types *)

LEMMA Untouched ==
    /\ Tables /\ UNCHANGED tableVars => Tables'
    /\ Remembering /\ UNCHANGED memoryVars => Remembering'
    /\ Storing /\ UNCHANGED dbVars => Storing'
    /\ Commanding /\ UNCHANGED command => Commanding'
    /\ Asking /\ UNCHANGED <<pc, chat, lock, context>> => Asking'
    /\ Telling /\ UNCHANGED <<log, dropped>> /\ tainted' = tainted => Telling'
<1>1. Tables /\ UNCHANGED tableVars => Tables'
  BY DEF Tables, tableVars
<1>2. Remembering /\ UNCHANGED memoryVars => Remembering'
  BY DEF Remembering, memoryVars
<1>3. Storing /\ UNCHANGED dbVars => Storing'
  BY DEF Storing, dbVars
<1>4. Commanding /\ UNCHANGED command => Commanding'
  BY DEF Commanding
<1>5. Asking /\ UNCHANGED <<pc, chat, lock, context>> => Asking'
  BY DEF Asking
<1>6. Telling /\ UNCHANGED <<log, dropped>> /\ tainted' = tainted => Telling'
  BY DEF Telling
<1> QED BY <1>1, <1>2, <1>3, <1>4, <1>5, <1>6

\* the end of a sequence of requests, as long as allowed
LEMMA TrimmedTypes ==
    ASSUME NEW s \in Seq(Requests), NEW n \in Nat
    PROVE  LastOf(n, s) \in Seq(Requests) /\ Len(LastOf(n, s)) <= n
<1>1. LastOf(n, s) \in Seq(Requests) /\ Len(LastOf(n, s)) = Lesser(n, Len(s))
  BY LastOfProperties
<1>2. Len(s) \in Nat
  OBVIOUS
<1> QED BY <1>1, <1>2 DEF Lesser

LEMMA TouchTypes ==
    ASSUME Tables, Remembering, Telling, NEW c \in Chats, NEW gone \in SUBSET Chats,
           Touch(c, gone), UNCHANGED <<waiting, log, dropped>>
    PROVE  Tables' /\ Remembering' /\ Telling'
<1>1. seen' \in Seq(Chats)
  <2>1. Without(seen, {c} \cup gone) \in Seq(Chats)
    <3>1. Kept(seen, Chats \ ({c} \cup gone)) \in Seq(Chats \cap (Chats \ ({c} \cup gone)))
      BY KeptTypes DEF Tables
    <3>2. Chats \cap (Chats \ ({c} \cup gone)) \subseteq Chats
      OBVIOUS
    <3> QED BY <3>1, <3>2, SeqMonotonic DEF Without
  <2> QED BY <2>1, AppendProperties DEF Touch
<1>2. Tables'
  BY <1>1 DEF Touch, Tables
<1>3. Remembering'
  <2>1. <<>> \in Seq(Requests) /\ Len(<<>>) = 0
    BY EmptySeq
  <2> QED BY <2>1, ConversationAssumption DEF Touch, Remembering
<1>4. Telling'
  BY DEF Touch, Telling
<1> QED BY <1>2, <1>3, <1>4

\* A call to the database is queued.
LEMMA Calls ==
    ASSUME Storing, NEW op \in Ops, Len(op.rows) <= StoredSize,
           dbQueue' = Append(dbQueue, op), UNCHANGED stored
    PROVE  Storing'
<1>1. /\ dbQueue' \in Seq(Ops) /\ Len(dbQueue') = Len(dbQueue) + 1
      /\ \A i \in 1..Len(dbQueue) : dbQueue'[i] = dbQueue[i]
      /\ dbQueue'[Len(dbQueue) + 1] = op
  BY AppendProperties DEF Storing
<1>2. ASSUME NEW i \in 1..Len(dbQueue') PROVE Len(dbQueue'[i].rows) <= StoredSize
  <2>1. i \in 1..Len(dbQueue) \/ i = Len(dbQueue) + 1
    BY <1>1, LenProperties DEF Storing
  <2> QED BY <1>1, <2>1 DEF Storing
<1> QED BY <1>1, <1>2 DEF Storing

\* The first call is taken from the queue.
LEMMA Called ==
    ASSUME dbQueue \in Seq(Ops), dbQueue # <<>>, dbQueue' = Tail(dbQueue)
    PROVE  /\ Head(dbQueue) \in Ops /\ Head(dbQueue) = dbQueue[1] /\ 1 \in 1..Len(dbQueue)
           /\ dbQueue' \in Seq(Ops) /\ Len(dbQueue') = Len(dbQueue) - 1
           /\ Len(dbQueue) \in Nat
           /\ \A i \in 1..Len(dbQueue') : i + 1 \in 1..Len(dbQueue) /\ dbQueue'[i] = dbQueue[i + 1]
<1>1. /\ Head(dbQueue) \in Ops /\ dbQueue' \in Seq(Ops)
      /\ Len(dbQueue') = Len(dbQueue) - 1
      /\ \A i \in 1..Len(dbQueue') : dbQueue'[i] = dbQueue[i + 1]
  BY HeadTailProperties
<1>2. Len(dbQueue) \in Nat /\ Len(dbQueue) # 0
  BY LenProperties, EmptySeq
<1>3. Head(dbQueue) = dbQueue[1]
  OBVIOUS
<1> QED BY <1>1, <1>2, <1>3

\* The steps of a request that leave its chat's tables and rows alone.
Passes(r) ==
    TurnAway(r) \/ TakeSlot(r) \/ Failed(r) \/ Apologise(r)

LEMMA PassTypes ==
    ASSUME Typed, NEW r \in Requests, Passes(r)
    PROVE  /\ Typed' /\ Others(r)
           /\ UNCHANGED <<tableVars, memoryVars, dbVars, command, restarts, ghosts>>
           /\ \/ pc'[r] = "done" /\ chat'[r] = None /\ lock'[r] = None /\ pc[r] # "save"
              \/ /\ <<pc[r], pc'[r]>> \in {<<"ask", "generate">>, <<"generate", "error">>}
                 /\ chat'[r] = chat[r] /\ lock'[r] = lock[r] /\ context'[r] = context[r]
<1>1. UNCHANGED <<tableVars, memoryVars, dbVars, command, restarts, ghosts>>
  BY DEF Passes, TurnAway, TakeSlot, Failed, Apologise
<1>2. {"generate", "error"} \subseteq PCs \cap (InChatPCs \ {"gate"})
  BY DEF PCs, InChatPCs, Critical
<1>3. /\ Asking' /\ Others(r)
      /\ \/ pc'[r] = "done" /\ chat'[r] = None /\ lock'[r] = None /\ pc[r] # "save"
         \/ /\ <<pc[r], pc'[r]>> \in {<<"ask", "generate">>, <<"generate", "error">>}
            /\ chat'[r] = chat[r] /\ lock'[r] = lock[r] /\ context'[r] = context[r]
  <2>1. CASE TurnAway(r) \/ Apologise(r)
    BY <2>1, Ended DEF TurnAway, Apologise, Typed
  <2>2. CASE TakeSlot(r)
    <3>1. "ask" \in InChatPCs \ {"gate"} /\ pc[r] = "ask"
      BY <2>2 DEF InChatPCs, Critical, TakeSlot
    <3>2. Goto(r, "generate") /\ UNCHANGED <<chat, lock, context>>
      BY <2>2 DEF TakeSlot
    <3>3. Asking' /\ Others(r) /\ pc'[r] = "generate"
      BY <1>2, <3>1, <3>2, Went DEF Typed
    <3> QED BY <3>1, <3>2, <3>3
  <2>3. CASE Failed(r)
    <3>1. pc[r] = "generate" /\ Goto(r, "error") /\ UNCHANGED <<chat, lock, context>>
      BY <2>3 DEF Failed
    <3>2. Asking' /\ Others(r) /\ pc'[r] = "error"
      BY <1>2, <3>1, Went DEF Typed
    <3> QED BY <3>1, <3>2
  <2> QED BY <2>1, <2>2, <2>3 DEF Passes
<1>4. Typed'
  BY <1>1, <1>3, Untouched DEF Typed, ghosts
<1> QED BY <1>1, <1>3, <1>4

LEMMA ReadTypes ==
    ASSUME Typed, NEW r \in Requests, Read(r)
    PROVE  /\ Typed' /\ Others(r) /\ pc[r] = "read"
           /\ UNCHANGED <<tableVars, memoryVars, dbVars, command, restarts, dropped, tainted>>
           /\ \/ pc'[r] = "done" /\ chat'[r] = None /\ lock'[r] = None /\ UNCHANGED log
              \/ /\ pc'[r] = "extend" /\ chat'[r] = chat[r] /\ lock'[r] = lock[r]
                 /\ context'[r] = stored[chat[r]]
                 /\ chat[r] \in dropped => log' = [log EXCEPT ![chat[r]] = <<>>]
                 /\ chat[r] \notin dropped => UNCHANGED log
<1>1. UNCHANGED <<tableVars, memoryVars, dbVars, command, restarts, dropped, tainted>>
  BY DEF Read
<1>2. "extend" \in PCs /\ {"read", "extend"} \subseteq InChatPCs \ {"gate"}
  BY DEF PCs, InChatPCs, Critical
<1>3. chat[r] \in Chats /\ stored[chat[r]] \in Seq(Requests) /\ pc[r] = "read"
  BY <1>2 DEF Read, Typed, Asking, Storing
<1>4. /\ Asking' /\ Others(r)
      /\ \/ pc'[r] = "done" /\ chat'[r] = None /\ lock'[r] = None /\ UNCHANGED log
         \/ /\ pc'[r] = "extend" /\ chat'[r] = chat[r] /\ lock'[r] = lock[r]
            /\ context'[r] = stored[chat[r]]
            /\ chat[r] \in dropped => log' = [log EXCEPT ![chat[r]] = <<>>]
            /\ chat[r] \notin dropped => UNCHANGED log
  <2>1. CASE End(r) /\ UNCHANGED log
    BY <2>1, Ended DEF Typed
  <2>2. CASE /\ Goto(r, "extend") /\ context' = [context EXCEPT ![r] = stored[chat[r]]]
             /\ log' = IF chat[r] \in dropped THEN [log EXCEPT ![chat[r]] = <<>>] ELSE log
             /\ UNCHANGED <<chat, lock>>
    <3>1. Asking' /\ Others(r) /\ pc'[r] = "extend" /\ chat'[r] = chat[r] /\ lock'[r] = lock[r]
      BY <1>2, <1>3, <2>2, Went DEF Typed
    <3>2. context'[r] = stored[chat[r]]
      BY <2>2 DEF Typed, Asking
    <3> QED BY <2>2, <3>1, <3>2
  <2> QED BY <2>1, <2>2 DEF Read
<1>5. Telling'
  <2>1. <<>> \in Seq(Requests)
    BY EmptySeq
  <2>2. log' = log \/ log' = [log EXCEPT ![chat[r]] = <<>>]
    BY <1>4
  <2> QED BY <1>1, <2>1, <2>2 DEF Typed, Telling
<1>6. Typed'
  BY <1>1, <1>4, <1>5, Untouched DEF Typed
<1> QED BY <1>1, <1>3, <1>4, <1>6

LEMMA ExtendTypes ==
    ASSUME Typed, NEW r \in Requests, Extend(r)
    PROVE  /\ Typed' /\ Others(r)
           /\ UNCHANGED <<tableVars, dbVars, command, restarts, ghosts>>
           /\ pc[r] = "extend" /\ pc'[r] = "ask" /\ chat'[r] = chat[r] /\ lock'[r] = lock[r]
           /\ history' = [history EXCEPT ![chat[r]] =
                            LastOf(HistorySize, history[chat[r]] \o context[r])]
           /\ loaded' = loaded \cup {chat[r]}
           /\ chat[r] \in Chats /\ context'[r] = history'[chat[r]]
<1> DEFINE c == chat[r]
           h == LastOf(HistorySize, history[c] \o context[r])
<1>1. "ask" \in PCs /\ {"ask", "extend"} \subseteq InChatPCs \ {"gate"}
  BY DEF PCs, InChatPCs, Critical
<1>2. c \in Chats /\ history[c] \in Seq(Requests) /\ context[r] \in Seq(Requests)
  BY <1>1 DEF Extend, Typed, Asking, Remembering
<1>3. h \in Seq(Requests) /\ Len(h) <= HistorySize
  BY <1>2, ConversationAssumption, ConcatProperties, TrimmedTypes
<1>4. history' = [history EXCEPT ![c] = h] /\ loaded' = loaded \cup {c}
  BY DEF Extend
<1> HIDE DEF h
<1>5. history'[c] = h
  BY <1>2, <1>4 DEF Typed, Remembering
<1>6. Remembering'
  BY <1>2, <1>3, <1>4 DEF Typed, Remembering
<1>7. Goto(r, "ask") /\ context' = [context EXCEPT ![r] = h] /\ UNCHANGED <<chat, lock>>
  BY <1>5 DEF Extend
<1>8. /\ Asking' /\ Others(r)
      /\ pc'[r] = "ask" /\ chat'[r] = c /\ lock'[r] = lock[r]
  BY <1>1, <1>3, <1>7, Went DEF Typed, Extend
<1>9. context'[r] = h
  BY <1>7 DEF Typed, Asking
<1>10. UNCHANGED <<tableVars, dbVars, command, restarts, ghosts>> /\ pc[r] = "extend"
  BY DEF Extend
<1>11. Typed'
  BY <1>6, <1>8, <1>10, Untouched DEF Typed, ghosts
<1> QED BY <1>2, <1>4, <1>5, <1>8, <1>9, <1>10, <1>11 DEF h

LEMMA AnsweredTypes ==
    ASSUME Typed, NEW r \in Requests, Answered(r)
    PROVE  LET c == chat[r] IN
           /\ Typed' /\ Others(r)
           /\ UNCHANGED <<tableVars, loaded, stored, command, restarts, dropped, tainted>>
           /\ pc[r] = "generate" /\ pc'[r] = "save" /\ chat'[r] = c /\ lock'[r] = lock[r]
           /\ c \in Chats
           /\ history' = [history EXCEPT ![c] = LastOf(HistorySize, Append(history[c], r))]
           /\ log' = [log EXCEPT ![c] = Append(log[c], r)]
           /\ dbQueue' = Append(dbQueue,
                           [chat |-> c, by |-> r, rows |-> LastOf(StoredSize, history'[c])])
<1> DEFINE c == chat[r]
           h == LastOf(HistorySize, Append(history[c], r))
           op == [chat |-> c, by |-> r, rows |-> LastOf(StoredSize, h)]
<1>1. "save" \in PCs /\ {"save", "generate"} \subseteq InChatPCs \ {"gate"}
  BY DEF PCs, InChatPCs, Critical
<1>2. c \in Chats /\ history[c] \in Seq(Requests) /\ log[c] \in Seq(Requests)
  BY <1>1 DEF Answered, Typed, Asking, Remembering, Telling
<1>3. h \in Seq(Requests) /\ Len(h) <= HistorySize
  BY <1>2, ConversationAssumption, AppendProperties, TrimmedTypes
<1>4. LastOf(StoredSize, h) \in Seq(Requests) /\ Len(LastOf(StoredSize, h)) <= StoredSize
  BY <1>3, ConversationAssumption, TrimmedTypes
<1>5. history' = [history EXCEPT ![c] = h]
  BY DEF Answered
<1> HIDE DEF h
<1>6. history'[c] = h
  BY <1>2, <1>5 DEF Typed, Remembering
<1>7. dbQueue' = Append(dbQueue, op) /\ log' = [log EXCEPT ![c] = Append(log[c], r)]
  BY <1>6 DEF Answered
<1>8. UNCHANGED <<tableVars, loaded, stored, command, restarts, dropped, tainted>>
      /\ pc[r] = "generate"
  BY DEF Answered
<1>9. Remembering'
  BY <1>2, <1>3, <1>5, <1>8 DEF Typed, Remembering
<1>10. Storing'
  <2>1. op \in Ops /\ Len(op.rows) <= StoredSize
    BY <1>2, <1>4 DEF Ops
  <2> HIDE DEF op
  <2> QED BY <1>7, <1>8, <2>1, Calls DEF Typed
<1>11. Telling'
  <2>1. Append(log[c], r) \in Seq(Requests)
    BY <1>2, AppendProperties
  <2> QED BY <1>7, <1>8, <2>1 DEF Typed, Telling
<1>12. /\ Asking' /\ Others(r)
       /\ pc'[r] = "save" /\ chat'[r] = c /\ lock'[r] = lock[r]
  <2>1. <<>> \in Seq(Requests)
    BY EmptySeq
  <2> QED BY <1>1, <2>1, Went DEF Typed, Answered
<1>13. Typed'
  BY <1>8, <1>9, <1>10, <1>11, <1>12, Untouched DEF Typed
<1> QED BY <1>2, <1>5, <1>6, <1>7, <1>8, <1>12, <1>13 DEF h

LEMMA AdmitTypes ==
    ASSUME Typed, NEW r \in Requests, Admit(r)
    PROVE  LET l == IF table[chat[r]] = None THEN r ELSE table[chat[r]] IN
           /\ Typed' /\ Others(r) /\ pc[r] = "gate" /\ chat[r] \in Chats /\ l \in Requests
           /\ UNCHANGED <<seen, disabled, memoryVars, dbVars, command, restarts, log, dropped>>
           /\ table' = [table EXCEPT ![chat[r]] = l]
           /\ chat'[r] = chat[r] /\ lock'[r] = l
           /\ \/ /\ ~Locked(l) /\ waiting[l] = <<>> /\ UNCHANGED waiting
                 /\ Enter(r, l) /\ UNCHANGED chat
              \/ /\ waiting' = [waiting EXCEPT ![l] = Append(waiting[l], r)]
                 /\ pc'[r] = "queued" /\ UNCHANGED tainted
<1> DEFINE l == IF table[chat[r]] = None THEN r ELSE table[chat[r]]
<1>1. pc[r] = "gate" /\ chat[r] \in Chats /\ l \in Requests
  BY DEF Admit, Typed, Asking, Tables, InChatPCs
<1>2. /\ UNCHANGED <<chat, seen, disabled, memoryVars, dbVars, command, restarts, log, dropped>>
      /\ table' = [table EXCEPT ![chat[r]] = l]
  BY DEF Admit
<1>3. \/ ~Locked(l) /\ waiting[l] = <<>> /\ Enter(r, l) /\ UNCHANGED waiting
      \/ /\ waiting' = [waiting EXCEPT ![l] = Append(waiting[l], r)]
         /\ lock' = [lock EXCEPT ![r] = l] /\ Goto(r, "queued") /\ UNCHANGED <<context, tainted>>
  BY DEF Admit
<1> HIDE DEF l
<1>4. CASE ~Locked(l) /\ waiting[l] = <<>> /\ Enter(r, l) /\ UNCHANGED waiting
  <2>1. /\ Asking' /\ Others(r) /\ chat'[r] = chat[r] /\ lock'[r] = l
        /\ tainted' = tainted \cup IF Clearing(chat[r]) THEN {chat[r]} ELSE {}
    BY <1>1, <1>2, <1>4, Entered DEF Typed
  <2>2. Tables' /\ Telling'
    BY <1>1, <1>2, <1>4, <2>1 DEF Typed, Tables, Telling
  <2>3. Typed'
    BY <1>2, <2>1, <2>2, Untouched DEF Typed
  <2> QED BY <1>1, <1>2, <1>4, <2>1, <2>3 DEF l
<1>5. CASE /\ waiting' = [waiting EXCEPT ![l] = Append(waiting[l], r)]
           /\ lock' = [lock EXCEPT ![r] = l] /\ Goto(r, "queued") /\ UNCHANGED <<context, tainted>>
  <2>1. pc'[r] = "queued" /\ lock'[r] = l
    BY <1>5 DEF Goto, Typed, Asking
  <2>2. Asking' /\ Others(r)
    BY <2>1, Waits DEF Typed
  <2>3. Append(waiting[l], r) \in Seq(Requests)
    BY <1>1, AppendProperties DEF Typed, Tables
  <2>4. Tables'
    BY <1>1, <1>2, <1>5, <2>3 DEF Typed, Tables
  <2>5. Typed'
    BY <1>2, <1>5, <2>2, <2>4, Untouched DEF Typed
  <2> QED BY <1>1, <1>2, <1>5, <2>1, <2>2, <2>5 DEF l
<1> QED BY <1>3, <1>4, <1>5

LEMMA WakeTypes ==
    ASSUME Typed, NEW r \in Requests, Listed(r), Wake(r)
    PROVE  LET l == lock[r] IN
           /\ Typed' /\ Others(r) /\ pc[r] = "queued" /\ chat[r] \in Chats /\ l \in Requests
           /\ UNCHANGED <<table, seen, disabled, memoryVars, dbVars, command, restarts, log, dropped>>
           /\ chat'[r] = chat[r] /\ lock'[r] = l
           /\ Enter(r, l) /\ UNCHANGED chat /\ ~Locked(l)
           /\ waiting[l] # <<>> /\ Head(waiting[l]) = r
           /\ waiting' = [waiting EXCEPT ![l] = Tail(waiting[l])]
<1> DEFINE l == lock[r]
<1>1. /\ pc[r] = "queued" /\ ~Locked(l) /\ Head(waiting[l]) = r
      /\ waiting' = [waiting EXCEPT ![l] = Tail(waiting[l])] /\ Enter(r, l)
      /\ UNCHANGED <<chat, table, seen, disabled, memoryVars, dbVars, command, restarts, log, dropped>>
  BY DEF Wake
<1>2. chat[r] \in Chats /\ l \in Requests
  BY <1>1 DEF Typed, Asking, InChatPCs
<1>3. waiting[l] \in Seq(Requests) /\ waiting[l] # <<>>
  <2>1. waiting[l] \in Seq(Requests) /\ \E i \in 1..Len(waiting[l]) : waiting[l][i] = r
    BY <1>1, <1>2 DEF Listed, Typed, Tables
  <2> QED BY <2>1
<1>4. Tail(waiting[l]) \in Seq(Requests)
  BY <1>3, HeadTailProperties
<1> HIDE DEF l
<1>5. /\ Asking' /\ Others(r) /\ chat'[r] = chat[r] /\ lock'[r] = l
      /\ tainted' = tainted \cup IF Clearing(chat[r]) THEN {chat[r]} ELSE {}
  BY <1>1, <1>2, Entered DEF Typed
<1>6. Tables'
  BY <1>1, <1>2, <1>4 DEF Typed, Tables
<1>7. Telling'
  BY <1>1, <1>2, <1>5 DEF Typed, Telling
<1>8. Typed'
  BY <1>1, <1>5, <1>6, <1>7, Untouched DEF Typed
<1> QED BY <1>1, <1>2, <1>3, <1>5, <1>8 DEF l

LEMMA ReceiveTypes ==
    ASSUME Typed, NEW r \in Requests, NEW c \in Chats, Receive(r, c)
    PROVE  /\ Typed' /\ Others(r) /\ pc[r] = "new" /\ pc'[r] \in {"gate", "done"}
           /\ UNCHANGED <<lock, context, waiting, dbVars, command, restarts, log, dropped>>
<1>1. /\ UNCHANGED <<lock, context, waiting, dbVars, command, restarts, log, dropped>>
      /\ pc[r] = "new"
  BY DEF Receive
<1>2. PICK gone \in SUBSET Chats : Touch(c, gone)
  BY DEF Receive
<1>3. Tables' /\ Remembering' /\ Telling'
  BY <1>1, <1>2, TouchTypes DEF Typed
<1>4. Asking' /\ Others(r) /\ pc'[r] \in {"gate", "done"}
  BY Received DEF Typed
<1>5. Typed'
  BY <1>1, <1>3, <1>4, Untouched DEF Typed
<1> QED BY <1>1, <1>4, <1>5

LEMMA ResetTypes ==
    ASSUME Typed, NEW k \in Commands, NEW c \in Chats, Reset(k, c)
    PROVE  /\ Typed' /\ command[k].pc = "new"
           /\ UNCHANGED <<pc, chat, lock, context, tableVars, stored, restarts, dropped>>
           /\ history' = [history EXCEPT ![c] = <<>>] /\ loaded' = loaded \ {c}
           /\ log' = [log EXCEPT ![c] = <<>>]
           /\ dbQueue' = Append(dbQueue, [chat |-> c, by |-> k, rows |-> <<>>])
           /\ command'[k].pc = "clear" /\ command'[k].chat = c
           /\ \A j \in Commands \ {k} : command'[j] = command[j]
           /\ tainted' = tainted \cup IF Busy(c) # {} THEN {c} ELSE {}
<1> DEFINE op == [chat |-> c, by |-> k, rows |-> <<>>]
<1>1. /\ command[k].pc = "new"
      /\ UNCHANGED <<pc, chat, lock, context, tableVars, stored, restarts, dropped>>
      /\ history' = [history EXCEPT ![c] = <<>>] /\ loaded' = loaded \ {c}
      /\ log' = [log EXCEPT ![c] = <<>>] /\ dbQueue' = Append(dbQueue, op)
      /\ command' = [command EXCEPT ![k] = [pc |-> "clear", chat |-> c]]
      /\ tainted' = tainted \cup IF Busy(c) # {} THEN {c} ELSE {}
  BY DEF Reset
<1>2. <<>> \in Seq(Requests) /\ Len(<<>>) = 0
  BY EmptySeq
<1>3. Remembering'
  BY <1>1, <1>2, ConversationAssumption DEF Typed, Remembering
<1>4. Telling'
  BY <1>1, <1>2 DEF Typed, Telling
<1>5. Storing'
  <2>1. op \in Ops /\ Len(op.rows) <= StoredSize
    BY <1>2, ConversationAssumption DEF Ops
  <2> HIDE DEF op
  <2> QED BY <1>1, <2>1, Calls DEF Typed
<1>6. /\ command'[k].pc = "clear" /\ command'[k].chat = c
      /\ \A j \in Commands \ {k} : command'[j] = command[j]
  BY <1>1 DEF Typed, Commanding
<1>7. Commanding'
  BY <1>1 DEF Typed, Commanding, CommandPCs
<1>8. Typed'
  BY <1>1, <1>3, <1>4, <1>5, <1>7, Untouched DEF Typed
<1> QED BY <1>1, <1>6, <1>8

LEMMA SwitchTypes ==
    ASSUME Typed, NEW k \in Commands, NEW c \in Chats, NEW on \in BOOLEAN, Switch(k, c, on)
    PROVE  /\ Typed'
           /\ UNCHANGED <<pc, chat, lock, context, table, waiting, memoryVars, dbVars, ghosts>>
           /\ command[k].pc = "new" /\ command'[k].pc = "switched"
           /\ \A j \in Commands \ {k} : command'[j] = command[j]
<1>1. /\ UNCHANGED <<pc, chat, lock, context, table, waiting, seen, memoryVars, dbVars,
                     restarts, ghosts>>
      /\ command[k].pc = "new" /\ command' = [command EXCEPT ![k].pc = "switched"]
      /\ disabled' \subseteq disabled \cup {c}
  BY DEF Switch
<1>2. Tables'
  BY <1>1 DEF Typed, Tables
<1>3. /\ command'[k].pc = "switched" /\ \A j \in Commands \ {k} : command'[j] = command[j]
      /\ Commanding'
  BY <1>1 DEF Typed, Commanding, CommandPCs
<1>4. Typed'
  BY <1>1, <1>2, <1>3, Untouched DEF Typed, ghosts
<1> QED BY <1>1, <1>3, <1>4

\* The call at the head of the queue is over: its rows are written, and perhaps
\* others deleted, or it fails.
Written(op) ==
    \/ /\ op.chat \notin dropped' /\ stored'[op.chat] = op.rows
       /\ \A c \in Chats \ {op.chat} :
             \/ stored'[c] = stored[c] /\ (c \in dropped' <=> c \in dropped)
             \/ stored'[c] = <<>> /\ c \in dropped'
       /\ UNCHANGED tainted
    \/ /\ UNCHANGED <<stored, dropped>>
       /\ tainted' = tainted \cup {op.chat}

LEMMA CommitTypes ==
    ASSUME Typed, Owning, Commit
    PROVE  LET op == Head(dbQueue) IN
           /\ Typed' /\ op \in Ops /\ dbQueue # <<>> /\ dbQueue' = Tail(dbQueue)
           /\ UNCHANGED <<tableVars, memoryVars, log>>
           /\ Written(op) /\ Owned(op)
           /\ \/ /\ op.by \in Requests /\ Others(op.by) /\ UNCHANGED command
                 /\ pc'[op.by] = "done" /\ chat'[op.by] = None /\ lock'[op.by] = None
              \/ /\ op.by \in Commands /\ UNCHANGED <<pc, chat, lock, context>>
                 /\ command'[op.by].pc \in {"told", "failed"}
                 /\ \A j \in Commands \ {op.by} : command'[j] = command[j]
<1> DEFINE op == Head(dbQueue)
<1>1. dbQueue # <<>> /\ dbQueue' = Tail(dbQueue) /\ UNCHANGED <<tableVars, memoryVars, restarts, log>>
  BY DEF Commit
<1>2. /\ op \in Ops /\ op = dbQueue[1] /\ 1 \in 1..Len(dbQueue)
      /\ dbQueue' \in Seq(Ops) /\ Len(dbQueue) \in Nat
      /\ \A i \in 1..Len(dbQueue') : i + 1 \in 1..Len(dbQueue) /\ dbQueue'[i] = dbQueue[i + 1]
  BY <1>1, Called DEF Typed, Storing
<1>3. PICK ok \in BOOLEAN :
        /\ IF ok THEN \E old \in SUBSET Chats : Write(op, old) ELSE WriteFails(op)
        /\ IF op.by \in Requests
           THEN End(op.by) /\ UNCHANGED command
           ELSE /\ command' = [command EXCEPT ![op.by].pc = IF ok THEN "told" ELSE "failed"]
                /\ UNCHANGED <<pc, chat, lock, context>>
  BY DEF Commit
<1>4. Owned(op) /\ Len(op.rows) <= StoredSize
  BY <1>2 DEF Owning, Typed, Storing
<1> HIDE DEF op
<1>5. op.chat \in Chats /\ op.rows \in Seq(Requests) /\ op.by \in Requests \cup Commands
  BY <1>2 DEF Ops
<1>6. /\ Written(op) /\ Telling'
      /\ stored' \in [Chats -> Seq(Requests)]
      /\ \A c \in Chats : Len(stored'[c]) <= StoredSize
  <2>1. CASE WriteFails(op)
    BY <1>1, <1>5, <2>1 DEF WriteFails, Written, Typed, Telling, Storing
  <2>2. ASSUME NEW old \in SUBSET Chats, Write(op, old)
        PROVE  /\ Written(op) /\ Telling'
               /\ stored' \in [Chats -> Seq(Requests)]
               /\ \A c \in Chats : Len(stored'[c]) <= StoredSize
    <3>1. op.chat \notin old
      BY <2>2 DEF Write, Outdated
    <3>2. /\ stored' = [c \in Chats |->
                          IF c = op.chat THEN op.rows ELSE IF c \in old THEN <<>> ELSE stored[c]]
          /\ dropped' = (dropped \ {op.chat}) \cup old /\ UNCHANGED tainted
      BY <2>2 DEF Write
    <3>3. <<>> \in Seq(Requests) /\ Len(<<>>) = 0 /\ StoredSize \in Nat
      BY EmptySeq, ConversationAssumption
    <3>4. \A c \in Chats : stored'[c] \in Seq(Requests) /\ Len(stored'[c]) <= StoredSize
      BY <1>4, <1>5, <3>2, <3>3 DEF Typed, Storing
    <3>5. stored' \in [Chats -> Seq(Requests)]
      BY <3>2, <3>4
    <3>6. Telling'
      BY <1>1, <3>2 DEF Typed, Telling
    <3>7. Written(op)
      BY <1>5, <3>1, <3>2 DEF Written
    <3> QED BY <3>4, <3>5, <3>6, <3>7
  <2> QED BY <1>3, <2>1, <2>2
<1>7. Storing'
  <2>1. \A i \in 1..Len(dbQueue') : Len(dbQueue'[i].rows) <= StoredSize
    BY <1>2 DEF Typed, Storing
  <2> QED BY <1>2, <1>6, <2>1 DEF Storing
<1>8. CASE op.by \in Requests
  <2>1. End(op.by) /\ UNCHANGED command
    BY <1>3, <1>8
  <2>2. /\ Asking' /\ Others(op.by)
        /\ pc'[op.by] = "done" /\ chat'[op.by] = None /\ lock'[op.by] = None
    BY <1>8, <2>1, Ended DEF Typed
  <2>3. Typed'
    BY <1>1, <1>6, <1>7, <2>1, <2>2, Untouched DEF Typed
  <2> QED BY <1>1, <1>2, <1>4, <1>6, <1>8, <2>1, <2>2, <2>3 DEF op
<1>9. CASE op.by \notin Requests
  <2>1. /\ op.by \in Commands /\ UNCHANGED <<pc, chat, lock, context>>
        /\ \E p \in {"told", "failed"} : command' = [command EXCEPT ![op.by].pc = p]
    BY <1>3, <1>5, <1>9
  <2>2. /\ command'[op.by].pc \in {"told", "failed"}
        /\ \A j \in Commands \ {op.by} : command'[j] = command[j]
        /\ Commanding'
    BY <1>4, <1>9, <2>1 DEF Owned, Typed, Commanding, CommandPCs
  <2>3. Typed'
    BY <1>1, <1>6, <1>7, <2>1, <2>2, Untouched DEF Typed
  <2> QED BY <1>1, <1>2, <1>4, <1>6, <2>1, <2>2, <2>3 DEF op
<1> QED BY <1>8, <1>9

LEMMA RestartTypes ==
    ASSUME Typed, Restart
    PROVE  /\ Typed' /\ UNCHANGED <<stored, tainted>>
           /\ dbQueue' = <<>> /\ loaded' = {} /\ dropped' = {} /\ log' = stored
           /\ \A c \in Chats : table'[c] = None /\ history'[c] = <<>>
           /\ \A r \in Requests : /\ pc'[r] \in {"new", "done", "lost"}
                                  /\ lock'[r] = None /\ waiting'[r] = <<>>
           /\ \A k \in Commands : command'[k].pc # "clear"
<1>1. <<>> \in Seq(Requests) /\ <<>> \in Seq(Chats) /\ <<>> \in Seq(Ops) /\ Len(<<>>) = 0
  BY EmptySeq
<1>2. {"new", "done", "lost"} \subseteq PCs \ InChatPCs
  BY DEF PCs, InChatPCs, Critical
<1>3. /\ pc' = [r \in Requests |-> IF pc[r] \in {"new", "done"} THEN pc[r] ELSE "lost"]
      /\ chat' = [r \in Requests |-> None] /\ lock' = [r \in Requests |-> None]
      /\ context' = [r \in Requests |-> <<>>]
  BY DEF Restart
<1>4. /\ Asking'
      /\ \A r \in Requests : pc'[r] \in {"new", "done", "lost"} /\ lock'[r] = None
  BY <1>1, <1>2, <1>3 DEF Asking
<1>5. /\ Tables' /\ \A c \in Chats : table'[c] = None
      /\ \A r \in Requests : waiting'[r] = <<>>
  BY <1>1 DEF Restart, Tables
<1>6. /\ Remembering' /\ loaded' = {} /\ \A c \in Chats : history'[c] = <<>>
  BY <1>1, ConversationAssumption DEF Restart, Remembering
<1>7. Storing' /\ UNCHANGED stored /\ dbQueue' = <<>>
  BY <1>1 DEF Restart, Typed, Storing
<1>8. Commanding' /\ \A k \in Commands : command'[k].pc # "clear"
  <2>1. ASSUME NEW k \in Commands
        PROVE  /\ command'[k] \in [pc : CommandPCs, chat : Chats \cup {None}]
               /\ command'[k].pc # "clear"
               /\ command'[k].pc = "told" => command'[k].chat \in Chats
    <3>1. /\ command[k] \in [pc : CommandPCs, chat : Chats \cup {None}]
          /\ command[k].pc = "told" => command[k].chat \in Chats
          /\ command[k].pc # "clear" => command'[k] = command[k]
          /\ command[k].pc = "clear" => command'[k] = [command[k] EXCEPT !.pc = "failed"]
      BY DEF Restart, Typed, Commanding
    <3> QED BY <3>1 DEF CommandPCs
  <2>2. command' \in [Commands -> [pc : CommandPCs, chat : Chats \cup {None}]]
    BY <2>1 DEF Restart
  <2> QED BY <2>1, <2>2 DEF Commanding
<1>9. Telling' /\ UNCHANGED tainted /\ log' = stored /\ dropped' = {}
  BY DEF Restart, Typed, Telling, Storing
<1>10. restarts' \in 0..MaxRestarts
  BY ConversationAssumption DEF Restart, Typed
<1> QED BY <1>4, <1>5, <1>6, <1>7, <1>8, <1>9, <1>10 DEF Typed

LEMMA NextTyped == Typed /\ Locking /\ Owning /\ [Next]_vars => Typed'
<1> SUFFICES ASSUME Typed, Locking, Owning, [Next]_vars PROVE Typed'
  OBVIOUS
<1>1. ASSUME NEW r \in Requests, Proceed(r) PROVE Typed'
  <2>1. Listed(r)
    BY DEF Locking
  <2> QED
    BY <1>1, <2>1, PassTypes, ReadTypes, ExtendTypes, AnsweredTypes, AdmitTypes, WakeTypes
    DEF Proceed, Passes
<1>2. ASSUME NEW r \in Requests, NEW c \in Chats, Receive(r, c) PROVE Typed'
  BY <1>2, ReceiveTypes
<1>3. ASSUME NEW k \in Commands, NEW c \in Chats,
             Reset(k, c) \/ Switch(k, c, TRUE) \/ Switch(k, c, FALSE)
      PROVE  Typed'
  BY <1>3, ResetTypes, SwitchTypes
<1>4. CASE Commit \/ Restart
  BY <1>4, CommitTypes, RestartTypes
<1>5. CASE UNCHANGED vars
  BY <1>5, Untouched DEF Typed, vars, ghosts
<1> QED BY <1>1, <1>2, <1>3, <1>4, <1>5 DEF Next

-----------------------------------------------------------------------------
(* Locks *)

\* A request goes on with the lock it holds, or ends.
LEMMA LocksKept ==
    ASSUME Typed, Locking, NEW r \in Requests, Others(r), UNCHANGED <<table, waiting>>,
           tainted \subseteq tainted',
           \/ pc'[r] = "done" /\ lock'[r] = None
           \/ /\ pc[r] \in Critical /\ pc'[r] \in Critical
              /\ chat'[r] = chat[r] /\ lock'[r] = lock[r]
    PROVE  Locking'
<1>1. "done" \notin InChatPCs /\ "done" \notin Critical /\ Critical \subseteq InChatPCs \ {"gate", "queued"}
  BY DEF InChatPCs, Critical
<1>2. {"new", "gate"} \cap Critical = {} /\ "queued" \notin Critical
  BY DEF Critical
<1>3. pc'[r] \notin {"new", "gate", "queued"}
  BY <1>1, <1>2
<1>4. ASSUME NEW q \in Requests PROVE Unmade(q)'
  <2>1. SUFFICES ASSUME pc'[q] \in {"new", "gate"} PROVE Unmade(q)'
    BY DEF Unmade
  <2>2. q # r /\ pc'[q] = pc[q]
    BY <1>3, <2>1 DEF Others
  <2>3. /\ waiting[q] = <<>> /\ \A c \in Chats : table[c] # q
        /\ \A p \in Requests : lock[p] # q
    BY <2>1, <2>2 DEF Locking, Unmade
  <2>4. lock'[r] # q
    BY <2>3, ConversationAssumption
  <2>5. \A p \in Requests : lock'[p] # q
    BY <2>3, <2>4 DEF Others
  <2> QED BY <2>3, <2>5 DEF Unmade
<1>5. ASSUME NEW q \in Requests PROVE Listed(q)'
  <2>1. SUFFICES ASSUME pc'[q] = "queued" PROVE Listed(q)'
    BY DEF Listed
  <2>2. q # r /\ pc'[q] = pc[q] /\ lock'[q] = lock[q]
    BY <1>3, <2>1 DEF Others
  <2> QED BY <2>1, <2>2 DEF Locking, Listed
<1>6. ASSUME NEW q \in Requests PROVE Current(q)'
  <2>1. SUFFICES ASSUME pc'[q] \in InChatPCs \ {"gate"}, chat'[q] \notin tainted'
                 PROVE  table'[chat'[q]] = lock'[q]
    BY DEF Current
  <2>2. /\ pc[q] \in InChatPCs \ {"gate"}
        /\ chat'[q] = chat[q] /\ lock'[q] = lock[q]
    BY <1>1, <2>1 DEF Others
  <2> QED BY <2>1, <2>2 DEF Locking, Current
<1>7. ASSUME NEW p \in Requests, NEW q \in Requests PROVE Alone(p, q)'
  <2>1. \A x \in Requests :
           pc'[x] \in Critical => pc[x] \in Critical /\ lock'[x] = lock[x]
    BY <1>1 DEF Others
  <2> QED BY <2>1 DEF Locking, Alone
<1> QED BY <1>4, <1>5, <1>6, <1>7 DEF Locking

\* A request enters with a lock nobody holds, the one of its chat's table.
LEMMA EnterKeepsLocks ==
    ASSUME Typed, Locking, NEW r \in Requests, Others(r),
           pc[r] \in {"gate", "queued"}, pc'[r] \in {"ask", "read"}, chat'[r] = chat[r],
           NEW l \in Requests, ~Locked(l), lock'[r] = l, pc'[l] \notin {"new", "gate"},
           tainted \subseteq tainted',
           chat[r] \notin tainted' => table'[chat[r]] = l,
           \/ UNCHANGED table
           \/ table[chat[r]] = None /\ table' = [table EXCEPT ![chat[r]] = l],
           \A m \in Requests \ {l} : waiting'[m] = waiting[m],
           \A q \in Requests \ {r} : pc[q] = "queued" /\ lock[q] = l =>
              \E i \in 1..Len(waiting'[l]) : waiting'[l][i] = q
    PROVE  Locking'
<1>1. {"ask", "read"} \subseteq Critical /\ Critical \subseteq InChatPCs \ {"gate", "queued"}
  BY DEF InChatPCs, Critical
<1>2. ~\E q \in Requests : lock[q] = l /\ pc[q] \in Critical
  BY DEF Locked
<1>3. ASSUME NEW q \in Requests PROVE Unmade(q)'
  <2>1. SUFFICES ASSUME pc'[q] \in {"new", "gate"} PROVE Unmade(q)'
    BY DEF Unmade
  <2>2. q # r /\ q # l /\ pc'[q] = pc[q]
    BY <2>1 DEF Others
  <2>3. /\ waiting[q] = <<>> /\ \A c \in Chats : table[c] # q
        /\ \A p \in Requests : lock[p] # q
    BY <2>1, <2>2 DEF Locking, Unmade
  <2>4. \A p \in Requests : lock'[p] # q
    BY <2>2, <2>3 DEF Others
  <2>5. \A c \in Chats : table'[c] # q
    BY <2>2, <2>3 DEF Typed, Tables
  <2> QED BY <2>2, <2>3, <2>4, <2>5 DEF Unmade
<1>4. ASSUME NEW q \in Requests PROVE Listed(q)'
  <2>1. SUFFICES ASSUME pc'[q] = "queued" PROVE Listed(q)'
    BY DEF Listed
  <2>2. q # r /\ pc[q] = "queued" /\ lock'[q] = lock[q] /\ lock[q] \in Requests
    BY <2>1 DEF Others, Typed, Asking, InChatPCs
  <2>3. CASE lock[q] = l
    BY <2>2, <2>3 DEF Listed
  <2>4. CASE lock[q] # l
    BY <2>2, <2>4 DEF Locking, Listed
  <2> QED BY <2>3, <2>4
<1>5. ASSUME NEW q \in Requests PROVE Current(q)'
  <2>1. SUFFICES ASSUME pc'[q] \in InChatPCs \ {"gate"}, chat'[q] \notin tainted'
                 PROVE  table'[chat'[q]] = lock'[q]
    BY DEF Current
  <2>2. CASE q = r
    BY <2>1, <2>2
  <2>3. CASE q # r
    <3>1. /\ pc[q] = pc'[q] /\ chat'[q] = chat[q] /\ lock'[q] = lock[q]
          /\ chat[q] \in Chats /\ lock[q] # None
      BY <2>1, <2>3, ConversationAssumption DEF Others, Typed, Asking
    <3>2. table[chat[q]] = lock[q]
      BY <2>1, <3>1 DEF Locking, Current
    <3>3. table'[chat[q]] = table[chat[q]]
      BY <3>1, <3>2 DEF Typed, Tables
    <3> QED BY <3>1, <3>2, <3>3
  <2> QED BY <2>2, <2>3
<1>6. ASSUME NEW p \in Requests, NEW q \in Requests PROVE Alone(p, q)'
  <2>1. \A x \in Requests \ {r} :
           pc'[x] \in Critical => pc[x] \in Critical /\ lock'[x] = lock[x] /\ lock[x] # l
    BY <1>2 DEF Others
  <2> QED BY <2>1 DEF Locking, Alone
<1> QED BY <1>3, <1>4, <1>5, <1>6 DEF Locking

LEMMA WakeKeepsLocks ==
    ASSUME Typed, Locking, NEW r \in Requests, Wake(r)
    PROVE  Locking'
<1>1. PICK l \in Requests : l = lock[r] /\ pc[r] = "queued"
  BY DEF Wake, Typed, Asking, InChatPCs
<1>2. Listed(r) /\ Unmade(l) /\ Current(r)
  BY DEF Locking
<1>3. /\ Typed' /\ Others(r) /\ chat[r] \in Chats
      /\ UNCHANGED table /\ chat'[r] = chat[r] /\ lock'[r] = l
      /\ Enter(r, l) /\ UNCHANGED chat /\ ~Locked(l)
      /\ waiting[l] # <<>> /\ Head(waiting[l]) = r
      /\ waiting' = [waiting EXCEPT ![l] = Tail(waiting[l])]
  BY <1>1, <1>2, WakeTypes
<1>4. pc'[r] \in {"ask", "read"} /\ tainted \subseteq tainted'
  BY <1>1, <1>3, Entered DEF Typed
<1>5. pc'[l] \notin {"new", "gate"}
  BY <1>1, <1>2, <1>3, <1>4 DEF Unmade, Others
<1>6. chat[r] \notin tainted' => table'[chat[r]] = l
  BY <1>1, <1>2, <1>3, <1>4 DEF Current, InChatPCs
<1>7. waiting[l] \in Seq(Requests) /\ waiting'[l] = Tail(waiting[l])
      /\ \A m \in Requests \ {l} : waiting'[m] = waiting[m]
  BY <1>3 DEF Typed, Tables
<1>8. ASSUME NEW q \in Requests \ {r}, pc[q] = "queued", lock[q] = l
      PROVE  \E i \in 1..Len(waiting'[l]) : waiting'[l][i] = q
  <2>1. PICK i \in 1..Len(waiting[l]) : waiting[l][i] = q
    BY <1>8 DEF Locking, Listed
  <2>2. i # 1
    BY <1>3, <1>7, <2>1
  <2>3. /\ Len(Tail(waiting[l])) = Len(waiting[l]) - 1
        /\ \A j \in 1..Len(Tail(waiting[l])) : Tail(waiting[l])[j] = waiting[l][j + 1]
    BY <1>3, <1>7, HeadTailProperties
  <2>4. Len(waiting[l]) \in Nat
    BY <1>7
  <2>5. i - 1 \in 1..Len(waiting'[l]) /\ (i - 1) + 1 = i
    BY <1>7, <2>1, <2>2, <2>3, <2>4
  <2> QED BY <1>7, <2>1, <2>3, <2>5
<1> QED BY <1>1, <1>3, <1>4, <1>5, <1>6, <1>7, <1>8, EnterKeepsLocks

LEMMA AdmitKeepsLocks ==
    ASSUME Typed, Locking, NEW r \in Requests, Admit(r)
    PROVE  Locking'
<1>1. PICK l : l = IF table[chat[r]] = None THEN r ELSE table[chat[r]]
  OBVIOUS
<1>2. /\ Typed' /\ Others(r) /\ pc[r] = "gate" /\ chat[r] \in Chats /\ l \in Requests
      /\ table' = [table EXCEPT ![chat[r]] = l]
      /\ chat'[r] = chat[r] /\ lock'[r] = l
      /\ \/ /\ ~Locked(l) /\ waiting[l] = <<>> /\ UNCHANGED waiting
            /\ Enter(r, l) /\ UNCHANGED chat
         \/ /\ waiting' = [waiting EXCEPT ![l] = Append(waiting[l], r)]
            /\ pc'[r] = "queued" /\ UNCHANGED tainted
  BY <1>1, AdmitTypes
<1>3. /\ table'[chat[r]] = l
      /\ \/ UNCHANGED table
         \/ table[chat[r]] = None /\ table' = [table EXCEPT ![chat[r]] = l]
  BY <1>1, <1>2 DEF Typed, Tables
<1>4. Unmade(l)
  BY <1>2 DEF Locking
<1>5. CASE /\ ~Locked(l) /\ waiting[l] = <<>> /\ UNCHANGED waiting
           /\ Enter(r, l) /\ UNCHANGED chat
  <2>1. pc'[r] \in {"ask", "read"} /\ tainted \subseteq tainted'
    BY <1>2, <1>5, Entered DEF Typed
  <2>2. pc'[l] \notin {"new", "gate"}
    <3>1. CASE l = r
      BY <2>1, <3>1
    <3>2. CASE l # r
      BY <1>1, <1>2, <1>4, <3>2 DEF Unmade, Others
    <3> QED BY <3>1, <3>2
  <2>3. \A q \in Requests \ {r} : ~(pc[q] = "queued" /\ lock[q] = l)
    BY <1>5 DEF Locking, Listed
  <2>4. \A m \in Requests \ {l} : waiting'[m] = waiting[m]
    BY <1>5
  <2>5. \A q \in Requests \ {r} : pc[q] = "queued" /\ lock[q] = l =>
          \E i \in 1..Len(waiting'[l]) : waiting'[l][i] = q
    BY <2>3
  <2>6. ~Locked(l) /\ pc[r] \in {"gate", "queued"} /\ (chat[r] \notin tainted' => table'[chat[r]] = l)
    BY <1>2, <1>3, <1>5
  <2>7. Others(r) /\ chat'[r] = chat[r] /\ lock'[r] = l /\ l \in Requests
    BY <1>2
  <2>8. \/ UNCHANGED table
        \/ table[chat[r]] = None /\ table' = [table EXCEPT ![chat[r]] = l]
    BY <1>3
  <2> QED BY <2>1, <2>2, <2>4, <2>5, <2>6, <2>7, <2>8, EnterKeepsLocks
<1>6. CASE /\ waiting' = [waiting EXCEPT ![l] = Append(waiting[l], r)]
           /\ pc'[r] = "queued" /\ UNCHANGED tainted
  <2>1. /\ \A m \in Requests \ {l} : waiting'[m] = waiting[m]
        /\ waiting'[l] = Append(waiting[l], r) /\ waiting[l] \in Seq(Requests)
    BY <1>2, <1>6 DEF Typed, Tables
  <2>2. /\ Len(waiting'[l]) = Len(waiting[l]) + 1
        /\ \A i \in 1..Len(waiting[l]) : waiting'[l][i] = waiting[l][i]
        /\ waiting'[l][Len(waiting[l]) + 1] = r
    BY <1>2, <2>1, AppendProperties
  <2>3. Len(waiting[l]) \in Nat
    BY <2>1
  <2>4. Listed(r)'
    <3>1. Len(waiting[l]) + 1 \in 1..Len(waiting'[l])
      BY <2>2, <2>3
    <3>2. \E i \in 1..Len(waiting'[l]) : waiting'[l][i] = r
      BY <2>2, <3>1
    <3> QED BY <1>2, <3>2 DEF Listed
  <2>5. ASSUME NEW q \in Requests PROVE Listed(q)'
    <3>1. SUFFICES ASSUME pc'[q] = "queued", q # r PROVE Listed(q)'
      BY <2>4 DEF Listed
    <3>2. pc[q] = "queued" /\ lock'[q] = lock[q] /\ lock[q] \in Requests
      BY <1>2, <3>1 DEF Others, Typed, Asking, InChatPCs
    <3>3. PICK i \in 1..Len(waiting[lock[q]]) : waiting[lock[q]][i] = q
      BY <3>2 DEF Locking, Listed
    <3>4. i \in 1..Len(waiting'[lock[q]]) /\ waiting'[lock[q]][i] = q
      BY <2>1, <2>2, <2>3, <3>2, <3>3
    <3> QED BY <3>2, <3>4 DEF Listed
  <2>6. ASSUME NEW q \in Requests PROVE Unmade(q)'
    <3>1. SUFFICES ASSUME pc'[q] \in {"new", "gate"} PROVE Unmade(q)'
      BY DEF Unmade
    <3>2. q # r /\ pc'[q] = pc[q]
      BY <1>2, <1>6, <3>1 DEF Others
    <3>3. q # l
      BY <1>1, <1>2, <3>1, <3>2 DEF Locking, Unmade
    <3>4. /\ waiting[q] = <<>> /\ \A c \in Chats : table[c] # q
          /\ \A p \in Requests : lock[p] # q
      BY <3>1, <3>2 DEF Locking, Unmade
    <3>5. \A p \in Requests : lock'[p] # q
      BY <1>2, <3>3, <3>4 DEF Others
    <3>6. \A c \in Chats : table'[c] # q
      BY <1>2, <3>3, <3>4 DEF Typed, Tables
    <3> QED BY <2>1, <3>3, <3>4, <3>5, <3>6 DEF Unmade
  <2>7. ASSUME NEW q \in Requests PROVE Current(q)'
    <3>1. SUFFICES ASSUME pc'[q] \in InChatPCs \ {"gate"}, chat'[q] \notin tainted'
                   PROVE  table'[chat'[q]] = lock'[q]
      BY DEF Current
    <3>2. CASE q = r
      BY <1>2, <1>3, <3>2
    <3>3. CASE q # r
      <4>1. /\ pc[q] = pc'[q] /\ chat'[q] = chat[q] /\ lock'[q] = lock[q]
            /\ chat[q] \in Chats /\ lock[q] # None
        BY <1>2, <3>1, <3>3, ConversationAssumption DEF Others, Typed, Asking
      <4>2. table[chat[q]] = lock[q]
        BY <1>6, <3>1, <4>1 DEF Locking, Current
      <4>3. table'[chat[q]] = table[chat[q]]
        BY <1>2, <1>3, <4>1, <4>2 DEF Typed, Tables
      <4> QED BY <4>1, <4>2, <4>3
    <3> QED BY <3>2, <3>3
  <2>8. ASSUME NEW p \in Requests, NEW q \in Requests PROVE Alone(p, q)'
    <3>1. \A x \in Requests :
             pc'[x] \in Critical => pc[x] \in Critical /\ lock'[x] = lock[x]
      BY <1>2, <1>6 DEF Others, Critical
    <3> QED BY <3>1 DEF Locking, Alone
  <2> QED BY <2>5, <2>6, <2>7, <2>8 DEF Locking
<1> QED BY <1>2, <1>5, <1>6

\* Whoever sweeps a chat's lock leaves nobody with it, or taints the chat.
LEMMA Unused ==
    ASSUME Typed, Locking, NEW c \in Chats, NEW gone \in SUBSET Chats, Touch(c, gone),
           UNCHANGED waiting,
           NEW r \in Requests, pc[r] \in InChatPCs \ {"gate"}, chat[r] \notin tainted'
    PROVE  chat[r] \notin gone
<1>1. SUFFICES ASSUME chat[r] \in gone PROVE FALSE
  OBVIOUS
<1>2. chat[r] \notin tainted /\ table[chat[r]] = lock[r] /\ lock[r] \in Requests
  BY DEF Touch, Locking, Current, Typed, Asking
<1>3. lock[r] # None
  BY <1>2, ConversationAssumption
<1>4. ~Locked(lock[r])
  <2> DEFINE S == {d \in Chats : table[d] = None \/ ~Locked(table[d])}
             others == Without(seen, {c})
  <2>1. others \in Seq(Chats)
    <3>1. Kept(seen, Chats \ {c}) \in Seq(Chats \cap (Chats \ {c}))
      BY KeptTypes DEF Typed, Tables
    <3>2. Chats \cap (Chats \ {c}) \subseteq Chats
      OBVIOUS
    <3> QED BY <3>1, <3>2, SeqMonotonic DEF Without
  <2>2. Kept(others, S) \in Seq(Chats \cap S)
    BY <2>1, KeptTypes
  <2>3. PICK n \in 0..Len(Kept(others, S)) : gone = {Kept(others, S)[i] : i \in 1..n}
    BY DEF Touch, Sweep, Unlocked
  <2> HIDE DEF S, others
  <2>4. PICK i \in 1..n : chat[r] = Kept(others, S)[i]
    BY <1>1, <2>3
  <2>5. i \in 1..Len(Kept(others, S))
    BY <2>2, <2>3, <2>4
  <2>6. chat[r] \in S
    BY <2>2, <2>4, <2>5, ElementOfSeq
  <2> QED BY <1>2, <1>3, <2>6 DEF S
<1>5. pc[r] = "queued"
  BY <1>2, <1>4 DEF Locked, InChatPCs
<1>6. waiting[lock[r]] # <<>>
  BY <1>5 DEF Locking, Listed
<1> QED BY <1>1, <1>2, <1>3, <1>6 DEF Touch

LEMMA ReceiveKeepsLocks ==
    ASSUME Typed, Locking, NEW r \in Requests, NEW c \in Chats, Receive(r, c)
    PROVE  Locking'
<1>1. /\ Typed' /\ Others(r) /\ pc[r] = "new" /\ pc'[r] \in {"gate", "done"}
      /\ UNCHANGED <<lock, waiting>>
  BY ReceiveTypes
<1>2. PICK gone \in SUBSET Chats : Touch(c, gone)
  BY DEF Receive
<1>3. /\ \A d \in Chats \ gone : table'[d] = table[d]
      /\ \A d \in gone : table'[d] = None
      /\ tainted \subseteq tainted'
  BY <1>2 DEF Touch
<1>4. "new" \notin Critical /\ "gate" \notin Critical /\ "done" \notin Critical
      /\ "done" \notin InChatPCs
  BY DEF Critical, InChatPCs
<1>5. ASSUME NEW q \in Requests PROVE Unmade(q)' /\ Listed(q)'
  <2>1. Unmade(q) /\ Listed(q)
    BY DEF Locking
  <2>2. \A d \in Chats : table'[d] # q \/ table'[d] = table[d]
    BY <1>3, ConversationAssumption
  <2>3. pc'[q] \in {"new", "gate"} => pc[q] \in {"new", "gate"}
    BY <1>1 DEF Others
  <2>4. pc'[q] = "queued" => pc[q] = "queued"
    BY <1>1 DEF Others
  <2> QED BY <1>1, <2>1, <2>2, <2>3, <2>4 DEF Unmade, Listed
<1>6. ASSUME NEW q \in Requests PROVE Current(q)'
  <2>1. SUFFICES ASSUME pc'[q] \in InChatPCs \ {"gate"}, chat'[q] \notin tainted'
                 PROVE  table'[chat'[q]] = lock'[q]
    BY DEF Current
  <2>2. q # r /\ pc[q] = pc'[q] /\ chat'[q] = chat[q] /\ chat[q] \in Chats
    BY <1>1, <1>4, <2>1 DEF Others, Typed, Asking
  <2>3. chat[q] \notin gone
    BY <1>1, <1>2, <2>1, <2>2, Unused
  <2>4. table[chat[q]] = lock[q]
    BY <1>3, <2>1, <2>2 DEF Locking, Current
  <2> QED BY <1>1, <1>3, <2>2, <2>3, <2>4
<1>7. ASSUME NEW p \in Requests, NEW q \in Requests PROVE Alone(p, q)'
  <2>1. \A x \in Requests : pc'[x] \in Critical => pc[x] \in Critical
    BY <1>1, <1>4 DEF Others
  <2> QED BY <1>1, <2>1 DEF Locking, Alone
<1> QED BY <1>5, <1>6, <1>7 DEF Locking

LEMMA SameLocks ==
    ASSUME Locking, UNCHANGED <<pc, chat, lock, table, waiting>>, tainted \subseteq tainted'
    PROVE  Locking'
<1>1. ASSUME NEW r \in Requests, NEW q \in Requests
      PROVE  Unmade(r)' /\ Listed(r)' /\ Current(r)' /\ Alone(q, r)'
  <2>1. Unmade(r) /\ Listed(r) /\ Current(r) /\ Alone(q, r)
    BY DEF Locking
  <2> QED BY <2>1 DEF Unmade, Listed, Current, Alone
<1> QED BY <1>1 DEF Locking

LEMMA NextLocking == Typed /\ Locking /\ Owning /\ [Next]_vars => Locking'
<1> SUFFICES ASSUME Typed, Locking, Owning, [Next]_vars PROVE Locking'
  OBVIOUS
<1> USE DEF tableVars
<1>0. {"ask", "read", "extend", "generate", "error", "save"} \subseteq Critical
  BY DEF Critical
<1>1. ASSUME NEW r \in Requests, Proceed(r) PROVE Locking'
  <2>1. CASE Passes(r)
    <3>1. Others(r) /\ UNCHANGED <<table, waiting, tainted>>
      BY <2>1, PassTypes DEF ghosts
    <3>2. \/ pc'[r] = "done" /\ lock'[r] = None
          \/ /\ pc[r] \in Critical /\ pc'[r] \in Critical
             /\ chat'[r] = chat[r] /\ lock'[r] = lock[r]
      BY <1>0, <2>1, PassTypes
    <3> QED BY <3>1, <3>2, LocksKept
  <2>2. CASE Read(r)
    BY <1>0, <2>2, ReadTypes, LocksKept
  <2>3. CASE Extend(r)
    <3>1. Others(r) /\ UNCHANGED <<table, waiting, tainted>>
      BY <2>3, ExtendTypes DEF ghosts
    <3> QED BY <1>0, <2>3, <3>1, ExtendTypes, LocksKept
  <2>4. CASE Answered(r)
    BY <1>0, <2>4, AnsweredTypes, LocksKept
  <2> QED BY <1>1, <2>1, <2>2, <2>3, <2>4, AdmitKeepsLocks, WakeKeepsLocks DEF Proceed, Passes
<1>2. ASSUME NEW r \in Requests, NEW c \in Chats, Receive(r, c) PROVE Locking'
  BY <1>2, ReceiveKeepsLocks
<1>3. ASSUME NEW k \in Commands, NEW c \in Chats,
             Reset(k, c) \/ Switch(k, c, TRUE) \/ Switch(k, c, FALSE)
      PROVE  Locking'
  <2>1. UNCHANGED <<pc, chat, lock, table, waiting>> /\ tainted \subseteq tainted'
    BY <1>3 DEF Reset, Switch, ghosts
  <2> QED BY <2>1, SameLocks
<1>4. CASE Commit
  <2>1. /\ UNCHANGED <<table, waiting>> /\ tainted \subseteq tainted'
        /\ \/ /\ Head(dbQueue).by \in Requests /\ Others(Head(dbQueue).by)
              /\ pc'[Head(dbQueue).by] = "done" /\ lock'[Head(dbQueue).by] = None
           \/ UNCHANGED <<pc, chat, lock, context>>
    BY <1>4, CommitTypes DEF Written
  <2> QED BY <2>1, SameLocks, LocksKept
<1>5. CASE Restart
  <2>1. /\ \A c \in Chats : table'[c] = None
        /\ \A r \in Requests : /\ pc'[r] \in {"new", "done", "lost"}
                               /\ lock'[r] = None /\ waiting'[r] = <<>>
    BY <1>5, RestartTypes
  <2>2. ASSUME NEW r \in Requests, NEW q \in Requests
        PROVE  Unmade(r)' /\ Listed(r)' /\ Current(r)' /\ Alone(q, r)'
    BY <2>1, ConversationAssumption DEF Unmade, Listed, Current, Alone, InChatPCs, Critical
  <2> QED BY <2>2 DEF Locking
<1>6. CASE UNCHANGED vars
  BY <1>6, SameLocks DEF vars, ghosts
<1> QED BY <1>1, <1>2, <1>3, <1>4, <1>5, <1>6 DEF Next

-----------------------------------------------------------------------------
(* The calls to the database *)

\* A call is owned as long as its request or command does not move.
LEMMA OwnedKept ==
    ASSUME NEW op, Owned(op), NEW k, k # op.by,
           \/ UNCHANGED <<pc, chat>>
           \/ k \in Requests /\ Others(k),
           \A j \in Commands \ {k} : command'[j] = command[j]
    PROVE  Owned(op)'
<1>1. CASE op.by \in Requests /\ pc[op.by] = "save" /\ chat[op.by] = op.chat
  <2>1. pc'[op.by] = pc[op.by] /\ chat'[op.by] = chat[op.by]
    BY <1>1 DEF Others
  <2> QED BY <1>1, <2>1 DEF Owned
<1>2. CASE /\ op.by \in Commands /\ op.rows = <<>>
           /\ command[op.by].pc = "clear" /\ command[op.by].chat = op.chat
  BY <1>2 DEF Owned
<1> QED BY <1>1, <1>2 DEF Owned

\* The queue stays, and so do those who wait in it.
LEMMA QueueKept ==
    ASSUME Owning, UNCHANGED dbQueue, NEW k,
           \/ UNCHANGED <<pc, chat>>
           \/ k \in Requests /\ Others(k),
           \A j \in Commands \ {k} : command'[j] = command[j],
           k \in Requests => pc[k] # "save",
           k \in Commands => command[k].pc # "clear"
    PROVE  Owning'
<1>1. ASSUME NEW i \in 1..Len(dbQueue) PROVE Owned(dbQueue[i])'
  <2>1. PICK op : op = dbQueue[i]
    OBVIOUS
  <2>2. Owned(op) /\ op = dbQueue'[i]
    BY <2>1 DEF Owning
  <2>3. k # op.by
    BY <2>2, ConversationAssumption DEF Owned
  <2>4. Owned(op)'
    BY <2>2, <2>3, OwnedKept
  <2> QED BY <2>2, <2>4 DEF Owned
<1> QED BY <1>1 DEF Owning

\* A call is added to the queue.
LEMMA QueueGrown ==
    ASSUME Storing, Owning, NEW op, dbQueue' = Append(dbQueue, op), Owned(op)',
           \/ UNCHANGED <<pc, chat>>
           \/ op.by \in Requests /\ Others(op.by),
           \A j \in Commands \ {op.by} : command'[j] = command[j],
           op.by \in Requests => pc[op.by] # "save",
           op.by \in Commands => command[op.by].pc # "clear"
    PROVE  Owning'
<1>1. PICK n \in Nat : n = Len(dbQueue)
  BY LenProperties DEF Storing
<1>2. /\ Len(dbQueue') = n + 1
      /\ \A i \in 1..n : dbQueue'[i] = dbQueue[i]
      /\ dbQueue'[n + 1] = op
  BY <1>1 DEF Storing
<1>3. ASSUME NEW i \in 1..n PROVE Owned(dbQueue[i]) /\ dbQueue[i].by # op.by
  BY <1>1, ConversationAssumption DEF Owning, Owned
<1>4. ASSUME NEW i \in 1..(n + 1) PROVE Owned(dbQueue[i])'
  <2>1. PICK o : o = dbQueue'[i]
    OBVIOUS
  <2>2. CASE i = n + 1
    BY <1>2, <2>2 DEF Owned
  <2>3. CASE i \in 1..n
    <3>1. Owned(o) /\ op.by # o.by
      BY <1>2, <1>3, <2>1, <2>3
    <3>2. Owned(o)'
      BY <3>1, OwnedKept
    <3> QED BY <2>1, <3>2 DEF Owned
  <2> QED BY <1>1, <2>2, <2>3
<1>5. ASSUME NEW i \in 1..(n + 1), NEW j \in 1..(n + 1), dbQueue'[i].by = dbQueue'[j].by
      PROVE  i = j
  <2>1. CASE i \in 1..n /\ j \in 1..n
    BY <1>1, <1>2, <1>5, <2>1 DEF Owning
  <2>2. CASE i = n + 1 \/ j = n + 1
    BY <1>2, <1>3, <1>5, <2>2
  <2> QED BY <1>1, <2>1, <2>2
<1> QED BY <1>2, <1>4, <1>5 DEF Owning

\* The first call leaves the queue.
LEMMA QueueShrunk ==
    ASSUME Typed, Owning, Commit
    PROVE  Owning'
<1>1. PICK op : op = Head(dbQueue)
  OBVIOUS
<1>2. /\ op = dbQueue[1] /\ 1 \in 1..Len(dbQueue)
      /\ \A i \in 1..Len(dbQueue') : i + 1 \in 1..Len(dbQueue) /\ dbQueue'[i] = dbQueue[i + 1]
      /\ Len(dbQueue') = Len(dbQueue) - 1 /\ Len(dbQueue) \in Nat
  BY <1>1, CommitTypes, Called DEF Typed, Storing
<1>3. /\ \/ UNCHANGED <<pc, chat>>
         \/ op.by \in Requests /\ Others(op.by)
      /\ \A j \in Commands \ {op.by} : command'[j] = command[j]
  BY <1>1, CommitTypes
<1>4. ASSUME NEW i \in 1..Len(dbQueue') PROVE Owned(dbQueue[i])'
  <2>1. PICK o : o = dbQueue'[i]
    OBVIOUS
  <2>2. Owned(o) /\ o.by # op.by
    BY <1>2, <2>1 DEF Owning
  <2>3. Owned(o)'
    BY <1>3, <2>2, OwnedKept
  <2> QED BY <2>1, <2>3 DEF Owned
<1>5. ASSUME NEW i \in 1..Len(dbQueue'), NEW j \in 1..Len(dbQueue'),
             dbQueue'[i].by = dbQueue'[j].by
      PROVE  i = j
  <2>1. i + 1 = j + 1
    BY <1>2, <1>5 DEF Owning
  <2> QED BY <1>2, <2>1
<1> QED BY <1>4, <1>5 DEF Owning

LEMMA NextOwning == Typed /\ Locking /\ Owning /\ [Next]_vars => Owning'
<1> SUFFICES ASSUME Typed, Locking, Owning, [Next]_vars PROVE Owning'
  OBVIOUS
<1>1. ASSUME NEW r \in Requests, Proceed(r) PROVE Owning'
  <2>1. r \notin Commands
    BY ConversationAssumption
  <2>2. CASE Others(r) /\ pc[r] # "save" /\ UNCHANGED <<dbVars, command>>
    BY <2>1, <2>2, QueueKept DEF dbVars
  <2>3. CASE Passes(r)
    BY <2>2, <2>3, PassTypes
  <2>4. CASE Read(r) \/ Extend(r) \/ Admit(r)
    BY <2>2, <2>4, ReadTypes, ExtendTypes, AdmitTypes
  <2>5. CASE Wake(r)
    <3>1. Listed(r)
      BY DEF Locking
    <3> QED BY <2>2, <2>5, <3>1, WakeTypes
  <2>6. CASE Answered(r)
    <3>1. PICK op : op = [chat |-> chat[r], by |-> r, rows |-> LastOf(StoredSize, history'[chat[r]])]
      OBVIOUS
    <3>2. /\ Others(r) /\ pc[r] = "generate" /\ pc'[r] = "save" /\ chat'[r] = chat[r]
          /\ UNCHANGED command /\ dbQueue' = Append(dbQueue, op)
      BY <2>6, <3>1, AnsweredTypes
    <3>3. op.by = r /\ op.chat = chat[r]
      BY <3>1
    <3>4. Owned(op)'
      BY <3>2, <3>3 DEF Owned
    <3> QED BY <2>1, <3>2, <3>3, <3>4, QueueGrown DEF Typed
  <2> QED BY <1>1, <2>3, <2>4, <2>5, <2>6 DEF Proceed, Passes
<1>2. ASSUME NEW r \in Requests, NEW c \in Chats, Receive(r, c) PROVE Owning'
  <2>1. Others(r) /\ pc[r] = "new" /\ UNCHANGED <<dbVars, command>> /\ r \notin Commands
    BY <1>2, ReceiveTypes, ConversationAssumption
  <2> QED BY <2>1, QueueKept DEF dbVars
<1>3. ASSUME NEW k \in Commands, NEW c \in Chats, Reset(k, c) PROVE Owning'
  <2>1. PICK op : op = [chat |-> c, by |-> k, rows |-> <<>>]
    OBVIOUS
  <2>2. /\ UNCHANGED <<pc, chat>> /\ dbQueue' = Append(dbQueue, op) /\ command[k].pc = "new"
        /\ command'[k].pc = "clear" /\ command'[k].chat = c
        /\ \A j \in Commands \ {k} : command'[j] = command[j]
    BY <1>3, <2>1, ResetTypes
  <2>3. op.by = k /\ op.chat = c /\ op.rows = <<>> /\ k \notin Requests
    BY <2>1, ConversationAssumption
  <2>4. Owned(op)'
    BY <2>2, <2>3 DEF Owned
  <2> QED BY <2>2, <2>3, <2>4, QueueGrown DEF Typed
<1>4. ASSUME NEW k \in Commands, NEW c \in Chats, NEW on \in BOOLEAN, Switch(k, c, on)
      PROVE  Owning'
  <2>1. /\ UNCHANGED <<pc, chat, dbVars>> /\ command[k].pc = "new" /\ k \notin Requests
        /\ \A j \in Commands \ {k} : command'[j] = command[j]
    BY <1>4, SwitchTypes, ConversationAssumption
  <2> QED BY <2>1, QueueKept DEF dbVars
<1>5. CASE Commit
  BY <1>5, QueueShrunk
<1>6. CASE Restart
  <2>1. dbQueue' = <<>> /\ Len(<<>>) = 0
    BY <1>6, RestartTypes, EmptySeq
  <2> QED BY <2>1 DEF Owning
<1>7. CASE UNCHANGED vars
  BY <1>7 DEF Owning, Owned, vars, dbVars
<1> QED BY <1>1, <1>2, <1>3, <1>4, <1>5, <1>6, <1>7 DEF Next

-----------------------------------------------------------------------------
(* What is remembered *)

Whole(c) == Cleared(c) /\ Remembered(c) /\ Queued(c) /\ Saved(c)

\* One request of a chat is in the critical section.
LEMMA OneBusy ==
    ASSUME Typed, Locking, NEW q \in Requests, NEW r \in Requests,
           pc[q] \in Critical, pc[r] \in Critical, chat[q] = chat[r], chat[r] \notin tainted
    PROVE  q = r
<1>1. pc[q] \in InChatPCs \ {"gate"} /\ pc[r] \in InChatPCs \ {"gate"}
  BY DEF InChatPCs, Critical
<1>2. lock[q] = lock[r]
  BY <1>1 DEF Locking, Current
<1> QED BY <1>2 DEF Locking, Alone

\* While it works, nothing of its chat is queued or being forgotten.
LEMMA NoPending ==
    ASSUME Typed, Locking, Owning, Intact, NEW r \in Requests,
           pc[r] \in Critical \ {"save"}, chat[r] \notin tainted
    PROVE  ~Pending(chat[r]) /\ ~Clearing(chat[r])
<1>1. chat[r] \in Chats
  BY DEF Typed, Asking, InChatPCs
<1>2. ~Clearing(chat[r])
  BY <1>1 DEF Intact, Cleared
<1>3. ASSUME NEW i \in 1..Len(dbQueue), dbQueue[i].chat = chat[r] PROVE FALSE
  <2>1. Owned(dbQueue[i])
    BY DEF Owning
  <2>2. dbQueue[i].by \notin Commands
    BY <1>2, <1>3, <2>1, ConversationAssumption DEF Owned, Clearing
  <2>3. /\ dbQueue[i].by \in Requests /\ pc[dbQueue[i].by] = "save"
        /\ chat[dbQueue[i].by] = chat[r]
    BY <1>3, <2>1, <2>2 DEF Owned
  <2>4. dbQueue[i].by = r
    BY <2>3, OneBusy DEF Critical
  <2> QED BY <2>3, <2>4
<1> QED BY <1>2, <1>3 DEF Pending

\* A chat that a step does not touch stays whole.
LEMMA StillWhole ==
    ASSUME NEW c \in Chats, Whole(c),
           history'[c] = history[c], c \in loaded' <=> c \in loaded,
           log'[c] = log[c], stored'[c] = stored[c], c \in dropped' <=> c \in dropped,
           Clearing(c)' <=> Clearing(c),
           Pending(c) => Pending(c)',
           \A i \in 1..Len(dbQueue') : dbQueue'[i].chat = c =>
              \E j \in 1..Len(dbQueue) : dbQueue[j] = dbQueue'[i],
           \A r \in Requests : Clearing(c) /\ chat'[r] = c /\ pc'[r] \in Critical =>
              chat[r] = c /\ pc[r] \in Critical
    PROVE  Whole(c)'
<1>1. Cleared(c)'
  BY DEF Whole, Cleared
<1>2. Remembered(c)'
  BY DEF Whole, Remembered
<1>3. Queued(c)'
  <2>1. ASSUME NEW i \in 1..Len(dbQueue'), dbQueue'[i].chat = c
        PROVE  Recent(dbQueue'[i].rows, log'[c])
    <3>1. PICK j \in 1..Len(dbQueue) : dbQueue[j] = dbQueue'[i]
      BY <2>1
    <3> QED BY <2>1, <3>1 DEF Whole, Queued
  <2> QED BY <2>1 DEF Queued
<1>4. Saved(c)'
  BY DEF Whole, Saved
<1> QED BY <1>1, <1>2, <1>3, <1>4 DEF Whole

\* ... as it does when the queue and the commands stay.
LEMMA StillWholeQueue ==
    ASSUME NEW c \in Chats, Whole(c), UNCHANGED <<dbQueue, command>>,
           history'[c] = history[c], c \in loaded' <=> c \in loaded,
           log'[c] = log[c], stored'[c] = stored[c], c \in dropped' <=> c \in dropped,
           \A r \in Requests : Clearing(c) /\ chat'[r] = c /\ pc'[r] \in Critical =>
              chat[r] = c /\ pc[r] \in Critical
    PROVE  Whole(c)'
<1>1. (Clearing(c)' <=> Clearing(c)) /\ (Pending(c) => Pending(c)')
  BY DEF Clearing, Pending
<1>2. \A i \in 1..Len(dbQueue') : dbQueue'[i].chat = c =>
         \E j \in 1..Len(dbQueue) : dbQueue[j] = dbQueue'[i]
  OBVIOUS
<1> QED BY <1>1, <1>2, StillWhole

LEMMA StillInformed ==
    ASSUME NEW q \in Requests, Informed(q),
           pc'[q] = pc[q], chat'[q] = chat[q], context'[q] = context[q],
           pc[q] \in Critical =>
              /\ history'[chat[q]] = history[chat[q]] /\ log'[chat[q]] = log[chat[q]]
              /\ chat[q] \in loaded' <=> chat[q] \in loaded
    PROVE  Informed(q)'
<1>1. CASE pc[q] \in Critical
  BY <1>1 DEF Informed
<1>2. CASE pc[q] \notin Critical
  BY <1>2 DEF Informed, Critical
<1> QED BY <1>1, <1>2

\* A step of one request that touches neither tables nor rows.
LEMMA QuietKeepsIntact ==
    ASSUME Typed, Intact, NEW r \in Requests, Others(r), tainted \subseteq tainted',
           UNCHANGED <<history, loaded, stored, dbQueue, command, log, dropped>>,
           \/ pc'[r] \notin Critical
           \/ pc[r] \in Critical /\ chat'[r] = chat[r]
           \/ chat'[r] \in tainted' \/ ~Clearing(chat'[r]),
           chat'[r] \notin tainted' => Informed(r)'
    PROVE  Intact'
<1>1. ASSUME NEW c \in Chats \ tainted' PROVE Whole(c)'
  <2>1. Whole(c)
    BY DEF Intact, Whole
  <2>2. \A q \in Requests : Clearing(c) /\ chat'[q] = c /\ pc'[q] \in Critical =>
           chat[q] = c /\ pc[q] \in Critical
    BY DEF Others
  <2> QED BY <2>1, <2>2, StillWholeQueue
<1>2. ASSUME NEW q \in Requests, chat'[q] \notin tainted' PROVE Informed(q)'
  <2>1. CASE q # r
    <3>1. /\ pc'[q] = pc[q] /\ chat'[q] = chat[q] /\ context'[q] = context[q]
          /\ chat[q] \notin tainted
      BY <1>2, <2>1 DEF Others
    <3> QED BY <3>1, StillInformed DEF Intact
  <2> QED BY <1>2, <2>1
<1>3. \A c \in dropped' : stored'[c] = <<>>
  BY DEF Intact
<1> QED BY <1>1, <1>2, <1>3 DEF Intact, Whole

LEMMA PassKeepsIntact ==
    ASSUME Typed, Intact, NEW r \in Requests, Passes(r)
    PROVE  Intact'
<1>1. /\ Others(r)
      /\ UNCHANGED <<history, loaded, stored, dbQueue, command, log, dropped, tainted>>
      /\ \/ pc'[r] = "done"
         \/ /\ <<pc[r], pc'[r]>> \in {<<"ask", "generate">>, <<"generate", "error">>}
            /\ chat'[r] = chat[r] /\ context'[r] = context[r]
  BY PassTypes DEF memoryVars, dbVars, ghosts
<1>2. {"ask", "generate"} \subseteq Critical /\ "done" \notin Critical
  BY DEF Critical
<1>3. chat'[r] \notin tainted' => Informed(r)'
  <2>1. CASE pc'[r] = "done"
    BY <2>1 DEF Informed
  <2>2. CASE /\ <<pc[r], pc'[r]>> \in {<<"ask", "generate">>, <<"generate", "error">>}
             /\ chat'[r] = chat[r] /\ context'[r] = context[r]
    BY <1>1, <2>2 DEF Intact, Informed
  <2> QED BY <1>1, <2>1, <2>2
<1>4. pc'[r] \notin Critical \/ (pc[r] \in Critical /\ chat'[r] = chat[r])
  BY <1>1, <1>2
<1> QED BY <1>1, <1>3, <1>4, QuietKeepsIntact

\* A request enters: what it is shown of a loaded history is all of it.
LEMMA EnterKeepsIntact ==
    ASSUME Typed, Intact, NEW r \in Requests, Others(r), pc[r] \in {"gate", "queued"},
           NEW l \in Requests, Enter(r, l), UNCHANGED chat,
           UNCHANGED <<history, loaded, stored, dbQueue, command, log, dropped>>
    PROVE  Intact'
<1>1. /\ chat'[r] = chat[r]
      /\ chat[r] \in loaded => pc'[r] = "ask" /\ context'[r] = history[chat[r]]
      /\ chat[r] \notin loaded => pc'[r] = "read"
      /\ tainted' = tainted \cup IF Clearing(chat[r]) THEN {chat[r]} ELSE {}
  BY Entered DEF Typed
<1>2. chat'[r] \in tainted' \/ ~Clearing(chat'[r])
  BY <1>1
<1>3. Informed(r)'
  BY <1>1 DEF Informed
<1>4. tainted \subseteq tainted'
  BY <1>1
<1> QED BY <1>2, <1>3, <1>4, QuietKeepsIntact

LEMMA AdmitKeepsIntact ==
    ASSUME Typed, Intact, NEW r \in Requests, Admit(r)
    PROVE  Intact'
<1>1. PICK l : l = IF table[chat[r]] = None THEN r ELSE table[chat[r]]
  OBVIOUS
<1>2. /\ Others(r) /\ pc[r] = "gate" /\ l \in Requests
      /\ UNCHANGED <<history, loaded, stored, dbQueue, command, log, dropped>>
      /\ \/ Enter(r, l) /\ UNCHANGED chat
         \/ pc'[r] = "queued" /\ UNCHANGED tainted
  BY <1>1, AdmitTypes DEF memoryVars, dbVars
<1>3. CASE Enter(r, l) /\ UNCHANGED chat
  BY <1>2, <1>3, EnterKeepsIntact
<1>4. CASE pc'[r] = "queued" /\ UNCHANGED tainted
  <2>1. pc'[r] \notin Critical /\ Informed(r)'
    BY <1>4 DEF Critical, Informed
  <2> QED BY <1>2, <1>4, <2>1, QuietKeepsIntact
<1> QED BY <1>2, <1>3, <1>4

LEMMA WakeKeepsIntact ==
    ASSUME Typed, Locking, Intact, NEW r \in Requests, Wake(r)
    PROVE  Intact'
<1>1. Listed(r)
  BY DEF Locking
<1>2. PICK l : l = lock[r]
  OBVIOUS
<1>3. /\ Others(r) /\ pc[r] = "queued" /\ l \in Requests /\ Enter(r, l) /\ UNCHANGED chat
      /\ UNCHANGED <<history, loaded, stored, dbQueue, command, log, dropped>>
  BY <1>1, <1>2, WakeTypes DEF memoryVars, dbVars
<1> QED BY <1>3, EnterKeepsIntact

\* The rows are read: they are the end of the conversation, or it starts anew.
LEMMA ReadKeepsIntact ==
    ASSUME Typed, Locking, Owning, Intact, NEW r \in Requests, Read(r)
    PROVE  Intact'
<1>1. /\ Others(r) /\ pc[r] = "read"
      /\ UNCHANGED <<history, loaded, stored, dbQueue, command, dropped, tainted>>
      /\ \/ pc'[r] = "done" /\ UNCHANGED log
         \/ /\ pc'[r] = "extend" /\ chat'[r] = chat[r]
            /\ context'[r] = stored[chat[r]]
            /\ chat[r] \in dropped => log' = [log EXCEPT ![chat[r]] = <<>>]
            /\ chat[r] \notin dropped => UNCHANGED log
  BY ReadTypes DEF memoryVars, dbVars
<1>2. CASE pc'[r] = "done" /\ UNCHANGED log
  <2>1. pc'[r] \notin Critical /\ Informed(r)'
    BY <1>2 DEF Critical, Informed
  <2> QED BY <1>1, <1>2, <2>1, QuietKeepsIntact
<1>3. CASE /\ pc'[r] = "extend" /\ chat'[r] = chat[r]
           /\ context'[r] = stored[chat[r]]
           /\ chat[r] \in dropped => log' = [log EXCEPT ![chat[r]] = <<>>]
           /\ chat[r] \notin dropped => UNCHANGED log
  <2>1. PICK c \in Chats : c = chat[r]
    BY <1>1 DEF Typed, Asking, InChatPCs, Critical
  <2>2. pc[r] \in Critical \ {"save"}
    BY <1>1 DEF Critical
  <2>3. /\ \A d \in Chats \ {c} : log'[d] = log[d]
        /\ c \in dropped => log'[c] = <<>>
        /\ c \notin dropped => log'[c] = log[c]
    BY <1>3, <2>1 DEF Typed, Telling
  <2>4. c \notin tainted => ~Pending(c) /\ ~Clearing(c)
    BY <2>1, <2>2, NoPending
  <2>5. stored[c] \in Seq(Requests) /\ Recent(<<>>, <<>>) /\ Elements(<<>>) = {}
    <3>1. <<>> \in Seq(Requests) /\ Len(<<>>) = 0
      BY EmptySeq
    <3>2. Elements(<<>>) = {}
      BY <3>1 DEF Elements
    <3>3. Recent(<<>>, <<>>)
      BY <3>1, RecentItself
    <3> QED BY <3>2, <3>3 DEF Typed, Storing
  <2>6. ASSUME c \notin tainted PROVE Whole(c)' /\ Informed(r)'
    <3>1. Cleared(c) /\ Remembered(c) /\ Saved(c) /\ Informed(r)
      BY <2>1, <2>6 DEF Intact
    <3>2. /\ ~Pending(c) /\ ~Clearing(c) /\ ~Pending(c)' /\ ~Clearing(c)'
      BY <1>1, <2>4, <2>6 DEF Pending, Clearing
    <3>3. c \notin loaded /\ history[c] = <<>>
      BY <1>1, <2>1, <3>1 DEF Informed, Remembered
    <3>4. Recent(stored[c], log'[c]) /\ Elements(stored[c]) \subseteq Elements(log'[c])
      <4>1. CASE c \in dropped
        <5>1. stored[c] = <<>> /\ log'[c] = <<>>
          BY <2>3, <4>1 DEF Intact
        <5> QED BY <2>5, <5>1
      <4>2. CASE c \notin dropped
        BY <2>3, <3>1, <3>2, <4>2 DEF Saved
      <4> QED BY <4>1, <4>2
    <3>5. Cleared(c)' /\ Remembered(c)' /\ Saved(c)'
      BY <1>1, <3>2, <3>3, <3>4 DEF Cleared, Remembered, Saved
    <3>6. Queued(c)'
      BY <3>2 DEF Queued, Pending
    <3>7. Informed(r)'
      BY <1>1, <1>3, <2>1, <3>3, <3>4 DEF Informed
    <3> QED BY <3>5, <3>6, <3>7 DEF Whole
  <2>7. ASSUME NEW d \in Chats \ tainted' PROVE Whole(d)'
    <3>1. CASE d = c
      BY <1>1, <2>6, <2>7, <3>1
    <3>2. CASE d # c
      <4>1. Whole(d)
        BY <1>1, <2>7 DEF Intact, Whole
      <4>2. \A q \in Requests : chat'[q] = d /\ pc'[q] \in Critical =>
               chat[q] = d /\ pc[q] \in Critical
        BY <1>3, <2>1, <3>2, <1>1 DEF Others
      <4> QED BY <1>1, <2>3, <3>2, <4>1, <4>2, StillWholeQueue
    <3> QED BY <3>1, <3>2
  <2>8. ASSUME NEW q \in Requests, chat'[q] \notin tainted' PROVE Informed(q)'
    <3>1. CASE q = r
      BY <1>1, <1>3, <2>1, <2>6, <2>8, <3>1
    <3>2. CASE q # r
      <4>1. /\ pc'[q] = pc[q] /\ chat'[q] = chat[q] /\ context'[q] = context[q]
            /\ chat[q] \notin tainted /\ Informed(q)
        BY <1>1, <2>8, <3>2 DEF Others, Intact
      <4>2. pc[q] \in Critical => chat[q] \in Chats \ {c}
        <5>1. pc[q] \in Critical => chat[q] \in Chats
          BY DEF Typed, Asking, InChatPCs
        <5> QED BY <2>1, <2>2, <3>2, <4>1, <5>1, OneBusy
      <4> QED BY <1>1, <2>3, <4>1, <4>2, StillInformed
    <3> QED BY <3>1, <3>2
  <2>9. \A d \in dropped' : stored'[d] = <<>>
    BY <1>1 DEF Intact
  <2> QED BY <2>7, <2>8, <2>9 DEF Intact, Whole
<1> QED BY <1>1, <1>2, <1>3

\* The history a request makes of the rows is the end of what was said.
LEMMA ExtendKeepsIntact ==
    ASSUME Typed, Locking, Owning, Intact, NEW r \in Requests, Extend(r)
    PROVE  Intact'
<1>1. PICK c \in Chats : c = chat[r]
  BY ExtendTypes
<1>2. /\ Others(r) /\ pc[r] = "extend" /\ pc'[r] = "ask" /\ chat'[r] = c
      /\ UNCHANGED <<stored, dbQueue, command, log, dropped, tainted>>
      /\ history' = [history EXCEPT ![c] = LastOf(HistorySize, history[c] \o context[r])]
      /\ loaded' = loaded \cup {c} /\ context'[r] = history'[c]
  BY <1>1, ExtendTypes DEF dbVars, ghosts
<1>3. pc[r] \in Critical \ {"save"}
  BY <1>2 DEF Critical
<1>4. \A d \in Chats \ {c} : history'[d] = history[d] /\ (d \in loaded' <=> d \in loaded)
  BY <1>2 DEF Typed, Remembering
<1>5. ASSUME c \notin tainted PROVE Whole(c)'
  <2>1. Cleared(c) /\ Remembered(c) /\ Queued(c) /\ Saved(c) /\ Informed(r)
    BY <1>1, <1>5 DEF Intact
  <2>2. history[c] = <<>> /\ Recent(context[r], log[c])
    BY <1>1, <1>2, <2>1 DEF Informed, Remembered
  <2>3. context[r] \in Seq(Requests) /\ log[c] \in Seq(Requests)
    BY DEF Typed, Asking, Telling
  <2>4. history[c] \o context[r] = context[r]
    BY <2>2, <2>3, ConcatEmptySeq
  <2>5. history'[c] = LastOf(HistorySize, context[r])
    BY <1>2, <2>4 DEF Typed, Remembering
  <2>6. HistorySize \in Nat /\ HistorySize >= Bound
    BY ConversationAssumption DEF Bound, Lesser
  <2>7. Recent(history'[c], log'[c])
    BY <1>2, <2>2, <2>3, <2>5, <2>6, RecentTrimmed
  <2>8. ~Pending(c) /\ ~Clearing(c) /\ ~Pending(c)' /\ ~Clearing(c)'
    BY <1>1, <1>2, <1>3, <1>5, NoPending DEF Pending, Clearing
  <2>9. Remembered(c)'
    BY <1>2, <2>7 DEF Remembered
  <2>10. Cleared(c)' /\ Queued(c)' /\ Saved(c)'
    BY <1>2, <2>1, <2>8 DEF Cleared, Queued, Saved, Pending
  <2> QED BY <2>9, <2>10 DEF Whole
<1>6. ASSUME NEW d \in Chats \ tainted' PROVE Whole(d)'
  <2>1. CASE d = c
    BY <1>2, <1>5, <1>6, <2>1
  <2>2. CASE d # c
    <3>1. Whole(d)
      BY <1>2, <1>6 DEF Intact, Whole
    <3>2. \A q \in Requests : chat'[q] = d /\ pc'[q] \in Critical =>
             chat[q] = d /\ pc[q] \in Critical
      BY <1>2, <2>2 DEF Others
    <3> QED BY <1>2, <1>4, <2>2, <3>1, <3>2, StillWholeQueue
  <2> QED BY <2>1, <2>2
<1>7. ASSUME NEW q \in Requests, chat'[q] \notin tainted' PROVE Informed(q)'
  <2>1. CASE q = r
    BY <1>2, <2>1 DEF Informed
  <2>2. CASE q # r
    <3>1. /\ pc'[q] = pc[q] /\ chat'[q] = chat[q] /\ context'[q] = context[q]
          /\ chat[q] \notin tainted /\ Informed(q)
      BY <1>2, <1>7, <2>2 DEF Others, Intact
    <3>2. pc[q] \in Critical => chat[q] \in Chats \ {c}
      <4>1. pc[q] \in Critical => chat[q] \in Chats
        BY DEF Typed, Asking, InChatPCs
      <4> QED BY <1>1, <1>3, <2>2, <3>1, <4>1, OneBusy
    <3> QED BY <1>2, <1>4, <3>1, <3>2, StillInformed
  <2> QED BY <2>1, <2>2
<1>8. \A d \in dropped' : stored'[d] = <<>>
  BY <1>2 DEF Intact
<1> QED BY <1>6, <1>7, <1>8 DEF Intact, Whole

\* The turn is added to the history, to the rows that are queued, and to what
\* was said.
LEMMA AnsweredKeepsIntact ==
    ASSUME Typed, Locking, Owning, Intact, NEW r \in Requests, Answered(r)
    PROVE  Intact'
<1>1. PICK c \in Chats : c = chat[r]
  BY AnsweredTypes
<1>2. PICK op : op = [chat |-> c, by |-> r, rows |-> LastOf(StoredSize, history'[c])]
  OBVIOUS
<1>3. /\ Typed' /\ Others(r) /\ pc[r] = "generate" /\ pc'[r] = "save" /\ chat'[r] = c
      /\ UNCHANGED <<loaded, stored, command, dropped, tainted>>
      /\ history' = [history EXCEPT ![c] = LastOf(HistorySize, Append(history[c], r))]
      /\ log' = [log EXCEPT ![c] = Append(log[c], r)]
      /\ dbQueue' = Append(dbQueue, op)
  BY <1>1, <1>2, AnsweredTypes
<1>4. pc[r] \in Critical \ {"save"}
  BY <1>3 DEF Critical
<1>5. /\ \A d \in Chats \ {c} : history'[d] = history[d] /\ log'[d] = log[d]
      /\ history'[c] = LastOf(HistorySize, Append(history[c], r))
      /\ log'[c] = Append(log[c], r)
  BY <1>3 DEF Typed, Remembering, Telling
<1>6. PICK n \in Nat : n = Len(dbQueue)
  BY LenProperties DEF Typed, Storing
<1>7. /\ Len(dbQueue') = n + 1 /\ dbQueue'[n + 1] = op
      /\ \A i \in 1..n : dbQueue'[i] = dbQueue[i]
  BY <1>3, <1>6 DEF Typed, Storing
<1>8. op.chat = c /\ op.rows = LastOf(StoredSize, history'[c])
  BY <1>2
<1>9. ASSUME c \notin tainted PROVE Whole(c)' /\ c \in loaded
  <2>1. Cleared(c) /\ Remembered(c) /\ Saved(c) /\ Informed(r)
    BY <1>1, <1>9 DEF Intact
  <2>2. c \in loaded /\ Recent(history[c], log[c])
    BY <1>1, <1>3, <2>1 DEF Informed, Remembered
  <2>3. /\ history[c] \in Seq(Requests) /\ log[c] \in Seq(Requests)
        /\ history'[c] \in Seq(Requests) /\ log'[c] \in Seq(Requests)
    BY <1>3 DEF Typed, Remembering, Telling
  <2>4. /\ HistorySize \in Nat /\ HistorySize >= Bound
        /\ StoredSize \in Nat /\ StoredSize >= Bound
    BY ConversationAssumption DEF Bound, Lesser
  <2>5. Recent(Append(history[c], r), log'[c]) /\ Append(history[c], r) \in Seq(Requests)
    BY <1>5, <2>2, <2>3, RecentAppended, AppendProperties
  <2>6. Recent(history'[c], log'[c])
    BY <1>5, <2>3, <2>4, <2>5, RecentTrimmed
  <2>7. Recent(op.rows, log'[c])
    BY <1>8, <2>3, <2>4, <2>6, RecentTrimmed
  <2>8. ~Pending(c) /\ ~Clearing(c) /\ ~Clearing(c)'
    BY <1>1, <1>3, <1>4, <1>9, NoPending DEF Clearing
  <2>9. Remembered(c)' /\ Cleared(c)'
    BY <1>3, <2>2, <2>6, <2>8 DEF Remembered, Cleared
  <2>10. Queued(c)'
    <3>1. ASSUME NEW i \in 1..(n + 1), dbQueue'[i].chat = c PROVE Recent(dbQueue'[i].rows, log'[c])
      <4>1. i \notin 1..n
        BY <1>6, <1>7, <2>8, <3>1 DEF Pending
      <4>2. i = n + 1
        BY <4>1
      <4> QED BY <1>7, <2>7, <4>2
    <3> QED BY <1>7, <3>1 DEF Queued
  <2>11. Saved(c)'
    <3>1. n + 1 \in 1..Len(dbQueue') /\ dbQueue'[n + 1].chat = c
      BY <1>7, <1>8
    <3>2. Pending(c)'
      BY <3>1 DEF Pending
    <3>3. Elements(log[c]) \subseteq Elements(log'[c])
      <4>1. /\ Len(log'[c]) = Len(log[c]) + 1 /\ Len(log[c]) \in Nat
            /\ \A i \in 1..Len(log[c]) : log'[c][i] = log[c][i]
        BY <1>5, <2>3
      <4> QED BY <4>1 DEF Elements
    <3>4. Elements(stored'[c]) \subseteq Elements(log'[c])
      BY <1>3, <2>1, <2>8, <3>3 DEF Saved
    <3> QED BY <3>2, <3>4 DEF Saved
  <2> QED BY <2>2, <2>9, <2>10, <2>11 DEF Whole
<1>10. ASSUME NEW d \in Chats \ tainted' PROVE Whole(d)'
  <2>1. CASE d = c
    BY <1>3, <1>9, <1>10, <2>1
  <2>2. CASE d # c
    <3>1. Whole(d)
      BY <1>3, <1>10 DEF Intact, Whole
    <3>2. \A q \in Requests : chat'[q] = d /\ pc'[q] \in Critical =>
             chat[q] = d /\ pc[q] \in Critical
      BY <1>3, <2>2 DEF Others
    <3>3. Clearing(d)' <=> Clearing(d)
      BY <1>3 DEF Clearing
    <3>4. Pending(d) => Pending(d)'
      BY <1>6, <1>7 DEF Pending
    <3>5. \A i \in 1..Len(dbQueue') : dbQueue'[i].chat = d =>
             \E j \in 1..Len(dbQueue) : dbQueue[j] = dbQueue'[i]
      <4>1. \A i \in 1..(n + 1) : i \in 1..n \/ i = n + 1
        OBVIOUS
      <4> QED BY <1>6, <1>7, <1>8, <2>2, <4>1
    <3> QED BY <1>3, <1>5, <2>2, <3>1, <3>2, <3>3, <3>4, <3>5, StillWhole
  <2> QED BY <2>1, <2>2
<1>11. ASSUME NEW q \in Requests, chat'[q] \notin tainted' PROVE Informed(q)'
  <2>1. CASE q = r
    BY <1>3, <1>9, <1>11, <2>1 DEF Informed
  <2>2. CASE q # r
    <3>1. /\ pc'[q] = pc[q] /\ chat'[q] = chat[q] /\ context'[q] = context[q]
          /\ chat[q] \notin tainted /\ Informed(q)
      BY <1>3, <1>11, <2>2 DEF Others, Intact
    <3>2. pc[q] \in Critical => chat[q] \in Chats \ {c}
      <4>1. pc[q] \in Critical => chat[q] \in Chats
        BY DEF Typed, Asking, InChatPCs
      <4> QED BY <1>1, <1>4, <2>2, <3>1, <4>1, OneBusy
    <3> QED BY <1>3, <1>5, <3>1, <3>2, StillInformed
  <2> QED BY <2>1, <2>2
<1>12. \A d \in dropped' : stored'[d] = <<>>
  BY <1>3 DEF Intact
<1> QED BY <1>10, <1>11, <1>12 DEF Intact, Whole

\* A message sweeps chats nobody works on.
LEMMA ReceiveKeepsIntact ==
    ASSUME Typed, Locking, Intact, NEW r \in Requests, NEW c \in Chats, Receive(r, c)
    PROVE  Intact'
<1>1. /\ Others(r) /\ pc'[r] \in {"gate", "done"}
      /\ UNCHANGED <<waiting, stored, dbQueue, command, log, dropped>>
  BY ReceiveTypes DEF dbVars
<1>2. PICK gone \in SUBSET Chats : Touch(c, gone)
  BY DEF Receive
<1>3. /\ \A d \in Chats \ gone : history'[d] = history[d] /\ (d \in loaded' <=> d \in loaded)
      /\ \A d \in gone : history'[d] = <<>> /\ d \notin loaded'
      /\ tainted \subseteq tainted'
  BY <1>2 DEF Touch
<1>4. pc'[r] \notin Critical
  BY <1>1 DEF Critical
<1>5. ASSUME NEW d \in Chats \ tainted' PROVE Whole(d)'
  <2>1. Whole(d)
    BY <1>3, <1>5 DEF Intact, Whole
  <2>2. \A q \in Requests : chat'[q] = d /\ pc'[q] \in Critical =>
           chat[q] = d /\ pc[q] \in Critical
    BY <1>1, <1>4 DEF Others
  <2>3. CASE d \notin gone
    BY <1>1, <1>3, <2>1, <2>2, <2>3, StillWholeQueue
  <2>4. CASE d \in gone
    <3>1. Remembered(d)'
      BY <1>3, <2>4 DEF Remembered
    <3>2. Cleared(d)'
      BY <1>1, <2>1, <2>2 DEF Whole, Cleared, Clearing
    <3>3. Queued(d)'
      BY <1>1, <2>1 DEF Whole, Queued
    <3>4. Saved(d)'
      BY <1>1, <2>1 DEF Whole, Saved, Pending, Clearing
    <3> QED BY <3>1, <3>2, <3>3, <3>4 DEF Whole
  <2> QED BY <2>3, <2>4
<1>6. ASSUME NEW q \in Requests, chat'[q] \notin tainted' PROVE Informed(q)'
  <2>1. CASE q = r
    BY <1>1, <2>1 DEF Informed
  <2>2. CASE q # r
    <3>1. /\ pc'[q] = pc[q] /\ chat'[q] = chat[q] /\ context'[q] = context[q]
          /\ chat[q] \notin tainted' /\ Informed(q)
      BY <1>1, <1>3, <1>6, <2>2 DEF Others, Intact
    <3>2. pc[q] \in Critical => chat[q] \in Chats \ gone
      <4>1. pc[q] \in Critical => pc[q] \in InChatPCs \ {"gate"}
        BY DEF InChatPCs, Critical
      <4>2. pc[q] \in Critical => chat[q] \in Chats
        BY <4>1 DEF Typed, Asking
      <4> QED BY <1>1, <1>2, <3>1, <4>1, <4>2, Unused
    <3> QED BY <1>1, <1>3, <3>1, <3>2, StillInformed
  <2> QED BY <2>1, <2>2
<1>7. \A d \in dropped' : stored'[d] = <<>>
  BY <1>1 DEF Intact
<1> QED BY <1>5, <1>6, <1>7 DEF Intact, Whole

\* A command forgets what was said; a chat it finds at work is tainted.
LEMMA ResetKeepsIntact ==
    ASSUME Typed, Owning, Intact, NEW k \in Commands, NEW c \in Chats, Reset(k, c)
    PROVE  Intact'
<1>1. PICK op : op = [chat |-> c, by |-> k, rows |-> <<>>]
  OBVIOUS
<1>2. /\ command[k].pc = "new"
      /\ UNCHANGED <<pc, chat, context, stored, dropped>>
      /\ history' = [history EXCEPT ![c] = <<>>] /\ loaded' = loaded \ {c}
      /\ log' = [log EXCEPT ![c] = <<>>]
      /\ dbQueue' = Append(dbQueue, op)
      /\ command'[k].pc = "clear" /\ command'[k].chat = c
      /\ \A j \in Commands \ {k} : command'[j] = command[j]
      /\ tainted' = tainted \cup IF Busy(c) # {} THEN {c} ELSE {}
  BY <1>1, ResetTypes
<1>3. /\ \A d \in Chats \ {c} : /\ history'[d] = history[d] /\ log'[d] = log[d]
                                /\ d \in loaded' <=> d \in loaded
      /\ history'[c] = <<>> /\ log'[c] = <<>> /\ c \notin loaded'
  BY <1>2 DEF Typed, Remembering, Telling
<1>4. PICK n \in Nat : n = Len(dbQueue)
  BY LenProperties DEF Typed, Storing
<1>5. /\ Len(dbQueue') = n + 1 /\ dbQueue'[n + 1] = op
      /\ \A i \in 1..n : dbQueue'[i] = dbQueue[i]
      /\ \A i \in 1..(n + 1) : i \in 1..n \/ i = n + 1
  BY <1>2, <1>4 DEF Typed, Storing
<1>6. op.chat = c /\ op.rows = <<>>
  BY <1>1
<1>7. /\ tainted \subseteq tainted'
      /\ c \notin tainted' => Busy(c) = {}
  BY <1>2
<1>8. Recent(<<>>, <<>>)
  BY EmptySeq, RecentItself
<1>9. ASSUME c \notin tainted' PROVE Whole(c)'
  <2>1. \A q \in Requests : chat[q] = c => pc[q] \notin Critical
    BY <1>7, <1>9 DEF Busy, InChat
  <2>2. Cleared(c)' /\ Remembered(c)'
    BY <1>2, <1>3, <2>1 DEF Cleared, Remembered
  <2>3. ASSUME NEW i \in 1..(n + 1), dbQueue'[i].chat = c PROVE dbQueue'[i].rows = <<>>
    <3>1. CASE i = n + 1
      BY <1>5, <1>6, <3>1
    <3>2. CASE i \in 1..n
      <4>1. Owned(dbQueue[i]) /\ dbQueue[i].chat = c /\ dbQueue'[i] = dbQueue[i]
        BY <1>4, <1>5, <2>3, <3>2 DEF Owning
      <4>2. "save" \in Critical
        BY DEF Critical
      <4> QED BY <2>1, <4>1, <4>2 DEF Owned
    <3> QED BY <1>5, <3>1, <3>2
  <2>4. Queued(c)'
    BY <1>3, <1>5, <1>8, <2>3 DEF Queued
  <2>5. Pending(c)'
    <3>1. n + 1 \in 1..Len(dbQueue') /\ dbQueue'[n + 1].chat = c
      BY <1>5, <1>6
    <3> QED BY <3>1 DEF Pending
  <2>6. Clearing(c)'
    BY <1>2 DEF Clearing
  <2> QED BY <2>2, <2>4, <2>5, <2>6 DEF Whole, Saved
<1>10. ASSUME NEW d \in Chats \ tainted' PROVE Whole(d)'
  <2>1. CASE d = c
    BY <1>9, <1>10, <2>1
  <2>2. CASE d # c
    <3>1. Whole(d)
      BY <1>7, <1>10 DEF Intact, Whole
    <3>2. Clearing(d)' <=> Clearing(d)
      BY <1>2, <2>2 DEF Clearing
    <3>3. Pending(d) => Pending(d)'
      BY <1>4, <1>5 DEF Pending
    <3>4. \A i \in 1..Len(dbQueue') : dbQueue'[i].chat = d =>
             \E j \in 1..Len(dbQueue) : dbQueue[j] = dbQueue'[i]
      BY <1>4, <1>5, <1>6, <2>2
    <3> QED BY <1>2, <1>3, <2>2, <3>1, <3>2, <3>3, <3>4, StillWhole
  <2> QED BY <2>1, <2>2
<1>11. ASSUME NEW q \in Requests, chat'[q] \notin tainted' PROVE Informed(q)'
  <2>1. Informed(q) /\ chat'[q] = chat[q] /\ chat[q] \notin tainted'
    BY <1>2, <1>7, <1>11 DEF Intact
  <2>2. pc[q] \in Critical => chat[q] \in Chats \ {c}
    <3>1. pc[q] \in Critical => chat[q] \in Chats
      BY DEF Typed, Asking, InChatPCs
    <3> QED BY <1>7, <2>1, <3>1 DEF Busy, InChat
  <2> QED BY <1>2, <1>3, <2>1, <2>2, StillInformed
<1>12. \A d \in dropped' : stored'[d] = <<>>
  BY <1>2 DEF Intact
<1> QED BY <1>10, <1>11, <1>12 DEF Intact, Whole

LEMMA SwitchKeepsIntact ==
    ASSUME Typed, Intact, NEW k \in Commands, NEW c \in Chats, NEW on \in BOOLEAN,
           Switch(k, c, on)
    PROVE  Intact'
<1>1. /\ UNCHANGED <<pc, chat, context, history, loaded, stored, dbQueue, log, dropped, tainted>>
      /\ command[k].pc = "new" /\ command'[k].pc = "switched"
      /\ \A j \in Commands \ {k} : command'[j] = command[j]
  BY SwitchTypes DEF memoryVars, dbVars, ghosts
<1>2. ASSUME NEW d \in Chats \ tainted' PROVE Whole(d)'
  <2>1. Whole(d)
    BY <1>1, <1>2 DEF Intact, Whole
  <2>2. Clearing(d)' <=> Clearing(d)
    BY <1>1 DEF Clearing
  <2>3. Pending(d) => Pending(d)'
    BY <1>1 DEF Pending
  <2>4. \A i \in 1..Len(dbQueue') : dbQueue'[i].chat = d =>
           \E j \in 1..Len(dbQueue) : dbQueue[j] = dbQueue'[i]
    BY <1>1
  <2> QED BY <1>1, <2>1, <2>2, <2>3, <2>4, StillWhole
<1>3. ASSUME NEW q \in Requests, chat'[q] \notin tainted' PROVE Informed(q)'
  <2>1. Informed(q)
    BY <1>1, <1>3 DEF Intact
  <2> QED BY <1>1, <2>1, StillInformed
<1>4. \A d \in dropped' : stored'[d] = <<>>
  BY <1>1 DEF Intact
<1> QED BY <1>2, <1>3, <1>4 DEF Intact, Whole

\* The rows written are the end of what was said; a failure taints the chat.
LEMMA CommitKeepsIntact ==
    ASSUME Typed, Owning, Intact, Commit
    PROVE  Intact'
<1>1. PICK op : op = Head(dbQueue)
  OBVIOUS
<1>2. /\ op \in Ops /\ Written(op) /\ Owned(op)
      /\ UNCHANGED <<history, loaded, log>>
      /\ \/ /\ op.by \in Requests /\ Others(op.by) /\ UNCHANGED command
            /\ pc'[op.by] = "done"
         \/ /\ op.by \in Commands /\ UNCHANGED <<pc, chat, lock, context>>
            /\ command'[op.by].pc \in {"told", "failed"}
            /\ \A j \in Commands \ {op.by} : command'[j] = command[j]
  BY <1>1, CommitTypes DEF memoryVars
<1>3. /\ op = dbQueue[1] /\ 1 \in 1..Len(dbQueue)
      /\ \A i \in 1..Len(dbQueue') : i + 1 \in 1..Len(dbQueue) /\ dbQueue'[i] = dbQueue[i + 1]
      /\ Len(dbQueue') = Len(dbQueue) - 1 /\ Len(dbQueue) \in Nat
  BY <1>1, CommitTypes, Called DEF Typed, Storing
<1>4. PICK c \in Chats : c = op.chat
  BY <1>2 DEF Ops
<1>5. \/ /\ c \notin dropped' /\ stored'[c] = op.rows
         /\ \A d \in Chats \ {c} :
               \/ stored'[d] = stored[d] /\ (d \in dropped' <=> d \in dropped)
               \/ stored'[d] = <<>> /\ d \in dropped'
         /\ UNCHANGED tainted
      \/ /\ UNCHANGED <<stored, dropped>>
         /\ tainted' = tainted \cup {c}
  BY <1>2, <1>4 DEF Written
<1>6. tainted \subseteq tainted'
  BY <1>5
<1>7. \A q \in Requests : pc'[q] \in Critical =>
         /\ pc'[q] = pc[q] /\ chat'[q] = chat[q] /\ context'[q] = context[q]
  <2>1. "done" \notin Critical
    BY DEF Critical
  <2> QED BY <1>2, <2>1 DEF Others
<1>8. ASSUME NEW d \in Chats PROVE Clearing(d)' => Clearing(d)
  <2>1. \A j \in Commands : command'[j].pc = "clear" => command'[j] = command[j]
    BY <1>2
  <2> QED BY <2>1 DEF Clearing
<1>9. ASSUME c \notin tainted' PROVE Whole(c)'
  <2>1. c \notin dropped' /\ stored'[c] = op.rows /\ c \notin tainted
    BY <1>5, <1>9
  <2>2. Cleared(c) /\ Remembered(c) /\ Queued(c)
    BY <2>1 DEF Intact
  <2>3. Recent(op.rows, log[c])
    BY <1>3, <1>4, <2>2 DEF Queued
  <2>4. Cleared(c)'
    BY <1>2, <1>7, <1>8, <2>2 DEF Cleared
  <2>5. Remembered(c)'
    BY <1>2, <2>2 DEF Remembered
  <2>6. Queued(c)'
    BY <1>2, <1>3, <2>2 DEF Queued
  <2>7. Elements(op.rows) \subseteq Elements(log[c])
    <3>1. op.rows \in Seq(Requests) /\ log[c] \in Seq(Requests)
      BY <1>2 DEF Ops, Typed, Telling
    <3> QED BY <2>3, <3>1, RecentElements
  <2>8. Saved(c)'
    BY <1>2, <2>1, <2>3, <2>7 DEF Saved
  <2> QED BY <2>4, <2>5, <2>6, <2>8 DEF Whole
<1>10. ASSUME NEW d \in Chats \ tainted' PROVE Whole(d)'
  <2>1. CASE d = c
    BY <1>9, <1>10, <2>1
  <2>2. CASE d # c
    <3>1. Whole(d)
      BY <1>6, <1>10 DEF Intact, Whole
    <3>2. Clearing(d)' <=> Clearing(d)
      <4>1. ASSUME NEW j \in Commands, command[j].pc = "clear", command[j].chat = d
            PROVE  command'[j] = command[j]
        BY <1>2, <1>4, <2>2, <4>1, ConversationAssumption DEF Owned
      <4> QED BY <1>8, <4>1 DEF Clearing
    <3>3. Pending(d) => Pending(d)'
      <4>1. ASSUME NEW i \in 1..Len(dbQueue), dbQueue[i].chat = d
            PROVE  \E j \in 1..Len(dbQueue') : dbQueue'[j].chat = d
        <5>1. i # 1
          BY <1>3, <1>4, <2>2, <4>1
        <5>2. i - 1 \in 1..Len(dbQueue') /\ (i - 1) + 1 = i
          BY <1>3, <5>1
        <5>3. dbQueue'[i - 1] = dbQueue[i]
          BY <1>3, <5>2
        <5> QED BY <4>1, <5>2, <5>3
      <4> QED BY <4>1 DEF Pending
    <3>4. \A i \in 1..Len(dbQueue') : dbQueue'[i].chat = d =>
             \E j \in 1..Len(dbQueue) : dbQueue[j] = dbQueue'[i]
      BY <1>3
    <3>5. \A q \in Requests : chat'[q] = d /\ pc'[q] \in Critical =>
             chat[q] = d /\ pc[q] \in Critical
      BY <1>7
    <3>6. CASE stored'[d] = stored[d] /\ (d \in dropped' <=> d \in dropped)
      BY <1>2, <3>1, <3>2, <3>3, <3>4, <3>5, <3>6, StillWhole
    <3>7. CASE stored'[d] = <<>> /\ d \in dropped'
      <4>1. Cleared(d)' /\ Remembered(d)'
        BY <1>2, <3>1, <3>2, <3>5 DEF Whole, Cleared, Remembered
      <4>2. Queued(d)'
        BY <1>2, <1>3, <3>1 DEF Whole, Queued
      <4>3. Elements(stored'[d]) = {}
        <5>1. Len(<<>>) = 0
          BY EmptySeq
        <5> QED BY <3>7, <5>1 DEF Elements
      <4>4. Saved(d)'
        BY <3>7, <4>3 DEF Saved
      <4> QED BY <4>1, <4>2, <4>4 DEF Whole
    <3> QED BY <1>5, <2>2, <3>6, <3>7
  <2> QED BY <2>1, <2>2
<1>11. ASSUME NEW q \in Requests, chat'[q] \notin tainted' PROVE Informed(q)'
  <2>1. CASE pc'[q] \in Critical
    <3>1. Informed(q)
      BY <1>6, <1>7, <1>11, <2>1 DEF Intact
    <3> QED BY <1>2, <1>7, <2>1, <3>1, StillInformed
  <2>2. CASE pc'[q] \notin Critical
    BY <2>2 DEF Informed, Critical
  <2> QED BY <2>1, <2>2
<1>12. \A d \in dropped' : stored'[d] = <<>>
  <2>1. dropped' \subseteq Chats
    BY <1>1, CommitTypes DEF Typed, Telling
  <2> QED BY <1>5, <2>1 DEF Intact
<1> QED BY <1>10, <1>11, <1>12 DEF Intact, Whole

\* Where everything is forgotten but the rows, the rows are what was said.
LEMMA RestartKeepsIntact ==
    ASSUME Typed, Restart
    PROVE  Intact'
<1>1. /\ Typed' /\ UNCHANGED <<stored, tainted>>
      /\ dbQueue' = <<>> /\ loaded' = {} /\ dropped' = {} /\ log' = stored
      /\ \A c \in Chats : history'[c] = <<>>
      /\ \A r \in Requests : pc'[r] \in {"new", "done", "lost"}
      /\ \A k \in Commands : command'[k].pc # "clear"
  BY RestartTypes
<1>2. Len(<<>>) = 0
  BY EmptySeq
<1>3. ASSUME NEW c \in Chats PROVE Cleared(c)' /\ Remembered(c)' /\ Queued(c)' /\ Saved(c)'
  <2>1. ~Clearing(c)' /\ Cleared(c)'
    BY <1>1 DEF Cleared, Clearing
  <2>2. Remembered(c)'
    BY <1>1 DEF Remembered
  <2>3. Queued(c)'
    BY <1>1, <1>2 DEF Queued
  <2>4. stored[c] \in Seq(Requests)
    BY DEF Typed, Storing
  <2>5. Recent(stored'[c], log'[c])
    BY <1>1, <2>4, RecentItself
  <2>6. Saved(c)'
    BY <1>1, <2>5 DEF Saved
  <2> QED BY <2>1, <2>2, <2>3, <2>6
<1>4. ASSUME NEW r \in Requests PROVE Informed(r)'
  BY <1>1 DEF Informed
<1> QED BY <1>1, <1>3, <1>4 DEF Intact

LEMMA NextIntact == IndInv /\ [Next]_vars => Intact'
<1> SUFFICES ASSUME IndInv, [Next]_vars PROVE Intact'
  OBVIOUS
<1> USE DEF IndInv
<1>1. ASSUME NEW r \in Requests, Proceed(r) PROVE Intact'
  BY <1>1, PassKeepsIntact, AdmitKeepsIntact, WakeKeepsIntact, ReadKeepsIntact,
     ExtendKeepsIntact, AnsweredKeepsIntact DEF Proceed, Passes
<1>2. ASSUME NEW r \in Requests, NEW c \in Chats, Receive(r, c) PROVE Intact'
  BY <1>2, ReceiveKeepsIntact
<1>3. ASSUME NEW k \in Commands, NEW c \in Chats,
             Reset(k, c) \/ Switch(k, c, TRUE) \/ Switch(k, c, FALSE)
      PROVE  Intact'
  BY <1>3, ResetKeepsIntact, SwitchKeepsIntact
<1>4. CASE Commit \/ Restart
  BY <1>4, CommitKeepsIntact, RestartKeepsIntact
<1>5. CASE UNCHANGED vars
  <2>1. UNCHANGED <<pc, chat, context, history, loaded, stored, dbQueue, command,
                    log, dropped, tainted>>
    BY <1>5 DEF vars, memoryVars, dbVars, ghosts
  <2>2. ASSUME NEW c \in Chats \ tainted' PROVE Whole(c)'
    <3>1. Whole(c)
      BY <2>1, <2>2 DEF Intact, Whole
    <3> QED BY <2>1, <3>1, StillWholeQueue
  <2>3. ASSUME NEW q \in Requests, chat'[q] \notin tainted' PROVE Informed(q)'
    BY <2>1, <2>3, StillInformed DEF Intact
  <2>4. \A d \in dropped' : stored'[d] = <<>>
    BY <2>1 DEF Intact
  <2> QED BY <2>2, <2>3, <2>4 DEF Intact, Whole
<1> QED BY <1>1, <1>2, <1>3, <1>4, <1>5 DEF Next

-----------------------------------------------------------------------------
(* The theorems *)

LEMMA InitIndInv == Init => IndInv
<1> SUFFICES ASSUME Init PROVE IndInv
  OBVIOUS
<1>1. /\ <<>> \in Seq(Requests) /\ <<>> \in Seq(Chats) /\ <<>> \in Seq(Ops) /\ Len(<<>>) = 0
  BY EmptySeq
<1>2. "new" \in PCs \ InChatPCs /\ "new" \notin Critical
  BY DEF PCs, InChatPCs, Critical
<1>3. Typed
  <2>1. Asking /\ Tables
    BY <1>1, <1>2 DEF Init, Asking, Tables
  <2>2. Remembering /\ Storing /\ Telling
    BY <1>1, ConversationAssumption DEF Init, Remembering, Storing, Telling
  <2>3. Commanding /\ restarts \in 0..MaxRestarts
    BY ConversationAssumption DEF Init, Commanding, CommandPCs
  <2> QED BY <2>1, <2>2, <2>3 DEF Typed
<1>4. Locking
  BY <1>2, ConversationAssumption DEF Init, Locking, Unmade, Listed, Current, Alone
<1>5. Owning
  BY <1>1 DEF Init, Owning
<1>6. Intact
  <2>1. ASSUME NEW c \in Chats PROVE Cleared(c) /\ Remembered(c) /\ Queued(c) /\ Saved(c)
    <3>1. ~Clearing(c) /\ Cleared(c) /\ Remembered(c)
      BY DEF Init, Clearing, Cleared, Remembered
    <3>2. Queued(c)
      BY <1>1 DEF Init, Queued
    <3>3. Recent(stored[c], log[c])
      BY <1>1, RecentItself DEF Init
    <3>4. Saved(c)
      BY <3>3 DEF Init, Saved
    <3> QED BY <3>1, <3>2, <3>4
  <2>2. ASSUME NEW r \in Requests PROVE Informed(r)
    BY DEF Init, Informed
  <2> QED BY <2>1, <2>2 DEF Init, Intact
<1> QED BY <1>3, <1>4, <1>5, <1>6 DEF IndInv

\* Every step keeps the inductive invariant.
LEMMA NextIndInv == IndInv /\ [Next]_vars => IndInv'
BY NextTyped, NextLocking, NextOwning, NextIntact DEF IndInv

LEMMA Invariance == Spec => []IndInv
<1>1. Init => IndInv
  BY InitIndInv
<1>2. IndInv /\ [Next]_vars => IndInv'
  BY NextIndInv
<1> QED BY <1>1, <1>2, PTL DEF Spec

\* The variables have their types; a history is no longer than
\* MAX_HISTORY_MESSAGES, the rows of a chat no more than MAX_HISTORY_ITEMS.
THEOREM Typing == Spec => []TypeOK
<1>1. IndInv => TypeOK
  <2>1. ASSUME IndInv, NEW i \in 1..Len(dbQueue) PROVE dbQueue[i].chat \in Chats
    <3>1. dbQueue[i] \in Ops
      BY <2>1 DEF IndInv, Typed, Storing
    <3> QED BY <3>1 DEF Ops
  <2> QED BY <2>1 DEF IndInv, Typed, Asking, Tables, Remembering, Storing, Commanding, Telling, TypeOK
<1> QED BY <1>1, Invariance, PTL

\* Whatever the sweep drops from _chat_locks and however the requests wait for
\* their locks, one request of a chat at a time works on its history.
THEOREM RequestsOfAChatTakeTurns == Spec => []OneAtATime
<1>1. ASSUME IndInv, NEW c \in Chats \ tainted PROVE Cardinality(Busy(c)) <= 1
  <2>1. \A q, r \in Busy(c) : q = r
    BY <1>1, OneBusy DEF IndInv, Busy, InChat
  <2>2. CASE Busy(c) = {}
    BY <2>2, FS_EmptySet
  <2>3. ASSUME NEW r \in Busy(c) PROVE Cardinality(Busy(c)) <= 1
    <3>1. Busy(c) = {r}
      BY <2>1, <2>3
    <3> QED BY <3>1, FS_Singleton
  <2> QED BY <2>2, <2>3
<1>2. IndInv => OneAtATime
  BY <1>1 DEF OneAtATime
<1> QED BY <1>2, Invariance, PTL

\* The model is shown the end of the conversation, whatever was swept,
\* reloaded, trimmed, saved late or lost in a restart.
THEOREM TheModelSeesTheRecentTurns == Spec => []ContextIsRecent
<1>1. ASSUME IndInv, NEW r \in Requests, pc[r] \in {"ask", "generate"}, chat[r] \notin tainted
      PROVE  Recent(context[r], log[chat[r]])
  <2>1. chat[r] \in Chats /\ Informed(r)
    BY <1>1 DEF IndInv, Intact, Typed, Asking, InChatPCs, Critical
  <2>2. Remembered(chat[r])
    BY <1>1, <2>1 DEF IndInv, Intact
  <2> QED BY <1>1, <2>1, <2>2 DEF Informed, Remembered
<1>2. IndInv => ContextIsRecent
  BY <1>1 DEF ContextIsRecent
<1> QED BY <1>2, Invariance, PTL

\* When a command has told that a chat is forgotten, no turn of before it is
\* left in the table or the database.
THEOREM WhatIsForgottenStaysForgotten == Spec => []ForgottenForGood
<1>1. ASSUME IndInv, NEW c \in Chats \ tainted, ~Clearing(c)
      PROVE  Elements(history[c]) \cup Elements(stored[c]) \subseteq Elements(log[c])
  <2>1. Remembered(c) /\ Saved(c)
    BY <1>1 DEF IndInv, Intact
  <2>2. Elements(history[c]) \subseteq Elements(log[c])
    <3>1. history[c] \in Seq(Requests) /\ log[c] \in Seq(Requests)
      BY <1>1 DEF IndInv, Typed, Remembering, Telling
    <3>2. CASE c \in loaded
      BY <2>1, <3>1, <3>2, RecentElements DEF Remembered
    <3>3. CASE c \notin loaded
      <4>1. Len(<<>>) = 0 /\ history[c] = <<>>
        BY <2>1, <3>3, EmptySeq DEF Remembered
      <4> QED BY <4>1 DEF Elements
    <3> QED BY <3>2, <3>3
  <2> QED BY <1>1, <2>1, <2>2 DEF Saved
<1>2. ASSUME IndInv, NEW k \in Commands, command[k].pc = "told", command[k].chat \notin tainted,
             ~Clearing(command[k].chat)
      PROVE  LET c == command[k].chat IN
             Elements(history[c]) \cup Elements(stored[c]) \subseteq Elements(log[c])
  <2>1. command[k].chat \in Chats
    BY <1>2 DEF IndInv, Typed, Commanding
  <2> QED BY <1>1, <1>2, <2>1
<1>3. IndInv => ForgottenForGood
  BY <1>2 DEF ForgottenForGood
<1> QED BY <1>3, Invariance, PTL

-----------------------------------------------------------------------------
(* Who waits *)

\* The lines stay when nobody who waits moves.
LEMMA LinesKept ==
    ASSUME Typed, Lining, UNCHANGED waiting, NEW r, pc[r] # "queued",
           \/ UNCHANGED <<pc, lock>>
           \/ r \in Requests /\ Others(r)
    PROVE  Lining'
<1>1. ASSUME NEW l \in Requests, NEW i \in 1..Len(waiting[l])
      PROVE  pc'[waiting[l][i]] = "queued" /\ lock'[waiting[l][i]] = l
  <2>1. PICK q : q = waiting[l][i]
    OBVIOUS
  <2>2. q \in Requests /\ pc[q] = "queued" /\ lock[q] = l
    BY <2>1, ElementOfSeq DEF Typed, Tables, Lining, InLine
  <2> QED BY <2>1, <2>2 DEF Others
<1> QED BY <1>1 DEF Lining, InLine

LEMMA WakeKeepsLines ==
    ASSUME Typed, Locking, Lining, NEW r \in Requests, Wake(r)
    PROVE  Lining'
<1>1. PICK l \in Requests : l = lock[r] /\ pc[r] = "queued"
  BY DEF Wake, Typed, Asking, InChatPCs
<1>2. Listed(r)
  BY DEF Locking
<1>3. /\ Others(r) /\ waiting[l] # <<>> /\ Head(waiting[l]) = r
      /\ waiting' = [waiting EXCEPT ![l] = Tail(waiting[l])]
  BY <1>1, <1>2, WakeTypes
<1>4. PICK w \in Seq(Requests) : w = waiting[l]
  BY DEF Typed, Tables
<1>5. PICK v : v = waiting'[l]
  OBVIOUS
<1>6. v = Tail(w) /\ w # <<>> /\ \A m \in Requests \ {l} : waiting'[m] = waiting[m]
  BY <1>3, <1>4, <1>5 DEF Typed, Tables
<1>7. Len(w) \in Nat /\ 1 \in 1..Len(w) /\ w[1] = r
  BY <1>3, <1>4, <1>6
<1>8. /\ Len(v) = Len(w) - 1
      /\ \A i \in 1..Len(v) : i + 1 \in 1..Len(w) /\ v[i] = w[i + 1]
  <2>1. Len(v) = Len(w) - 1 /\ \A i \in 1..Len(v) : v[i] = w[i + 1]
    BY <1>6, HeadTailProperties
  <2> QED BY <1>7, <2>1
<1>9. /\ \A i \in 1..Len(w) : w[i] \in Requests /\ pc[w[i]] = "queued" /\ lock[w[i]] = l
      /\ \A i, j \in 1..Len(w) : w[i] = w[j] => i = j
  BY <1>4, ElementOfSeq DEF Lining, InLine
<1>10. InLine(l)'
  <2>1. ASSUME NEW i \in 1..Len(v)
        PROVE  v[i] \in Requests \ {r} /\ pc[v[i]] = "queued" /\ lock[v[i]] = l
    <3>1. v[i] = w[i + 1] /\ i + 1 # 1 /\ i + 1 \in 1..Len(w)
      BY <1>7, <1>8
    <3> QED BY <1>7, <1>9, <3>1
  <2>2. ASSUME NEW i \in 1..Len(v) PROVE pc'[v[i]] = "queued" /\ lock'[v[i]] = l
    BY <1>3, <2>1 DEF Others
  <2>3. ASSUME NEW i \in 1..Len(v), NEW j \in 1..Len(v), v[i] = v[j] PROVE i = j
    <3>1. i + 1 \in 1..Len(w) /\ j + 1 \in 1..Len(w) /\ w[i + 1] = w[j + 1]
      BY <1>8, <2>3
    <3>2. i + 1 = j + 1
      BY <1>9, <3>1
    <3> QED BY <1>7, <1>8, <3>2
  <2> QED BY <1>5, <2>2, <2>3 DEF InLine
<1>11. ASSUME NEW m \in Requests \ {l} PROVE InLine(m)'
  <2>1. PICK u \in Seq(Requests) : u = waiting[m] /\ u = waiting'[m]
    BY <1>6 DEF Typed, Tables
  <2>2. ASSUME NEW i \in 1..Len(u) PROVE u[i] \in Requests \ {r} /\ pc[u[i]] = "queued" /\ lock[u[i]] = m
    <3>1. u[i] \in Requests
      BY <2>1, ElementOfSeq
    <3>2. pc[u[i]] = "queued" /\ lock[u[i]] = m
      BY <2>1 DEF Lining, InLine
    <3> QED BY <1>1, <3>1, <3>2
  <2>3. ASSUME NEW i \in 1..Len(u) PROVE pc'[u[i]] = "queued" /\ lock'[u[i]] = m
    BY <1>3, <2>2 DEF Others
  <2> QED BY <2>1, <2>3 DEF Lining, InLine
<1> QED BY <1>10, <1>11 DEF Lining

LEMMA AdmitKeepsLines ==
    ASSUME Typed, Lining, NEW r \in Requests, Admit(r)
    PROVE  Lining'
<1>1. PICK l : l = IF table[chat[r]] = None THEN r ELSE table[chat[r]]
  OBVIOUS
<1>2. /\ Others(r) /\ pc[r] = "gate" /\ l \in Requests /\ lock'[r] = l
      /\ \/ UNCHANGED waiting
         \/ waiting' = [waiting EXCEPT ![l] = Append(waiting[l], r)] /\ pc'[r] = "queued"
  BY <1>1, AdmitTypes
<1>3. CASE UNCHANGED waiting
  BY <1>2, <1>3, LinesKept
<1>4. CASE waiting' = [waiting EXCEPT ![l] = Append(waiting[l], r)] /\ pc'[r] = "queued"
  <2>1. PICK w \in Seq(Requests) : w = waiting[l]
    BY <1>2 DEF Typed, Tables
  <2>2. PICK v : v = waiting'[l]
    OBVIOUS
  <2>3. v = Append(w, r) /\ \A m \in Requests \ {l} : waiting'[m] = waiting[m]
    BY <1>2, <1>4, <2>1, <2>2 DEF Typed, Tables
  <2>4. PICK n \in Nat : n = Len(w)
    BY <2>1
  <2>5. Len(v) = n + 1 /\ v[n + 1] = r /\ \A i \in 1..n : v[i] = w[i]
    BY <2>3, <2>4, AppendProperties
  <2>6. /\ \A i \in 1..n : w[i] \in Requests /\ pc[w[i]] = "queued" /\ lock[w[i]] = l
        /\ \A i, j \in 1..n : w[i] = w[j] => i = j
    BY <1>2, <2>1, <2>4, ElementOfSeq DEF Lining, InLine
  <2>7. InLine(l)'
    <3>1. ASSUME NEW i \in 1..n PROVE v[i] \in Requests \ {r} /\ pc'[v[i]] = "queued" /\ lock'[v[i]] = l
      BY <1>2, <2>5, <2>6 DEF Others
    <3>2. ASSUME NEW i \in 1..(n + 1) PROVE i \in 1..n \/ i = n + 1
      OBVIOUS
    <3>3. ASSUME NEW i \in 1..(n + 1) PROVE pc'[v[i]] = "queued" /\ lock'[v[i]] = l
      BY <1>2, <1>4, <2>5, <3>1, <3>2
    <3>4. ASSUME NEW i \in 1..(n + 1), NEW j \in 1..(n + 1), v[i] = v[j] PROVE i = j
      BY <2>5, <2>6, <3>1, <3>2, <3>4
    <3> QED BY <2>2, <2>5, <3>3, <3>4 DEF InLine
  <2>8. ASSUME NEW m \in Requests \ {l} PROVE InLine(m)'
    <3>1. PICK u \in Seq(Requests) : u = waiting[m] /\ u = waiting'[m]
      BY <2>3 DEF Typed, Tables
    <3>2. ASSUME NEW i \in 1..Len(u) PROVE u[i] \in Requests \ {r} /\ pc[u[i]] = "queued" /\ lock[u[i]] = m
      <4>1. u[i] \in Requests
        BY <3>1, ElementOfSeq
      <4>2. pc[u[i]] = "queued" /\ lock[u[i]] = m
        BY <3>1 DEF Lining, InLine
      <4> QED BY <1>2, <4>1, <4>2
    <3>3. ASSUME NEW i \in 1..Len(u) PROVE pc'[u[i]] = "queued" /\ lock'[u[i]] = m
      BY <1>2, <3>2 DEF Others
    <3> QED BY <3>1, <3>3 DEF Lining, InLine
  <2> QED BY <2>7, <2>8 DEF Lining
<1> QED BY <1>2, <1>3, <1>4

LEMMA NextLining == Typed /\ Locking /\ Owning /\ Lining /\ [Next]_vars => Lining'
<1> SUFFICES ASSUME Typed, Locking, Owning, Lining, [Next]_vars PROVE Lining'
  OBVIOUS
<1> USE DEF tableVars
<1>1. ASSUME NEW r \in Requests, Proceed(r) PROVE Lining'
  <2>1. CASE Others(r) /\ pc[r] # "queued" /\ UNCHANGED waiting
    BY <2>1, LinesKept
  <2>2. CASE Passes(r)
    <3>1. pc[r] # "queued"
      BY <2>2 DEF Passes, TurnAway, TakeSlot, Failed, Apologise
    <3> QED BY <2>1, <2>2, <3>1, PassTypes
  <2>3. CASE Read(r) \/ Extend(r) \/ Answered(r)
    BY <2>1, <2>3, ReadTypes, ExtendTypes, AnsweredTypes
  <2> QED BY <1>1, <2>2, <2>3, AdmitKeepsLines, WakeKeepsLines DEF Proceed, Passes
<1>2. ASSUME NEW r \in Requests, NEW c \in Chats, Receive(r, c) PROVE Lining'
  <2>1. Others(r) /\ pc[r] # "queued" /\ UNCHANGED waiting
    BY <1>2, ReceiveTypes
  <2> QED BY <2>1, LinesKept
<1>3. CASE UNCHANGED <<pc, lock, waiting>>
  BY <1>3 DEF Lining, InLine
<1>4. ASSUME NEW k \in Commands, NEW c \in Chats,
             Reset(k, c) \/ Switch(k, c, TRUE) \/ Switch(k, c, FALSE)
      PROVE  Lining'
  BY <1>3, <1>4 DEF Reset, Switch
<1>5. CASE Commit
  <2>1. PICK op : op = Head(dbQueue)
    OBVIOUS
  <2>2. CASE op.by \in Requests /\ Others(op.by)
    <3>1. pc[op.by] # "queued" /\ UNCHANGED waiting
      BY <1>5, <2>1, <2>2, CommitTypes, ConversationAssumption DEF Owned
    <3> QED BY <2>2, <3>1, LinesKept
  <2> QED BY <1>3, <1>5, <2>1, <2>2, CommitTypes
<1>6. CASE Restart
  <2>1. \A l \in Requests : Len(waiting'[l]) = 0
    BY <1>6, RestartTypes, EmptySeq
  <2> QED BY <2>1 DEF Lining, InLine
<1>7. CASE UNCHANGED vars
  BY <1>3, <1>7 DEF vars
<1> QED BY <1>1, <1>2, <1>4, <1>5, <1>6, <1>7 DEF Next

\* Calls stay in the queue until they are made.
LEMMA ServedKept ==
    ASSUME Served, UNCHANGED dbQueue,
           \A r \in Requests : pc'[r] = "save" => pc[r] = "save",
           \A k \in Commands : command'[k].pc = "clear" => command[k].pc = "clear"
    PROVE  Served'
BY DEF Served, Calling

LEMMA ServedGrows ==
    ASSUME Storing, Served, NEW op, dbQueue' = Append(dbQueue, op),
           \A r \in Requests : pc'[r] = "save" => pc[r] = "save" \/ op.by = r,
           \A k \in Commands : command'[k].pc = "clear" => command[k].pc = "clear" \/ op.by = k
    PROVE  Served'
<1>1. PICK n \in Nat : n = Len(dbQueue)
  BY LenProperties DEF Storing
<1>2. /\ Len(dbQueue') = n + 1 /\ dbQueue'[n + 1] = op
      /\ \A i \in 1..n : dbQueue'[i] = dbQueue[i]
  BY <1>1 DEF Storing
<1>3. \A k : Calling(k) \/ op.by = k => Calling(k)'
  BY <1>1, <1>2 DEF Calling
<1> QED BY <1>3 DEF Served

LEMMA NextServed == Typed /\ Locking /\ Owning /\ Served /\ [Next]_vars => Served'
<1> SUFFICES ASSUME Typed, Locking, Owning, Served, [Next]_vars PROVE Served'
  OBVIOUS
<1>1. ASSUME NEW r \in Requests, Proceed(r) PROVE Served'
  <2>1. CASE Others(r) /\ pc'[r] # "save" /\ UNCHANGED <<dbVars, command>>
    BY <2>1, ServedKept DEF Others, dbVars
  <2>2. CASE Passes(r)
    BY <2>1, <2>2, PassTypes
  <2>3. CASE Read(r) \/ Extend(r)
    BY <2>1, <2>3, ReadTypes, ExtendTypes
  <2>4. CASE Admit(r)
    <3>1. PICK l : l = IF table[chat[r]] = None THEN r ELSE table[chat[r]]
      OBVIOUS
    <3>2. /\ Others(r) /\ pc[r] = "gate" /\ l \in Requests /\ UNCHANGED <<dbVars, command>>
          /\ (Enter(r, l) /\ UNCHANGED chat) \/ pc'[r] = "queued"
      BY <2>4, <3>1, AdmitTypes
    <3>3. pc'[r] # "save"
      BY <3>2, Entered DEF Typed
    <3> QED BY <2>1, <3>2, <3>3
  <2>5. CASE Wake(r)
    <3>1. PICK l : l = lock[r]
      OBVIOUS
    <3>2. /\ Others(r) /\ pc[r] = "queued" /\ l \in Requests /\ UNCHANGED <<dbVars, command>>
          /\ Enter(r, l) /\ UNCHANGED chat
      BY <2>5, <3>1, WakeTypes DEF Locking
    <3>3. pc'[r] # "save"
      BY <3>2, Entered DEF Typed
    <3> QED BY <2>1, <3>2, <3>3
  <2>6. CASE Answered(r)
    <3>1. PICK op : op = [chat |-> chat[r], by |-> r, rows |-> LastOf(StoredSize, history'[chat[r]])]
      OBVIOUS
    <3>2. Others(r) /\ UNCHANGED command /\ dbQueue' = Append(dbQueue, op)
      BY <2>6, <3>1, AnsweredTypes
    <3>3. op.by = r
      BY <3>1
    <3>4. \A q \in Requests : pc'[q] = "save" => pc[q] = "save" \/ op.by = q
      BY <3>2, <3>3 DEF Others
    <3> QED BY <3>2, <3>4, ServedGrows DEF Typed
  <2> QED BY <1>1, <2>2, <2>3, <2>4, <2>5, <2>6 DEF Proceed, Passes
<1>2. ASSUME NEW r \in Requests, NEW c \in Chats, Receive(r, c) PROVE Served'
  <2>1. Others(r) /\ pc'[r] # "save" /\ UNCHANGED <<dbVars, command>>
    BY <1>2, ReceiveTypes
  <2> QED BY <2>1, ServedKept DEF Others, dbVars
<1>3. ASSUME NEW k \in Commands, NEW c \in Chats, Reset(k, c) PROVE Served'
  <2>1. PICK op : op = [chat |-> c, by |-> k, rows |-> <<>>]
    OBVIOUS
  <2>2. /\ UNCHANGED pc /\ dbQueue' = Append(dbQueue, op) /\ op.by = k
        /\ \A j \in Commands \ {k} : command'[j] = command[j]
    BY <1>3, <2>1, ResetTypes
  <2> QED BY <2>2, ServedGrows DEF Typed
<1>4. ASSUME NEW k \in Commands, NEW c \in Chats, NEW on \in BOOLEAN, Switch(k, c, on)
      PROVE  Served'
  <2>1. /\ UNCHANGED <<pc, dbVars>> /\ command'[k].pc = "switched"
        /\ \A j \in Commands \ {k} : command'[j] = command[j]
    BY <1>4, SwitchTypes
  <2> QED BY <2>1, ServedKept DEF dbVars
<1>5. CASE Commit
  <2>1. PICK op : op = Head(dbQueue)
    OBVIOUS
  <2>2. /\ op = dbQueue[1] /\ 1 \in 1..Len(dbQueue)
        /\ Len(dbQueue') = Len(dbQueue) - 1 /\ Len(dbQueue) \in Nat
        /\ \A i \in 1..Len(dbQueue') : dbQueue'[i] = dbQueue[i + 1]
    BY <1>5, <2>1, CommitTypes, Called DEF Typed, Storing
  <2>3. ASSUME NEW k, k # op.by, Calling(k) PROVE Calling(k)'
    <3>1. PICK i \in 1..Len(dbQueue) : dbQueue[i].by = k
      BY <2>3 DEF Calling
    <3>2. i # 1
      BY <2>2, <2>3, <3>1
    <3>3. i - 1 \in 1..Len(dbQueue') /\ (i - 1) + 1 = i
      BY <2>2, <3>1, <3>2
    <3>4. dbQueue'[i - 1].by = k
      BY <2>2, <3>1, <3>3
    <3> QED BY <3>3, <3>4 DEF Calling
  <2>4. ASSUME NEW r \in Requests, pc'[r] = "save" PROVE r # op.by /\ pc[r] = "save"
    BY <1>5, <2>1, <2>4, CommitTypes, ConversationAssumption DEF Others
  <2>5. ASSUME NEW k \in Commands, command'[k].pc = "clear"
        PROVE  k # op.by /\ command[k].pc = "clear"
    BY <1>5, <2>1, <2>5, CommitTypes, ConversationAssumption
  <2> QED BY <2>3, <2>4, <2>5 DEF Served
<1>6. CASE Restart
  BY <1>6, RestartTypes DEF Served
<1>7. CASE UNCHANGED vars
  BY <1>7, ServedKept DEF vars, dbVars
<1> QED BY <1>1, <1>2, <1>3, <1>4, <1>5, <1>6, <1>7 DEF Next
\* Nobody is stuck, with any number of requests, chats and slots: the line at a
\* lock has a first one who can take it as soon as it is free, and _DB_LOCK
\* comes to every call.
THEOREM NobodyIsStuck == Spec => []NobodyStuck
<1> DEFINE Inv == IndInv /\ Lining /\ Served
<1>1. Init => Inv
  <2>1. ASSUME Init PROVE Lining /\ Served
    <3>1. \A l \in Requests : Len(waiting[l]) = 0
      BY <2>1, EmptySeq DEF Init
    <3> QED BY <2>1, <3>1 DEF Init, Lining, InLine, Served
  <2> QED BY <2>1, InitIndInv
<1>2. Inv /\ [Next]_vars => Inv'
  BY NextIndInv, NextLining, NextServed DEF IndInv
<1>3. ASSUME Inv, NEW r \in Requests, pc[r] = "queued", ~Locked(lock[r])
      PROVE  \E q \in Requests : pc[q] = "queued" /\ lock[q] = lock[r] /\ Head(waiting[lock[q]]) = q
  <2>1. PICK l \in Requests : l = lock[r]
    BY <1>3 DEF IndInv, Typed, Asking, InChatPCs
  <2>2. PICK w \in Seq(Requests) : w = waiting[l]
    BY <1>3 DEF IndInv, Typed, Tables
  <2>3. \E i \in 1..Len(w) : w[i] = r
    BY <1>3, <2>1, <2>2 DEF IndInv, Locking, Listed
  <2>4. 1 \in 1..Len(w) /\ Head(w) = w[1] /\ w[1] \in Requests
    BY <2>2, <2>3
  <2>5. pc[w[1]] = "queued" /\ lock[w[1]] = l
    BY <1>3, <2>2, <2>4 DEF Lining, InLine
  <2> QED BY <2>1, <2>2, <2>4, <2>5
<1>4. Inv => NobodyStuck
  BY <1>3 DEF Served, Calling, NobodyStuck
<1> QED BY <1>1, <1>2, <1>4, PTL DEF Spec

-----------------------------------------------------------------------------
(* One turn of the assistant: VertexTurn *)

Errors == {"none", "401", "busy", "400", "other", "rounds"}

\* Each way around the final generation leads past requests that demand GitHub.
Fallbacks ==
    /\ stage = "instead" => request.mode = "web"
    /\ stage = "pool" => request.mode = "chat" /\ error = "busy"

\* what the loop of rounds counts as done has been done
Consulted ==
    /\ called => consulted
    /\ step = "return" /\ stage = "final" /\ request.forced => consulted

\* any attempt but the first is made with a refreshed token
Refreshed == step = "post" /\ attempt > 0 => fresh

TurnInv == TurnTypeOK /\ Fallbacks /\ Consulted /\ Refreshed /\ GitHubFirst /\ RefusedWithFreshToken

LEMMA RoundsNat == Rounds \in Nat \ {0}
BY VertexAssumption DEF Rounds

LEMMA RequestFacts ==
    ASSUME NEW q \in RequestKinds
    PROVE  /\ q.mode \in Modes /\ q.forced \in BOOLEAN
           /\ q.forced => q.mode = "code"
BY DEF RequestKinds, Modes

CallRecords == [tool : Tools, pc : {"waiting", "running", "ended"}]

LEMMA NoCalls == <<>> \in Seq(CallRecords)
BY EmptySeq

\* A call that changes its state leaves a sequence of calls.
LEMMA CallMoves ==
    ASSUME NEW s \in Seq(CallRecords), NEW i \in 1..Len(s),
           NEW p \in {"waiting", "running", "ended"}
    PROVE  [s EXCEPT ![i].pc = p] \in Seq(CallRecords)
<1> DEFINE e == [s[i] EXCEPT !.pc = p]
<1>1. s[i] \in CallRecords
  BY ElementOfSeq
<1>2. e \in CallRecords
  BY <1>1 DEF CallRecords
<1>3. [s EXCEPT ![i] = e] \in Seq(CallRecords)
  BY <1>2, ExceptSeq
<1> QED BY <1>3

LEMMA TurnInitInv == TurnInit => TurnInv
<1> SUFFICES ASSUME TurnInit PROVE TurnInv
  OBVIOUS
<1>1. TurnTypeOK
  <2>1. round \in 0..(Rounds - 1) /\ attempt \in 0..2
    BY RoundsNat DEF TurnInit
  <2>2. continued \in 0..MaxContinuations /\ empties \in 0..MaxEmpty
    BY VertexAssumption DEF TurnInit
  <2>3. step # "idle" <=> stage \in Generations
    BY DEF TurnInit, Generations, Verifiers
  <2>4. calls \in Seq([tool : Tools, pc : {"waiting", "running", "ended"}])
    BY NoCalls DEF TurnInit, CallRecords
  <2> QED BY <2>1, <2>2, <2>3, <2>4 DEF TurnInit, TurnTypeOK
<1>2. Fallbacks /\ Consulted /\ Refreshed /\ GitHubFirst /\ RefusedWithFreshToken
  BY DEF TurnInit, Fallbacks, Consulted, Refreshed, GitHubFirst, RefusedWithFreshToken
<1> QED BY <1>1, <1>2 DEF TurnInv

\* A generation that starts anew loses nothing: what GitHub has said is not
\* forgotten, and a new POST starts with its first attempt.
LEMMA Generating ==
    ASSUME TurnInv, NEW next \in Generations, Generate(next),
           next = "instead" => request.mode = "web",
           request' = request, consulted' = consulted, error' \in Errors
    PROVE  TurnInv'
<1>1. TurnTypeOK'
  <2>1. round' \in 0..(Rounds - 1) /\ attempt' \in 0..2
    BY RoundsNat DEF Generate
  <2>2. continued' \in 0..MaxContinuations /\ empties' \in 0..MaxEmpty
    BY VertexAssumption DEF Generate
  <2>3. step' \in {"idle", "post", "tools", "next", "return"} /\ stage' \in Generations
        /\ step' # "idle"
    BY DEF Generate
  <2>4. calls' \in Seq([tool : Tools, pc : {"waiting", "running", "ended"}])
    BY NoCalls DEF Generate, CallRecords
  <2>5. found' \in BOOLEAN /\ called' \in BOOLEAN /\ fresh' \in BOOLEAN
    BY Zenon DEF Generate
  <2>6. request' \in RequestKinds /\ consulted' \in BOOLEAN
    BY DEF TurnInv, TurnTypeOK
  <2> QED BY <2>1, <2>2, <2>3, <2>4, <2>5, <2>6 DEF TurnTypeOK, Errors
<1>2. stage' \notin Ends \cup {"pool"} /\ step' # "return" /\ attempt' = 0
  BY DEF Generate, Generations, Verifiers, Ends
<1>3. Fallbacks'
  BY <1>2 DEF Fallbacks, Generate
<1>4. Consulted'
  BY <1>2 DEF Consulted, Generate
<1>5. Refreshed' /\ GitHubFirst' /\ RefusedWithFreshToken'
  BY <1>2 DEF Refreshed, GitHubFirst, RefusedWithFreshToken, Ends
<1> QED BY <1>1, <1>3, <1>4, <1>5 DEF TurnInv

\* A supervisor's stage without a generation keeps the counters as they are.
LEMMA Quitting ==
    ASSUME TurnInv, NEW next \in {"pool", "worker", "worker again"} \cup Ends, Quit(next),
           request' = request, consulted' = consulted, error' \in Errors,
           next = "pool" => request.mode = "chat" /\ error' = "busy",
           next = "answered" /\ request.forced => consulted,
           next = "failed" /\ error' = "401" => fresh
    PROVE  TurnInv'
<1>1. TurnTypeOK'
  <2>1. stage' \in {"pool"} \cup Workers \cup Ends /\ stage' \notin Generations
    BY DEF Quit, Workers, Generations, Verifiers, Ends
  <2>2. UNCHANGED <<round, continued, empties, found, called, attempt, fresh, calls>>
    BY DEF Quit, loopVars, postVars
  <2> QED BY <2>1, <2>2 DEF Quit, TurnInv, TurnTypeOK, Errors
<1>2. called' = called /\ fresh' = fresh /\ step' = "idle" /\ stage' = next
  BY DEF Quit, loopVars, postVars
<1>3. Fallbacks'
  BY <1>2 DEF Fallbacks, Ends
<1>4. Consulted' /\ Refreshed'
  BY <1>2 DEF TurnInv, Consulted, Refreshed
<1>5. GitHubFirst' /\ RefusedWithFreshToken'
  BY <1>2 DEF GitHubFirst, RefusedWithFreshToken
<1> QED BY <1>1, <1>3, <1>4, <1>5 DEF TurnInv

LEMMA Raising ==
    ASSUME TurnInv, NEW kind \in Errors, Raise(kind), kind = "401" => fresh
    PROVE  TurnInv'
<1>1. request' = request /\ consulted' = consulted /\ error' = kind
  BY DEF Raise
<1>2. CASE Generate("final")
  BY <1>1, <1>2, Generating DEF Generations
<1>3. CASE Generate("instead") /\ request.mode = "web"
  BY <1>1, <1>3, Generating DEF Generations
<1>4. CASE Quit("pool") /\ request.mode = "chat" /\ kind = "busy"
  BY <1>1, <1>4, Quitting DEF Ends
<1>5. CASE Quit("failed")
  BY <1>1, <1>5, Quitting DEF Ends
<1> QED BY <1>2, <1>3, <1>4, <1>5 DEF Raise

LEMMA TurnNextInv == TurnInv /\ [TurnNext]_turnVars => TurnInv'
<1> SUFFICES ASSUME TurnInv, [TurnNext]_turnVars PROVE TurnInv'
  OBVIOUS
<1> USE VertexAssumption, RoundsNat
<1>t. TurnTypeOK /\ request \in RequestKinds /\ error \in Errors
  BY DEF TurnInv, TurnTypeOK, Errors
<1> DEFINE Rest == Fallbacks /\ Consulted /\ Refreshed /\ GitHubFirst /\ RefusedWithFreshToken
<1>1. CASE Route
  <2>1. CASE request.task
    BY <1>t, <1>1, <2>1, Quitting DEF Route, Ends
  <2>2. CASE ~request.task
    BY <1>t, <1>1, <2>2, Generating DEF Route, Generations
  <2> QED BY <2>1, <2>2
<1>2. ASSUME NEW drafted \in BOOLEAN, Worker(drafted) PROVE TurnInv'
  <2>1. PICK next \in {"final", "verify", "verify again"} : Generate(next)
    BY <1>2 DEF Worker
  <2> QED BY <1>t, <1>2, <2>1, Generating DEF Worker, Generations, Verifiers
<1>3. CASE Pool
  <2>1. PICK next \in Ends : Quit(next)
    BY <1>3 DEF Pool
  <2>2. ~request.forced /\ error = "busy"
    BY <1>t, <1>3, RequestFacts DEF Pool, TurnInv, Fallbacks
  <2> QED BY <1>t, <1>3, <2>1, <2>2, Quitting DEF Pool, Ends
<1>4. CASE Return
  <2>1. CASE Generate("final")
    BY <1>t, <1>4, <2>1, Generating DEF Return, Generations
  <2>2. CASE stage = "verify" /\ Quit("worker again")
    BY <1>t, <1>4, <2>2, Quitting DEF Return, Ends
  <2>3. CASE stage \in {"final", "instead"} /\ Quit("answered")
    <3>1. request.forced => consulted
      BY <1>t, <1>4, <2>3, RequestFacts DEF Return, TurnInv, Fallbacks, Consulted
    <3> QED BY <1>t, <1>4, <2>3, <3>1, Quitting DEF Return, Ends
  <2> QED
    BY <1>4, <2>1, <2>2, <2>3 DEF Return, TurnInv, TurnTypeOK, Generations, Verifiers
<1>5. CASE PostFails
  <2>1. CASE /\ attempt < 2
             /\ attempt' = attempt + 1
             /\ fresh' = (fresh \/ attempt' = 1)
             /\ UNCHANGED <<request, stage, step, loopVars, calls, error, consulted>>
    <3>1. TurnTypeOK'
      BY <1>t, <1>5, <2>1 DEF loopVars, TurnTypeOK, Errors
    <3>2. Fallbacks' /\ Consulted' /\ GitHubFirst'
      BY <2>1 DEF loopVars, TurnInv, Fallbacks, Consulted, GitHubFirst
    <3>3. Refreshed'
      <4>1. attempt = 0 \/ fresh
        BY <1>t, <1>5 DEF PostFails, TurnInv, TurnTypeOK, Refreshed
      <4>2. attempt' = 1 \/ fresh
        BY <2>1, <4>1
      <4>3. fresh'
        BY <2>1, <4>2, Zenon
      <4> QED BY <4>3 DEF Refreshed
    <3>4. RefusedWithFreshToken'
      BY <1>t, <1>5, <2>1 DEF PostFails, RefusedWithFreshToken, TurnTypeOK, Generations, Verifiers
    <3> QED BY <3>1, <3>2, <3>3, <3>4 DEF TurnInv
  <2>2. CASE attempt > 0 /\ Raise("401")
    BY <1>5, <2>2, Raising DEF PostFails, TurnInv, Refreshed, Errors
  <2>3. CASE Raise("busy") \/ Raise("400") \/ Raise("other")
    BY <1>5, <2>3, Raising DEF PostFails, Errors
  <2> QED BY <1>5, <2>1, <2>2, <2>3 DEF PostFails
<1>6. CASE Empty
  <2>1. CASE empties >= MaxEmpty
    BY <1>6, <2>1, Raising DEF Empty, Errors
  <2>2. CASE ~(empties >= MaxEmpty)
    <3>1. TurnTypeOK'
      BY <1>t, <1>6, <2>2 DEF Empty, postVars, TurnTypeOK
    <3>2. Rest'
      BY <1>t, <1>6, <2>2
      DEF Empty, postVars, TurnInv, TurnTypeOK, Fallbacks, Consulted, Refreshed, GitHubFirst,
          RefusedWithFreshToken, Generations, Verifiers
    <3> QED BY <3>1, <3>2 DEF TurnInv
  <2> QED BY <2>1, <2>2
<1>7. ASSUME NEW cut \in BOOLEAN, Text(cut) PROVE TurnInv'
  <2>1. TurnTypeOK'
    BY <1>t, <1>7 DEF Text, postVars, TurnTypeOK
  <2>2. step' = "return" /\ stage = "final" /\ request.forced => consulted
    <3> SUFFICES ASSUME stage = "final", request.forced PROVE consulted
      OBVIOUS
    <3>1. Demanded = Tools /\ Forced
      BY <1>7 DEF Text, Free, Forced
    <3>2. {"search"} # Tools /\ {"call"} # Tools
      BY DEF Tools
    <3>3. found /\ called
      BY <1>t, <3>1, <3>2 DEF Demanded, TurnTypeOK
    <3> QED BY <3>3 DEF TurnInv, Consulted
  <2>3. Rest'
    BY <1>t, <1>7, <2>2
    DEF Text, postVars, TurnInv, TurnTypeOK, Fallbacks, Consulted, Refreshed, GitHubFirst,
        RefusedWithFreshToken, Generations, Verifiers
  <2> QED BY <2>1, <2>3 DEF TurnInv
<1>8. CASE Call
  <2>1. PICK n \in 1..MaxCalls : \E names \in [1..n -> Callable] :
            calls' = [i \in 1..n |-> [tool |-> names[i], pc |-> "waiting"]]
    BY <1>8 DEF Call
  <2>2. PICK names \in [1..n -> Callable] :
            calls' = [i \in 1..n |-> [tool |-> names[i], pc |-> "waiting"]]
    BY <2>1
  <2>3. Callable \subseteq Tools
    BY DEF Callable, Demanded, Tools
  <2>4. \A i \in 1..n : [tool |-> names[i], pc |-> "waiting"]
                           \in [tool : Tools, pc : {"waiting", "running", "ended"}]
    BY <2>3
  <2>5. n \in Nat
    OBVIOUS
  <2>6. calls' \in Seq([tool : Tools, pc : {"waiting", "running", "ended"}])
    <3>1. calls' \in [1..n -> CallRecords]
      BY <2>2, <2>4 DEF CallRecords
    <3>2. calls' \in Seq(CallRecords)
      BY <2>5, <3>1, SeqDef
    <3> QED BY <3>2 DEF CallRecords
  <2>7. TurnTypeOK'
    BY <1>t, <1>8, <2>6 DEF Call, postVars, TurnTypeOK
  <2>8. Rest'
    BY <1>t, <1>8
    DEF Call, postVars, TurnInv, TurnTypeOK, Fallbacks, Consulted, Refreshed, GitHubFirst,
        RefusedWithFreshToken, Generations, Verifiers
  <2> QED BY <2>7, <2>8 DEF TurnInv
<1>9. CASE Gather
  <2>1. TurnTypeOK'
    BY <1>t, <1>9, NoCalls DEF Gather, loopVars, postVars, TurnTypeOK, CallRecords
  <2>2. Rest'
    BY <1>t, <1>9
    DEF Gather, loopVars, postVars, TurnInv, TurnTypeOK, Fallbacks, Consulted, Refreshed,
        GitHubFirst, RefusedWithFreshToken, Generations, Verifiers
  <2> QED BY <2>1, <2>2 DEF TurnInv
<1>10. CASE NextRound
  <2>1. CASE round + 1 < Rounds
    <3>1. /\ round' = round + 1 /\ step' = "post" /\ attempt' = 0 /\ fresh' = FALSE
          /\ UNCHANGED <<request, stage, continued, empties, found, called, calls, error, consulted>>
      BY <1>10, <2>1 DEF NextRound
    <3>2. step # "idle" /\ round' \in 0..(Rounds - 1)
      BY <1>t, <1>10, <2>1, <3>1 DEF NextRound, TurnTypeOK
    <3>3. TurnTypeOK'
      <4>1. step' # "idle" <=> stage' \in Generations
        BY <1>t, <3>1, <3>2 DEF TurnTypeOK
      <4>2. attempt' \in 0..2
        BY <3>1
      <4>5. fresh' \in BOOLEAN
        BY <3>1, Zenon
      <4>3. UNCHANGED <<request, stage, continued, empties, found, called, calls, error, consulted>>
        BY <3>1
      <4>4. step' \in {"idle", "post", "tools", "next", "return"}
        BY <3>1
      <4> QED BY <1>t, <3>2, <4>1, <4>2, <4>3, <4>4, <4>5 DEF TurnTypeOK
    <3>4. Rest'
      <4>1. step' = "post" /\ attempt' = 0 /\ stage \notin {"pool", "answered", "failed"}
        BY <1>t, <3>1, <3>2 DEF TurnTypeOK, Generations, Verifiers
      <4>2. UNCHANGED <<request, stage, called, error, consulted>>
        BY <3>1
      <4> QED
        BY <4>1, <4>2
        DEF TurnInv, Fallbacks, Consulted, Refreshed, GitHubFirst, RefusedWithFreshToken
    <3> QED BY <3>3, <3>4 DEF TurnInv
  <2>2. CASE ~(round + 1 < Rounds)
    BY <1>10, <2>2, Raising DEF NextRound, Errors
  <2> QED BY <2>1, <2>2
<1>11. ASSUME NEW i \in 1..MaxCalls, StartTool(i) PROVE TurnInv'
  <2>1. i \in 1..Len(calls) /\ calls' = [calls EXCEPT ![i].pc = "running"]
    BY <1>11 DEF StartTool, InState
  <2>2. calls' \in Seq([tool : Tools, pc : {"waiting", "running", "ended"}])
    BY <1>t, <2>1, CallMoves DEF TurnTypeOK, CallRecords
  <2> QED
    BY <1>t, <1>11, <2>2
    DEF StartTool, loopVars, postVars, TurnInv, TurnTypeOK, Fallbacks, Consulted, Refreshed,
        GitHubFirst, RefusedWithFreshToken, Generations, Verifiers
<1>12. ASSUME NEW i \in 1..MaxCalls, NEW ok \in BOOLEAN, EndTool(i, ok) PROVE TurnInv'
  <2>1. i \in 1..Len(calls) /\ calls' = [calls EXCEPT ![i].pc = "ended"]
    BY <1>12 DEF EndTool, InState
  <2>2. calls' \in Seq([tool : Tools, pc : {"waiting", "running", "ended"}])
    BY <1>t, <2>1, CallMoves DEF TurnTypeOK, CallRecords
  <2> QED
    BY <1>t, <1>12, <2>2
    DEF EndTool, postVars, TurnInv, TurnTypeOK, Fallbacks, Consulted, Refreshed, GitHubFirst,
        RefusedWithFreshToken, Generations, Verifiers
<1>13. CASE UNCHANGED turnVars
  BY <1>13
  DEF turnVars, loopVars, postVars, TurnInv, TurnTypeOK, Fallbacks, Consulted, Refreshed, GitHubFirst,
      RefusedWithFreshToken
<1> QED
  BY <1>1, <1>2, <1>3, <1>4, <1>5, <1>6, <1>7, <1>8, <1>9, <1>10, <1>11, <1>12, <1>13
  DEF TurnNext

LEMMA TurnInvariance == TurnSpec => []TurnInv
BY TurnInitInv, TurnNextInv, PTL DEF TurnSpec

-----------------------------------------------------------------------------

\* The counters of a turn stay within their budgets, and a generation is under
\* way exactly in the stages that have one.
THEOREM TurnTyping == TurnSpec => []TurnTypeOK
<1>1. TurnInv => TurnTypeOK
  BY DEF TurnInv
<1> QED BY <1>1, TurnInvariance, PTL

\* Whatever the model, the tools and the pool answer, and however often a turn
\* retries or falls back, a turn that demands GitHub is answered only after a
\* successful call to it.
THEOREM AnsweredAfterGitHub == TurnSpec => []GitHubFirst
<1>1. TurnInv => GitHubFirst
  BY DEF TurnInv
<1> QED BY <1>1, TurnInvariance, PTL

\* post_vertex never reports a refused authentication of a token it has not
\* refreshed for this request.
THEOREM RefreshedBeforeRefused == TurnSpec => []RefusedWithFreshToken
<1>1. TurnInv => RefusedWithFreshToken
  BY DEF TurnInv
<1> QED BY <1>1, TurnInvariance, PTL

=============================================================================
