---------------------------- MODULE Conversation ----------------------------
(***************************************************************************)
(* The conversations of the Atri assistant.  A message that is meant for   *)
(* Atri becomes a request: under the lock of its chat it loads the chat's  *)
(* history, asks the model, appends its turn (question and answer), saves  *)
(* the history in SQLite and archives the turn; the answer is sent after   *)
(* the lock is released.  Commands forget a chat without its lock, and     *)
(* every message sweeps the tables of other chats, locks included.         *)
(*                                                                         *)
(* Everything but the SQLite threads runs on one event loop: a step is the *)
(* code between two awaits.  Requests are numbered as they arrive, and a   *)
(* request's number also stands for its turn and for the lock object it    *)
(* created in _chat_locks.                                                 *)
(***************************************************************************)
EXTENDS Naturals, Sequences, FiniteSets

CONSTANTS
    MaxRequests,  \* bound on the messages
    Chats,
    Commands,     \* bound on the commands that forget a chat
    MaxChats,     \* MAX_RUNTIME_CHATS
    Slots,        \* MAX_CONCURRENT_REQUESTS
    HistorySize,  \* MAX_HISTORY_MESSAGES, in turns
    StoredSize,   \* MAX_HISTORY_ITEMS of atri_memory, in turns
    MaxRows,      \* MAX_CHAT_ROWS of atri_memory
    MaxRestarts,  \* bound on the restarts
    None

Requests == 1..MaxRequests

ASSUME ConversationAssumption ==
    /\ MaxRequests \in Nat /\ MaxChats \in Nat /\ Slots \in Nat \ {0} /\ MaxRestarts \in Nat
    /\ HistorySize \in Nat \ {0} /\ StoredSize \in Nat \ {0} /\ MaxRows \in Nat \ {0}
    /\ None \notin Requests \cup Chats /\ Commands \cap Requests = {}

VARIABLES
    pc,        \* per request
    chat,      \* ... its chat
    lock,      \* ... the lock object it uses
    context,   \* ... history: the turns it shows the model
    table,     \* _chat_locks: the lock object of each chat, None if absent
    waiting,   \* the waiters of each lock object, first come first served
    seen,      \* _state_last_seen, least recently seen chat first
    disabled,  \* _disabled_chats
    history,   \* _chat_history, empty if absent
    loaded,    \* _loaded_memory_keys
    stored,    \* the rows of chat_memory
    dbQueue,   \* calls that hold or wait for _DB_LOCK of atri_memory
    command,   \* per command: what it forgets, and how far it is
    restarts,
    log,       \* history variable: the turns finished and not forgotten
    dropped,   \* history variable: chats whose row was too old to be kept
    tainted    \* history variable: chats the shortcuts of the code may have hurt

tableVars == <<table, waiting, seen, disabled>>
memoryVars == <<history, loaded>>
dbVars == <<stored, dbQueue>>
ghosts == <<log, dropped, tainted>>
vars == <<pc, chat, lock, context, tableVars, memoryVars, dbVars, command, restarts, ghosts>>

\* between `async with lock` and its end
Critical == {"read", "extend", "ask", "generate", "error", "save"}
PCs == {"new", "gate", "queued", "done", "lost"} \cup Critical

InChat(c) == {r \in Requests : chat[r] = c}
Busy(c) == {r \in InChat(c) : pc[r] \in Critical}
Locked(l) == \E r \in Requests : lock[r] = l /\ pc[r] \in Critical

\* a command has forgotten the chat and waits for the database
Clearing(c) == \E k \in Commands : command[k].chat = c /\ command[k].pc = "clear"

Lesser(a, b) == IF a < b THEN a ELSE b
LastOf(n, s) == SubSeq(s, Len(s) - Lesser(n, Len(s)) + 1, Len(s))
Elements(s) == {s[i] : i \in 1..Len(s)}

\* the elements of s that are in S, in their order
Kept(s, S) ==
    LET kept[i \in 0..Len(s)] ==
          IF i = 0 THEN <<>>
          ELSE IF s[i] \in S THEN Append(kept[i - 1], s[i]) ELSE kept[i - 1]
    IN kept[Len(s)]
Without(s, S) == Kept(s, Chats \ S)

Goto(r, next) == pc' = [pc EXCEPT ![r] = next]

\* The request is over, and its variables are dead.
End(r) ==
    /\ Goto(r, "done")
    /\ chat' = [chat EXCEPT ![r] = None]
    /\ lock' = [lock EXCEPT ![r] = None]
    /\ context' = [context EXCEPT ![r] = <<>>]

-----------------------------------------------------------------------------
(* Admission *)

\* Broken on purpose: locked chats are swept too.
UnlockedOrNot(order) == order

\* The chats a sweep forgets: of the others that are not locked, the k least
\* recently seen.  k is as large as the bound on the table demands, and larger
\* when more of them have not been seen for RUNTIME_STATE_TTL_SECONDS.
Unlocked(order) == Kept(order, {c \in Chats : table[c] = None \/ ~Locked(table[c])})

Sweep(c, gone) ==
    LET others == Without(seen, {c})
        swept == Unlocked(others)
        excess == Len(others) + 1 - MaxChats
    IN \E k \in 0..Len(swept) :
        /\ k >= Lesser(Len(swept), excess)
        /\ gone = {swept[i] : i \in 1..k}

\* _touch_runtime_state, and what it does with the chats in gone
Touch(c, gone) ==
    /\ Sweep(c, gone)
    /\ seen' = Append(Without(seen, {c} \cup gone), c)
    /\ table' = [d \in Chats |-> IF d \in gone THEN None ELSE table[d]]
    /\ history' = [d \in Chats |-> IF d \in gone THEN <<>> ELSE history[d]]
    /\ loaded' = loaded \ gone
    /\ disabled' = disabled \ gone
    \* an unlocked lock may have waiters that are about to be woken
    /\ tainted' = tainted \cup {d \in gone : table[d] # None /\ waiting[table[d]] # <<>>}

\* A message arrives.
Receive(r, c) ==
    /\ pc[r] = "new" /\ \A q \in Requests : q < r => pc[q] # "new"
    /\ \E gone \in SUBSET Chats : Touch(c, gone)
    /\ IF c \in disabled
       THEN Goto(r, "done") /\ UNCHANGED chat
       ELSE Goto(r, "gate") /\ chat' = [chat EXCEPT ![r] = c]
    /\ UNCHANGED <<lock, context, waiting, dbVars, command, restarts, log, dropped>>

\* not addressed to Atri, the user's cooldown, or the global quota
TurnAway(r) ==
    /\ pc[r] = "gate"
    /\ End(r)
    /\ UNCHANGED <<tableVars, memoryVars, dbVars, command, restarts, ghosts>>

\* Inside the lock: a history that is loaded is used as it is.
Enter(r, l) ==
    LET c == chat[r] IN
    /\ lock' = [lock EXCEPT ![r] = l]
    /\ IF c \in loaded
       THEN Goto(r, "ask") /\ context' = [context EXCEPT ![r] = history[c]]
       ELSE Goto(r, "read") /\ UNCHANGED context
    \* it reads rows that a command has said it forgets
    /\ tainted' = IF Clearing(c) THEN tainted \cup {c} ELSE tainted

\* The lock of the chat is taken, or waited for; it is made if there is none.
Admit(r) ==
    LET l == IF table[chat[r]] = None THEN r ELSE table[chat[r]] IN
    /\ pc[r] = "gate"
    /\ table' = [table EXCEPT ![chat[r]] = l]
    /\ IF ~Locked(l) /\ waiting[l] = <<>>
       THEN Enter(r, l) /\ UNCHANGED waiting
       ELSE /\ waiting' = [waiting EXCEPT ![l] = Append(@, r)]
            /\ lock' = [lock EXCEPT ![r] = l]
            /\ Goto(r, "queued")
            /\ UNCHANGED <<context, tainted>>
    /\ UNCHANGED <<chat, seen, disabled, memoryVars, dbVars, command, restarts,
                   log, dropped>>

\* Broken on purpose: who gets the lock stays in the line.
WakeInLine(r) ==
    LET l == lock[r] IN
    /\ pc[r] = "queued" /\ ~Locked(l) /\ Head(waiting[l]) = r
    /\ Enter(r, l)
    /\ UNCHANGED <<chat, table, waiting, seen, disabled, memoryVars, dbVars, command, restarts,
                   log, dropped>>

\* Releasing an asyncio.Lock unlocks it; the first waiter takes it when it runs.
Wake(r) ==
    LET l == lock[r] IN
    /\ pc[r] = "queued" /\ ~Locked(l) /\ Head(waiting[l]) = r
    /\ waiting' = [waiting EXCEPT ![l] = Tail(@)]
    /\ Enter(r, l)
    /\ UNCHANGED <<chat, table, seen, disabled, memoryVars, dbVars, command, restarts,
                   log, dropped>>

-----------------------------------------------------------------------------
(* The request, holding the lock of its chat *)

\* load_chat_history does not take _DB_LOCK; an error ends the request.  Where
\* the row was not kept the conversation starts anew.
Read(r) ==
    LET c == chat[r] IN
    /\ pc[r] = "read"
    /\ \/ /\ Goto(r, "extend") /\ context' = [context EXCEPT ![r] = stored[c]]
          /\ log' = IF c \in dropped THEN [log EXCEPT ![c] = <<>>] ELSE log
          /\ UNCHANGED <<chat, lock>>
       \/ End(r) /\ UNCHANGED log
    /\ UNCHANGED <<tableVars, memoryVars, dbVars, command, restarts, dropped, tainted>>

\* Broken on purpose: the history is not marked as loaded.
ExtendUnmarked(r) ==
    LET c == chat[r] IN
    /\ pc[r] = "extend"
    /\ history' = [history EXCEPT ![c] = LastOf(HistorySize, @ \o context[r])]
    /\ context' = [context EXCEPT ![r] = history'[c]]
    /\ Goto(r, "ask")
    /\ UNCHANGED <<chat, lock, tableVars, loaded, dbVars, command, restarts, ghosts>>

Extend(r) ==
    LET c == chat[r] IN
    /\ pc[r] = "extend"
    /\ history' = [history EXCEPT ![c] = LastOf(HistorySize, @ \o context[r])]
    /\ loaded' = loaded \cup {c}
    /\ context' = [context EXCEPT ![r] = history'[c]]
    /\ Goto(r, "ask")
    /\ UNCHANGED <<chat, lock, tableVars, dbVars, command, restarts, ghosts>>

\* the animation is shown, then a slot of _vertex_slots is awaited
TakeSlot(r) ==
    /\ pc[r] = "ask"
    /\ Cardinality({q \in Requests : pc[q] = "generate"}) < Slots
    /\ Goto(r, "generate")
    /\ UNCHANGED <<chat, lock, context, tableVars, memoryVars, dbVars, command, restarts,
                   ghosts>>

\* _vertex_generate, with its fallbacks, gives an answer or an error
Answered(r) ==
    LET c == chat[r] IN
    /\ pc[r] = "generate"
    /\ history' = [history EXCEPT ![c] = LastOf(HistorySize, Append(@, r))]
    /\ dbQueue' = Append(dbQueue,
                         [chat |-> c, by |-> r, rows |-> LastOf(StoredSize, history'[c])])
    /\ log' = [log EXCEPT ![c] = Append(@, r)]
    /\ context' = [context EXCEPT ![r] = <<>>]
    /\ Goto(r, "save")
    /\ UNCHANGED <<chat, lock, tableVars, loaded, stored, command, restarts, dropped, tainted>>

Failed(r) ==
    /\ pc[r] = "generate"
    /\ Goto(r, "error")
    /\ UNCHANGED <<chat, lock, context, tableVars, memoryVars, dbVars, command, restarts,
                   ghosts>>

\* finalize_error, inside the lock
Apologise(r) ==
    /\ pc[r] = "error"
    /\ End(r)
    /\ UNCHANGED <<tableVars, memoryVars, dbVars, command, restarts, ghosts>>

-----------------------------------------------------------------------------
(* Commands: /forgetall, /resetai, /atri on and off *)

\* Broken on purpose: the turns in memory stay.
ResetRowsOnly(k, c) ==
    /\ command[k].pc = "new"
    /\ loaded' = loaded \ {c}
    /\ dbQueue' = Append(dbQueue, [chat |-> c, by |-> k, rows |-> <<>>])
    /\ command' = [command EXCEPT ![k] = [pc |-> "clear", chat |-> c]]
    /\ log' = [log EXCEPT ![c] = <<>>]
    /\ tainted' = IF Busy(c) # {} THEN tainted \cup {c} ELSE tainted
    /\ UNCHANGED <<pc, chat, lock, context, tableVars, history, stored, restarts, dropped>>

\* The history goes at once, its row when the command gets _DB_LOCK.
Reset(k, c) ==
    /\ command[k].pc = "new"
    /\ history' = [history EXCEPT ![c] = <<>>]
    /\ loaded' = loaded \ {c}
    /\ dbQueue' = Append(dbQueue, [chat |-> c, by |-> k, rows |-> <<>>])
    /\ command' = [command EXCEPT ![k] = [pc |-> "clear", chat |-> c]]
    /\ log' = [log EXCEPT ![c] = <<>>]
    /\ tainted' = IF Busy(c) # {} THEN tainted \cup {c} ELSE tainted
    /\ UNCHANGED <<pc, chat, lock, context, tableVars, stored, restarts, dropped>>

Switch(k, c, on) ==
    /\ command[k].pc = "new"
    /\ disabled' = IF on THEN disabled \ {c} ELSE disabled \cup {c}
    /\ command' = [command EXCEPT ![k].pc = "switched"]
    /\ UNCHANGED <<pc, chat, lock, context, table, waiting, seen, memoryVars, dbVars, restarts,
                   ghosts>>

-----------------------------------------------------------------------------
(* The database and the process *)

\* The rows a save deletes: those that are too old, and the oldest of too many;
\* the row it has just written is the newest.
Outdated(c, old) ==
    LET others == {d \in Chats \ {c} : stored[d] # <<>>} IN
    old \subseteq others /\ Cardinality(others \ old) < MaxRows

\* _save_sync or _clear_sync
Write(op, old) ==
    /\ IF op.by \in Requests THEN Outdated(op.chat, old) ELSE old = {}
    /\ stored' = [c \in Chats |->
                     IF c = op.chat THEN op.rows ELSE IF c \in old THEN <<>> ELSE stored[c]]
    /\ dropped' = (dropped \ {op.chat}) \cup old
    /\ UNCHANGED tainted

WriteFails(op) ==
    /\ tainted' = tainted \cup {op.chat}
    /\ UNCHANGED <<stored, dropped>>

\* Broken on purpose: the database waits for the lock of the chat as well.
CommitLocked ==
    LET op == Head(dbQueue) IN
    /\ dbQueue # <<>> /\ Busy(op.chat) = {}
    /\ dbQueue' = Tail(dbQueue)
    /\ \E ok \in BOOLEAN :
         /\ IF ok THEN \E old \in SUBSET Chats : Write(op, old) ELSE WriteFails(op)
         /\ IF op.by \in Requests
            THEN End(op.by) /\ UNCHANGED command
            ELSE /\ command' = [command EXCEPT ![op.by].pc = IF ok THEN "told" ELSE "failed"]
                 /\ UNCHANGED <<pc, chat, lock, context>>
    /\ UNCHANGED <<tableVars, memoryVars, restarts, log>>

\* _save_sync or _clear_sync commits, or fails.  After a save the request, which
\* ignores the failure, archives its turn, releases the lock of its chat and
\* sends the answer; a command replies, or dies of the error.
Commit ==
    LET op == Head(dbQueue) IN
    /\ dbQueue # <<>>
    /\ dbQueue' = Tail(dbQueue)
    /\ \E ok \in BOOLEAN :
         /\ IF ok THEN \E old \in SUBSET Chats : Write(op, old) ELSE WriteFails(op)
         /\ IF op.by \in Requests
            THEN End(op.by) /\ UNCHANGED command
            ELSE /\ command' = [command EXCEPT ![op.by].pc = IF ok THEN "told" ELSE "failed"]
                 /\ UNCHANGED <<pc, chat, lock, context>>
    /\ UNCHANGED <<tableVars, memoryVars, restarts, log>>

\* The process dies and starts again: only the database is left.
Restart ==
    /\ restarts < MaxRestarts
    /\ restarts' = restarts + 1
    /\ pc' = [r \in Requests |-> IF pc[r] \in {"new", "done"} THEN pc[r] ELSE "lost"]
    /\ command' = [k \in Commands |->
                     IF command[k].pc # "clear" THEN command[k]
                     ELSE [command[k] EXCEPT !.pc = "failed"]]
    /\ table' = [c \in Chats |-> None]
    /\ waiting' = [r \in Requests |-> <<>>]
    /\ seen' = <<>> /\ disabled' = {} /\ loaded' = {}
    /\ history' = [c \in Chats |-> <<>>]
    /\ dbQueue' = <<>>
    /\ chat' = [r \in Requests |-> None]
    /\ lock' = [r \in Requests |-> None]
    /\ context' = [r \in Requests |-> <<>>]
    /\ log' = stored /\ dropped' = {}
    /\ UNCHANGED <<stored, tainted>>

Init ==
    /\ pc = [r \in Requests |-> "new"]
    /\ chat = [r \in Requests |-> None]
    /\ lock = [r \in Requests |-> None]
    /\ context = [r \in Requests |-> <<>>]
    /\ table = [c \in Chats |-> None]
    /\ waiting = [r \in Requests |-> <<>>]
    /\ seen = <<>> /\ disabled = {} /\ loaded = {}
    /\ history = [c \in Chats |-> <<>>]
    /\ stored = [c \in Chats |-> <<>>]
    /\ dbQueue = <<>>
    /\ command = [k \in Commands |-> [pc |-> "new", chat |-> None]]
    /\ restarts = 0
    /\ log = [c \in Chats |-> <<>>]
    /\ dropped = {} /\ tainted = {}

Proceed(r) ==
    \/ TurnAway(r) \/ Admit(r) \/ Wake(r) \/ Read(r) \/ Extend(r) \/ TakeSlot(r)
    \/ Answered(r) \/ Failed(r) \/ Apologise(r)

Next ==
    \/ \E r \in Requests : Proceed(r) \/ \E c \in Chats : Receive(r, c)
    \/ \E k \in Commands, c \in Chats : Reset(k, c) \/ Switch(k, c, TRUE) \/ Switch(k, c, FALSE)
    \/ Commit \/ Restart

\* The event loop runs what is ready, the threads of the database and the
\* requests to the model end (they have timeouts).
Fairness ==
    /\ \A r \in Requests : WF_vars(Proceed(r))
    /\ WF_vars(Commit)

Spec == Init /\ [][Next]_vars
FairSpec == Spec /\ Fairness

-----------------------------------------------------------------------------

TypeOK ==
    /\ pc \in [Requests -> PCs]
    /\ chat \in [Requests -> Chats \cup {None}]
    /\ lock \in [Requests -> Requests \cup {None}]
    /\ context \in [Requests -> Seq(Requests)]
    /\ table \in [Chats -> Requests \cup {None}]
    /\ waiting \in [Requests -> Seq(Requests)]
    /\ seen \in Seq(Chats) /\ disabled \subseteq Chats
    /\ history \in [Chats -> Seq(Requests)] /\ loaded \subseteq Chats
    /\ stored \in [Chats -> Seq(Requests)]
    /\ \A i \in 1..Len(dbQueue) : dbQueue[i].chat \in Chats
    /\ restarts \in 0..MaxRestarts
    /\ log \in [Chats -> Seq(Requests)] /\ dropped \subseteq Chats /\ tainted \subseteq Chats
    /\ \A c \in Chats : Len(history[c]) <= HistorySize /\ Len(stored[c]) <= StoredSize

\* One request of a chat at a time works on its history ("Keep persistence
\* ordered with the per-chat mutation", atri_ai.py), though the sweep drops
\* locks from the table: never a held one, and one that is only waited for
\* is lost in the one case that tainted records.
OneAtATime ==
    \A c \in Chats \ tainted : Cardinality(Busy(c)) <= 1

\* the end of what was said, as much of it at least as both the table and the
\* database keep
Recent(turns, said) ==
    /\ Len(turns) >= Lesser(Lesser(HistorySize, StoredSize), Len(said))
    /\ turns = LastOf(Len(turns), said)

\* The model is shown the end of the conversation, without a hole, a repeated
\* turn or one that was forgotten, whatever was swept, reloaded or lost in a
\* restart; it starts anew only where the row was deleted before a reload.
ContextIsRecent ==
    \A r \in Requests :
        pc[r] \in {"ask", "generate"} /\ chat[r] \notin tainted =>
            Recent(context[r], log[chat[r]])

\* Nobody is stuck.  Whoever waits for a lock waits for a request that works, or
\* for the first in line, who can go on; whoever waits for the database has a
\* call in its queue.  (Who waits for a slot waits for the model.)
NobodyStuck ==
    /\ \A r \in Requests :
          /\ pc[r] = "queued" =>
                \/ Locked(lock[r])
                \/ \E q \in Requests :
                      pc[q] = "queued" /\ lock[q] = lock[r] /\ Head(waiting[lock[q]]) = q
          /\ pc[r] = "save" => \E i \in 1..Len(dbQueue) : dbQueue[i].by = r
    /\ \A k \in Commands :
          command[k].pc = "clear" => \E i \in 1..Len(dbQueue) : dbQueue[i].by = k

\* Every message that is received is answered, apologised for or dropped, and
\* its chat is free again: no wait for a lock, a slot or the database lasts.
EveryRequestEnds ==
    \A r \in Requests : pc[r] # "new" ~> pc[r] \in {"done", "lost"}

\* "Đã xóa toàn bộ trí nhớ Atri của chat này" (/forgetall): when the reply is
\* sent no turn of before the command is left, and none comes back from a
\* table, a row or a save that was still queued - unless a request of the chat
\* was under way, which the commands do not wait for, or the next command is
\* about to delete what was said since.
ForgottenForGood ==
    \A k \in Commands :
        LET c == command[k].chat IN
        command[k].pc = "told" /\ c \notin tainted /\ ~Clearing(c) =>
            Elements(history[c]) \cup Elements(stored[c]) \subseteq Elements(log[c])

=============================================================================
