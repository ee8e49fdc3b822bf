------------------------------ MODULE Moderation ------------------------------
(***************************************************************************)
(* Punishments in the Rose module: the commands of moderators, warnings,   *)
(* the automatic ones, the captcha of newcomers, and the worker that ends  *)
(* timed punishments.  What a user may do is decided by Telegram; the bot  *)
(* keeps a row for each timed punishment, and one for each open captcha.   *)
(*                                                                         *)
(* A handler is a coroutine: a step is one call to Telegram or one         *)
(* transaction (all of them take _DB_LOCK); Telegram's calls may fail.     *)
(* Time is abstract: what has a time limit may end at any moment.          *)
(***************************************************************************)
EXTENDS Naturals, FiniteSets

CONSTANTS
    Users,      \* each in a chat
    Stuck,      \* those in a chat where the bot has lost its rights
    Handlers,   \* how many handlers run at once
    WarnLimit,  \* warn_limit
    WarnMode,   \* warn_mode
    BatchLimit, \* LIMIT of _due_sync
    MaxOrders,  \* bound on commands, messages and joins
    MaxJoins,   \* bound on the captchas
    MaxRestarts,
    None

Timed == {"tmute", "tban"}
ForGood == {"mute", "ban"}
Lifts == {"unmute", "unban"}
Modes == Timed \cup ForGood \cup {"kick"}
Tokens == 1..MaxJoins

ASSUME ModerationAssumption ==
    /\ Stuck \subseteq Users
    /\ None \notin Users \cup Nat \cup [action : Timed, due : BOOLEAN]
    /\ WarnLimit \in Nat \ {0} /\ WarnMode \in Modes /\ BatchLimit \in Nat \ {0}
    /\ MaxOrders \in Nat /\ MaxJoins \in Nat /\ MaxRestarts \in Nat

VARIABLES
    tg,        \* Telegram: what the user may do, and whether that ends by itself
    row,       \* rose_timed_actions
    older,     \* expires_at of the due rows: <<u, v>> if u's is less than v's
    warns,     \* rose_warnings
    handler,   \* the running coroutines
    batch,     \* rows the worker has read and not come to
    release,   \* the row the worker is at
    captcha,   \* rose_captchas: the token
    tasks,     \* sleeping _captcha_expire tasks
    joined,    \* captchas so far
    orders, restarts,
    verdict,   \* history variable: the user's last punishment by the bot
    void,      \* history variable: tasks that slept when their user's captcha
               \* was solved, replaced or deleted
    expired    \* history variable: tasks that have gone on to put the user out

workerVars == <<batch, release>>
captchaVars == <<captcha, tasks, joined, void, expired>>
counts == <<orders, restarts>>
vars == <<tg, row, older, warns, handler, workerVars, captchaVars, counts, verdict>>

Idle == [cmd |-> "none", user |-> None, token |-> 0, step |-> "idle"]
Kinds == {"free", "muted", "banned", "gone"}
Punished(u) == tg[u].kind \in {"muted", "banned"}

-----------------------------------------------------------------------------
(* Telegram *)

Sentence(mode) ==
    [kind |-> IF mode \in {"mute", "tmute"} THEN "muted" ELSE "banned", timed |-> mode \in Timed]

Lifted(u) ==
    [kind |-> IF tg[u].kind = "banned" THEN "gone"
              ELSE IF tg[u].kind = "muted" THEN "free" ELSE tg[u].kind,
     timed |-> FALSE]

Judge(u, what) == verdict' = [verdict EXCEPT ![u] = what]

\* until_date has come, or an admin lifts the punishment in the app.
TelegramEnds(u) ==
    /\ Punished(u)
    /\ tg' = [tg EXCEPT ![u] = Lifted(u)]
    /\ Judge(u, "none")
    /\ UNCHANGED <<row, older, warns, handler, workerVars, captchaVars, counts>>

Leave(u) ==
    /\ tg[u].kind \in {"free", "muted"}
    /\ tg' = [tg EXCEPT ![u] = [kind |-> "gone", timed |-> FALSE]]
    /\ Judge(u, "none")
    /\ UNCHANGED <<row, older, warns, handler, workerVars, captchaVars, counts>>

IsDue(u) == row[u] # None /\ row[u].due

\* The user's row is another one from now on, or none.
Reorder(u) == older' = {p \in older : p[1] # u /\ p[2] # u}

\* expires_at <= now
Elapse(u) ==
    /\ row[u] # None /\ ~row[u].due
    /\ row' = [row EXCEPT ![u].due = TRUE]
    /\ older' = older \cup {<<v, u>> : v \in {w \in Users : IsDue(w)}}
    /\ Judge(u, IF verdict[u] = "timed" THEN "none" ELSE verdict[u])
    /\ UNCHANGED <<tg, warns, handler, workerVars, captchaVars, counts>>

-----------------------------------------------------------------------------
(* Handlers *)

Run(h, next) == handler' = [handler EXCEPT ![h] = next]
Stop(h) == Run(h, Idle)
Step(h, step) == Run(h, [handler[h] EXCEPT !.step = step])
At(h, step) == handler[h].step = step

Begin(h, cmd, u, step) ==
    /\ handler[h] = Idle /\ orders < MaxOrders
    /\ orders' = orders + 1
    /\ Run(h, [cmd |-> cmd, user |-> u, token |-> 0, step |-> step])
    /\ Judge(u, "none")
    /\ UNCHANGED <<tg, row, older, warns, workerVars, captchaVars, restarts>>

\* _moderation: the target is no admin.
Command(h, u, cmd) == Begin(h, cmd, u, "call")
Warn(h, u) == Begin(h, "warn", u, "count")

\* _passive: a lock, a blocklisted word or a flood in a message of the user;
\* the rows stay as they are.
Violation(h, u, mode) ==
    /\ tg[u].kind = "free"
    /\ Begin(h, mode, u, "violation")

\* _warn_sync
Count(h) ==
    LET u == handler[h].user IN
    /\ At(h, "count")
    /\ warns' = [warns EXCEPT ![u] = @ + 1]
    /\ IF warns[u] + 1 >= WarnLimit THEN Step(h, "call") ELSE Stop(h)
    /\ UNCHANGED <<tg, row, older, workerVars, captchaVars, counts, verdict>>

Mode(h) == IF handler[h].cmd = "warn" THEN WarnMode ELSE handler[h].cmd

Overlaps(h, u) ==
    \/ release.user = u \/ \E r \in batch : r.user = u
    \/ \E g \in Handlers \ {h} : handler[g].user = u
    \/ captcha[u] # None

\* A punishment counts when its handler has stored it; whatever else works on
\* the user meanwhile leaves open what the result is.
Outcome(h, u) ==
    CASE Overlaps(h, u) \/ tg[u] # Sentence(Mode(h)) \/ Mode(h) \notin Timed \cup ForGood -> "none"
      [] ~Overlaps(h, u) /\ tg[u] = Sentence(Mode(h)) /\ Mode(h) \in Timed -> "timed"
      [] ~Overlaps(h, u) /\ tg[u] = Sentence(Mode(h)) /\ Mode(h) \in ForGood -> "for good"

\* ban_chat_member, restrict_chat_member or unban_chat_member; to kick is to
\* ban and to unban.
Call(h) ==
    LET u == handler[h].user
        violation == At(h, "violation")
    IN /\ handler[h].step \in {"call", "violation"} /\ u \notin Stuck
       /\ tg' = [tg EXCEPT ![u] = IF Mode(h) \in Lifts THEN Lifted(u) ELSE Sentence(Mode(h))]
       /\ CASE Mode(h) = "kick" /\ violation -> Step(h, "put out")
            [] Mode(h) = "kick" /\ ~violation -> Step(h, "unban")
            [] Mode(h) # "kick" /\ violation -> Stop(h)
            [] OTHER -> Step(h, "row")
       /\ Judge(u, "none")
       /\ UNCHANGED <<row, older, warns, workerVars, captchaVars, counts>>

\* unban_chat_member of a kick
Unban(h) ==
    LET u == handler[h].user IN
    /\ handler[h].step \in {"unban", "put out"} /\ u \notin Stuck
    /\ tg' = [tg EXCEPT ![u] = Lifted(u)]
    /\ Judge(u, "none")
    /\ IF At(h, "unban") THEN Step(h, "row") ELSE Stop(h)
    /\ UNCHANGED <<row, older, warns, workerVars, captchaVars, counts>>

\* Broken on purpose: a failed punishment leaves the warnings as they are.
CallFailsForAll(h) ==
    /\ handler[h].step \in {"call", "violation", "unban", "put out", "open"}
    /\ Stop(h)
    /\ UNCHANGED <<tg, row, older, warns, workerVars, captchaVars, counts, verdict>>

\* A failure ends the handler; the warnings are reset first all the same.
CallFails(h) ==
    /\ handler[h].step \in {"call", "violation", "unban", "put out", "open"}
    /\ IF handler[h].cmd = "warn" THEN Step(h, "reset") ELSE Stop(h)
    /\ UNCHANGED <<tg, row, older, warns, workerVars, captchaVars, counts, verdict>>

\* Broken on purpose: a punishment for good leaves the row of a timed one.
RowKept(h) ==
    LET u == handler[h].user IN
    /\ At(h, "row")
    /\ row' = [row EXCEPT ![u] =
                 IF Mode(h) \in Timed THEN [action |-> Mode(h), due |-> FALSE]
                 ELSE IF Mode(h) \in ForGood THEN @ ELSE None]
    /\ Reorder(u)
    /\ Judge(u, Outcome(h, u))
    /\ IF handler[h].cmd = "warn" THEN Step(h, "reset") ELSE Stop(h)
    /\ UNCHANGED <<tg, warns, workerVars, captchaVars, counts>>

\* schedule_timed_release, or cancel_timed_release
Row(h) ==
    LET u == handler[h].user IN
    /\ At(h, "row")
    /\ row' = [row EXCEPT ![u] =
                 IF Mode(h) \in Timed THEN [action |-> Mode(h), due |-> FALSE] ELSE None]
    /\ Reorder(u)
    /\ Judge(u, Outcome(h, u))
    /\ IF handler[h].cmd = "warn" THEN Step(h, "reset") ELSE Stop(h)
    /\ UNCHANGED <<tg, warns, workerVars, captchaVars, counts>>

\* _reset_warns_sync, of /resetwarns and of a punishment that failed too
Reset(h) ==
    /\ At(h, "reset")
    /\ warns' = [warns EXCEPT ![handler[h].user] = 0]
    /\ Stop(h)
    /\ UNCHANGED <<tg, row, older, workerVars, captchaVars, counts, verdict>>

-----------------------------------------------------------------------------
(* Captchas *)

\* From now on none of the sleeping tasks has to do with a captcha of the user.
Excuse(u) == void' = void \cup {p \in tasks : p[1] = u}

\* _member_event: a user joins a chat with captcha_enabled; Telegram remembers
\* who was muted.
Join(h, u) ==
    /\ handler[h] = Idle /\ orders < MaxOrders /\ joined < MaxJoins
    /\ tg[u].kind = "gone"
    /\ \E kind \in {"free", "muted"} : tg' = [tg EXCEPT ![u].kind = kind]
    /\ orders' = orders + 1
    /\ joined' = joined + 1
    /\ Run(h, [cmd |-> "join", user |-> u, token |-> joined', step |-> "mute"])
    /\ Judge(u, "none")
    /\ UNCHANGED <<row, older, warns, workerVars, captcha, tasks, void, expired, restarts>>

\* A mute that fails is logged.
MuteNewcomer(h) ==
    LET u == handler[h].user IN
    /\ At(h, "mute")
    /\ tg' = [tg EXCEPT ![u] = IF u \in Stuck THEN @ ELSE Sentence("mute")]
    /\ Judge(u, "none")
    /\ Step(h, "send")
    /\ UNCHANGED <<row, older, warns, workerVars, captchaVars, counts>>

\* If it fails there is neither a row nor a task.
SendCaptcha(h) ==
    /\ At(h, "send")
    /\ Step(h, "store") \/ Stop(h)
    /\ UNCHANGED <<tg, row, older, warns, workerVars, captchaVars, counts, verdict>>

\* INSERT OR REPLACE
Store(h) ==
    /\ At(h, "store")
    /\ captcha' = [captcha EXCEPT ![handler[h].user] = handler[h].token]
    /\ tasks' = tasks \cup {<<handler[h].user, handler[h].token>>}
    /\ Excuse(handler[h].user)
    /\ Stop(h)
    /\ UNCHANGED <<tg, row, older, warns, workerVars, joined, expired, counts, verdict>>

\* rose_callback: a click in time, on the newest captcha; others are answered
\* and change nothing.
Click(h, u) ==
    /\ handler[h] = Idle
    /\ captcha[u] # None
    /\ captcha' = [captcha EXCEPT ![u] = None]
    /\ Excuse(u)
    /\ Run(h, [cmd |-> "click", user |-> u, token |-> captcha[u], step |-> "open"])
    /\ UNCHANGED <<tg, row, older, warns, workerVars, tasks, joined, expired, counts, verdict>>

Open(h) ==
    LET u == handler[h].user IN
    /\ At(h, "open") /\ u \notin Stuck
    /\ tg' = [tg EXCEPT ![u] = Lifted(u)]
    /\ Judge(u, "none")
    /\ Stop(h)
    /\ UNCHANGED <<row, older, warns, workerVars, captchaVars, counts>>

\* Broken on purpose: the row need not be the task's.
ExpireAny(h, u, token) ==
    /\ handler[h] = Idle
    /\ <<u, token>> \in tasks
    /\ tasks' = tasks \ {<<u, token>>}
    /\ captcha' = [captcha EXCEPT ![u] = None]
    /\ expired' = expired \cup {<<u, token>>}
    /\ Run(h, [cmd |-> "kick", user |-> u, token |-> token, step |-> "violation"])
    /\ UNCHANGED <<tg, row, older, warns, workerVars, joined, void, counts, verdict>>

\* _captcha_expire
Expire(h, u, token) ==
    /\ handler[h] = Idle
    /\ <<u, token>> \in tasks
    /\ tasks' = tasks \ {<<u, token>>}
    /\ IF captcha[u] = token
       THEN /\ captcha' = [captcha EXCEPT ![u] = None]
            /\ expired' = expired \cup {<<u, token>>}
            /\ Run(h, [cmd |-> "kick", user |-> u, token |-> token, step |-> "violation"])
       ELSE UNCHANGED <<captcha, expired, handler>>
    /\ UNCHANGED <<tg, row, older, warns, workerVars, joined, void, counts, verdict>>

\* _backup: /reset confirm, one transaction.  Timed punishments are not among
\* what it deletes, and the tasks of captchas go on sleeping.
ResetChat(u) ==
    /\ orders < MaxOrders
    /\ orders' = orders + 1
    /\ captcha' = [captcha EXCEPT ![u] = None]
    /\ warns' = [warns EXCEPT ![u] = 0]
    /\ Excuse(u)
    /\ UNCHANGED <<tg, row, older, handler, workerVars, tasks, joined, expired, restarts, verdict>>

-----------------------------------------------------------------------------
(* _worker *)

\* The oldest rows that are due, BatchLimit of them or all; those of one second
\* in any order.
Oldest(rows) ==
    LET due == {u \in Users : IsDue(u)} IN
    /\ rows \subseteq due /\ rows # {}
    /\ Cardinality(rows) = BatchLimit \/ (rows = due /\ Cardinality(due) < BatchLimit)
    /\ \A p \in older : p[2] \in rows => p[1] \in rows

Due ==
    /\ batch = {} /\ release = Idle
    /\ \E rows \in SUBSET Users :
         /\ Oldest(rows)
         /\ batch' = {[cmd |-> row[u].action, user |-> u, token |-> 0, step |-> "look"] :
                        u \in rows}
    /\ UNCHANGED <<tg, row, older, warns, handler, release, captchaVars, counts, verdict>>

\* one after the other: which one first makes no difference here
Take(r) ==
    /\ release = Idle /\ r \in batch
    /\ release' = r
    /\ batch' = batch \ {r}
    /\ UNCHANGED <<tg, row, older, warns, handler, captchaVars, counts, verdict>>

\* get_chat_member: who is gone, or punished otherwise, is left alone.
Look ==
    /\ release.step = "look" /\ release.user \notin Stuck
    /\ release' = [release EXCEPT !.step =
                     IF tg[release.user].kind = Sentence(release.cmd).kind THEN "lift" ELSE "forget"]
    /\ UNCHANGED <<tg, row, older, warns, handler, batch, captchaVars, counts, verdict>>

Lift ==
    /\ release.step = "lift" /\ release.user \notin Stuck
    /\ tg' = [tg EXCEPT ![release.user] = Lifted(release.user)]
    /\ release' = [release EXCEPT !.step = "forget"]
    /\ UNCHANGED <<row, older, warns, handler, batch, captchaVars, counts, verdict>>

\* cancel_timed_release: whatever row the user has now
Forget ==
    /\ release.step = "forget"
    /\ row' = [row EXCEPT ![release.user] = None]
    /\ Reorder(release.user)
    /\ release' = Idle
    /\ UNCHANGED <<tg, warns, handler, batch, captchaVars, counts, verdict>>

\* Broken on purpose: the error ends the round.
ReleaseFailsAll ==
    /\ release.step \in {"look", "lift"}
    /\ release' = Idle
    /\ batch' = {}
    /\ UNCHANGED <<tg, row, older, warns, handler, captchaVars, counts, verdict>>

\* The row stays, for the next round.
ReleaseFails ==
    /\ release.step \in {"look", "lift"}
    /\ release' = Idle
    /\ UNCHANGED <<tg, row, older, warns, handler, batch, captchaVars, counts, verdict>>

Restart ==
    /\ restarts < MaxRestarts
    /\ restarts' = restarts + 1
    /\ handler' = [h \in Handlers |-> Idle]
    /\ batch' = {} /\ release' = Idle /\ tasks' = {}
    /\ UNCHANGED <<tg, row, older, warns, captcha, joined, void, expired, orders, verdict>>

-----------------------------------------------------------------------------

\* In the chats where the bot has lost its rights a punishment is over and its
\* row still there.
Init ==
    /\ tg \in {t \in [Users -> [kind : {"free", "muted"}, timed : {FALSE}]] :
                 \A u \in Users : (t[u].kind = "muted") = (u \in Stuck)}
    /\ row = [u \in Users |-> IF u \in Stuck THEN [action |-> "tmute", due |-> TRUE] ELSE None]
    /\ older = {}
    /\ warns = [u \in Users |-> 0]
    /\ handler = [h \in Handlers |-> Idle]
    /\ batch = {} /\ release = Idle
    /\ captcha = [u \in Users |-> None] /\ tasks = {} /\ joined = 0
    /\ orders = 0 /\ restarts = 0
    /\ verdict = [u \in Users |-> "none"]
    /\ void = {} /\ expired = {}

Handler(h) ==
    \/ Count(h) \/ Call(h) \/ Unban(h) \/ CallFails(h) \/ Row(h) \/ Reset(h)
    \/ MuteNewcomer(h) \/ SendCaptcha(h) \/ Store(h) \/ Open(h)

Request(h, u) ==
    \/ \E cmd \in Modes \cup Lifts : Command(h, u, cmd)
    \/ Warn(h, u) \/ Begin(h, "resetwarns", u, "reset")
    \/ \E mode \in Modes : Violation(h, u, mode)
    \/ Join(h, u) \/ Click(h, u)

Worker == Due \/ (\E r \in batch : Take(r)) \/ Look \/ Lift \/ Forget

Next ==
    \/ \E h \in Handlers : Handler(h)
    \/ \E h \in Handlers, u \in Users \ Stuck : Request(h, u)
    \/ \E h \in Handlers, u \in Users, token \in Tokens : Expire(h, u, token)
    \/ \E u \in Users \ Stuck : TelegramEnds(u) \/ Leave(u) \/ Elapse(u) \/ ResetChat(u)
    \/ Worker \/ ReleaseFails \/ Restart

\* The event loop goes on, a call to Telegram that is repeated succeeds some
\* day in the chats where the bot has its rights, and messages keep coming
\* (each one sees to it that the worker runs).
Fairness ==
    /\ WF_vars((\E h \in Handlers : Handler(h)) \/ Worker \/ ReleaseFails)
    /\ \A u \in Users \ Stuck : /\ SF_vars(release.user = u /\ Look)
                                /\ SF_vars(release.user = u /\ Lift)

Spec == Init /\ [][Next]_vars
FairSpec == Spec /\ Fairness

-----------------------------------------------------------------------------

TypeOK ==
    /\ tg \in [Users -> [kind : Kinds, timed : BOOLEAN]]
    /\ row \in [Users -> [action : Timed, due : BOOLEAN] \cup {None}]
    /\ \A p \in older : p \in Users \X Users /\ IsDue(p[1]) /\ IsDue(p[2])
    /\ warns \in [Users -> Nat]
    /\ \A h \in Handlers : handler[h].user \in Users \cup {None}
    /\ \A r \in batch \cup {release} : r = Idle \/ r.cmd \in Timed
    /\ captcha \in [Users -> Tokens \cup {None}] /\ tasks \subseteq Users \X Tokens
    /\ joined \in 0..MaxJoins /\ orders \in 0..MaxOrders /\ restarts \in 0..MaxRestarts
    /\ verdict \in [Users -> {"none", "timed", "for good"}]
    /\ void \subseteq Users \X Tokens /\ expired \subseteq Users \X Tokens

\* A punishment that Telegram has and whose row is stored, with nothing else at
\* work on the user at that moment, lasts until the time is up, an admin lifts it
\* or the next order comes: the worker frees nobody on account of an older row,
\* replaced or cancelled before it was read.  What else may be at work (Overlaps)
\* is another handler, an open captcha, and a row of his that the worker has read
\* by then, at hand or in its batch: _release_one does not read it again, so such
\* a row may well free him.
SentenceServed ==
    \A u \in Users : verdict[u] # "none" => Punished(u)

\* An expiry task that slept when its user solved a captcha, whether its own or a
\* newer one, never goes on to put him out; nor does one whose captcha a newer
\* one has replaced, or /reset confirm has deleted.  (One that is past deleting
\* the row, on its way to Telegram, is not called back by anything.)
VoidTasksSleepOn ==
    void \cap expired = {}

\* A user who is at the limit of warnings has a handler at work that warns him:
\* the count does not stay at the limit when that handler's calls fail.  It says
\* nothing of a restart in between, and not that Telegram lets him be punished.
WarningsCount ==
    \A u \in Users :
        warns[u] >= WarnLimit /\ restarts = 0 =>
            \E h \in Handlers : handler[h].user = u /\ handler[h].cmd = "warn"

\* A row that is due is released in the end, whatever fails for others, as long
\* as the rows that can never be released are fewer than the worker reads at
\* once.  (As many of them as that would be read alone, round after round.)
DueIsReleased ==
    \A u \in Users \ Stuck :
        (IsDue(u) /\ Cardinality(Stuck) < BatchLimit) ~> ~IsDue(u)

=============================================================================
