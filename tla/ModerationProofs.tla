-------------------------- MODULE ModerationProofs --------------------------
(***************************************************************************)
(* Proofs about punishments, warnings and captchas, for any number of      *)
(* users, handlers, orders and captchas.                                   *)
(***************************************************************************)
EXTENDS Moderation, TLAPS

-----------------------------------------------------------------------------
(* The inductive invariant *)

Cmds == Modes \cup Lifts \cup {"none", "warn", "resetwarns", "join", "click"}
Steps == {"idle", "count", "call", "violation", "unban", "put out", "row", "reset",
          "mute", "send", "store", "open"}

\* a warning too many, between _warn_sync and _reset_warns_sync
Punishing == {"call", "unban", "row", "reset"}

\* a newcomer whose captcha is not stored yet
Joining == {"mute", "send", "store"}

\* the variables of a handler
HandlerRecord ==
    {r \in [cmd : Cmds, user : Users \cup {None}, token : 0..MaxJoins, step : Steps] :
        /\ r.step # "idle" => r.user \in Users
        /\ r.cmd = "warn" => r.step \in Punishing \cup {"count"}
        /\ r.step = "count" => r.cmd = "warn"
        /\ r.step \in Joining => r.token \in Tokens}

Handling == handler \in [Handlers -> HandlerRecord]

\* the rows the worker has read
Releases == [cmd : Timed, user : Users, token : {0}, step : {"look", "lift", "forget"}]

Releasing ==
    /\ batch \subseteq {r \in Releases : r.step = "look"}
    /\ release \in Releases \cup {Idle}

Telling == tg \in [Users -> [kind : Kinds, timed : BOOLEAN]]
Rowing == row \in [Users -> [action : Timed, due : BOOLEAN] \cup {None}]
Ordering == \A p \in older : p \in Users \X Users /\ IsDue(p[1]) /\ IsDue(p[2])
Judging == verdict \in [Users -> {"none", "timed", "for good"}]
Captchas ==
    /\ captcha \in [Users -> Tokens \cup {None}] /\ tasks \subseteq Users \X Tokens
    /\ void \subseteq Users \X Tokens /\ expired \subseteq Users \X Tokens
Counters ==
    /\ warns \in [Users -> Nat]
    /\ joined \in 0..MaxJoins /\ orders \in 0..MaxOrders /\ restarts \in 0..MaxRestarts

Typed ==
    /\ Handling /\ Releasing /\ Telling /\ Rowing /\ Ordering /\ Judging /\ Captchas
    /\ Counters

\* A sentence is known to the worker as the newest row, or as no row; nothing
\* the worker has read is about the user.
Sentenced(u) ==
    verdict[u] # "none" =>
        /\ Punished(u)
        /\ release.user # u /\ \A r \in batch : r.user # u
        /\ verdict[u] = "timed" => row[u] # None /\ ~row[u].due
        /\ verdict[u] = "for good" => row[u] = None

Punishes(h, u) ==
    /\ handler[h].user = u /\ handler[h].cmd = "warn"
    /\ handler[h].step \in Punishing

\* who is at the limit is being punished
Counted(u) ==
    warns[u] >= WarnLimit /\ restarts = 0 => \E h \in Handlers : Punishes(h, u)

\* The handler is making a captcha.
Makes(h) == handler[h].step \in Joining

Known == tasks \cup void \cup expired

\* The token of a captcha that is being made is nobody else's.
OwnToken(h) ==
    Makes(h) =>
        /\ handler[h].token \in 1..joined
        /\ \A p \in Known : p[2] # handler[h].token
        /\ \A g \in Handlers \ {h} : Makes(g) => handler[g].token # handler[h].token

\* An open captcha's task is not void, and a sleeping one has kicked nobody.
Distinct ==
    /\ \A h \in Handlers : OwnToken(h)
    /\ \A p \in Known : p[2] \in 1..joined
    /\ \A u \in Users : <<u, captcha[u]>> \notin void
    /\ tasks \cap expired = {} /\ void \cap expired = {}

IndInv ==
    /\ Typed
    /\ \A u \in Users : Sentenced(u) /\ Counted(u)
    /\ Distinct

-----------------------------------------------------------------------------
(* Handlers *)

LEMMA IdleRecord ==
    /\ Idle \in HandlerRecord
    /\ Idle.step = "idle" /\ Idle.cmd # "warn" /\ Idle.user = None
BY ModerationAssumption DEF Idle, HandlerRecord, Cmds, Steps, Joining

\* What a handler that goes on, ends or begins has in its variables.
LEMMA Stepped ==
    ASSUME Handling, NEW h \in Handlers, NEW s \in Steps, Step(h, s), ~At(h, "idle"),
           handler[h].cmd = "warn" => s \in Punishing, s # "count",
           s \in Joining => handler[h].token \in Tokens
    PROVE  /\ Handling'
           /\ handler'[h].cmd = handler[h].cmd /\ handler'[h].user = handler[h].user
           /\ handler'[h].token = handler[h].token /\ handler'[h].step = s
           /\ \A g \in Handlers \ {h} : handler'[g] = handler[g]
<1> DEFINE r == [handler[h] EXCEPT !.step = s]
<1>1. handler[h] \in HandlerRecord
  BY DEF Handling
<1>2. /\ r.cmd = handler[h].cmd /\ r.user = handler[h].user
      /\ r.token = handler[h].token /\ r.step = s
  BY <1>1 DEF HandlerRecord
<1>3. r \in HandlerRecord
  BY <1>1, <1>2 DEF HandlerRecord, At
<1>4. handler' = [handler EXCEPT ![h] = r]
  BY DEF Step, Run
<1> QED BY <1>2, <1>3, <1>4 DEF Handling

LEMMA Ran ==
    ASSUME Handling, NEW h \in Handlers, NEW r \in HandlerRecord, Run(h, r)
    PROVE  /\ Handling' /\ handler'[h] = r
           /\ \A g \in Handlers \ {h} : handler'[g] = handler[g]
BY DEF Handling, Run

LEMMA NewRecord ==
    ASSUME NEW cmd \in Cmds, NEW u \in Users, NEW t \in 0..MaxJoins, NEW s \in Steps,
           cmd = "warn" => s \in Punishing \cup {"count"}, s = "count" => cmd = "warn",
           s \in Joining => t \in Tokens
    PROVE  [cmd |-> cmd, user |-> u, token |-> t, step |-> s] \in HandlerRecord
BY DEF HandlerRecord

LEMMA UserOf ==
    ASSUME Handling, NEW h \in Handlers, ~At(h, "idle")
    PROVE  handler[h].user \in Users /\ handler[h].token \in 0..MaxJoins
BY DEF Handling, HandlerRecord, At

LEMMA Begun ==
    ASSUME Handling, NEW h \in Handlers, NEW u \in Users, NEW cmd \in Cmds, NEW s \in Steps,
           Begin(h, cmd, u, s), cmd = "warn" => s \in Punishing \cup {"count"},
           s = "count" => cmd = "warn", s \notin Joining
    PROVE  /\ Handling' /\ handler'[h].step = s /\ handler'[h].user = u
           /\ \A g \in Handlers \ {h} : handler'[g] = handler[g]
<1>1. 0 \in 0..MaxJoins
  BY ModerationAssumption
<1>2. [cmd |-> cmd, user |-> u, token |-> 0, step |-> s] \in HandlerRecord
  BY <1>1, NewRecord
<1> QED BY <1>2, Ran DEF Begin

\* The commands that a moderator, a message or a join begins with
LEMMA RequestKeepsHandling ==
    ASSUME Typed, NEW h \in Handlers, NEW u \in Users, Request(h, u)
    PROVE  /\ Handling' /\ handler[h] = Idle
           /\ \A g \in Handlers \ {h} : handler'[g] = handler[g]
<1> USE DEF Typed
<1>1. ASSUME NEW cmd \in Modes \cup Lifts, Command(h, u, cmd) PROVE Handling'
  BY <1>1, Begun DEF Command, Cmds, Steps, Modes, Lifts, Timed, ForGood, Joining
<1>2. ASSUME Warn(h, u) PROVE Handling'
  BY <1>2, Begun DEF Warn, Cmds, Steps, Joining
<1>3. ASSUME Begin(h, "resetwarns", u, "reset") PROVE Handling'
  BY <1>3, Begun DEF Cmds, Steps, Joining
<1>4. ASSUME NEW mode \in Modes, Violation(h, u, mode) PROVE Handling'
  BY <1>4, Begun DEF Violation, Cmds, Steps, Modes, Timed, ForGood, Joining
<1>5. ASSUME Join(h, u) PROVE Handling'
  <2>1. joined' \in Tokens /\ joined' \in 0..MaxJoins
    BY <1>5, ModerationAssumption DEF Join, Counters, Tokens
  <2> QED BY <1>5, <2>1, Ran, NewRecord DEF Join, Cmds, Steps
<1>6. ASSUME Click(h, u) PROVE Handling'
  <2>1. captcha[u] \in 0..MaxJoins
    BY <1>6 DEF Click, Captchas, Tokens
  <2> QED BY <1>6, <2>1, Ran, NewRecord DEF Click, Cmds, Steps, Joining
<1>7. handler[h] = Idle /\ \E r : Run(h, r)
  BY DEF Request, Command, Warn, Begin, Violation, Join, Click
<1>8. \A g \in Handlers \ {h} : handler'[g] = handler[g]
  BY <1>7 DEF Run, Handling
<1> QED BY <1>1, <1>2, <1>3, <1>4, <1>5, <1>6, <1>7, <1>8 DEF Request

LEMMA HandlerKeepsHandling ==
    ASSUME Handling, NEW h \in Handlers, Handler(h)
    PROVE  /\ Handling'
           /\ \A g \in Handlers \ {h} : handler'[g] = handler[g]
           /\ handler[h].user \in Users
<1>1. ~At(h, "idle")
  BY DEF Handler, At, Count, Call, Unban, CallFails, Row, Reset, MuteNewcomer,
     SendCaptcha, Store, Open
<1>2. handler[h] \in HandlerRecord /\ handler[h].user \in Users
  BY <1>1, UserOf DEF Handling
<1>3. CASE Count(h)
  BY <1>1, <1>2, <1>3, Stepped, Ran, IdleRecord DEF Count, Stop, Steps, Punishing, Joining
<1>4. CASE Call(h)
  BY <1>1, <1>2, <1>4, Stepped, Ran, IdleRecord
     DEF Call, Stop, Steps, Punishing, Joining, HandlerRecord, At
<1>5. CASE Unban(h)
  BY <1>1, <1>2, <1>5, Stepped, Ran, IdleRecord
     DEF Unban, Stop, Steps, Punishing, Joining, HandlerRecord, At
<1>6. CASE MuteNewcomer(h) \/ SendCaptcha(h)
  BY <1>1, <1>2, <1>6, Stepped, Ran, IdleRecord
     DEF MuteNewcomer, SendCaptcha, Stop, Steps, Punishing, Joining, HandlerRecord, At
<1>7. CASE Reset(h) \/ Store(h) \/ Open(h)
  BY <1>2, <1>7, Ran, IdleRecord DEF Reset, Store, Open, Stop
<1>8. CASE CallFails(h) \/ Row(h)
  BY <1>1, <1>2, <1>8, Stepped, Ran, IdleRecord
     DEF CallFails, Row, Stop, Steps, Punishing, Joining
<1> QED BY <1>1, <1>3, <1>4, <1>5, <1>6, <1>7, <1>8 DEF Handler

-----------------------------------------------------------------------------
(* Types *)

LEMMA Sentences ==
    ASSUME Telling
    PROVE  /\ \A mode : Sentence(mode) \in [kind : Kinds, timed : BOOLEAN]
           /\ \A mode \in Timed \cup ForGood : Sentence(mode).kind \in {"muted", "banned"}
           /\ \A u \in Users : Lifted(u) \in [kind : Kinds, timed : BOOLEAN]
BY DEF Sentence, Lifted, Kinds, Telling, Timed, ForGood

LEMMA OutcomeType ==
    ASSUME NEW h, NEW u
    PROVE  Outcome(h, u) \in {"none", "timed", "for good"}
BY DEF Outcome, Timed, ForGood

LEMMA SameTypes ==
    /\ Releasing /\ UNCHANGED <<batch, release>> => Releasing'
    /\ Telling /\ UNCHANGED tg => Telling'
    /\ Rowing /\ UNCHANGED row => Rowing'
    /\ Judging /\ UNCHANGED verdict => Judging'
    /\ Captchas /\ UNCHANGED <<captcha, tasks, void, expired>> => Captchas'
    /\ Ordering /\ UNCHANGED <<row, older>> => Ordering'
    /\ Counters /\ UNCHANGED <<warns, joined, orders, restarts>> => Counters'
BY DEF Releasing, Telling, Rowing, Judging, Captchas, Counters, Ordering, IsDue

\* The user's row is written or deleted: it is not due.
LEMMA Reordered ==
    ASSUME Rowing, Ordering, NEW u \in Users, NEW x, row' = [row EXCEPT ![u] = x], Reorder(u)
    PROVE  Ordering'
<1> SUFFICES ASSUME NEW p \in older' PROVE p \in Users \X Users /\ IsDue(p[1])' /\ IsDue(p[2])'
  BY DEF Ordering
<1>1. p \in older /\ p[1] # u /\ p[2] # u
  BY DEF Reorder
<1>2. p \in Users \X Users /\ IsDue(p[1]) /\ IsDue(p[2])
  BY <1>1 DEF Ordering
<1>3. p[1] \in Users /\ p[2] \in Users
  BY <1>2
<1>4. row'[p[1]] = row[p[1]] /\ row'[p[2]] = row[p[2]]
  BY <1>1, <1>3 DEF Rowing
<1> QED BY <1>2, <1>4 DEF IsDue

LEMMA Judged ==
    ASSUME Judging, NEW u, NEW v \in {"none", "timed", "for good"}, Judge(u, v)
    PROVE  Judging'
BY DEF Judging, Judge

\* Telegram's answer about u
LEMMA Told ==
    ASSUME Telling, NEW u, NEW t \in [kind : Kinds, timed : BOOLEAN],
           tg' = [tg EXCEPT ![u] = t]
    PROVE  Telling'
BY DEF Telling

LEMMA Ordered ==
    ASSUME Counters, orders < MaxOrders, orders' = orders + 1,
           UNCHANGED <<warns, restarts>>,
           UNCHANGED joined \/ (joined < MaxJoins /\ joined' = joined + 1)
    PROVE  Counters'
BY ModerationAssumption DEF Counters

LEMMA RequestKeepsTypes ==
    ASSUME Typed, NEW h \in Handlers, NEW u \in Users, Request(h, u)
    PROVE  Typed'
<1> USE DEF Typed
<1>1. Handling'
  BY RequestKeepsHandling
<1>2. ASSUME NEW cmd, NEW step, Begin(h, cmd, u, step) PROVE Typed'
  BY <1>1, <1>2, SameTypes, Judged, Ordered DEF Begin, workerVars, captchaVars
<1>3. CASE Join(h, u)
  <2>1. Telling'
    <3>1. PICK kind \in {"free", "muted"} : tg' = [tg EXCEPT ![u].kind = kind]
      BY <1>3 DEF Join
    <3> QED BY <3>1 DEF Telling, Kinds
  <2> QED BY <1>1, <1>3, <2>1, SameTypes, Judged, Ordered DEF Join, workerVars
<1>4. CASE Click(h, u)
  <2>1. Captchas'
    BY <1>4 DEF Click, Captchas, Excuse
  <2> QED BY <1>1, <1>4, <2>1, SameTypes DEF Click, workerVars, counts
<1> QED BY <1>2, <1>3, <1>4 DEF Request, Command, Warn, Violation

LEMMA HandlerKeepsTypes ==
    ASSUME Typed, NEW h \in Handlers, Handler(h)
    PROVE  Typed'
<1> USE DEF Typed, workerVars, captchaVars, counts
<1>1. Handling' /\ handler[h].user \in Users /\ handler[h] \in HandlerRecord
  BY HandlerKeepsHandling DEF Handling
<1>2. UNCHANGED <<batch, release, joined, orders, restarts, expired>>
  BY DEF Handler, Count, Call, Unban, CallFails, Row, Reset, MuteNewcomer, SendCaptcha,
         Store, Open
<1>3. Telling'
  <2>1. CASE Call(h) \/ Unban(h) \/ MuteNewcomer(h) \/ Open(h)
    <3>1. \/ UNCHANGED tg
          \/ \E t \in [kind : Kinds, timed : BOOLEAN] :
                tg' = [tg EXCEPT ![handler[h].user] = t]
      BY <1>1, <2>1, Sentences DEF Call, Unban, MuteNewcomer, Open, Telling
    <3> QED BY <3>1, SameTypes, Told
  <2>2. CASE ~(Call(h) \/ Unban(h) \/ MuteNewcomer(h) \/ Open(h))
    BY <2>2, SameTypes DEF Handler, Count, CallFails, Row, Reset, SendCaptcha, Store
  <2> QED BY <2>1, <2>2
<1>4. Rowing' /\ Ordering'
  <2>1. CASE Row(h)
    BY <1>1, <2>1, Reordered DEF Row, Rowing
  <2>2. CASE ~Row(h)
    BY <2>2, SameTypes
    DEF Handler, Count, Call, Unban, CallFails, Reset, MuteNewcomer, SendCaptcha, Store, Open
  <2> QED BY <2>1, <2>2
<1>5. Judging'
  <2>1. \/ UNCHANGED verdict
        \/ \E v \in {"none", "timed", "for good"} : Judge(handler[h].user, v)
    BY OutcomeType
    DEF Handler, Count, Call, Unban, CallFails, Row, Reset, MuteNewcomer, SendCaptcha,
         Store, Open
  <2> QED BY <2>1, SameTypes, Judged
<1>6. Captchas'
  <2>1. CASE Store(h)
    <3>1. handler[h].token \in Tokens
      BY <1>1, <2>1 DEF Store, At, HandlerRecord, Joining
    <3> QED BY <1>1, <2>1, <3>1 DEF Store, Captchas, Excuse
  <2>2. CASE ~Store(h)
    BY <2>2, SameTypes
    DEF Handler, Count, Call, Unban, CallFails, Row, Reset, MuteNewcomer, SendCaptcha, Open
  <2> QED BY <2>1, <2>2
<1>7. Counters'
  <2>1. CASE Count(h) \/ Reset(h)
    BY <1>2, <2>1 DEF Count, Reset, Counters
  <2>2. CASE ~(Count(h) \/ Reset(h))
    BY <1>2, <2>2, SameTypes
    DEF Handler, Call, Unban, CallFails, Row, MuteNewcomer, SendCaptcha, Store, Open
  <2> QED BY <2>1, <2>2
<1> QED BY <1>1, <1>2, <1>3, <1>4, <1>5, <1>6, <1>7, SameTypes

LEMMA OthersKeepTypes ==
    ASSUME Typed,
           \/ \E h \in Handlers, u \in Users, token \in Tokens : Expire(h, u, token)
           \/ \E u \in Users \ Stuck :
                 TelegramEnds(u) \/ Leave(u) \/ Elapse(u) \/ ResetChat(u)
           \/ Worker \/ ReleaseFails \/ Restart \/ UNCHANGED vars
    PROVE  Typed'
<1> USE DEF Typed, workerVars, captchaVars, counts
<1>0. UNCHANGED handler => Handling'
  BY DEF Handling
<1>1. ASSUME NEW h \in Handlers, NEW u \in Users, NEW token \in Tokens, Expire(h, u, token)
      PROVE  Typed'
  <2>1. Handling'
    <3>1. token \in 0..MaxJoins
      BY DEF Tokens
    <3>2. [cmd |-> "kick", user |-> u, token |-> token, step |-> "violation"] \in HandlerRecord
      BY <3>1, NewRecord DEF Cmds, Steps, Modes, Joining
    <3> QED BY <1>1, <3>2, Ran DEF Expire, Handling
  <2>2. Captchas'
    BY <1>1 DEF Expire, Captchas
  <2> QED BY <1>1, <2>1, <2>2, SameTypes DEF Expire
<1>2. ASSUME NEW u \in Users, TelegramEnds(u) \/ Leave(u) \/ Elapse(u) PROVE Typed'
  <2>1. Telling'
    BY <1>2, Sentences, Told, SameTypes DEF TelegramEnds, Leave, Elapse, Kinds
  <2>2. Rowing' /\ Ordering'
    <3>1. CASE Elapse(u)
      <4>1. Rowing'
        BY <3>1 DEF Elapse, Rowing
      <4>2. IsDue(u)' /\ \A v \in Users : IsDue(v) => IsDue(v)'
        BY <3>1, ModerationAssumption DEF Elapse, Rowing, IsDue
      <4>3. ASSUME NEW p \in older' PROVE p \in Users \X Users /\ IsDue(p[1])' /\ IsDue(p[2])'
        <5>1. CASE p \in older
          <6>1. p \in Users \X Users /\ IsDue(p[1]) /\ IsDue(p[2])
            BY <5>1 DEF Ordering
          <6>2. p[1] \in Users /\ p[2] \in Users
            BY <6>1
          <6> QED BY <4>2, <6>1, <6>2
        <5>2. CASE p \notin older
          <6>1. PICK v \in Users : IsDue(v) /\ p = <<v, u>>
            BY <3>1, <4>3, <5>2 DEF Elapse
          <6>2. p[1] = v /\ p[2] = u
            BY <6>1
          <6> QED BY <4>2, <6>1, <6>2
        <5> QED BY <5>1, <5>2
      <4> QED BY <4>1, <4>3 DEF Ordering
    <3> QED BY <1>2, <3>1, SameTypes DEF TelegramEnds, Leave
  <2>3. Judging'
    <3>1. CASE Elapse(u)
      BY <3>1, Judged DEF Elapse, Judging
    <3> QED BY <1>2, <3>1, Judged DEF TelegramEnds, Leave
  <2> QED BY <1>0, <1>2, <2>1, <2>2, <2>3, SameTypes DEF TelegramEnds, Leave, Elapse
<1>3. CASE Worker \/ ReleaseFails
  <2>1. Releasing'
    <3>1. CASE Due
      BY <3>1 DEF Due, Oldest, IsDue, Releasing, Releases, Rowing
    <3>2. ASSUME NEW r \in batch, Take(r) PROVE Releasing'
      BY <3>2 DEF Take, Releasing
    <3>3. CASE Look \/ Lift \/ Forget \/ ReleaseFails
      BY <3>3 DEF Look, Lift, Forget, ReleaseFails, Releasing, Releases, Idle
    <3> QED BY <1>3, <3>1, <3>2, <3>3 DEF Worker
  <2>2. CASE Lift \/ Forget
    <3>1. release.user \in Users
      BY <2>2 DEF Lift, Forget, Releasing, Releases, Idle
    <3>2. Telling'
      BY <2>2, <3>1, Sentences, Told, SameTypes DEF Lift, Forget
    <3>3. Rowing' /\ Ordering'
      <4>1. CASE Forget
        BY <3>1, <4>1, Reordered DEF Forget, Rowing
      <4> QED BY <2>2, <4>1, SameTypes DEF Lift
    <3> QED BY <1>0, <2>1, <2>2, <3>2, <3>3, SameTypes DEF Lift, Forget
  <2>3. CASE ~Lift /\ ~Forget
    BY <1>0, <1>3, <2>1, <2>3, SameTypes DEF Worker, Due, Take, Look, ReleaseFails
  <2> QED BY <2>2, <2>3
<1>4. CASE Restart
  <2>1. Handling'
    BY <1>4, IdleRecord DEF Restart, Handling
  <2>2. Releasing'
    BY <1>4 DEF Restart, Releasing
  <2>3. Captchas'
    BY <1>4 DEF Restart, Captchas
  <2>4. Counters'
    BY <1>4, ModerationAssumption DEF Restart, Counters
  <2> QED BY <1>4, <2>1, <2>2, <2>3, <2>4, SameTypes DEF Restart
<1>5. CASE UNCHANGED vars
  BY <1>0, <1>5, SameTypes DEF vars
<1>6. ASSUME NEW u \in Users, ResetChat(u) PROVE Typed'
  <2>1. Captchas'
    BY <1>6 DEF ResetChat, Captchas, Excuse
  <2>2. Counters'
    BY <1>6, ModerationAssumption DEF ResetChat, Counters
  <2> QED BY <1>0, <1>6, <2>1, <2>2, SameTypes DEF ResetChat
<1> QED BY <1>1, <1>2, <1>3, <1>4, <1>5, <1>6

LEMMA NextTyped == Typed /\ [Next]_vars => Typed'
BY RequestKeepsTypes, HandlerKeepsTypes, OthersKeepTypes DEF Next

-----------------------------------------------------------------------------
(* Sentences *)

\* Whoever is judged anew may have been told anything.
LEMMA JudgedAnew ==
    ASSUME Telling, Judging, NEW u \in Users, Sentenced(u), NEW v \in Users,
           Judge(v, "none"), UNCHANGED <<row, batch, release>>,
           UNCHANGED tg \/ \E t : tg' = [tg EXCEPT ![v] = t]
    PROVE  Sentenced(u)'
<1>1. CASE u = v
  BY <1>1 DEF Judge, Judging, Sentenced
<1>2. CASE u # v
  <2>1. verdict'[u] = verdict[u] /\ tg'[u] = tg[u]
    BY <1>2 DEF Judge, Judging, Telling
  <2> QED BY <2>1 DEF Sentenced, Punished
<1> QED BY <1>1, <1>2

LEMMA SameSentence ==
    ASSUME NEW u \in Users, Sentenced(u), UNCHANGED <<row, batch, release, tg, verdict>>
    PROVE  Sentenced(u)'
BY DEF Sentenced, Punished

\* A punishment counts if nothing else is under way for the user.
LEMMA RowSentences ==
    ASSUME Typed, NEW h \in Handlers, Row(h), NEW u \in Users, Sentenced(u)
    PROVE  Sentenced(u)'
<1> DEFINE v == handler[h].user
<1>1. v \in Users /\ UNCHANGED <<tg, batch, release>>
  BY UserOf DEF Row, At, Typed, workerVars
<1>2. CASE u # v
  <2>1. verdict'[u] = verdict[u] /\ row'[u] = row[u]
    BY <1>2 DEF Row, Judge, Outcome, Typed, Judging, Rowing
  <2> QED BY <1>1, <2>1 DEF Sentenced, Punished
<1>3. CASE u = v /\ verdict'[u] # "none"
  <2>1. ~Overlaps(h, u) /\ tg[u] = Sentence(Mode(h)) /\ Mode(h) \in Timed \cup ForGood
    BY <1>3 DEF Row, Judge, Outcome, Typed, Judging
  <2>2. Punished(u)'
    BY <1>1, <2>1, Sentences DEF Punished, Typed
  <2>3. release.user # u /\ \A r \in batch : r.user # u
    BY <2>1 DEF Overlaps
  <2>4. verdict'[u] = (IF Mode(h) \in Timed THEN "timed" ELSE "for good")
    BY <1>1, <1>3, <2>1 DEF Row, Judge, Outcome, Typed, Judging, Timed, ForGood
  <2>5. row'[u] = (IF Mode(h) \in Timed THEN [action |-> Mode(h), due |-> FALSE] ELSE None)
    BY <1>3 DEF Row, Typed, Rowing
  <2>6. CASE Mode(h) \in Timed
    <3>1. [action |-> Mode(h), due |-> FALSE] \in [action : Timed, due : BOOLEAN]
      BY <2>6
    <3> QED BY <1>1, <2>2, <2>3, <2>4, <2>5, <2>6, <3>1, ModerationAssumption DEF Sentenced
  <2>7. CASE Mode(h) \notin Timed
    BY <1>1, <2>2, <2>3, <2>4, <2>5, <2>7 DEF Sentenced
  <2> QED BY <2>6, <2>7
<1> QED BY <1>2, <1>3 DEF Sentenced

LEMMA WorkerSentences ==
    ASSUME Typed, Worker \/ ReleaseFails, NEW u \in Users, Sentenced(u)
    PROVE  Sentenced(u)'
<1>1. UNCHANGED verdict
  BY DEF Worker, Due, Take, Look, Lift, Forget, ReleaseFails
<1>2. SUFFICES ASSUME verdict[u] # "none" PROVE Sentenced(u)'
  BY <1>1 DEF Sentenced
<1>3. release.user # u /\ (\A r \in batch : r.user # u) /\ (row[u] = None \/ ~row[u].due)
  BY <1>2 DEF Sentenced, Typed, Judging
<1>4. tg'[u] = tg[u] /\ row'[u] = row[u]
  BY <1>3 DEF Worker, Due, Take, Look, Lift, Forget, ReleaseFails, Typed, Telling, Rowing
<1>5. release'.user # u /\ \A r \in batch' : r.user # u
  <2>1. CASE Due
    <3>1. ASSUME NEW r \in batch' PROVE r.user # u
      <4>1. PICK w \in {x \in Users : row[x] # None /\ row[x].due} : r.user = w
        BY <2>1 DEF Due, Oldest, IsDue
      <4> QED BY <1>3, <4>1
    <3> QED BY <1>3, <2>1, <3>1 DEF Due
  <2>2. ASSUME NEW r \in batch, Take(r) PROVE release'.user # u /\ \A q \in batch' : q.user # u
    BY <1>3, <2>2 DEF Take
  <2>3. CASE Look \/ Lift
    <3>1. release'.user = release.user /\ UNCHANGED batch
      BY <2>3 DEF Look, Lift, Typed, Releasing, Releases, Idle
    <3> QED BY <1>3, <3>1
  <2>4. CASE Forget \/ ReleaseFails
    BY <1>3, <2>4, IdleRecord, ModerationAssumption DEF Forget, ReleaseFails
  <2> QED BY <2>1, <2>2, <2>3, <2>4 DEF Worker
<1> QED BY <1>1, <1>2, <1>4, <1>5 DEF Sentenced, Punished

LEMMA NextSentenced ==
    ASSUME Typed, [Next]_vars, NEW u \in Users, Sentenced(u)
    PROVE  Sentenced(u)'
<1> USE DEF Typed, workerVars, captchaVars, counts
<1>1. ASSUME NEW h \in Handlers, Handler(h) PROVE Sentenced(u)'
  <2>1. handler[h].user \in Users
    BY <1>1, HandlerKeepsHandling
  <2>2. CASE Call(h) \/ Unban(h) \/ MuteNewcomer(h) \/ Open(h)
    BY <2>1, <2>2, JudgedAnew DEF Call, Unban, MuteNewcomer, Open
  <2>3. CASE Count(h) \/ CallFails(h) \/ Reset(h) \/ SendCaptcha(h) \/ Store(h)
    BY <2>3, SameSentence DEF Count, CallFails, Reset, SendCaptcha, Store
  <2> QED BY <1>1, <2>2, <2>3, RowSentences DEF Handler
<1>2. ASSUME NEW h \in Handlers, NEW v \in Users, Request(h, v) PROVE Sentenced(u)'
  <2>1. CASE Click(h, v)
    BY <2>1, SameSentence DEF Click
  <2>2. CASE Join(h, v)
    BY <2>2, JudgedAnew DEF Join
  <2> QED BY <1>2, <2>1, <2>2, JudgedAnew DEF Request, Command, Warn, Violation, Begin
<1>3. ASSUME NEW h \in Handlers, NEW v \in Users, NEW token \in Tokens, Expire(h, v, token)
      PROVE  Sentenced(u)'
  BY <1>3, SameSentence DEF Expire
<1>4. ASSUME NEW v \in Users, TelegramEnds(v) \/ Leave(v) PROVE Sentenced(u)'
  BY <1>4, JudgedAnew DEF TelegramEnds, Leave
<1>5. ASSUME NEW v \in Users, Elapse(v) PROVE Sentenced(u)'
  <2>1. CASE u # v
    <3>1. verdict'[u] = verdict[u] /\ row'[u] = row[u] /\ UNCHANGED <<tg, batch, release>>
      BY <1>5, <2>1 DEF Elapse, Judge, Judging, Rowing
    <3> QED BY <3>1 DEF Sentenced, Punished
  <2>2. CASE u = v
    BY <1>5, <2>2 DEF Elapse, Judge, Judging, Sentenced
  <2> QED BY <2>1, <2>2
<1>6. CASE Restart
  BY <1>6, IdleRecord, ModerationAssumption DEF Restart, Sentenced, Punished
<1>7. CASE UNCHANGED vars
  BY <1>7, SameSentence DEF vars
<1>8. ASSUME NEW v \in Users, ResetChat(v) PROVE Sentenced(u)'
  BY <1>8, SameSentence DEF ResetChat
<1> QED BY <1>1, <1>2, <1>3, <1>4, <1>5, <1>6, <1>7, <1>8, WorkerSentences DEF Next

-----------------------------------------------------------------------------
(* Warnings *)

\* Whoever is at the limit has a handler that punishes, if that one goes on
\* punishing and no other warning is counted.
LEMMA StillPunished ==
    ASSUME NEW u \in Users, Counted(u), warns'[u] = warns[u], UNCHANGED restarts, NEW h,
           \A g \in Handlers \ {h} : handler'[g] = handler[g],
           Punishes(h, u) => Punishes(h, u)'
    PROVE  Counted(u)'
BY DEF Counted, Punishes

LEMMA HandlerCounts ==
    ASSUME Typed, NEW h \in Handlers, Handler(h), NEW u \in Users, Counted(u)
    PROVE  Counted(u)'
<1> USE DEF Typed, counts
<1>1. handler[h].user \in Users /\ ~At(h, "idle") /\ handler[h] \in HandlerRecord
      /\ \A g \in Handlers \ {h} : handler'[g] = handler[g]
  BY HandlerKeepsHandling
  DEF Handler, At, Count, Call, Unban, CallFails, Row, Reset, MuteNewcomer, SendCaptcha, Store,
      Open, Handling
<1>2. CASE Count(h)
  <2>1. UNCHANGED restarts
    BY <1>2 DEF Count
  <2>2. CASE handler[h].user # u
    <3>1. warns'[u] = warns[u]
      BY <1>2, <2>2 DEF Count, Counters
    <3> QED BY <1>1, <2>1, <2>2, <3>1, StillPunished DEF Punishes
  <2>3. CASE handler[h].user = u /\ warns[u] + 1 >= WarnLimit
    <3>1. Step(h, "call") /\ handler[h].cmd = "warn"
      BY <1>1, <1>2, <2>3 DEF Count, At, HandlerRecord
    <3>2. handler'[h].user = u /\ handler'[h].cmd = "warn" /\ handler'[h].step = "call"
      BY <1>1, <2>3, <3>1, Stepped DEF Steps, Punishing, Joining
    <3> QED BY <3>2 DEF Counted, Punishes, Punishing
  <2>4. CASE handler[h].user = u /\ ~(warns[u] + 1 >= WarnLimit)
    <3>1. warns'[u] = warns[u] + 1
      BY <1>2, <2>4 DEF Count, Counters
    <3> QED BY <2>4, <3>1 DEF Counted
  <2> QED BY <2>2, <2>3, <2>4
<1>3. CASE Reset(h)
  <2>1. CASE handler[h].user = u
    <3>1. warns'[u] = 0
      BY <1>3, <2>1 DEF Reset, Counters
    <3> QED BY <3>1, ModerationAssumption DEF Counted
  <2>2. CASE handler[h].user # u
    <3>1. warns'[u] = warns[u] /\ UNCHANGED restarts
      BY <1>3, <2>2 DEF Reset, Counters
    <3> QED BY <1>1, <2>2, <3>1, StillPunished DEF Punishes
  <2> QED BY <2>1, <2>2
<1>4. CASE Call(h) \/ Unban(h) \/ CallFails(h) \/ Row(h)
  <2>1. UNCHANGED <<warns, restarts>>
    BY <1>4 DEF Call, Unban, CallFails, Row
  <2>2. ASSUME Punishes(h, u) PROVE \E s \in Punishing : Step(h, s)
    BY <1>4, <2>2 DEF Call, Unban, CallFails, Row, Punishes, Punishing, At
  <2>3. ASSUME Punishes(h, u) PROVE Punishes(h, u)'
    <3>1. PICK s \in Punishing : Step(h, s)
      BY <2>2, <2>3
    <3>2. s \in Steps /\ s \notin Joining /\ s # "count"
      BY DEF Punishing, Steps, Joining
    <3> QED BY <1>1, <2>3, <3>1, <3>2, Stepped DEF Punishes
  <2> QED BY <1>1, <2>1, <2>3, StillPunished
<1>5. CASE MuteNewcomer(h) \/ SendCaptcha(h) \/ Store(h) \/ Open(h)
  <2>1. UNCHANGED <<warns, restarts>> /\ ~Punishes(h, u)
    BY <1>5
    DEF MuteNewcomer, SendCaptcha, Store, Open, Punishes, Punishing, At,
        workerVars, captchaVars
  <2> QED BY <1>1, <2>1, StillPunished
<1> QED BY <1>2, <1>3, <1>4, <1>5 DEF Handler

LEMMA NextCounted ==
    ASSUME Typed, [Next]_vars, NEW u \in Users, Counted(u)
    PROVE  Counted(u)'
<1> USE DEF Typed, workerVars, captchaVars, counts
<1>1. ASSUME NEW h \in Handlers, NEW v \in Users, Request(h, v) PROVE Counted(u)'
  <2>1. UNCHANGED <<warns, restarts>>
    BY <1>1 DEF Request, Command, Warn, Violation, Begin, Join, Click
  <2>2. ~Punishes(h, u) /\ \A g \in Handlers \ {h} : handler'[g] = handler[g]
    BY <1>1, RequestKeepsHandling, IdleRecord DEF Punishes
  <2> QED BY <2>1, <2>2, StillPunished
<1>2. ASSUME NEW h \in Handlers, NEW v \in Users, NEW token \in Tokens, Expire(h, v, token)
      PROVE  Counted(u)'
  <2>1. UNCHANGED <<warns, restarts>> /\ ~Punishes(h, u)
    BY <1>2, IdleRecord DEF Expire, Punishes
  <2>2. \A g \in Handlers \ {h} : handler'[g] = handler[g]
    BY <1>2 DEF Expire, Run, Handling
  <2> QED BY <2>1, <2>2, StillPunished
<1>3. ASSUME NEW v \in Users, TelegramEnds(v) \/ Leave(v) \/ Elapse(v) PROVE Counted(u)'
  BY <1>3 DEF TelegramEnds, Leave, Elapse, Counted, Punishes
<1>4. CASE Worker \/ ReleaseFails \/ UNCHANGED vars
  BY <1>4 DEF Worker, Due, Take, Look, Lift, Forget, ReleaseFails, vars, Counted, Punishes
<1>5. CASE Restart
  BY <1>5 DEF Restart, Counted, Counters
<1>6. ASSUME NEW v \in Users, ResetChat(v) PROVE Counted(u)'
  <2>1. warns'[u] = IF u = v THEN 0 ELSE warns[u]
    BY <1>6 DEF ResetChat, Counters
  <2> QED BY <1>6, <2>1, ModerationAssumption DEF ResetChat, Counted, Punishes
<1> QED BY <1>1, <1>2, <1>3, <1>4, <1>5, <1>6, HandlerCounts DEF Next

-----------------------------------------------------------------------------
(* Captchas *)

\* A captcha goes on, or a task is lost; a handler that makes a captcha goes on
\* making it or ends.
LEMMA SameTokens ==
    ASSUME Distinct, UNCHANGED <<captcha, void, expired, joined>>, tasks' \subseteq tasks,
           \A h \in Handlers : Makes(h)' => Makes(h) /\ handler'[h].token = handler[h].token
    PROVE  Distinct'
<1>1. Known' \subseteq Known
  BY DEF Known
<1>2. ASSUME NEW h \in Handlers PROVE OwnToken(h)'
  BY <1>1 DEF Distinct, OwnToken
<1> QED BY <1>1, <1>2 DEF Distinct

\* A user's captcha is closed.
LEMMA CaptchaCloses ==
    ASSUME Typed, Typed', Distinct, NEW u \in Users,
           captcha' = [captcha EXCEPT ![u] = None], UNCHANGED joined,
           Known' \subseteq Known, void' \subseteq void \cup {p \in Known : p[1] = u},
           tasks' \cap expired' = {}, void' \cap expired' = {},
           \A h \in Handlers : Makes(h)' => Makes(h) /\ handler'[h].token = handler[h].token
    PROVE  Distinct'
<1>1. ASSUME NEW h \in Handlers PROVE OwnToken(h)'
  BY DEF Distinct, OwnToken
<1>2. \A p \in Known' : p[2] \in 1..joined'
  BY DEF Distinct
<1>3. ASSUME NEW v \in Users PROVE <<v, captcha'[v]>> \notin void'
  <2>1. CASE v = u
    <3>1. captcha'[v] = None /\ None \notin Tokens
      BY <2>1, ModerationAssumption DEF Typed, Captchas, Tokens
    <3> QED BY <3>1 DEF Typed, Captchas
  <2>2. CASE v # u
    BY <2>2 DEF Distinct, Typed, Captchas
  <2> QED BY <2>1, <2>2
<1> QED BY <1>1, <1>2, <1>3 DEF Distinct

LEMMA StoreKeepsDistinct ==
    ASSUME Typed, Distinct, NEW h \in Handlers, Store(h)
    PROVE  Distinct'
<1> DEFINE u == handler[h].user
           t == handler[h].token
<1>1. Makes(h) /\ u \in Users
  BY UserOf DEF Store, At, Makes, Joining, Typed
<1>2. t \in 1..joined /\ \A p \in Known : p[2] # t
  BY <1>1 DEF Distinct, OwnToken
<1>3. captcha'[u] = t /\ \A v \in Users \ {u} : captcha'[v] = captcha[v]
  BY <1>1 DEF Store, Typed, Captchas
<1>4. ~Makes(h)' /\ \A g \in Handlers \ {h} : handler'[g] = handler[g]
  BY Ran, IdleRecord DEF Store, Stop, Typed, Joining, Makes
<1>5. /\ tasks' = tasks \cup {<<u, t>>} /\ UNCHANGED <<expired, joined>>
      /\ void' = void \cup {p \in tasks : p[1] = u}
  BY DEF Store, Excuse
<1>6. \A p \in Known' : p \in Known \/ p[2] = t
  BY <1>5 DEF Known
<1>7. ASSUME NEW g \in Handlers PROVE OwnToken(g)'
  <2>1. SUFFICES ASSUME g # h, Makes(g) PROVE OwnToken(g)'
    BY <1>4 DEF OwnToken, Makes
  <2>2. OwnToken(g) /\ handler[g].token # t
    BY <1>1, <2>1 DEF Distinct, OwnToken
  <2>3. handler'[g] = handler[g]
    BY <1>4, <2>1
  <2>4. \A p \in Known' : p[2] # handler'[g].token
    BY <1>6, <2>1, <2>2, <2>3 DEF OwnToken
  <2>5. \A f \in Handlers \ {g} : Makes(f)' => handler'[f].token # handler'[g].token
    BY <1>4, <2>1, <2>2, <2>3 DEF OwnToken, Makes
  <2> QED BY <1>5, <2>1, <2>2, <2>3, <2>4, <2>5 DEF OwnToken
<1>8. \A p \in Known' : p[2] \in 1..joined'
  BY <1>2, <1>5, <1>6 DEF Distinct
<1>9. ASSUME NEW v \in Users PROVE <<v, captcha'[v]>> \notin void'
  <2>1. CASE v = u
    <3>1. <<u, t>> \notin tasks /\ <<u, t>> \notin void
      BY <1>2 DEF Known
    <3> QED BY <1>3, <1>5, <2>1, <3>1
  <2>2. CASE v # u
    BY <1>3, <1>5, <2>2 DEF Distinct
  <2> QED BY <2>1, <2>2
<1>10. tasks' \cap expired' = {} /\ void' \cap expired' = {}
  <2>1. <<u, t>> \notin expired
    BY <1>2 DEF Known
  <2> QED BY <1>5, <2>1 DEF Distinct
<1> QED BY <1>7, <1>8, <1>9, <1>10 DEF Distinct

\* the number of a new captcha is not in use
LEMMA JoinKeepsDistinct ==
    ASSUME Typed, Distinct, NEW h \in Handlers, NEW u \in Users, Join(h, u)
    PROVE  Distinct'
<1>0. PICK t : t = joined + 1
  OBVIOUS
<1>1. /\ joined \in Nat /\ t = joined + 1 /\ joined' = t
      /\ UNCHANGED <<captcha, tasks, void, expired>>
  BY <1>0, ModerationAssumption DEF Join, Typed, Counters
<1>2. t \in 1..joined' /\ t \notin 1..joined /\ \A n \in 1..joined : n \in 1..joined'
  BY <1>1
<1>3. handler'[h].token = t /\ \A g \in Handlers \ {h} : handler'[g] = handler[g]
  <2>1. handler' = [handler EXCEPT ![h] =
                      [cmd |-> "join", user |-> u, token |-> t, step |-> "mute"]]
    BY <1>1 DEF Join, Run
  <2> QED BY <1>1, <2>1 DEF Typed, Handling
<1>4. Known' = Known /\ \A p \in Known : p[2] \in 1..joined
  BY <1>1 DEF Known, Distinct
<1>5. ASSUME NEW g \in Handlers PROVE OwnToken(g)'
  <2>1. \A f \in Handlers \ {h} : Makes(f)' => Makes(f) /\ handler'[f].token \in 1..joined
    BY <1>3 DEF Makes, Distinct, OwnToken
  <2>2. CASE g = h
    BY <1>2, <1>3, <1>4, <2>1, <2>2 DEF OwnToken
  <2>3. CASE g # h
    <3>1. OwnToken(g) /\ handler'[g] = handler[g]
      BY <1>3, <2>3 DEF Distinct
    <3>2. \A f \in Handlers \ {g} : Makes(f)' /\ Makes(g) => handler'[f].token # handler'[g].token
      BY <1>2, <1>3, <2>1, <2>3, <3>1 DEF OwnToken, Makes
    <3> QED BY <1>2, <1>4, <3>1, <3>2 DEF OwnToken, Makes
  <2> QED BY <2>2, <2>3
<1> QED BY <1>1, <1>2, <1>4, <1>5 DEF Distinct

LEMMA NextDistinct ==
    ASSUME Typed, Typed', Distinct, [Next]_vars
    PROVE  Distinct'
<1> USE DEF workerVars, captchaVars, counts
<1>1. ASSUME NEW h \in Handlers, Handler(h) PROVE Distinct'
  <2>1. CASE Store(h)
    BY <2>1, StoreKeepsDistinct
  <2>2. CASE ~Store(h)
    <3>1. UNCHANGED <<captcha, tasks, void, expired, joined>>
      BY <1>1, <2>2
      DEF Handler, Count, Call, Unban, CallFails, Row, Reset, MuteNewcomer, SendCaptcha, Open
    <3>2. \A g \in Handlers \ {h} : handler'[g] = handler[g]
      BY <1>1, HandlerKeepsHandling DEF Typed
    <3>3. Makes(h)' => Makes(h) /\ handler'[h].token = handler[h].token
      <4>1. CASE MuteNewcomer(h) \/ SendCaptcha(h)
        <5>1. ~At(h, "idle") /\ Makes(h) /\ handler[h].cmd # "warn" /\ handler[h].token \in Tokens
          BY <4>1
          DEF MuteNewcomer, SendCaptcha, At, Makes, Joining, Typed, Handling, HandlerRecord,
              Punishing
        <5>2. handler'[h].token = handler[h].token \/ handler'[h] = Idle
          BY <4>1, <5>1, Stepped, Ran, IdleRecord
          DEF MuteNewcomer, SendCaptcha, Stop, Steps, Typed
        <5> QED BY <5>1, <5>2, IdleRecord DEF Joining, Makes
      <4>2. CASE ~(MuteNewcomer(h) \/ SendCaptcha(h))
        <5>1. \/ Stop(h)
              \/ \E s \in {"call", "put out", "unban", "row", "reset"} : Step(h, s)
          BY <1>1, <2>2, <4>2 DEF Handler, Count, Call, Unban, CallFails, Row, Reset, Open
        <5>2. CASE Stop(h)
          BY <5>2, Ran, IdleRecord DEF Stop, Typed, Joining, Makes
        <5>3. ASSUME NEW s \in {"call", "put out", "unban", "row", "reset"}, Step(h, s)
              PROVE  handler'[h].step \notin Joining
          <6>1. handler'[h] = [handler[h] EXCEPT !.step = s]
            BY <5>3 DEF Step, Run, Typed, Handling
          <6>2. handler'[h].step = s
            BY <6>1 DEF Typed, Handling, HandlerRecord
          <6> QED BY <5>3, <6>2 DEF Joining
        <5> QED BY <5>1, <5>2, <5>3 DEF Makes
      <4> QED BY <4>1, <4>2
    <3>4. \A g \in Handlers : Makes(g)' => Makes(g) /\ handler'[g].token = handler[g].token
      BY <3>2, <3>3 DEF Makes
    <3> QED BY <3>1, <3>4, SameTokens
  <2> QED BY <2>1, <2>2
<1>2. ASSUME NEW h \in Handlers, NEW u \in Users, Request(h, u) PROVE Distinct'
  <2>0. \A g \in Handlers \ {h} : handler'[g] = handler[g]
    BY <1>2, RequestKeepsHandling
  <2>1. ASSUME NEW cmd, NEW s, Begin(h, cmd, u, s), s \notin Joining PROVE Distinct'
    <3>1. handler' = [handler EXCEPT ![h] =
                         [cmd |-> cmd, user |-> u, token |-> 0, step |-> s]]
      BY <2>1 DEF Begin, Run
    <3>2. ~Makes(h)'
      BY <2>1, <3>1 DEF Typed, Handling, Makes
    <3>3. UNCHANGED <<captcha, tasks, void, expired, joined>>
      BY <2>1 DEF Begin
    <3> QED BY <2>0, <3>2, <3>3, SameTokens DEF Makes
  <2>2. CASE Click(h, u)
    <3>1. handler' = [handler EXCEPT ![h] =
              [cmd |-> "click", user |-> u, token |-> captcha[u], step |-> "open"]]
      BY <2>2 DEF Click, Run
    <3>2. ~Makes(h)'
      BY <3>1 DEF Typed, Handling, Joining, Makes
    <3>3. /\ captcha' = [captcha EXCEPT ![u] = None]
          /\ Excuse(u) /\ UNCHANGED <<tasks, expired, joined>>
      BY <2>2 DEF Click
    <3> QED BY <2>0, <3>2, <3>3, CaptchaCloses DEF Makes, Excuse, Known, Distinct
  <2> QED
    BY <1>2, <2>1, <2>2, JoinKeepsDistinct DEF Request, Command, Warn, Violation, Joining
<1>3. ASSUME NEW h \in Handlers, NEW u \in Users, NEW token \in Tokens, Expire(h, u, token)
      PROVE  Distinct'
  <2>1. CASE captcha[u] = token
    <3>1. /\ captcha' = [captcha EXCEPT ![u] = None] /\ <<u, token>> \in tasks
          /\ tasks' = tasks \ {<<u, token>>} /\ expired' = expired \cup {<<u, token>>}
          /\ UNCHANGED <<void, joined>>
      BY <1>3, <2>1 DEF Expire
    <3>2. handler' = [handler EXCEPT ![h] =
              [cmd |-> "kick", user |-> u, token |-> token, step |-> "violation"]]
      BY <1>3, <2>1 DEF Expire, Run
    <3>3. ~Makes(h)' /\ \A g \in Handlers \ {h} : handler'[g] = handler[g]
      BY <3>2 DEF Typed, Handling, Joining, Makes
    <3>4. <<u, token>> \notin void
      BY <2>1 DEF Distinct
    <3>5. Known' \subseteq Known /\ tasks' \cap expired' = {} /\ void' \cap expired' = {}
      BY <3>1, <3>4 DEF Known, Distinct
    <3> QED BY <3>1, <3>3, <3>5, CaptchaCloses DEF Makes
  <2>2. CASE captcha[u] # token
    BY <1>3, <2>2, SameTokens DEF Expire, Makes
  <2> QED BY <2>1, <2>2
<1>4. ASSUME NEW v \in Users, TelegramEnds(v) \/ Leave(v) \/ Elapse(v) PROVE Distinct'
  BY <1>4, SameTokens DEF TelegramEnds, Leave, Elapse, Makes
<1>5. CASE Worker \/ ReleaseFails \/ UNCHANGED vars
  BY <1>5, SameTokens DEF Worker, Due, Take, Look, Lift, Forget, ReleaseFails, vars, Makes
<1>6. CASE Restart
  BY <1>6, SameTokens, IdleRecord DEF Restart, Joining, Makes
<1>7. ASSUME NEW v \in Users, ResetChat(v) PROVE Distinct'
  <2>1. /\ captcha' = [captcha EXCEPT ![v] = None]
        /\ Excuse(v) /\ UNCHANGED <<tasks, expired, joined, handler>>
    BY <1>7 DEF ResetChat
  <2> QED BY <2>1, CaptchaCloses DEF Makes, Excuse, Known, Distinct
<1> QED BY <1>1, <1>2, <1>3, <1>4, <1>5, <1>6, <1>7 DEF Next

-----------------------------------------------------------------------------
(* The theorems *)

LEMMA InitIndInv == Init => IndInv
<1> SUFFICES ASSUME Init PROVE IndInv
  OBVIOUS
<1>1. Typed
  <2>1. Handling /\ Releasing
    BY IdleRecord DEF Init, Handling, Releasing
  <2>2. Telling
    BY DEF Init, Telling, Kinds
  <2>3. Rowing /\ Ordering /\ Judging
    BY DEF Init, Rowing, Ordering, Judging, Timed
  <2>4. Captchas /\ Counters
    BY ModerationAssumption DEF Init, Captchas, Counters
  <2> QED BY <2>1, <2>2, <2>3, <2>4 DEF Typed
<1>2. ASSUME NEW u \in Users PROVE Sentenced(u) /\ Counted(u)
  BY ModerationAssumption DEF Init, Sentenced, Counted
<1>3. Distinct
  BY IdleRecord DEF Init, Distinct, OwnToken, Makes, Known, Joining
<1> QED BY <1>1, <1>2, <1>3 DEF IndInv

LEMMA NextIndInv == IndInv /\ [Next]_vars => IndInv'
<1> SUFFICES ASSUME IndInv, [Next]_vars PROVE IndInv'
  OBVIOUS
<1>1. Typed'
  BY NextTyped DEF IndInv
<1> QED BY <1>1, NextSentenced, NextCounted, NextDistinct DEF IndInv

LEMMA Invariance == Spec => []IndInv
BY InitIndInv, NextIndInv, PTL DEF Spec

\* The variables of the module and of its database keep their types.
THEOREM Typing == Spec => []TypeOK
<1>1. IndInv => TypeOK
  <2> SUFFICES ASSUME Typed PROVE TypeOK
    BY DEF IndInv
  <2>1. \A h \in Handlers : handler[h].user \in Users \cup {None}
    BY DEF Typed, Handling, HandlerRecord
  <2>2. \A r \in batch \cup {release} : r = Idle \/ r.cmd \in Timed
    BY DEF Typed, Releasing, Releases
  <2> QED
    BY <2>1, <2>2 DEF Typed, TypeOK, Telling, Rowing, Ordering, Judging, Captchas, Counters
<1> QED BY <1>1, Invariance, PTL

\* A stored punishment that Telegram has lasts until its time, an admin or the next
\* order ends it, if nothing else was at work on the user when it was stored: no
\* other handler, no open captcha, and no row of his that _worker had read by then
\* (_release_one carries such a row out, whatever has replaced it).
THEOREM SentencesAreServed == Spec => []SentenceServed
<1>1. IndInv => SentenceServed
  BY DEF IndInv, Sentenced, SentenceServed
<1> QED BY <1>1, Invariance, PTL

\* Until the bot restarts, a user at the limit of warnings has a handler that warns
\* him at work, which resets them whether or not the punishment succeeds
\* (_issue_warn, _reset_warns_sync).
THEOREM WarningsAreHandled == Spec => []WarningsCount
<1>1. IndInv => WarningsCount
  BY DEF IndInv, Counted, Punishes, WarningsCount
<1> QED BY <1>1, Invariance, PTL

\* A task of _captcha_expire that slept when its user's captcha was solved, replaced
\* by a newer one or deleted by /reset confirm never goes on to put him out.
THEOREM VoidTasksKickNobody == Spec => []VoidTasksSleepOn
<1>1. IndInv => VoidTasksSleepOn
  BY DEF IndInv, Distinct, VoidTasksSleepOn
<1> QED BY <1>1, Invariance, PTL

=============================================================================
