------------------------------ MODULE Werewolf ------------------------------
(***************************************************************************)
(* The werewolf game of one chat.  werewolf_command opens a game and       *)
(* starts its coroutine _run_game (runner); every press of a button is a   *)
(* coroutine of its own, werewolf_callback (click).  All run on one loop   *)
(* and interleave where they await: a click reads the phase and the        *)
(* players, awaits the wallet or Telegram, and goes on with what it read.  *)
(*                                                                         *)
(* Every player stakes one bet.  Coins are counted in bets: what a game    *)
(* took from a player and has not given back.                              *)
(***************************************************************************)
EXTENDS Integers, FiniteSets

CONSTANTS
    Users,
    Games,        \* game objects: how many may ever be opened
    Clicks,       \* bound: callbacks in progress at a time
    MinPlayers,   \* MIN_PLAYERS
    MaxPlayers,   \* MAX_PLAYERS
    LobbyRounds,  \* JOIN_SECONDS / 30
    MaxBets,      \* bound: a user with 0 .. MaxBets - 1 bets in a game may join
    DbFails,      \* whether a payment may raise
    None

ASSUME WerewolfAssumption ==
    /\ IsFiniteSet(Users) /\ IsFiniteSet(Clicks)
    /\ MinPlayers \in Nat \ {0} /\ MaxPlayers \in Nat /\ MinPlayers <= MaxPlayers
    /\ LobbyRounds \in Nat \ {0} /\ MaxBets \in Nat \ {0}
    /\ DbFails \in BOOLEAN
    /\ None \notin Users \cup Games

VARIABLES
    current,   \* GAMES[chat_id]
    runner,    \* where the coroutine of a game is
    click,     \* what each callback in progress is about to do
    phase, host, players, settled,   \* game.phase, host_id, players, settled
    wolves,    \* players whose role is WOLF
    dead,      \* players that are no longer alive
    votes,     \* game.votes
    rung,      \* game.event is set, and waited for
    rounds,    \* what is left of game.remaining
    left,      \* whom the refund or the payment loop has yet to reach
    size,      \* number of players when the refund loop began
    bets       \* history: bets taken from a user and not given back

gameVars == <<phase, host, players, settled, wolves, dead, votes>>
loopVars == <<left, size>>
vars == <<current, runner, click, gameVars, rung, rounds, loopVars, bets>>

RunnerPCs == {"unborn", "created", "lobbySend", "lobbyWait", "lobbyEdit",
              "refund", "tooFewSay", "deal", "nightSend", "nightWait", "nightSay",
              "nightNap", "daySend", "dayWait", "daySay", "pay", "overSay",
              "undo", "undoSay", "ended", "stillborn"}

Lobby == {"created", "lobbySend", "lobbyWait", "lobbyEdit"}
Waits == {"lobbyWait", "nightWait", "dayWait"}
Rounds == {"deal", "nightSend", "nightWait", "nightSay", "nightNap",
           "daySend", "dayWait", "daySay"}

Skip == "skip"

Alive(g) == players[g] \ dead[g]
AliveWolves(g) == Alive(g) \cap wolves[g]
Voters(g) == {u \in Users : votes[g][u] # None}
NoVotes == [u \in Users |-> None]

Set(f, g, v) == f' = [f EXCEPT ![g] = v]
AddBets(g, u, n) == bets' = [bets EXCEPT ![g][u] = @ + n]
Done(c) == Set(click, c, None)
Pending(act, u, g, need) == [act |-> act, user |-> u, game |-> g, need |-> need]

-----------------------------------------------------------------------------
(* werewolf_command *)

\* the chat has no game; the host's bet is being taken
OpenCommand(c, u) ==
    /\ click[c] = None
    /\ current = None
    /\ \E g \in Games : runner[g] = "unborn"
    /\ Set(click, c, Pending("open", u, None, 0))
    /\ UNCHANGED <<current, runner, gameVars, rung, rounds, loopVars, bets>>

\* the bet is taken: the game is registered, whatever is registered by now
Open(c, g) ==
    LET u == click[c].user IN
    /\ click[c] # None /\ click[c].act = "open"
    /\ runner[g] = "unborn"
    /\ current' = g
    /\ Set(runner, g, "created")
    /\ Set(host, g, u)
    /\ Set(players, g, {u})
    /\ AddBets(g, u, 1)
    /\ Done(c)
    /\ UNCHANGED <<phase, settled, wolves, dead, votes, rung, rounds, loopVars>>

\* take_coins finds too little, for a host or for a player who joins
BetRefused(c) ==
    /\ click[c] # None /\ click[c].act \in {"open", "join"}
    /\ Done(c)
    /\ UNCHANGED <<current, runner, gameVars, rung, rounds, loopVars, bets>>

-----------------------------------------------------------------------------
(* werewolf_callback *)

\* join: the checks that precede take_coins
JoinClick(c, u, g) ==
    /\ click[c] = None /\ current = g
    /\ phase[g] = "join" /\ u \notin players[g]
    /\ Cardinality(players[g]) < MaxPlayers
    /\ bets[g][u] \in 0 .. MaxBets - 1
    /\ Set(click, c, Pending("join", u, g, 0))
    /\ UNCHANGED <<current, runner, gameVars, rung, rounds, loopVars, bets>>

\* the bet is taken: game.players[user.id] = Player(user.id, name), a living
\* human; a refund loop that runs over game.players would reach the new entry
Join(c) ==
    LET u == click[c].user
        g == click[c].game
    IN /\ click[c] # None /\ click[c].act = "join"
       /\ Set(players, g, players[g] \cup {u})
       /\ Set(wolves, g, wolves[g] \ {u})
       /\ Set(dead, g, dead[g] \ {u})
       /\ AddBets(g, u, 1)
       /\ Set(left, g, IF runner[g] \in {"refund", "undo"} /\ u \notin players[g]
                       THEN left[g] \cup {u} ELSE left[g])
       /\ Set(click, c, Pending("joined", None, g, MaxPlayers))
       /\ UNCHANGED <<current, runner, phase, host, settled, votes, rung, rounds,
                      size>>

\* Broken on purpose: the player is removed only when the bet is back.
LeaveClickKeepsPlayer(c, u, g) ==
    /\ click[c] = None /\ current = g
    /\ phase[g] = "join" /\ u \in players[g] \ {host[g]}
    /\ Set(click, c, Pending("leave", u, g, 0))
    /\ UNCHANGED <<current, runner, gameVars, rung, rounds, loopVars, bets>>

\* leave: the player is removed, then the bet given back
LeaveClick(c, u, g) ==
    /\ click[c] = None /\ current = g
    /\ phase[g] = "join" /\ u \in players[g] \ {host[g]}
    /\ Set(players, g, players[g] \ {u})
    /\ Set(left, g, left[g] \ {u})
    /\ Set(click, c, Pending("leave", u, g, 0))
    /\ UNCHANGED <<current, runner, phase, host, settled, wolves, dead, votes, rung,
                   rounds, size, bets>>

LeaveRefund(c) ==
    /\ click[c] # None /\ click[c].act = "leave"
    /\ \/ AddBets(click[c].game, click[c].user, -1)
       \/ DbFails /\ UNCHANGED bets
    /\ Done(c)
    /\ UNCHANGED <<current, runner, gameVars, rung, rounds, loopVars>>

StartClick(c, g) ==
    /\ click[c] = None /\ current = g
    /\ phase[g] = "join" /\ Cardinality(players[g]) >= MinPlayers
    /\ Set(click, c, Pending("start", None, g, 0))
    /\ UNCHANGED <<current, runner, gameVars, rung, rounds, loopVars, bets>>

\* kill: a living wolf names a living human
KillClick(c, u, target, g) ==
    /\ click[c] = None /\ current = g
    /\ phase[g] = "night"
    /\ u \in AliveWolves(g) /\ target \in Alive(g) \ wolves[g]
    /\ votes' = [votes EXCEPT ![g][u] = target]
    /\ Set(click, c, Pending("kill", None, g, Cardinality(AliveWolves(g))))
    /\ UNCHANGED <<current, runner, phase, host, players, settled, wolves, dead, rung,
                   rounds, loopVars, bets>>

\* vote: a living player names a living player or nobody
VoteClick(c, u, target, g) ==
    /\ click[c] = None /\ current = g
    /\ phase[g] = "day"
    /\ u \in Alive(g) /\ target \in Alive(g) \cup {Skip}
    /\ votes' = [votes EXCEPT ![g][u] = target]
    /\ Set(click, c, Pending("vote", None, g, Cardinality(Alive(g))))
    /\ UNCHANGED <<current, runner, phase, host, players, settled, wolves, dead, rung,
                   rounds, loopVars, bets>>

\* After answering the query the handlers look again, at what the game is by
\* now, and end the phase: all have voted, the lobby is full, or the host said
\* so.  An answer that raises ends the handler, and an event that is set
\* between two waits is the one of the wait that is over.
ClickEnds(c) ==
    LET g == click[c].game
        enough == CASE click[c].act = "start" -> TRUE
                    [] click[c].act = "joined" -> Cardinality(players[g]) >= click[c].need
                    [] OTHER -> Cardinality(Voters(g)) >= click[c].need
    IN /\ click[c] # None /\ click[c].act \in {"start", "joined", "kill", "vote"}
       /\ \/ enough /\ Set(rung, g, runner[g] \in Waits)
          \/ UNCHANGED rung
       /\ Done(c)
       /\ UNCHANGED <<current, runner, gameVars, rounds, loopVars, bets>>

CancelClick(c, g) ==
    /\ click[c] = None /\ current = g
    /\ Set(click, c, Pending("cancel", None, g, 0))
    /\ UNCHANGED <<current, runner, gameVars, rung, rounds, loopVars, bets>>

-----------------------------------------------------------------------------
(* _run_game *)

Go(g, next) == Set(runner, g, next)

\* the finally clause
Finish(g) ==
    /\ Go(g, "ended")
    /\ current' = None

\* Broken on purpose: a settled game is refunded as well.
StartUndoUnconditional(g) ==
    /\ Go(g, "undo")
    /\ Set(left, g, players[g])
    /\ Set(size, g, Cardinality(players[g]))
    /\ UNCHANGED current

\* the except clauses: _refund_all, which a settled game skips
StartUndo(g) ==
    /\ Go(g, IF settled[g] THEN "undoSay" ELSE "undo")
    /\ Set(left, g, IF settled[g] THEN {} ELSE players[g])
    /\ Set(size, g, Cardinality(players[g]))
    /\ UNCHANGED current

\* game.task.cancel(): a coroutine that has not begun never enters its try, a
\* second cancel leaves the except clause, one that comes too late does nothing
CancelRunner(g) ==
    \/ runner[g] \in {"ended", "stillborn"} /\ UNCHANGED <<current, runner, loopVars>>
    \/ runner[g] = "created" /\ Go(g, "stillborn") /\ UNCHANGED <<current, loopVars>>
    \/ runner[g] \in {"undo", "undoSay"} /\ Finish(g) /\ UNCHANGED loopVars
    \/ runner[g] \notin {"unborn", "created", "undo", "undoSay", "ended", "stillborn"}
       /\ StartUndo(g)

\* the cancel button, after its answer; the command cancels at once
CancelLands(c) ==
    /\ click[c] # None /\ click[c].act = "cancel"
    /\ CancelRunner(click[c].game)
    /\ Done(c)
    /\ UNCHANGED <<gameVars, rung, rounds, bets>>

CancelCommand(g) ==
    /\ current = g
    /\ CancelRunner(g)
    /\ UNCHANGED <<click, gameVars, rung, rounds, bets>>

Begin(g) ==
    /\ runner[g] = "created"
    /\ Go(g, "lobbySend")
    /\ UNCHANGED <<current, click, gameVars, rung, rounds, loopVars, bets>>

\* _wait begins
Await(g, from, next) ==
    /\ runner[g] \in from
    /\ Go(g, next)
    /\ UNCHANGED <<current, click, gameVars, rung, rounds, loopVars, bets>>

LobbyPosted(g) == Await(g, {"lobbySend", "lobbyEdit"}, "lobbyWait")
NightPosted(g) == Await(g, {"nightSend"}, "nightWait")
DayPosted(g) == Await(g, {"daySend"}, "dayWait")

LobbyTimeout(g) ==
    /\ runner[g] = "lobbyWait" /\ ~rung[g]
    /\ rounds[g] > 1
    /\ Set(rounds, g, rounds[g] - 1)
    /\ Go(g, "lobbyEdit")
    /\ UNCHANGED <<current, click, gameVars, rung, loopVars, bets>>

LobbyOver(g) == runner[g] = "lobbyWait" /\ (rung[g] \/ rounds[g] = 1)

TooFew(g) ==
    /\ LobbyOver(g)
    /\ Cardinality(players[g]) < MinPlayers
    /\ Go(g, "refund")
    /\ Set(left, g, players[g])
    /\ Set(size, g, Cardinality(players[g]))
    /\ Set(rung, g, FALSE)
    /\ UNCHANGED <<current, click, gameVars, rounds, bets>>

\* _assign_roles; the phase stays "join" through its sends and its sleep
Deal(g) ==
    LET quarter == Cardinality(players[g]) \div 4
        count == IF quarter > 1 THEN quarter ELSE 1
    IN /\ LobbyOver(g)
       /\ Cardinality(players[g]) >= MinPlayers
       /\ \E pack \in SUBSET players[g] :
             Cardinality(pack) = count /\ Set(wolves, g, pack)
       /\ Go(g, "deal")
       /\ Set(rung, g, FALSE)
       /\ UNCHANGED <<current, click, phase, host, players, settled, dead, votes,
                      rounds, loopVars, bets>>

\* Broken on purpose: the votes of the day are not cleared.
NightStartKeepsVotes(g) ==
    /\ runner[g] = "deal"
    /\ Go(g, "nightSend")
    /\ Set(phase, g, "night")
    /\ UNCHANGED <<current, click, host, players, settled, wolves, dead, votes, rung, rounds,
                   loopVars, bets>>

\* _night_phase and _day_phase begin, after a sleep
NightStart(g) ==
    /\ runner[g] = "deal"
    /\ Go(g, "nightSend")
    /\ Set(phase, g, "night")
    /\ Set(votes, g, NoVotes)
    /\ UNCHANGED <<current, click, host, players, settled, wolves, dead, rung, rounds,
                   loopVars, bets>>

DayStart(g) ==
    /\ runner[g] = "nightNap"
    /\ Go(g, "daySend")
    /\ Set(phase, g, "day")
    /\ Set(votes, g, NoVotes)
    /\ UNCHANGED <<current, click, host, players, settled, wolves, dead, rung, rounds,
                   loopVars, bets>>

Count(g, t) == Cardinality({u \in Users : votes[g][u] = t})

Leaders(g) ==
    {t \in Users \cup {Skip} : /\ Count(g, t) > 0
                               /\ \A s \in Users \cup {Skip} : Count(g, s) <= Count(g, t)}

\* _pick: nobody, or one of the most voted; a tie is broken only at night
Verdicts(g, force) ==
    IF Leaders(g) = {} \/ Skip \in Leaders(g) THEN {None}
    ELSE IF Cardinality(Leaders(g)) > 1 /\ ~force THEN {None}
    ELSE Leaders(g)

\* the wait ends, by the event or by its timeout
Resolve(g, waiting, force, next) ==
    /\ runner[g] = waiting
    /\ Set(phase, g, "resolve")
    /\ \E t \in Verdicts(g, force) : Set(dead, g, dead[g] \cup ({t} \ {None}))
    /\ Go(g, next)
    /\ Set(rung, g, FALSE)
    /\ UNCHANGED <<current, click, host, players, settled, wolves, votes, rounds,
                   loopVars, bets>>

NightOver(g) == Resolve(g, "nightWait", TRUE, "nightSay")
DayOver(g) == Resolve(g, "dayWait", FALSE, "daySay")

Decided(g) ==
    \/ AliveWolves(g) = {}
    \/ Cardinality(AliveWolves(g)) >= Cardinality(Alive(g) \ wolves[g])

\* _check_end: nobody has won yet; then a sleep
GoOn(g) ==
    /\ runner[g] \in {"nightSay", "daySay"}
    /\ ~Decided(g)
    /\ Go(g, IF runner[g] = "nightSay" THEN "nightNap" ELSE "deal")
    /\ UNCHANGED <<current, click, gameVars, rung, rounds, loopVars, bets>>

\* _check_end and the head of _settle: the winners are listed
Settle(g) ==
    /\ runner[g] \in {"nightSay", "daySay"}
    /\ Decided(g)
    /\ Set(settled, g, TRUE)
    /\ Set(phase, g, "over")
    /\ Set(left, g, IF AliveWolves(g) = {} THEN players[g] \ wolves[g]
                    ELSE players[g] \cap wolves[g])
    /\ Go(g, "pay")
    /\ UNCHANGED <<current, click, host, players, wolves, dead, votes, rung, rounds,
                   size, bets>>

Pay(g, u) ==
    /\ runner[g] = "pay" /\ u \in left[g]
    /\ AddBets(g, u, -1)
    /\ Set(left, g, left[g] \ {u})
    /\ UNCHANGED <<current, runner, click, gameVars, rung, rounds, size>>

\* add_coins raises in _settle
PayFails(g) ==
    /\ DbFails
    /\ runner[g] = "pay" /\ left[g] # {}
    /\ StartUndo(g)
    /\ UNCHANGED <<click, gameVars, rung, rounds, bets>>

Paid(g) ==
    /\ runner[g] = "pay" /\ left[g] = {}
    /\ Go(g, "overSay")
    /\ UNCHANGED <<current, click, gameVars, rung, rounds, loopVars, bets>>

\* _refund_all iterates over game.players and awaits in between
SameSize(g) == Cardinality(players[g]) = size[g]

\* an exception of add_coins is logged, and the loop goes on
Refund(g, u) ==
    /\ runner[g] \in {"refund", "undo"}
    /\ SameSize(g) /\ u \in left[g]
    /\ Set(left, g, left[g] \ {u})
    /\ \/ AddBets(g, u, -1)
       \/ DbFails /\ UNCHANGED bets
    /\ UNCHANGED <<current, runner, click, gameVars, rung, rounds, size>>

Refunded(g) ==
    /\ runner[g] \in {"refund", "undo"}
    /\ SameSize(g) /\ left[g] = {}
    /\ Go(g, IF runner[g] = "refund" THEN "tooFewSay" ELSE "undoSay")
    /\ UNCHANGED <<current, click, gameVars, rung, rounds, loopVars, bets>>

\* "dictionary changed size during iteration": the except clause refunds
\* again from the start, or is itself left
RefundBreaks(g) ==
    /\ runner[g] \in {"refund", "undo"}
    /\ ~SameSize(g)
    /\ IF runner[g] = "refund" THEN StartUndo(g)
       ELSE Finish(g) /\ UNCHANGED loopVars
    /\ UNCHANGED <<click, gameVars, rung, rounds, bets>>

Said(g) ==
    /\ runner[g] \in {"tooFewSay", "overSay", "undoSay"}
    /\ Finish(g)
    /\ UNCHANGED <<click, gameVars, rung, rounds, loopVars, bets>>

-----------------------------------------------------------------------------

Init ==
    /\ current = None
    /\ runner = [g \in Games |-> "unborn"]
    /\ click = [c \in Clicks |-> None]
    /\ phase = [g \in Games |-> "join"]
    /\ host = [g \in Games |-> None]
    /\ players = [g \in Games |-> {}]
    /\ settled = [g \in Games |-> FALSE]
    /\ wolves = [g \in Games |-> {}] /\ dead = [g \in Games |-> {}]
    /\ votes = [g \in Games |-> NoVotes]
    /\ rung = [g \in Games |-> FALSE]
    /\ rounds = [g \in Games |-> LobbyRounds]
    /\ left = [g \in Games |-> {}] /\ size = [g \in Games |-> 0]
    /\ bets = [g \in Games |-> [u \in Users |-> 0]]

RunnerStep(g) ==
    \/ Begin(g) \/ LobbyPosted(g) \/ LobbyTimeout(g) \/ TooFew(g) \/ Deal(g)
    \/ NightStart(g) \/ NightPosted(g) \/ NightOver(g)
    \/ DayStart(g) \/ DayPosted(g) \/ DayOver(g) \/ GoOn(g)
    \/ Settle(g) \/ PayFails(g) \/ Paid(g)
    \/ Refunded(g) \/ RefundBreaks(g) \/ Said(g)
    \/ \E u \in Users : Pay(g, u) \/ Refund(g, u)

NewClick(c, g) ==
    \/ StartClick(c, g) \/ CancelClick(c, g)
    \/ \E u \in Users :
          \/ JoinClick(c, u, g) \/ LeaveClick(c, u, g)
          \/ \E t \in Users : KillClick(c, u, t, g)
          \/ \E t \in Users \cup {Skip} : VoteClick(c, u, t, g)

ClickStep(c) ==
    \/ BetRefused(c) \/ Join(c) \/ LeaveRefund(c) \/ ClickEnds(c) \/ CancelLands(c)
    \/ \E g \in Games : Open(c, g)

Next ==
    \/ \E g \in Games : RunnerStep(g) \/ CancelCommand(g)
    \/ \E c \in Clicks : \/ ClickStep(c)
                         \/ \E g \in Games : NewClick(c, g)
                         \/ \E u \in Users : OpenCommand(c, u)

Spec == Init /\ [][Next]_vars

-----------------------------------------------------------------------------

TypeOK ==
    /\ current \in Games \cup {None}
    /\ runner \in [Games -> RunnerPCs]
    /\ phase \in [Games -> {"join", "night", "day", "resolve", "over"}]
    /\ host \in [Games -> Users \cup {None}]
    /\ players \in [Games -> SUBSET Users] /\ settled \in [Games -> BOOLEAN]
    /\ wolves \in [Games -> SUBSET Users] /\ dead \in [Games -> SUBSET Users]
    /\ votes \in [Games -> [Users -> Users \cup {Skip, None}]]
    /\ rung \in [Games -> BOOLEAN] /\ rounds \in [Games -> 1 .. LobbyRounds]
    /\ left \in [Games -> SUBSET Users] /\ size \in [Games -> Nat]
    /\ bets \in [Games -> [Users -> Int]]
    /\ \A c \in Clicks : click[c] # None =>
          /\ click[c].user \in Users \cup {None}
          /\ click[c].game \in Games \cup {None}

\* Everybody who plays has paid: whatever joins, leaves and rejoins overlap, a
\* player of an undecided game has at least one bet in it.
EntryPaid ==
    \A g \in Games : runner[g] \in Lobby \cup Rounds =>
        \A u \in players[g] : bets[g][u] >= 1

\* No game pays out more bets of a player than it took: not the leaves and joins
\* that overlap, nor a settlement that is cancelled, or fails, between any two
\* payments.  Only the refund loops of an unsettled game can.
NoFreeMoney ==
    \A g \in Games, u \in Users :
        bets[g][u] < 0 => ~settled[g] /\ runner[g] \notin Lobby \cup Rounds

\* Only the living vote: no vote outlives its phase, and nobody dies in one.
VotesByLiving ==
    \A g \in Games : phase[g] \in {"night", "day"} => Voters(g) \subseteq Alive(g)

=============================================================================
