--------------------------- MODULE WerewolfProofs ---------------------------
(***************************************************************************)
(* Proofs that, for any number of users, games and callbacks in progress,  *)
(* a werewolf game takes a bet of everybody who plays, pays nobody more    *)
(* than it took before or after it is settled, and counts only the votes   *)
(* of the living.                                                          *)
(***************************************************************************)
EXTENDS Werewolf, FiniteSetTheorems, TLAPS

-----------------------------------------------------------------------------
(* The inductive invariant *)

\* What a callback in progress remembers: a user unless it only answers, and a
\* game that has begun unless it is about to open one.
Shaped(k) ==
    /\ k.act \in {"open", "join", "leave", "joined", "start", "kill", "vote", "cancel"}
    /\ k.user \in Users \cup {None}
    /\ k.act \in {"open", "join", "leave"} => k.user \in Users
    /\ k.act = "open" => k.game = None
    /\ k.act # "open" => k.game \in Games /\ runner[k.game] # "unborn"

Clicked ==
    /\ click = [c \in Clicks |-> click[c]]
    /\ \A c \in Clicks : click[c] # None => Shaped(click[c])

\* A game object that nobody has opened is blank, and a settled game is over:
\* its coroutine pays, says so, and ends.
Stage(g) ==
    /\ runner[g] = "unborn" =>
          /\ current # g /\ phase[g] = "join" /\ ~settled[g]
          /\ players[g] = {}
          /\ \A u \in Users : bets[g][u] = 0
    /\ settled[g] => phase[g] = "over" /\ runner[g] \in {"pay", "overSay", "undoSay", "ended"}
    /\ runner[g] = "pay" => settled[g]

\* the leaves of a user that have yet to give the bet back
Leaving(g, u) ==
    {c \in Clicks : /\ click[c] # None /\ click[c].act = "leave"
                    /\ click[c].game = g /\ click[c].user = u}
Owed(g, u) == Cardinality(Leaving(g, u))

\* The bets of a user cover what the game still owes: every leave in progress,
\* and the stake of a player, or the payment of a winner.
Covered(g, u) ==
    /\ runner[g] \in Lobby \cup Rounds =>
          /\ bets[g][u] >= Owed(g, u)
          /\ u \in players[g] => bets[g][u] >= Owed(g, u) + 1
    /\ settled[g] =>
          /\ bets[g][u] >= Owed(g, u)
          /\ runner[g] = "pay" /\ u \in left[g] => bets[g][u] >= Owed(g, u) + 1

Voting(g) == phase[g] \in {"night", "day"} => Voters(g) \subseteq Alive(g)

Local(g) ==
    /\ Stage(g) /\ Voting(g)
    /\ \A u \in Users : Covered(g, u)

IndInv ==
    /\ TypeOK /\ Clicked
    /\ \A g \in Games : Local(g)

-----------------------------------------------------------------------------
(* Counting the leaves in progress *)

LEMMA OwedIsNat ==
    ASSUME NEW g, NEW u
    PROVE  IsFiniteSet(Leaving(g, u)) /\ Owed(g, u) \in Nat
BY WerewolfAssumption, FS_Subset, FS_CardinalityType DEF Leaving, Owed

LEMMA OwedIsNatNext ==
    ASSUME NEW g, NEW u
    PROVE  IsFiniteSet(Leaving(g, u)') /\ Owed(g, u)' \in Nat
BY WerewolfAssumption, FS_Subset, FS_CardinalityType DEF Leaving, Owed

LEMMA OwedSame ==
    ASSUME UNCHANGED click, NEW g, NEW u
    PROVE  Owed(g, u)' <= Owed(g, u)
<1>1. Leaving(g, u)' = Leaving(g, u)
  BY DEF Leaving
<1> QED BY <1>1, OwedIsNat, OwedIsNatNext DEF Owed

\* a callback that ends, or begins as anything but a leave, adds to no debt
LEMMA OwedShrinks ==
    ASSUME Clicked, NEW c \in Clicks, NEW v, Set(click, c, v),
           v = None \/ v.act # "leave", NEW g, NEW u
    PROVE  Owed(g, u)' <= Owed(g, u)
<1>1. ASSUME NEW d \in Clicks PROVE click'[d] = IF d = c THEN v ELSE click[d]
  BY DEF Set, Clicked
<1>2. Leaving(g, u)' \subseteq Leaving(g, u)
  BY <1>1 DEF Leaving
<1> QED BY <1>2, OwedIsNat, FS_Subset DEF Owed

\* a leave that is over pays its debt
LEMMA OwedPaid ==
    ASSUME Clicked, NEW c \in Clicks, click[c] # None, click[c].act = "leave", Done(c),
           NEW g, g = click[c].game, NEW u, u = click[c].user
    PROVE  Owed(g, u)' = Owed(g, u) - 1
<1>1. ASSUME NEW d \in Clicks PROVE click'[d] = IF d = c THEN None ELSE click[d]
  BY DEF Done, Set, Clicked
<1>2. Leaving(g, u)' = Leaving(g, u) \ {c} /\ c \in Leaving(g, u)
  BY <1>1 DEF Leaving
<1>3. Cardinality(Leaving(g, u) \ {c}) = Cardinality(Leaving(g, u)) - 1
  BY <1>2, OwedIsNat, FS_RemoveElement
<1> QED BY <1>2, <1>3 DEF Owed

\* a leave that begins adds one to the debt to its user, and to no other
LEMMA OwedGrows ==
    ASSUME Clicked, NEW c \in Clicks, NEW g, NEW u,
           Set(click, c, Pending("leave", u, g, 0)), NEW h, NEW w
    PROVE  /\ Owed(h, w)' <= Owed(h, w) + 1
           /\ h # g \/ w # u => Owed(h, w)' <= Owed(h, w)
<1>1. ASSUME NEW d \in Clicks
      PROVE  click'[d] = IF d = c THEN Pending("leave", u, g, 0) ELSE click[d]
  BY DEF Set, Clicked
<1>2. Leaving(h, w)' \subseteq Leaving(h, w) \cup {c}
  BY <1>1 DEF Leaving
<1>3. ASSUME h # g \/ w # u PROVE Leaving(h, w)' \subseteq Leaving(h, w)
  BY <1>1, <1>3 DEF Leaving, Pending
<1>4. /\ IsFiniteSet(Leaving(h, w)) /\ IsFiniteSet(Leaving(h, w) \cup {c})
      /\ Cardinality(Leaving(h, w)) \in Nat
      /\ Cardinality(Leaving(h, w) \cup {c}) <= Cardinality(Leaving(h, w)) + 1
  <2>1. IsFiniteSet(Leaving(h, w)) /\ Cardinality(Leaving(h, w)) \in Nat
    BY OwedIsNat DEF Owed
  <2>2. IsFiniteSet(Leaving(h, w) \cup {c})
    BY <2>1, FS_AddElement
  <2>3. CASE c \in Leaving(h, w)
    <3>1. Leaving(h, w) \cup {c} = Leaving(h, w)
      BY <2>3
    <3> QED BY <2>1, <3>1
  <2>4. CASE c \notin Leaving(h, w)
    BY <2>1, <2>4, FS_AddElement
  <2> QED BY <2>1, <2>2, <2>3, <2>4
<1>5. Cardinality(Leaving(h, w)') <= Cardinality(Leaving(h, w) \cup {c})
      /\ Cardinality(Leaving(h, w)') \in Nat /\ Cardinality(Leaving(h, w) \cup {c}) \in Nat
  BY <1>2, <1>4, FS_Subset, FS_CardinalityType, OwedIsNatNext DEF Owed
<1>6. Owed(h, w)' <= Owed(h, w) + 1
  BY <1>4, <1>5 DEF Owed
<1>7. h # g \/ w # u => Owed(h, w)' <= Owed(h, w)
  BY <1>3, <1>4, FS_Subset DEF Owed
<1> QED BY <1>6, <1>7

-----------------------------------------------------------------------------
(* The variables keep their types *)

LEMMA Numbers ==
    ASSUME NEW S \in SUBSET Users
    PROVE  Cardinality(S) \in Nat
BY WerewolfAssumption, FS_Subset, FS_CardinalityType

\* TypeOK without what it says of the callbacks, which Clicked says better
GamesTyped ==
    /\ current \in Games \cup {None}
    /\ runner \in [Games -> RunnerPCs]
    /\ phase \in [Games -> {"join", "night", "day", "resolve", "over"}]
    /\ host \in [Games -> Users \cup {None}]
    /\ players \in [Games -> SUBSET Users] /\ settled \in [Games -> BOOLEAN]
    /\ wolves \in [Games -> SUBSET Users] /\ dead \in [Games -> SUBSET Users]
    /\ votes \in [Games -> [Users -> Users \cup {Skip, None}]]
    /\ rung \in [Games -> BOOLEAN] /\ rounds \in [Games -> 1 .. LobbyRounds]
    /\ left \in [Games -> SUBSET Users] /\ size \in [Games -> Nat]
    /\ bets \in [Games -> [Users -> Int]]

LEMMA TypedByParts ==
    /\ TypeOK => GamesTyped
    /\ GamesTyped /\ Clicked => TypeOK
BY DEF TypeOK, GamesTyped, Clicked, Shaped

LEMMA AddBetsEffect ==
    ASSUME bets \in [Games -> [Users -> Int]],
           NEW g \in Games, NEW u \in Users, NEW n \in Int, AddBets(g, u, n)
    PROVE  /\ bets' \in [Games -> [Users -> Int]]
           /\ bets'[g][u] = bets[g][u] + n
           /\ \A h \in Games, w \in Users : h # g \/ w # u => bets'[h][w] = bets[h][w]
BY DEF AddBets

LEMMA StartUndoTyped ==
    ASSUME GamesTyped, NEW g \in Games, StartUndo(g)
    PROVE  /\ current' \in Games \cup {None} /\ runner' \in [Games -> RunnerPCs]
           /\ left' \in [Games -> SUBSET Users] /\ size' \in [Games -> Nat]
BY Numbers DEF GamesTyped, StartUndo, Go, Set, RunnerPCs

LEMMA CancelRunnerTyped ==
    ASSUME GamesTyped, NEW g \in Games, CancelRunner(g)
    PROVE  /\ current' \in Games \cup {None} /\ runner' \in [Games -> RunnerPCs]
           /\ left' \in [Games -> SUBSET Users] /\ size' \in [Games -> Nat]
BY StartUndoTyped DEF GamesTyped, CancelRunner, Finish, Go, Set, RunnerPCs, loopVars

LEMMA RunnerStepTyped ==
    ASSUME GamesTyped, NEW g \in Games, RunnerStep(g)
    PROVE  GamesTyped'
<1>1. CASE Begin(g) \/ LobbyPosted(g) \/ NightPosted(g) \/ DayPosted(g) \/ LobbyTimeout(g)
           \/ GoOn(g) \/ Paid(g) \/ Refunded(g) \/ Said(g)
  <2>1. \E next \in RunnerPCs : Go(g, next)
    <3>1. CASE Begin(g) \/ LobbyPosted(g) \/ NightPosted(g) \/ DayPosted(g)
      BY <3>1 DEF Begin, LobbyPosted, NightPosted, DayPosted, Await, RunnerPCs
    <3>2. CASE LobbyTimeout(g) \/ Paid(g) \/ Said(g)
      BY <3>2 DEF LobbyTimeout, Paid, Said, Finish, RunnerPCs
    <3>3. CASE GoOn(g) \/ Refunded(g)
      BY <3>3 DEF GoOn, Refunded, RunnerPCs, Go, Set
    <3> QED BY <1>1, <3>1, <3>2, <3>3
  <2>2. UNCHANGED <<gameVars, rung, loopVars, bets>> /\ current' \in {current, None}
    BY <1>1 DEF Begin, LobbyPosted, NightPosted, DayPosted, Await, LobbyTimeout,
       GoOn, Paid, Refunded, Said, Finish
  <2>3. rounds' = rounds \/ (rounds[g] > 1 /\ Set(rounds, g, rounds[g] - 1))
    BY <1>1 DEF Begin, LobbyPosted, NightPosted, DayPosted, Await, LobbyTimeout,
       GoOn, Paid, Refunded, Said
  <2>4. rounds' \in [Games -> 1 .. LobbyRounds]
    BY <2>3, WerewolfAssumption DEF GamesTyped, Set
  <2>5. runner' \in [Games -> RunnerPCs]
    BY <2>1 DEF GamesTyped, Go, Set
  <2> QED BY <2>2, <2>4, <2>5 DEF GamesTyped, gameVars, loopVars
<1>2. CASE TooFew(g)
  BY <1>2, Numbers DEF GamesTyped, TooFew, Go, Set, RunnerPCs, gameVars
<1>3. CASE Deal(g)
  BY <1>3 DEF GamesTyped, Deal, Go, Set, RunnerPCs, loopVars
<1>4. CASE NightStart(g) \/ DayStart(g)
  <2>1. NoVotes \in [Users -> Users \cup {Skip, None}]
    BY DEF NoVotes
  <2>2. \E p \in {"night", "day"}, next \in RunnerPCs :
           Set(phase, g, p) /\ Go(g, next)
    BY <1>4 DEF NightStart, DayStart, RunnerPCs
  <2>3. Set(votes, g, NoVotes)
        /\ UNCHANGED <<current, host, players, settled, wolves, dead, rung, rounds, loopVars, bets>>
    BY <1>4 DEF NightStart, DayStart
  <2> HIDE DEF NoVotes
  <2> QED BY <2>1, <2>2, <2>3 DEF GamesTyped, Go, Set, loopVars
<1>5. CASE NightOver(g) \/ DayOver(g)
  <2>1. ASSUME NEW force \in BOOLEAN PROVE Verdicts(g, force) \subseteq Users \cup {None}
    BY DEF Verdicts, Leaders
  <2>2. \E force \in BOOLEAN, next \in RunnerPCs : \E waiting : Resolve(g, waiting, force, next)
    BY <1>5 DEF NightOver, DayOver, RunnerPCs
  <2>3. \E t \in Users \cup {None} : Set(dead, g, dead[g] \cup ({t} \ {None}))
    BY <2>1, <2>2 DEF Resolve
  <2>4. dead' \in [Games -> SUBSET Users]
    BY <2>3 DEF GamesTyped, Set
  <2> QED BY <2>2, <2>4 DEF GamesTyped, Resolve, Go, Set, loopVars
<1>6. CASE Settle(g)
  BY <1>6 DEF GamesTyped, Settle, Go, Set, RunnerPCs
<1>7. CASE PayFails(g)
  BY <1>7, StartUndoTyped DEF GamesTyped, PayFails, gameVars
<1>8. CASE RefundBreaks(g)
  <2>1. CASE runner[g] = "refund"
    BY <1>8, <2>1, StartUndoTyped DEF GamesTyped, RefundBreaks, gameVars
  <2>2. CASE runner[g] # "refund"
    BY <1>8, <2>2 DEF GamesTyped, RefundBreaks, Finish, Go, Set, RunnerPCs, gameVars, loopVars
  <2> QED BY <2>1, <2>2
<1>9. ASSUME NEW u \in Users, Pay(g, u) \/ Refund(g, u) PROVE GamesTyped'
  <2>1. bets' \in [Games -> [Users -> Int]]
    <3>1. AddBets(g, u, -1) \/ UNCHANGED bets
      BY <1>9 DEF Pay, Refund
    <3>2. -1 \in Int /\ bets \in [Games -> [Users -> Int]]
      BY DEF GamesTyped
    <3> QED BY <3>1, <3>2, AddBetsEffect
  <2>2. /\ Set(left, g, left[g] \ {u})
        /\ UNCHANGED <<current, runner, gameVars, rung, rounds, size>>
    BY <1>9 DEF Pay, Refund
  <2> QED BY <2>1, <2>2 DEF GamesTyped, Set, gameVars
<1> QED
  BY <1>1, <1>2, <1>3, <1>4, <1>5, <1>6, <1>7, <1>8, <1>9 DEF RunnerStep

-----------------------------------------------------------------------------
(* What the callbacks in progress remember stays true *)

Grown == \A h \in Games : runner[h] # "unborn" => runner'[h] # "unborn"

LEMMA ClickedKept ==
    ASSUME Clicked, Grown, UNCHANGED click
    PROVE  Clicked'
BY DEF Clicked, Grown, Shaped

LEMMA ClickedSet ==
    ASSUME Clicked, Grown, NEW c \in Clicks, NEW v, Set(click, c, v),
           v = None \/ Shaped(v)'
    PROVE  Clicked'
<1>1. click' = [d \in Clicks |-> click'[d]]
  BY DEF Clicked, Set
<1>2. ASSUME NEW d \in Clicks PROVE click'[d] = IF d = c THEN v ELSE click[d]
  BY DEF Set, Clicked
<1>3. ASSUME NEW d \in Clicks, click'[d] # None PROVE Shaped(click[d])'
  BY <1>2, <1>3 DEF Clicked, Grown, Shaped
<1> QED BY <1>1, <1>3 DEF Clicked

-----------------------------------------------------------------------------
(* One game *)

\* a step that has nothing to do with game h
SameAt(h) ==
    /\ runner'[h] = runner[h] /\ phase'[h] = phase[h] /\ players'[h] = players[h]
    /\ settled'[h] = settled[h] /\ votes'[h] = votes[h] /\ dead'[h] = dead[h]
    /\ left'[h] = left[h] /\ bets'[h] = bets[h]
    /\ current' = h => current = h

NoNewDebt(h) == \A u \in Users : Owed(h, u)' <= Owed(h, u)

LEMMA LocalKept ==
    ASSUME GamesTyped, NEW h \in Games, Local(h), SameAt(h), NoNewDebt(h)
    PROVE  Local(h)'
<1>1. Stage(h)'
  BY DEF Local, Stage, SameAt
<1>2. Voting(h)'
  BY DEF Local, Voting, SameAt, Voters, Alive
<1>3. ASSUME NEW u \in Users PROVE Covered(h, u)'
  <2>1. bets[h][u] \in Int /\ bets'[h][u] = bets[h][u]
    BY DEF GamesTyped, SameAt
  <2>2. Owed(h, u) \in Nat /\ Owed(h, u)' \in Nat /\ Owed(h, u)' <= Owed(h, u)
    BY OwedIsNat, OwedIsNatNext DEF NoNewDebt
  <2> QED BY <2>1, <2>2 DEF Local, Covered, SameAt
<1> QED BY <1>1, <1>2, <1>3 DEF Local

\* the jumps of the coroutine that need nothing but the same bets
LegalMove(g, next) ==
    /\ runner[g] # "unborn" /\ next \notin {"unborn", "pay"}
    /\ next \in Lobby \cup Rounds => runner[g] \in Lobby \cup Rounds
    /\ settled[g] => next \in {"overSay", "undoSay", "ended"}

LEMMA MoveKeepsLocal ==
    ASSUME GamesTyped, NEW g \in Games, Local(g), NEW next, LegalMove(g, next), Go(g, next),
           UNCHANGED <<phase, players, settled, votes, dead, bets>>, NoNewDebt(g)
    PROVE  Local(g)'
<1>0. runner'[g] = next
  BY DEF GamesTyped, Go, Set
<1>1. Stage(g)'
  BY <1>0 DEF Local, Stage, LegalMove
<1>2. Voting(g)'
  BY DEF Local, Voting, Voters, Alive
<1>3. ASSUME NEW u \in Users PROVE Covered(g, u)'
  <2>1. bets[g][u] \in Int /\ bets'[g][u] = bets[g][u]
    BY DEF GamesTyped
  <2>2. Owed(g, u) \in Nat /\ Owed(g, u)' \in Nat /\ Owed(g, u)' <= Owed(g, u)
    BY OwedIsNat, OwedIsNatNext DEF NoNewDebt
  <2> QED BY <1>0, <2>1, <2>2 DEF Local, Covered, LegalMove
<1> QED BY <1>1, <1>2, <1>3 DEF Local

LEMMA StartUndoMoves ==
    ASSUME NEW g \in Games, Stage(g), StartUndo(g), runner[g] # "unborn"
    PROVE  \E next : LegalMove(g, next) /\ Go(g, next)
<1>1. CASE settled[g]
  <2>1. Go(g, "undoSay") /\ LegalMove(g, "undoSay")
    BY <1>1 DEF StartUndo, LegalMove, Stage, Lobby, Rounds, Go, Set
  <2> QED BY <2>1
<1>2. CASE ~settled[g]
  <2>1. Go(g, "undo") /\ LegalMove(g, "undo")
    BY <1>2 DEF StartUndo, LegalMove, Stage, Lobby, Rounds, Go, Set
  <2> QED BY <2>1
<1> QED BY <1>1, <1>2

\* the steps of the coroutine that touch neither phase nor bets
Moves(g) ==
    \/ Begin(g) \/ LobbyPosted(g) \/ LobbyTimeout(g) \/ TooFew(g) \/ Deal(g)
    \/ NightPosted(g) \/ DayPosted(g) \/ GoOn(g) \/ PayFails(g) \/ Paid(g)
    \/ Refunded(g) \/ RefundBreaks(g) \/ Said(g)

LEMMA MovesNext ==
    ASSUME NEW g \in Games, Stage(g), Moves(g)
    PROVE  \E next : LegalMove(g, next) /\ Go(g, next)
<1>1. CASE Begin(g) \/ LobbyPosted(g) \/ NightPosted(g) \/ DayPosted(g)
  BY <1>1 DEF Begin, LobbyPosted, NightPosted, DayPosted, Await, LegalMove, Stage,
                    Lobby, Rounds
<1>2. CASE LobbyTimeout(g)
  BY <1>2 DEF LobbyTimeout, LegalMove, Stage, Lobby, Rounds
<1>3. CASE TooFew(g) \/ Deal(g)
  BY <1>3 DEF TooFew, Deal, LobbyOver, LegalMove, Stage, Lobby, Rounds
<1>4. CASE GoOn(g)
  <2>1. CASE runner[g] = "nightSay"
    <3>1. LegalMove(g, "nightNap") /\ Go(g, "nightNap")
      BY <1>4, <2>1 DEF GoOn, LegalMove, Stage, Lobby, Rounds, Go, Set
    <3> QED BY <3>1
  <2>2. CASE runner[g] = "daySay"
    <3>1. LegalMove(g, "deal") /\ Go(g, "deal")
      BY <1>4, <2>2 DEF GoOn, LegalMove, Stage, Lobby, Rounds, Go, Set
    <3> QED BY <3>1
  <2> QED BY <1>4, <2>1, <2>2 DEF GoOn
<1>5. CASE PayFails(g)
  BY <1>5, StartUndoMoves DEF PayFails
<1>6. CASE Paid(g)
  BY <1>6 DEF Paid, LegalMove, Lobby, Rounds
<1>7. CASE Refunded(g)
  <2>1. CASE runner[g] = "refund"
    <3>1. LegalMove(g, "tooFewSay") /\ Go(g, "tooFewSay")
      BY <1>7, <2>1 DEF Refunded, LegalMove, Stage, Lobby, Rounds, Go, Set
    <3> QED BY <3>1
  <2>2. CASE runner[g] = "undo"
    <3>1. LegalMove(g, "undoSay") /\ Go(g, "undoSay")
      BY <1>7, <2>2 DEF Refunded, LegalMove, Stage, Lobby, Rounds, Go, Set
    <3> QED BY <3>1
  <2> QED BY <1>7, <2>1, <2>2 DEF Refunded
<1>8. CASE RefundBreaks(g)
  <2>1. CASE runner[g] = "refund"
    BY <1>8, <2>1, StartUndoMoves DEF RefundBreaks
  <2>2. CASE runner[g] = "undo"
    <3>1. LegalMove(g, "ended") /\ Go(g, "ended")
      BY <1>8, <2>2 DEF RefundBreaks, Finish, LegalMove, Stage, Lobby, Rounds
    <3> QED BY <3>1
  <2> QED BY <1>8, <2>1, <2>2 DEF RefundBreaks
<1>9. CASE Said(g)
  <2>1. LegalMove(g, "ended") /\ Go(g, "ended")
    BY <1>9 DEF Said, Finish, LegalMove, Lobby, Rounds
  <2> QED BY <2>1
<1> QED
  BY <1>1, <1>2, <1>3, <1>4, <1>5, <1>6, <1>7, <1>8, <1>9 DEF Moves

LEMMA MovesKeepLocal ==
    ASSUME GamesTyped, NEW g \in Games, Local(g), Moves(g)
    PROVE  Local(g)'
<1>1. UNCHANGED <<click, phase, players, settled, votes, dead, bets>>
  BY DEF Moves, Begin, LobbyPosted, LobbyTimeout, TooFew, Deal, NightPosted, DayPosted,
         Await, GoOn, PayFails, Paid, Refunded, RefundBreaks, Said, gameVars
<1>2. \E next : LegalMove(g, next) /\ Go(g, next)
  BY MovesNext DEF Local
<1>3. NoNewDebt(g)
  BY <1>1, OwedSame DEF NoNewDebt
<1> QED BY <1>1, <1>2, <1>3, MoveKeepsLocal

\* Steps of the coroutine that change the phase, the dead or the bets.
LEMMA TurnsKeepLocal ==
    ASSUME GamesTyped, NEW g \in Games, Local(g),
           NightStart(g) \/ DayStart(g) \/ NightOver(g) \/ DayOver(g)
    PROVE  Local(g)'
<1>1. /\ UNCHANGED <<click, players, settled, bets>>
      /\ runner[g] \in Rounds /\ runner'[g] \in Rounds
      /\ phase'[g] \in {"night", "day", "resolve"}
      /\ phase'[g] # "resolve" => votes'[g] = NoVotes
  BY DEF GamesTyped, NightStart, DayStart, NightOver, DayOver, Resolve, Go, Set, Rounds
<1>2. ~settled[g] /\ ~settled'[g]
  BY <1>1 DEF Local, Stage, Rounds
<1>3. Stage(g)'
  BY <1>1, <1>2 DEF Stage, Rounds
<1>4. Voting(g)'
  BY <1>1 DEF Voting, Voters, NoVotes
<1>5. ASSUME NEW u \in Users PROVE Covered(g, u)'
  <2>1. bets[g][u] \in Int /\ bets'[g][u] = bets[g][u]
    BY <1>1 DEF GamesTyped
  <2>2. Owed(g, u) \in Nat /\ Owed(g, u)' \in Nat /\ Owed(g, u)' <= Owed(g, u)
    BY <1>1, OwedIsNat, OwedIsNatNext, OwedSame
  <2> QED BY <1>1, <1>2, <2>1, <2>2 DEF Local, Covered
<1> QED BY <1>3, <1>4, <1>5 DEF Local

LEMMA SettleKeepsLocal ==
    ASSUME GamesTyped, NEW g \in Games, Local(g), Settle(g)
    PROVE  Local(g)'
<1>1. /\ UNCHANGED <<click, players, bets>>
      /\ runner[g] \in Rounds /\ runner'[g] = "pay"
      /\ phase'[g] = "over" /\ settled'[g] = TRUE
      /\ left'[g] \subseteq players[g]
  BY DEF GamesTyped, Settle, Go, Set, Rounds
<1>2. ASSUME NEW u \in Users PROVE Covered(g, u)'
  <2>1. bets[g][u] \in Int /\ bets'[g][u] = bets[g][u]
    BY <1>1 DEF GamesTyped
  <2>2. Owed(g, u) \in Nat /\ Owed(g, u)' \in Nat /\ Owed(g, u)' <= Owed(g, u)
    BY <1>1, OwedIsNat, OwedIsNatNext, OwedSame
  <2> QED BY <1>1, <2>1, <2>2 DEF Local, Covered, Lobby, Rounds
<1> QED BY <1>1, <1>2 DEF Local, Stage, Voting

LEMMA PayKeepsLocal ==
    ASSUME GamesTyped, NEW g \in Games, Local(g), NEW u \in Users, Pay(g, u) \/ Refund(g, u)
    PROVE  Local(g)'
<1>1. /\ UNCHANGED <<runner, click, phase, players, settled, dead, votes>>
      /\ u \in left[g] /\ left'[g] = left[g] \ {u}
      /\ runner[g] \in {"pay", "refund", "undo"}
      /\ current' = current
  BY DEF GamesTyped, Pay, Refund, Set, gameVars
<1>2. bets'[g][u] \in Int /\ bets'[g][u] >= bets[g][u] - 1
      /\ \A w \in Users \ {u} : bets'[g][w] = bets[g][w]
  <2>1. AddBets(g, u, -1) \/ UNCHANGED bets
    BY DEF Pay, Refund
  <2>2. -1 \in Int /\ bets \in [Games -> [Users -> Int]]
    BY DEF GamesTyped
  <2>3. CASE AddBets(g, u, -1)
    BY <2>2, <2>3, AddBetsEffect
  <2>4. CASE UNCHANGED bets
    BY <2>2, <2>4
  <2> QED BY <2>1, <2>3, <2>4
<1>3. Stage(g)' /\ Voting(g)'
  BY <1>1 DEF Local, Stage, Voting, Voters, Alive
<1>4. ASSUME NEW w \in Users PROVE Covered(g, w)'
  <2>1. /\ bets[g][w] \in Int /\ bets'[g][w] \in Int /\ bets'[g][w] >= bets[g][w] - 1
        /\ w # u => bets'[g][w] = bets[g][w]
    BY <1>2 DEF GamesTyped
  <2>2. Owed(g, w) \in Nat /\ Owed(g, w)' \in Nat /\ Owed(g, w)' <= Owed(g, w)
    BY <1>1, OwedIsNat, OwedIsNatNext, OwedSame
  <2>3. /\ settled'[g] => settled[g]
        /\ runner'[g] = runner[g]
        /\ runner[g] \notin Lobby \cup Rounds
        /\ settled[g] => runner[g] = "pay"
        /\ settled[g] => phase[g] = "over"
    BY <1>1 DEF Local, Stage, Lobby, Rounds
  <2>4. settled[g] =>
          /\ bets[g][w] >= Owed(g, w)
          /\ w \in left[g] => bets[g][w] >= Owed(g, w) + 1
    BY <2>3 DEF Local, Covered
  <2>5. ASSUME settled'[g]
        PROVE  /\ bets'[g][w] >= Owed(g, w)'
               /\ w \in left'[g] => bets'[g][w] >= Owed(g, w)' + 1
    <3>1. /\ bets[g][w] >= Owed(g, w)
          /\ w \in left[g] => bets[g][w] >= Owed(g, w) + 1
      BY <2>3, <2>4, <2>5, Zenon
    <3> QED BY <1>1, <2>1, <2>2, <3>1
  <2>6. runner'[g] \notin Lobby \cup Rounds
    BY <2>3
  <2> QED BY <2>5, <2>6, Zenon DEF Covered
<1> QED BY <1>3, <1>4 DEF Local

LEMMA RunnerStepKeepsLocal ==
    ASSUME GamesTyped, NEW g \in Games, Local(g), RunnerStep(g)
    PROVE  Local(g)'
BY MovesKeepLocal, TurnsKeepLocal, SettleKeepsLocal, PayKeepsLocal DEF RunnerStep, Moves

-----------------------------------------------------------------------------
(* A step of one game leaves the others alone *)

LEMMA RunnerStepFrame ==
    ASSUME GamesTyped, NEW g \in Games, Local(g), RunnerStep(g)
    PROVE  /\ UNCHANGED click /\ Grown
           /\ \A h \in Games \ {g} : SameAt(h)
<1>1. CASE Moves(g)
  <2>1. /\ UNCHANGED <<click, phase, players, settled, votes, dead, bets>>
        /\ current' = current \/ current' = None
    BY <1>1 DEF Moves, Begin, LobbyPosted, LobbyTimeout, TooFew, Deal, NightPosted,
       DayPosted, Await, GoOn, PayFails, Paid, Refunded, RefundBreaks, Said, StartUndo,
       Finish, gameVars
  <2>2. \E next : LegalMove(g, next) /\ Go(g, next)
    BY <1>1, MovesNext DEF Local
  <2>3. left' = left \/ \E v : Set(left, g, v)
    BY <1>1 DEF Moves, Begin, LobbyPosted, LobbyTimeout, TooFew, Deal, NightPosted,
       DayPosted, Await, GoOn, PayFails, Paid, Refunded, RefundBreaks, Said, StartUndo,
       loopVars
  <2>4. \A h \in Games \ {g} : left'[h] = left[h] /\ runner'[h] = runner[h]
    BY <2>2, <2>3 DEF GamesTyped, Go, Set
  <2>5. runner'[g] # "unborn"
    BY <2>2 DEF GamesTyped, Go, Set, LegalMove
  <2>6. \A h \in Games \ {g} : SameAt(h)
    BY <2>1, <2>4, WerewolfAssumption DEF SameAt
  <2> QED BY <2>1, <2>4, <2>5, <2>6 DEF Grown
<1>2. CASE NightStart(g) \/ DayStart(g) \/ NightOver(g) \/ DayOver(g)
  <2>1. /\ UNCHANGED <<click, current, players, settled, bets, left>>
        /\ \E next : next # "unborn" /\ Go(g, next)
        /\ \E p : Set(phase, g, p)
        /\ votes' = votes \/ Set(votes, g, NoVotes)
        /\ dead' = dead \/ \E v : Set(dead, g, v)
    BY <1>2 DEF NightStart, DayStart, NightOver, DayOver, Resolve, loopVars
  <2>2. runner'[g] # "unborn" /\ \A h \in Games \ {g} : SameAt(h)
    BY <2>1 DEF GamesTyped, SameAt, Go, Set
  <2> QED BY <2>1, <2>2 DEF Grown, SameAt
<1>3. CASE Settle(g)
  <2>1. runner'[g] # "unborn" /\ \A h \in Games \ {g} : SameAt(h)
    BY <1>3 DEF GamesTyped, Settle, SameAt, Go, Set
  <2> QED BY <1>3, <2>1 DEF Grown, SameAt, Settle
<1>4. ASSUME NEW u \in Users, Pay(g, u) \/ Refund(g, u)
      PROVE  /\ UNCHANGED click /\ Grown
             /\ \A h \in Games \ {g} : SameAt(h)
  <2>1. /\ UNCHANGED <<current, runner, click, phase, players, settled, dead, votes>>
        /\ Set(left, g, left[g] \ {u})
        /\ AddBets(g, u, -1) \/ UNCHANGED bets
    BY <1>4 DEF Pay, Refund, gameVars
  <2>2. \A h \in Games \ {g} : SameAt(h)
    BY <2>1 DEF GamesTyped, SameAt, Set, AddBets
  <2> QED BY <2>1, <2>2 DEF Grown
<1> QED BY <1>1, <1>2, <1>3, <1>4 DEF RunnerStep, Moves

LEMMA RunnerStepKeepsIndInv ==
    ASSUME IndInv, NEW g \in Games, RunnerStep(g)
    PROVE  IndInv'
<1>0. GamesTyped /\ Clicked /\ Local(g)
  BY TypedByParts DEF IndInv
<1>1. GamesTyped'
  BY <1>0, RunnerStepTyped
<1>2. /\ UNCHANGED click /\ Grown
      /\ \A h \in Games \ {g} : SameAt(h)
  BY <1>0, RunnerStepFrame
<1>3. Clicked'
  BY <1>0, <1>2, ClickedKept
<1>4. TypeOK'
  BY <1>1, <1>3 DEF TypeOK, GamesTyped, Clicked, Shaped
<1>5. ASSUME NEW h \in Games PROVE Local(h)'
  <2>1. CASE h = g
    BY <1>0, <2>1, RunnerStepKeepsLocal
  <2>2. CASE h # g
    <3>1. NoNewDebt(h)
      BY <1>2, OwedSame DEF NoNewDebt
    <3> QED BY <1>0, <1>2, <2>2, <3>1, LocalKept DEF IndInv
  <2> QED BY <2>1, <2>2
<1> QED BY <1>3, <1>4, <1>5 DEF IndInv

-----------------------------------------------------------------------------
(* Cancelling *)

LEMMA CancelRunnerEffect ==
    ASSUME GamesTyped, NEW g \in Games, Local(g), CancelRunner(g),
           UNCHANGED <<phase, players, settled, votes, dead, bets>>, NoNewDebt(g)
    PROVE  /\ Local(g)' /\ Grown
           /\ \A h \in Games \ {g} : SameAt(h)
<1>1. CASE runner[g] \in {"ended", "stillborn"} /\ UNCHANGED <<current, runner, loopVars>>
  <2>1. \A h \in Games : SameAt(h)
    BY <1>1 DEF SameAt, loopVars
  <2> QED BY <1>1, <2>1, LocalKept DEF Grown
<1>2. CASE \E next : LegalMove(g, next) /\ Go(g, next)
  <2>1. Local(g)'
    BY <1>2, MoveKeepsLocal
  <2>2. /\ left' = left \/ \E v : Set(left, g, v)
        /\ current' = current \/ current' = None
    BY DEF CancelRunner, StartUndo, Finish, loopVars
  <2>3. \A h \in Games \ {g} : left'[h] = left[h] /\ runner'[h] = runner[h]
    BY <1>2, <2>2 DEF GamesTyped, Go, Set
  <2>4. runner'[g] # "unborn"
    BY <1>2 DEF GamesTyped, Go, Set, LegalMove
  <2>5. \A h \in Games \ {g} : SameAt(h)
    BY <2>2, <2>3, WerewolfAssumption DEF SameAt
  <2> QED BY <2>1, <2>3, <2>4, <2>5 DEF Grown
<1>3. CASE runner[g] = "created" /\ Go(g, "stillborn")
  BY <1>2, <1>3 DEF LegalMove, Local, Stage, Lobby, Rounds
<1>4. CASE runner[g] \in {"undo", "undoSay"} /\ Finish(g)
  BY <1>2, <1>4 DEF Finish, LegalMove, Lobby, Rounds
<1>5. CASE runner[g] # "unborn" /\ StartUndo(g)
  BY <1>2, <1>5, StartUndoMoves DEF Local
<1> QED BY <1>1, <1>3, <1>4, <1>5 DEF CancelRunner

LEMMA CancelKeepsIndInv ==
    ASSUME IndInv, NEW g \in Games, CancelRunner(g), UNCHANGED <<gameVars, rung, rounds, bets>>,
           UNCHANGED click \/ \E c \in Clicks : Done(c)
    PROVE  IndInv'
<1>0. GamesTyped /\ Clicked /\ Local(g)
  BY TypedByParts DEF IndInv
<1>1. UNCHANGED <<phase, players, settled, votes, dead, bets>>
  BY DEF gameVars
<1>2. ASSUME NEW h PROVE NoNewDebt(h)
  BY <1>0, OwedSame, OwedShrinks DEF NoNewDebt, Done
<1>3. /\ Local(g)' /\ Grown
      /\ \A h \in Games \ {g} : SameAt(h)
  BY <1>0, <1>1, <1>2, CancelRunnerEffect
<1>4. GamesTyped'
  BY <1>0, CancelRunnerTyped DEF GamesTyped, gameVars
<1>5. Clicked'
  BY <1>0, <1>3, ClickedKept, ClickedSet DEF Done
<1>6. TypeOK'
  BY <1>4, <1>5 DEF TypeOK, GamesTyped, Clicked, Shaped
<1>7. ASSUME NEW h \in Games \ {g} PROVE Local(h)'
  BY <1>0, <1>2, <1>3, LocalKept DEF IndInv
<1> QED BY <1>3, <1>5, <1>6, <1>7 DEF IndInv

-----------------------------------------------------------------------------
(* The presses of buttons *)

LEMMA BegunGames ==
    ASSUME IndInv, NEW g \in Games, current = g
    PROVE  runner[g] # "unborn"
BY DEF IndInv, Local, Stage

\* A press that begins, waits or ends without touching players, bets or votes
LEMMA AnswersKeepIndInv ==
    ASSUME IndInv, NEW c \in Clicks, NEW v, Set(click, c, v),
           v = None \/ (v.act # "leave" /\ Shaped(v)),
           rung' \in [Games -> BOOLEAN],
           UNCHANGED <<current, runner, gameVars, rounds, loopVars, bets>>
    PROVE  IndInv'
<1>0. GamesTyped /\ Clicked
  BY TypedByParts DEF IndInv
<1>1. GamesTyped'
  BY <1>0 DEF GamesTyped, gameVars, loopVars
<1>2. Clicked'
  BY <1>0, ClickedSet DEF Grown, Shaped
<1>3. TypeOK'
  BY <1>1, <1>2 DEF TypeOK, GamesTyped, Clicked, Shaped
<1>4. ASSUME NEW h \in Games PROVE Local(h)'
  <2>1. SameAt(h)
    BY DEF SameAt, gameVars, loopVars
  <2>2. NoNewDebt(h)
    BY <1>0, OwedShrinks DEF NoNewDebt
  <2> QED BY <1>0, <2>1, <2>2, LocalKept DEF IndInv
<1> QED BY <1>2, <1>3, <1>4 DEF IndInv

LEMMA QuietClicksKeepIndInv ==
    ASSUME IndInv, NEW c \in Clicks,
           \/ \E u \in Users : OpenCommand(c, u)
           \/ BetRefused(c) \/ ClickEnds(c)
           \/ \E g \in Games : StartClick(c, g) \/ CancelClick(c, g)
           \/ \E g \in Games, u \in Users : JoinClick(c, u, g)
    PROVE  IndInv'
<1>1. rung \in [Games -> BOOLEAN]
  BY DEF IndInv, TypeOK
<1>2. ASSUME NEW u \in Users, OpenCommand(c, u) PROVE IndInv'
  <2>1. Shaped(Pending("open", u, None, 0)) /\ Pending("open", u, None, 0).act # "leave"
    BY DEF Shaped, Pending
  <2> QED BY <1>1, <1>2, <2>1, AnswersKeepIndInv DEF OpenCommand
<1>3. CASE BetRefused(c)
  BY <1>1, <1>3, AnswersKeepIndInv DEF BetRefused, Done
<1>4. CASE ClickEnds(c)
  <2>1. rung' \in [Games -> BOOLEAN]
    <3>1. UNCHANGED rung \/ \E g : Set(rung, g, runner[g] \in Waits)
      BY <1>4, Zenon DEF ClickEnds
    <3>2. ASSUME NEW g, Set(rung, g, runner[g] \in Waits)
          PROVE  rung' \in [Games -> BOOLEAN]
      <4>1. (runner[g] \in Waits) \in BOOLEAN
        OBVIOUS
      <4>2. ASSUME NEW b \in BOOLEAN, Set(rung, g, b) PROVE rung' \in [Games -> BOOLEAN]
        BY <1>1, <4>2 DEF Set
      <4> QED BY <3>2, <4>1, <4>2, Zenon
    <3> QED BY <1>1, <3>1, <3>2
  <2> QED BY <1>4, <2>1, AnswersKeepIndInv DEF ClickEnds, Done
<1>5. ASSUME NEW g \in Games, StartClick(c, g) \/ CancelClick(c, g) PROVE IndInv'
  <2>1. runner[g] # "unborn"
    BY <1>5, BegunGames DEF StartClick, CancelClick
  <2>2. ASSUME NEW act \in {"start", "cancel"}
        PROVE  Shaped(Pending(act, None, g, 0)) /\ Pending(act, None, g, 0).act # "leave"
    BY <2>1 DEF Shaped, Pending
  <2> QED BY <1>1, <1>5, <2>2, AnswersKeepIndInv DEF StartClick, CancelClick
<1>6. ASSUME NEW g \in Games, NEW u \in Users, JoinClick(c, u, g) PROVE IndInv'
  <2>1. runner[g] # "unborn"
    BY <1>6, BegunGames DEF JoinClick
  <2>2. Shaped(Pending("join", u, g, 0)) /\ Pending("join", u, g, 0).act # "leave"
    BY <2>1 DEF Shaped, Pending
  <2> QED BY <1>1, <1>6, <2>2, AnswersKeepIndInv DEF JoinClick
<1> QED BY <1>2, <1>3, <1>4, <1>5, <1>6

\* a wolf, or anybody alive, votes
LEMMA BallotsKeepIndInv ==
    ASSUME IndInv, NEW c \in Clicks, NEW g \in Games, NEW u \in Users,
           NEW target \in Users \cup {Skip},
           KillClick(c, u, target, g) \/ VoteClick(c, u, target, g)
    PROVE  IndInv'
<1>0. GamesTyped /\ Clicked
  BY TypedByParts DEF IndInv
<1>1. /\ current = g /\ phase[g] \in {"night", "day"} /\ u \in Alive(g)
      /\ votes' = [votes EXCEPT ![g][u] = target]
      /\ UNCHANGED <<current, runner, phase, host, players, settled, wolves, dead, rung,
                     rounds, loopVars, bets>>
  BY DEF KillClick, VoteClick, AliveWolves
<1>2. PICK act \in {"kill", "vote"} : \E n : Set(click, c, Pending(act, None, g, n))
  BY DEF KillClick, VoteClick
<1>3. runner[g] # "unborn"
  BY <1>1, BegunGames
<1>4. PICK n : Set(click, c, Pending(act, None, g, n))
  BY <1>2
<1>5. Shaped(Pending(act, None, g, n))' /\ Pending(act, None, g, n).act # "leave"
  BY <1>1, <1>3 DEF Shaped, Pending
<1>6. Clicked'
  BY <1>0, <1>1, <1>4, <1>5, ClickedSet DEF Grown
<1>7. GamesTyped'
  BY <1>0, <1>1 DEF GamesTyped, loopVars
<1>8. TypeOK'
  BY <1>6, <1>7 DEF TypeOK, GamesTyped, Clicked, Shaped
<1>9. ASSUME NEW h PROVE NoNewDebt(h)
  BY <1>0, <1>4, <1>5, OwedShrinks DEF NoNewDebt
<1>10. ASSUME NEW h \in Games \ {g} PROVE Local(h)'
  <2>1. SameAt(h)
    BY <1>0, <1>1 DEF SameAt, GamesTyped, loopVars
  <2> QED BY <1>0, <1>9, <2>1, LocalKept DEF IndInv
<1>11. Local(g)'
  <2>1. Stage(g)'
    BY <1>1, <1>3 DEF IndInv, Local, Stage, loopVars
  <2>2. Voting(g)'
    <3>1. Voters(g)' \subseteq Voters(g) \cup {u}
      BY <1>0, <1>1 DEF Voters, GamesTyped
    <3>2. Voters(g) \subseteq Alive(g) /\ Alive(g)' = Alive(g)
      BY <1>1 DEF IndInv, Local, Voting, Alive
    <3> QED BY <1>1, <3>1, <3>2 DEF Voting
  <2>3. ASSUME NEW w \in Users PROVE Covered(g, w)'
    <3>1. bets[g][w] \in Int /\ bets'[g][w] = bets[g][w]
      BY <1>0, <1>1 DEF GamesTyped
    <3>2. Owed(g, w) \in Nat /\ Owed(g, w)' \in Nat /\ Owed(g, w)' <= Owed(g, w)
      BY <1>9, OwedIsNat, OwedIsNatNext DEF NoNewDebt
    <3>3. /\ runner' = runner /\ players' = players /\ settled' = settled /\ left' = left
      BY <1>1 DEF loopVars
    <3> QED BY <3>1, <3>2, <3>3 DEF IndInv, Local, Covered
  <2> QED BY <2>1, <2>2, <2>3 DEF Local
<1> QED BY <1>6, <1>8, <1>10, <1>11 DEF IndInv

\* What a press leaves to show when it touches players, bets or refunds of one
\* game: the other games are as they were.
LEMMA OneGamePressed ==
    ASSUME IndInv, NEW g \in Games, GamesTyped', Clicked', Local(g)',
           \A h \in Games \ {g} : SameAt(h) /\ NoNewDebt(h)
    PROVE  IndInv'
<1>1. TypeOK'
  BY DEF TypeOK, GamesTyped, Clicked, Shaped
<1>2. ASSUME NEW h \in Games \ {g} PROVE Local(h)'
  BY LocalKept, TypedByParts DEF IndInv
<1> QED BY <1>1, <1>2 DEF IndInv

LEMMA OpenKeepsIndInv ==
    ASSUME IndInv, NEW c \in Clicks, NEW g \in Games, Open(c, g)
    PROVE  IndInv'
<1>0. GamesTyped /\ Clicked /\ Local(g)
  BY TypedByParts DEF IndInv
<1>1. PICK u \in Users : u = click[c].user
  BY <1>0 DEF Open, Clicked, Shaped
<1>2. /\ runner[g] = "unborn" /\ current' = g /\ Set(runner, g, "created")
      /\ Set(host, g, u) /\ Set(players, g, {u}) /\ AddBets(g, u, 1) /\ Done(c)
      /\ UNCHANGED <<phase, settled, wolves, dead, votes, rung, rounds, left, size>>
  BY <1>1 DEF Open, loopVars
<1>3. /\ bets' \in [Games -> [Users -> Int]]
      /\ bets'[g][u] = bets[g][u] + 1
      /\ \A h \in Games, w \in Users : h # g \/ w # u => bets'[h][w] = bets[h][w]
  BY <1>0, <1>2, AddBetsEffect DEF GamesTyped
<1>4. GamesTyped'
  BY <1>0, <1>2, <1>3 DEF GamesTyped, Set, RunnerPCs
<1>5. Grown
  BY <1>0, <1>2 DEF Grown, GamesTyped, Set
<1>6. Clicked'
  BY <1>0, <1>2, <1>5, ClickedSet DEF Done
<1>7. ASSUME NEW h, NEW w PROVE Owed(h, w)' <= Owed(h, w)
  BY <1>0, <1>2, OwedShrinks DEF Done
<1>8. ASSUME NEW h \in Games \ {g} PROVE SameAt(h) /\ NoNewDebt(h)
  <2>1. bets'[h] = bets[h]
    BY <1>0, <1>2 DEF GamesTyped, AddBets
  <2> QED BY <1>0, <1>2, <1>7, <2>1 DEF SameAt, NoNewDebt, GamesTyped, Set
<1>9. \A w \in Users : Owed(g, w) = 0
  <2> SUFFICES ASSUME NEW w \in Users PROVE Leaving(g, w) = {}
    BY FS_EmptySet DEF Owed
  <2> QED BY <1>0, <1>2 DEF Leaving, Clicked, Shaped
<1>10. Local(g)'
  <2>1. /\ runner'[g] = "created" /\ phase'[g] = "join" /\ ~settled'[g]
        /\ players'[g] = {u}
    BY <1>0, <1>2 DEF GamesTyped, Local, Stage, Set
  <2>2. ASSUME NEW w \in Users PROVE Covered(g, w)'
    <3>1. Owed(g, w)' \in Nat /\ Owed(g, w)' <= 0
      BY <1>7, <1>9, OwedIsNatNext
    <3>2. bets[g][w] = 0
      BY <1>0, <1>2 DEF Local, Stage
    <3>3. bets'[g][w] = IF w = u THEN 1 ELSE 0
      BY <1>3, <3>2
    <3> QED BY <2>1, <3>1, <3>3 DEF Covered
  <2> QED BY <2>1, <2>2 DEF Local, Stage, Voting
<1> QED BY <1>4, <1>6, <1>8, <1>10, OneGamePressed

LEMMA JoinKeepsIndInv ==
    ASSUME IndInv, NEW c \in Clicks, Join(c)
    PROVE  IndInv'
<1>0. GamesTyped /\ Clicked
  BY TypedByParts DEF IndInv
<1>1. PICK u \in Users, g \in Games : u = click[c].user /\ g = click[c].game
  BY <1>0 DEF Join, Clicked, Shaped
<1>2. /\ click[c] # None /\ click[c].act = "join"
      /\ Set(players, g, players[g] \cup {u})
      /\ Set(wolves, g, wolves[g] \ {u}) /\ Set(dead, g, dead[g] \ {u})
      /\ AddBets(g, u, 1)
      /\ Set(left, g, IF runner[g] \in {"refund", "undo"} /\ u \notin players[g]
                      THEN left[g] \cup {u} ELSE left[g])
      /\ Set(click, c, Pending("joined", None, g, MaxPlayers))
      /\ UNCHANGED <<current, runner, phase, host, settled, votes, rung, rounds, size>>
  BY <1>1 DEF Join
<1>3. /\ bets' \in [Games -> [Users -> Int]]
      /\ bets'[g][u] = bets[g][u] + 1
      /\ \A h \in Games, w \in Users : h # g \/ w # u => bets'[h][w] = bets[h][w]
  BY <1>0, <1>2, AddBetsEffect DEF GamesTyped
<1>4. /\ players'[g] = players[g] \cup {u} /\ dead'[g] = dead[g] \ {u}
      /\ left'[g] \in SUBSET Users
      /\ runner[g] \notin {"refund", "undo"} => left'[g] = left[g]
      /\ \A h \in Games \ {g} : SameAt(h)
  <2>1. \A h \in Games \ {g} : bets'[h] = bets[h]
    BY <1>0, <1>2 DEF GamesTyped, AddBets
  <2> QED BY <1>0, <1>2, <2>1 DEF GamesTyped, SameAt, Set
<1>5. runner[g] # "unborn"
  BY <1>0, <1>1, <1>2 DEF Clicked, Shaped
<1>6. GamesTyped'
  <2>1. /\ players' \in [Games -> SUBSET Users] /\ wolves' \in [Games -> SUBSET Users]
        /\ dead' \in [Games -> SUBSET Users] /\ left' \in [Games -> SUBSET Users]
    BY <1>0, <1>2 DEF GamesTyped, Set
  <2> QED BY <1>0, <1>2, <1>3, <2>1 DEF GamesTyped
<1>7. /\ Shaped(Pending("joined", None, g, MaxPlayers))'
      /\ Pending("joined", None, g, MaxPlayers).act # "leave"
  BY <1>2, <1>5 DEF Shaped, Pending
<1>8. Clicked'
  BY <1>0, <1>2, <1>7, ClickedSet DEF Grown
<1>9. ASSUME NEW h, NEW w PROVE Owed(h, w)' <= Owed(h, w)
  BY <1>0, <1>2, <1>7, OwedShrinks
<1>10. Local(g)'
  <2>1. Stage(g)'
    BY <1>2, <1>5 DEF IndInv, Local, Stage
  <2>2. Voting(g)'
    BY <1>2, <1>4 DEF IndInv, Local, Voting, Voters, Alive
  <2>3. ASSUME NEW w \in Users PROVE Covered(g, w)'
    <3>1. /\ bets[g][w] \in Int /\ bets'[g][w] \in Int
          /\ bets'[g][w] = IF w = u THEN bets[g][w] + 1 ELSE bets[g][w]
      BY <1>0, <1>3 DEF GamesTyped
    <3>2. Owed(g, w) \in Nat /\ Owed(g, w)' \in Nat /\ Owed(g, w)' <= Owed(g, w)
      BY <1>9, OwedIsNat, OwedIsNatNext
    <3>3. Covered(g, w)
      BY DEF IndInv, Local
    <3>4. runner'[g] \in Lobby \cup Rounds =>
            /\ bets'[g][w] >= Owed(g, w)'
            /\ w \in players'[g] => bets'[g][w] >= Owed(g, w)' + 1
      BY <1>2, <1>4, <3>1, <3>2, <3>3 DEF Covered
    <3>5. settled'[g] =>
            /\ bets'[g][w] >= Owed(g, w)'
            /\ runner'[g] = "pay" /\ w \in left'[g] => bets'[g][w] >= Owed(g, w)' + 1
      <4>1. settled'[g] => settled[g]
        BY <1>2
      <4>2. runner'[g] = "pay" /\ w \in left'[g] => runner[g] = "pay" /\ w \in left[g]
        BY <1>2, <1>4
      <4> QED BY <3>1, <3>2, <3>3, <4>1, <4>2 DEF Covered
    <3> QED BY <3>4, <3>5, Zenon DEF Covered
  <2> QED BY <2>1, <2>2, <2>3 DEF Local
<1> QED BY <1>4, <1>6, <1>8, <1>9, <1>10, OneGamePressed DEF NoNewDebt

LEMMA LeaveClickKeepsIndInv ==
    ASSUME IndInv, NEW c \in Clicks, NEW g \in Games, NEW u \in Users, LeaveClick(c, u, g)
    PROVE  IndInv'
<1>0. GamesTyped /\ Clicked
  BY TypedByParts DEF IndInv
<1>1. /\ current = g /\ phase[g] = "join" /\ u \in players[g]
      /\ Set(players, g, players[g] \ {u}) /\ Set(left, g, left[g] \ {u})
      /\ Set(click, c, Pending("leave", u, g, 0))
      /\ UNCHANGED <<current, runner, phase, host, settled, wolves, dead, votes, rung,
                     rounds, size, bets>>
  BY DEF LeaveClick
<1>2. /\ players'[g] = players[g] \ {u} /\ left'[g] = left[g] \ {u}
      /\ \A h \in Games \ {g} : SameAt(h)
  BY <1>0, <1>1 DEF GamesTyped, SameAt, Set
<1>3. GamesTyped'
  BY <1>0, <1>1 DEF GamesTyped, Set
<1>4. runner[g] # "unborn"
  BY <1>1, BegunGames
<1>5. Shaped(Pending("leave", u, g, 0))'
  BY <1>1, <1>4 DEF Shaped, Pending
<1>6. Clicked'
  BY <1>0, <1>1, <1>5, ClickedSet DEF Grown
<1>7. ASSUME NEW h, NEW w
      PROVE  /\ Owed(h, w)' <= Owed(h, w) + 1
             /\ h # g \/ w # u => Owed(h, w)' <= Owed(h, w)
  BY <1>0, <1>1, OwedGrows
<1>8. Local(g)'
  <2>1. ~settled[g] /\ ~settled'[g] /\ Stage(g)' /\ Voting(g)'
    BY <1>1, <1>4 DEF IndInv, Local, Stage, Voting
  <2>2. ASSUME NEW w \in Users, runner[g] \in Lobby \cup Rounds
        PROVE  /\ bets[g][w] >= Owed(g, w)'
               /\ w \in players'[g] => bets[g][w] >= Owed(g, w)' + 1
    <3>1. /\ bets[g][w] >= Owed(g, w)
          /\ w \in players[g] => bets[g][w] >= Owed(g, w) + 1
      BY <2>2 DEF IndInv, Local, Covered
    <3>2. bets[g][w] \in Int /\ Owed(g, w) \in Nat /\ Owed(g, w)' \in Nat
      BY <1>0, OwedIsNat, OwedIsNatNext DEF GamesTyped
    <3>3. CASE w = u
      BY <1>1, <1>2, <1>7, <3>1, <3>2, <3>3
    <3>4. CASE w # u
      BY <1>2, <1>7, <3>1, <3>2, <3>4
    <3> QED BY <3>3, <3>4
  <2>3. bets' = bets /\ runner' = runner
    BY <1>1
  <2> QED BY <2>1, <2>2, <2>3 DEF Local, Covered
<1> QED BY <1>2, <1>3, <1>6, <1>7, <1>8, OneGamePressed DEF NoNewDebt

LEMMA LeaveRefundKeepsIndInv ==
    ASSUME IndInv, NEW c \in Clicks, LeaveRefund(c)
    PROVE  IndInv'
<1>0. GamesTyped /\ Clicked
  BY TypedByParts DEF IndInv
<1>1. PICK u \in Users, g \in Games : u = click[c].user /\ g = click[c].game
  BY <1>0 DEF LeaveRefund, Clicked, Shaped
<1>2. /\ click[c] # None /\ click[c].act = "leave" /\ Done(c)
      /\ AddBets(g, u, -1) \/ UNCHANGED bets
      /\ UNCHANGED <<current, runner, phase, host, players, settled, wolves, dead, votes,
                     rung, rounds, left, size>>
  BY <1>1 DEF LeaveRefund, gameVars, loopVars
<1>3. /\ bets' \in [Games -> [Users -> Int]]
      /\ bets'[g][u] >= bets[g][u] - 1
      /\ \A h \in Games, w \in Users : h # g \/ w # u => bets'[h][w] = bets[h][w]
      /\ \A h \in Games \ {g} : bets'[h] = bets[h]
  <2>1. bets \in [Games -> [Users -> Int]] /\ -1 \in Int /\ bets[g][u] \in Int
    BY <1>0 DEF GamesTyped
  <2>2. CASE AddBets(g, u, -1)
    <3>1. \A h \in Games \ {g} : bets'[h] = bets[h]
      BY <2>1, <2>2 DEF AddBets
    <3> QED BY <2>1, <2>2, <3>1, AddBetsEffect
  <2>3. CASE UNCHANGED bets
    BY <2>1, <2>3
  <2> QED BY <1>2, <2>2, <2>3
<1>4. \A h \in Games \ {g} : SameAt(h)
  BY <1>2, <1>3 DEF SameAt
<1>5. GamesTyped'
  BY <1>0, <1>2, <1>3 DEF GamesTyped
<1>6. Clicked'
  BY <1>0, <1>2, ClickedSet DEF Done, Grown
<1>7. /\ Owed(g, u)' = Owed(g, u) - 1
      /\ \A h, w : Owed(h, w)' <= Owed(h, w)
  BY <1>0, <1>1, <1>2, OwedPaid, OwedShrinks DEF Done
<1>8. Local(g)'
  <2>1. Stage(g)' /\ Voting(g)'
    <3>1. runner[g] # "unborn"
      BY <1>0, <1>1, <1>2 DEF Clicked, Shaped
    <3> QED BY <1>2, <3>1 DEF IndInv, Local, Stage, Voting, Voters, Alive
  <2>2. ASSUME NEW w \in Users PROVE Covered(g, w)'
    <3>1. /\ bets[g][w] \in Int /\ bets'[g][w] \in Int
          /\ Owed(g, w) \in Nat /\ Owed(g, w)' \in Nat
      BY <1>0, <1>5, OwedIsNat, OwedIsNatNext DEF GamesTyped
    <3>2. bets'[g][w] - Owed(g, w)' >= bets[g][w] - Owed(g, w)
      <4>1. CASE w = u
        BY <1>3, <1>7, <3>1, <4>1
      <4>2. CASE w # u
        BY <1>3, <1>7, <3>1, <4>2
      <4> QED BY <4>1, <4>2
    <3>3. /\ bets[g][w] >= Owed(g, w) => bets'[g][w] >= Owed(g, w)'
          /\ bets[g][w] >= Owed(g, w) + 1 => bets'[g][w] >= Owed(g, w)' + 1
      BY <3>1, <3>2
    <3>4. runner' = runner /\ players' = players /\ settled' = settled /\ left' = left
      BY <1>2
    <3>5. Covered(g, w)
      BY DEF IndInv, Local
    <3> QED BY <3>3, <3>4, <3>5 DEF Covered
  <2> QED BY <2>1, <2>2 DEF Local
<1> QED BY <1>4, <1>5, <1>6, <1>7, <1>8, OneGamePressed DEF NoNewDebt

-----------------------------------------------------------------------------
(* The invariant holds in every reachable state *)

LEMMA InitIndInv == Init => IndInv
<1> SUFFICES ASSUME Init PROVE IndInv
  OBVIOUS
<1>1. GamesTyped
  <2>1. NoVotes \in [Users -> Users \cup {Skip, None}]
    BY DEF NoVotes
  <2>2. LobbyRounds \in 1 .. LobbyRounds
    BY WerewolfAssumption
  <2> QED BY <2>1, <2>2 DEF Init, GamesTyped, RunnerPCs
<1>2. Clicked
  BY DEF Init, Clicked
<1>3. TypeOK
  BY <1>1, <1>2, TypedByParts
<1>4. ASSUME NEW g \in Games PROVE Local(g)
  BY WerewolfAssumption DEF Init, Local, Stage, Voting, Covered, Lobby, Rounds
<1> QED BY <1>2, <1>3, <1>4 DEF IndInv

LEMMA NextKeepsIndInv == IndInv /\ [Next]_vars => IndInv'
<1> SUFFICES ASSUME IndInv, [Next]_vars PROVE IndInv'
  OBVIOUS
<1>1. ASSUME NEW g \in Games, RunnerStep(g) PROVE IndInv'
  BY <1>1, RunnerStepKeepsIndInv
<1>2. ASSUME NEW g \in Games, CancelCommand(g) PROVE IndInv'
  BY <1>2, CancelKeepsIndInv DEF CancelCommand
<1>3. ASSUME NEW c \in Clicks, ClickStep(c) PROVE IndInv'
  <2>1. CASE CancelLands(c)
    <3>1. click[c].game \in Games
      <4>1. click[c] # None /\ click[c].act = "cancel"
        BY <2>1 DEF CancelLands
      <4>2. Shaped(click[c])
        BY <4>1 DEF IndInv, Clicked
      <4> QED BY <4>1, <4>2 DEF Shaped
    <3>2. /\ CancelRunner(click[c].game)
          /\ UNCHANGED <<gameVars, rung, rounds, bets>>
          /\ Done(c)
      BY <2>1 DEF CancelLands
    <3>3. PICK g \in Games : g = click[c].game
      BY <3>1
    <3>4. CancelRunner(g)
      BY <3>2, <3>3 DEF CancelRunner, StartUndo, Finish, Go, Set
    <3> QED BY <3>2, <3>4, CancelKeepsIndInv
  <2> QED
    BY <1>3, <2>1, QuietClicksKeepIndInv, JoinKeepsIndInv, LeaveRefundKeepsIndInv,
       OpenKeepsIndInv DEF ClickStep
<1>4. ASSUME NEW c \in Clicks, NEW g \in Games, NewClick(c, g) PROVE IndInv'
  <2>1. CASE StartClick(c, g) \/ CancelClick(c, g)
    BY <2>1, QuietClicksKeepIndInv
  <2>2. ASSUME NEW u \in Users, JoinClick(c, u, g) PROVE IndInv'
    BY <2>2, QuietClicksKeepIndInv
  <2>3. ASSUME NEW u \in Users, LeaveClick(c, u, g) PROVE IndInv'
    BY <2>3, LeaveClickKeepsIndInv
  <2>4. ASSUME NEW u \in Users, NEW t \in Users \cup {Skip},
               KillClick(c, u, t, g) \/ VoteClick(c, u, t, g)
        PROVE  IndInv'
    BY <2>4, BallotsKeepIndInv
  <2> QED BY <1>4, <2>1, <2>2, <2>3, <2>4 DEF NewClick
<1>5. ASSUME NEW c \in Clicks, NEW u \in Users, OpenCommand(c, u) PROVE IndInv'
  BY <1>5, QuietClicksKeepIndInv
<1>6. CASE UNCHANGED vars
  <2>0. GamesTyped /\ Clicked
    BY TypedByParts DEF IndInv
  <2>1. GamesTyped'
    BY <1>6, <2>0 DEF vars, gameVars, loopVars, GamesTyped
  <2>2. Clicked'
    BY <1>6, <2>0, ClickedKept DEF vars, Grown
  <2>3. TypeOK'
    BY <2>1, <2>2 DEF TypeOK, GamesTyped, Clicked, Shaped
  <2>4. ASSUME NEW h \in Games PROVE Local(h)'
    <3>1. SameAt(h)
      BY <1>6 DEF vars, gameVars, loopVars, SameAt
    <3>2. NoNewDebt(h)
      BY <1>6, OwedSame DEF vars, NoNewDebt
    <3> QED BY <2>0, <3>1, <3>2, LocalKept DEF IndInv
  <2> QED BY <2>2, <2>3, <2>4 DEF IndInv
<1> QED BY <1>1, <1>2, <1>3, <1>4, <1>5, <1>6 DEF Next

LEMMA IndInvAlways == Spec => []IndInv
BY InitIndInv, NextKeepsIndInv, PTL DEF Spec

-----------------------------------------------------------------------------
(* The results *)

\* Every variable keeps its type, for any number of users, games and presses.
THEOREM Typing == Spec => []TypeOK
<1>1. IndInv => TypeOK
  BY DEF IndInv
<1> QED BY <1>1, IndInvAlways, PTL

\* Whoever is among the players of a lobby or of a running game has at least one
\* bet in it, however joins, leaves and their payments overlap
\* (werewolf_callback removes the player before it gives the bet back).
THEOREM PlayersHavePaid == Spec => []EntryPaid
<1>1. IndInv => EntryPaid
  <2> SUFFICES ASSUME IndInv, NEW g \in Games, runner[g] \in Lobby \cup Rounds,
                      NEW u \in players[g]
               PROVE  bets[g][u] >= 1
    BY DEF EntryPaid
  <2>1. u \in Users /\ bets[g][u] \in Int
    BY DEF IndInv, TypeOK
  <2>2. bets[g][u] >= Owed(g, u) + 1 /\ Owed(g, u) \in Nat
    BY <2>1, OwedIsNat DEF IndInv, Local, Covered
  <2> QED BY <2>1, <2>2
<1> QED BY <1>1, IndInvAlways, PTL

\* No user gets back more bets than he staked, neither while a game can still be
\* played nor from one that is settled: a settlement that fails or is cancelled
\* between two payments is not refunded on top (_settle sets game.settled first).
THEOREM NothingPaidTwice == Spec => []NoFreeMoney
<1>1. IndInv => NoFreeMoney
  <2> SUFFICES ASSUME IndInv, NEW g \in Games, NEW u \in Users, bets[g][u] < 0
               PROVE  ~settled[g] /\ runner[g] \notin Lobby \cup Rounds
    BY DEF NoFreeMoney
  <2>1. bets[g][u] \in Int /\ Owed(g, u) \in Nat
    BY OwedIsNat DEF IndInv, TypeOK
  <2>2. ~(bets[g][u] >= Owed(g, u))
    BY <2>1
  <2> QED BY <2>2 DEF IndInv, Local, Covered
<1> QED BY <1>1, IndInvAlways, PTL

\* While a night or a day lasts, every vote counted is that of a living player:
\* votes are cleared when a phase begins, and nobody dies during one.
THEOREM LivingVote == Spec => []VotesByLiving
<1>1. IndInv => VotesByLiving
  BY DEF IndInv, Local, Voting, VotesByLiving
<1> QED BY <1>1, IndInvAlways, PTL

=============================================================================
