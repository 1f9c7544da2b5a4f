--------------------------- MODULE GameDayProofs ----------------------------
(***************************************************************************)
(* Proofs about GameDay for any teams, players, weeks and games: every      *)
(* total saved or shown is one the team had in that week or its commissioner *)
(* set, and a matchup does not go back to a status it has left.             *)
(***************************************************************************)
EXTENDS GameDay, TLAPS

(* Types.                                                                  *)

Slates == [Games -> {"pre", "in", "post"}]
Squads == [Players -> [owner : Teams \cup {Free}, starts : BOOLEAN]]
Points == [Teams -> Nat]
Lineups == [Teams -> SUBSET [player : Players, starts : BOOLEAN]]

\* A request before it has read what is saved, and after.
Early ==
  [pc : {"saved"}, week : Weeks, current : Weeks, board : Slates \cup {NoBoard},
   asked : BOOLEAN, fresh : BOOLEAN]
Late ==
  [pc : {"live", "paint", "shown"}, week : Weeks, current : Weeks, board : Slates \cup {NoBoard},
   asked : BOOLEAN, fresh : BOOLEAN,
   points : Points, loaded : Points, starters : SUBSET Players]

SleeperTypes ==
  /\ leg \in Weeks
  /\ game \in [Weeks -> Slates] /\ score \in [Weeks -> [Teams -> 0..MaxScore]]
  /\ posted \in [Teams -> {"all", "zero", "none"}]
  /\ corrected \in [Weeks -> [Teams -> Nat \cup {NoPoints}]]
  /\ squad \in [Weeks -> Squads] /\ recent \in SUBSET Squads

SavedTypes == [week : Weeks, points : [Weeks -> Points], rows : [Weeks -> Lineups]]

Types ==
  /\ SleeperTypes
  /\ seen \in [Weeks -> Slates \cup {NoBoard}]
  /\ saved \in SavedTypes
  /\ page \in [Pages -> {Idle} \cup Early \cup Late]
  /\ shown \in 0..2 /\ floor \in [Pages -> 0..2]

-----------------------------------------------------------------------------
(* The invariant.                                                          *)

\* Nobody has points before a game of the week began.
PointsArePlayed ==
  \A w \in Weeks, t \in Teams : \A n \in Totals(w, t) : n > 0 => SlateStarted(game[w])

\* A board that was read earlier is behind the games.
Behind(board, now) ==
  board # NoBoard =>
    \A g \in Games : /\ board[g] = "post" => now[g] = "post"
                     /\ board[g] # "pre" => now[g] # "pre"

\* A status of the first week has its reason: it is past, on a board, or in who started.
Earned(status, past, board, starters) ==
  /\ status >= 1 => past \/ SlateStarted(board) \/ LineupHasPlayed(1, starters, board)
  /\ status = 2 => past \/ SlateFinal(board) \/ LineupHasPlayed(1, starters, board)

SavedOK ==
  /\ saved.week <= leg
  /\ \A w \in Weeks, t \in Teams : saved.points[w][t] \in Totals(w, t)
  /\ \A w \in Weeks : Behind(seen[w], game[w])

ShownOK == Earned(shown, saved.week > 1, game[1], StartersFor(1))

\* What a page is going to show is no less than what it found shown.
EarlyOK(x, mark) ==
  /\ ~x.asked /\ x.week = x.current => Behind(x.board, game[x.week])
  /\ x.week = 1 => Earned(mark, x.current > 1, game[1], StartersFor(1))

LateOK(x, mark) ==
  /\ Behind(x.board, game[x.week])
  /\ \A t \in Teams : x.points[t] \in Totals(x.week, t)
  /\ x.week = 1 /\ x.fresh /\ x.starters = StartersFor(1) =>
       Earned(mark, x.current > 1, x.board, x.starters)

PageOK(x, mark) ==
  x.pc # "idle" =>
    /\ x.current <= saved.week
    /\ IF x.asked THEN x.week = 1 /\ x.current > 1 ELSE x.week \in {x.current, x.current + 1}
    /\ x.pc = "saved" => EarlyOK(x, mark)
    /\ x.pc # "saved" => LateOK(x, mark)

PagesOK == \A a \in Pages : PageOK(page[a], floor[a])

DayInv == Types /\ PointsArePlayed /\ SavedOK /\ ShownOK /\ PagesOK

-----------------------------------------------------------------------------
(* Records, numbers, boards.                                               *)

LEMMA MaxOfTwo ==
  ASSUME NEW x \in Int, NEW y \in Int
  PROVE  Max({x, y}) = IF x >= y THEN x ELSE y
BY DEF Max


LEMMA PageShape ==
  ASSUME NEW x \in {Idle} \cup Early \cup Late
  PROVE  /\ x.pc \in {"idle", "saved", "live", "paint", "shown"}
         /\ x.pc = "saved" => x \in Early
         /\ x.pc \in {"live", "paint", "shown"} => x \in Late
         /\ x.pc # "idle" =>
              /\ x.week \in Weeks /\ x.current \in Weeks /\ x.board \in Slates \cup {NoBoard}
              /\ x.asked \in BOOLEAN /\ x.fresh \in BOOLEAN
<1>1. CASE x = Idle
  BY <1>1 DEF Idle
<1>2. CASE x \in Early
  BY <1>2 DEF Early
<1>3. CASE x \in Late
  BY <1>3 DEF Late
<1> QED BY <1>1, <1>2, <1>3

LEMMA LateShape ==
  ASSUME NEW x \in Late
  PROVE  /\ x.points \in Points /\ x.loaded \in Points /\ x.starters \in SUBSET Players
         /\ \A t \in Teams : x.points[t] \in Nat /\ x.loaded[t] \in Nat
BY DEF Late, Points

LEMMA OneIsAWeek == 1 \in Weeks /\ Weeks \subseteq Nat /\ \A w \in Weeks : w >= 1
BY GameDayConstants DEF Weeks

LEMMA SlateShape ==
  ASSUME NEW board \in Slates
  PROVE  /\ \A g \in Games : board[g] \in {"pre", "in", "post"}
         /\ Games # {} => board # NoBoard
         /\ Games = {} => board = NoBoard
<1>1. DOMAIN board = Games
  BY DEF Slates
<1>2. ASSUME Games # {} PROVE board # NoBoard
  BY <1>1, <1>2 DEF NoBoard
<1>3. ASSUME Games = {} PROVE board = NoBoard
  BY <1>3 DEF Slates, NoBoard
<1> QED BY <1>2, <1>3 DEF Slates

\* What a board says stays said.
LEMMA BehindSays ==
  ASSUME NEW board \in Slates \cup {NoBoard}, NEW now \in Slates, Behind(board, now), NEW starters \in SUBSET Players,
         NEW week
  PROVE  /\ SlateStarted(board) => SlateStarted(now)
         /\ SlateFinal(board) => SlateFinal(now)
         /\ LineupHasPlayed(week, starters, board) => LineupHasPlayed(week, starters, now)
<1>1. board # NoBoard => now # NoBoard
  BY SlateShape
<1>2. GameOf \in [Players -> Games]
  BY GameDayConstants
<1>3. SlateStarted(board) => SlateStarted(now)
  BY <1>1 DEF SlateStarted, Behind
<1>4. SlateFinal(board) => SlateFinal(now)
  BY <1>1 DEF SlateFinal, Behind
<1>5. LineupHasPlayed(week, starters, board) => LineupHasPlayed(week, starters, now)
  BY <1>1, <1>2 DEF LineupHasPlayed, Behind
<1> QED BY <1>3, <1>4, <1>5

LEMMA BehindGoesOn ==
  ASSUME NEW board, NEW then \in Slates, NEW now \in Slates,
         Behind(board, then), \A g \in Games : /\ then[g] = "post" => now[g] = "post"
                                               /\ then[g] # "pre" => now[g] # "pre"
  PROVE  Behind(board, now)
BY DEF Behind

\* A final slate has started.
LEMMA FinalHasStarted ==
  ASSUME NEW board \in Slates \cup {NoBoard}, SlateFinal(board)
  PROVE  SlateStarted(board)
<1>1. board \in Slates /\ board # NoBoard /\ Games # {}
  BY SlateShape DEF SlateFinal
<1> QED BY <1>1 DEF SlateFinal, SlateStarted

LEMMA EarnedGoesOn ==
  ASSUME NEW status, NEW past, NEW past2, NEW starters \in SUBSET Players,
         NEW board \in Slates \cup {NoBoard}, NEW now \in Slates,
         Behind(board, now), past => past2, Earned(status, past, board, starters)
  PROVE  Earned(status, past2, now, starters)
BY BehindSays DEF Earned

LEMMA NothingEarned ==
  ASSUME NEW past, NEW board, NEW starters
  PROVE  Earned(0, past, board, starters)
BY DEF Earned

LEMMA StartersShape == \A w : StartersFor(w) \in SUBSET Players
BY DEF StartersFor

\* The starters of a week are those of its rows and of the league's week.
LEMMA StartersStay ==
  ASSUME saved'.week = saved.week, saved'.rows = saved.rows
  PROVE  StartersFor(1)' = StartersFor(1)
BY DEF StartersFor, RowsFor

\* A status the page gives has its reason.
LEMMA StatusEarned ==
  ASSUME NEW current \in Weeks, NEW points \in Points, NEW starters \in SUBSET Players,
         NEW board \in Slates \cup {NoBoard}, NEW now \in Slates, Behind(board, now),
         \A t \in Teams : points[t] > 0 => SlateStarted(now)
  PROVE  /\ MatchupStatus(1, current, points, board, starters) \in 0..2
         /\ Earned(MatchupStatus(1, current, points, board, starters), 1 < current, now, starters)
<1> DEFINE status == MatchupStatus(1, current, points, board, starters)
           over == MatchupFinal(1, current, board, starters)
<1>1. status = IF over THEN 2
               ELSE IF (\A t \in Teams : points[t] = 0) /\ ~SlateStarted(board) THEN 0 ELSE 1
  BY DEF MatchupStatus
<1>2. CASE over
  <2>1. status = 2
    BY <1>1, <1>2
  <2>2. 1 < current \/ SlateFinal(board) \/ LineupHasPlayed(1, starters, board)
    BY <1>2 DEF MatchupFinal
  <2>3. SlateFinal(board) => SlateStarted(board)
    BY FinalHasStarted
  <2>4. Earned(2, 1 < current, board, starters)
    BY <2>2, <2>3 DEF Earned
  <2>5. Earned(2, 1 < current, now, starters)
    BY <2>4, EarnedGoesOn
  <2> QED BY <2>1, <2>5
<1>3. CASE ~over
  <2>1. CASE (\A t \in Teams : points[t] = 0) /\ ~SlateStarted(board)
    BY <1>1, <1>3, <2>1 DEF Earned
  <2>2. CASE SlateStarted(board)
    BY <1>1, <1>3, <2>2, BehindSays DEF Earned
  <2>3. CASE \E t \in Teams : points[t] # 0
    <3>1. SlateStarted(now)
      BY <2>3 DEF Points
    <3>2. status = 1
      BY <1>1, <1>3, <2>3
    <3> QED BY <3>1, <3>2 DEF Earned
  <2> QED BY <2>1, <2>2, <2>3
<1> QED BY <1>2, <1>3

\* What was earned before is given.
LEMMA EarnedIsGiven ==
  ASSUME NEW current \in Weeks, NEW points, NEW starters, NEW board,
         NEW status \in 0..2, Earned(status, 1 < current, board, starters)
  PROVE  MatchupStatus(1, current, points, board, starters) >= status
<1> DEFINE over == MatchupFinal(1, current, board, starters)
           given == MatchupStatus(1, current, points, board, starters)
<1>1. over <=> (1 < current \/ SlateFinal(board) \/ LineupHasPlayed(1, starters, board))
  BY DEF MatchupFinal
<1>2. given = IF over THEN 2
              ELSE IF (\A t \in Teams : points[t] = 0) /\ ~SlateStarted(board) THEN 0 ELSE 1
  BY DEF MatchupStatus
<1>3. CASE over
  BY <1>2, <1>3
<1>4. CASE ~over /\ SlateStarted(board)
  BY <1>1, <1>2, <1>4 DEF Earned
<1>5. CASE ~over /\ ~SlateStarted(board)
  BY <1>1, <1>2, <1>5 DEF Earned
<1> QED BY <1>3, <1>4, <1>5

-----------------------------------------------------------------------------
(* Games, weeks and Sleeper.                                               *)

LEMMA TotalsType ==
  ASSUME SleeperTypes, NEW w \in Weeks, NEW t \in Teams
  PROVE  /\ Totals(w, t) \subseteq Nat /\ 0 \in Totals(w, t) /\ score[w][t] \in Totals(w, t)
         /\ score[w][t] \in Nat /\ corrected[w][t] \in Nat \cup {NoPoints}
         /\ corrected[w][t] # NoPoints => corrected[w][t] \in Totals(w, t)
<1>1. score[w][t] \in 0..MaxScore /\ corrected[w][t] \in Nat \cup {NoPoints}
  BY DEF SleeperTypes
<1>2. score[w][t] \in Nat
  BY <1>1, GameDayConstants
<1> QED BY <1>1, <1>2 DEF Totals, NoPoints

\* Steps of Sleeper only add: games go on, points are scored and set.
LEMMA SleeperMoves ==
  ASSUME DayInv, SleeperTypes', UNCHANGED pages, leg' >= leg,
         \A w \in Weeks, g \in Games : /\ game[w][g] = "post" => game'[w][g] = "post"
                                       /\ game[w][g] # "pre" => game'[w][g] # "pre",
         \A w \in Weeks, t \in Teams : Totals(w, t) \subseteq Totals(w, t)',
         \A w \in Weeks, t \in Teams : Totals(w, t)' = Totals(w, t) \/ SlateStarted(game'[w])
  PROVE  DayInv'
<1> USE DEF pages
<1>1. Types /\ \A w \in Weeks : game[w] \in Slates /\ game'[w] \in Slates
  BY DEF DayInv, Types, SleeperTypes
<1>2. \A w \in Weeks : Behind(game[w], game'[w])
  BY DEF Behind
<1>3. Types'
  BY <1>1 DEF Types
<1>4. PointsArePlayed'
  <2> SUFFICES ASSUME NEW w \in Weeks, NEW t \in Teams, NEW n \in Totals(w, t)', n > 0
               PROVE  SlateStarted(game'[w])
    BY DEF PointsArePlayed
  <2>1. CASE n \in Totals(w, t)
    <3>1. SlateStarted(game[w])
      BY <2>1 DEF DayInv, PointsArePlayed
    <3> QED BY <1>1, <1>2, <3>1, BehindSays
  <2>2. CASE n \notin Totals(w, t)
    BY <2>2
  <2> QED BY <2>1, <2>2
<1>5. \A w \in Weeks : \A board : Behind(board, game[w]) => Behind(board, game'[w])
  BY DEF Behind
<1>6. SavedOK'
  <2>1. saved.week \in Weeks /\ leg \in Weeks /\ leg' \in Weeks
    BY <1>1 DEF Types, SavedTypes, SleeperTypes
  <2>2. saved.week <= leg'
    <3>1. saved.week <= leg
      BY DEF DayInv, SavedOK
    <3>2. saved.week \in Nat /\ leg \in Nat /\ leg' \in Nat
      BY <2>1, OneIsAWeek
    <3> QED BY <3>1, <3>2
  <2>3. \A w \in Weeks, t \in Teams : saved.points[w][t] \in Totals(w, t)'
    BY DEF DayInv, SavedOK
  <2> QED BY <1>5, <2>2, <2>3 DEF DayInv, SavedOK
<1>7. StartersFor(1)' = StartersFor(1) /\ StartersFor(1) \in SUBSET Players
  BY StartersStay, StartersShape
<1>8. \A status, past : Earned(status, past, game[1], StartersFor(1)) => Earned(status, past, game'[1], StartersFor(1))
  BY <1>1, <1>2, <1>7, OneIsAWeek, EarnedGoesOn
<1>9. ShownOK'
  BY <1>7, <1>8 DEF DayInv, ShownOK
<1>10. PagesOK'
  <2> SUFFICES ASSUME NEW a \in Pages PROVE PageOK(page[a], floor[a])'
    BY DEF PagesOK
  <2> SUFFICES ASSUME page[a].pc # "idle" PROVE PageOK(page[a], floor[a])'
    BY DEF PageOK
  <2>1. page[a] \in {Idle} \cup Early \cup Late /\ page[a].week \in Weeks
    BY <1>1, PageShape DEF Types
  <2>2. PageOK(page[a], floor[a])
    BY DEF DayInv, PagesOK
  <2>3. page[a].pc = "saved" => EarlyOK(page[a], floor[a])'
    BY <1>5, <1>7, <1>8, <2>1, <2>2 DEF PageOK, EarlyOK
  <2>4. page[a].pc # "saved" => LateOK(page[a], floor[a])'
    <3> SUFFICES ASSUME page[a].pc # "saved" PROVE LateOK(page[a], floor[a])'
      OBVIOUS
    <3>1. LateOK(page[a], floor[a])
      BY <2>2 DEF PageOK
    <3>2. \A t \in Teams : page[a].points[t] \in Totals(page[a].week, t)'
      BY <2>1, <3>1 DEF LateOK
    <3> QED BY <1>5, <1>7, <2>1, <3>1, <3>2 DEF LateOK, Earned
  <2> QED BY <2>2, <2>3, <2>4 DEF PageOK
<1> QED BY <1>3, <1>4, <1>6, <1>9, <1>10 DEF DayInv

\* Saving rows, a week and points beside the pages.
LEMMA SavingMoves ==
  ASSUME DayInv, Types', UNCHANGED <<leg, game, score, corrected, seen, page>>,
         saved.week <= saved'.week, saved'.week <= leg,
         \A w \in Weeks, t \in Teams : saved'.points[w][t] \in Totals(w, t),
         Forgets
  PROVE  DayInv'
<1>1. Types
  BY DEF DayInv
<1>2. \A w \in Weeks, t \in Teams : Totals(w, t)' = Totals(w, t)
  BY DEF Totals
<1>3. PointsArePlayed'
  BY <1>2 DEF DayInv, PointsArePlayed
<1>4. SavedOK'
  BY <1>2 DEF DayInv, SavedOK
<1>5. saved.week \in Nat /\ saved'.week \in Nat
  BY <1>1, OneIsAWeek DEF Types, SavedTypes
<1>6. \/ StartersFor(1)' = StartersFor(1) /\ shown' = shown /\ floor' = floor
      \/ shown' = 0 /\ \A a \in Pages : floor'[a] = 0
  BY DEF Forgets
<1>7. ShownOK'
  <2>1. CASE StartersFor(1)' = StartersFor(1) /\ shown' = shown /\ floor' = floor
    BY <1>5, <2>1 DEF DayInv, ShownOK, Earned
  <2>2. CASE shown' = 0 /\ \A a \in Pages : floor'[a] = 0
    BY <2>2, NothingEarned DEF ShownOK
  <2> QED BY <1>6, <2>1, <2>2
<1>8. PagesOK'
  <2> SUFFICES ASSUME NEW a \in Pages, page[a].pc # "idle" PROVE PageOK(page[a], floor[a])'
    BY DEF PagesOK, PageOK
  <2>1. PageOK(page[a], floor[a]) /\ page[a].week \in Weeks /\ page[a].current \in Nat
    BY <1>1, PageShape, OneIsAWeek DEF DayInv, PagesOK, Types
  <2>2. page[a].current <= saved'.week
    BY <1>5, <2>1 DEF PageOK
  <2>3. page[a].pc = "saved" => EarlyOK(page[a], floor[a])'
    <3>1. CASE StartersFor(1)' = StartersFor(1) /\ shown' = shown /\ floor' = floor
      BY <2>1, <3>1 DEF PageOK, EarlyOK
    <3>2. CASE shown' = 0 /\ \A q \in Pages : floor'[q] = 0
      BY <2>1, <3>2, NothingEarned DEF PageOK, EarlyOK
    <3> QED BY <1>6, <3>1, <3>2
  <2>4. page[a].pc # "saved" => LateOK(page[a], floor[a])'
    <3>1. CASE StartersFor(1)' = StartersFor(1) /\ shown' = shown /\ floor' = floor
      BY <1>2, <2>1, <3>1 DEF PageOK, LateOK
    <3>2. CASE shown' = 0 /\ \A q \in Pages : floor'[q] = 0
      BY <1>2, <2>1, <3>2, NothingEarned DEF PageOK, LateOK
    <3> QED BY <1>6, <3>1, <3>2
  <2> QED BY <2>1, <2>2, <2>3, <2>4 DEF PageOK
<1> QED BY <1>3, <1>4, <1>7, <1>8 DEF DayInv

LEMMA KickoffKeeps ==
  ASSUME DayInv, NEW g \in Games, Kickoff(g) \/ Ends(g)
  PROVE  DayInv'
<1>1. SleeperTypes
  BY DEF DayInv, Types
<1>2. PICK phase \in {"in", "post"} :
        /\ phase = "post" => game[leg][g] = "in"
        /\ phase = "in" => game[leg][g] = "pre"
        /\ game' = [game EXCEPT ![leg][g] = phase]
  BY DEF Kickoff, Ends
<1>3. UNCHANGED <<leg, score, posted, corrected, squad, recent, pages>>
  BY DEF Kickoff, Ends
<1>4. game' \in [Weeks -> Slates]
  BY <1>1, <1>2 DEF SleeperTypes, Slates
<1>5. SleeperTypes'
  BY <1>1, <1>3, <1>4 DEF SleeperTypes
<1>6. \A w \in Weeks, x \in Games : /\ game[w][x] = "post" => game'[w][x] = "post"
                                    /\ game[w][x] # "pre" => game'[w][x] # "pre"
  BY <1>1, <1>2 DEF SleeperTypes, Slates
<1>7. \A w \in Weeks, t \in Teams : Totals(w, t)' = Totals(w, t)
  BY <1>3 DEF Totals
<1>8. leg' >= leg
  BY <1>1, <1>3, OneIsAWeek DEF SleeperTypes
<1> QED BY <1>3, <1>5, <1>6, <1>7, <1>8, SleeperMoves

LEMMA PlayKeeps ==
  ASSUME DayInv, NEW t \in Teams, PlayScores(t)
  PROVE  DayInv'
<1>1. SleeperTypes
  BY DEF DayInv, Types
<1>2. score' = [score EXCEPT ![leg][t] = @ + 1] /\ score[leg][t] < MaxScore
  BY DEF PlayScores
<1>3. UNCHANGED <<leg, game, posted, corrected, squad, recent, pages>>
  BY DEF PlayScores
<1>4. score' \in [Weeks -> [Teams -> 0..MaxScore]]
  BY <1>1, <1>2, GameDayConstants DEF SleeperTypes
<1>5. SleeperTypes'
  BY <1>1, <1>3, <1>4 DEF SleeperTypes
<1>6. SlateStarted(game[leg])
  <2>1. PICK p \in Players : game[leg][GameOf[p]] = "in"
    BY DEF PlayScores
  <2>2. GameOf[p] \in Games /\ game[leg] \in Slates
    BY <1>1, GameDayConstants DEF SleeperTypes
  <2> QED BY <2>1, <2>2, SlateShape DEF SlateStarted
<1>7. ASSUME NEW w \in Weeks, NEW u \in Teams
      PROVE  Totals(w, u) \subseteq Totals(w, u)' /\ (Totals(w, u)' = Totals(w, u) \/ w = leg)
  <2>1. score[w][u] \in Nat /\ score'[w][u] = IF w = leg /\ u = t THEN score[w][u] + 1 ELSE score[w][u]
    BY <1>1, <1>2, GameDayConstants DEF SleeperTypes
  <2>2. 0..score[w][u] \subseteq 0..score'[w][u] /\ (w # leg => score'[w][u] = score[w][u])
    BY <2>1
  <2>3. Totals(w, u)' = 0..score'[w][u] \cup ({corrected[w][u]} \ {NoPoints})
    BY <1>3 DEF Totals, NoPoints
  <2> QED BY <2>2, <2>3 DEF Totals
<1>8. leg' >= leg
  BY <1>1, <1>3, OneIsAWeek DEF SleeperTypes
<1>9. \A w \in Weeks, u \in Teams : Totals(w, u)' = Totals(w, u) \/ SlateStarted(game'[w])
  BY <1>3, <1>6, <1>7
<1>10. game \in [Weeks -> Slates] /\ game' = game
  BY <1>1, <1>3 DEF SleeperTypes
<1> QED BY <1>3, <1>5, <1>7, <1>8, <1>9, <1>10, SleeperMoves

LEMMA CorrectsKeeps ==
  ASSUME DayInv, NEW t \in Teams, Corrects(t)
  PROVE  DayInv'
<1>1. SleeperTypes
  BY DEF DayInv, Types
<1>2. PICK total \in Corrections : corrected' = [corrected EXCEPT ![leg][t] = total]
  BY DEF Corrects
<1>3. corrected[leg][t] = NoPoints /\ SlateStarted(game[leg])
      /\ UNCHANGED <<leg, game, score, posted, squad, recent, pages>>
  BY DEF Corrects
<1>4. total \in Nat
  BY GameDayConstants DEF Corrections
<1>5. corrected' \in [Weeks -> [Teams -> Nat \cup {NoPoints}]]
  BY <1>1, <1>2, <1>4 DEF SleeperTypes
<1>6. SleeperTypes'
  BY <1>1, <1>3, <1>5 DEF SleeperTypes, NoPoints
<1>7. ASSUME NEW w \in Weeks, NEW u \in Teams
      PROVE  Totals(w, u) \subseteq Totals(w, u)' /\ (Totals(w, u)' = Totals(w, u) \/ w = leg)
  <2>1. corrected'[w][u] = IF w = leg /\ u = t THEN total ELSE corrected[w][u]
    BY <1>1, <1>2 DEF SleeperTypes
  <2>2. Totals(w, u)' = 0..score[w][u] \cup ({corrected'[w][u]} \ {NoPoints})
    BY <1>3 DEF Totals, NoPoints
  <2> QED BY <1>3, <2>1, <2>2 DEF Totals
<1>8. leg' >= leg
  BY <1>1, <1>3, OneIsAWeek DEF SleeperTypes
<1>9. \A w \in Weeks, u \in Teams : Totals(w, u)' = Totals(w, u) \/ SlateStarted(game'[w])
  BY <1>3, <1>7
<1>10. game' = game
  BY <1>3
<1> QED BY <1>3, <1>6, <1>7, <1>8, <1>9, <1>10, SleeperMoves

LEMMA BecomesTypes ==
  ASSUME SleeperTypes, NEW p \in Players, NEW row \in [owner : Teams \cup {Free}, starts : BOOLEAN],
         Becomes(p, row), leg \in Weeks
  PROVE  squad' \in [Weeks -> Squads] /\ recent' \in SUBSET Squads
<1>1. \A w \in Weeks : squad[w] \in Squads /\ [squad[w] EXCEPT ![p] = row] \in Squads
  BY DEF SleeperTypes, Squads
<1>2. squad' \in [Weeks -> Squads]
  BY <1>1 DEF Becomes
<1> QED BY <1>2 DEF Becomes, SleeperTypes

LEMMA OthersKeep ==
  ASSUME DayInv,
         \/ \E t \in Teams : PostsPoints(t)
         \/ \E p \in Players : Moves(p)
         \/ Tuesday \/ LegAdvances
  PROVE  DayInv'
<1>1. SleeperTypes
  BY DEF DayInv, Types
<1>2. UNCHANGED <<game, score, corrected, pages>>
  BY DEF PostsPoints, Moves, Tuesday, LegAdvances
<1>3. leg' \in Weeks /\ leg' >= leg
  <2>1. leg \in Weeks /\ leg' \in {leg, leg + 1} /\ (leg' # leg => leg < LastWeek)
    BY <1>1 DEF SleeperTypes, PostsPoints, Moves, Tuesday, LegAdvances
  <2> QED BY <2>1, GameDayConstants DEF Weeks
<1>4. posted' \in [Teams -> {"all", "zero", "none"}]
  BY <1>1 DEF SleeperTypes, PostsPoints, Moves, Tuesday, LegAdvances
<1>5. squad' \in [Weeks -> Squads] /\ recent' \in SUBSET Squads
  <2>1. ASSUME NEW t \in Teams, PostsPoints(t) PROVE squad' \in [Weeks -> Squads] /\ recent' \in SUBSET Squads
    BY <1>1, <2>1 DEF PostsPoints, SleeperTypes
  <2>2. ASSUME NEW p \in Players, Moves(p) PROVE squad' \in [Weeks -> Squads] /\ recent' \in SUBSET Squads
    <3>1. PICK row \in [owner : Teams \cup {Free}, starts : BOOLEAN] : Becomes(p, row)
      BY <2>2 DEF Moves
    <3> QED BY <1>1, <3>1, BecomesTypes DEF SleeperTypes
  <2>3. CASE Tuesday
    BY <1>1, <2>3 DEF Tuesday, SleeperTypes
  <2>4. CASE LegAdvances
    BY <1>1, <1>3, <2>4 DEF LegAdvances, SleeperTypes
  <2> QED BY <2>1, <2>2, <2>3, <2>4
<1>6. SleeperTypes'
  BY <1>1, <1>2, <1>3, <1>4, <1>5 DEF SleeperTypes, NoPoints
<1>7. \A w \in Weeks, t \in Teams : Totals(w, t)' = Totals(w, t)
  BY <1>2 DEF Totals
<1> QED BY <1>2, <1>3, <1>6, <1>7, SleeperMoves

-----------------------------------------------------------------------------
(* Pages.                                                                  *)

LEMMA SavedShape ==
  ASSUME Types
  PROVE  /\ saved.week \in Weeks /\ saved.week \in Nat /\ saved.week >= 1
         /\ saved.rows \in [Weeks -> Lineups] /\ saved.points \in [Weeks -> Points]
         /\ \A w \in Weeks : saved.points[w] \in Points /\ saved.rows[w] \in Lineups
<1>1. saved.week \in Weeks /\ saved.rows \in [Weeks -> Lineups] /\ saved.points \in [Weeks -> Points]
  BY DEF Types, SavedTypes
<1> QED BY <1>1, OneIsAWeek

\* A step of one page that saves no rows.
LEMMA PageMoves ==
  ASSUME DayInv, NEW a \in Pages, NEW x \in {Idle} \cup Early \cup Late, NEW mark \in 0..2,
         page' = [page EXCEPT ![a] = x], floor' = [floor EXCEPT ![a] = mark], UNCHANGED sleeper,
         saved' \in SavedTypes, saved'.week = saved.week, saved'.rows = saved.rows,
         \A w \in Weeks, t \in Teams : saved'.points[w][t] \in Totals(w, t),
         seen' \in [Weeks -> Slates \cup {NoBoard}], \A w \in Weeks : Behind(seen'[w], game[w]),
         shown' \in 0..2, Earned(shown', saved.week > 1, game[1], StartersFor(1)),
         PageOK(x, mark)
  PROVE  DayInv'
<1>1. UNCHANGED <<leg, game, score, posted, corrected, squad, recent>>
  BY DEF sleeper
<1>2. Types
  BY DEF DayInv
<1>3. Types'
  BY <1>1, <1>2 DEF Types, SleeperTypes, NoPoints
<1>4. \A w \in Weeks, t \in Teams : Totals(w, t)' = Totals(w, t)
  BY <1>1 DEF Totals
<1>5. PointsArePlayed'
  BY <1>1, <1>4 DEF DayInv, PointsArePlayed
<1>6. SavedOK'
  BY <1>1, <1>4 DEF DayInv, SavedOK
<1>7. \A q \in Pages : q # a => page'[q] = page[q] /\ floor'[q] = floor[q]
  BY <1>2 DEF Types
<1>8. page'[a] = x /\ floor'[a] = mark
  BY <1>2 DEF Types
<1>9. StartersFor(1)' = StartersFor(1)
  BY StartersStay
<1>10. ShownOK'
  BY <1>1, <1>9 DEF ShownOK
<1>11. PagesOK'
  <2> SUFFICES ASSUME NEW q \in Pages PROVE PageOK(page[q], floor[q])'
    BY DEF PagesOK
  <2>1. PageOK(page'[q], floor'[q]) /\ page'[q] \in {Idle} \cup Early \cup Late
    BY <1>2, <1>7, <1>8 DEF DayInv, PagesOK, Types
  <2> SUFFICES ASSUME page'[q].pc # "idle" PROVE PageOK(page[q], floor[q])'
    BY DEF PageOK
  <2>2. page'[q].week \in Weeks
    BY <2>1, PageShape
  <2>3. page'[q].pc = "saved" => EarlyOK(page[q], floor[q])'
    BY <1>1, <1>9, <2>1 DEF PageOK, EarlyOK
  <2>4. page'[q].pc # "saved" => LateOK(page[q], floor[q])'
    BY <1>1, <1>4, <1>9, <2>1, <2>2 DEF PageOK, LateOK
  <2> QED BY <2>1, <2>3, <2>4 DEF PageOK
<1> QED BY <1>3, <1>5, <1>6, <1>10, <1>11 DEF DayInv

\* What a page leaves as it is.
LEMMA PageLeaves ==
  ASSUME DayInv
  PROVE  /\ saved \in SavedTypes
         /\ \A w \in Weeks, t \in Teams : saved.points[w][t] \in Totals(w, t)
         /\ seen \in [Weeks -> Slates \cup {NoBoard}]
         /\ \A w \in Weeks : Behind(seen[w], game[w])
         /\ shown \in 0..2 /\ Earned(shown, saved.week > 1, game[1], StartersFor(1))
         /\ \A a \in Pages : floor[a] \in 0..2 /\ floor = [floor EXCEPT ![a] = floor[a]]
         /\ \A a \in Pages : page[a] \in {Idle} \cup Early \cup Late /\ PageOK(page[a], floor[a])
BY SavedShape DEF DayInv, SavedOK, ShownOK, PagesOK, Types

LEMMA BoardsAreBehind ==
  ASSUME DayInv, NEW w \in Weeks, NEW board \in Boards(w)
  PROVE  board \in Slates \cup {NoBoard} /\ Behind(board, game[w])
BY DEF DayInv, Types, SleeperTypes, SavedOK, Boards, Behind

LEMMA SeenBehind ==
  ASSUME DayInv, NEW w \in Weeks, NEW board \in Slates \cup {NoBoard}, Behind(board, game[w]),
         seen' = [seen EXCEPT ![w] = board]
  PROVE  seen' \in [Weeks -> Slates \cup {NoBoard}] /\ \A v \in Weeks : Behind(seen'[v], game[v])
<1>1. seen \in [Weeks -> Slates \cup {NoBoard}] /\ \A v \in Weeks : Behind(seen[v], game[v])
  BY PageLeaves
<1>2. \A v \in Weeks : seen'[v] = IF v = w THEN board ELSE seen[v]
  BY <1>1
<1> QED BY <1>1, <1>2

LEMMA OpenKeeps ==
  ASSUME DayInv, NEW a \in Pages, Open(a)
  PROVE  DayInv'
<1>1. Types
  BY DEF DayInv
<1>2. saved.week \in Weeks
  BY <1>1, SavedShape
<1>3. PICK board \in Boards(saved.week) :
        /\ page' = [page EXCEPT ![a] =
             [pc |-> "saved", week |-> BoardWeek(saved.week, board), current |-> saved.week, board |-> board,
              asked |-> FALSE, fresh |-> board = game[saved.week]]]
        /\ seen' = [seen EXCEPT ![saved.week] = board]
  BY DEF Open
<1>4. board \in Slates \cup {NoBoard} /\ Behind(board, game[saved.week])
  BY <1>2, BoardsAreBehind
<1> DEFINE week == BoardWeek(saved.week, board)
           x == [pc |-> "saved", week |-> week, current |-> saved.week, board |-> board,
                 asked |-> FALSE, fresh |-> board = game[saved.week]]
<1>5. week \in Weeks /\ week \in {saved.week, saved.week + 1}
  BY <1>2, GameDayConstants DEF BoardWeek, Weeks
<1>6. x \in Early
  BY <1>2, <1>4, <1>5 DEF Early
<1>7. PageOK(x, shown)
  <2>1. week = 1 => saved.week = 1
    BY <1>1, <1>5, SavedShape
  <2>2. Earned(shown, saved.week > 1, game[1], StartersFor(1))
    BY PageLeaves
  <2>3. EarlyOK(x, shown)
    BY <1>4, <2>1, <2>2 DEF EarlyOK
  <2>4. x.current <= saved.week
    BY <1>1, SavedShape
  <2> QED BY <1>5, <2>3, <2>4 DEF PageOK
<1>8. floor' = [floor EXCEPT ![a] = shown] /\ UNCHANGED <<sleeper, saved, shown>>
  BY DEF Open
<1>9. seen' \in [Weeks -> Slates \cup {NoBoard}] /\ \A v \in Weeks : Behind(seen'[v], game[v])
  BY <1>2, <1>3, <1>4, SeenBehind
<1>10. page' = [page EXCEPT ![a] = x]
  BY <1>3
<1> HIDE DEF x, week
<1> QED BY <1>6, <1>7, <1>8, <1>9, <1>10, PageLeaves, PageMoves

LEMMA OpenWeekKeeps ==
  ASSUME DayInv, NEW a \in Pages, OpenWeek(a)
  PROVE  DayInv'
<1> DEFINE x == [pc |-> "saved", week |-> 1, current |-> saved.week, board |-> NoBoard,
                 asked |-> TRUE, fresh |-> FALSE]
<1>1. saved.week \in Weeks /\ saved.week \in Nat /\ saved.week > 1
  BY SavedShape DEF DayInv, OpenWeek
<1>2. x \in Early
  BY <1>1, OneIsAWeek DEF Early
<1>3. PageOK(x, shown)
  BY <1>1 DEF PageOK, EarlyOK, Earned
<1>4. page' = [page EXCEPT ![a] = x] /\ floor' = [floor EXCEPT ![a] = shown]
      /\ UNCHANGED <<sleeper, seen, saved, shown>>
  BY DEF OpenWeek
<1> HIDE DEF x
<1> QED BY <1>2, <1>3, <1>4, PageLeaves, PageMoves

\* What Sleeper answers for a team is a total it had, or nothing; a refresh makes
\* one of it too.
LEMMA LiveIsTotal ==
  ASSUME SleeperTypes, NEW w \in Weeks, NEW t \in Teams
  PROVE  /\ LiveTotal(Row(w, t)) \in {NoPoints} \cup Totals(w, t)
         /\ MapMatchup(Row(w, t)) \in Totals(w, t)
<1> DEFINE row == Row(w, t)
<1>1. /\ row.custom = corrected[w][t]
      /\ \/ row.points = score[w][t] /\ (row.starters = score[w][t] \/ row.starters = NoPoints)
         \/ row.points = 0 /\ row.starters = score[w][t]
         \/ row.points = NoPoints /\ row.starters = NoPoints
  <2>1. posted[t] \in {"all", "zero", "none"}
    BY DEF SleeperTypes
  <2> QED BY <2>1 DEF Row
<1> HIDE DEF row
<1>2. LiveTotal(row) \in {NoPoints} \cup Totals(w, t)
  BY <1>1, TotalsType DEF LiveTotal
<1>3. MapMatchup(row) \in Totals(w, t)
  <2>1. row.points \in Int /\ (row.points >= 0 => row.points \in Totals(w, t))
    BY <1>1, TotalsType DEF NoPoints
  <2>2. MapMatchup(row) = IF row.points >= 0 THEN row.points ELSE 0
    BY <2>1, MaxOfTwo DEF MapMatchup
  <2> QED BY <2>1, <2>2, TotalsType
<1> QED BY <1>2, <1>3 DEF row

LEMMA ReadSavedKeeps ==
  ASSUME DayInv, NEW a \in Pages, ReadSaved(a)
  PROVE  DayInv'
<1> DEFINE p == page[a]
           w == p.week
<1>1. p \in Early /\ w \in Weeks /\ p.current \in Weeks /\ PageOK(p, floor[a]) /\ EarlyOK(p, floor[a])
  BY PageLeaves, PageShape DEF ReadSaved, PageOK
<1>2. PICK board \in BoardsFor(a) :
        /\ page' = [page EXCEPT ![a] =
            [pc |-> IF w = @.current THEN "live" ELSE "shown", week |-> w, current |-> @.current,
             board |-> board, asked |-> @.asked, fresh |-> board = game[w],
             points |-> saved.points[w], loaded |-> saved.points[w], starters |-> StartersFor(w)]]
        /\ seen' = [seen EXCEPT ![w] = board]
  BY DEF ReadSaved
<1>3. UNCHANGED <<sleeper, saved, shown, floor>>
  BY DEF ReadSaved
<1>4. board \in Slates \cup {NoBoard} /\ Behind(board, game[w])
  <2>1. CASE ~p.asked /\ w = p.current
    BY <1>1, <1>2, <2>1 DEF BoardsFor, EarlyOK, Early
  <2>2. CASE ~(~p.asked /\ w = p.current)
    BY <1>1, <1>2, <2>2, BoardsAreBehind DEF BoardsFor
  <2> QED BY <2>1, <2>2
<1> DEFINE x == [pc |-> IF w = p.current THEN "live" ELSE "shown", week |-> w, current |-> p.current,
                 board |-> board, asked |-> p.asked, fresh |-> board = game[w],
                 points |-> saved.points[w], loaded |-> saved.points[w], starters |-> StartersFor(w)]
<1>5. Types /\ saved.points[w] \in Points /\ saved.week \in Weeks
  BY <1>1, SavedShape DEF DayInv
<1>6. StartersFor(w) \in SUBSET Players
  BY StartersShape
<1>7. x \in Late
  BY <1>1, <1>4, <1>5, <1>6 DEF Late, Early
<1>8. page' = [page EXCEPT ![a] = x]
  BY <1>2, <1>5 DEF Types
<1>9. LateOK(x, floor[a])
  <2>1. \A t \in Teams : saved.points[w][t] \in Totals(w, t)
    BY <1>1, PageLeaves
  <2>2. w = 1 => Earned(floor[a], p.current > 1, game[1], StartersFor(1))
    BY <1>1 DEF EarlyOK
  <2>3. /\ x.board = board /\ x.week = w /\ x.points = saved.points[w]
        /\ x.fresh = (board = game[w]) /\ x.starters = StartersFor(w) /\ x.current = p.current
    OBVIOUS
  <2> HIDE DEF x, w, p
  <2> QED BY <1>4, <2>1, <2>2, <2>3 DEF LateOK
<1>10. PageOK(x, floor[a])
  BY <1>1, <1>9 DEF PageOK, Early
<1>11. seen' \in [Weeks -> Slates \cup {NoBoard}] /\ \A v \in Weeks : Behind(seen'[v], game[v])
  BY <1>1, <1>2, <1>4, SeenBehind
<1> HIDE DEF x, w, p
<1>12. floor[a] \in 0..2 /\ floor' = [floor EXCEPT ![a] = floor[a]]
  BY <1>3, PageLeaves
<1> QED BY <1>3, <1>7, <1>8, <1>10, <1>11, <1>12, PageLeaves, PageMoves

LEMMA LiveArrivesKeeps ==
  ASSUME DayInv, NEW a \in Pages, LiveArrives(a)
  PROVE  DayInv'
<1> DEFINE p == page[a]
           live(t) == LiveTotal(Row(p.week, t))
           points == [t \in Teams |-> IF live(t) = NoPoints THEN p.points[t] ELSE live(t)]
           x == [p EXCEPT !.pc = "paint", !.points = points]
<1>1. p \in Late /\ p.pc = "live" /\ p.week \in Weeks /\ PageOK(p, floor[a]) /\ LateOK(p, floor[a])
  BY PageLeaves, PageShape DEF LiveArrives, PageOK
<1>2. Types /\ SleeperTypes
  BY DEF DayInv, Types
<1>3. page' = [page EXCEPT ![a] = x] /\ UNCHANGED <<sleeper, saved, seen, shown, floor>>
  BY <1>1, <1>2 DEF LiveArrives, Types, Late
<1>4. \A t \in Teams : /\ live(t) \in {NoPoints} \cup Totals(p.week, t) /\ Totals(p.week, t) \subseteq Nat
                       /\ p.points[t] \in Totals(p.week, t)
  BY <1>1, <1>2, LiveIsTotal, TotalsType DEF LateOK
<1> HIDE DEF live
<1>5. points \in Points /\ \A t \in Teams : points[t] \in Totals(p.week, t)
  BY <1>4 DEF Points
<1> HIDE DEF points
<1>6. /\ x \in Late /\ x.week = p.week /\ x.current = p.current /\ x.board = p.board /\ x.asked = p.asked
      /\ x.starters = p.starters /\ x.fresh = p.fresh /\ x.points = points /\ x.pc = "paint"
  BY <1>1, <1>5 DEF Late
<1> HIDE DEF x
<1>7. floor[a] \in 0..2 /\ floor' = [floor EXCEPT ![a] = floor[a]]
  BY <1>3, PageLeaves
<1>8. LateOK(x, floor[a])
  BY <1>1, <1>5, <1>6 DEF LateOK
<1>9. PageOK(x, floor[a])
  BY <1>1, <1>6, <1>8 DEF PageOK
<1> HIDE DEF p
<1> QED BY <1>3, <1>6, <1>7, <1>9, PageLeaves, PageMoves

\* A page that only moves on.
LEMMA PageGoesOn ==
  ASSUME DayInv, NEW a \in Pages, page[a].pc \in {"live", "paint"}
  PROVE  LET x == [page[a] EXCEPT !.pc = "shown"]
         IN x \in Late /\ PageOK(x, floor[a])
<1> DEFINE p == page[a]
           x == [p EXCEPT !.pc = "shown"]
<1>1. p \in Late /\ PageOK(p, floor[a]) /\ LateOK(p, floor[a])
  BY PageLeaves, PageShape DEF PageOK
<1>2. /\ x \in Late /\ x.week = p.week /\ x.current = p.current /\ x.board = p.board /\ x.asked = p.asked
      /\ x.starters = p.starters /\ x.fresh = p.fresh /\ x.points = p.points /\ x.pc = "shown"
  BY <1>1 DEF Late
<1> HIDE DEF x
<1>3. PageOK(x, floor[a])
  BY <1>1, <1>2 DEF PageOK, LateOK
<1> QED BY <1>2, <1>3 DEF x

LEMMA PaintKeeps ==
  ASSUME DayInv, NEW a \in Pages, Paint(a) \/ LiveFails(a)
  PROVE  DayInv'
<1> DEFINE x == [page[a] EXCEPT !.pc = "shown"]
           w == page[a].week
<1>1. Types /\ page[a] \in Late /\ w \in Weeks /\ LateOK(page[a], floor[a])
  BY PageLeaves, PageShape DEF DayInv, Paint, Painted, LiveFails, PageOK
<1>2. page' = [page EXCEPT ![a] = x] /\ UNCHANGED <<sleeper, seen, shown, floor>>
  BY <1>1 DEF Paint, Painted, LiveFails, Types
<1>3. x \in Late /\ PageOK(x, floor[a])
  BY PageGoesOn DEF Paint, Painted, LiveFails
<1>4. floor[a] \in 0..2 /\ floor' = [floor EXCEPT ![a] = floor[a]]
  BY <1>2, PageLeaves
<1>5. /\ saved' \in SavedTypes /\ saved'.week = saved.week /\ saved'.rows = saved.rows
      /\ \A v \in Weeks, t \in Teams : saved'.points[v][t] \in Totals(v, t)
  <2>1. CASE LiveFails(a)
    BY <2>1, PageLeaves DEF LiveFails
  <2>2. CASE Paint(a)
    <3> DEFINE row == [t \in Teams |-> IF page[a].points[t] = page[a].loaded[t] THEN saved.points[w][t]
                                       ELSE page[a].points[t]]
    <3>1. saved.points \in [Weeks -> Points] /\ saved \in SavedTypes
      BY <1>1, SavedShape DEF Types
    <3>2. saved' = [saved EXCEPT !.points[w] = row]
      BY <1>1, <2>2, <3>1 DEF Paint, Painted
    <3>3. row \in Points /\ \A t \in Teams : row[t] \in Totals(w, t)
      <4>1. \A t \in Teams : page[a].points[t] \in Nat /\ saved.points[w][t] \in Nat
                             /\ page[a].points[t] \in Totals(w, t) /\ saved.points[w][t] \in Totals(w, t)
        BY <1>1, <3>1, LateShape, PageLeaves DEF LateOK, Points
      <4> QED BY <4>1 DEF Points
    <3> HIDE DEF row
    <3>4. [saved.points EXCEPT ![w] = row] \in [Weeks -> Points]
      BY <3>1, <3>3
    <3>5. /\ saved'.week = saved.week /\ saved'.rows = saved.rows /\ saved' \in SavedTypes
          /\ saved'.points = [saved.points EXCEPT ![w] = row]
      BY <3>1, <3>2, <3>4 DEF SavedTypes
    <3>6. \A v \in Weeks : saved'.points[v] = IF v = w THEN row ELSE saved.points[v]
      BY <3>1, <3>5
    <3> QED BY <3>3, <3>5, <3>6, PageLeaves
  <2> QED BY <2>1, <2>2
<1> HIDE DEF x
<1> QED BY <1>2, <1>3, <1>4, <1>5, PageLeaves, PageMoves

LEMMA ShowKeeps ==
  ASSUME DayInv, NEW a \in Pages, Show(a)
  PROVE  DayInv'
<1> DEFINE p == page[a]
           status == IF ShowsStarters(a) THEN Max({shown, StatusOf(a)}) ELSE shown
<1>1. /\ page' = [page EXCEPT ![a] = Idle] /\ floor' = [floor EXCEPT ![a] = 0]
      /\ shown' = status /\ UNCHANGED <<sleeper, seen, saved>>
  BY DEF Show
<1>2. p \in Late /\ PageOK(p, floor[a]) /\ LateOK(p, floor[a]) /\ p.week \in Weeks /\ p.current \in Weeks
      /\ p.board \in Slates \cup {NoBoard}
  BY PageLeaves, PageShape DEF Show, PageOK
<1>3. Types /\ SleeperTypes
  BY DEF DayInv, Types
<1>4. status \in 0..2 /\ Earned(status, saved.week > 1, game[1], StartersFor(1))
  <2>1. shown \in 0..2 /\ Earned(shown, saved.week > 1, game[1], StartersFor(1))
    BY PageLeaves
  <2>2. CASE ~ShowsStarters(a)
    BY <2>1, <2>2
  <2>3. CASE ShowsStarters(a)
    <3>1. p.week = 1 /\ p.starters = StartersFor(1) /\ p.starters \in SUBSET Players /\ p.points \in Points
      BY <1>2, <2>3, LateShape DEF ShowsStarters
    <3>2. game[1] \in Slates /\ Behind(p.board, game[1])
      BY <1>2, <1>3, <3>1, OneIsAWeek DEF SleeperTypes, LateOK
    <3>3. \A t \in Teams : p.points[t] > 0 => SlateStarted(game[1])
      BY <1>2, <3>1, OneIsAWeek DEF DayInv, PointsArePlayed, LateOK
    <3>4. StatusOf(a) \in 0..2 /\ Earned(StatusOf(a), 1 < p.current, game[1], p.starters)
      BY <1>2, <3>1, <3>2, <3>3, StatusEarned DEF StatusOf
    <3>5. 1 < p.current => saved.week > 1
      <4>1. p.current <= saved.week
        BY <1>2 DEF PageOK, Show
      <4>2. p.current \in Nat /\ saved.week \in Nat
        BY <1>2, <1>3, SavedShape, OneIsAWeek
      <4> QED BY <4>1, <4>2
    <3>6. Earned(StatusOf(a), saved.week > 1, game[1], StartersFor(1))
      BY <3>1, <3>4, <3>5 DEF Earned
    <3>7. status = Max({shown, StatusOf(a)})
      BY <2>3
    <3>8. status = shown \/ status = StatusOf(a)
      BY <2>1, <3>4, <3>7, MaxOfTwo
    <3> QED BY <2>1, <3>4, <3>6, <3>8
  <2> QED BY <2>2, <2>3
<1>5. PageOK(Idle, 0)
  BY DEF PageOK, Idle
<1>6. Idle \in {Idle} \cup Early \cup Late /\ 0 \in 0..2
  OBVIOUS
<1> HIDE DEF p, status
<1>7. saved' \in SavedTypes /\ saved'.week = saved.week /\ saved'.rows = saved.rows
      /\ \A w \in Weeks, t \in Teams : saved'.points[w][t] \in Totals(w, t)
  BY <1>1, PageLeaves
<1>8. seen' \in [Weeks -> Slates \cup {NoBoard}] /\ \A w \in Weeks : Behind(seen'[w], game[w])
  BY <1>1, PageLeaves
<1>9. shown' \in 0..2 /\ Earned(shown', saved.week > 1, game[1], StartersFor(1))
  BY <1>1, <1>4
<1> QED BY <1>1, <1>5, <1>6, <1>7, <1>8, <1>9, PageMoves

\* What a refresh learns is rows of players.
LEMMA AnswersAreRows ==
  ASSUME SleeperTypes, NEW w \in Weeks, NEW t \in Teams, NEW rosters \in Squads, NEW matchups \in Squads
  PROVE  AnsweredRows(w, t, rosters, matchups) \in SUBSET [player : Players, starts : BOOLEAN]
<1>1. \A players \in Squads : RowsIn(players, t) \in SUBSET [player : Players, starts : BOOLEAN]
  BY DEF Squads, RowsIn
<1>2. squad[w] \in Squads
  BY DEF SleeperTypes
<1> QED BY <1>1, <1>2 DEF AnsweredRows

LEMMA NoBoardIsBehind == \A now : Behind(NoBoard, now)
BY DEF Behind

LEMMA InitDay == Init => DayInv
<1> SUFFICES ASSUME Init PROVE DayInv
  OBVIOUS
<1>1. SleeperTypes
  <2>1. squad \in [Weeks -> Squads] /\ recent \in SUBSET Squads
    BY GameDayConstants DEF Init, Squads
  <2>2. leg \in Weeks /\ game \in [Weeks -> Slates]
    BY OneIsAWeek DEF Init, Slates
  <2>3. score \in [Weeks -> [Teams -> 0..MaxScore]]
    BY GameDayConstants DEF Init
  <2>4. posted \in [Teams -> {"all", "zero", "none"}]
        /\ corrected \in [Weeks -> [Teams -> Nat \cup {NoPoints}]]
    BY DEF Init
  <2> QED BY <2>1, <2>2, <2>3, <2>4 DEF SleeperTypes
<1> DEFINE rows == [w \in Weeks |-> [t \in Teams |-> AnsweredRows(w, t, squad[1], squad[1])]]
<1>2. saved = [week |-> 1, points |-> score, rows |-> rows]
  BY DEF Init
<1>3. \A w \in Weeks, t \in Teams : score[w][t] = 0 /\ Totals(w, t) = {0}
  BY DEF Init, Totals
<1>4. rows \in [Weeks -> Lineups]
  BY <1>1, AnswersAreRows, OneIsAWeek DEF Lineups, SleeperTypes
<1>5. score \in [Weeks -> Points]
  BY DEF Init, Points
<1> HIDE DEF rows
<1>6. Types
  <2>1. seen \in [Weeks -> Slates \cup {NoBoard}] /\ page \in [Pages -> {Idle} \cup Early \cup Late]
        /\ shown \in 0..2 /\ floor \in [Pages -> 0..2]
    BY DEF Init
  <2> QED BY <1>1, <1>2, <1>4, <1>5, <2>1, OneIsAWeek DEF Types, SavedTypes
<1>7. PointsArePlayed
  BY <1>3 DEF PointsArePlayed
<1>8. SavedOK
  <2>1. saved.week <= leg
    BY <1>2 DEF Init
  <2>2. \A w \in Weeks : seen[w] = NoBoard
    BY DEF Init
  <2>3. \A w \in Weeks, t \in Teams : saved.points[w][t] \in Totals(w, t)
    BY <1>2, <1>3
  <2> QED BY <2>1, <2>2, <2>3, NoBoardIsBehind DEF SavedOK
<1>9. ShownOK
  BY NothingEarned DEF Init, ShownOK
<1>10. PagesOK
  BY DEF Init, PagesOK, PageOK, Idle
<1> QED BY <1>6, <1>7, <1>8, <1>9, <1>10 DEF DayInv

LEMMA RestartDay ==
  ASSUME DayInv, Restart
  PROVE  DayInv'
<1>1. UNCHANGED <<leg, game, score, posted, corrected, squad, recent, saved, shown>>
  BY DEF Restart, sleeper
<1>2. /\ seen' = [w \in Weeks |-> NoBoard] /\ page' = [a \in Pages |-> Idle]
      /\ floor' = [a \in Pages |-> 0]
  BY DEF Restart
<1>3. Types'
  BY <1>1, <1>2 DEF DayInv, Types, SleeperTypes, NoPoints
<1>4. \A w \in Weeks, t \in Teams : Totals(w, t)' = Totals(w, t)
  BY <1>1 DEF Totals
<1>5. PointsArePlayed'
  BY <1>1, <1>4 DEF DayInv, PointsArePlayed
<1>6. SavedOK'
  BY <1>1, <1>2, <1>4, NoBoardIsBehind DEF DayInv, SavedOK
<1>7. ShownOK'
  BY <1>1, StartersStay DEF DayInv, ShownOK
<1>8. PagesOK'
  BY <1>2 DEF PagesOK, PageOK, Idle
<1> QED BY <1>3, <1>5, <1>6, <1>7, <1>8 DEF DayInv

\* Forgetting keeps the types of what is remembered.
LEMMA ForgetsTypes ==
  ASSUME Types, Forgets
  PROVE  shown' \in 0..2 /\ floor' \in [Pages -> 0..2]
BY DEF Types, Forgets

LEMMA RefreshKeeps ==
  ASSUME DayInv, RefreshCommits
  PROVE  DayInv'
<1>1. Types /\ SleeperTypes /\ leg \in Weeks
  BY DEF DayInv, Types, SleeperTypes
<1>2. PICK rosters \in recent, matchups \in recent :
        saved' = [week |-> leg,
         points |-> [w \in Weeks |-> IF w \in MatchupWeeks(leg)
                       THEN [t \in Teams |-> MapMatchup(Row(w, t))] ELSE saved.points[w]],
         rows |-> [w \in Weeks |-> [t \in Teams |->
           IF AnsweredRows(w, t, rosters, matchups) = {} /\ w # leg THEN saved.rows[w][t]
           ELSE AnsweredRows(w, t, rosters, matchups)]]]
  BY DEF RefreshCommits
<1> DEFINE points == [w \in Weeks |-> IF w \in MatchupWeeks(leg)
                                       THEN [t \in Teams |-> MapMatchup(Row(w, t))] ELSE saved.points[w]]
           rows == [w \in Weeks |-> [t \in Teams |->
             IF AnsweredRows(w, t, rosters, matchups) = {} /\ w # leg THEN saved.rows[w][t]
             ELSE AnsweredRows(w, t, rosters, matchups)]]
<1>3. saved' = [week |-> leg, points |-> points, rows |-> rows]
  BY <1>2
<1>4. UNCHANGED <<leg, game, score, posted, corrected, squad, seen, page>>
      /\ recent' = {squad[leg]} /\ Forgets
  BY DEF RefreshCommits
<1>5. points \in [Weeks -> Points] /\ \A w \in Weeks, t \in Teams : points[w][t] \in Totals(w, t)
  <2>1. \A w \in Weeks, t \in Teams : MapMatchup(Row(w, t)) \in Nat /\ MapMatchup(Row(w, t)) \in Totals(w, t)
    BY <1>1, LiveIsTotal, TotalsType
  <2> QED BY <1>1, <2>1, SavedShape, PageLeaves DEF Points
<1>6. rows \in [Weeks -> Lineups]
  <2>1. \A w \in Weeks, t \in Teams :
          /\ AnsweredRows(w, t, rosters, matchups) \in SUBSET [player : Players, starts : BOOLEAN]
          /\ saved.rows[w][t] \in SUBSET [player : Players, starts : BOOLEAN]
    BY <1>1, AnswersAreRows, SavedShape DEF Lineups, SleeperTypes
  <2> QED BY <2>1 DEF Lineups
<1>7. squad[leg] \in Squads
  BY <1>1 DEF SleeperTypes
<1> HIDE DEF points, rows
<1>8. saved'.week = leg /\ saved' \in SavedTypes /\ saved'.points = points
  BY <1>1, <1>3, <1>5, <1>6 DEF SavedTypes
<1>9. Types'
  BY <1>1, <1>4, <1>7, <1>8, ForgetsTypes DEF Types, SleeperTypes, NoPoints
<1>10. saved.week <= saved'.week /\ saved'.week <= leg
  BY <1>1, <1>8, OneIsAWeek DEF DayInv, SavedOK
<1> QED BY <1>4, <1>5, <1>8, <1>9, <1>10, SavingMoves

LEMMA AddKeeps ==
  ASSUME DayInv, NEW t \in Teams, NEW p \in Players, AddPlayer(t, p)
  PROVE  DayInv'
<1>1. Types /\ SleeperTypes /\ leg \in Weeks /\ saved.week \in Weeks
  BY SavedShape DEF DayInv, Types, SleeperTypes
<1> DEFINE row == [player |-> p, starts |-> FALSE]
           rows == [saved.rows EXCEPT ![saved.week][t] = @ \cup {row}]
<1>2. /\ Becomes(p, [owner |-> t, starts |-> FALSE])
      /\ saved' = [saved EXCEPT !.rows[saved.week][t] = @ \cup {row}]
      /\ Forgets /\ UNCHANGED <<leg, game, score, posted, corrected, seen, page>>
  BY DEF AddPlayer
<1>3. squad' \in [Weeks -> Squads] /\ recent' \in SUBSET Squads
  BY <1>1, <1>2, BecomesTypes
<1>4. rows \in [Weeks -> Lineups]
  <2>1. saved.rows \in [Weeks -> Lineups] /\ row \in [player : Players, starts : BOOLEAN]
    BY <1>1, SavedShape
  <2> HIDE DEF row
  <2>2. [saved.rows[saved.week] EXCEPT ![t] = @ \cup {row}] \in Lineups
    BY <1>1, <2>1 DEF Lineups
  <2>3. rows = [saved.rows EXCEPT ![saved.week] = [saved.rows[saved.week] EXCEPT ![t] = @ \cup {row}]]
    OBVIOUS
  <2> HIDE DEF rows
  <2> QED BY <1>1, <2>1, <2>2, <2>3
<1>5. saved'.rows = rows /\ saved'.week = saved.week /\ saved'.points = saved.points /\ saved' \in SavedTypes
  <2>1. saved \in SavedTypes /\ saved' = [saved EXCEPT !.rows = rows]
    BY <1>1, <1>2 DEF Types, SavedTypes
  <2> HIDE DEF rows
  <2> QED BY <1>4, <2>1 DEF SavedTypes
<1>6. Types'
  BY <1>1, <1>2, <1>3, <1>5, ForgetsTypes DEF Types, SleeperTypes, NoPoints
<1>7. saved.week <= saved'.week /\ saved'.week <= leg
  <2>1. saved.week <= leg
    BY DEF DayInv, SavedOK
  <2>2. saved.week \in Nat
    BY <1>1, OneIsAWeek
  <2> QED BY <1>5, <2>1, <2>2
<1>8. \A w \in Weeks, u \in Teams : saved'.points[w][u] \in Totals(w, u)
  BY <1>5, PageLeaves
<1> QED BY <1>2, <1>6, <1>7, <1>8, SavingMoves

LEMMA NextDay == DayInv /\ [Next]_vars => DayInv'
<1> SUFFICES ASSUME DayInv, [Next]_vars PROVE DayInv'
  OBVIOUS
<1>1. ASSUME NEW g \in Games, Kickoff(g) \/ Ends(g) PROVE DayInv'
  BY <1>1, KickoffKeeps
<1>2. ASSUME NEW t \in Teams, PlayScores(t) \/ PostsPoints(t) \/ Corrects(t) PROVE DayInv'
  BY <1>2, PlayKeeps, CorrectsKeeps, OthersKeep
<1>3. CASE (\E p \in Players : Moves(p)) \/ Tuesday \/ LegAdvances
  BY <1>3, OthersKeep
<1>4. CASE RefreshCommits
  BY <1>4, RefreshKeeps
<1>5. ASSUME NEW a \in Pages, Open(a) \/ OpenWeek(a) \/ PageStep(a) PROVE DayInv'
  BY <1>5, OpenKeeps, OpenWeekKeeps, ReadSavedKeeps, LiveArrivesKeeps, PaintKeeps, ShowKeeps DEF PageStep
<1>6. CASE Restart
  BY <1>6, RestartDay
<1>7. ASSUME NEW t \in Teams, NEW p \in Players, AddPlayer(t, p) PROVE DayInv'
  BY <1>7, AddKeeps
<1>8. CASE UNCHANGED vars
  <2>1. UNCHANGED <<leg, game, score, posted, corrected, squad, recent, pages>>
    BY <1>8 DEF vars, sleeper
  <2>2. SleeperTypes /\ SleeperTypes' /\ leg' >= leg
    BY <2>1, OneIsAWeek DEF DayInv, Types, SleeperTypes, NoPoints
  <2>3. \A w \in Weeks, t \in Teams : Totals(w, t)' = Totals(w, t)
    BY <2>1 DEF Totals
  <2> QED BY <2>1, <2>2, <2>3, SleeperMoves
<1> QED BY <1>1, <1>2, <1>3, <1>4, <1>5, <1>6, <1>7, <1>8 DEF Next

LEMMA AlwaysDay == Spec => []DayInv
<1> QED BY InitDay, NextDay, PTL DEF Spec

(* Every total, saved or on a page, is one the team had in that week or the   *)
(* one its commissioner set, for any teams, weeks, requests and refreshes:    *)
(* a page saves under the week it opened with (league_context.py:1045).       *)
THEOREM TotalsStayReal == Spec => []TotalsAreReal
<1>1. DayInv => TotalsAreReal
  <2> SUFFICES ASSUME DayInv PROVE TotalsAreReal
    OBVIOUS
  <2>1. ASSUME NEW a \in Pages, NEW t \in Teams, page[a].pc \in {"live", "paint", "shown"}
        PROVE  page[a].points[t] \in Totals(page[a].week, t)
    BY <2>1, PageLeaves DEF PageOK, LateOK
  <2> QED BY <2>1, PageLeaves DEF TotalsAreReal
<1> QED BY <1>1, AlwaysDay, PTL

(* A matchup does not go back from in progress or final, however many pages  *)
(* overlap and whatever the scores do meanwhile: _matchup_status asks which  *)
(* starters have played before it asks for points (league_context.py:126).   *)
THEOREM StatusMovesOn == Spec => []StatusNeverGoesBack
<1>1. DayInv => StatusNeverGoesBack
  <2> SUFFICES ASSUME DayInv, NEW a \in Pages, ShowsStarters(a), page[a].fresh
               PROVE  StatusOf(a) >= floor[a]
    BY DEF StatusNeverGoesBack
  <2>1. page[a].week = 1 /\ page[a].starters = StartersFor(1) /\ page[a].pc = "shown"
    BY DEF ShowsStarters
  <2>2. Earned(floor[a], page[a].current > 1, page[a].board, page[a].starters)
    BY <2>1, PageLeaves DEF PageOK, LateOK
  <2>3. floor[a] \in 0..2 /\ page[a].current \in Weeks
    BY <2>1, PageLeaves, PageShape
  <2>4. Earned(floor[a], 1 < page[a].current, page[a].board, page[a].starters)
    BY <2>2, <2>3, OneIsAWeek DEF Earned
  <2> QED BY <2>1, <2>3, <2>4, EarnedIsGiven DEF StatusOf
<1> QED BY <1>1, AlwaysDay, PTL
=============================================================================
