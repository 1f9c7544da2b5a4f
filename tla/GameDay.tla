------------------------------ MODULE GameDay ------------------------------
(***************************************************************************)
(* What a league page shows while games are played                         *)
(* (backend/app/services/league_context.py, nfl_data/week.py and the        *)
(* matchup routes).  A page is put together over several awaits: the league *)
(* row, the scoreboard, the saved scores and lineups, Sleeper's live scores, *)
(* which it also saves.  Refreshes save scores and rosters beside it, and    *)
(* OMAHA's own adds save rows.  Two teams play each other every week of a    *)
(* short season.                                                           *)
(***************************************************************************)
EXTENDS Integers, FiniteSetsExt

CONSTANTS Teams,      \* the two fantasy teams
          Players, Games,
          GameOf,     \* the NFL game a player plays in, every week
          Resting,    \* who has no game in a week: a bye, or no NFL team
          Free,       \* nobody's team
          Pages,      \* pages open at the same time
          LastWeek,   \* the last week of the season; 18 in the code
          FirstSquads,\* who may own and start whom at first
          MaxPlayed,  \* bound: the weeks whose games are played
          MaxScore,   \* bound: points a team scores in a week
          MaxEvents   \* bound: steps of Sleeper other than games and weeks, and faults

ASSUME GameDayConstants ==
  /\ GameOf \in [Players -> Games]
  /\ Resting \in [1..LastWeek -> SUBSET Players]
  /\ LastWeek \in Nat \ {0} /\ MaxScore \in Nat \ {0}
  /\ Free \notin Teams
  /\ FirstSquads \subseteq [Players -> [owner : Teams \cup {Free}, starts : BOOLEAN]]

Weeks == 1..LastWeek
NoPoints == -1
Corrections == {0, MaxScore + 1}   \* totals a commissioner puts in, down or up

VARIABLES
  leg,        \* Sleeper's week
  matchday,   \* is it Sunday or Monday in New York?
  game,       \* each week's games: "pre", "in" or "post"
  score,      \* each week's points of each team's starters
  posted,     \* how Sleeper shows a team's points this week
  corrected,  \* the total the commissioner has set, week by week
  listed,     \* the teams whose matchup of a week ahead names their players
  squad,      \* [owner, starts] of every player at Sleeper, week by week
  recent,     \* the squads Sleeper had since a refresh was last committed
  events,     \* steps of Sleeper so far
  seen,       \* the scoreboard this process last read, week by week
  saved,      \* the database: week, points, and a team's rows week by week
  page,       \* what each request holds across its awaits
  shown,      \* history: the furthest status pages have shown of the first week
  floor       \* history: shown, as each page found it

sleeper == <<leg, matchday, game, score, posted, corrected, listed, squad, recent>>
pages == <<seen, saved, page, shown, floor>>
vars == <<sleeper, events, pages>>

NoBoard == <<>>        \* no scoreboard: _nfl_games caught an error, or []
Idle == [pc |-> "idle"]

----------------------------------------------------------------------------
\* What Sleeper answers.

\* The row of a team: `points` can sit at 0 after starters have scored, or the
\* row has no numbers yet.
Row(w, t) ==
  [custom   |-> corrected[w][t],
   points   |-> IF w # leg \/ posted[t] = "all" THEN score[w][t]
                ELSE IF posted[t] = "zero" THEN 0 ELSE NoPoints,
   starters |-> IF w = leg /\ posted[t] = "none" THEN NoPoints ELSE score[w][t]]

LiveTotal(row) ==
  IF row.custom # NoPoints THEN row.custom
  ELSE IF row.points # NoPoints /\ (row.points # 0 \/ row.starters \in {NoPoints, 0})
  THEN row.points
  ELSE row.starters

\* A refresh reads the points only, and makes 0 of a missing number.
MapMatchup(row) == Max({row.points, 0})

WindowToNow(week) == {w \in Weeks : week - 3 <= w /\ w <= week}
WindowFromNow(week) == {w \in Weeks : week <= w /\ w <= week + 1}
\* The weeks of matchups it reads.
MatchupWeeks(week) == {w \in Weeks : week - 3 <= w /\ w <= week + 1}

RowsIn(players, t) ==
  {[player |-> p, starts |-> players[p].starts] : p \in {q \in Players : players[q].owner = t}}

\* What a refresh learns of a team's lineup in a week: of the league's week from
\* the rosters, of the others from the matchups, which are answers of their own.
AnsweredRows(w, t, rosters, matchups) ==
  IF w = leg THEN RowsIn(rosters, t)
  ELSE IF w \notin MatchupWeeks(leg) THEN {}
  ELSE IF w < leg THEN RowsIn(squad[w], t)
  ELSE IF t \in listed THEN RowsIn(matchups, t) ELSE {}

----------------------------------------------------------------------------
\* The page's own conclusions.

SlateFinal(board) == board # NoBoard /\ \A g \in Games : board[g] = "post"
SlateStarted(board) == board # NoBoard /\ \E g \in Games : board[g] # "pre"

\* Empty slots do not count, and who has no game that week has played.
LineupHasPlayed(week, starters, board) ==
  /\ starters # {}
  /\ \A p \in starters : p \in Resting[week] \/ (board # NoBoard /\ board[GameOf[p]] = "post")

MatchupFinal(week, current, board, starters) ==
  week < current \/ SlateFinal(board) \/ LineupHasPlayed(week, starters, board)

StatusByPoints(week, current, points, board, starters) ==
  IF MatchupFinal(week, current, board, starters) THEN 2
  ELSE IF \A t \in Teams : points[t] = 0 THEN 0 ELSE 1

\* "final", "in_progress" and "upcoming" as ranks; "bye" needs a week without an
\* opponent, and these teams have none.
MatchupStatus(week, current, points, board, starters) ==
  IF MatchupFinal(week, current, board, starters) THEN 2
  ELSE IF (\A t \in Teams : points[t] = 0) /\ ~SlateStarted(board) THEN 0
  ELSE 1

\* Once the slate is final, the next week from Tuesday on.
BoardWeek(week, board) ==
  IF SlateFinal(board) /\ week < LastWeek /\ ~matchday THEN week + 1 ELSE week

\* A team's rows; next week's, if none are saved, are this week's.
RowsFor(week, t) ==
  IF saved.rows[week][t] = {} /\ week > saved.week THEN saved.rows[saved.week][t]
  ELSE saved.rows[week][t]

StartersFor(week) ==
  {p \in Players : \E t \in Teams : \E row \in RowsFor(week, t) : row.player = p /\ row.starts}

Rostered(week) == {p \in Players : \E t \in Teams : \E row \in saved.rows[week][t] : row.player = p}

\* The pool to add from excludes whoever has a row that week, with no such fallback.
Available(week) == Players \ Rostered(week)

----------------------------------------------------------------------------
Init ==
  /\ leg = 1 /\ matchday = TRUE
  /\ game = [w \in Weeks |-> [g \in Games |-> "pre"]]
  /\ score = [w \in Weeks |-> [t \in Teams |-> 0]]
  /\ posted = [t \in Teams |-> "all"]
  /\ corrected = [w \in Weeks |-> [t \in Teams |-> NoPoints]]
  /\ listed \in {{}, Teams}
  /\ \E first \in FirstSquads : squad = [w \in Weeks |-> first] /\ recent = {first}
  /\ events = 0
  /\ seen = [w \in Weeks |-> NoBoard]
  /\ saved = [week |-> 1, points |-> score,
              rows |-> [w \in Weeks |-> [t \in Teams |-> AnsweredRows(w, t, squad[1], squad[1])]]]
  /\ page = [a \in Pages |-> Idle]
  /\ shown = 0 /\ floor = [a \in Pages |-> 0]

----------------------------------------------------------------------------
\* Games, weeks and Sleeper.

Kickoff(g) ==
  /\ game[leg][g] = "pre" /\ leg <= MaxPlayed
  /\ game' = [game EXCEPT ![leg][g] = "in"]
  /\ matchday' = TRUE
  /\ UNCHANGED <<leg, score, posted, corrected, listed, squad, recent, events, pages>>

Ends(g) ==
  /\ game[leg][g] = "in"
  /\ game' = [game EXCEPT ![leg][g] = "post"]
  /\ UNCHANGED <<leg, matchday, score, posted, corrected, listed, squad, recent, events, pages>>

\* A starter of the team scores in a game that is on.
PlayScores(t) ==
  /\ score[leg][t] < MaxScore
  /\ \E p \in Players \ Resting[leg] :
       squad[leg][p] = [owner |-> t, starts |-> TRUE] /\ game[leg][GameOf[p]] = "in"
  /\ score' = [score EXCEPT ![leg][t] = @ + 1]
  /\ UNCHANGED <<leg, matchday, game, posted, corrected, listed, squad, recent, events, pages>>

Tuesday ==
  /\ SlateFinal(game[leg]) /\ matchday
  /\ matchday' = FALSE
  /\ UNCHANGED <<leg, game, score, posted, corrected, listed, squad, recent, events, pages>>

\* The league's leg moves on a day or more after the slate.
LegAdvances ==
  /\ SlateFinal(game[leg]) /\ ~matchday /\ leg < LastWeek
  /\ leg' = leg + 1
  /\ posted' = [t \in Teams |-> "all"]
  /\ recent' = {squad[leg']}
  /\ UNCHANGED <<matchday, game, score, corrected, listed, squad, events, pages>>

Event == events < MaxEvents /\ events' = events + 1

\* Sleeper's points of a team lag, are missing, or come right again.
PostsPoints(t) ==
  /\ Event
  /\ \E how \in {"all", "zero", "none"} \ {posted[t]} :
       posted' = [posted EXCEPT ![t] = how]
  /\ UNCHANGED <<leg, matchday, game, score, corrected, listed, squad, recent, pages>>

Corrects(t) ==
  /\ Event /\ corrected[leg][t] = NoPoints /\ SlateStarted(game[leg])
  /\ \E total \in Corrections : corrected' = [corrected EXCEPT ![leg][t] = total]
  /\ UNCHANGED <<leg, matchday, game, score, posted, listed, squad, recent, pages>>

\* A player's place from now on; weeks gone by keep theirs.
Becomes(p, row) ==
  /\ squad' = [w \in Weeks |-> IF w < leg THEN squad[w] ELSE [squad[w] EXCEPT ![p] = row]]
  /\ recent' = recent \cup {squad'[leg]}

\* In Sleeper a manager starts or sits a player before his game, adds a free agent
\* or drops a player from the bench, on any day but while his game is on.
Moves(p) ==
  /\ Event
  /\ \E row \in [owner : Teams \cup {Free}, starts : BOOLEAN] :
       /\ \/ /\ row.owner = squad[leg][p].owner /\ row.owner # Free
             /\ row.starts # squad[leg][p].starts
             /\ game[leg][GameOf[p]] = "pre" \/ p \in Resting[leg]
          \/ /\ row.owner # squad[leg][p].owner /\ Free \in {row.owner, squad[leg][p].owner}
             /\ ~row.starts /\ ~squad[leg][p].starts
             /\ game[leg][GameOf[p]] # "in" \/ p \in Resting[leg]
       /\ Becomes(p, row)
  /\ UNCHANGED <<leg, matchday, game, score, posted, corrected, listed, pages>>

----------------------------------------------------------------------------
\* What is saved beside a page.

\* With other starters the first week's status may well start anew.
Forgets ==
  IF StartersFor(1)' = StartersFor(1) THEN UNCHANGED <<shown, floor>>
  ELSE shown' = 0 /\ floor' = [a \in Pages |-> 0]

\* A refresh commits.  Points are of one moment, the rosters and the matchups it
\* takes rows from each of their own; LeagueSync has all its reads one by one.
\* A matchup without players leaves the rows there are.
RefreshCommits ==
  /\ \E rosters, matchups \in recent :
       saved' = [week |-> leg,
         points |-> [w \in Weeks |-> IF w \in MatchupWeeks(leg)
                       THEN [t \in Teams |-> MapMatchup(Row(w, t))] ELSE saved.points[w]],
         rows |-> [w \in Weeks |-> [t \in Teams |->
           LET answered == AnsweredRows(w, t, rosters, matchups)
           IN IF answered = {} /\ w # leg THEN saved.rows[w][t] ELSE answered]]]
  /\ recent' = {squad[leg]}
  /\ Forgets
  /\ UNCHANGED <<leg, matchday, game, score, posted, corrected, listed, squad, events, seen, page>>

\* OMAHA adds a free agent: Sleeper takes him, and he gets a row of the league's
\* week.  Dealings has the steps of the call, its drops and its failures.
AddPlayer(t, p) ==
  /\ Event
  /\ p \notin Rostered(saved.week) /\ squad[leg][p].owner = Free
  /\ game[leg][GameOf[p]] # "in" \/ p \in Resting[leg]
  /\ Becomes(p, [owner |-> t, starts |-> FALSE])
  /\ saved' = [saved EXCEPT !.rows[saved.week][t] = @ \cup {[player |-> p, starts |-> FALSE]}]
  /\ Forgets
  /\ UNCHANGED <<leg, matchday, game, score, posted, corrected, listed, seen, page>>

----------------------------------------------------------------------------
\* A page.

\* The scoreboard of a week: read now, or the last one this process saw.
Boards(w) == {game[w], seen[w]}

\* get_matchup without a week: the league row and the board decide on the week;
\* with one, that week is shown.
Open(a) ==
  /\ page[a].pc = "idle"
  /\ \E board \in Boards(saved.week) :
       LET week == BoardWeek(saved.week, board) IN
       /\ page' = [page EXCEPT ![a] =
            [pc |-> "saved", week |-> week, current |-> saved.week, board |-> board,
             asked |-> FALSE, fresh |-> board = game[saved.week]]]
       /\ seen' = [seen EXCEPT ![saved.week] = board]
  /\ floor' = [floor EXCEPT ![a] = shown]
  /\ UNCHANGED <<sleeper, events, saved, shown>>

\* With a week in the query that week is shown; here, the first once it is past.
OpenWeek(a) ==
  /\ page[a].pc = "idle" /\ saved.week > 1
  /\ page' = [page EXCEPT ![a] =
       [pc |-> "saved", week |-> 1, current |-> saved.week, board |-> NoBoard,
        asked |-> TRUE, fresh |-> FALSE]]
  /\ floor' = [floor EXCEPT ![a] = shown]
  /\ UNCHANGED <<sleeper, events, seen, saved, shown>>

\* One look at a week's board serves the whole request.
BoardsFor(a) ==
  IF ~page[a].asked /\ page[a].week = page[a].current THEN {page[a].board}
  ELSE Boards(page[a].week)

\* The matchup, the lineups and the free agents as saved.  Only the matchups of
\* the league's week are looked up at Sleeper.
ReadSaved(a) ==
  /\ page[a].pc = "saved"
  /\ LET w == page[a].week IN
     \E board \in BoardsFor(a) :
       /\ page' = [page EXCEPT ![a] =
            [pc |-> IF w = @.current THEN "live" ELSE "shown", week |-> w, current |-> @.current,
             board |-> board, asked |-> @.asked, fresh |-> board = game[w],
             points |-> saved.points[w], loaded |-> saved.points[w], starters |-> StartersFor(w)]]
       /\ seen' = [seen EXCEPT ![w] = board]
  /\ UNCHANGED <<sleeper, events, saved, shown, floor>>

\* _paint_live_points: a missing total keeps the score there was.
LiveArrives(a) ==
  /\ page[a].pc = "live"
  /\ page' = [page EXCEPT ![a] =
       [@ EXCEPT !.pc = "paint",
                 !.points = [t \in Teams |->
                   LET live == LiveTotal(Row(page[a].week, t))
                   IN IF live = NoPoints THEN page[a].points[t] ELSE live]]]
  /\ UNCHANGED <<sleeper, events, seen, saved, shown, floor>>

\* The points are committed where they differ from those this session loaded.
Painted(a, week) ==
  /\ page[a].pc = "paint"
  /\ saved' = [saved EXCEPT !.points[week] =
       [t \in Teams |-> IF page[a].points[t] = page[a].loaded[t] THEN @[t]
                        ELSE page[a].points[t]]]
  /\ page' = [page EXCEPT ![a].pc = "shown"]
  /\ UNCHANGED <<sleeper, events, seen, shown, floor>>

PaintThisWeek(a) == Painted(a, saved.week)
Paint(a) == Painted(a, page[a].week)

\* "A stale score is better than a failed matchup page."
LiveFails(a) ==
  /\ page[a].pc = "live"
  /\ page' = [page EXCEPT ![a].pc = "shown"]
  /\ UNCHANGED <<sleeper, events, seen, saved, shown, floor>>

StatusOf(a) ==
  MatchupStatus(page[a].week, page[a].current, page[a].points, page[a].board, page[a].starters)

\* It shows the first week, with the starters that are saved.
ShowsStarters(a) ==
  page[a].pc = "shown" /\ page[a].week = 1 /\ page[a].starters = StartersFor(1)

\* The page goes out.  What it shows is remembered for the pages opened later.
Show(a) ==
  /\ page[a].pc = "shown"
  /\ page' = [page EXCEPT ![a] = Idle]
  /\ shown' = IF ShowsStarters(a) THEN Max({shown, StatusOf(a)}) ELSE shown
  /\ floor' = [floor EXCEPT ![a] = 0]
  /\ UNCHANGED <<sleeper, events, seen, saved>>

PageStep(a) == ReadSaved(a) \/ LiveArrives(a) \/ LiveFails(a) \/ Paint(a) \/ Show(a)

Restart ==
  /\ Event
  /\ seen' = [w \in Weeks |-> NoBoard]
  /\ page' = [a \in Pages |-> Idle]
  /\ floor' = [a \in Pages |-> 0]
  /\ UNCHANGED <<sleeper, saved, shown>>

Next ==
  \/ \E g \in Games : Kickoff(g) \/ Ends(g)
  \/ \E t \in Teams : PlayScores(t) \/ PostsPoints(t) \/ Corrects(t)
  \/ \E p \in Players : Moves(p)
  \/ Tuesday \/ LegAdvances
  \/ RefreshCommits
  \/ \E t \in Teams, p \in Players : AddPlayer(t, p)
  \/ \E a \in Pages : Open(a) \/ OpenWeek(a) \/ PageStep(a)
  \/ Restart

\* Every read and call of a page or a refresh ends, and an open league is
\* refreshed again and again.
Spec ==
  /\ Init /\ [][Next]_vars
  /\ WF_vars(RefreshCommits)
  /\ \A a \in Pages : WF_vars(PageStep(a))

----------------------------------------------------------------------------
(* Every total, saved or on a page, is one the team had in that very week or *)
(* the one its commissioner set, although the week turns and refreshes       *)
(* commit between the awaits of a page that saves what it read               *)
(* (league_context.py:1045, sync_service.py:156). The 0 of before the games  *)
(* counts, so a missing total saved as 0 is not told apart here:             *)
(* ScoresCatchUp says that Sleeper's own comes back.                         *)
Totals(w, t) == 0..score[w][t] \cup ({corrected[w][t]} \ {NoPoints})
TotalsAreReal ==
  /\ \A w \in Weeks, t \in Teams : saved.points[w][t] \in Totals(w, t)
  /\ \A a \in Pages, t \in Teams :
       page[a].pc \in {"live", "paint", "shown"} => page[a].points[t] \in Totals(page[a].week, t)

(* A matchup goes from upcoming to in progress to final and never back, as   *)
(* long as the scoreboard can be read and the saved starters are the same,   *)
(* although scores fall to 0 or are corrected, weeks end and pages overlap   *)
(* (league_context.py:126).                                                  *)
StatusNeverGoesBack ==
  \A a \in Pages : ShowsStarters(a) /\ page[a].fresh => StatusOf(a) >= floor[a]

(* Where Sleeper's matchups name next week's players, and nothing more       *)
(* happens, nobody a team holds is offered, although the page looks a week   *)
(* ahead and rows come from two answers (league_context.py:473,              *)
(* provider.py:94).                                                          *)
OffersSettle ==
  listed = Teams =>
    <>[](\A a \in Pages : page[a].pc = "saved" /\ ~page[a].asked =>
           \A p \in Available(page[a].week) : squad[leg][p].owner = Free)

(* Once Sleeper's points are plain and nothing more happens, they are what   *)
(* is saved, for this week and the three before it, whichever page wrote an   *)
(* older total over them (league_context.py:1076, provider.py:93).            *)
ScoresCatchUp ==
  <>[](\A t \in Teams : posted[t] = "all" /\ \A w \in Weeks : corrected[w][t] = NoPoints)
    => <>[](\A w \in Weeks : w \in leg-3..leg => saved.points[w] = score[w])
============================================================================
