# OMAHA: a TLA+ verification project

OMAHA is a fantasy-football manager. A FastAPI process imports a user's Sleeper
leagues into a database, shows them while games are played, advises, talks through a
language model, and writes to Sleeper on the user's behalf: lineups, the injured
reserve list, adds, trades, chat messages. Part of that happens in the background
while nobody looks. Sleeper is shared with the Sleeper app, answers late or not at
all, and serves its public data from a cache; ESPN's feeds fail in part. This
directory models the backend: what depends on the order in which those things
happen, and the advice whose parts must agree with each other.

## The system

One uvicorn process runs one asyncio event loop. Everything in it interleaves at
`await`: web requests, one background refresh per league, and one loop
(`auto_reply_loop`) that sweeps first the chats and then the lineups every
`POLL_SECONDS`. State is in the database (rows), in module globals (locks,
freshness marks, memory caches, the rate limiter) that a restart empties, in cache
files that a restart keeps, in the browser (proposals not decided yet), and on
Sleeper.

| component | state | operations | what is hard | what makes it correct |
|---|---|---|---|---|
| Lineup and IR writes, `services/sleeper_writes.py` | `roster_entries` per team and week; Sleeper's lineup per week and one IR list | `move_player`, `set_lineup`, `_guard_unchanged`, `_push_starters`, `_push_reserve`, `_apply_placement` | read, compare, push whole lists, read back and commit are five awaits apart; two writers; the app; answers lost after they took effect; moves that stop in the middle | only the requested players move, each step is one Sleeper accepts, what is saved is what Sleeper holds |
| Free agents, trades and chats, same file and `providers/sleeper/graphql.py` | roster rows, saved transactions, the token | `add_player`, `propose_trade`, `respond_to_trade`, direct messages, `save_token`, `clear_token` | checks are made on saved rows that age; claims wait; answers are lost; a refresh commits in between | saved rows were Sleeper's, saved offers become right again, a message reaches one leaguemate only |
| Live refresh, `services/live_league.py` | `_fresh` mark, `_locks`, `_background` task per league | `ensure_live`, `_schedule_background`, `_refresh_blocking`, `cancel_background` | many requests and a background task for one lock; failures; shutdown | one pull at a time, never an older league over a newer one, a write follows a pull, everyone returns |
| Import and sync, `services/sync_service.py`, `services/integration_service.py` | `sync_status`, every row of a league | `import_league`, `import_all_leagues`, `sync_league`, `refresh_live`, `apply_snapshot` | outside the lock of the live refresh; reads of different moments in one snapshot; a crash in the middle | no player on two teams; what is saved becomes Sleeper's again; a status settles; every league arrives |
| League pages, `services/league_context.py`, `nfl_data/week.py` | saved points, the scoreboard last read | matchup pages, `live_scores`, `available_players` | a page reads week, board, scores and lineups at different moments and saves what it hears while refreshes save too; weeks turn on Tuesday and later at Sleeper | a total is one the team had, a status does not go back, offers and scores settle |
| Caches of NFL data, `nfl_data/` and `providers/sleeper/client.py` | memory, a file, sometimes a lock, per feed | `get_players`, `load`, `live_week`, `week`, `lines`, `reports` | many readers, restarts, downloads that fail whole or in part | nothing is handed out too old, a failure does not cost what was there, readers do not download side by side |
| Injury report, `nfl_data/injuries.py` | the last report | `parse_injuries`, `apply_injury_reports` | two sources, several entries per player, namesakes | the newest news wins |
| Automatic replies, `services/auto_reply.py` | settings, checked managers with `enabled_at` and `last_message_id`; the chats on Sleeper | `sweep_auto_replies`, `incoming_to_answer`, `save_auto_reply` | composing takes seconds; a reply may be sent and not recorded | nobody is answered twice, everything is handled once |
| AI Management, `services/lineup_management.py` | a switch per league; the plan of the sweep in progress | `plan_management`, `sweep_lineup_management` | the plan ages while it is carried out | only starters who cannot play lose their slot, whoever was locked at the plan stays, what is planned gets done |
| Agent loop, tools and approvals, `ai/` | the message history; what was proposed | `Agent.run`, the league tools, `analyze`, `propose_*`, approve and decline | a model that calls tools for ever, fails or is cut off; proposals that are stale when approved | every request ends, a proposal fits the lineup, only what was decided is done |
| Advice, `intelligence/`, `ai/trade_review.py`, `ai/fallback.py` | none | swaps, alerts, depth grades, drafts and verdicts | ties, missing projections, locked players, rules written twice | notes agree, following them comes to rest |
| Accounts, rate limits, demo league | users, accounts, league rows, hits per key | register, login, connect, import, `create_demo_league`, `hit` | select and insert are an await apart; one table of hits is pruned by several windows | nothing is saved twice, the limit holds in any window |
| Projections and markets, frontend | | | arithmetic on odds; screens | not modelled |

Interactions: a route calls `ensure_live` (with `wait=True` before a write), then
one service. `lineup_management` calls `ensure_live` and then `move_player` for
each planned move. `ensure_live` calls `refresh_live`, which calls `get_players`,
`reports` and `apply_snapshot`; `apply_snapshot` replaces the `roster_entries`
that `move_player` and `add_player` read and write, the points that pages save and
the transactions that offers are saved in. The assistant's tools call the same
services as the routes, over views the context and the caches make.

## Modules

| module | models | checked and proved in |
|---|---|---|
| `Roster` | the roster rows of a team: `_aligned_starters`, `_moved`, `_first_open_slot`, `_apply_local`, `_apply_placement`, the plan of `move_player`, `map_roster` | used by `SleeperWrites`, `LineupManagement`, `Advice` |
| `SleeperWrites` | lineup and IR writes, several writers, the app, refreshes | `MCSleeperWrites`, `LineupProofs` |
| `Dealings` | adds, drops, trades, direct chats and the token, beside refreshes and the lagging public API | `MCDealings`, `DealingsProofs` |
| `SharedPull` | abstract: what `live_league` promises | implemented by `LiveLeague` |
| `LiveLeague` | `services/live_league.py` for one league | itself, `LiveLeagueProofs` |
| `LeagueSync` | `services/sync_service.py` for one league: imports and syncs by hand beside the refresh | `MCLeagueSync`, `LeagueSyncProofs` |
| `GameDay` | the pages of one matchup over its weeks: slates, live scores, statuses, free agents | `MCGameDay`, `GameDayProofs` |
| `PlayerCatalogue` | `SleeperClient.get_players` | `MCCaches`, `CachesProofs` |
| `Feeds` | the six other caches of published NFL data | `MCCaches`, `CachesProofs` |
| `InjuryReport` | parsing a report to one entry per player and laying it over Sleeper's labels | used by `Feeds` |
| `AutoReply` | `services/auto_reply.py` for one league | itself, `AutoReplyProofs` |
| `LineupManagement` | `services/lineup_management.py` for one league and week, over `Roster` | `MCLineupManagement`, `LineupProofs` |
| `Advice` | swaps, alerts, substitutes and offers from one view of a team, over `Roster` | used by `Appraisal`, `LineupProofs` |
| `Appraisal` | grades, open spots, drafts of trades, verdicts and claims, over `Advice` | used by `Assistant` |
| `Assistant` | the agent loop, its tools, proposals, approvals and notes, over `Appraisal` | `MCAssistant`, `LineupProofs` |
| `Accounts` | registering, signing in, the limiter, connecting, importing, the demo league | `MCAccounts`, `AccountsProofs` |

`MC*` modules give values to constants that a `.cfg` cannot write; `MCSleeperWrites`
also cuts the state space into two scenarios (see Bounds), and `MCCaches` runs `Feeds` and
`PlayerCatalogue` in one check, a behaviour being one cache. A module whose constants
are sets and numbers is checked as it is.

### How state and actions correspond to the code

**`Roster`.** A roster is a function from players to where they are: a slot
number, `Bench`, `IR` or `Taxi`. That is `roster_entries` with `roster_slot`,
`is_starter` and `slot_index` folded into one value. `DesiredStarters`,
`DesiredReserve` and `Steps` are the body of `move_player` between reading the
roster and the first call to Sleeper; `Legal` collects its refusals.
`ApplyPlacement` is `_apply_placement` and `ApplyLocal` the save of `set_lineup`.
`MapRoster` is what a refresh writes, from `providers/sleeper/mappers.py`.

**`SleeperWrites`.** `starters`, `reserve` and `squad` are Sleeper's; `public` is the
copy its REST API still shows; `local` is the database. `job[w]` is what one
request holds in local variables across its awaits; its `phase` is the await it
is at. `known` is a history variable, read by properties only.
`RequestMove` and `RequestLineup` are a request up to its first call;
`PrereadStarters`, `GuardPasses`, `GuardConflicts` and `PrereadFails` are
`_guard_unchanged`; `PushApplied`, `PushIgnored`, `PushRefused`,
`PushRefusedAuth` and `PushLost` are the outcomes of one GraphQL mutation with
the `except` branch each reaches; `Readback*` are the end of `_push_starters` and
`_push_reserve`; `Apply` is the placement and the commit. `App*` are the Sleeper
app, `PublicCatchesUp` the public cache, `RefreshCommits` a commit of
`refresh_live`, `Kickoff` a game that starts.

**`Dealings`.** `owner`, `offers`, `claims` and `threads` are Sleeper's, `public` what its
public API shows, `rows`, `book`, `leg` and `token` the database's. `Ask*` is a
handler up to its GraphQL call: the checks, all made on saved state. `Sleeper*` is
the call taking effect, with the answer heard or not; an add is done or becomes a
claim that clears later. `Save*` is the rest of the handler: `SaveAdd` deletes the
row it had loaded, which may be gone since a refresh (`gone`), and a row that a
refresh has saved already fails the whole commit (`RowsIfDone`). `Refused` is every
call without effect. `Listed` is the chat list, `LeagueThread`
`_require_league_thread`. `RefreshReads` and `RefreshCommits` are a refresh as far as
it touches these rows; `had` remembers every row Sleeper ever had.

**`LiveLeague`.** `fresh` is `_fresh[key]`, `holder` and `queue` the asyncio lock, the
actor `Background` the task in `_background[key]`. `Call` is `ensure_live` up to
its first await, with its three early exits; `Run` schedules the task; `Wake`
hands the lock over and looks at the mark again; `Fetch` and `Commit` are
`refresh_live`, `PullFails` the exception `_refresh_blocking` swallows, `Finish`
the mark that is set afterwards, `Escape` an exception that leaves through the
lock. Versions of the league stand for its content.

**`LeagueSync`.** `log` is Sleeper: every state it has been in. `league` is the row in
`leagues`, `rows[w]` the `roster_entries` of a week as triples of team, player and
whether the slot is IR, `offer` the row of one trade. `pull[a]` is a sync or the
refresh: `Request` and `Create` are `import_league` and the dependency that loads
a league, `MarkSyncing` the first commit of `sync_league`, `ReadLeague` the first
read of `fetch_league_snapshot`. The reads that follow run in parallel and have no
action of their own: `Commit` takes each answer from any state of Sleeper since
`ReadLeague`, which is every way they can interleave with Sleeper's changes.
`Applied` is `apply_snapshot` with `replace_for_team`; `NetChange` is what the ORM
does with an attribute set to the value it was loaded with: nothing is written, so
an overtaken pull need not put the week or the status back. `Fail` is a call or a
transaction that raises, a unique constraint two overlapping commits run into
included.

**`GameDay`.** `leg`, `game`, `score`, `posted`, `corrected`, `listed` and `squad` are Sleeper
and the NFL, `squad` week by week as of when that week was on; `saved` is the database,
`seen` the scoreboard the process last read. A page is `Open` (this week's matchup) or
`OpenWeek` (any week's), then `ReadSaved`, `LiveArrives` or `LiveFails`, `Paint` (the commit
of live points; as in the ORM a value equal to the loaded one writes nothing) and `Show`.
`Row` is one team of a matchup answer: its points may be Sleeper's, stuck at 0 or missing,
and a commissioner's total may be above or below them. `Boards` is what the cache of the
scoreboard may hand out, `MatchupStatus` is `_matchup_status` with the byes of
`_player_has_played`, `Available` is `available_players`. `RefreshCommits` takes the rows of
the league's week from the rosters and those of the other weeks from the matchups, two
answers of moments of their own (`recent`), skips a matchup without players, and makes 0 of
missing points (`MapMatchup`). `AddPlayer` is OMAHA's own add: a row of the league's week.
`shown` and `floor` remember the status pages showed before a page was opened.

**`Feeds`.** A behaviour is one of six feeds, `Init` chooses which; the operators that
differ (`Fresh`, `Stamped`, `*Arrives`) take it from there. A copy has the parts it
holds (weeks of a board, boards of props), the time it is stamped with and the time
it was downloaded. `ReadMemory`, `ReadFile`, `WaitForLock` are a call up to its lock or
download, `Rechecked` the look after the lock, `Fetched` a download with any of its parts
missing, `FetchRaises` one that raises through the reader. **`InjuryReport`** reads a report entry
by entry (`WithEntry`, `Reports`) and lays what is left over a player's label (`Overlay`);
`Newest` is the reference, which looks at all entries at once.

**`PlayerCatalogue`.** A copy has the time it is stamped with (`at`) and the time it was
downloaded (`born`); the code only sees `at`, the properties are about `born`.
`Call` is the look at memory before the lock, `UnderLock` what happens under it.

**`AutoReply`.** `thread[m]` is the chat with manager `m`, `targets` and `enabled` the
saved settings, `sweep` what the running sweep holds: the rows it loaded, the
managers it has left, the manager it is at and the message it answers. The
phases are the awaits of `_sweep_league`. `Incoming` is `incoming_to_answer`.

**`LineupManagement`.** `Plan` is `plan_management`: `Subs` visits the slots, `WithSub` is
what it does at one, `Activations` visits the rows of `Returning` players. The rows a sweep
plans from are Sleeper's, or the saved ones when its refresh fails. `board` is the scoreboard
it read for the plan: `_sweep_league` makes one context for the plan and all its moves, and
that context keeps the first board it reads, so `Sendable` compares every move of the sweep
with `board` and not with `locked`. A move is one step with the outcomes `move_player` has
for its caller: refused, refused by the guard, applied, applied without a guard because the
read before it failed, and stopped at one of its lists - which Sleeper may have taken all
the same (`Stops`). `SleeperWrites` is where the inside of that step is modelled.
`changed` is a history of what changed since the plan, read by a property only.

**`Advice`, `Appraisal`.** Pure functions of a view: the seats, injuries and started games
that a `TeamContext` holds. `SuggestSwaps` is `intelligence/lineup.py` as a function over the
visits, two of each slot, `Visit` what one of them adds, `StartSit` the notes made of it, `Alert` and `LineupIssues` the two pages' rules for a
starter in trouble, `Replacements`, `SubOne` and `SubPair` are `ai/subs.py`, `SwapsMentioned`
the parsing of prose in `ai/approvals.py` once the names are found. `GradeOf`, `Surplus`,
`OpenSpots`, `DropCandidates` are `roster_needs.py`, `PickGive` is `trade_offer.py`, `Assess` the
verdict on an offer and `Reviews` the one on a trade that has been made.

**`Assistant`.** `entries`, `health` and `started` are the team, a write being one step
(`SleeperWrites` is its inside; `EveryWriteIsOneStep` proves that what a request saves is what
such a step makes of the rows it read). `chat` is the request in progress: its stage, the rounds
and calls so far, the view the tools have cached. `ModelCalls` and `ChatAnswered` are the
model's turns, `Tool*` the outcomes of one call, `AskForSchema` and `SchemaAnswered` the
structured answer and its retry, `ModelRetries` and `ModelFails` the client's own.
`chat.board` is the scoreboard its first context read: all writes of one chat are compared
with it, those of a click with the one of the moment. `ToolLosesAnswer` is a lineup tool that
raises after Sleeper took its write: it is not among the tools used and invalidates nothing.
`offers` and `notes` are what the browser shows. `fresh`, a history, is lost when somebody
else changes the lineup, another move is approved or a write of the chat loses its answer.
`Approve`, `Decline`, `ApproveClaim`, `FollowNote` are
the clicks. A tool is one step: in the code the calls of one round interleave, and a read
still building the context may cache the old team again after a write has cleared it. That
is left out, because a chat that writes takes from its context only who is on the roster.

**`Accounts`.** Rows are sequences, an id is a place. A handler's select and its insert are
two actions (`AskRegister` and `Register`, `Resolved` and `InsertAccount`, `Find` and
`Details`), and the unique keys are what decides in the second. `hits` is the limiter's
table with ages in place of times, `Recent` the calls left when `hit` has dropped those that
are too old; `let` counts what it let through. `Pending`, `Work`
and `Listed` are `import_all_leagues`, `Synced` the sync of one league, `CallFails` any
call that raises with what had been committed by then.

## What each run checks

Expected to pass:

| run | question | properties |
|---|---|---|
| `two_writers` | two writers and the app in one week, and writes between kickoffs and lagging refreshes over two weeks, under every failure of a call | `SeenListsStillHold`, `StepsInSleeperOrder`, `GuardedPushMovesOnlyTheRequest`, `CommitMatchesSleeper` |
| `dealings` | adds, drops, offers, answers and messages while others do the same, answers are lost, the public API lags, weeks turn and refreshes commit in between | `RowsAreSleepers`, `MessagesStayPrivate`, `BooksCatchUp` |
| `shared_pull` | requests, background refresh, failures and restarts; do calls end | `WriteFollowsAPull`, `SavedNeverGoesBack`, `SharesOnePull` (refinement), `EveryCallReturns` |
| `league_sync` | a sync by hand beside refreshes, Sleeper changing between their reads, failures and restarts | `OneTeamPerPlayer`, `SavedCatchesUp`, `StatusSettles` |
| `game_day` | pages opened while games start and end, points come late or are missing, a total is corrected up or down, weeks turn, refreshes and adds commit between a page's awaits | `TotalsAreReal`, `StatusNeverGoesBack`, `OffersSettle`, `ScoresCatchUp` |
| `caches` | two readers of the player catalogue or of any of the six other caches while downloads fail whole or in part, files cannot be written and the process restarts; what a new injury report says | `FreshEnough`, `ByesAreReal`, `FetchesApart`, `FailureTakesNothing`, `NewestReportWins`, `AgeBelowTwice`, `DownloadsApart` |
| `chats` | two managers' chats under every fault; is a waiting chat handled in the end | `AnsweredOnce`, `HandledOnce`, `WaitingIsHandled` |
| `management` | sweeps against injuries, kickoffs, the user, the app, failed refreshes, unguarded and half-done moves; does a plan get done | `PlanSubstitutes`, `StartedStay`, `OnlySubsLoseTheirSlot`, `PlanIsCarriedOut` |
| `assistant` | a chat whose model calls tools, an analysis, advice or a note, and what the manager approves and follows, while the app, injuries, kickoffs and lost answers interfere | `ProposalsFitTheLineup`, `AppraisalsAgree`, `OnlyWhatWasDecided`, `EveryRequestIsAnswered`, `AdviceSettles` |
| `accounts` | two people behind one address, an e-mail in two spellings, connects and imports that overlap, fail half way and are cut off | `SavedOnce`, `WindowHolds`, `EveryLeagueArrives` |

Expected to be violated, a disagreement between the code and what the repository says
of it:

| run | the repository says | the run shows |
|---|---|---|
| `taxi` | IR players who can play are activated | a taxi player in the reserve rows is planned, refused, and blocks the rest of the plan in every sweep |
| `kickoff` | a write that moves a player locked at kickoff is refused instead of sent (`sleeper_writes.py:799`) | a game starts between a sweep's plan and its move; the check looks at the scoreboard of the plan, and the write is sent (`NothingLockedIsSent`) |

### Limits of the code

What the models show of the code besides the two findings. No property of a run says
otherwise: it is stated so as to leave these out, or says what they cost at most.

Writes and refreshes:

* `sleeper_writes.py:819` refuses to write over a lineup changed since it was saved.
  A change the app makes after that comparison and before the push, or before the
  second push of a move, is written over all the same (`GuardedPushMovesOnlyTheRequest`
  speaks of what the writer had seen).
* A pull that fails is swallowed and marks the league fresh, so the write that waited
  for it builds on old rows (`WriteFollowsAPull` excepts a failed last attempt).
* A refresh drops the IR list from the rows of next week, so a conflict saved for
  next week comes back.
* "Roster entries for (team, week) are replaced as a set" (`sync_service.py:4`), but a lineup
  without players is skipped (line 142): a team that lost its last player keeps its rows of
  the weeks to come, and that player can be saved for two teams until the week begins.
  `OneTeamPerPlayer` holds with `MayEmpty = FALSE`; TLC finds the violation with `TRUE`.

Free agents, trades and chats:

* `add_player` deletes the row object it had loaded. A refresh that replaces the rows
  while Sleeper answers leaves the new row of the dropped player in place; a refresh
  that has already saved the added player makes the commit fail although Sleeper did it.
  An answer that comes late can leave a player on two saved teams. The next refresh
  repairs all three (`BooksCatchUp`).
* When the answer is lost the request says it failed, though it took effect; a second
  try is a second offer.
* An offer pending for longer than a refresh looks back stays pending in the database
  for ever (`BooksCatchUp` speaks of the window), and the "pending" that a slow offer
  saves may overwrite a newer status until the next refresh.
* A group of the manager, a leaguemate and a stranger is listed as the leaguemate's
  direct chat and then refused when it is opened.
* Two first messages to the same manager at once may open two threads.

Pages and caches:

* A refresh reads Sleeper's plain totals, not a commissioner's corrections, and makes 0 of a
  missing one (`mappers.py:190`), although `_live_total` says "a missing value never turns into
  a fake 0.0" (`league_context.py:155`) and keeps the score there is - the one the refresh has
  made 0. So a page may show less than the one before it. `TotalsAreReal` counts every total
  from 0 up to the team's own: it says that none is another week's, another team's or made up;
  `ScoresCatchUp` says that Sleeper's comes back.
* A status can go back when a saved lineup changes or the scoreboard cannot be read.
* "Available players excludes rostered" (`tests/test_integration_flow.py:111`), but from
  Tuesday on pages look for rows of the week to come, and `add_player` saves one of the
  league's week only (`sleeper_writes.py:742`): a player just added is offered again until the
  next refresh. `OffersSettle` says that this ends.
* `available_players` has no fallback to the league's own week for a week without rows, where
  the lineups have one. `OffersSettle` is about leagues whose matchups of the next week name
  their players; where Sleeper names none, nothing brings rows of that week.
* A failed fetch of weekly statistics or prop lines is saved as an empty answer and served
  for a lifetime; a board in memory that has more than its file is given up for the file
  (`FailureTakesNothing` leaves the three out).
* "A failed fetch keeps the last good file" (`espn.py:3`) is true of a fetch that brings
  nothing; a board in which one weekly call failed replaces a file that had every week.
* A catalogue read from disk is stamped with the time it was read, and so are
  projections: up to twice the time to live, not once. The prop lines read the clock
  before they wait for the lock.
* An injury entry without a date replaces whatever came before it.

Unattended and assisted:

* A message that arrives while the reply to an earlier one is composed counts as
  answered; a manager who is unchecked while the model composes still gets that reply.
* A user's own move after the plan may put a healthy starter where a planned move
  displaces him (`OnlySubsLoseTheirSlot` speaks of what did not change since).
* A proposal carries no expected occupant: approved after the lineup has changed, it
  puts out whoever sits there then, although the page says "Start ... over ... at ..."
  (`lineup-approval.ts:28`): of two replacements shown for one slot, the second, approved after
  the first, puts out the first. `OnlyWhatWasDecided` says that it puts out nobody besides.
* A lineup tool counts as used once it has returned (`ai/tools/base.py:131`). After a
  `change_lineup` that Sleeper took and whose answer was lost, the chat reads swaps from its
  prose against the team of before (`ai/service.py:163`) and shows a move over a starter who
  no longer sits there. `ProposalsFitTheLineup` leaves this case out; approved, such a move is
  one of the outdated moves above.
* The options of "sub X"
  include taxi players and starters whose game is on, and Sleeper's or the move's refusal
  ends them.
* The writes of one chat are compared with the scoreboard of its first context, as a sweep's
  with that of its plan.
* A suspended starter is replaced by the notes and alerted but is no lineup issue; an
  inactive one without an injury label is replaced without an alert.
* "Roster full" counts the IR, while open spots do not; a player without an NFL team
  counts as healthy depth and is a drop candidate all the same.

Accounts:

* Register, connect, import and demo requests that overlap fail at the unique key
  with a server error, instead of finding the row that won.
* A first import that fails after its first commit leaves a bare league row, which
  `import_all_leagues` takes for imported: opening the league fills it, with the weeks a
  refresh reads only. One failing league stops the rest of that call.
* The limiter is one process's: a restart forgets every hit.

### Bounds

Every bound is a constant whose name starts with `Max`, or a length of time or set
given in the `.cfg`, and its use is in a guard.

* Writes: two slots, one open to two positions and one to all, three players, one
  IR place. `MCSleeperWrites` runs two scenarios. In `rivals` two writers and the app
  change one week at once, two requests and one app change: enough for any pair of
  overlapping writes and for a change between any two of their steps. In `turns` writes do
  not overlap, and meet kickoffs, app changes and refreshes from a lagging copy over two
  weeks, two such events at most. Both at once is beyond TLC; the proofs cover any
  number of writers, weeks and refreshes.
* Dealings: one request at a time beside a refresh, one rival, a stranger, three
  players, rosters of two, one offer, two changes at Sleeper, three weeks with a look
  back of one and a deadline after the first: a full and an open roster, a drop that frees a
  place, an offer that leaves the window. `DealingsProofs` covers any number of
  requests, offers and managers.
* Refresh: two requests and the background task (three actors for one lock, two
  of them queued), a mark that lasts two ticks, time from 2 to 5, three versions
  of the league.
* Sync: one sync and the refresh, two teams, three players, three weeks, a window
  one week back, two changes of Sleeper and one fault. A week can be before,
  at the edges of and beyond the window; one change may fall between any two reads
  and another between any two commits. `MayEmpty` is `FALSE`.
* Game day: two teams, three players (one free or on a bench) in two games, one of them with a
  bye in the first week, two weeks, one page at a time beside the refreshes, one point a week,
  one event (a correction up or down, points stuck at 0 or missing, a change of lineup, an add
  or drop in either place, a restart). An event falls at every step of a page and on either
  side of a Tuesday. Pages meet only in the saved points and the last scoreboard, and `shown`
  carries what an earlier page showed; two open pages at once are left to the proofs.
* Feeds: two readers, a season of two weeks, two teams, lifetimes of three and five ticks and
  nine ticks of time, so that every copy expires under a reader at least once; reports of up
  to two entries about two namesakes.
* Catalogue: two readers, a time to live of three ticks and calls of up to two,
  nine ticks: three lifetimes. `MaxWait < TTL` is an assumption; in the code a
  call takes about a minute and the time to live is a day.
* Chats: two managers, four messages, two faults: a reply, a crash before its
  commit, and a message before and after.
* Management: five players, two slots, one reserve place, three first rosters each of Sleeper
  and of the saved rows, nobody or one bench player already locked, two events: one change and
  one failure, or two changes, at any step of a sweep of up to two moves. `kickoff` allows one
  kickoff and nothing else, `taxi` no event at all.
* Assistant: four players of two positions and a free agent, a running back's slot and a
  flex, one IR place, a roster that a claim fills; two rounds of two calls, one request and
  one event. Every event can fall at every step of the request and of the approval that
  follows it. Injuries and moves give the rosters the notes and verdicts are checked on.
* Accounts: two people, two requests, two leagues of which an import-all takes one, one call
  per window of one tick, a table pruned above one key, one mishap.

`CHECK_DEADLOCK FALSE` is set where the bounds let a behaviour stop (no request,
message, event or tick is left), as the program may when nobody uses it; `dealings`,
`caches` and `accounts` are checked for deadlock too.

### Fairness

* `LiveLeague`: weak fairness of the background task's start and of each actor's
  step: the event loop runs what is ready, the asyncio lock is first in, first out.
* `LeagueSync`, `Dealings`, `GameDay`: weak fairness of each pull's, refresh's and page's
  next step, because every call has an HTTP timeout, and of the start of a refresh: a
  league somebody looks at, or that AI Management looks after, is refreshed again and
  again. `Dealings` also assumes that Sleeper's public cache expires.
* `Feeds` and `PlayerCatalogue`: none, their properties need none.
* `AutoReply`, `LineupManagement`: weak fairness of the sweep: `auto_reply_loop`
  sweeps again after every sweep, failed or not.
* `Assistant`: weak fairness of the model's steps and of a tool's error, both behind
  timeouts. `AdviceSettles` is about a manager who keeps reading the notes and following
  them, and assumes he does; nothing else assumes anything of him.
* `Accounts`: time goes on, requests are answered, and `EveryLeagueArrives` is about an owner
  who signs in, imports all and opens his leagues again and again.

Nothing is assumed of Sleeper's changes, of faults or of restarts.

## What is proved

Theorems hold for every value of the constants that satisfies the named assumption of
the module: any number of writers, requests, readers, managers, teams and weeks, any
lifetimes and bounds. Each is proved from an inductive invariant, which TLC has checked
on the run of its component as well; the table says which, and why the property alone is
not inductive. Two modules on one subject share a proof module where they can:
`CachesProofs` speaks of `Feeds` and of `PlayerCatalogue`, and `LineupProofs` of
`SleeperWrites`, `LineupManagement` and `Assistant`, whose moves are the same
`DesiredStarters`, `DesiredReserve` and `Placement` of `Roster`: what these return is
proved once.

| module | theorem | invariant and argument |
|---|---|---|
| `LineupProofs` | `TypeCorrect` | for `SleeperWrites`: `TypeOK` is inductive. The interesting part is that rows saved by a move, a lineup, a conflict or a refresh never seat two players in one slot; that needs lemmas on each way rows are built. |
| | `SeenListsHold` | `SeenInv`: for each phase, which of the lists the writer has read are still known, and that those agree with Sleeper. `known` must lose a list in every step by which somebody else changes it. |
| | `SleeperHasNoReasonToRefuse` | `PlanInv`: the wanted lists name each player once and keep starters off the IR (`Wanted`), and the list about to be sent does not clash with the other one as the earlier step left it (`Reached`). `Wanted` is what `move_player` and `set_lineup` compute, slot by slot; `Reached` is what makes the second push of a move safe. It speaks of one writer's record only, so nothing others do disturbs it. |
| | `PushMovesOnlyTheRequest` | `PlanInv` and `SeenInv`: whoever's place a push changes is in the difference between the rows and the wanted lists, which `Wanted` bounds by the player asked for and the one he displaces - provided that Sleeper still holds the lists read, which `SeenInv` says of a writer nobody interfered with |
| | `SavedRowsAreSleepers` | `PlanInv` and `SeenInv`: the rows a commit leaves stand for the lists the read-back confirmed |
| | `ManagementTypesHold` | for `LineupManagement`, with `SweepInv` below |
| | `PlansSubstitute` | no invariant but the types: `PlanFor`, what any plan is, from `SubsFor`, what the substitutes of the first slots are. One more slot keeps it (`WithSubFits`); that it holds after the last is a least-counterexample argument over the slots, since the moves are built by recursion. |
| | `StartedPlayersStay` | `SweepInv`: types, and that the move at hand is one of the plan's. `Placement` of the wanted lists reseats only players whom `Moved` names (`UnmovedStay`), whom `Sendable` has compared with `board`, the kickoffs the sweep read for its plan; whichever of its lists a move places, at Sleeper or in the rows, they stay (`WithStays`). It says nothing of a game that starts after that reading, and cannot: see `kickoff`. |
| | `OnlyStartersWhoCannotPlayLose` | `SweepInv`, whose `Pending` says of the moves left: nobody is moved twice and no slot filled twice; whoever is in a slot to be filled cannot play, or is in `changed`; whoever is to be moved is in a slot only if somebody put him there. The first clause keeps an earlier move of the plan from bringing a healthy player into a slot that a later one fills; the second must be kept by conflicts, which replace the rows under a plan by Sleeper's - they end it. |
| | `ProposalsFit` | for `Assistant`: `AssistantInv`. While nobody else changes the lineup, no other move is approved and no write of the chat loses its answer, the context its tools have cached and the team it started with are the lineup (`ChatFits`) - a write clears the one and makes the prose be ignored - and what tools have proposed so far fits (`PagesFit`). The notes of a page are of one age, of different slots and of players on the bench (`NotesFit`), so that following one leaves the others right; this comes from `Walked`, kept by every visit of `suggest_swaps`. Of the exceptions two are the code's own doing; see Limits of the code. |
| | `OnlyDecidedChanges` | `AssistantInv` and two lemmas: a move onto a roster its offer fits reseats the two it names and nobody else (`AfterMoveFits`), and on any roster it takes the slot of whoever else it reseats (`AfterMoveTakes`) |
| | `AppraisalsDoNotContradict` | `AssistantInv` and `WithinPlaces`: no more players are on IR or taxi than the league has places. `OpenSpots` counts the active players and `Full` all of them, so the first says nothing of the second without it; that it is kept is because `move_player` counts the IR first (`Legal`) and nothing else puts a player there. The rest holds of every roster: one player less costs a grade at most one step of depth (`StrongBearsALoss`), `pick_give` puts strong positions first (`OutOfAStrongPosition`), and one player projects what he projects (`OneProjected`). |
| | `EveryWriteIsOneStep` | joins `SleeperWrites` to `Assistant`. `AskedInv`: the lists a request wants are those `move_player` or `set_lineup` computed, for a player, place and slot it accepted, from the rows it read, and the lists it has left are the end of the order it chose. With `PlanInv` that fixes what every save can hold; what is left is that a move of two lists stopped after the first leaves its player on the bench and nobody else moved (`HalfIsAMove`), which is a legal write of its own. |
| | `EverySweepMoveIsOneStep` | the same of `LineupManagement`: `MoveApplied` and `MoveStops` are steps that `EveryWriteIsOneStep` allows, from the same rows and the kickoffs of the plan (`board`); from `SweepInv`, `OrderTells` and `HalfIsAMove` |
| `DealingsProofs` | `TypeCorrect` | what a request holds is one of seven shapes (`HeldShapes`), so that each of its steps finds the fields it needs |
| | `RowsStaySleepers` | `Kept`: everything a saved row can come from is in the history - Sleeper's rosters, the copy its public API still shows, what a refresh has read, an add that is done and not yet saved |
| | `MessagesArePrivate` | `Private`: a saved token is the account's own, and a request that opens, writes to or reads a thread has that token and the thread of two; from `_require_league_thread`, that a set of one leaguemate besides the manager is that thread |
| `LiveLeagueProofs` | `TypeCorrect`, `OnePullAtATime` | the pulling actors are exactly the holder of the lock |
| | `ImplementsSharedPull` | refinement: a pull is the holder's; needs that what an actor has read is 0 outside its pull, so that a hand-over of the lock maps to the end of one pull and, later, the start of another |
| | `SavedMovesForward` | what the holder has read is at least what is saved, because nobody else commits between its read and its commit |
| | `WritesFollowAPull` | `WriteInv`: the property itself and `PastInv`, that no pull has ended and nobody has called after the clock. A request may return on a mark somebody else set; a mark is set by a commit, by a failed attempt, or is the 0 of a process that has pulled nothing, and each is enough (`FreshIsEnough`). Without `PastInv` a pull of the future would excuse a stale write. |
| `LeagueSyncProofs` | `TypeCorrect` | what a commit leaves is built from a state of Sleeper the pull can have read |
| | `NobodyOnTwoTeams` | `Inv`: no lineup Sleeper ever showed lacks a team (assumed: `MayEmpty = FALSE`), so every pull replaces the rows of every team of a week by rows of one answer |
| `GameDayProofs` | `TotalsStayReal` | `DayInv`: what is saved and what a page holds are totals of their week (`SavedOK`, `LateOK`), and `Totals` of a week only grows, a correction in either direction included. A page keeps the week it asked for in its own record, so a week that turns between its read and its commit changes nothing. |
| | `StatusMovesOn` | `DayInv`: every status shown since the saved starters changed has a reason (`Earned`) - the week is over, the slate has started or is final, or a lineup has played, byes counted - and reasons do not go away: a board read earlier is only ever behind the games (`Behind`). Points are no reason of their own, since they may fall: that they begin after a kickoff (`PointsArePlayed`) is what makes one. A page that is still open must find the reason on the board it holds, hence the clauses on the way from `EarlyOK` to `LateOK`. |
| `CachesProofs` | `HandedOutIsFresh` | `FeedInv`. A stamp is the time of the download, except for projections, whose memory is stamped as it is read from the file (`Honest`): that is the second lifetime the property allows them. A reader's limit and the moment it entered bound what it takes from memory after waiting. |
| | `OneDownloadALifetime` | `FeedInv`: who downloads is the one who holds the lock (`LockHeld`), and the injury client's alarm goes off a lifetime after what it holds (`Alarm`); both are needed to see that a second reader finds the first one's copy (`Apart`) |
| | `FailedDownloadsTakeNothing` | from the types in `FeedInv`, step by step: what the board, the projections, the injury report and the live week do with a download that brings none of its parts |
| | `NoInventedByes` | a team without a game in a stored week is off in that week of the schedule, and a week whose call failed is not among those looked at |
| | `NewestEntryDecides` | for a report of any length, in any order, about any athletes, without bounds: after `n` entries the reports kept are those of each athlete's latest entry that counts (`LatestReports`), which one more entry keeps (`OneMoreEntry`); that it holds after the last is a least-counterexample argument over the length, since `Reports` is a recursive function. Athletes of one name are told apart by the set of those whose newest entry has it (`NamedSo`). |
| | `NewsOfInjuriesWins` | `NewestEntryDecides` for the reports a feed brings; from `FeedInv` only that the clock is a natural number |
| | `TypeCorrect`, `DownloadsOneByOne`, `DownloadsKeepApart` | the catalogue's: nothing is stamped in the future, the lock admits one download |
| | `NeverTwiceAsOld` | `Inv`: a catalogue in memory was downloaded at most one time to live before its stamp; the file's stamp is its download |
| `AutoReplyProofs` | `TypeCorrect` | with the order of ids along a chat |
| | `NobodyAnsweredTwice` | `Inv`: while a reply is pending, the message it answers is theirs, is newer than the last automatic reply, and everything after it is new. Needs the maximum of a bounded set of positions, by well-founded induction on the naturals. |
| | `HandledMessagesStayHandled` | `HandledInv`: the last message of theirs that was handled is the one the row names or is older than the row (`Covered`), for the rows saved and for the rows the sweep loaded, which may be older; the message a sweep works on is ahead of all that were handled in its chat (`AheadOfRecorded`), and no message is in two chats (`ChatsApart`) |
| `AccountsProofs` | `NothingSavedTwice` | `Tables`: addresses are stored in lower case, every league row belongs to an account there is - so the account a demo league comes with has none yet - and no request loses the account it works for |
| | `LimitHolds` | `LimiterInv`: what the table holds of a key is in the order it was let through and is, but for calls too old to count, all that was let through - the history cut by `Recent`. That pruning another key's calls and dropping a key keep this is the point: a key is dropped only when its last call is too old. |

Assumptions a theorem rests on, all named in the modules: `FreshSeconds` and the limiter's
window and limit are positive, `MaxWait < TTL` for the catalogue, `MayEmpty = FALSE` for
`NobodyOnTwoTeams`, and for `LineupManagement` that there are finitely many players, no two
of whom rank alike (the code's sort is stable, so ties have an order too) - as for
`Assistant` no two rows of a roster have one place in its order; there players are finitely
many too, and no first roster has more on IR or taxi than the league has places. `GameDay`
takes the byes and the games of each player as known and the season's.

Out of the prover's reach and left to TLC:

* liveness under fairness and `ENABLED`: `EveryCallReturns`, `BooksCatchUp`, `SavedCatchesUp`,
  `StatusSettles`, `ScoresCatchUp`, `WaitingIsHandled`, `PlanIsCarriedOut`,
  `EveryRequestIsAnswered`, `AdviceSettles`, `EveryLeagueArrives`, `OffersSettle`.

Every other property of the passing runs is stated by a theorem.

`AppraisalsAgree` speaks of trades between positions in use (`Listed`), and the proof needs
it: `compute_roster_needs` grades every position but lists only those a slot asks for or
somebody active plays (`used`), while `deterministic_trade` goes by every grade. In a league
with flex slots only, a wide receiver offered to a roster without one counts as help at a
thin position that no page calls thin.

## What is not modelled

* The injury labels `NA` and `Probable`: among players who can play, each label of `Advice`
  weighs as much as Questionable, these two do not.
* Tools of one round that interleave (`ai/agent.py:53`), and their use of one database session.
* Texts, prompts, formatting, payload mapping, scoring arithmetic and layout. In the
  assistant, the prose of an answer is whatever it may say, its effect on proposals is not.
* Projections from odds, lines and shares (`vegas*.py`, `market.py`, rankings): floating-point
  arithmetic and file parsers without state or order. `team_compare` and `briefing` sum and
  word what the modelled advice says.
* Cryptography, cookies, SQL and HTTP themselves: a call succeeds, fails, or
  succeeds without its answer arriving; a unique key accepts or refuses.
* The rows of a second league in one sweep or session: `auto_reply.py:226` rolls back the
  session of all leagues after one failed. It is under the hazards, with the reason.
* A second Sleeper account of one user, and two users' leagues side by side: ownership is a
  join every route makes (`Owned`), and only one owner's requests are enumerated.
* Player search, sheets, standings and rankings of `league_context.py`: joins of saved rows
  that keep nothing.
* The frontend, but for the proposals it holds (`Assistant`).

## Plan

Done, in the order of what a failure would cost: writes (`Roster`, `SleeperWrites`),
the refresh they depend on (`SharedPull`, `LiveLeague`), the sync beside it
(`LeagueSync`), the unattended actors (`AutoReply`, `LineupManagement`), the caches
(`PlayerCatalogue`, `Feeds`, `InjuryReport`), what is done with others (`Dealings`), what is
shown on game day (`GameDay`), what is advised and approved (`Advice`, `Appraisal`,
`Assistant`), and the way in (`Accounts`).

Left, in the order of what they would add:

1. The sweep over several leagues with one session.
2. A full refinement of `Assistant` by `SleeperWrites`, requests that overlap included: what is
   proved is that each save of a request is a step of `Assistant` taken on what it had read.
