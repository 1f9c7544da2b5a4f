----------------------------- MODULE LeagueSync -----------------------------
(***************************************************************************)
(* services/sync_service.py: how one league is imported, synced by hand    *)
(* and refreshed. A pull reads the league's week first, then everything    *)
(* else in parallel, then replaces the saved rows in one transaction.      *)
(* live_league lets one refresh run at a time (LiveLeague); imports and    *)
(* POST /sync do not take its lock, and GET dependencies start a refresh   *)
(* beside them. Sleeper changes between any two reads.                     *)
(***************************************************************************)
EXTENDS Integers, Sequences

CONSTANTS
    Players, Teams,
    NoTeam,     \* of a player nobody has
    Syncs,      \* requests that import the league or sync it by hand
    Refresh,    \* the one refresh that holds the lock of live_league
    LastWeek,   \* the last week of a season, 18 in the code
    WeeksBack,  \* how far a refresh looks back, 3 in the code
    InitOwner,  \* the teams' players at the start
    MayEmpty,   \* may a team lose its last player
    Faults,     \* which of FaultKinds may happen
    MaxChanges, \* bound: changes on Sleeper
    MaxFaults   \* bound: faults in a behaviour

FaultKinds ==
    {"pullFails", \* a call to Sleeper, or the transaction, raises
     "restart"}   \* the process is restarted

Owners == [Players -> Teams \cup {NoTeam}]

ASSUME LeagueSyncAssumption ==
    /\ NoTeam \notin Teams
    /\ Refresh \notin Syncs
    /\ LastWeek \in Nat /\ LastWeek > 0
    /\ WeeksBack \in Nat
    /\ InitOwner \in Owners
    /\ \A t \in Teams : \E p \in Players : InitOwner[p] = t
    /\ MayEmpty \in BOOLEAN
    /\ Faults \subseteq FaultKinds
    /\ MaxChanges \in Nat /\ MaxFaults \in Nat

Pulls == Syncs \cup {Refresh}
Weeks == 1 .. LastWeek

VARIABLES
    log,     \* Sleeper: its states so far, the last one is now
    league,  \* the league's row
    rows,    \* roster_entries per week
    offer,   \* the status of the offer's row in transactions
    pull,    \* the local variables of each pull
    changes, faults

saved == <<league, rows, offer>>
vars == <<log, saved, pull, changes, faults>>

Statuses == {"idle", "syncing", "success", "error"}
OfferStatuses == {"none", "pending", "complete"}
Rows == Teams \X Players \X {"IR", "other"}

\* The league's week (settings.leg), who has each player, the players on injured
\* reserve, the lineups of the weeks that are over, and one trade offer.
SleeperStates ==
    [week : Weeks, owner : Owners, reserve : SUBSET Players, past : [Weeks -> Owners],
     trade : [status : OfferStatuses, leg : Weeks]]

\* loadedWeek and loadedStatus are the league's row as the session loaded it,
\* from the state of Sleeper in which the league was read, week what it said.
Phases == {"idle", "details", "loaded", "league", "reading"}
PullStates ==
    [phase : Phases,
     loadedWeek : Weeks, loadedStatus : Statuses, from : Nat, week : Weeks]

Idle == [phase |-> "idle", loadedWeek |-> 1, loadedStatus |-> "idle", from |-> 0, week |-> 1]

Now == log[Len(log)]

Init ==
    /\ log = <<[week |-> 1, owner |-> InitOwner, reserve |-> {},
                past |-> [w \in Weeks |-> InitOwner],
                trade |-> [status |-> "none", leg |-> 1]]>>
    /\ league = [exists |-> FALSE, week |-> 1, status |-> "idle"]
    /\ rows = [w \in Weeks |-> {}]
    /\ offer = "none"
    /\ pull = [a \in Pulls |-> Idle]
    /\ changes = 0 /\ faults = 0

-----------------------------------------------------------------------------
(* What a pull asks Sleeper for. *)

\* The lineups Sleeper shows for a week; those to come are the current ones.
Lineup(s, w) == IF w < s.week THEN s.past[w] ELSE s.owner

\* weeks_back and weeks_forward: a sync takes the whole season.
MatchupWeeks(a, w) ==
    {v \in Weeks : a = Refresh => v >= w - WeeksBack /\ v <= w + 1}

TxWeeks(a, w) == {v \in Weeks : v <= w /\ (a = Refresh => v >= w - WeeksBack)}

\* map_roster and map_matchup: a roster carries its reserve list, the lineup
\* of another week does not.
RowsOf(owner, reserve) ==
    {r \in Rows : /\ owner[r[2]] = r[1]
                  /\ r[3] = IF r[2] \in reserve THEN "IR" ELSE "other"}

TeamsIn(new) == {r[1] : r \in new}

\* Mutant: the old rows are not deleted first.
AddedForTeams(old, teams, new) == old \cup new

\* RosterRepository.replace_for_team, for each of the teams.
ReplacedForTeams(old, teams, new) == {r \in old : r[1] \notin teams} \cup new

\* An attribute set to what the session loaded is not written.
NetChange(stored, loadedValue, value) == IF value = loadedValue THEN stored ELSE value

-----------------------------------------------------------------------------
(* Imports, syncs and refreshes. *)

\* The request loads the league's row, or finds that there is none.
Request(a) ==
    /\ pull[a].phase = "idle"
    /\ pull' = [pull EXCEPT ![a] =
          IF league.exists
          THEN [@ EXCEPT !.phase = "loaded", !.loadedWeek = league.week,
                         !.loadedStatus = league.status]
          ELSE [@ EXCEPT !.phase = "details"]]
    /\ UNCHANGED <<log, saved, changes, faults>>

\* import_league without a row: get_league has answered, the row is inserted.
\* Another import may have inserted it meanwhile (uq_league_identity).
Create(a) ==
    /\ pull[a].phase = "details"
    /\ \/ /\ ~league.exists
          /\ league' = [exists |-> TRUE, week |-> Now.week, status |-> "syncing"]
          /\ pull' = [pull EXCEPT ![a] = [@ EXCEPT
                !.phase = "league", !.loadedWeek = Now.week, !.loadedStatus = "syncing"]]
       \/ /\ league.exists
          /\ pull' = [pull EXCEPT ![a] = Idle]
          /\ UNCHANGED league
    /\ UNCHANGED <<log, rows, offer, changes, faults>>

\* sync_league up to its first commit.
MarkSyncing(a) ==
    /\ pull[a].phase = "loaded"
    /\ league' = [league EXCEPT !.status = NetChange(@, pull[a].loadedStatus, "syncing")]
    /\ pull' = [pull EXCEPT ![a] = [@ EXCEPT !.phase = "league", !.loadedStatus = "syncing"]]
    /\ UNCHANGED <<log, rows, offer, changes, faults>>

\* live_league loads the league in a session of its own.
StartRefresh ==
    /\ pull[Refresh].phase = "idle" /\ league.exists
    /\ pull' = [pull EXCEPT ![Refresh] = [@ EXCEPT
          !.phase = "league", !.loadedWeek = league.week, !.loadedStatus = league.status]]
    /\ UNCHANGED <<log, saved, changes, faults>>

\* fetch_league_snapshot: the league comes first, its week decides the rest.
ReadLeague(a) ==
    /\ pull[a].phase = "league"
    /\ pull' = [pull EXCEPT ![a] = [@ EXCEPT
          !.phase = "reading", !.week = Now.week, !.from = Len(log)]]
    /\ UNCHANGED <<log, saved, changes, faults>>

\* Mutant: a week that already has rows keeps them.
AppliedOnce(a, w, s) ==
    IF rows[w] # {} THEN rows[w]
    ELSE IF w = pull[a].week THEN RowsOf(s.owner, s.reserve)
    ELSE RowsOf(Lineup(s, w), {})

\* What apply_snapshot leaves in the rows of a week, when s is Sleeper as it
\* answered for that week: of the league's current week the rosters, of every
\* team; of another week the lineups, of the teams that have one.
Applied(a, w, s) ==
    LET coming == RowsOf(Lineup(s, w), {})
    IN  IF w = pull[a].week
        THEN ReplacedForTeams(rows[w], Teams, RowsOf(s.owner, s.reserve))
        ELSE IF w \in MatchupWeeks(a, pull[a].week)
        THEN ReplacedForTeams(rows[w], TeamsIn(coming), coming)
        ELSE rows[w]

\* The offer is in the answer when it belongs to a week that is asked for, and
\* is upserted; otherwise its row stays.
AppliedOffer(a, s) ==
    IF s.trade.status # "none" /\ s.trade.leg \in TxWeeks(a, pull[a].week)
    THEN s.trade.status ELSE offer

\* Mutant: a refresh leaves the status alone.
FinalStatusOfSyncs(a) == IF a = Refresh THEN pull[a].loadedStatus ELSE "success"

\* The status sync_league and refresh_live set at the end.
FinalStatus(a) == "success"

\* After the league, everything is asked for in parallel: each answer is Sleeper
\* as it was at some moment since, and the answers need not agree.
Answered(a) == pull[a].from .. Len(log)

\* The transaction of a pull that has read everything, up to its commit.
Commit(a) ==
    /\ pull[a].phase = "reading"
    /\ league' = [league EXCEPT
          !.week = NetChange(@, pull[a].loadedWeek, pull[a].week),
          !.status = NetChange(@, pull[a].loadedStatus, FinalStatus(a))]
    /\ \E at \in [Weeks -> Answered(a)] : rows' = [w \in Weeks |-> Applied(a, w, log[at[w]])]
    /\ \E i \in Answered(a) : offer' = AppliedOffer(a, log[i])
    /\ pull' = [pull EXCEPT ![a] = Idle]
    /\ UNCHANGED <<log, changes, faults>>

\* The pull raises. A sync records it, a refresh swallows it, an import that
\* has no row yet leaves none.
Fail(a) ==
    /\ "pullFails" \in Faults /\ faults < MaxFaults
    /\ pull[a].phase \in {"details", "league", "reading"}
    /\ league' = IF a = Refresh \/ pull[a].phase = "details" THEN league
                 ELSE [league EXCEPT !.status = "error"]
    /\ pull' = [pull EXCEPT ![a] = Idle]
    /\ faults' = faults + 1
    /\ UNCHANGED <<log, rows, offer, changes>>

Restart ==
    /\ "restart" \in Faults /\ faults < MaxFaults
    /\ pull' = [a \in Pulls |-> Idle]
    /\ faults' = faults + 1
    /\ UNCHANGED <<log, saved, changes>>

-----------------------------------------------------------------------------
(* Sleeper. *)

SleeperBecomes(state) ==
    /\ changes < MaxChanges
    /\ changes' = changes + 1
    /\ log' = Append(log, state)
    /\ UNCHANGED <<saved, pull, faults>>

\* A player is added, dropped or traded.
Moves(p, t) ==
    /\ Now.owner[p] # t
    /\ \/ MayEmpty
       \/ Now.owner[p] = NoTeam
       \/ \E q \in Players \ {p} : Now.owner[q] = Now.owner[p]
    /\ SleeperBecomes([Now EXCEPT !.owner[p] = t, !.reserve = @ \ {p}])

GoesOnReserve(p) ==
    /\ Now.owner[p] # NoTeam /\ p \notin Now.reserve
    /\ SleeperBecomes([Now EXCEPT !.reserve = @ \cup {p}])

WeekEnds ==
    /\ Now.week < LastWeek
    /\ SleeperBecomes([Now EXCEPT !.past[Now.week] = Now.owner, !.week = @ + 1])

TradeChanges ==
    \/ /\ Now.trade.status = "none"
       /\ SleeperBecomes([Now EXCEPT !.trade = [status |-> "pending", leg |-> Now.week]])
    \/ /\ Now.trade.status = "pending"
       /\ SleeperBecomes([Now EXCEPT !.trade.status = "complete"])

Step(a) == MarkSyncing(a) \/ Create(a) \/ ReadLeague(a) \/ Commit(a)

Next ==
    \/ \E s \in Syncs : Request(s)
    \/ StartRefresh
    \/ \E a \in Pulls : Step(a) \/ Fail(a)
    \/ Restart
    \/ \E p \in Players, t \in Teams \cup {NoTeam} : Moves(p, t)
    \/ \E p \in Players : GoesOnReserve(p)
    \/ WeekEnds
    \/ TradeChanges

Spec == Init /\ [][Next]_vars

\* Every call has a timeout, so a pull goes on; a league somebody looks at, or
\* that is managed, is refreshed again and again.
FairSpec ==
    /\ Spec
    /\ \A a \in Pulls : WF_vars(Step(a))
    /\ WF_vars(StartRefresh)

-----------------------------------------------------------------------------
(* Properties. *)

\* Saved rows are rows of the league, and a pull that reads has begun in a state
\* Sleeper was in.
TypeOK ==
    /\ log \in Seq(SleeperStates) /\ log # <<>>
    /\ league \in [exists : BOOLEAN, week : Weeks, status : Statuses]
    /\ rows \in [Weeks -> SUBSET Rows]
    /\ offer \in OfferStatuses
    /\ pull \in [Pulls -> PullStates]
    /\ \A a \in Pulls : pull[a].phase = "reading" => pull[a].from \in 1 .. Len(log)

\* In no week is a player saved for two teams or twice, whichever pulls
\* overlap, overtake each other or read Sleeper in the middle of a trade:
\* find_player and the free agent list take the first row they find.
OneTeamPerPlayer ==
    \A w \in Weeks : \A r, s \in rows[w] : r[2] = s[2] => r = s

\* What the rows of a week are when they are Sleeper's.
SleeperRows(w) ==
    IF w = Now.week THEN RowsOf(Now.owner, Now.reserve) ELSE RowsOf(Lineup(Now, w), {})

\* The weeks a refresh covers, and the offer, are Sleeper's.
MatchesSleeper ==
    /\ \A w \in Weeks : w \in Now.week - WeeksBack .. Now.week + 1 => rows[w] = SleeperRows(w)
    /\ Now.trade.leg \in Now.week - WeeksBack .. Now.week => offer = Now.trade.status

\* When Sleeper stops changing, the saved league becomes Sleeper's and stays
\* so, although a sync that read earlier may commit over a newer refresh.
SavedCatchesUp ==
    <>[](league.exists => league.week = Now.week /\ MatchesSleeper)

\* A league does not say for ever that it is syncing, or that its last sync
\* failed: the next refresh that succeeds clears both, after a restart too.
StatusSettles ==
    (league.status \in {"syncing", "error"}) ~> (league.status = "success")
=============================================================================
