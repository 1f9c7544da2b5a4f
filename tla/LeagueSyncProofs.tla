-------------------------- MODULE LeagueSyncProofs --------------------------
(***************************************************************************)
(* Proofs about LeagueSync for any players, teams, season, syncs and       *)
(* faults: types, and that no week has a player on two teams as long as    *)
(* every team keeps somebody.                                              *)
(***************************************************************************)
EXTENDS LeagueSync, TLAPS

-----------------------------------------------------------------------------
(* Rows.                                                                   *)

\* Rows built from one answer are rows, and have a player once.
LEMMA RowsOfOnce ==
    ASSUME NEW owner, NEW reserve
    PROVE  /\ RowsOf(owner, reserve) \in SUBSET Rows
           /\ \A r, s \in RowsOf(owner, reserve) : r[2] = s[2] => r = s
<1>1. RowsOf(owner, reserve) \in SUBSET Rows
  BY DEF RowsOf
<1>2. ASSUME NEW r \in RowsOf(owner, reserve), NEW s \in RowsOf(owner, reserve), r[2] = s[2]
      PROVE  r = s
  <2>1. r \in Teams \X Players \X {"IR", "other"} /\ s \in Teams \X Players \X {"IR", "other"}
    BY DEF RowsOf, Rows
  <2>2. r[1] = s[1] /\ r[3] = s[3]
    BY <1>2 DEF RowsOf
  <2>3. r = <<r[1], r[2], r[3]>> /\ s = <<s[1], s[2], s[3]>>
    BY <2>1
  <2> QED BY <1>2, <2>2, <2>3
<1> QED BY <1>1, <1>2

\* Every team has somebody.
Full(owner) == \A t \in Teams : \E p \in Players : owner[p] = t

LEMMA FullNamesAll ==
    ASSUME NEW owner, NEW reserve, Full(owner)
    PROVE  TeamsIn(RowsOf(owner, reserve)) = Teams
<1>1. ASSUME NEW t \in Teams PROVE t \in TeamsIn(RowsOf(owner, reserve))
  <2>1. PICK p \in Players : owner[p] = t
    BY DEF Full
  <2> DEFINE r == <<t, p, IF p \in reserve THEN "IR" ELSE "other">>
  <2>2. r \in RowsOf(owner, reserve) /\ r[1] = t
    BY <2>1 DEF RowsOf, Rows
  <2> QED BY <2>2 DEF TeamsIn
<1>2. ASSUME NEW t \in TeamsIn(RowsOf(owner, reserve)) PROVE t \in Teams
  BY <1>2 DEF TeamsIn, RowsOf, Rows
<1> QED BY <1>1, <1>2

LEMMA ReplacedIsRows ==
    ASSUME NEW old \in SUBSET Rows, NEW new \in SUBSET Rows, NEW teams
    PROVE  ReplacedForTeams(old, teams, new) \in SUBSET Rows
  BY DEF ReplacedForTeams

\* When every team is replaced, nothing old is left.
LEMMA ReplacedForAll ==
    ASSUME NEW old \in SUBSET Rows, NEW new
    PROVE  ReplacedForTeams(old, Teams, new) = new
<1>1. \A r \in old : r[1] \in Teams
  BY DEF Rows
<1> QED BY <1>1 DEF ReplacedForTeams

-----------------------------------------------------------------------------
(* Types.                                                                  *)

PullsTyped ==
    /\ pull \in [Pulls -> PullStates]
    /\ \A a \in Pulls : pull[a].phase = "reading" => pull[a].from \in 1 .. Len(log)

LEMMA IdleType == Idle \in PullStates /\ Idle.phase # "reading"
  BY LeagueSyncAssumption DEF Idle, PullStates, Phases, Weeks, Statuses

\* A pull that has loaded the league's row.
LEMMA LoadedType ==
    ASSUME NEW r \in PullStates, NEW ph \in Phases, NEW w \in Weeks, NEW st \in Statuses
    PROVE  [r EXCEPT !.phase = ph, !.loadedWeek = w, !.loadedStatus = st] \in PullStates
  BY DEF PullStates

LEMMA PhaseType ==
    ASSUME NEW r \in PullStates, NEW ph \in Phases
    PROVE  [r EXCEPT !.phase = ph] \in PullStates
  BY DEF PullStates

LEMMA SyncingType ==
    ASSUME NEW r \in PullStates, NEW ph \in Phases, NEW st \in Statuses
    PROVE  [r EXCEPT !.phase = ph, !.loadedStatus = st] \in PullStates
  BY DEF PullStates

LEMMA ReadingType ==
    ASSUME NEW r \in PullStates, NEW ph \in Phases, NEW w \in Weeks, NEW n \in Nat
    PROVE  [r EXCEPT !.phase = ph, !.week = w, !.from = n] \in PullStates
  BY DEF PullStates

\* One pull changes, Sleeper does not.
LEMMA OnePullChanges ==
    ASSUME PullsTyped, NEW a \in Pulls, NEW r \in PullStates,
           r.phase = "reading" => r.from \in 1 .. Len(log),
           pull' = [pull EXCEPT ![a] = r], log' = log
    PROVE  PullsTyped'
<1>1. pull' \in [Pulls -> PullStates]
  BY DEF PullsTyped
<1>2. ASSUME NEW b \in Pulls, pull'[b].phase = "reading"
      PROVE  pull'[b].from \in 1 .. Len(log')
  <2>1. CASE b = a
    BY <1>2, <2>1 DEF PullsTyped
  <2>2. CASE b # a
    BY <1>2, <2>2 DEF PullsTyped
  <2> QED BY <2>1, <2>2
<1> QED BY <1>1, <1>2 DEF PullsTyped

LEMMA NowType == TypeOK => Now \in SleeperStates /\ Len(log) \in Nat \ {0}
<1> SUFFICES ASSUME TypeOK PROVE Now \in SleeperStates /\ Len(log) \in Nat \ {0}
  OBVIOUS
<1>1. log \in Seq(SleeperStates) /\ log # <<>>
  BY DEF TypeOK
<1>2. Len(log) \in Nat \ {0}
  BY <1>1
<1>3. log[Len(log)] \in SleeperStates
  BY <1>1, <1>2
<1> QED BY <1>2, <1>3 DEF Now

\* Sleeper changes while pulls go on.
LEMMA SleeperChanges ==
    ASSUME TypeOK, NEW s \in SleeperStates, SleeperBecomes(s)
    PROVE  TypeOK'
<1>1. log' = Append(log, s) /\ UNCHANGED <<league, rows, offer, pull>>
  BY DEF SleeperBecomes, saved
<1>2. log \in Seq(SleeperStates)
  BY DEF TypeOK
<1>3. Append(log, s) \in Seq(SleeperStates) /\ Append(log, s) # <<>>
      /\ Len(Append(log, s)) = Len(log) + 1 /\ Len(log) \in Nat
  BY <1>2
<1>4. \A a \in Pulls : pull'[a].phase = "reading" => pull'[a].from \in 1 .. Len(log')
  BY <1>1, <1>3 DEF TypeOK
<1> QED BY <1>1, <1>3, <1>4 DEF TypeOK

LEMMA AppliedType ==
    ASSUME TypeOK, NEW a \in Pulls, NEW w \in Weeks, NEW s
    PROVE  Applied(a, w, s) \in SUBSET Rows
<1> DEFINE coming == RowsOf(Lineup(s, w), {})
<1>1. rows[w] \in SUBSET Rows /\ coming \in SUBSET Rows
      /\ RowsOf(s.owner, s.reserve) \in SUBSET Rows
  BY RowsOfOnce DEF TypeOK
<1>2. /\ ReplacedForTeams(rows[w], Teams, RowsOf(s.owner, s.reserve)) \in SUBSET Rows
      /\ ReplacedForTeams(rows[w], TeamsIn(coming), coming) \in SUBSET Rows
  BY <1>1, ReplacedIsRows
<1>3. \/ Applied(a, w, s) = ReplacedForTeams(rows[w], Teams, RowsOf(s.owner, s.reserve))
      \/ Applied(a, w, s) = ReplacedForTeams(rows[w], TeamsIn(coming), coming)
      \/ Applied(a, w, s) = rows[w]
  BY DEF Applied
<1> QED BY <1>1, <1>2, <1>3

LEMMA CommitType ==
    ASSUME TypeOK, NEW a \in Pulls, Commit(a)
    PROVE  TypeOK'
<1>1. league' \in [exists : BOOLEAN, week : Weeks, status : Statuses]
  <2>1. pull[a] \in PullStates
    BY DEF TypeOK
  <2>2. NetChange(league.week, pull[a].loadedWeek, pull[a].week) \in Weeks
    BY <2>1 DEF NetChange, TypeOK, PullStates
  <2>3. NetChange(league.status, pull[a].loadedStatus, FinalStatus(a)) \in Statuses
    BY <2>1 DEF NetChange, FinalStatus, TypeOK, Statuses
  <2>4. league' = [league EXCEPT
              !.week = NetChange(league.week, pull[a].loadedWeek, pull[a].week),
              !.status = NetChange(league.status, pull[a].loadedStatus, FinalStatus(a))]
    BY DEF Commit, TypeOK
  <2> QED BY <2>2, <2>3, <2>4 DEF TypeOK
<1>2. rows' \in [Weeks -> SUBSET Rows]
  <2>1. PICK at \in [Weeks -> Answered(a)] :
            rows' = [w \in Weeks |-> Applied(a, w, log[at[w]])]
    BY DEF Commit
  <2> QED BY <2>1, AppliedType
<1>3. offer' \in OfferStatuses
  <2>1. PICK i \in Answered(a) : offer' = AppliedOffer(a, log[i])
    BY DEF Commit
  <2>2. log[i] \in SleeperStates
    BY DEF Commit, Answered, TypeOK
  <2> QED BY <2>1, <2>2 DEF AppliedOffer, SleeperStates, TypeOK
<1>4. PullsTyped'
  BY IdleType, OnePullChanges DEF Commit, TypeOK, PullsTyped
<1>5. log' = log
  BY DEF Commit
<1> QED BY <1>1, <1>2, <1>3, <1>4, <1>5 DEF TypeOK, PullsTyped

LEMMA InitType == Init => TypeOK
<1> SUFFICES ASSUME Init PROVE TypeOK
  OBVIOUS
<1> DEFINE first == [week |-> 1, owner |-> InitOwner, reserve |-> {},
                     past |-> [w \in Weeks |-> InitOwner],
                     trade |-> [status |-> "none", leg |-> 1]]
<1>1. 1 \in Weeks
  BY LeagueSyncAssumption DEF Weeks
<1>2. first \in SleeperStates
  BY <1>1, LeagueSyncAssumption DEF SleeperStates, OfferStatuses
<1>3. <<first>> \in Seq(SleeperStates) /\ <<first>> # <<>>
  BY <1>2
<1>4. log = <<first>>
  BY DEF Init
<1>5. pull = [a \in Pulls |-> Idle]
  BY DEF Init
<1>6. pull \in [Pulls -> PullStates] /\ \A a \in Pulls : pull[a].phase # "reading"
  BY <1>5, IdleType
<1>7. league \in [exists : BOOLEAN, week : Weeks, status : Statuses]
  BY <1>1 DEF Init, Statuses
<1> QED BY <1>3, <1>4, <1>6, <1>7 DEF Init, TypeOK, OfferStatuses

\* What Sleeper can become is a state of Sleeper.
LEMMA NextStates ==
    ASSUME NEW s \in SleeperStates
    PROVE  /\ \A p \in Players, t \in Teams \cup {NoTeam} :
                 [s EXCEPT !.owner[p] = t, !.reserve = @ \ {p}] \in SleeperStates
           /\ \A p \in Players : [s EXCEPT !.reserve = @ \cup {p}] \in SleeperStates
           /\ s.week < LastWeek =>
                 [s EXCEPT !.past[s.week] = s.owner, !.week = @ + 1] \in SleeperStates
           /\ [s EXCEPT !.trade = [status |-> "pending", leg |-> s.week]] \in SleeperStates
           /\ [s EXCEPT !.trade.status = "complete"] \in SleeperStates
<1>1. ASSUME NEW p \in Players, NEW t \in Teams \cup {NoTeam}
      PROVE  [s EXCEPT !.owner[p] = t, !.reserve = @ \ {p}] \in SleeperStates
  BY DEF SleeperStates, Owners
<1>2. ASSUME NEW p \in Players PROVE [s EXCEPT !.reserve = @ \cup {p}] \in SleeperStates
  BY DEF SleeperStates
<1>3. ASSUME s.week < LastWeek
      PROVE  [s EXCEPT !.past[s.week] = s.owner, !.week = @ + 1] \in SleeperStates
  <2>1. s.week + 1 \in Weeks
    BY <1>3, LeagueSyncAssumption DEF SleeperStates, Weeks
  <2> QED BY <2>1 DEF SleeperStates
<1>4. [s EXCEPT !.trade = [status |-> "pending", leg |-> s.week]] \in SleeperStates
  BY DEF SleeperStates, OfferStatuses
<1>5. [s EXCEPT !.trade.status = "complete"] \in SleeperStates
  BY DEF SleeperStates, OfferStatuses
<1> QED BY <1>1, <1>2, <1>3, <1>4, <1>5

LEMMA NextType == TypeOK /\ [Next]_vars => TypeOK'
<1> SUFFICES ASSUME TypeOK, [Next]_vars PROVE TypeOK'
  OBVIOUS
<1> USE DEF saved
<1>0. /\ Now \in SleeperStates /\ Len(log) \in Nat \ {0}
      /\ PullsTyped /\ Refresh \in Pulls /\ Syncs \subseteq Pulls
  BY NowType DEF TypeOK, PullsTyped, Pulls
<1>1. ASSUME NEW a \in Syncs, Request(a) PROVE TypeOK'
  <2>1. pull[a] \in PullStates /\ league.week \in Weeks /\ league.status \in Statuses
    BY <1>0 DEF TypeOK
  <2>2. [pull[a] EXCEPT !.phase = "loaded", !.loadedWeek = league.week,
                        !.loadedStatus = league.status] \in PullStates
    BY <2>1, LoadedType DEF Phases
  <2>3. [pull[a] EXCEPT !.phase = "details"] \in PullStates
    BY <2>1, PhaseType DEF Phases
  <2> DEFINE r == IF league.exists
                  THEN [pull[a] EXCEPT !.phase = "loaded", !.loadedWeek = league.week,
                                       !.loadedStatus = league.status]
                  ELSE [pull[a] EXCEPT !.phase = "details"]
  <2>4. r \in PullStates /\ r.phase # "reading"
    BY <2>1, <2>2, <2>3 DEF PullStates
  <2>5. pull' = [pull EXCEPT ![a] = r]
    BY <1>0, <1>1 DEF Request, TypeOK
  <2>6. log' = log /\ UNCHANGED <<league, rows, offer>>
    BY <1>1 DEF Request
  <2> HIDE DEF r
  <2>7. PullsTyped'
    BY <1>0, <2>4, <2>5, <2>6, OnePullChanges
  <2> QED BY <2>6, <2>7 DEF TypeOK, PullsTyped
<1>2. ASSUME NEW a \in Pulls, Create(a) PROVE TypeOK'
  <2>1. CASE league.exists
    <3>1. pull' = [pull EXCEPT ![a] = Idle] /\ UNCHANGED <<log, league, rows, offer>>
      BY <1>2, <2>1 DEF Create
    <3>2. PullsTyped'
      BY <1>0, <3>1, IdleType, OnePullChanges
    <3> QED BY <3>1, <3>2 DEF TypeOK, PullsTyped
  <2>2. CASE ~league.exists
    <3> DEFINE r == [pull[a] EXCEPT !.phase = "league", !.loadedWeek = Now.week,
                                    !.loadedStatus = "syncing"]
    <3>1. Now.week \in Weeks
      BY <1>0 DEF SleeperStates
    <3>2. r \in PullStates
      BY <3>1, LoadedType DEF TypeOK, Phases, Statuses
    <3>3. r.phase # "reading"
      BY DEF TypeOK, PullStates
    <3>4. pull' = [pull EXCEPT ![a] = r]
      BY <1>2, <2>2 DEF Create, TypeOK
    <3>5. league' \in [exists : BOOLEAN, week : Weeks, status : Statuses]
          /\ UNCHANGED <<log, rows, offer>>
      <4>1. league' = [exists |-> TRUE, week |-> Now.week, status |-> "syncing"]
            /\ UNCHANGED <<log, rows, offer>>
        BY <1>2, <2>2 DEF Create
      <4> QED BY <3>1, <4>1 DEF Statuses
    <3> HIDE DEF r
    <3>6. PullsTyped'
      BY <1>0, <3>2, <3>3, <3>4, <3>5, OnePullChanges
    <3> QED BY <3>5, <3>6 DEF TypeOK, PullsTyped
  <2> QED BY <2>1, <2>2
<1>3. ASSUME NEW a \in Pulls, MarkSyncing(a) PROVE TypeOK'
  <2> DEFINE r == [pull[a] EXCEPT !.phase = "league", !.loadedStatus = "syncing"]
  <2>1. r \in PullStates
    BY SyncingType DEF TypeOK, Phases, Statuses
  <2>2. r.phase # "reading"
    BY DEF TypeOK, PullStates
  <2>3. pull' = [pull EXCEPT ![a] = r] /\ UNCHANGED <<log, rows, offer>>
    BY <1>3 DEF MarkSyncing, TypeOK
  <2>4. league' \in [exists : BOOLEAN, week : Weeks, status : Statuses]
    BY <1>3 DEF MarkSyncing, TypeOK, NetChange, Statuses
  <2> HIDE DEF r
  <2>5. PullsTyped'
    BY <1>0, <2>1, <2>2, <2>3, OnePullChanges
  <2> QED BY <2>3, <2>4, <2>5 DEF TypeOK, PullsTyped
<1>4. CASE StartRefresh
  <2> DEFINE r == [pull[Refresh] EXCEPT !.phase = "league", !.loadedWeek = league.week,
                                        !.loadedStatus = league.status]
  <2>1. league.week \in Weeks /\ league.status \in Statuses /\ pull[Refresh] \in PullStates
    BY <1>0 DEF TypeOK
  <2>2. r \in PullStates
    BY <2>1, LoadedType DEF Phases
  <2>3. r.phase # "reading"
    BY <2>1 DEF PullStates
  <2>4. pull' = [pull EXCEPT ![Refresh] = r] /\ UNCHANGED <<log, league, rows, offer>>
    BY <1>0, <1>4 DEF StartRefresh, TypeOK
  <2> HIDE DEF r
  <2>5. PullsTyped'
    BY <1>0, <2>2, <2>3, <2>4, OnePullChanges
  <2> QED BY <2>4, <2>5 DEF TypeOK, PullsTyped
<1>5. ASSUME NEW a \in Pulls, ReadLeague(a) PROVE TypeOK'
  <2> DEFINE r == [pull[a] EXCEPT !.phase = "reading", !.week = Now.week, !.from = Len(log)]
  <2>1. Now.week \in Weeks /\ Len(log) \in Nat /\ pull[a] \in PullStates
    BY <1>0 DEF SleeperStates, TypeOK
  <2>2. r \in PullStates
    BY <2>1, ReadingType DEF Phases
  <2>3. r.from \in 1 .. Len(log)
    BY <1>0, <2>1 DEF PullStates
  <2>4. pull' = [pull EXCEPT ![a] = r] /\ UNCHANGED <<log, league, rows, offer>>
    BY <1>5 DEF ReadLeague, TypeOK
  <2> HIDE DEF r
  <2>5. PullsTyped'
    BY <1>0, <2>2, <2>3, <2>4, OnePullChanges
  <2> QED BY <2>4, <2>5 DEF TypeOK, PullsTyped
<1>6. ASSUME NEW a \in Pulls, Commit(a) PROVE TypeOK'
  BY <1>6, CommitType
<1>7. ASSUME NEW a \in Pulls, Fail(a) PROVE TypeOK'
  <2>1. pull' = [pull EXCEPT ![a] = Idle] /\ UNCHANGED <<log, rows, offer>>
    BY <1>7 DEF Fail
  <2>2. league' \in [exists : BOOLEAN, week : Weeks, status : Statuses]
    BY <1>7 DEF Fail, TypeOK, Statuses
  <2>3. PullsTyped'
    BY <1>0, <2>1, IdleType, OnePullChanges
  <2> QED BY <2>1, <2>2, <2>3 DEF TypeOK, PullsTyped
<1>8. CASE Restart
  <2>1. pull' = [a \in Pulls |-> Idle] /\ UNCHANGED <<log, league, rows, offer>>
    BY <1>8 DEF Restart
  <2>2. pull' \in [Pulls -> PullStates] /\ \A a \in Pulls : pull'[a].phase # "reading"
    BY <2>1, IdleType
  <2> QED BY <2>1, <2>2 DEF TypeOK
<1>9. ASSUME NEW p \in Players, NEW t \in Teams \cup {NoTeam}, Moves(p, t) PROVE TypeOK'
  BY <1>0, <1>9, NextStates, SleeperChanges DEF Moves
<1>10. ASSUME NEW p \in Players, GoesOnReserve(p) PROVE TypeOK'
  BY <1>0, <1>10, NextStates, SleeperChanges DEF GoesOnReserve
<1>11. CASE WeekEnds
  BY <1>0, <1>11, NextStates, SleeperChanges DEF WeekEnds
<1>12. CASE TradeChanges
  BY <1>0, <1>12, NextStates, SleeperChanges DEF TradeChanges
<1>13. CASE UNCHANGED vars
  BY <1>13 DEF vars, TypeOK
<1> QED BY <1>1, <1>2, <1>3, <1>4, <1>5, <1>6, <1>7, <1>8, <1>9, <1>10, <1>11, <1>12, <1>13
        DEF Next, Step

\* Saved rows, the league's row and the pulls keep their types, and a pull
\* reads no state of Sleeper before the one its league came from.
THEOREM TypeCorrect == Spec => []TypeOK
<1>1. TypeOK /\ [Next]_vars => TypeOK'
  BY NextType
<1> QED BY InitType, <1>1, PTL DEF Spec

-----------------------------------------------------------------------------
(* One team per player.                                                    *)

\* As long as no team loses its last player, no lineup Sleeper ever showed
\* lacks a team, so every pull replaces the rows of every team.
AlwaysFull ==
    \A i \in 1 .. Len(log) :
        Full(log[i].owner) /\ \A w \in Weeks : Full(log[i].past[w])

Inv == TypeOK /\ AlwaysFull /\ OneTeamPerPlayer

LEMMA InitInv == Init => Inv
<1> SUFFICES ASSUME Init PROVE Inv
  OBVIOUS
<1>1. Full(InitOwner)
  BY LeagueSyncAssumption DEF Full
<1>2. Len(log) = 1 /\ log[1].owner = InitOwner /\ log[1].past = [w \in Weeks |-> InitOwner]
  BY DEF Init
<1>3. AlwaysFull
  BY <1>1, <1>2 DEF AlwaysFull
<1>4. OneTeamPerPlayer
  BY DEF Init, OneTeamPerPlayer
<1> QED BY <1>3, <1>4, InitType DEF Inv

\* Sleeper stays full when its next state is.
LEMMA StaysFull ==
    ASSUME Inv, NEW s, Full(s.owner), \A w \in Weeks : Full(s.past[w]), SleeperBecomes(s)
    PROVE  AlwaysFull' /\ OneTeamPerPlayer'
<1>1. log' = Append(log, s) /\ rows' = rows
  BY DEF SleeperBecomes, saved
<1>2. log \in Seq(SleeperStates)
  BY DEF Inv, TypeOK
<1>3. Len(log') = Len(log) + 1 /\ Len(log) \in Nat
  BY <1>1, <1>2
<1>4. ASSUME NEW i \in 1 .. Len(log')
      PROVE  Full(log'[i].owner) /\ \A w \in Weeks : Full(log'[i].past[w])
  <2>1. CASE i = Len(log) + 1
    <3>1. log'[i] = s
      BY <1>1, <1>2, <2>1
    <3> QED BY <3>1
  <2>2. CASE i \in 1 .. Len(log)
    <3>1. log'[i] = log[i]
      BY <1>1, <1>2, <2>2
    <3> QED BY <2>2, <3>1 DEF Inv, AlwaysFull
  <2> QED BY <1>3, <2>1, <2>2
<1>5. AlwaysFull'
  BY <1>4 DEF AlwaysFull
<1>6. OneTeamPerPlayer'
  BY <1>1 DEF Inv, OneTeamPerPlayer
<1> QED BY <1>5, <1>6

\* What a pull leaves in a week has every player once.
LEMMA AppliedOnePerPlayer ==
    ASSUME Inv, NEW a \in Pulls, NEW w \in Weeks, NEW s,
           Full(s.owner), \A v \in Weeks : Full(s.past[v])
    PROVE  \A r, q \in Applied(a, w, s) : r[2] = q[2] => r = q
<1> DEFINE coming == RowsOf(Lineup(s, w), {})
<1>1. rows[w] \in SUBSET Rows /\ \A r, q \in rows[w] : r[2] = q[2] => r = q
  BY DEF Inv, TypeOK, OneTeamPerPlayer
<1>2. Full(Lineup(s, w))
  BY DEF Lineup
<1>3. TeamsIn(coming) = Teams
  BY <1>2, FullNamesAll
<1>4. ReplacedForTeams(rows[w], TeamsIn(coming), coming) = coming
  BY <1>1, <1>3, ReplacedForAll
<1>5. ReplacedForTeams(rows[w], Teams, RowsOf(s.owner, s.reserve)) = RowsOf(s.owner, s.reserve)
  BY <1>1, ReplacedForAll
<1>6. \/ Applied(a, w, s) = RowsOf(s.owner, s.reserve)
      \/ Applied(a, w, s) = coming
      \/ Applied(a, w, s) = rows[w]
  BY <1>4, <1>5 DEF Applied
<1> QED BY <1>1, <1>6, RowsOfOnce

LEMMA CommitInv ==
    ASSUME Inv, NEW a \in Pulls, Commit(a)
    PROVE  OneTeamPerPlayer'
<1>1. PICK at \in [Weeks -> Answered(a)] : rows' = [w \in Weeks |-> Applied(a, w, log[at[w]])]
  BY DEF Commit
<1>2. ASSUME NEW w \in Weeks
      PROVE  \A r, q \in rows'[w] : r[2] = q[2] => r = q
  <2>1. at[w] \in 1 .. Len(log)
    <3>1. pull[a].from \in 1 .. Len(log)
      BY DEF Commit, Inv, TypeOK
    <3>2. at[w] \in pull[a].from .. Len(log)
      BY DEF Answered
    <3>3. Len(log) \in Nat
      BY NowType DEF Inv
    <3> QED BY <3>1, <3>2, <3>3
  <2>2. Full(log[at[w]].owner) /\ \A v \in Weeks : Full(log[at[w]].past[v])
    BY <2>1 DEF Inv, AlwaysFull
  <2>3. rows'[w] = Applied(a, w, log[at[w]])
    BY <1>1
  <2> QED BY <2>2, <2>3, AppliedOnePerPlayer
<1> QED BY <1>2 DEF OneTeamPerPlayer

LEMMA NextInv ==
    ASSUME MayEmpty = FALSE, Inv, [Next]_vars
    PROVE  Inv'
<1> USE DEF saved
<1>0. TypeOK'
  BY NextType DEF Inv
<1>1. Now \in SleeperStates /\ Full(Now.owner) /\ \A w \in Weeks : Full(Now.past[w])
  <2>1. Now \in SleeperStates /\ Len(log) \in Nat \ {0}
    BY NowType DEF Inv
  <2>2. Len(log) \in 1 .. Len(log)
    BY <2>1
  <2> QED BY <2>1, <2>2 DEF Inv, AlwaysFull, Now
<1>2. ASSUME NEW a \in Pulls, Commit(a) PROVE AlwaysFull' /\ OneTeamPerPlayer'
  <2>1. log' = log
    BY <1>2 DEF Commit
  <2> QED BY <1>2, <2>1, CommitInv DEF Inv, AlwaysFull
<1>3. ASSUME UNCHANGED <<log, rows>> PROVE AlwaysFull' /\ OneTeamPerPlayer'
  BY <1>3 DEF Inv, AlwaysFull, OneTeamPerPlayer
<1>4. ASSUME NEW p \in Players, NEW t \in Teams \cup {NoTeam}, Moves(p, t)
      PROVE  AlwaysFull' /\ OneTeamPerPlayer'
  <2> DEFINE s == [Now EXCEPT !.owner[p] = t, !.reserve = @ \ {p}]
  <2>1. s.past = Now.past /\ s.owner = [Now.owner EXCEPT ![p] = t]
    BY <1>1 DEF SleeperStates
  <2>2. Now.owner \in [Players -> Teams \cup {NoTeam}]
    BY <1>1 DEF SleeperStates, Owners
  <2>3. \/ Now.owner[p] = NoTeam
        \/ \E q \in Players \ {p} : Now.owner[q] = Now.owner[p]
    BY <1>4 DEF Moves
  <2>4. ASSUME NEW u \in Teams PROVE \E q \in Players : s.owner[q] = u
    <3>1. PICK q \in Players : Now.owner[q] = u
      BY <1>1 DEF Full
    <3>2. CASE q # p
      BY <2>1, <2>2, <3>1, <3>2
    <3>3. CASE q = p
      <4>1. Now.owner[p] # NoTeam
        BY <3>1, <3>3, LeagueSyncAssumption
      <4>2. PICK z \in Players \ {p} : Now.owner[z] = Now.owner[p]
        BY <2>3, <4>1
      <4> QED BY <2>1, <2>2, <3>1, <3>3, <4>2
    <3> QED BY <3>2, <3>3
  <2>5. SleeperBecomes(s)
    BY <1>4 DEF Moves
  <2>6. Full(s.owner) /\ \A w \in Weeks : Full(s.past[w])
    BY <1>1, <2>1, <2>4 DEF Full
  <2> HIDE DEF s
  <2> QED BY <2>5, <2>6, StaysFull
<1>5. ASSUME NEW p \in Players, GoesOnReserve(p) PROVE AlwaysFull' /\ OneTeamPerPlayer'
  <2> DEFINE s == [Now EXCEPT !.reserve = @ \cup {p}]
  <2>1. s.past = Now.past /\ s.owner = Now.owner
    BY <1>1 DEF SleeperStates
  <2>2. SleeperBecomes(s)
    BY <1>5 DEF GoesOnReserve
  <2> HIDE DEF s
  <2> QED BY <1>1, <2>1, <2>2, StaysFull
<1>6. CASE WeekEnds
  <2> DEFINE s == [Now EXCEPT !.past[Now.week] = Now.owner, !.week = @ + 1]
  <2>1. s.past = [Now.past EXCEPT ![Now.week] = Now.owner] /\ s.owner = Now.owner
    BY <1>1 DEF SleeperStates
  <2>2. Now.past \in [Weeks -> Owners]
    BY <1>1 DEF SleeperStates
  <2>3. \A w \in Weeks : Full(s.past[w])
    BY <1>1, <2>1, <2>2
  <2>4. SleeperBecomes(s)
    BY <1>6 DEF WeekEnds
  <2>5. Full(s.owner)
    BY <1>1, <2>1
  <2> HIDE DEF s
  <2> QED BY <1>0, <2>3, <2>4, <2>5, StaysFull DEF Inv
<1>7. CASE TradeChanges
  <2>1. ASSUME NEW s, s.past = Now.past, s.owner = Now.owner, SleeperBecomes(s)
        PROVE  AlwaysFull' /\ OneTeamPerPlayer'
    <3>1. Full(s.owner) /\ \A w \in Weeks : Full(s.past[w])
      BY <1>1, <2>1
    <3> QED BY <2>1, <3>1, StaysFull
  <2> DEFINE offered == [Now EXCEPT !.trade = [status |-> "pending", leg |-> Now.week]]
             done == [Now EXCEPT !.trade.status = "complete"]
  <2>2. /\ offered.past = Now.past /\ offered.owner = Now.owner
        /\ done.past = Now.past /\ done.owner = Now.owner
    BY <1>1 DEF SleeperStates
  <2>3. SleeperBecomes(offered) \/ SleeperBecomes(done)
    BY <1>7 DEF TradeChanges
  <2> HIDE DEF offered, done
  <2> QED BY <1>0, <2>1, <2>2, <2>3 DEF Inv
<1>8. \/ UNCHANGED <<log, rows>>
      \/ \E a \in Pulls : Commit(a)
      \/ \E p \in Players, t \in Teams \cup {NoTeam} : Moves(p, t)
      \/ \E p \in Players : GoesOnReserve(p)
      \/ WeekEnds \/ TradeChanges
  <2>1. CASE UNCHANGED vars
    BY <2>1 DEF vars
  <2>2. ASSUME NEW a \in Syncs, Request(a) PROVE UNCHANGED <<log, rows>>
    BY <2>2 DEF Request
  <2>3. CASE StartRefresh
    BY <2>3 DEF StartRefresh
  <2>4. CASE Restart
    BY <2>4 DEF Restart
  <2>5. ASSUME NEW a \in Pulls, MarkSyncing(a) \/ Create(a) \/ ReadLeague(a) \/ Fail(a)
        PROVE  UNCHANGED <<log, rows>>
    BY <2>5 DEF MarkSyncing, Create, ReadLeague, Fail
  <2> QED BY <2>1, <2>2, <2>3, <2>4, <2>5 DEF Next, Step
<1> QED BY <1>0, <1>2, <1>3, <1>4, <1>5, <1>6, <1>7, <1>8 DEF Inv

\* However syncs and refreshes overlap, fail and overtake each other, no week
\* is saved with a player on two teams, or twice, as long as every team of the
\* league always has a player.
THEOREM NobodyOnTwoTeams == MayEmpty = FALSE /\ Spec => []OneTeamPerPlayer
<1> SUFFICES ASSUME MayEmpty = FALSE PROVE Spec => []OneTeamPerPlayer
  OBVIOUS
<1>1. Inv /\ [Next]_vars => Inv'
  BY NextInv
<1>2. Inv => OneTeamPerPlayer
  BY DEF Inv
<1> QED BY InitInv, <1>1, <1>2, PTL DEF Spec
=============================================================================
