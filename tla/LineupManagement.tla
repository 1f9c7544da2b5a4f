-------------------------- MODULE LineupManagement --------------------------
(***************************************************************************)
(* services/lineup_management.py for one league and week: the background   *)
(* sweep plans substitutions and activations from the saved roster, then   *)
(* makes them one at a time through move_player, while the user, the       *)
(* Sleeper app, injuries and kickoffs change what the plan was made from.  *)
(*                                                                         *)
(* move_player is one step here: refused before anything is sent, refused  *)
(* by its conflict check, applied, or stopped at one of its calls.         *)
(* SleeperWrites models what happens inside it.                            *)
(***************************************************************************)
EXTENDS Roster, SequencesExt

CONSTANTS
    Rank,           \* [Players -> Nat], the order of candidates: lower is better
    InitialRosters, \* the rosters Sleeper and the saved copy start with
    InitiallyLocked, \* the players whose game may have started by then
    Events,         \* which of EventKinds may happen
    MaxEvents       \* bound: events in a behaviour

EventKinds ==
    {"user",      \* the user moves a player in OMAHA or switches AI Management
     "app",       \* the lineup is changed in the Sleeper app
     "hurt", "heals", "kickoff",
     "pullFails", \* the refresh before a sweep is skipped or fails
     "fails"}     \* a call of a move fails, or its answer is lost

ASSUME LineupManagementAssumption ==
    /\ IsFiniteSet(Players)
    /\ Rank \in [Players -> Nat]
    /\ \A p, q \in Players : Rank[p] = Rank[q] => p = q
    /\ InitialRosters \subseteq Rosters
    /\ InitiallyLocked \subseteq SUBSET Players
    /\ Events \subseteq EventKinds /\ MaxEvents \in Nat

VARIABLES
    actual, \* the roster Sleeper has
    seats,   \* the saved roster
    out,     \* players whose flags say they cannot play
    locked,  \* players whose game has started
    enabled, \* lineup_management.enabled
    plan,    \* the moves the sweep in progress has left, << >> when none is
    board,   \* players whose game has started on the scoreboard that sweep read
    changed, \* history: players somebody moved, or who healed, since the plan was made
    events   \* events so far

managementVars == <<actual, seats, out, locked, enabled, plan, board, changed, events>>

\* The saved rows may be behind a change made in the Sleeper app.
ManagementInit ==
    /\ actual \in InitialRosters /\ seats \in InitialRosters /\ DOMAIN seats = DOMAIN actual
    /\ out \in SUBSET Players /\ locked \in InitiallyLocked
    /\ enabled = TRUE /\ plan = << >> /\ board = {} /\ changed = {} /\ events = 0

Event(kind) == kind \in Events /\ events < MaxEvents /\ events' = events + 1

\* What the sweep read and what changed since matter while there is a plan.
Noting(players) ==
    /\ changed' = IF plan' = << >> THEN {} ELSE changed \cup players
    /\ board' = IF plan' = << >> THEN {} ELSE board

-----------------------------------------------------------------------------
(* plan_management.                                                        *)

Start(p, i) == [player |-> p, destination |-> "starter", slot |-> i]
Activate(p) == [player |-> p, destination |-> "bench", slot |-> NoIndex]

Picked(moves) == {moves[k].player : k \in DOMAIN moves}

\* Mutant: a player picked for one slot is a candidate for the next.
CandidatesUntaken(r, i, taken) ==
    {p \in DOMAIN r : r[p] \notin Slots /\ p \notin out \cup locked /\ i \in Eligible[p]}

\* Bench and reserve rows that may start at i. The reserve rows are those on
\* IR and those on the taxi squad.
Candidates(r, i, taken) ==
    {p \in DOMAIN r : r[p] \notin Slots /\ p \notin out \cup locked \cup taken /\ i \in Eligible[p]}

Best(pool) == CHOOSE p \in pool : \A q \in pool : Rank[p] <= Rank[q]

\* Mutant: a starter whose game has started is replaced.
NeedsSubPlayed(r, i) == AlignedStarters(r)[i] \in out

\* Mutant: a healthy starter is replaced as well.
NeedsSubUpgrades(r, i) == AlignedStarters(r)[i] \in DOMAIN r \ locked

\* Rows exist for rostered players only: an empty slot has no row to visit.
NeedsSub(r, i) == AlignedStarters(r)[i] \in out \ locked

\* A slot whose starter needs a substitute takes the best candidate left.
WithSub(r, moves, i) ==
    LET pool == Candidates(r, i, Picked(moves))
    IN  IF NeedsSub(r, i) /\ pool # {} THEN Append(moves, Start(Best(pool), i)) ELSE moves

\* Slots are visited in order.
Subs(r) ==
    LET upTo[i \in 0..NumSlots] == IF i = 0 THEN << >> ELSE WithSub(r, upTo[i - 1], i)
    IN  upTo[NumSlots]

\* Reserve players who can play and were not picked.
Returning(r, seat) ==
    {p \in DOMAIN r : r[p] = seat /\ p \notin out \cup locked \cup Picked(Subs(r))}

\* They come to the bench; rows on IR precede rows on the taxi squad.
Activations(r) ==
    LET back == SetToSeq(Returning(r, IR)) \o SetToSeq(Returning(r, Taxi))
    IN  [k \in DOMAIN back |-> Activate(back[k])]

Plan(r) == Subs(r) \o Activations(r)

-----------------------------------------------------------------------------
(* move_player in one step, from the saved rows.                           *)

WantedStarters(m) == DesiredStarters(seats, m.player, m.destination, m.slot)
WantedReserve(m) == DesiredReserve(seats, m.player, m.destination)
Reseated(m) == Moved(seats, WantedStarters(m), WantedReserve(m))

\* Mutant: the scoreboard is not looked at.
SendableAnyway(m, kickoffs) == Legal(seats, m.player, m.destination, m.slot)

\* The move is legal on the saved rows, and moves nobody whose game the
\* scoreboard shows started. A request of the user reads the scoreboard; the
\* moves of a sweep share the one read with the plan (_board_cache).
Sendable(m, kickoffs) ==
    /\ Legal(seats, m.player, m.destination, m.slot)
    /\ Reseated(m) \cap kickoffs = {}

StepsOf(m) == Steps(seats, m.player, m.destination, WantedStarters(m), WantedReserve(m))

AlreadyThere(m) == StepsOf(m) = << >>

\* Nothing to send, or Sleeper still has the saved rows.
Accepted(m, kickoffs) == Sendable(m, kickoffs) /\ (AlreadyThere(m) \/ seats = actual)

\* Roster r once it has these lists of the move.
StartersOf(r, m, lists) == IF "starters" \in lists THEN WantedStarters(m) ELSE AlignedStarters(r)
ReserveFor(r, m, lists) == IF "reserve" \in lists THEN WantedReserve(m) ELSE ReserveOf(r)
With(r, m, lists) == Placement(r, StartersOf(r, m, lists), ReserveFor(r, m, lists))

\* Sleeper keeps IR players out of its starters.
SleeperTakes(m, lists) ==
    /\ Starting(StartersOf(actual, m, lists)) \cap ReserveFor(actual, m, lists) = {}
    /\ actual' = With(actual, m, lists)

Place(m) ==
    IF AlreadyThere(m) THEN UNCHANGED <<seats, actual>>
    ELSE /\ seats' = Placement(seats, WantedStarters(m), WantedReserve(m))
         /\ SleeperTakes(m, Range(StepsOf(m)))

\* The move ends at one of its lists: those before it are confirmed and saved,
\* and Sleeper has taken this one as well when only the answer, or what is read
\* back, is lost.
Stops(m, kickoffs) ==
    /\ Sendable(m, kickoffs)
    /\ \E n \in 1..Len(StepsOf(m)) :
        LET confirmed == {StepsOf(m)[k] : k \in 1..(n - 1)} IN
        /\ seats' = With(seats, m, confirmed)
        /\ SleeperTakes(m, confirmed) \/ SleeperTakes(m, confirmed \cup {StepsOf(m)[n]})

\* Refused; by the conflict check, the saved rows are Sleeper's afterwards.
Refuse(m, kickoffs) ==
    /\ ~Accepted(m, kickoffs)
    /\ seats' = IF Sendable(m, kickoffs) THEN actual ELSE seats
    /\ UNCHANGED actual

-----------------------------------------------------------------------------
(* sweep_lineup_management and _sweep_league.                              *)

\* The league is refreshed from Sleeper and the moves are planned.
StartSweep ==
    /\ enabled /\ plan = << >>
    /\ \/ seats' = actual /\ UNCHANGED events
       \/ Event("pullFails") /\ UNCHANGED seats
    /\ plan' = Plan(seats')
    /\ board' = IF plan' = << >> THEN {} ELSE locked
    /\ UNCHANGED <<actual, out, locked, enabled, changed>>

\* When the read before a write fails, the write goes on unguarded.
MoveApplied ==
    /\ plan # << >> /\ Sendable(Head(plan), board)
    /\ \/ Accepted(Head(plan), board) /\ UNCHANGED events
       \/ Event("fails")
    /\ Place(Head(plan))
    /\ plan' = Tail(plan) /\ Noting({})
    /\ UNCHANGED <<out, locked, enabled>>

\* An AppError ends the league's sweep: the moves left are dropped.
MoveRefused ==
    /\ plan # << >> /\ Refuse(Head(plan), board)
    /\ plan' = << >> /\ Noting({})
    /\ UNCHANGED <<out, locked, enabled, events>>

\* Sleeper may also refuse a list because it has locked a player it moves.
MoveStops ==
    /\ plan # << >> /\ Stops(Head(plan), board)
    /\ \/ Event("fails")
       \/ Reseated(Head(plan)) \cap locked # {} /\ UNCHANGED events
    /\ plan' = << >> /\ Noting({})
    /\ UNCHANGED <<out, locked, enabled>>

-----------------------------------------------------------------------------
(* Everyone else.                                                          *)

UserMoves ==
    /\ Event("user")
    /\ \E p \in DOMAIN seats, d \in Destinations, i \in Slots \cup {NoIndex} :
        LET m == [player |-> p, destination |-> d, slot |-> i] IN
        /\ (d = "starter") = (i # NoIndex)
        /\ \/ Sendable(m, locked) /\ Place(m)
           \/ Stops(m, locked)
           \/ Refuse(m, locked)
    /\ UNCHANGED <<out, locked, enabled, plan>>
    /\ Noting({p \in DOMAIN seats : seats'[p] # seats[p]})

\* save_lineup_management.
Save ==
    /\ Event("user")
    /\ enabled' = ~enabled
    /\ UNCHANGED <<actual, seats, out, locked, plan, board, changed>>

\* Two players change seats in the Sleeper app.
AppSwaps ==
    /\ Event("app")
    /\ \E p, q \in DOMAIN actual \ locked :
        /\ p # q
        /\ actual[q] \in Eligible[p] /\ actual[p] \in Eligible[q] \cup {Bench}
        /\ actual' = [actual EXCEPT ![p] = actual[q], ![q] = actual[p]]
    /\ UNCHANGED <<seats, out, locked, enabled, plan, board, changed>>

Hurt ==
    /\ Event("hurt")
    /\ \E p \in Players \ out : out' = out \cup {p}
    /\ UNCHANGED <<actual, seats, locked, enabled, plan, board, changed>>

Heals ==
    /\ Event("heals")
    /\ UNCHANGED <<actual, seats, locked, enabled, plan>>
    /\ \E p \in out : out' = out \ {p} /\ Noting({p})

GameStarts ==
    /\ Event("kickoff")
    /\ \E p \in Players \ locked : locked' = locked \cup {p}
    /\ UNCHANGED <<actual, seats, out, enabled, plan, board, changed>>

SweepMoves == MoveApplied \/ MoveStops
SweepStep == StartSweep \/ MoveApplied \/ MoveRefused

ManagementNext ==
    \/ StartSweep \/ MoveApplied \/ MoveRefused \/ MoveStops
    \/ UserMoves \/ Save \/ AppSwaps \/ Hurt \/ Heals \/ GameStarts

ManagementSpec == ManagementInit /\ [][ManagementNext]_managementVars

\* auto_reply_loop sweeps again and again, and each move it makes ends.
FairSpec == ManagementSpec /\ WF_managementVars(SweepStep)

-----------------------------------------------------------------------------
(* Properties.                                                             *)

Moves == [player : Players, destination : {"starter", "bench"}, slot : Slots \cup {NoIndex}]

\* A plan names players of the roster, and a roster keeps its players.
ManagementTypes ==
    /\ actual \in Rosters /\ seats \in Rosters /\ DOMAIN seats = DOMAIN actual
    /\ out \subseteq Players /\ locked \subseteq Players /\ board \subseteq Players
    /\ enabled \in BOOLEAN /\ events \in Nat /\ changed \subseteq Players
    /\ \A k \in DOMAIN plan : plan[k] \in Moves /\ plan[k].player \in DOMAIN seats

\* plan_management, against what it is for: nobody is moved twice and no slot
\* filled twice; a substitute can play, has not played, may fill the slot and
\* is the best of those no earlier slot took; every starter who cannot play,
\* and has not, gets one if any is left; and every reserve player who can play
\* is brought in.
PlanSubstitutes ==
    LET moves == Plan(seats)
        taken(k) == {moves[j].player : j \in 1..(k - 1)}
        fit(p, i) == p \notin out \cup locked /\ seats[p] \notin Slots /\ i \in Eligible[p]
    IN  /\ \A j, k \in DOMAIN moves : j # k =>
             /\ moves[j].player # moves[k].player
             /\ moves[j].slot = moves[k].slot => moves[j].slot = NoIndex
        /\ \A k \in DOMAIN moves : moves[k].slot # NoIndex =>
             /\ fit(moves[k].player, moves[k].slot)
             /\ \A q \in DOMAIN seats \ taken(k) :
                  fit(q, moves[k].slot) => Rank[moves[k].player] <= Rank[q]
        /\ \A p \in out \ locked : p \in DOMAIN seats /\ seats[p] \in Slots =>
             \/ \E k \in DOMAIN moves : moves[k].slot = seats[p]
             \/ \A q \in DOMAIN seats : fit(q, seats[p]) => q \in Picked(moves)
        /\ \A p \in DOMAIN seats \ (out \cup locked) :
             seats[p] \in {IR, Taxi} => p \in Picked(moves)

Stays(r, p) == r[p] \in Slots \cup {IR} \/ r'[p] \in Slots \cup {IR} => r'[p] = r[p]

\* The lock check of move_player (sleeper_writes.py:319) as a sweep meets it:
\* nobody whose game had started when the sweep read the scoreboard gains or
\* loses a starting slot or an IR spot by one of its moves, finished or not,
\* whoever changed the rows the plan was made from; nor does he at Sleeper, if
\* the rows were Sleeper's.
StartedStay ==
    [][SweepMoves => \A p \in board \cap DOMAIN seats :
         Stays(seats, p) /\ (seats = actual => Stays(actual, p))]_managementVars

\* "Sleeper locks a player at kickoff. Refuse a write that moves one instead of
\* sending it." (sleeper_writes.py:799): a sweep sends nothing that moves a
\* player whose game has started by then.
NothingLockedIsSent ==
    [][SweepMoves /\ ~AlreadyThere(Head(plan)) => Reseated(Head(plan)) \cap locked = {}]_managementVars

\* lineup_management.py:3 "Projection upgrades of a healthy starter are not
\* made": a starter who loses his slot to a sweep cannot play, and somebody
\* takes it. Only a starter the user moved, or who healed, between the plan and
\* the move may lose it otherwise.
OnlySubsLoseTheirSlot ==
    [][SweepMoves => \A p \in DOMAIN seats \ changed :
         seats[p] \in Slots /\ seats'[p] # seats[p] =>
            p \in out /\ \E q \in DOMAIN seats : seats'[q] = seats[p]]_managementVars

\* "sub starters who cannot play, and activate IR players who can"
\* (lineup_management.py:1): what a sweep would do for Sleeper's roster does
\* not stay undone while AI Management is on.
PlanIsCarriedOut == enabled /\ Plan(actual) # << >> ~> ~enabled \/ Plan(actual) = << >>
=============================================================================
