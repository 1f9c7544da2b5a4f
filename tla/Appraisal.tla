------------------------------ MODULE Appraisal ------------------------------
(***************************************************************************)
(* What OMAHA says a roster is worth: the depth grades of                  *)
(* intelligence/roster_needs.py with the waiver, drop and trade notes read *)
(* from them, the player ai/trade_offer.py offers for a target, the verdict*)
(* ai/trade_review.py and ai/fallback.py give on a trade, and the claims   *)
(* the assistant lets the manager approve.                                 *)
(***************************************************************************)
EXTENDS Advice, FiniteSetsExt

Offense == {"QB", "RB", "WR", "TE", "K", "DEF"}
Flex == "FLEX"

CONSTANTS
    Position,      \* [Players -> Offense]
    SlotPosition,  \* the position of an exact slot, Flex for one that takes several
    MaxRosterSize, \* max_roster_size, the IR and taxi places among them
    TaxiSlots      \* taxi_slots; reserve_slots is IRCapacity

ASSUME AppraisalAssumption ==
    /\ Position \in [Players -> Offense]
    /\ SlotPosition \in [Slots -> Offense \cup {Flex}]
    /\ MaxRosterSize \in Nat /\ TaxiSlots \in Nat
    /\ IsFiniteSet(Players)

-----------------------------------------------------------------------------
(* compute_roster_needs.                                                   *)

\* The roster less IR and taxi.
Active(view) == {p \in DOMAIN view.seats : view.seats[p] \notin {IR, Taxi}}

Required(position) == Cardinality({i \in Slots : SlotPosition[i] = position})
FlexSlots == Cardinality({i \in Slots : SlotPosition[i] = Flex})

\* The players of a position who could start.
CanStart(view, position) == {p \in Active(view) : Position[p] = position /\ ~IsUnavailable(view, p)}

\* grade_position, for a number of players who could start.
Grade(position, depth) ==
    LET spare == depth - Required(position)
        flex  == position \in {"RB", "WR", "TE"} /\ FlexSlots > 0
    IN  CASE Required(position) = 0 /\ position \notin {"RB", "WR", "TE"} -> "Adequate"
          [] spare < 0 -> "Weak"
          [] spare >= 0 /\ position \in {"QB", "K", "DEF"} ->
               IF spare = 0 THEN "Adequate" ELSE "Strong"
          [] spare = 0 -> "Needs depth"
          [] spare = 1 -> IF flex /\ position # "TE" THEN "Needs depth" ELSE "Adequate"
          [] OTHER -> "Strong"

GradeOf(view, position) == Grade(position, Cardinality(CanStart(view, position)))

\* The positions graded: those the lineup or the roster uses.
Listed(view) == {o \in Offense : Required(o) > 0 \/ \E p \in Active(view) : Position[p] = o}

\* The thin positions, each with a note and its waiver targets; the first three
\* are listed.
Weakest(view) == {o \in Listed(view) : GradeOf(view, o) \in {"Weak", "Needs depth"}}

Surplus(view) ==
    {o \in Listed(view) :
        /\ GradeOf(view, o) = "Strong"
        /\ Cardinality({p \in CanStart(view, o) : IsHealthy(view, p)}) - Required(o)
             >= (IF o \in {"RB", "WR"} THEN 3 ELSE 1)}

\* Mutant: the IR and taxi places count as room.
OpenSpotsOfAll(view) == Max({0, MaxRosterSize - Cardinality(Active(view))})

\* open_roster_spots.
OpenSpots(view) == Max({0, MaxRosterSize - IRCapacity - TaxiSlots - Cardinality(Active(view))})

\* trade_recommendations: whether a surplus is to be traded for a need.
TradeIdea(view) == Surplus(view) # {} /\ Weakest(view) # {}

\* Bench players a full roster could do without.
DropCandidates(view) ==
    IF OpenSpots(view) > 0 THEN {} ELSE {p \in BenchOf(view) : view.health[p] \in {"out", "inactive", "unsigned"}}

-----------------------------------------------------------------------------
(* Trades and claims.                                                      *)

Lexicographic(a, b) ==
    \/ a = b
    \/ \E k \in DOMAIN a : a[k] < b[k] /\ \A j \in 1..(k - 1) : a[j] = b[j]

\* The order pick_give offers in: out of a strong position, off the bench, near
\* the target in projection but not far above it.
GiveKey(view, target, p) ==
    LET grade   == GradeOf(view, Position[p])
        gap     == Points[p] - Points[target]
        compare == {p, target} \subseteq DOMAIN Points
    IN  << CASE grade = "Strong" -> 0 [] grade = "Adequate" -> 1 [] OTHER -> 2,
           IF view.seats[p] \in Slots THEN 1 ELSE 0,
           IF ~compare THEN 0 ELSE IF gap > 6 THEN gap + 20 ELSE IF gap < 0 THEN -gap ELSE gap,
           Order[p] >>

\* pick_give: the player offered for a target.
PickGive(view, target) ==
    LET pool == IF Active(view) = {} THEN DOMAIN view.seats ELSE Active(view)
    IN  {p \in pool : \A q \in pool : Lexicographic(GiveKey(view, target, p), GiveKey(view, target, q))}

\* What a side of a trade projects, when every player of it is projected.
Projected(side) == MapThenSumSet(LAMBDA p : Points[p], side)

\* Mutant: two points more are enough to accept, and two less not to reject.
VerdictAtTwo(sent, received) ==
    IF sent = {} \/ received = {} \/ ~(sent \cup received \subseteq DOMAIN Points) THEN "UNCLEAR"
    ELSE IF Projected(received) - Projected(sent) >= 4 THEN "ACCEPT"
    ELSE IF Projected(received) - Projected(sent) < -4 THEN "REJECT" ELSE "NEGOTIATE"

\* score_exchange: more than two points decide.
Verdict(sent, received) ==
    IF sent = {} \/ received = {} \/ ~(sent \cup received \subseteq DOMAIN Points) THEN "UNCLEAR"
    ELSE IF Projected(received) - Projected(sent) > 4 THEN "ACCEPT"
    ELSE IF Projected(received) - Projected(sent) < -4 THEN "REJECT" ELSE "NEGOTIATE"

\* deterministic_trade: the same for a trade proposed, with a point for every
\* player received at a thin position and one less for every player given there.
Assess(view, give, receive) ==
    LET thin(side) == Cardinality({p \in side : GradeOf(view, Position[p]) \in {"Weak", "Needs depth"}})
        known == give \cup receive \subseteq DOMAIN Points
        delta == IF known THEN Projected(receive) - Projected(give) ELSE 0
        score == thin(receive) - thin(give) + (IF delta > 4 THEN 1 ELSE IF delta < -4 THEN -1 ELSE 0)
    IN  CASE ~known /\ score = 0 -> "UNCLEAR"
          [] score > 0 -> "ACCEPT"
          [] score < 0 -> "REJECT"
          [] OTHER -> "NEGOTIATE"

\* exchanges: a trade's record, by team. adds and drops pair a player with the
\* team that got or gave him.
Exchanges(adds, drops) ==
    [t \in {m.team : m \in adds \cup drops} |->
        [sent     |-> {m.player : m \in {m \in drops : m.team = t}},
         received |-> {m.player : m \in {m \in adds : m.team = t}}]]

\* user_exchange, else the first row: a team that gave somebody, when any did.
Reviewed(adds, drops, team) ==
    LET rows == Exchanges(adds, drops)
    IN  IF team \in DOMAIN rows THEN {team}
        ELSE IF drops # {} THEN {m.team : m \in drops} ELSE DOMAIN rows

\* review_trade, for a user whose team is given: the verdicts it may come to,
\* none when it refuses a side without players.
Reviews(adds, drops, team) ==
    LET rows == Exchanges(adds, drops)
    IN  {Verdict(rows[t].sent, rows[t].received) :
            t \in {t \in Reviewed(adds, drops, team) : {} \notin {rows[t].sent, rows[t].received}}}

\* The roster is full, its IR and taxi players counted.
Full(view) == Cardinality(DOMAIN view.seats) >= MaxRosterSize

\* claim_player: the claims shown for approval.
Claims(view) ==
    {c \in [add : (Players \ DOMAIN view.seats) \cup {NoPlayer}, drop : DOMAIN view.seats \cup {NoPlayer}] :
        /\ c.add # NoPlayer \/ c.drop # NoPlayer
        /\ c.add # NoPlayer /\ c.drop = NoPlayer => ~Full(view)}
=============================================================================
