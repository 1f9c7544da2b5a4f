------------------------------- MODULE Roster -------------------------------
(***************************************************************************)
(* One manager's roster for one week, as rows of roster_entries keep it,   *)
(* and the pure computations services/sleeper_writes.py makes from it: the *)
(* starters list and the IR list a write sends, the order it sends them    *)
(* in, the players it moves, and the rows it saves once Sleeper confirms.  *)
(*                                                                         *)
(* Slot names are abstracted to their position in the lineup: Eligible[p]  *)
(* is the set of positions whose slot name is_eligible accepts for p.      *)
(***************************************************************************)
EXTENDS Integers, FiniteSets, Sequences

CONSTANTS
    Players,     \* Sleeper player ids; one local player per id
    NoPlayer,    \* EMPTY, "0" in a starters list
    NumSlots,    \* number of starting slots (roster_positions minus BN/IR/TAXI)
    Eligible,    \* [Players -> SUBSET Slots], is_eligible per slot
    IREligible,  \* players eligible_for_ir accepts
    IRCapacity,  \* _ir_capacity
    Bench, IR, Taxi, \* the seats that are not starting slots
    NoIndex      \* a move request that names no slot (slot_index is None)

Slots == 1..NumSlots
Seats == Slots \cup {Bench, IR, Taxi}

ASSUME RosterAssumption ==
    /\ NoPlayer \notin Players
    /\ NumSlots \in Nat
    /\ Eligible \in [Players -> SUBSET Slots]
    /\ IRCapacity \in Nat
    /\ Bench \notin Slots /\ IR \notin Slots /\ Taxi \notin Slots
    /\ Bench # IR /\ Bench # Taxi /\ IR # Taxi
    /\ NoIndex \notin Slots

-----------------------------------------------------------------------------
(* Rosters and starters lists.                                             *)

Lineups == [Slots -> Players \cup {NoPlayer}]

\* A roster gives every rostered player a seat; a slot seats at most one.
Rosters ==
    {r \in UNION {[squad -> Seats] : squad \in SUBSET Players} :
        \A p, q \in DOMAIN r : r[p] = r[q] /\ r[p] \in Slots => p = q}

Starting(S) == {S[i] : i \in Slots} \ {NoPlayer}

Injective(S) == \A i, j \in Slots : S[i] = S[j] /\ S[i] # NoPlayer => i = j

\* _aligned_starters: the starters list the local rows stand for.
AlignedStarters(r) ==
    [i \in Slots |-> IF \E p \in DOMAIN r : r[p] = i
                     THEN CHOOSE p \in DOMAIN r : r[p] = i
                     ELSE NoPlayer]

ReserveOf(r) == {p \in DOMAIN r : r[p] = IR}

\* _apply_placement: the rows saved for starters S and IR list R. A player in
\* both lists is saved as a starter.
Placement(r, S, R) ==
    [p \in DOMAIN r |->
        IF p \in Starting(S) THEN CHOOSE i \in Slots : S[i] = p
        ELSE IF p \in R THEN IR
        ELSE IF r[p] = Taxi THEN Taxi
        ELSE Bench]

\* Mutant: players who are not started keep the seat they had.
ApplyLocalKeepsSeats(r, S) ==
    [p \in DOMAIN r |-> IF p \in Starting(S) THEN CHOOSE i \in Slots : S[i] = p ELSE r[p]]

\* _apply_local: the rows set_lineup saves; IR and taxi seats stay.
ApplyLocal(r, S) ==
    [p \in DOMAIN r |->
        IF p \in Starting(S) THEN CHOOSE i \in Slots : S[i] = p
        ELSE IF r[p] \in {IR, Taxi} THEN r[p]
        ELSE Bench]

\* What _guard_unchanged can save: starters and IR all on the local roster.
Placeable(r, S, R) == Starting(S) \subseteq DOMAIN r /\ R \subseteq DOMAIN r

\* map_roster: the rows a refresh builds from a public roster. A matchup's
\* roster carries neither reserve nor taxi, so both are empty there.
MapRoster(S, squad, R, T) ==
    [p \in squad |->
        IF p \in Starting(S) THEN CHOOSE i \in Slots : S[i] = p
        ELSE IF p \in R THEN IR
        ELSE IF p \in T THEN Taxi
        ELSE Bench]

-----------------------------------------------------------------------------
(* move_player's computation from the local rows.                          *)

Destinations == {"bench", "ir", "starter"}

OpenSlots(r, p) == {i \in Eligible[p] : AlignedStarters(r)[i] = NoPlayer}

\* The slots a starter move ends in: the one asked for if p may fill it, else
\* _first_open_slot; none when the request is refused.
TargetSlots(r, p, asked) ==
    IF asked # NoIndex THEN {asked} \cap Eligible[p]
    ELSE {i \in OpenSlots(r, p) : \A j \in OpenSlots(r, p) : i <= j}

\* Which moves are accepted before anything is sent. target is the slot a
\* starter move ends in and NoIndex for the other two destinations.
Legal(r, p, destination, target) ==
    /\ p \in DOMAIN r
    /\ r[p] # Taxi
    /\ destination = "ir" =>
         /\ p \in IREligible
         /\ IRCapacity > 0
         /\ p \in ReserveOf(r) \/ Cardinality(ReserveOf(r)) < IRCapacity
    /\ destination = "starter" => target \in Eligible[p]

Without(S, p) == [i \in Slots |-> IF S[i] = p THEN NoPlayer ELSE S[i]]

DesiredStarters(r, p, destination, target) ==
    IF destination = "starter"
    THEN [Without(AlignedStarters(r), p) EXCEPT ![target] = p]
    ELSE Without(AlignedStarters(r), p)

DesiredReserve(r, p, destination) ==
    IF destination = "ir" THEN ReserveOf(r) \cup {p} ELSE ReserveOf(r) \ {p}

\* Mutant: the lineup is always sent before the IR list.
StepsLineupFirst(r, p, destination, S, R) ==
    IF S # AlignedStarters(r)
    THEN IF R # ReserveOf(r) THEN <<"starters", "reserve">> ELSE <<"starters">>
    ELSE IF R # ReserveOf(r) THEN <<"reserve">> ELSE << >>

\* The lists to send, in order. Leaving IR comes before starting; leaving the
\* lineup comes before IR.
Steps(r, p, destination, S, R) ==
    LET lineup == S # AlignedStarters(r)
        ir     == R # ReserveOf(r)
    IN  IF destination = "starter" /\ r[p] = IR /\ (lineup \/ ir)
        THEN <<"reserve", "starters">>
        ELSE IF lineup /\ ir THEN <<"starters", "reserve">>
        ELSE IF lineup THEN <<"starters">>
        ELSE IF ir THEN <<"reserve">>
        ELSE << >>

\* Mutant: the players who lose their slot are not counted as moved.
MovedArrivals(r, S, R) ==
    ({S[i] : i \in {j \in Slots : AlignedStarters(r)[j] # S[j]}} \ {NoPlayer})
    \cup (ReserveOf(r) \ R) \cup (R \ ReserveOf(r))

\* _moved: the players whose starting slot or IR status a write changes.
Moved(r, S, R) ==
    LET before == AlignedStarters(r)
        resat  == {i \in Slots : before[i] # S[i]}
    IN  (({before[i] : i \in resat} \cup {S[i] : i \in resat}) \ {NoPlayer})
        \cup (ReserveOf(r) \ R) \cup (R \ ReserveOf(r))
=============================================================================
