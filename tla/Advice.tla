------------------------------- MODULE Advice -------------------------------
(***************************************************************************)
(* What OMAHA proposes about one lineup, computed from a view of the team: *)
(* the start/sit swaps of intelligence/lineup.py, the options of ai/subs.py*)
(* for a player the manager wants to sub, the swaps ai/approvals.py reads  *)
(* in an assistant's prose, and the move a tool call asks for. A view is   *)
(* the part of a TeamContext they read: seats, injuries, started games.    *)
(***************************************************************************)
EXTENDS Roster

CONSTANTS
    Points,   \* projected points in half points; players without one are not in the domain
    Order     \* [Players -> Nat], the order of rows: ties go to the first

\* By the flag a condition gets; "out" is also IR, "inactive" is a player whose
\* status says so and who has no injury label, "unsigned" has no NFL team, and
\* "injured" has a label that INJURY_SEVERITY does not name and weighs as much as
\* Questionable: NA, which weighs more, and Probable, which weighs less, are left out.
Conditions ==
    {"fit", "questionable", "injured", "doubtful", "out", "bye", "suspended", "inactive", "unsigned"}

ASSUME AdviceAssumption ==
    /\ DOMAIN Points \subseteq Players /\ \A p \in DOMAIN Points : Points[p] \in Nat
    /\ Order \in [Players -> Nat]
    /\ \A p, q \in Players : Order[p] = Order[q] => p = q

\* A proposed move, and the starter it says it replaces.
Offer(p, destination, i, over) ==
    [player |-> p, destination |-> destination, slot |-> i, over |-> over]

Occupant(view, i) == AlignedStarters(view.seats)[i]
BenchOf(view) == {p \in DOMAIN view.seats : view.seats[p] = Bench}

\* is_unavailable and is_healthy.
IsUnavailable(view, p) == view.health[p] \in {"out", "bye", "suspended", "inactive", "doubtful"}
IsHealthy(view, p) == view.health[p] \in {"fit", "unsigned"}

-----------------------------------------------------------------------------
(* suggest_swaps.                                                          *)

\* The order of candidates: projected before unprojected, more points, healthy
\* before hurt (of the Conditions a candidate may have, both that are injuries weigh
\* the same), earlier row.
Better(view, p, q) ==
    LET known(r)  == r \in DOMAIN Points
        points(r) == IF known(r) THEN Points[r] ELSE 0
    IN  \/ known(p) /\ ~known(q)
        \/ /\ known(p) = known(q)
           /\ \/ points(p) > points(q)
              \/ points(p) = points(q) /\ IsHealthy(view, p) /\ ~IsHealthy(view, q)
              \/ /\ points(p) = points(q) /\ IsHealthy(view, p) = IsHealthy(view, q)
                 /\ Order[p] <= Order[q]

\* The best of a pool, when there is one.
BestOf(view, pool) == {p \in pool : \A q \in pool : Better(view, p, q)}

BenchCandidates(view, i, used) ==
    {p \in BenchOf(view) \ (used \cup view.locked) : i \in Eligible[p] /\ ~IsUnavailable(view, p)}

\* Mutant: any projection that is not lower is worth a swap.
GainNone(view, p) == 0

\* The gain a swap for p must promise: two points, or half a point when p is
\* questionable.
Gain(view, p) == IF view.health[p] = "questionable" THEN 1 ELSE 4

Used(swaps) == {s.player : s \in swaps}

\* A starter who cannot play gets the best bench player left.
Covers(view, swaps, i) ==
    {q \in BestOf(view, BenchCandidates(view, i, Used(swaps))) : IsUnavailable(view, Occupant(view, i))}

\* A starter who can play and has a projection gets a healthy bench player
\* left whose projection beats it by enough.
Upgrades(view, swaps, i) ==
    LET p == Occupant(view, i) IN
    {q \in BestOf(view, {q \in BenchCandidates(view, i, Used(swaps)) :
                           q \in DOMAIN Points /\ IsHealthy(view, q)}) :
        p \in DOMAIN Points /\ ~IsUnavailable(view, p) /\ Points[q] >= Points[p] + Gain(view, p)}

\* The n-th visit: every slot is visited for a cover, then every slot for an
\* upgrade. It adds a swap at most, and none for a locked starter.
Visit(view, swaps, n) ==
    LET i == IF n <= NumSlots THEN n ELSE n - NumSlots
        p == Occupant(view, i)
        candidates == IF n <= NumSlots THEN Covers(view, swaps, i) ELSE Upgrades(view, swaps, i)
    IN  IF p \in {NoPlayer} \cup view.locked THEN swaps
        ELSE swaps \cup {Offer(q, "starter", i, p) : q \in candidates}

SuggestSwaps(view) ==
    LET swaps[n \in 0..(2 * NumSlots)] == IF n = 0 THEN {} ELSE Visit(view, swaps[n - 1], n)
    IN  swaps[2 * NumSlots]

\* start_sit_recommendations: one note per swap, with the starter's slot.
StartSit(view) == SuggestSwaps(view)

\* Mutant: a suspension is worth no more than a look.
AlertWithoutSuspension(view, p) ==
    CASE view.health[p] \in {"out", "bye", "doubtful"} -> "HIGH"
      [] view.health[p] \in {"questionable", "suspended"} -> "MEDIUM"
      [] view.health[p] = "injured" -> "LOW"
      [] OTHER -> "none"

\* injury_recommendations and bye_recommendations, for a starter: an inactive
\* one has no injury label and gets no note.
Alert(view, p) ==
    CASE view.health[p] \in {"out", "bye", "suspended", "doubtful"} -> "HIGH"
      [] view.health[p] = "questionable" -> "MEDIUM"
      [] view.health[p] = "injured" -> "LOW"
      [] OTHER -> "none"

\* lineup_issues, by slot: nothing is said of a suspension.
LineupIssues(view) ==
    {i \in Slots : LET p == Occupant(view, i)
                   IN  \/ p = NoPlayer
                       \/ i \notin Eligible[p]
                       \/ view.health[p] \in {"out", "bye", "doubtful"}}

-----------------------------------------------------------------------------
(* ai/subs.py: "sub Lamar Jackson". A locked player is still offered;      *)
(* move_player refuses him.                                                *)

\* _BLOCKED: a doubtful or an inactive player may be subbed in.
Blocked(view, p) == view.health[p] \in {"out", "bye", "suspended"}

Available(view) == {p \in DOMAIN view.seats : view.seats[p] \in {Bench, IR} /\ ~Blocked(view, p)}

\* Who could take a starter's slot.
Replacements(view, starter) ==
    {Offer(p, "starter", view.seats[starter], starter) :
        p \in {q \in Available(view) : view.seats[starter] \in Eligible[q]}}

\* Which slots a player who is not starting could take. A taxi player is
\* offered them too.
SubDestinations(view, p) ==
    IF Blocked(view, p) THEN {} ELSE {Offer(p, "starter", i, Occupant(view, i)) : i \in Eligible[p]}

\* _one: the options for one named player.
SubOne(view, p) ==
    IF view.seats[p] \in Slots THEN Replacements(view, p) ELSE SubDestinations(view, p)

\* _pair and _direct: one in, one out, whichever of the two is starting.
SubPair(view, p, q) ==
    LET direct(incoming, outgoing) ==
          IF view.seats[outgoing] \in Eligible[incoming] /\ ~Blocked(view, incoming)
          THEN {Offer(incoming, "starter", view.seats[outgoing], outgoing)} ELSE {}
    IN  CASE view.seats[q] \in Slots /\ view.seats[p] \notin Slots -> direct(p, q)
          [] view.seats[p] \in Slots /\ view.seats[q] \notin Slots -> direct(q, p)
          [] OTHER -> {}

-----------------------------------------------------------------------------
(* ai/approvals.py.                                                        *)

\* swaps_mentioned: said is the pairs <<A, B>> for which the prose says "A
\* over B" without a word that declines it.
SwapsMentioned(view, said) ==
    {Offer(pair[1], "starter", view.seats[pair[2]], pair[2]) :
        pair \in {pair \in said :
            /\ view.seats[pair[1]] \notin Slots /\ view.seats[pair[2]] \in Slots
            /\ view.seats[pair[2]] \in Eligible[pair[1]]}}

\* start_over_action, else lineup_action without a name to replace.
StartOffer(view, p, i) ==
    Offer(p, "starter", i, IF Occupant(view, i) = p THEN NoPlayer ELSE Occupant(view, i))

\* move_action.
MoveOffer(p, destination) == Offer(p, destination, NoIndex, NoPlayer)
=============================================================================
