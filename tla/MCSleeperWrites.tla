--------------------------- MODULE MCSleeperWrites ---------------------------
(* A two-slot lineup (one slot anyone fills, one slot only some do) and one IR *)
(* place, in two scenarios: rivals, where two writers change the current week  *)
(* at once beside the Sleeper app, and turns, where kickoffs, app changes and    *)
(* writes that do not overlap meet refreshes from a public copy that lags, over  *)
(* both weeks.                                                                 *)
EXTENDS SleeperWrites, TLC

CONSTANTS p1, p2, p3, MaxTurns

VARIABLE scenario

MCEligible == [p \in Players |-> IF p = p1 THEN {1} ELSE {1, 2}]
\* p1 starts, p2 and p3 are on the bench.
MCStarters == [i \in Slots |-> IF i = 1 THEN p1 ELSE NoPlayer]

Rivals ==
    /\ scenario = "rivals"
    /\ UNCHANGED <<public, kicked>> /\ (local' # local => job' # job)
    /\ \A w \in Writers : job'[w].week = CurrentWeek
    /\ \A k \in Weeks \ {CurrentWeek} : starters'[k] = starters[k] \/ squad' # squad

Turns ==
    /\ scenario = "turns"
    /\ Cardinality({w \in Writers : job'[w].phase # "idle"}) <= 1
    /\ requests' + edits' + Cardinality(kicked') <= MaxTurns

MCInit == Init /\ scenario \in {"rivals", "turns"}

MCSpec ==
    /\ MCInit
    /\ [][Next /\ UNCHANGED scenario /\ (Rivals \/ Turns)]_<<vars, scenario>>

WriterSymmetry == Permutations(Writers)
=============================================================================
