------------------------- MODULE MCLineupManagement -------------------------
(* Two starting slots, one IR spot and five players: two starters, two on   *)
(* the bench, one on IR or on the taxi squad.                              *)
EXTENDS LineupManagement, TLC

CONSTANTS p1, p2, p3, p4, p5

MCEligible == p1 :> {1} @@ p2 :> {2} @@ p3 :> {1, 2} @@ p4 :> {2} @@ p5 :> {1, 2}
MCRank == p5 :> 1 @@ p3 :> 2 @@ p4 :> 3 @@ p1 :> 4 @@ p2 :> 5

WithIR == p1 :> 1 @@ p2 :> 2 @@ p3 :> Bench @@ p4 :> Bench @@ p5 :> IR
WithTaxi == [WithIR EXCEPT ![p5] = Taxi]
FewStarters == [WithIR EXCEPT ![p2] = Bench]

Exchanged == [WithIR EXCEPT ![p2] = Bench, ![p4] = 2]

IRRosters == {WithIR, FewStarters, Exchanged}
TaxiRosters == {WithTaxi}
OneRoster == {WithIR}

Thursday == {{}, {p4}}
Nobody == {{}}
=============================================================================
