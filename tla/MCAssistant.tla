---------------------------- MODULE MCAssistant ----------------------------
(* An RB slot and a flex, four rostered players, two with the same         *)
(* projection, one with less and one without any, and a free agent.        *)
EXTENDS Assistant, TLC

CONSTANTS p1, p2, p3, p4, p5

MCEligible == p1 :> {1, 2} @@ p2 :> {2} @@ p3 :> {1, 2} @@ p4 :> {2} @@ p5 :> {2}
MCPosition == p1 :> "RB" @@ p2 :> "TE" @@ p3 :> "RB" @@ p4 :> "TE" @@ p5 :> "TE"
MCSlots == <<"RB", "FLEX">>
MCPoints == p1 :> 20 @@ p2 :> 15 @@ p3 :> 20 @@ p5 :> 19
MCOrder == p1 :> 1 @@ p2 :> 2 @@ p3 :> 3 @@ p4 :> 4 @@ p5 :> 5

MCRosters == {p1 :> 1 @@ p2 :> 2 @@ p3 :> Bench @@ p4 :> Bench}
=============================================================================
