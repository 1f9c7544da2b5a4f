------------------------------ MODULE MCGameDay ------------------------------
\* Values for the constants of GameDay that a configuration cannot write.
EXTENDS GameDay, TLC
CONSTANTS a, b, c, g1, g2, mine, theirs
PlaysIn == (a :> g1) @@ (b :> g1) @@ (c :> g2)
On(team, starts) == [owner |-> team, starts |-> starts]
Squads == {(a :> On(mine, TRUE)) @@ (b :> On(theirs, TRUE)) @@ (c :> row) :
           row \in {On(Free, FALSE), On(mine, FALSE)}}
\* A starter has his bye in the first week: that lineup has played after one game.
Byes == [w \in 1..LastWeek |-> IF w = 1 THEN {b} ELSE {}]
==============================================================================
