---------------------------- MODULE MCLeagueSync ----------------------------
(* Values for the constants of LeagueSync: two teams with a player each and a *)
(* third player.                                                              *)
EXTENDS LeagueSync

CONSTANTS p1, p2, p3, t1, t2

MCInitOwner == [p \in Players |-> CASE p = p1 -> t1 [] p = p2 -> t2 [] OTHER -> NoTeam]
=============================================================================
