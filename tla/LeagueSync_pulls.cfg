SPECIFICATION FairSpec
CONSTANTS
    p1 = p1
    p2 = p2
    p3 = p3
    t1 = t1
    t2 = t2
    Players = {p1, p2, p3}
    Teams = {t1, t2}
    NoTeam = NoTeam
    Syncs = {s1}
    Refresh = Refresh
    LastWeek = 3
    WeeksBack = 1
    InitOwner <- MCInitOwner
    MayEmpty = FALSE
    Faults = {"pullFails", "restart"}
    MaxChanges = 2
    MaxFaults = 1
INVARIANTS
    OneTeamPerPlayer
PROPERTIES
    SavedCatchesUp
    StatusSettles
CHECK_DEADLOCK FALSE
