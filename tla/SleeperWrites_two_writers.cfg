SPECIFICATION MCSpec
CONSTANTS
    p1 = p1
    p2 = p2
    p3 = p3
    Players = {p1, p2, p3}
    NoPlayer = NoPlayer
    NumSlots = 2
    Eligible <- MCEligible
    IREligible = {p2, p3}
    IRCapacity = 1
    Bench = Bench
    IR = IR
    Taxi = Taxi
    NoIndex = NoIndex
    Writers = {w1, w2}
    Weeks = {1, 2}
    CurrentWeek = 1
    TaxiSquad = {}
    InitSquad = {p1, p2, p3}
    InitStarters <- MCStarters
    InitReserve = {}
    Faults = {"prereadFails", "refused", "ignored", "readbackFails", "auth", "lost", "absent", "crash", "refresh", "kickoff"}
    MaxRequests = 2
    MaxEdits = 1
    MaxTurns = 2
SYMMETRY WriterSymmetry
INVARIANTS
    SeenListsStillHold
    StepsInSleeperOrder
PROPERTIES
    GuardedPushMovesOnlyTheRequest
    CommitMatchesSleeper
CHECK_DEADLOCK FALSE
