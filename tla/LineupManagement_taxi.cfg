SPECIFICATION FairSpec
CONSTANTS
    p1 = p1
    p2 = p2
    p3 = p3
    p4 = p4
    p5 = p5
    Players = {p1, p2, p3, p4, p5}
    NoPlayer = NoPlayer
    NumSlots = 2
    Eligible <- MCEligible
    IREligible = {p1, p2, p5}
    IRCapacity = 1
    Bench = Bench
    IR = IR
    Taxi = Taxi
    NoIndex = NoIndex
    Rank <- MCRank
    InitialRosters <- TaxiRosters
    InitiallyLocked <- Nobody
    Events = {}
    MaxEvents = 2
PROPERTIES
    PlanIsCarriedOut
CHECK_DEADLOCK FALSE
