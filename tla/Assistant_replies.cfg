SPECIFICATION AssistantFairSpec
CONSTANTS
    p1 = p1
    p2 = p2
    p3 = p3
    p4 = p4
    p5 = p5
    Players = {p1, p2, p3, p4, p5}
    NoPlayer = NoPlayer
    NumSlots = 2
    Eligible <- MCEligible
    IREligible = {p4}
    IRCapacity = 1
    Bench = Bench
    IR = IR
    Taxi = Taxi
    NoIndex = NoIndex
    Position <- MCPosition
    SlotPosition <- MCSlots
    MaxRosterSize = 5
    TaxiSlots = 0
    Points <- MCPoints
    Order <- MCOrder
    FirstRosters <- MCRosters
    MaxRounds = 2
    MaxCalls = 2
    MaxSaid = 1
    Kinds = {"chat", "advice", "schema", "note"}
    MaxChats = 1
    Injuries = {"questionable", "out", "suspended", "inactive"}
    Outside = {"app", "health", "kickoff", "claim", "busy", "down", "lost"}
    MaxOutside = 1
INVARIANT
    ProposalsFitTheLineup
    AppraisalsAgree
PROPERTIES
    OnlyWhatWasDecided
    EveryRequestIsAnswered
    AdviceSettles
CHECK_DEADLOCK FALSE
