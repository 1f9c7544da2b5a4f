SPECIFICATION FairSpec
CONSTANTS
    Requests = {r1, r2}
    Background = Background
    FreshSeconds = 2
    BootTime = 2
    MaxTime = 5
    MaxVersion = 3
    Imported = TRUE
    Faults = {"pullFails", "escapes", "restart"}
INVARIANTS
    WriteFollowsAPull
PROPERTIES
    SavedNeverGoesBack
    SharesOnePull
    EveryCallReturns
CHECK_DEADLOCK FALSE
