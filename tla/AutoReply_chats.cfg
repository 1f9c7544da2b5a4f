SPECIFICATION FairSpec
CONSTANTS
    Managers = {m1, m2}
    None = None
    Faults = {"composeFails", "sendFails", "sendLost", "crash", "manual", "saves"}
    MaxMessages = 4
    MaxFaults = 2
INVARIANTS
    AnsweredOnce
PROPERTIES
    HandledOnce
    WaitingIsHandled
CHECK_DEADLOCK FALSE
