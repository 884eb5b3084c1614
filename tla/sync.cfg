SPECIFICATION FairSpec
CONSTANTS
    HTTPSync = TRUE
    Matures <- MCMatures
    Window = 2
    Lag = TRUE
    MaxHeight = 2
    MaxFaults = 1
    MaxInbox = 2
    Nobody = Nobody
CHECK_DEADLOCK FALSE
INVARIANTS AppliedOnce StateInv
PROPERTY CatchesUp
