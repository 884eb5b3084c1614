SPECIFICATION FairSpec
CONSTANTS
    Goroutines = {driver}
    ConfirmationDepth = 1
    FinalityDepth = 2
    Retention = 2
    Ahead = 1
    Funds = 1
    UnbondBlocks = 1
    SlashNum = 1
    SlashDen = 1
    MaxHeight = 4
    MaxSlashes = 1
CHECK_DEADLOCK FALSE
INVARIANT StakeInv
PROPERTIES   ChainGoesOn
