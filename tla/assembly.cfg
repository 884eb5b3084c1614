SPECIFICATION FairSpec
CONSTANTS
    Proofs = {"p1", "p2"}
    Miner <- MCMiner
    ProofHeight <- MCProofHeight
    Submitters = {"s1", "s2"}
    Resubmits <- MCResubmits
    UserTxs <- MCUserTxs
    Sends = 1
    Grace = 0
    Retain = 0
    MaxSize = 3
    MaxTxBlock = 2
    MiningCap = 4
    BlocksPerEpoch = 1
    MaxExternal = 1
    MaxHeight = 3
CHECK_DEADLOCK FALSE
INVARIANTS PoolInv ProofsAccounted AcceptedOnce 
PROPERTIES EventuallyPaid
