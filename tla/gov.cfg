SPECIFICATION FairSpec
CONSTANTS
    Addresses = {1, 2, 3}
    Configured = {1, 2}
    Params = {"reward_bps"}
    Values = {1}
    DefaultValue = 0
    MaxActivationDelay = 0
    Overlap = 1
    MaxTxs = 4
    TxHorizon = 2
    MaxHeight = 3
    MaxStops = 1
    None = None
INVARIANTS ListInv OpenVotesLive
 
CHECK_DEADLOCK FALSE
