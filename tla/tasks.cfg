SPECIFICATION Spec
CONSTANTS
    Wallets = {"a", "b"}
    Ecosystem = "eco"
    Tasks = {"edge"}
    ResourceTasks = {"edge"}
    RewardCap = 14
    Amounts = {14}
    Rewards = {7, 14}
    Rounds = {0, 1}
    Values = {v1, v2}
    PoolProofs <- MCPoolProofs
    Manifests <- MCManifests
    MaxSlotLag = 1
    Fee = 1
    StartBalance <- MCStartBalance
    MaxTxs <- MCMaxTxs
    Versions = {2}
    MaxHeight = 1
    None = None
CHECK_DEADLOCK FALSE
INVARIANTS TotalsInv CellConserved ReceiptPaidOnce ReplayAgrees
