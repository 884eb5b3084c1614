SPECIFICATION Spec
CONSTANTS
    Addresses = {1, 2, 3, 4}
    Configured = {1, 2, 3}
    Params = {}
    Values = {0}
    DefaultValue = 0
    MaxActivationDelay = 0
    Overlap = 0
    MaxTxs = 5
    TxHorizon = 1
    MaxHeight = 1
    MaxStops = 0
    None = None
PROPERTIES RemovedVotesDontCount
CHECK_DEADLOCK FALSE
