SPECIFICATION Spec
CONSTANTS
    w1 = w1
    w2 = w2
    l1 = l1
    g1 = g1
    g2 = g2
    e1 = e1
    e2 = e2
    e3 = e3
    funder = funder
    Wallets = {w1}
    LegacyOwners = {l1}
    Funder = funder
    Nodes <- MCNodes2
    GPUs = {g1}
    DoubleMining = {}
    Forged = {}
    AcceptedProofs = {}
    Malformed = {e2}
    Culprit <- MCCulprit
    MinEnrollStake = 2
    UnbondWindow = 2
    SunsetHeight = 1
    SignedHeight = 3
    AutoRevokeMin = 1
    RewardBPS = 5000
    SlashCap = 2
    Genesis <- MCGenesis
    Supply = 8
    NoRec = NoRec
    NoTx = NoTx
    Overlap = 1
    Fees = {1}
    TransferAmounts = {1}
    RewardAmounts = {3}
    SlashAmounts = {2}
    MaxNonce = 2
    TxHorizon = 4
    MaxHeight = 4
INVARIANT DustConserved
CHECK_DEADLOCK FALSE
