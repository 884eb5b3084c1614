SPECIFICATION FairSpec
CONSTANTS
    Heights = {1}
    Hashes = {1, 2}
    Own = {1}
    Validators = {1, 2}
    Stakes <- MCStakes
    Balances <- MCBalances
    SlashNum = 1
    SlashDen = 2
    Peers = {"propose", "prevote", "precommit", "evidence"}
    MaxRound = 1
    MaxMoves = 2
CHECK_DEADLOCK FALSE
  
PROPERTIES ImplementsAgreement CommitTold
