SPECIFICATION Spec
CONSTANTS
    Goroutines = {"driver", "follower"}
    Stake = 2
    UnbondWindow = 1
    NoFile = NoFile
    NoBlock = NoBlock
    MaxBlocks = 5
    MaxStops = 2
CHECK_DEADLOCK FALSE
INVARIANTS JournalInv SentSurvives Conserved ReceiptsOfChain
 
