SPECIFICATION FairSpec
CONSTANTS
    Workers = {"w1", "w2"}
    Requests = {"q1"}
    PlainJobs = {"j1"}
    MaxVerifications = 2
    MaxQueued = 1
    MaxProofReceipts = 2
    MaxFailures = 1
    None = None
CHECK_DEADLOCK FALSE
INVARIANTS LogInv  ProofsDisjoint
PROPERTIES  EventuallyTerminal
