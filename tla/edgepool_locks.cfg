SPECIFICATION HiveSpec
CONSTANTS
    Workers = {"w1"}
    Requests = {"q1"}
    PlainJobs = {"j1"}
    MaxVerifications = 2
    MaxQueued = 1
    MaxProofReceipts = 2
    MaxFailures = 0
    None = None
CHECK_DEADLOCK FALSE
PROPERTY AgentAnswered
