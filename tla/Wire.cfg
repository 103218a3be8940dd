CONSTANTS
    Calls <- AllCalls
    Later <- Followers
    LongestName = 1
    MaxRequests = 2
    MaxConn = 2
SPECIFICATION FairSpec
CHECK_DEADLOCK FALSE
INVARIANTS
    InSync
    NotStartedNeverActs
PROPERTIES
    RequestEnds
