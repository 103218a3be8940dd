SPECIFICATION Spec
CONSTANTS
    Pids <- MCPids
    MaxSessions = 2
    MaxRecords = 2
    MaxCalls = 6
CHECK_DEADLOCK FALSE
INVARIANTS
    BackendAliveWhileUsed
    ReadsOwnProcess
    TableNamesLiveRecords
    PublishedHandleIsLive
