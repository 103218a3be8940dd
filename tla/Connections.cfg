SPECIFICATION FairManager
CONSTANTS
    Conns <- MCConns
    MAX_CONNECTIONS = 2
CHECK_DEADLOCK FALSE
INVARIANTS
    InfoOutlivesWorker
PROPERTIES
    ClosedIsReaped
