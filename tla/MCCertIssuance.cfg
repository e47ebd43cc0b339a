SPECIFICATION FairSpec
CONSTANTS
    e1 = e1
    e2 = e2
    server = server
    host = host
    Enclaves = {e1}
    Server = server
    Client <- MCClient
    Host = host
    MaxKeys = 7
    MaxThreads = 2
    None = None
    Unset = Blank
    Blank = Blank
    MaxCrashes = 1
    MaxRoots = 2
INVARIANTS
    TypeOK
    UndisturbedIsCertified
    RejectedForAReason
PROPERTIES
    ServerComesToRun
CHECK_DEADLOCK FALSE
