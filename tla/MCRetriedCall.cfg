SPECIFICATION FairSpec
CONSTANTS
    c1 = c1
    c2 = c2
    d1 = d1
    d2 = d2
    Clients = {c1, c2}
    Data = {d1, d2}
    Calls <- MCCalls
    ReadSize = 3
    Uses = 2
    Arity = 1
    RetryMax = 2
    MaxCrashes = 2
    Nobody = Nobody
INVARIANTS
    TypeOK
    WholeCall
    OncePerReset
    CompletedIsStored
PROPERTIES
    CallsEnd
CHECK_DEADLOCK FALSE
