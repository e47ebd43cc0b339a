SPECIFICATION FairSpec
CONSTANTS
    None = None
    NoneText = NoneText
    Anywhere = Anywhere
    TicksPerDay = 2
    d1 = d1
    d2 = d2
    owner = owner
    other = other
    JP = JP
    US = US
    Data <- MCData
    Clients <- MCClients
    Owner = owner
    Places <- MCPlaces
    Grant <- MCGrant
    TokenLists <- MCTokenLists
    Arity = 2
    MaxTime = 2
    MaxCrashes = 2
INVARIANTS
    TypeOK
    BoundedUses
    FilesAccountForUses
    TornOnlyByCrash
PROPERTIES
    SessionsEnd
    ImplementsUsageControl
