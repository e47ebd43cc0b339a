SPECIFICATION FairSpec
CONSTANTS
    None = None
    NoneText = NoneText
    Anywhere = Anywhere
    TicksPerDay = 2
    NoSpec = NoSpec
    a1 = a1
    a2 = a2
    both = both
    x = x
    c1 = c1
    c2 = c2
    t1 = t1
    t2 = t2
    JP = JP
    person = person
    age = age
    gender = gender
    Threads <- MCOneThread
    Apps <- MCApps
    Data <- MCData
    Consumers <- MCConsumers
    Registries = 2
    Specs <- MCSpecs
    Policies <- MCSharedPolicies
    Requests <- MCRequests
    Flaky = {2}
    MaxCommits = 1
    MaxCrashes = 1
INVARIANTS
    RowsWereAllowed
PROPERTIES
    LostGrantsStayLost
    EveryApplicationAnswered
