SPECIFICATION Spec
CONSTANTS
    None = None
    NoneText = NoneText
    Anywhere = Anywhere
    JP = JP
    US = US
    TicksPerDay = 2
    Limits <- MCLimits
    Declared <- MCDeclared
    Dates <- MCDates
    Locations <- MCLocations
    Places <- MCPlaces
    MaxTime = 3
INVARIANTS
    TypeOK
    CounterWithinPolicy
    HeldWherePolicyAllows
    HeldWhilePolicyAllows
CHECK_DEADLOCK FALSE
