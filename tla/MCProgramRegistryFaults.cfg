SPECIFICATION Spec
CONSTANTS
    Nothing = Nothing
    r1 = r1
    r2 = r2
    s1 = s1
    s2 = s2
    good = good
    leaky = leaky
    noSPID = noSPID
    Peers <- MCOnePeer
    Slots <- MCSlots
    Programs <- MCPrograms
    Leaky <- MCLeaky
    Refusals <- MCRefusals
    MaxLib = 1
    MaxCalls = 2
    MaxFaults = 2
INVARIANTS
    RegisteredAsCalled
    ServersAgree
SYMMETRY SymmetryOfSlots
CHECK_DEADLOCK FALSE
