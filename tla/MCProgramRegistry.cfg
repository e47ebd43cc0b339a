SPECIFICATION Spec
CONSTANTS
    Nothing = Nothing
    r1 = r1
    r2 = r2
    s1 = s1
    s2 = s2
    good = good
    leaky = leaky
    noSPID = noSPID
    Peers <- MCPeers
    Slots <- MCSlots
    Programs <- MCPrograms
    Leaky <- MCNone
    Refusals <- MCNone
    MaxLib = 1
    MaxCalls = 2
    MaxFaults = 0
INVARIANTS
    TypeOK
    SpecDescribesItsProgram
SYMMETRY SymmetryOfPrograms
CHECK_DEADLOCK FALSE
