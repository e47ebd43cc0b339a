SPECIFICATION Spec
CONSTANTS
    NoFunction = NoFunction
    NoTx = NoTx
    r1 = r1
    r2 = r2
    f = f
    b1 = b1
    s1 = s1
    s2 = s2
    Peers <- MCPeers
    Names <- MCNames
    Bodies <- MCBodies
    Slots <- MCSlots
    MaxCalls = 6
INVARIANTS
    TypeOK
    UnanimousUnlessAllRestarted
    BallotsOfThisSuggestion
    AcknowledgedVotesStand
PROPERTIES
    RejectedIsFinal
    ImplementsVoteLedger
SYMMETRY Symmetry
CHECK_DEADLOCK FALSE
