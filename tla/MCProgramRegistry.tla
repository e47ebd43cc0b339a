------------------------- MODULE MCProgramRegistry -------------------------
(* ProgramRegistry with two registries, two calls and two programs; or with *)
(* one registry, which refuses uploads and whose steps may fail unnoticed.  *)
EXTENDS ProgramRegistry, TLC

CONSTANTS r1, r2, s1, s2, good, leaky, noSPID

MCPeers == {r1, r2}
MCOnePeer == {r1}
MCSlots == {s1, s2}
MCPrograms == {good, leaky}
MCLeaky == {[program |-> leaky, lib |-> 1]}
MCRefusals == {noSPID}
MCNone == {}

\* No definition tells registries or slots apart, or programs when none leaks.
SymmetryOfSlots == Permutations(MCSlots)
SymmetryOfPrograms ==
    SymmetryOfSlots \cup Permutations(MCPeers) \cup Permutations(MCPrograms)

=============================================================================
