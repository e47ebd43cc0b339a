------------------------ MODULE MCLibraryGovernance ------------------------
(* LibraryGovernance with two registries, one function name and one text   *)
(* for it (which is suggested again and again), and two transactions in    *)
(* flight.                                                                 *)
EXTENDS LibraryGovernance, TLC

CONSTANTS r1, r2, f, b1, s1, s2

MCPeers == {r1, r2}
MCNames == {f}
MCBodies == {b1}
MCSlots == {s1, s2}

\* No definition tells peers or slots apart.
Symmetry == Permutations(MCPeers) \cup Permutations(MCSlots)

=============================================================================
