--------------------------- MODULE RunRegistryMC ---------------------------
(* Interchangeable supervised runs on one registry. *)
EXTENDS RunRegistry, TLC

CONSTANTS r1, r2, r3

ThreeRuns == {r1, r2, r3}
RunSymmetry == Permutations(ThreeRuns)
=============================================================================
