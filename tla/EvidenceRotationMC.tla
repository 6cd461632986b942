------------------------- MODULE EvidenceRotationMC -------------------------
(* Two interchangeable sessions. *)
EXTENDS EvidenceRotation, TLC

CONSTANTS p1, p2

BothSessions == {p1, p2}
SessionSymmetry == Permutations(BothSessions)
=============================================================================
