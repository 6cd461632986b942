---------------------------- MODULE ApprovalsMC ----------------------------
(* Two interchangeable processes over one request. *)
EXTENDS Approvals, TLC

CONSTANTS p1, p2

BothProcesses == {p1, p2}
ProcessSymmetry == Permutations(BothProcesses)
=============================================================================
