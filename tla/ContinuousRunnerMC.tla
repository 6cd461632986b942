------------------------- MODULE ContinuousRunnerMC -------------------------
(***************************************************************************)
(* Instances of ContinuousRunner for TLC.                                  *)
(***************************************************************************)
EXTENDS ContinuousRunner
=============================================================================
