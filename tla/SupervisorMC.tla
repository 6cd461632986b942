---------------------------- MODULE SupervisorMC ----------------------------
(* The plans of the model checking runs of Supervisor. *)
EXTENDS Supervisor

\* A run with a shorter last segment, and one without a bound.
StepPlans == [mode : {"bounded"}, steps : {3}] \cup [mode : {"continuous_explicit"}, steps : {NoBound}]

\* The same, and one that its mode needs a bound for and that has none.
MixedPlans == StepPlans \cup [mode : {"soak"}, steps : {NoBound}]

\* Every mode with a step bound and without one.
AllPlans == [mode : Modes, steps : {3, NoBound}]
=============================================================================
