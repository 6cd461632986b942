------------------------- MODULE PlasticityEngineMC -------------------------
(* Instances of PlasticityEngine for TLC. *)
EXTENDS PlasticityEngine, TLC

\* No parameter is singled out.
Symmetry == Permutations(Targets)

\* A setter that rounds down to an even number, as int() rounds to a whole one, up to 8.
Rounded == [t \in Targets |-> [v \in Values |-> IF v > 8 THEN v ELSE v - (v % 2)]]
=============================================================================
