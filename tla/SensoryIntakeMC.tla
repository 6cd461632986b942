-------------------------- MODULE SensoryIntakeMC --------------------------
(* Instances of SensoryIntake for TLC. *)
EXTENDS SensoryIntake

\* Lines of different lengths.
Widths == [n \in Envelopes |-> IF n = 2 THEN 3 ELSE 2]

\* The third envelope repeats the content of the first.
Contents == [n \in Envelopes |-> IF n = 3 THEN 1 ELSE n]

TwoSources == <<"sound", "light">>
=============================================================================
