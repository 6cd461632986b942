----------------------------- MODULE Continuity -----------------------------
(***************************************************************************)
(* What the continuity machinery of runtime/ promises, with no file, no    *)
(* process and no step in sight.                                           *)
(*                                                                         *)
(* A brain is unborn, alive, resting (its last session ended gracefully)   *)
(* or lost (its last session ended and nothing says it ended well).  A     *)
(* lost brain may only live again after the loss has been put on record,   *)
(* a resting brain never has a loss recorded against it, and the lifetime  *)
(* it is credited with only grows, and only while it lives.                *)
(*                                                                         *)
(* ContinuousRunner implements this module; see Life there.                *)
(***************************************************************************)
EXTENDS Naturals

VARIABLES
    phase,      \* "unborn", "alive", "resting" or "lost"
    lifetime,   \* steps the brain is credited with
    reported    \* the present loss is on record

vars == <<phase, lifetime, reported>>

TypeOK ==
    /\ phase \in {"unborn", "alive", "resting", "lost"}
    /\ lifetime \in Nat
    /\ reported \in BOOLEAN

Init ==
    /\ phase = "unborn"
    /\ lifetime = 0
    /\ reported = FALSE

\* A first life, a life after a rest, or one after a loss that was reported.
Awaken ==
    /\ phase \in {"unborn", "resting"} \/ (phase = "lost" /\ reported)
    /\ phase' = "alive"
    /\ reported' = FALSE
    /\ UNCHANGED lifetime

\* Being credited with steps.
Grow ==
    /\ phase = "alive"
    /\ lifetime' \in Nat
    /\ lifetime' >= lifetime
    /\ UNCHANGED <<phase, reported>>

\* A graceful end.
Rest ==
    /\ phase = "alive"
    /\ phase' = "resting"
    /\ UNCHANGED <<lifetime, reported>>

\* Any other end.
Lose ==
    /\ phase = "alive"
    /\ phase' = "lost"
    /\ UNCHANGED <<lifetime, reported>>

Report ==
    /\ phase = "lost"
    /\ reported' = TRUE
    /\ UNCHANGED <<phase, lifetime>>

Next == Awaken \/ Grow \/ Rest \/ Lose \/ Report

Spec == Init /\ [][Next]_vars
=============================================================================
