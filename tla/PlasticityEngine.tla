-------------------------- MODULE PlasticityEngine --------------------------
(***************************************************************************)
(* The plasticity engine of plasticity/plasticity_engine.py with its audit *)
(* and its rollback records, in the sessions of a runner that saves the    *)
(* parameters with its checkpoints.                                        *)
(*                                                                         *)
(* Two files outlive a session and are written at different times: the     *)
(* audit at every event, the parameters at every checkpoint.  A new        *)
(* session takes its rollback records from the audit and its values from   *)
(* the checkpoint.  A session without plasticity, which is the default,    *)
(* has no engine, and its checkpoints hold no parameters.                  *)
(*                                                                         *)
(* A step's identity is a number that grows, so a set of rows tells their  *)
(* order.  Values are those of parameters that nothing but the engine      *)
(* sets; the weights of habits, which learning moves too, are left out.    *)
(***************************************************************************)
EXTENDS Naturals, Sequences

CONSTANTS
    Targets,    \* mutable parameters
    Safe,       \* values within SAFE_BOUNDS
    Unsafe,     \* other values a policy may propose
    Default,    \* the value a new bridge gives every parameter, within SAFE_BOUNDS or not
    Kept,       \* the value a parameter has after its setter was given another: int(), for one
    Governed,   \* the registry does not have every target, or a governance gate may deny a step
    MaxSteps,   \* bound of the model: steps proposed
    MaxBatch,   \* bound of the model: steps of one evaluation
    MaxStarts,  \* bound of the model: sessions
    NoValues    \* no checkpoint, or one without parameters

VARIABLES
    \* The state directory.
    audit,      \* plasticity_audit.jsonl
    saved,      \* mutable_params of latest_checkpoint.json
    \* The session.
    pc,         \* what it is about to do
    config,     \* how the session was built: enable_plasticity, dry_run, bridge.esn is not None
    live,       \* the values in the TargetRegistry
    records,    \* RollbackManager.records
    undone,     \* of them, the ids with rolled_back set
    batch,      \* steps still to apply, or the record being rolled back
    \* History, read by the properties and by no guard but the bounds.
    starts,     \* sessions so far
    drawn,      \* step ids drawn so far
    caught,     \* targets a Ctrl-C caught between a new value and its row
    amiss       \* what else has come between the audit and the values, see Mishaps

disk == <<audit, saved>>
memory == <<config, live, records, undone>>
history == <<starts, drawn, caught, amiss>>
vars == <<disk, pc, memory, batch, history>>

Events == {"proposed", "rejected", "applied", "rollback", "rollback_failed"}
Values == Safe \cup Unsafe
Step == [id : Nat, target : Targets, old : Values, new : Values]
DefaultConfig == [plastic |-> FALSE, dryRun |-> FALSE, esn |-> TRUE]
Config == {DefaultConfig} \cup [plastic : {TRUE}, dryRun : BOOLEAN, esn : BOOLEAN]
Row == [event : Events, step : Step]
Evaluating == {"apply", "set", "registered"}
Running == {"idle", "rollback", "final"} \cup Evaluating
\* A new value is there and its row is not.
Unlogged == {"set", "registered", "rollback"}
\* A process died with values no checkpoint holds or a change no row tells of; a step was rolled
\* back before a later one of its target; a session without plasticity put a checkpoint without
\* parameters over one with them; a rollback failed.
Mishaps == {"loss", "skip", "erasure", "failure"}

ASSUME ValuesAssumption ==
    /\ Default \in Values /\ Safe \cap Unsafe = {}
    /\ NoValues \notin [Targets -> Values]
    /\ Governed \in BOOLEAN

\* What a setter keeps it keeps again, and of a value within the bounds it keeps one within them,
\* or the default whatever it is given: set_spectral_radius of a reservoir whose radius is 0.
ASSUME KeptAssumption ==
    /\ Kept \in [Targets -> [Values -> Values]]
    /\ \A t \in Targets, v \in Values : Kept[t][Kept[t][v]] = Kept[t][v]
    /\ \A t \in Targets, v \in Safe : Kept[t][v] \in Safe \/ Kept[t][v] = Kept[t][Default]

ASSUME BoundsAssumption ==
    MaxSteps \in Nat /\ MaxBatch \in Nat /\ MaxStarts \in Nat

-----------------------------------------------------------------------------
Defaults == [t \in Targets |-> Default]

Rows(events) == {r \in audit : r.event \in events}

LogRow(event, step) == audit' = audit \cup {[event |-> event, step |-> step]}

\* The row of a rollback speaks of the change back.
Reversed(step) == [step EXCEPT !.old = step.new, !.new = step.old]

\* To the setter of t the values are one.
Same(t, v, w) == Kept[t][v] = Kept[t][w]

\* apply_values over the values of a new bridge: what was saved goes through the setters.
Restored == IF saved = NoValues THEN Defaults ELSE [t \in Targets |-> Kept[t][saved[t]]]

\* Slip: what was rolled back before is not looked up.
UndoneForgotten == {}

\* load_history_from_audit: the steps that have a row of a rollback, a failed one too.
UndoneInAudit == {r.step.id : r \in Rows({"rollback", "rollback_failed"})}

Forget ==
    /\ pc' = "off"
    /\ live' = Defaults /\ records' = {} /\ undone' = {}
    /\ config' = DefaultConfig
    /\ batch' = <<>>

Init ==
    /\ audit = {} /\ saved = NoValues
    /\ pc = "off"
    /\ live = Defaults /\ records = {} /\ undone = {}
    /\ config = DefaultConfig
    /\ batch = <<>>
    /\ starts = 0 /\ drawn = 0
    /\ caught = {} /\ amiss = {}

\* A new runner: values from the checkpoint, rollback records from the audit.
Start ==
    /\ pc = "off"
    /\ starts < MaxStarts
    /\ pc' = "idle"
    /\ config' \in [plastic : {TRUE}, dryRun : BOOLEAN, esn : BOOLEAN]
    /\ live' = Restored
    /\ records' = {r.step : r \in Rows({"applied"})}
    /\ undone' = UndoneInAudit
    /\ starts' = starts + 1
    /\ UNCHANGED <<disk, batch, drawn, caught, amiss>>

\* A new runner without an engine leaves the defaults and reads no audit.
StartWithout ==
    /\ pc = "off"
    /\ starts < MaxStarts
    /\ pc' = "idle"
    /\ starts' = starts + 1
    /\ UNCHANGED <<disk, memory, batch, drawn, caught, amiss>>

(* evaluate: propose, then apply one step after the other *)

\* A policy proposes a change of each target at most once, and each proposal is audited.
Propose ==
    /\ pc = "idle"
    /\ config.plastic
    /\ \E n \in 1 .. MaxBatch :
       \E target \in [1 .. n -> Targets], new \in [1 .. n -> Values] :
           /\ drawn + n <= MaxSteps
           /\ \A i, j \in 1 .. n : target[i] = target[j] => i = j
           /\ \A i \in 1 .. n : new[i] # live[target[i]]
           /\ batch' = [i \in 1 .. n |-> [id |-> drawn + i, target |-> target[i],
                                          old |-> live[target[i]], new |-> new[i]]]
           /\ audit' = audit \cup {[event |-> "proposed", step |-> batch'[i]] : i \in 1 .. n}
           /\ drawn' = drawn + n
    /\ pc' = "apply"
    /\ UNCHANGED <<saved, memory, starts, caught, amiss>>

\* Slip: an event type that EVENT_TYPES does not list.
RejectFreely ==
    /\ pc = "apply" /\ batch # <<>>
    /\ Head(batch).new \notin Safe \/ Governed
    /\ LogRow("denied", Head(batch))
    /\ batch' = Tail(batch)
    /\ UNCHANGED <<saved, pc, memory, history>>

\* The validator, the registry or the governance gate says no.
Reject ==
    /\ pc = "apply" /\ batch # <<>>
    /\ Head(batch).new \notin Safe \/ Governed
    /\ LogRow("rejected", Head(batch))
    /\ batch' = Tail(batch)
    /\ UNCHANGED <<saved, pc, memory, history>>

PassOver ==
    /\ pc = "apply" /\ batch # <<>>
    /\ Head(batch).new \in Safe
    /\ config.dryRun
    /\ batch' = Tail(batch)
    /\ UNCHANGED <<disk, pc, memory, history>>

\* Slip: the bounds are left to the policy.
SetAnyValue ==
    /\ pc = "apply" /\ batch # <<>>
    /\ ~config.dryRun
    /\ live' = [live EXCEPT ![Head(batch).target] = Kept[Head(batch).target][Head(batch).new]]
    /\ batch' = [batch EXCEPT ![1].old = live[Head(batch).target]]
    /\ pc' = "set"
    /\ UNCHANGED <<disk, config, records, undone, history>>

\* The setter may keep another value; the record and the row have the one it was given.
SetValue ==
    /\ pc = "apply" /\ batch # <<>>
    /\ Head(batch).new \in Safe
    /\ ~config.dryRun
    /\ live' = [live EXCEPT ![Head(batch).target] = Kept[Head(batch).target][Head(batch).new]]
    /\ batch' = [batch EXCEPT ![1].old = live[Head(batch).target]]
    /\ pc' = "set"
    /\ UNCHANGED <<disk, config, records, undone, history>>

\* The effect is observed on the ESN's state, and the step can be rolled back from here on.
Register ==
    /\ pc = "set"
    /\ config.esn
    /\ records' = records \cup {Head(batch)}
    /\ pc' = "registered"
    /\ UNCHANGED <<disk, config, live, undone, batch, history>>

\* There is no ESN to observe: the exception leaves the evaluation and the runner's loop.
Raise ==
    /\ pc = "set"
    /\ ~config.esn
    /\ Forget
    /\ amiss' = amiss \cup {"loss"}
    /\ UNCHANGED <<disk, starts, drawn, caught>>

\* Slip: an application is counted and not audited.
LogAppliedNot ==
    /\ pc = "registered"
    /\ batch' = Tail(batch)
    /\ pc' = "apply"
    /\ UNCHANGED <<disk, memory, history>>

LogApplied ==
    /\ pc = "registered"
    /\ LogRow("applied", Head(batch))
    /\ batch' = Tail(batch)
    /\ pc' = "apply"
    /\ UNCHANGED <<saved, memory, history>>

EndEvaluation ==
    /\ pc = "apply" /\ batch = <<>>
    /\ pc' = "idle"
    /\ UNCHANGED <<disk, memory, batch, history>>

(* rollback *)

Undoable == {rec \in records : rec.id \notin undone}

\* A later change of the same target is still there.
Skip(rec) ==
    IF \E later \in Undoable : later.target = rec.target /\ later.id > rec.id THEN {"skip"} ELSE {}

\* The old value is set, and read back to verify it.
Restore(rec) ==
    /\ Kept[rec.target][rec.old] = rec.old
    /\ live' = [live EXCEPT ![rec.target] = rec.old]
    /\ undone' = undone \cup {rec.id}
    /\ amiss' = amiss \cup Skip(rec)
    /\ batch' = <<rec>>
    /\ pc' = "rollback"
    /\ UNCHANGED <<disk, config, records, starts, drawn, caught>>

\* Slip: rolled_back is not looked at.
RollbackAgain ==
    /\ pc = "idle"
    /\ \E rec \in records : Restore(rec)

\* Any step by its id; rollback_last is the one with the highest.
Rollback ==
    /\ pc = "idle"
    /\ \E rec \in Undoable : Restore(rec)

\* The session's registry lacks the target or its setter refuses the value; or the setter keeps
\* another one, which stays.
RollbackFails ==
    /\ pc = "idle"
    /\ \E rec \in Undoable :
           /\ \/ live' = live
              \/ /\ Kept[rec.target][rec.old] # rec.old
                 /\ live' = [live EXCEPT ![rec.target] = Kept[rec.target][rec.old]]
           /\ batch' = <<rec>>
    /\ pc' = "rollback"
    /\ amiss' = amiss \cup {"failure"}
    /\ UNCHANGED <<disk, config, records, undone, starts, drawn, caught>>

\* The step was rolled back before.
RefuseRollback ==
    /\ pc = "idle"
    /\ \E rec \in records \ Undoable : LogRow("rollback_failed", Reversed(rec))
    /\ UNCHANGED <<saved, pc, memory, batch, history>>

LogRollback ==
    /\ pc = "rollback"
    /\ LogRow(IF Head(batch).id \in undone THEN "rollback" ELSE "rollback_failed",
              Reversed(Head(batch)))
    /\ batch' = <<>>
    /\ pc' = "idle"
    /\ UNCHANGED <<saved, memory, history>>

(* the runner *)

\* The checkpoint holds the registry's values, or none if there is no engine.
SaveValues ==
    /\ saved' = IF config.plastic THEN live ELSE NoValues
    /\ amiss' = IF ~config.plastic /\ \E t \in Targets : ~Same(t, Restored[t], Default)
                THEN amiss \cup {"erasure"} ELSE amiss

\* _checkpoint, at its interval and after a rollback.
Checkpoint ==
    /\ pc = "idle"
    /\ SaveValues
    /\ UNCHANGED <<audit, pc, memory, batch, starts, drawn, caught>>

EndLoop ==
    /\ pc = "idle"
    /\ pc' = "final"
    /\ UNCHANGED <<disk, memory, batch, history>>

\* A Ctrl-C anywhere in the loop goes to the final checkpoint.
Interrupt ==
    /\ pc \in Running \ {"final"}
    /\ pc' = "final"
    /\ caught' = IF pc \in Unlogged THEN caught \cup {Head(batch).target} ELSE caught
    /\ batch' = <<>>
    /\ UNCHANGED <<disk, memory, starts, drawn, amiss>>

Finalize ==
    /\ pc = "final"
    /\ SaveValues
    /\ Forget
    /\ UNCHANGED <<audit, starts, drawn, caught>>

\* The process is killed, or a session that was only used for a rollback is dropped.
Crash ==
    /\ pc \in Running
    /\ Forget
    /\ amiss' = IF \/ pc \in Unlogged
                   \/ config.plastic /\ \E t \in Targets : ~Same(t, live[t], Restored[t])
                THEN amiss \cup {"loss"} ELSE amiss
    /\ UNCHANGED <<disk, starts, drawn, caught>>

Next ==
    \/ Start \/ StartWithout
    \/ Propose \/ Reject \/ PassOver \/ SetValue \/ Register \/ Raise \/ LogApplied \/ EndEvaluation
    \/ Rollback \/ RollbackFails \/ RefuseRollback \/ LogRollback
    \/ Checkpoint \/ EndLoop \/ Interrupt \/ Finalize \/ Crash

Spec == Init /\ [][Next]_vars
-----------------------------------------------------------------------------
(* What must hold. *)

DiskTypes ==
    /\ audit \subseteq Row
    /\ saved \in [Targets -> Values] \cup {NoValues}

SessionTypes ==
    /\ pc \in Running \cup {"off"}
    /\ config \in Config
    /\ live \in [Targets -> Values]
    /\ records \subseteq Step
    /\ undone \subseteq Nat
    /\ batch \in Seq(Step)

HistoryTypes ==
    /\ starts \in Nat /\ drawn \in Nat
    /\ caught \subseteq Targets
    /\ amiss \subseteq Mishaps

\* The variables have their types.
TypeOK == DiskTypes /\ SessionTypes /\ HistoryTypes

\* The only value outside the bounds that a parameter ever has, live or saved, is the one it began
\* with: a rollback is not validated, and may put that one back, but it finds no other in a record,
\* of whatever session that is.
Bounded(t, v) == v \in Safe \/ Same(t, v, Default)
InBounds ==
    /\ \A t \in Targets : Bounded(t, live[t])
    /\ saved # NoValues => \A t \in Targets : Bounded(t, saved[t])

\* Some row of the audit tells of the value v of t, or nothing has to.
Told(t, v) ==
    \/ Same(t, v, Default)
    \/ \E r \in Rows({"applied", "rollback", "rollback_failed"}) :
           r.step.target = t /\ Same(t, v, r.step.new)

\* A saved value, and a live one when the engine is at rest, is the default or stands in the audit
\* as the result of an application or a rollback, over crashes, failed rollbacks and sessions
\* without plasticity.  A Ctrl-C between a value and its row leaves out the row for good: the
\* target it caught is exempt, and NothingSilent says what the documentation says of it.
ToldUnlessCaught ==
    \A t \in Targets \ caught :
        /\ saved # NoValues => Told(t, saved[t])
        /\ pc = "idle" => Told(t, live[t])

\* No step is rolled back that the audit holds as rolled back, by this session or another one.
NeverUndoneTwice ==
    [][pc = "idle" /\ pc' = "rollback" =>
           ~\E r \in Rows({"rollback"}) : r.step.id = Head(batch').id]_vars

\* What is there to undo, as of a target.
UndoableOf(t) == {rec \in Undoable : rec.target = t}
Before(rec) == {e \in UndoableOf(rec.target) : e.id < rec.id}
LastOf(recs) == {rec \in recs : \A e \in recs : e.id <= rec.id}
ValueAfter(recs) ==
    IF recs = {} THEN Default ELSE (CHOOSE rec \in LastOf(recs) : TRUE).new

\* Each record takes up where the one before it left off, and the last one is in effect, as far as
\* the setters tell values apart: to roll back the last one, again and again, leads through the
\* past values back to the defaults.
Unwinds ==
    \A t \in Targets :
        /\ Same(t, live[t], ValueAfter(UndoableOf(t)))
        /\ \A rec \in UndoableOf(t) : Same(t, rec.old, ValueAfter(Before(rec)))

\* The history of changes unwinds in every session with plasticity, over any number of orderly
\* restarts, for as long as there was no mishap: no crash that lost values, no step rolled back
\* before a later one, no session without plasticity that erased the values, no failed rollback,
\* no Ctrl-C between a value and its row.  Each of them breaks it.
HistoryUnwinds == pc = "idle" /\ config.plastic /\ amiss = {} /\ caught = {} => Unwinds

-----------------------------------------------------------------------------
(* What the documentation says and the code does not keep. *)

\* docs/ARCHITECTURE.md:372-375, 391-392: the history is rebuilt from the audit log, so rollback
\* works in a fresh process, and one command undoes the most recent change.
FreshProcessUnwinds ==
    pc = "idle" /\ config.plastic /\ amiss \subseteq {"loss"} /\ caught = {} => Unwinds

\* plasticity/audit.py:3-4: plasticity must never happen silently; every application and rollback
\* is written to the audit.  Here: every saved value is told of, whatever came in between.
NothingSilent == saved # NoValues => \A t \in Targets : Told(t, saved[t])
=============================================================================
