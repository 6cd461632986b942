----------------------- MODULE PlasticityEngineProofs -----------------------
(***************************************************************************)
(* Proofs about PlasticityEngine, for all values of its constants.         *)
(***************************************************************************)
EXTENDS PlasticityEngine, SequenceTheorems, TLAPS

\* The step or record at work is there as long as it is needed, and the live value is its doing.
AtWork ==
    /\ pc \in Unlogged => batch # <<>>
    /\ pc = "rollback" => Len(batch) = 1
    /\ pc \in {"off", "idle", "final"} => batch = <<>>
    /\ pc \in {"set", "registered"} =>
           Same(Head(batch).target, live[Head(batch).target], Head(batch).new)

\* Between sessions, and in one without plasticity, there is nothing to change and nothing changed.
Without ==
    /\ pc = "off" => ~config.plastic
    /\ ~config.plastic => pc \in {"off", "idle", "final"} /\ records = {} /\ live = Defaults

\* What a rollback may put back is within the bounds or the default, in memory and in the audit.
SafeHistory ==
    /\ InBounds
    /\ \A rec \in records : Bounded(rec.target, rec.old)
    /\ \A r \in Rows({"applied"}) : Bounded(r.step.target, r.step.old)
    /\ pc \in Unlogged => Bounded(Head(batch).target, Head(batch).old)

\* A live value is told of, or is about to be.
LiveTold ==
    \A t \in Targets \ caught :
        \/ Told(t, live[t])
        \/ /\ pc \in Unlogged /\ Head(batch).target = t
           /\ pc = "rollback" => Same(t, live[t], Head(batch).old)
SavedTold == saved # NoValues => \A t \in Targets \ caught : Told(t, saved[t])

\* What the audit holds as rolled back is known to the session.
UndoneKnown == config.plastic => \A r \in Rows({"rollback"}) : r.step.id \in undone

\* Steps are numbered: what the session and the audit know of is no newer than the newest step
\* that was set, and two changes of one number are one change.
Applied == {r.step : r \in Rows({"applied"})}
Newest ==
    IF pc \in {"apply", "set"} THEN drawn - Len(batch)
    ELSE IF pc = "registered" THEN drawn - Len(batch) + 1
    ELSE drawn
BatchNumbered ==
    pc \in Evaluating => \A i \in 1 .. Len(batch) : batch[i].id = drawn - Len(batch) + i
AuditNumbered ==
    \A r \in Rows({"applied", "rollback", "rollback_failed"}) : r.step.id <= Newest
MemoryNumbered ==
    /\ \A rec \in records : rec.id <= Newest
    /\ \A id \in undone : id <= Newest
Distinct ==
    /\ \A a, b \in records \cup Applied : a.id = b.id => a = b
    /\ pc \in {"registered", "rollback"} => Head(batch) \in records
Numbered == BatchNumbered /\ AuditNumbered /\ MemoryNumbered /\ Distinct

\* As long as there was no mishap, the session and the audit agree.
InStep ==
    amiss = {} /\ caught = {} /\ config.plastic =>
        /\ pc # "registered" => records = Applied
        /\ pc = "registered" => records = Applied \cup {Head(batch)}
        /\ pc # "rollback" => undone = UndoneInAudit
        /\ pc = "rollback" => undone = UndoneInAudit \cup {Head(batch).id}

\* Unwinds, of any values and any set of records.
Of(recs, t) == {rec \in recs : rec.target = t}
Chain(recs) ==
    \A t \in Targets : \A rec \in Of(recs, t) :
        Same(t, rec.old, ValueAfter({e \in Of(recs, t) : e.id < rec.id}))
InEffect(vals, recs, t) == Same(t, vals[t], ValueAfter(Of(recs, t)))

\* What a session has to undo when it starts.
AuditUndoable == {a \in Applied : a.id \notin UndoneInAudit}

\* The history unwinds, or will when a session has started or the value at work has its record.
Unwinding ==
    amiss = {} /\ caught = {} =>
        /\ ~config.plastic =>
            Chain(AuditUndoable) /\ \A t \in Targets : InEffect(Restored, AuditUndoable, t)
        /\ config.plastic => Chain(Undoable)
        /\ config.plastic /\ pc # "set" => \A t \in Targets : InEffect(live, Undoable, t)
        /\ pc = "set" =>
            /\ \A t \in Targets \ {Head(batch).target} : InEffect(live, Undoable, t)
            /\ Same(Head(batch).target, Head(batch).old,
                    ValueAfter(Of(Undoable, Head(batch).target)))

IInv ==
    /\ TypeOK /\ Numbered /\ InStep /\ Unwinding
    /\ AtWork /\ Without /\ SafeHistory /\ LiveTold /\ SavedTold /\ UndoneKnown

-----------------------------------------------------------------------------
(* What the steps are built from. *)

\* The first step of a batch, and the ones after it.
LEMMA HeadOfBatch ==
    ASSUME SessionTypes, batch # <<>>
    PROVE  /\ Head(batch) \in Step /\ Head(batch) = batch[1]
           /\ Tail(batch) \in Seq(Step)
           /\ Len(batch) \in Nat \ {0} /\ Len(Tail(batch)) = Len(batch) - 1
           /\ \A i \in 1 .. Len(Tail(batch)) : Tail(batch)[i] = batch[i + 1]
BY DEF SessionTypes

\* A record's row of a rollback is a step like others.
LEMMA ReversedStep ==
    ASSUME NEW step \in Step
    PROVE  /\ Reversed(step) \in Step
           /\ Reversed(step).id = step.id /\ Reversed(step).target = step.target
           /\ Reversed(step).new = step.old
BY DEF Reversed, Step

\* What a setter keeps is a value it takes for the one it was given, and no farther out of bounds.
LEMMA KeptValues ==
    ASSUME NEW t \in Targets, NEW v \in Values
    PROVE  /\ Kept[t][v] \in Values /\ Same(t, Kept[t][v], v)
           /\ Bounded(t, v) => Bounded(t, Kept[t][v])
<1>1. Kept[t][v] \in Values /\ Kept[t][Kept[t][v]] = Kept[t][v]
    BY KeptAssumption
<1>2. v \in Safe => Kept[t][v] \in Safe \/ Kept[t][v] = Kept[t][Default]
    BY KeptAssumption
<1> QED
    BY <1>1, <1>2 DEF Same, Bounded

\* The values of a new session, with a checkpoint and without one.
LEMMA RestoredValues ==
    ASSUME DiskTypes
    PROVE  /\ Defaults \in [Targets -> Values] /\ Restored \in [Targets -> Values]
           /\ \A t \in Targets : Same(t, Defaults[t], Default) /\ Bounded(t, Defaults[t])
           /\ saved # NoValues => \A t \in Targets : Same(t, Restored[t], saved[t])
<1>1. Defaults \in [Targets -> Values] /\ \A t \in Targets : Defaults[t] = Default
    BY ValuesAssumption DEF Defaults
<1>2. saved # NoValues => saved \in [Targets -> Values]
    BY DEF DiskTypes
<1>3. Restored \in [Targets -> Values]
    BY <1>1, <1>2, KeptValues DEF Restored
<1>4. saved # NoValues => \A t \in Targets : Same(t, Restored[t], saved[t])
    BY <1>2, KeptValues DEF Restored
<1> QED
    BY <1>1, <1>3, <1>4 DEF Same, Bounded

\* What a session is left with when it ends.
LEMMA ForgetTypes ==
    ASSUME DiskTypes, Forget
    PROVE  SessionTypes'
<1>1. live' \in [Targets -> Values]
    BY RestoredValues DEF Forget
<1>2. config' \in Config
    BY DEF Forget, Config
<1>3. batch' \in Seq(Step) /\ records' \subseteq Step /\ undone' \subseteq Nat
    BY DEF Forget
<1> QED
    BY <1>1, <1>2, <1>3 DEF Forget, SessionTypes

\* A new row is a row.
LEMMA RowLogged ==
    ASSUME DiskTypes, NEW event \in Events, NEW step \in Step, LogRow(event, step)
    PROVE  audit' \subseteq Row
BY DEF DiskTypes, LogRow, Row

\* The row of an application adds to the changes the audit holds as applied.
LEMMA AppliedLogged ==
    ASSUME NEW step, LogRow("applied", step)
    PROVE  Applied' = Applied \cup {step} /\ UndoneInAudit' = UndoneInAudit
<1> DEFINE row == [event |-> "applied", step |-> step]
<1>1. audit' = audit \cup {row}
    BY DEF LogRow
<1>2. Rows({"applied"})' = Rows({"applied"}) \cup {row}
    BY <1>1 DEF Rows
<1>3. Rows({"rollback", "rollback_failed"})' = Rows({"rollback", "rollback_failed"})
    BY <1>1 DEF Rows
<1>4. Applied' = Applied \cup {row.step}
    BY <1>2 DEF Applied
<1>5. row.step = step
    OBVIOUS
<1>6. UndoneInAudit' = UndoneInAudit
    BY <1>3 DEF UndoneInAudit
<1> QED
    BY <1>4, <1>5, <1>6

\* The row of a rollback, a failed one too, adds to the changes it holds as undone.
LEMMA UndoneLogged ==
    ASSUME NEW step \in Step, NEW event \in {"rollback", "rollback_failed"},
           LogRow(event, Reversed(step))
    PROVE  Applied' = Applied /\ UndoneInAudit' = UndoneInAudit \cup {step.id}
<1> DEFINE row == [event |-> event, step |-> Reversed(step)]
<1>1. audit' = audit \cup {row}
    BY DEF LogRow
<1>2. Rows({"applied"})' = Rows({"applied"})
    BY <1>1 DEF Rows
<1>3. Rows({"rollback", "rollback_failed"})' = Rows({"rollback", "rollback_failed"}) \cup {row}
    BY <1>1 DEF Rows
<1>4. row.step.id = step.id
    BY ReversedStep
<1> QED
    BY <1>2, <1>3, <1>4 DEF Applied, UndoneInAudit

\* A batch of proposals is a batch of steps, and its rows are rows.
LEMMA ProposedBatch ==
    ASSUME DiskTypes, SessionTypes, HistoryTypes, Propose
    PROVE  /\ batch' \in Seq(Step) /\ audit' \subseteq Row
           /\ drawn' = drawn + Len(batch')
           /\ \A i \in 1 .. Len(batch') : batch'[i].id = drawn + i
           /\ \A r \in audit' \ audit : r.event = "proposed"
<1>1. PICK n \in 1 .. MaxBatch :
       \E target \in [1 .. n -> Targets], new \in [1 .. n -> Values] :
           /\ drawn + n <= MaxSteps
           /\ \A i, j \in 1 .. n : target[i] = target[j] => i = j
           /\ \A i \in 1 .. n : new[i] # live[target[i]]
           /\ batch' = [i \in 1 .. n |-> [id |-> drawn + i, target |-> target[i],
                                          old |-> live[target[i]], new |-> new[i]]]
           /\ audit' = audit \cup {[event |-> "proposed", step |-> batch'[i]] : i \in 1 .. n}
           /\ drawn' = drawn + n
    BY Zenon DEF Propose
<1>2. PICK target \in [1 .. n -> Targets], new \in [1 .. n -> Values] :
           /\ batch' = [i \in 1 .. n |-> [id |-> drawn + i, target |-> target[i],
                                          old |-> live[target[i]], new |-> new[i]]]
           /\ audit' = audit \cup {[event |-> "proposed", step |-> batch'[i]] : i \in 1 .. n}
           /\ drawn' = drawn + n
    BY <1>1
<1>3. n \in Nat
    BY BoundsAssumption
<1>4. batch' \in [1 .. n -> Step]
    BY <1>2, <1>3 DEF Step, SessionTypes, HistoryTypes
<1>5. batch' \in Seq(Step)
    BY <1>3, <1>4
<1>6. audit' \subseteq Row
    BY <1>2, <1>4 DEF DiskTypes, Row, Events
<1>7. Len(batch') = n /\ \A i \in 1 .. n : batch'[i].id = drawn + i
    BY <1>2, <1>3, <1>4
<1>8. \A r \in audit' \ audit : r.event = "proposed"
    BY <1>2
<1> QED
    BY <1>2, <1>5, <1>6, <1>7, <1>8

\* Setting a value: it is the new one, and the step at work holds the one it replaced.
LEMMA ValueSet ==
    ASSUME SessionTypes, SetValue
    PROVE  /\ batch' \in Seq(Step) /\ batch' # <<>>
           /\ Head(batch').id = Head(batch).id
           /\ Head(batch').target = Head(batch).target
           /\ Head(batch').new = Head(batch).new
           /\ Head(batch').old = live[Head(batch).target]
           /\ Len(batch') = Len(batch)
           /\ \A i \in 1 .. Len(batch) : batch'[i].id = batch[i].id
           /\ live' \in [Targets -> Values]
           /\ live'[Head(batch).target] = Kept[Head(batch).target][Head(batch).new]
           /\ Same(Head(batch).target, live'[Head(batch).target], Head(batch).new)
           /\ \A t \in Targets : t # Head(batch).target => live'[t] = live[t]
<1>1. batch # <<>> /\ Head(batch) = batch[1] /\ Len(batch) \in Nat \ {0}
    BY DEF SetValue, SessionTypes
<1>2. Head(batch) \in Step
    BY <1>1, HeadOfBatch
<1>3. /\ Head(batch).target \in Targets /\ live[Head(batch).target] \in Values
      /\ Head(batch).new \in Values /\ Kept[Head(batch).target][Head(batch).new] \in Values
      /\ Same(Head(batch).target, Kept[Head(batch).target][Head(batch).new], Head(batch).new)
    BY <1>2, KeptValues DEF SessionTypes, Step
<1>4. /\ live' \in [Targets -> Values]
      /\ live'[Head(batch).target] = Kept[Head(batch).target][Head(batch).new]
      /\ \A t \in Targets : t # Head(batch).target => live'[t] = live[t]
    BY <1>3 DEF SetValue, SessionTypes
<1> DEFINE first == [Head(batch) EXCEPT !.old = live[Head(batch).target]]
<1>5. first \in Step
    BY <1>2, <1>3 DEF Step
<1>6. batch' = [batch EXCEPT ![1] = first]
    BY <1>1 DEF SetValue
<1>7. batch' \in Seq(Step) /\ Len(batch') = Len(batch)
    <2>1. batch \in [1 .. Len(batch) -> Step]
        BY DEF SessionTypes
    <2>2. batch' \in [1 .. Len(batch) -> Step]
        BY <1>5, <1>6, <2>1
    <2> QED
        BY <1>1, <2>2, LenProperties
<1>8. batch' # <<>> /\ Head(batch') = first
    BY <1>1, <1>6, <1>7, <1>5
<1>9. \A i \in 1 .. Len(batch) : batch'[i].id = batch[i].id
    BY <1>1, <1>2, <1>6, <1>7 DEF SessionTypes, Step
<1> QED
    BY <1>2, <1>3, <1>4, <1>7, <1>8, <1>9 DEF Step

\* Restoring a record: its old value is back.
LEMMA ValueRestored ==
    ASSUME SessionTypes, NEW rec \in records, Restore(rec)
    PROVE  /\ batch' = <<rec>> /\ batch' \in Seq(Step) /\ Head(batch') = rec
           /\ live' \in [Targets -> Values]
           /\ live'[rec.target] = rec.old
           /\ \A t \in Targets : t # rec.target => live'[t] = live[t]
<1>1. rec \in Step
    BY DEF SessionTypes
<1>2. batch' = <<rec>> /\ batch' \in Seq(Step) /\ Head(batch') = rec
    BY <1>1 DEF Restore
<1> QED
    BY <1>1, <1>2 DEF Restore, SessionTypes, Step

\* Failing to restore a record: the value stays, or becomes what the setter takes the old one for.
LEMMA ValueNotRestored ==
    ASSUME SessionTypes, RollbackFails
    PROVE  \E rec \in Undoable :
               /\ rec \in records /\ rec \in Step /\ rec.target \in Targets
               /\ batch' = <<rec>> /\ batch' \in Seq(Step) /\ Head(batch') = rec
               /\ live' \in [Targets -> Values]
               /\ live' = live \/ live'[rec.target] = Kept[rec.target][rec.old]
               /\ \A t \in Targets : t # rec.target => live'[t] = live[t]
<1>1. PICK rec \in Undoable :
          /\ live' = live \/ live' = [live EXCEPT ![rec.target] = Kept[rec.target][rec.old]]
          /\ batch' = <<rec>>
    BY DEF RollbackFails
<1>2. rec \in records /\ rec \in Step /\ rec.target \in Targets /\ rec.old \in Values
    BY DEF Undoable, SessionTypes, Step
<1>3. batch' = <<rec>> /\ batch' \in Seq(Step) /\ Head(batch') = rec
    BY <1>1, <1>2
<1>4. Kept[rec.target][rec.old] \in Values
    BY <1>2, KeptValues
<1>5. live' = live \/ live' = [live EXCEPT ![rec.target] = Kept[rec.target][rec.old]]
    BY <1>1
<1>6. live' \in [Targets -> Values]
    BY <1>4, <1>5 DEF SessionTypes
<1>7. live' = live \/ live'[rec.target] = Kept[rec.target][rec.old]
    BY <1>2, <1>5 DEF SessionTypes
<1>8. \A t \in Targets : t # rec.target => live'[t] = live[t]
    BY <1>5 DEF SessionTypes
<1> QED
    BY <1>2, <1>3, <1>6, <1>7, <1>8

-----------------------------------------------------------------------------
(* What every step keeps. *)

\* Every step keeps the files' types.
LEMMA DiskTypesInductive ==
    ASSUME DiskTypes, SessionTypes, HistoryTypes, AtWork, [Next]_vars
    PROVE  DiskTypes'
<1> USE DEF disk, memory, history, DiskTypes
<1>1. CASE Start
    BY <1>1 DEF Start, Rows
<1>2. CASE Propose
    <2>1. batch' \in Seq(Step) /\ audit' \subseteq Row
        BY <1>2, ProposedBatch
    <2> QED
        BY <1>2, <2>1 DEF Propose
<1>3. CASE Reject
    BY <1>3, HeadOfBatch, RowLogged DEF Reject, Events
<1>4. CASE PassOver
    BY <1>4 DEF PassOver
<1>5. CASE SetValue
    BY <1>5 DEF SetValue
<1>6. CASE Register
    BY <1>6 DEF Register
<1>7. CASE Raise
    BY <1>7 DEF Raise, Forget
<1>8. CASE LogApplied
    BY <1>8, HeadOfBatch, RowLogged DEF LogApplied, Events, AtWork, Unlogged
<1>9. CASE EndEvaluation
    BY <1>9 DEF EndEvaluation
<1>10. CASE Rollback
    BY <1>10 DEF Rollback, Restore
<1>11. CASE RefuseRollback
    BY <1>11, ReversedStep, RowLogged DEF RefuseRollback, Events, SessionTypes
<1>12. CASE LogRollback
    <2>1. Reversed(Head(batch)) \in Step
        BY <1>12, HeadOfBatch, ReversedStep DEF LogRollback, AtWork, Unlogged
    <2>2. \E event \in Events : LogRow(event, Reversed(Head(batch)))
        BY <1>12 DEF LogRollback, Events
    <2> QED
        BY <1>12, <2>1, <2>2, RowLogged DEF LogRollback
<1>13. CASE Checkpoint
    BY <1>13 DEF Checkpoint, SaveValues, SessionTypes
<1>14. CASE EndLoop
    BY <1>14 DEF EndLoop
<1>15. CASE Interrupt
    BY <1>15 DEF Interrupt
<1>16. CASE Finalize
    BY <1>16 DEF Finalize, SaveValues, SessionTypes
<1>17. CASE Crash
    BY <1>17 DEF Crash, Forget
<1>18. CASE UNCHANGED vars
    BY <1>18 DEF vars
<1>19. CASE StartWithout
    BY <1>19 DEF StartWithout
<1>20. CASE RollbackFails
    BY <1>20 DEF RollbackFails
<1> QED
    BY <1>1, <1>2, <1>3, <1>4, <1>5, <1>6, <1>7, <1>8, <1>9, <1>10, <1>11, <1>12, <1>13,
       <1>14, <1>15, <1>16, <1>17, <1>18, <1>19, <1>20 DEF Next


\* Every step keeps the session's types.
LEMMA SessionTypesInductive ==
    ASSUME DiskTypes, SessionTypes, HistoryTypes, AtWork, [Next]_vars
    PROVE  SessionTypes'
<1> USE DEF disk, memory, history, SessionTypes
<1>1. CASE Start
    <2>1. live' \in [Targets -> Values]
        BY <1>1, RestoredValues DEF Start
    <2>2. records' \subseteq Step
        BY <1>1 DEF Start, Rows, DiskTypes, Row
    <2>3. undone' \subseteq Nat
        BY <1>1 DEF Start, UndoneInAudit, Rows, DiskTypes, Row, Step
    <2> QED
        BY <1>1, <2>1, <2>2, <2>3 DEF Start, Running, Config
<1>2. CASE Propose
    BY <1>2, ProposedBatch DEF Propose, Running, Evaluating
<1>3. CASE Reject
    BY <1>3, HeadOfBatch DEF Reject
<1>4. CASE PassOver
    BY <1>4, HeadOfBatch DEF PassOver
<1>5. CASE SetValue
    BY <1>5, ValueSet DEF SetValue, Running, Evaluating
<1>6. CASE Register
    BY <1>6, HeadOfBatch DEF Register, AtWork, Unlogged, Running, Evaluating
<1>7. CASE Raise
    BY <1>7, ForgetTypes DEF Raise
<1>8. CASE LogApplied
    BY <1>8, HeadOfBatch DEF LogApplied, AtWork, Unlogged, Running, Evaluating
<1>9. CASE EndEvaluation
    BY <1>9 DEF EndEvaluation, Running, Evaluating
<1>10. CASE Rollback
    <2>1. PICK rec \in Undoable : Restore(rec)
        BY <1>10 DEF Rollback
    <2>2. rec \in records /\ rec.id \in Nat
        BY <2>1 DEF Undoable, Step
    <2> QED
        BY <2>1, <2>2, ValueRestored DEF Restore, Running
<1>11. CASE RefuseRollback
    BY <1>11 DEF RefuseRollback, LogRow
<1>12. CASE LogRollback
    <2>1. batch' \in Seq(Step)
        BY <1>12 DEF LogRollback
    <2> QED
        BY <1>12, <2>1 DEF LogRollback, Running
<1>13. CASE Checkpoint
    BY <1>13 DEF Checkpoint, Running, Evaluating
<1>14. CASE EndLoop
    BY <1>14 DEF EndLoop, Running, Evaluating
<1>15. CASE Interrupt
    <2>1. batch' \in Seq(Step)
        BY <1>15 DEF Interrupt
    <2> QED
        BY <1>15, <2>1 DEF Interrupt, Running
<1>16. CASE Finalize
    BY <1>16, ForgetTypes DEF Finalize
<1>17. CASE Crash
    BY <1>17, ForgetTypes DEF Crash
<1>18. CASE UNCHANGED vars
    BY <1>18 DEF vars
<1>19. CASE StartWithout
    BY <1>19 DEF StartWithout, Running
<1>20. CASE RollbackFails
    BY <1>20, ValueNotRestored DEF RollbackFails, Running
<1> QED
    BY <1>1, <1>2, <1>3, <1>4, <1>5, <1>6, <1>7, <1>8, <1>9, <1>10, <1>11, <1>12, <1>13,
       <1>14, <1>15, <1>16, <1>17, <1>18, <1>19, <1>20 DEF Next


\* Every step keeps the history's types.
LEMMA HistoryTypesInductive ==
    ASSUME DiskTypes, SessionTypes, HistoryTypes, AtWork, [Next]_vars
    PROVE  HistoryTypes'
<1> USE DEF disk, memory, history, HistoryTypes
<1>1. CASE Start
    BY <1>1 DEF Start, Rows
<1>2. CASE Propose
    BY <1>2 DEF Propose
<1>3. CASE Reject
    BY <1>3 DEF Reject, LogRow
<1>4. CASE PassOver
    BY <1>4 DEF PassOver
<1>5. CASE SetValue
    BY <1>5 DEF SetValue
<1>6. CASE Register
    BY <1>6 DEF Register
<1>7. CASE Raise
    BY <1>7 DEF Raise, Forget, Mishaps
<1>8. CASE LogApplied
    BY <1>8 DEF LogApplied, LogRow
<1>9. CASE EndEvaluation
    BY <1>9 DEF EndEvaluation
<1>10. CASE Rollback
    BY <1>10 DEF Rollback, Restore, Skip, Mishaps
<1>11. CASE RefuseRollback
    BY <1>11 DEF RefuseRollback, LogRow
<1>12. CASE LogRollback
    BY <1>12 DEF LogRollback, LogRow
<1>13. CASE Checkpoint
    BY <1>13 DEF Checkpoint, SaveValues, Mishaps
<1>14. CASE EndLoop
    BY <1>14 DEF EndLoop
<1>15. CASE Interrupt
    BY <1>15, HeadOfBatch DEF Interrupt, AtWork, Step
<1>16. CASE Finalize
    BY <1>16 DEF Finalize, SaveValues, Mishaps
<1>17. CASE Crash
    BY <1>17 DEF Crash, Forget, Mishaps
<1>18. CASE UNCHANGED vars
    BY <1>18 DEF vars
<1>19. CASE StartWithout
    BY <1>19 DEF StartWithout
<1>20. CASE RollbackFails
    BY <1>20 DEF RollbackFails, Mishaps
<1> QED
    BY <1>1, <1>2, <1>3, <1>4, <1>5, <1>6, <1>7, <1>8, <1>9, <1>10, <1>11, <1>12, <1>13,
       <1>14, <1>15, <1>16, <1>17, <1>18, <1>19, <1>20 DEF Next


\* Every step keeps the account of the step at work.
LEMMA AtWorkInductive ==
    ASSUME SessionTypes, AtWork, [Next]_vars
    PROVE  AtWork'
<1> USE DEF disk, memory, history, AtWork, Unlogged
<1>1. CASE Start
    BY <1>1 DEF Start, Rows
<1>2. CASE Propose
    BY <1>2 DEF Propose
<1>3. CASE Reject
    BY <1>3 DEF Reject, LogRow
<1>4. CASE PassOver
    BY <1>4 DEF PassOver
<1>5. CASE SetValue
    BY <1>5, ValueSet DEF SetValue
<1>6. CASE Register
    BY <1>6 DEF Register
<1>7. CASE Raise
    BY <1>7 DEF Raise, Forget
<1>8. CASE LogApplied
    BY <1>8 DEF LogApplied, LogRow
<1>9. CASE EndEvaluation
    BY <1>9 DEF EndEvaluation
<1>10. CASE Rollback
    <2>1. PICK rec \in records : Restore(rec)
        BY <1>10 DEF Rollback, Undoable
    <2>2. Len(<<rec>>) = 1 /\ <<rec>> # <<>>
        OBVIOUS
    <2> QED
        BY <2>1, <2>2, ValueRestored DEF Restore
<1>11. CASE RefuseRollback
    BY <1>11 DEF RefuseRollback, LogRow
<1>12. CASE LogRollback
    BY <1>12 DEF LogRollback, LogRow
<1>13. CASE Checkpoint
    BY <1>13 DEF Checkpoint
<1>14. CASE EndLoop
    BY <1>14 DEF EndLoop
<1>15. CASE Interrupt
    BY <1>15 DEF Interrupt, Evaluating, Running
<1>16. CASE Finalize
    BY <1>16 DEF Finalize, Forget
<1>17. CASE Crash
    BY <1>17 DEF Crash, Forget
<1>18. CASE UNCHANGED vars
    BY <1>18 DEF vars
<1>19. CASE StartWithout
    BY <1>19 DEF StartWithout
<1>20. CASE RollbackFails
    <2>1. PICK rec \in records : batch' = <<rec>>
        BY <1>20 DEF RollbackFails, Undoable
    <2>2. Len(<<rec>>) = 1 /\ <<rec>> # <<>>
        OBVIOUS
    <2> QED
        BY <1>20, <2>1, <2>2 DEF RollbackFails
<1> QED
    BY <1>1, <1>2, <1>3, <1>4, <1>5, <1>6, <1>7, <1>8, <1>9, <1>10, <1>11, <1>12, <1>13,
       <1>14, <1>15, <1>16, <1>17, <1>18, <1>19, <1>20 DEF Next


\* Every step keeps a session without plasticity from changing anything.
LEMMA WithoutInductive ==
    ASSUME AtWork, Without, [Next]_vars
    PROVE  Without'
<1> USE DEF disk, memory, history, Without
<1>1. CASE Start \/ StartWithout
    BY <1>1 DEF Start, StartWithout
<1>2. CASE Propose
    BY <1>2 DEF Propose
<1>3. CASE Reject \/ PassOver \/ SetValue \/ EndEvaluation
    BY <1>3 DEF Reject, PassOver, SetValue, EndEvaluation
<1>4. CASE Register \/ LogApplied
    BY <1>4 DEF Register, LogApplied
<1>5. CASE Raise \/ Finalize \/ Crash
    BY <1>5 DEF Raise, Finalize, Crash, Forget, DefaultConfig
<1>6. CASE Rollback
    BY <1>6 DEF Rollback, Restore, Undoable
<1>7. CASE RollbackFails
    BY <1>7 DEF RollbackFails, Undoable
<1>8. CASE RefuseRollback \/ LogRollback \/ Checkpoint \/ EndLoop \/ Interrupt
    BY <1>8 DEF RefuseRollback, LogRollback, Checkpoint, EndLoop, Interrupt, Running, Evaluating
<1>9. CASE UNCHANGED vars
    BY <1>9 DEF vars
<1> QED
    BY <1>1, <1>2, <1>3, <1>4, <1>5, <1>6, <1>7, <1>8, <1>9 DEF Next

\* Every step keeps what may be put back within the bounds.
LEMMA SafeHistoryInductive ==
    ASSUME DiskTypes, SessionTypes, AtWork, SafeHistory, [Next]_vars
    PROVE  SafeHistory'
<1> USE DEF disk, memory, history, SafeHistory, InBounds, Rows, Unlogged
<1>1. CASE Start
    <2>1. ASSUME NEW t \in Targets PROVE Bounded(t, Restored[t])
        <3>1. CASE saved = NoValues
            BY <3>1, RestoredValues DEF Restored
        <3>2. CASE saved # NoValues
            BY <3>2, KeptValues DEF Restored, DiskTypes
        <3> QED
            BY <3>1, <3>2
    <2>2. \A rec \in records' : Bounded(rec.target, rec.old)
        BY <1>1 DEF Start
    <2>3. /\ audit' = audit /\ saved' = saved /\ pc' = "idle"
          /\ \A t \in Targets : Bounded(t, live'[t])
        BY <1>1, <2>1 DEF Start
    <2> QED
        BY <2>2, <2>3
<1>2. CASE Propose
    BY <1>2 DEF Propose
<1>3. CASE Reject
    BY <1>3 DEF Reject, LogRow
<1>4. CASE PassOver
    BY <1>4 DEF PassOver
<1>5. CASE SetValue
    <2>1. Head(batch).target \in Targets
        BY <1>5, HeadOfBatch DEF SetValue, Step
    <2>2. Head(batch).new \in Safe /\ Head(batch).new \in Values
        BY <1>5 DEF SetValue, Values
    <2>3. Bounded(Head(batch).target, live'[Head(batch).target])
        BY <1>5, <2>1, <2>2, KeptValues, ValueSet DEF Bounded
    <2>4. \A t \in Targets : Bounded(t, live'[t])
        BY <1>5, <2>3, ValueSet
    <2>5. Bounded(Head(batch').target, Head(batch').old)
        BY <1>5, <2>1, ValueSet
    <2> QED
        BY <1>5, <2>4, <2>5 DEF SetValue
<1>6. CASE Register
    BY <1>6 DEF Register
<1>7. CASE Raise
    <2>1. \A t \in Targets : Bounded(t, Defaults[t])
        BY RestoredValues
    <2> QED
        BY <1>7, <2>1 DEF Raise, Forget
<1>8. CASE LogApplied
    BY <1>8 DEF LogApplied, LogRow
<1>9. CASE EndEvaluation
    BY <1>9 DEF EndEvaluation
<1>10. CASE Rollback
    <2>1. PICK rec \in records : Restore(rec)
        BY <1>10 DEF Rollback, Undoable
    <2>2. \A t \in Targets : Bounded(t, live'[t])
        BY <2>1, ValueRestored
    <2> QED
        BY <2>1, <2>2, ValueRestored DEF Restore
<1>11. CASE RefuseRollback
    BY <1>11 DEF RefuseRollback, LogRow
<1>12. CASE LogRollback
    BY <1>12 DEF LogRollback, LogRow
<1>13. CASE Checkpoint
    BY <1>13 DEF Checkpoint, SaveValues
<1>14. CASE EndLoop
    BY <1>14 DEF EndLoop
<1>15. CASE Interrupt
    BY <1>15 DEF Interrupt
<1>16. CASE Finalize
    <2>1. \A t \in Targets : Bounded(t, Defaults[t])
        BY RestoredValues
    <2> QED
        BY <1>16, <2>1 DEF Finalize, Forget, SaveValues
<1>17. CASE Crash
    <2>1. \A t \in Targets : Bounded(t, Defaults[t])
        BY RestoredValues
    <2> QED
        BY <1>17, <2>1 DEF Crash, Forget
<1>18. CASE UNCHANGED vars
    BY <1>18 DEF vars
<1>19. CASE StartWithout
    BY <1>19 DEF StartWithout
<1>20. CASE RollbackFails
    <2>1. PICK rec \in records :
              /\ rec.target \in Targets /\ rec.old \in Values /\ Head(batch') = rec
              /\ live' = live \/ live'[rec.target] = Kept[rec.target][rec.old]
              /\ \A t \in Targets : t # rec.target => live'[t] = live[t]
        BY <1>20, ValueNotRestored DEF Step
    <2>2. Bounded(rec.target, Kept[rec.target][rec.old])
        BY <2>1, KeptValues
    <2>3. \A t \in Targets : Bounded(t, live'[t])
        BY <2>1, <2>2
    <2> QED
        BY <1>20, <2>1, <2>3 DEF RollbackFails
<1> QED
    BY <1>1, <1>2, <1>3, <1>4, <1>5, <1>6, <1>7, <1>8, <1>9, <1>10, <1>11, <1>12, <1>13,
       <1>14, <1>15, <1>16, <1>17, <1>18, <1>19, <1>20 DEF Next


\* Every step keeps the account of the live values.
LEMMA LiveToldInductive ==
    ASSUME DiskTypes, SessionTypes, AtWork, SavedTold, LiveTold, [Next]_vars
    PROVE  LiveTold'
<1> USE DEF disk, memory, history, LiveTold, Told, Rows, Unlogged
<1>1. CASE Start
    <2>1. ASSUME NEW t \in Targets \ caught PROVE Told(t, Restored[t])
        <3>1. CASE saved = NoValues
            BY <3>1, RestoredValues DEF Restored
        <3>2. CASE saved # NoValues
            BY <3>2, RestoredValues DEF SavedTold, Same
        <3> QED
            BY <3>1, <3>2
    <2> QED
        BY <1>1, <2>1 DEF Start
<1>2. CASE Propose
    BY <1>2 DEF Propose
<1>3. CASE Reject
    BY <1>3 DEF Reject, LogRow
<1>4. CASE PassOver
    BY <1>4 DEF PassOver
<1>5. CASE SetValue
    BY <1>5, ValueSet DEF SetValue
<1>6. CASE Register
    BY <1>6 DEF Register
<1>7. CASE Raise
    <2>1. \A t \in Targets : Same(t, Defaults[t], Default)
        BY RestoredValues
    <2> QED
        BY <1>7, <2>1 DEF Raise, Forget
<1>8. CASE LogApplied
    <2>1. /\ Head(batch) \in Step
          /\ Same(Head(batch).target, live[Head(batch).target], Head(batch).new)
        BY <1>8, HeadOfBatch DEF LogApplied, AtWork
    <2>2. \E r \in audit' : r.event = "applied" /\ r.step = Head(batch)
        <3>1. [event |-> "applied", step |-> Head(batch)] \in audit'
            BY <1>8 DEF LogApplied, LogRow
        <3> QED
            BY <3>1
    <2>3. audit \subseteq audit' /\ live' = live /\ caught' = caught
        BY <1>8 DEF LogApplied, LogRow
    <2> SUFFICES ASSUME NEW t \in Targets \ caught PROVE Told(t, live[t])'
        BY <2>3
    <2>4. CASE t = Head(batch).target
        BY <2>1, <2>2, <2>3, <2>4
    <2>5. CASE t # Head(batch).target
        BY <2>3, <2>5
    <2> QED
        BY <2>4, <2>5
<1>9. CASE EndEvaluation
    BY <1>9 DEF EndEvaluation
<1>10. CASE Rollback
    <2>1. PICK rec \in records : Restore(rec)
        BY <1>10 DEF Rollback, Undoable
    <2>2. rec.target \in Targets
        BY <2>1 DEF SessionTypes, Step
    <2>3. \A t \in Targets : t # rec.target => Told(t, live[t]) \/ t \in caught
        BY <1>10 DEF Rollback
    <2>4. /\ pc' = "rollback" /\ Head(batch').target = rec.target
          /\ Same(rec.target, live'[rec.target], Head(batch').old)
        BY <2>1, <2>2, ValueRestored DEF Restore, Same
    <2>5. audit' = audit /\ caught' = caught
        BY <2>1 DEF Restore
    <2> QED
        BY <2>1, <2>2, <2>3, <2>4, <2>5, ValueRestored
<1>11. CASE RefuseRollback
    BY <1>11 DEF RefuseRollback, LogRow
<1>12. CASE LogRollback
    <2>1. Head(batch) \in Step
        BY <1>12, HeadOfBatch DEF LogRollback, AtWork
    <2>2. \E r \in audit' : /\ r.event \in {"rollback", "rollback_failed"}
                            /\ r.step = Reversed(Head(batch))
        <3>1. PICK event \in {"rollback", "rollback_failed"} : LogRow(event, Reversed(Head(batch)))
            BY <1>12 DEF LogRollback
        <3>2. [event |-> event, step |-> Reversed(Head(batch))] \in audit'
            BY <3>1 DEF LogRow
        <3> QED
            BY <3>2
    <2>3. audit \subseteq audit' /\ live' = live /\ caught' = caught
        BY <1>12 DEF LogRollback, LogRow
    <2> SUFFICES ASSUME NEW t \in Targets \ caught PROVE Told(t, live[t])'
        BY <2>3
    <2>4. CASE Told(t, live[t])
        BY <2>3, <2>4
    <2>5. CASE t = Head(batch).target /\ Same(t, live[t], Head(batch).old)
        BY <2>1, <2>2, <2>3, <2>5, ReversedStep
    <2> QED
        BY <1>12, <2>4, <2>5 DEF LogRollback
<1>13. CASE Checkpoint
    BY <1>13 DEF Checkpoint
<1>14. CASE EndLoop
    BY <1>14 DEF EndLoop
<1>15. CASE Interrupt
    BY <1>15 DEF Interrupt
<1>16. CASE Finalize
    <2>1. \A t \in Targets : Same(t, Defaults[t], Default)
        BY RestoredValues
    <2> QED
        BY <1>16, <2>1 DEF Finalize, Forget
<1>17. CASE Crash
    <2>1. \A t \in Targets : Same(t, Defaults[t], Default)
        BY RestoredValues
    <2> QED
        BY <1>17, <2>1 DEF Crash, Forget
<1>18. CASE UNCHANGED vars
    BY <1>18 DEF vars
<1>19. CASE StartWithout
    BY <1>19 DEF StartWithout
<1>20. CASE RollbackFails
    <2>1. PICK rec \in records :
              /\ rec.target \in Targets /\ rec.old \in Values /\ Head(batch') = rec
              /\ live' = live \/ live'[rec.target] = Kept[rec.target][rec.old]
              /\ \A t \in Targets : t # rec.target => live'[t] = live[t]
        BY <1>20, ValueNotRestored DEF Step
    <2>2. \A t \in Targets \ caught : Told(t, live[t])
        BY <1>20 DEF RollbackFails
    <2>3. Same(rec.target, Kept[rec.target][rec.old], rec.old)
        BY <2>1, KeptValues
    <2>4. audit' = audit /\ caught' = caught /\ pc' = "rollback"
        BY <1>20 DEF RollbackFails
    <2> QED
        BY <2>1, <2>2, <2>3, <2>4
<1> QED
    BY <1>1, <1>2, <1>3, <1>4, <1>5, <1>6, <1>7, <1>8, <1>9, <1>10, <1>11, <1>12, <1>13,
       <1>14, <1>15, <1>16, <1>17, <1>18, <1>19, <1>20 DEF Next


\* Every step keeps the account of the saved values.
LEMMA SavedToldInductive ==
    ASSUME SessionTypes, LiveTold, SavedTold, [Next]_vars
    PROVE  SavedTold'
<1> USE DEF disk, memory, history, SavedTold, Told, Rows
<1>1. CASE Start
    BY <1>1 DEF Start
<1>2. CASE Propose
    BY <1>2 DEF Propose
<1>3. CASE Reject
    BY <1>3 DEF Reject, LogRow
<1>4. CASE PassOver
    BY <1>4 DEF PassOver
<1>5. CASE SetValue
    BY <1>5 DEF SetValue
<1>6. CASE Register
    BY <1>6 DEF Register
<1>7. CASE Raise
    BY <1>7 DEF Raise, Forget
<1>8. CASE LogApplied
    BY <1>8 DEF LogApplied, LogRow
<1>9. CASE EndEvaluation
    BY <1>9 DEF EndEvaluation
<1>10. CASE Rollback
    BY <1>10 DEF Rollback, Restore
<1>11. CASE RefuseRollback
    BY <1>11 DEF RefuseRollback, LogRow
<1>12. CASE LogRollback
    BY <1>12 DEF LogRollback, LogRow
<1>13. CASE Checkpoint
    BY <1>13 DEF Checkpoint, SaveValues, LiveTold, Unlogged
<1>14. CASE EndLoop
    BY <1>14 DEF EndLoop
<1>15. CASE Interrupt
    BY <1>15 DEF Interrupt
<1>16. CASE Finalize
    BY <1>16 DEF Finalize, SaveValues, LiveTold, Unlogged
<1>17. CASE Crash
    BY <1>17 DEF Crash, Forget
<1>18. CASE UNCHANGED vars
    BY <1>18 DEF vars
<1>19. CASE StartWithout
    BY <1>19 DEF StartWithout
<1>20. CASE RollbackFails
    BY <1>20 DEF RollbackFails
<1> QED
    BY <1>1, <1>2, <1>3, <1>4, <1>5, <1>6, <1>7, <1>8, <1>9, <1>10, <1>11, <1>12, <1>13,
       <1>14, <1>15, <1>16, <1>17, <1>18, <1>19, <1>20 DEF Next


\* Every step keeps what the audit holds as rolled back known to the session.
LEMMA UndoneKnownInductive ==
    ASSUME DiskTypes, SessionTypes, AtWork, Without, UndoneKnown, [Next]_vars
    PROVE  UndoneKnown'
<1> USE DEF disk, memory, history, UndoneKnown, Rows
<1>1. CASE Start
    BY <1>1 DEF Start, UndoneInAudit
<1>2. CASE Propose
    BY <1>2 DEF Propose
<1>3. CASE Reject
    BY <1>3 DEF Reject, LogRow
<1>4. CASE PassOver
    BY <1>4 DEF PassOver
<1>5. CASE SetValue
    BY <1>5 DEF SetValue
<1>6. CASE Register
    BY <1>6 DEF Register
<1>7. CASE Raise
    BY <1>7 DEF Raise, Forget, DefaultConfig
<1>8. CASE LogApplied
    BY <1>8 DEF LogApplied, LogRow
<1>9. CASE EndEvaluation
    BY <1>9 DEF EndEvaluation
<1>10. CASE Rollback
    BY <1>10 DEF Rollback, Restore
<1>11. CASE RefuseRollback
    BY <1>11 DEF RefuseRollback, LogRow
<1>12. CASE LogRollback
    BY <1>12, HeadOfBatch, ReversedStep DEF LogRollback, LogRow, AtWork, Unlogged
<1>13. CASE Checkpoint
    BY <1>13 DEF Checkpoint
<1>14. CASE EndLoop
    BY <1>14 DEF EndLoop
<1>15. CASE Interrupt
    BY <1>15 DEF Interrupt, Running, Evaluating
<1>16. CASE Finalize
    BY <1>16 DEF Finalize, Forget, DefaultConfig
<1>17. CASE Crash
    BY <1>17 DEF Crash, Forget, DefaultConfig
<1>18. CASE UNCHANGED vars
    BY <1>18 DEF vars
<1>19. CASE StartWithout
    BY <1>19 DEF StartWithout, Without
<1>20. CASE RollbackFails
    BY <1>20 DEF RollbackFails
<1> QED
    BY <1>1, <1>2, <1>3, <1>4, <1>5, <1>6, <1>7, <1>8, <1>9, <1>10, <1>11, <1>12, <1>13,
       <1>14, <1>15, <1>16, <1>17, <1>18, <1>19, <1>20 DEF Next


-----------------------------------------------------------------------------
(* Chains of changes. *)

\* The value after a set of changes is the one of its last change.
LEMMA LastValue ==
    ASSUME NEW recs \in SUBSET Step, NEW rec \in recs,
           \A e \in recs : e # rec => e.id < rec.id
    PROVE  ValueAfter(recs) = rec.new
<1>1. rec.id \in Nat /\ \A e \in recs : e.id \in Nat
    BY DEF Step
<1>2. LastOf(recs) = {rec}
    BY <1>1 DEF LastOf
<1>3. (CHOOSE last \in LastOf(recs) : TRUE) = rec
    BY <1>2
<1> QED
    BY <1>3 DEF ValueAfter

\* A change that takes up where its target stands may be appended.
LEMMA ChainGrows ==
    ASSUME NEW recs \in SUBSET Step, NEW h \in Step,
           Chain(recs),
           \A e \in recs : e.id < h.id,
           Same(h.target, h.old, ValueAfter(Of(recs, h.target)))
    PROVE  /\ Chain(recs \cup {h})
           /\ ValueAfter(Of(recs \cup {h}, h.target)) = h.new
           /\ \A t \in Targets \ {h.target} : Of(recs \cup {h}, t) = Of(recs, t)
<1> DEFINE more == recs \cup {h}
<1>1. more \in SUBSET Step /\ h.id \in Nat /\ \A e \in recs : e.id \in Nat
    BY DEF Step
<1>2. \A t \in Targets \ {h.target} : Of(more, t) = Of(recs, t)
    BY DEF Of
<1>3. Of(more, h.target) = Of(recs, h.target) \cup {h}
    BY DEF Of
<1>4. ValueAfter(Of(more, h.target)) = h.new
    BY <1>1, <1>3, LastValue DEF Of
<1>5. {e \in Of(more, h.target) : e.id < h.id} = Of(recs, h.target)
    BY <1>1, <1>3 DEF Of
<1>6. ASSUME NEW t \in Targets, NEW rec \in Of(recs, t)
      PROVE  {e \in Of(more, t) : e.id < rec.id} = {e \in Of(recs, t) : e.id < rec.id}
    BY <1>1 DEF Of
<1>7. Chain(more)
    <2> SUFFICES ASSUME NEW t \in Targets, NEW rec \in Of(more, t)
                 PROVE  Same(t, rec.old, ValueAfter({e \in Of(more, t) : e.id < rec.id}))
        BY DEF Chain
    <2>1. CASE rec = h
        BY <1>5, <2>1 DEF Of
    <2>2. CASE rec # h
        <3>1. rec \in Of(recs, t)
            BY <2>2 DEF Of
        <3> QED
            BY <1>6, <3>1 DEF Chain
    <2> QED
        BY <2>1, <2>2
<1> QED
    BY <1>2, <1>4, <1>7

\* The last change of its target may be taken off, and leaves the value it replaced.
LEMMA ChainShrinks ==
    ASSUME NEW recs \in SUBSET Step, NEW h \in recs,
           Chain(recs),
           \A e \in recs : e.target = h.target /\ e # h => e.id < h.id
    PROVE  /\ Chain(recs \ {h})
           /\ Same(h.target, h.old, ValueAfter(Of(recs \ {h}, h.target)))
           /\ \A t \in Targets \ {h.target} : Of(recs \ {h}, t) = Of(recs, t)
<1> DEFINE less == recs \ {h}
<1>1. less \in SUBSET Step /\ h \in Step /\ h.id \in Nat /\ \A e \in recs : e.id \in Nat
    BY DEF Step
<1>2. \A t \in Targets \ {h.target} : Of(less, t) = Of(recs, t)
    BY DEF Of
<1>3. Of(less, h.target) = {e \in Of(recs, h.target) : e.id < h.id}
    BY <1>1 DEF Of
<1>4. Same(h.target, h.old, ValueAfter(Of(less, h.target)))
    <2>1. h.target \in Targets /\ h \in Of(recs, h.target)
        BY <1>1 DEF Of, Step
    <2> QED
        BY <1>3, <2>1 DEF Chain
<1>5. ASSUME NEW t \in Targets, NEW rec \in Of(less, t)
      PROVE  {e \in Of(less, t) : e.id < rec.id} = {e \in Of(recs, t) : e.id < rec.id}
    BY <1>1 DEF Of
<1>6. Chain(less)
    <2> SUFFICES ASSUME NEW t \in Targets, NEW rec \in Of(less, t)
                 PROVE  Same(t, rec.old, ValueAfter({e \in Of(less, t) : e.id < rec.id}))
        BY DEF Chain
    <2>1. rec \in Of(recs, t)
        BY DEF Of
    <2> QED
        BY <1>5, <2>1 DEF Chain
<1> QED
    BY <1>2, <1>4, <1>6

-----------------------------------------------------------------------------
(* The numbers of the steps. *)

\* The newest step is a number, and it does not get older.
LEMMA NewestGrows ==
    ASSUME DiskTypes, SessionTypes, HistoryTypes, AtWork, [Next]_vars
    PROVE  Newest \in Int /\ Newest' \in Int /\ Newest <= Newest'
<1>1. Len(batch) \in Nat /\ drawn \in Nat
    BY DEF SessionTypes, HistoryTypes
<1>2. batch # <<>> => Len(batch) \in Nat \ {0} /\ Len(Tail(batch)) = Len(batch) - 1
    BY HeadOfBatch
<1>3. CASE Propose
    BY <1>1, <1>3, ProposedBatch DEF Propose, Newest, SessionTypes
<1>4. CASE Reject \/ PassOver
    BY <1>1, <1>2, <1>4 DEF Reject, PassOver, Newest, history
<1>5. CASE SetValue
    BY <1>1, <1>5, ValueSet DEF SetValue, Newest, history
<1>6. CASE Register
    BY <1>1, <1>6 DEF Register, Newest, history
<1>7. CASE LogApplied
    BY <1>1, <1>2, <1>7 DEF LogApplied, Newest, history, AtWork, Unlogged
<1>8. CASE EndEvaluation
    BY <1>1, <1>8 DEF EndEvaluation, Newest, history
<1>9. CASE UNCHANGED vars
    BY <1>1, <1>9 DEF vars, Newest, history
<1>10. CASE Start \/ StartWithout \/ Raise \/ Rollback \/ RollbackFails \/ RefuseRollback
            \/ LogRollback \/ Checkpoint \/ EndLoop \/ Interrupt \/ Finalize \/ Crash
    <2>1. drawn' = drawn
        BY <1>10 DEF Start, StartWithout, Raise, Rollback, RollbackFails, RefuseRollback, LogRollback, Checkpoint, EndLoop,
            Interrupt, Finalize, Crash, Restore, history
    <2>2. pc' \notin Evaluating
        BY <1>10 DEF Start, StartWithout, Raise, Rollback, RollbackFails, RefuseRollback, LogRollback, Checkpoint, EndLoop,
            Interrupt, Finalize, Crash, Restore, Forget, Evaluating
    <2> QED
        BY <1>1, <1>2, <2>1, <2>2 DEF Newest, Evaluating, AtWork, Unlogged
<1> QED
    BY <1>3, <1>4, <1>5, <1>6, <1>7, <1>8, <1>9, <1>10 DEF Next

\* Every step keeps the numbers of a batch in order.
LEMMA BatchNumberedInductive ==
    ASSUME DiskTypes, SessionTypes, HistoryTypes, AtWork, BatchNumbered, [Next]_vars
    PROVE  BatchNumbered'
<1> USE DEF BatchNumbered, Evaluating, history
<1>1. CASE Propose
    BY <1>1, ProposedBatch DEF Propose, HistoryTypes, SessionTypes
<1>2. CASE Reject \/ PassOver \/ LogApplied
    <2>1. /\ batch # <<>> /\ pc \in Evaluating
          /\ batch' = Tail(batch) /\ drawn' = drawn
        BY <1>2 DEF Reject, PassOver, LogApplied, AtWork, Unlogged
    <2> QED
        BY <2>1, HeadOfBatch DEF HistoryTypes
<1>3. CASE SetValue
    BY <1>3, ValueSet DEF SetValue
<1>4. CASE Register
    BY <1>4 DEF Register
<1>5. CASE UNCHANGED vars
    BY <1>5 DEF vars
<1>6. CASE Start \/ StartWithout \/ Raise \/ Rollback \/ RollbackFails \/ RefuseRollback
            \/ LogRollback \/ Checkpoint \/ EndLoop \/ Interrupt \/ Finalize \/ Crash \/ EndEvaluation
    BY <1>6 DEF Start, StartWithout, Raise, Rollback, RollbackFails, RefuseRollback, LogRollback, Checkpoint, EndLoop,
        Interrupt, Finalize, Crash, EndEvaluation, Restore, Forget
<1> QED
    BY <1>1, <1>2, <1>3, <1>4, <1>5, <1>6 DEF Next

\* Every step keeps the numbers of the audit's rows below the newest.
LEMMA AuditNumberedInductive ==
    ASSUME DiskTypes, SessionTypes, HistoryTypes, AtWork, Numbered, [Next]_vars
    PROVE  AuditNumbered'
<1> DEFINE known == {"applied", "rollback", "rollback_failed"}
<1> SUFFICES ASSUME NEW r \in audit', r.event \in known PROVE r.step.id <= Newest'
    BY DEF AuditNumbered, Rows
<1>1. Newest \in Int /\ Newest' \in Int /\ Newest <= Newest' /\ r.step.id \in Nat
    BY NewestGrows, DiskTypesInductive DEF DiskTypes, Row, Step
<1>2. CASE r \in audit
    BY <1>1, <1>2 DEF Numbered, AuditNumbered, Rows
<1>3. CASE r \notin audit
    <2>1. audit' # audit
        BY <1>3
    <2>2. Propose \/ Reject \/ LogApplied \/ RefuseRollback \/ LogRollback
        BY <2>1 DEF Next, vars, disk, Start, StartWithout, RollbackFails, PassOver, SetValue, Register, Raise, EndEvaluation,
            Rollback, Restore, Checkpoint, EndLoop, Interrupt, Finalize, Crash
    <2>3. CASE Propose
        BY <1>3, <2>3, ProposedBatch
    <2>4. CASE Reject
        BY <1>3, <2>4 DEF Reject, LogRow
    <2>5. CASE LogApplied
        <3>1. r.step = Head(batch) /\ Head(batch) \in records
            BY <1>3, <2>5 DEF LogApplied, LogRow, Numbered, Distinct
        <3> QED
            BY <1>1, <3>1 DEF Numbered, MemoryNumbered
    <2>6. CASE RefuseRollback
        <3>1. PICK rec \in records : r.step = Reversed(rec)
            BY <1>3, <2>6 DEF RefuseRollback, LogRow
        <3>2. r.step.id = rec.id
            BY <3>1, ReversedStep DEF SessionTypes
        <3> QED
            BY <1>1, <3>2 DEF Numbered, MemoryNumbered
    <2>7. CASE LogRollback
        <3>1. r.step = Reversed(Head(batch)) /\ Head(batch) \in records
            BY <1>3, <2>7 DEF LogRollback, LogRow, Numbered, Distinct
        <3>2. r.step.id = Head(batch).id
            BY <3>1, ReversedStep DEF SessionTypes
        <3> QED
            BY <1>1, <3>1, <3>2 DEF Numbered, MemoryNumbered
    <2> QED
        BY <2>2, <2>3, <2>4, <2>5, <2>6, <2>7
<1> QED
    BY <1>2, <1>3

\* Every step keeps the numbers the session knows of below the newest.
LEMMA MemoryNumberedInductive ==
    ASSUME DiskTypes, SessionTypes, HistoryTypes, AtWork, Numbered, [Next]_vars
    PROVE  MemoryNumbered'
<1>1. Newest \in Int /\ Newest <= Newest' /\ Newest' \in Int
    BY NewestGrows
<1>2. CASE Start
    <2>1. \A r \in Rows({"applied", "rollback", "rollback_failed"}) : r.step.id <= Newest'
        BY <1>1 DEF Numbered, AuditNumbered, DiskTypes, Rows, Row, Step
    <2> QED
        BY <1>2, <2>1 DEF Start, MemoryNumbered, UndoneInAudit, Rows
<1>3. CASE Register
    <2>1. batch # <<>> /\ Head(batch).id = Newest'
        BY <1>3, HeadOfBatch DEF Register, AtWork, Unlogged, Newest, Numbered, BatchNumbered,
            Evaluating, HistoryTypes, history
    <2>2. records' = records \cup {Head(batch)} /\ undone' = undone
        BY <1>3 DEF Register
    <2> QED
        BY <1>1, <2>1, <2>2 DEF MemoryNumbered, Numbered, SessionTypes, Step
<1>4. CASE Rollback
    <2>1. PICK rec \in records : Restore(rec)
        BY <1>4 DEF Rollback, Undoable
    <2>2. undone' = undone \cup {rec.id} /\ records' = records
        BY <2>1 DEF Restore
    <2> QED
        BY <1>1, <2>2 DEF MemoryNumbered, Numbered, SessionTypes, Step
<1>5. CASE Raise \/ Finalize \/ Crash
    BY <1>5 DEF Raise, Finalize, Crash, Forget, MemoryNumbered
<1>6. CASE UNCHANGED <<records, undone>>
    BY <1>1, <1>6 DEF MemoryNumbered, Numbered, SessionTypes, Step
<1> QED
    BY <1>2, <1>3, <1>4, <1>5, <1>6 DEF Next, vars, memory, Propose, Reject, PassOver, SetValue,
        StartWithout, RollbackFails, LogApplied, EndEvaluation, RefuseRollback, LogRollback, Checkpoint, EndLoop, Interrupt

\* Every step keeps changes of one number one change.
LEMMA DistinctInductive ==
    ASSUME DiskTypes, SessionTypes, HistoryTypes, AtWork, Numbered, [Next]_vars
    PROVE  Distinct'
<1>1. CASE Propose
    <2>1. Applied' = Applied
        BY <1>1, ProposedBatch DEF Propose, Applied, Rows
    <2> QED
        BY <1>1, <2>1 DEF Propose, memory, Numbered, Distinct
<1>2. CASE Reject \/ RefuseRollback \/ LogRollback
    <2>1. Rows({"applied"})' = Rows({"applied"})
        BY <1>2 DEF Reject, RefuseRollback, LogRollback, LogRow, Rows
    <2> QED
        BY <1>2, <2>1 DEF Reject, RefuseRollback, LogRollback, memory, Numbered, Distinct, Applied
<1>3. CASE Start
    <2>1. Applied' = Applied /\ records' = Applied
        BY <1>3 DEF Start, disk, Applied, Rows
    <2> QED
        BY <1>3, <2>1 DEF Start, Numbered, Distinct
<1>4. CASE Register
    <2>1. batch # <<>> /\ Head(batch).id = drawn - Len(batch) + 1 /\ Newest = drawn - Len(batch)
        BY <1>4, HeadOfBatch DEF Register, AtWork, Unlogged, Newest, BatchNumbered, Evaluating,
            Numbered
    <2>2. \A a \in records : a.id \in Nat /\ a.id <= Newest
        BY DEF Numbered, MemoryNumbered, SessionTypes, Step
    <2>3. \A a \in Applied : a.id \in Nat /\ a.id <= Newest
        BY DEF Numbered, AuditNumbered, DiskTypes, Row, Step, Applied, Rows
    <2>4. \A a \in records \cup Applied : a.id # Head(batch).id
        BY <2>1, <2>2, <2>3 DEF HistoryTypes, SessionTypes
    <2>5. Applied' = Applied /\ records' = records \cup {Head(batch)} /\ batch' = batch
        BY <1>4 DEF Register, disk, Applied, Rows
    <2> QED
        BY <2>4, <2>5 DEF Numbered, Distinct
<1>5. CASE LogApplied
    <2>1. Applied' = Applied \cup {Head(batch)}
        BY <1>5, AppliedLogged DEF LogApplied
    <2>2. records' = records /\ pc' = "apply" /\ Head(batch) \in records
        BY <1>5 DEF LogApplied, memory, Numbered, Distinct
    <2> QED
        BY <2>1, <2>2 DEF Numbered, Distinct
<1>6. CASE Rollback
    <2>1. PICK rec \in records : Restore(rec)
        BY <1>6 DEF Rollback, Undoable
    <2>2. Head(batch') = rec /\ records' = records /\ Applied' = Applied
        BY <2>1, ValueRestored DEF Restore, disk, Applied, Rows
    <2> QED
        BY <2>2 DEF Numbered, Distinct
<1>7. CASE Raise \/ Finalize \/ Crash
    <2>1. Applied' = Applied /\ records' = {} /\ pc' = "off"
        BY <1>7 DEF Raise, Finalize, Crash, Forget, disk, Applied, Rows
    <2> QED
        BY <2>1 DEF Numbered, Distinct
<1>8. CASE PassOver \/ SetValue \/ EndEvaluation \/ Checkpoint \/ EndLoop \/ Interrupt
    <2>1. Applied' = Applied /\ records' = records /\ pc' \notin {"registered", "rollback"}
        BY <1>8 DEF PassOver, SetValue, EndEvaluation, Checkpoint, EndLoop, Interrupt, disk, memory,
            Applied, Rows
    <2> QED
        BY <2>1 DEF Numbered, Distinct
<1>9. CASE UNCHANGED vars
    BY <1>9 DEF vars, disk, memory, Numbered, Distinct, Applied, Rows
<1>10. CASE StartWithout
    BY <1>10 DEF StartWithout, disk, memory, Numbered, Distinct, Applied, Rows
<1>11. CASE RollbackFails
    <2>1. Head(batch') \in records /\ records' = records /\ Applied' = Applied
        BY <1>11, ValueNotRestored DEF RollbackFails, disk, Applied, Rows
    <2> QED
        BY <2>1 DEF Numbered, Distinct
<1> QED
    BY <1>1, <1>2, <1>3, <1>4, <1>5, <1>6, <1>7, <1>8, <1>9, <1>10, <1>11 DEF Next


\* Every step keeps the session and the audit in step.
LEMMA InStepInductive ==
    ASSUME DiskTypes, SessionTypes, AtWork, Without, Numbered, InStep, [Next]_vars
    PROVE  InStep'
<1> USE DEF disk, memory, history, InStep
<1>1. CASE Start
    BY <1>1 DEF Start, Applied, UndoneInAudit, Rows
<1>2. CASE Propose
    BY <1>2 DEF Propose, Rows, Applied, UndoneInAudit
<1>3. CASE Reject
    BY <1>3 DEF Reject, LogRow, Rows, Applied, UndoneInAudit
<1>4. CASE PassOver
    BY <1>4 DEF PassOver, Rows, Applied, UndoneInAudit
<1>5. CASE SetValue
    BY <1>5 DEF SetValue, Rows, Applied, UndoneInAudit
<1>6. CASE Register
    BY <1>6 DEF Register, Rows, Applied, UndoneInAudit
<1>7. CASE Raise
    BY <1>7 DEF Raise, Forget, DefaultConfig, Rows, Applied, UndoneInAudit
<1>8. CASE LogApplied
    <2>1. Applied' = Applied \cup {Head(batch)} /\ UndoneInAudit' = UndoneInAudit
        BY <1>8, AppliedLogged DEF LogApplied
    <2> QED
        BY <1>8, <2>1 DEF LogApplied, Evaluating, Running
<1>9. CASE EndEvaluation
    BY <1>9 DEF EndEvaluation, Rows, Applied, UndoneInAudit
<1>10. CASE Rollback
    BY <1>10 DEF Rollback, Restore, Rows, Applied, UndoneInAudit
<1>11. CASE RefuseRollback
    <2>1. PICK rec \in records \ Undoable : LogRow("rollback_failed", Reversed(rec))
        BY <1>11 DEF RefuseRollback
    <2>2. Applied' = Applied /\ UndoneInAudit' = UndoneInAudit \cup {rec.id}
        BY <2>1, UndoneLogged DEF SessionTypes
    <2>3. rec.id \in undone
        BY <2>1 DEF Undoable
    <2> QED
        BY <1>11, <2>2, <2>3 DEF RefuseRollback, Running
<1>12. CASE LogRollback
    <2> SUFFICES ASSUME amiss = {}, caught = {}, config.plastic PROVE InStep'
        BY <1>12 DEF LogRollback
    <2>1. Head(batch).id \in undone /\ Head(batch) \in Step
        BY <1>12, HeadOfBatch DEF LogRollback, AtWork, Unlogged
    <2>2. LogRow("rollback", Reversed(Head(batch)))
        BY <1>12, <2>1 DEF LogRollback
    <2>3. Applied' = Applied /\ UndoneInAudit' = UndoneInAudit \cup {Head(batch).id}
        BY <2>1, <2>2, UndoneLogged
    <2> QED
        BY <1>12, <2>3 DEF LogRollback
<1>13. CASE Checkpoint
    BY <1>13 DEF Checkpoint, SaveValues, Rows, Applied, UndoneInAudit
<1>14. CASE EndLoop
    BY <1>14 DEF EndLoop, Rows, Applied, UndoneInAudit
<1>15. CASE Interrupt
    BY <1>15 DEF Interrupt, Unlogged, Rows, Applied, UndoneInAudit
<1>16. CASE Finalize
    BY <1>16 DEF Finalize, Forget, DefaultConfig, Rows, Applied, UndoneInAudit
<1>17. CASE Crash
    BY <1>17 DEF Crash, Forget, DefaultConfig, Rows, Applied, UndoneInAudit
<1>18. CASE UNCHANGED vars
    BY <1>18 DEF vars, Applied, UndoneInAudit, Rows
<1>19. CASE StartWithout
    BY <1>19 DEF StartWithout, Without
<1>20. CASE RollbackFails
    BY <1>20 DEF RollbackFails
<1> QED
    BY <1>1, <1>2, <1>3, <1>4, <1>5, <1>6, <1>7, <1>8, <1>9, <1>10, <1>11, <1>12, <1>13,
       <1>14, <1>15, <1>16, <1>17, <1>18, <1>19, <1>20 DEF Next


\* A checkpoint with no mishap: a new session's values are those of this one, or as before.
LEMMA ValuesSaved ==
    ASSUME DiskTypes, SessionTypes, SaveValues, amiss' = {}
    PROVE  /\ amiss = {}
           /\ config.plastic => \A t \in Targets : Same(t, Restored'[t], live[t])
           /\ ~config.plastic => \A t \in Targets : Same(t, Restored'[t], Restored[t])
<1>1. amiss = {}
    BY DEF SaveValues
<1>2. CASE config.plastic
    <2>1. saved' = live /\ live # NoValues
        BY <1>2, ValuesAssumption DEF SaveValues, SessionTypes
    <2>2. \A t \in Targets : Restored'[t] = Kept[t][live[t]]
        BY <2>1 DEF Restored
    <2> QED
        BY <1>1, <1>2, <2>2, KeptValues DEF SessionTypes
<1>3. CASE ~config.plastic
    <2>1. \A t \in Targets : Restored'[t] = Default
        BY <1>3 DEF SaveValues, Restored, Defaults
    <2>2. \A t \in Targets : Same(t, Restored[t], Default)
        BY <1>3 DEF SaveValues
    <2> QED
        BY <1>1, <1>3, <2>1, <2>2 DEF Same
<1> QED
    BY <1>2, <1>3

\* Every step keeps the history one that unwinds.
LEMMA UnwindingInductive ==
    ASSUME DiskTypes, SessionTypes, HistoryTypes, AtWork, Without, Numbered, InStep, Unwinding,
           [Next]_vars
    PROVE  Unwinding'
<1> USE DEF disk, memory, history, Unwinding
<1>1. CASE Start
    <2>1. Undoable' = AuditUndoable /\ live' = Restored /\ config'.plastic /\ pc' = "idle"
        BY <1>1 DEF Start, Undoable, AuditUndoable, Applied
    <2>2. amiss' = amiss /\ caught' = caught /\ ~config.plastic
        BY <1>1 DEF Start, Without
    <2> QED
        BY <2>1, <2>2 DEF InEffect
<1>2. CASE Propose
    <2>1. Undoable' = Undoable /\ config.plastic
        BY <1>2 DEF Propose, Undoable
    <2> QED
        BY <1>2, <2>1 DEF Propose, InEffect
<1>3. CASE Reject
    <2>1. Undoable' = Undoable /\ config.plastic
        BY <1>3 DEF Reject, Undoable, Without
    <2> QED
        BY <1>3, <2>1 DEF Reject, InEffect
<1>4. CASE PassOver
    <2>1. Undoable' = Undoable /\ config.plastic
        BY <1>4 DEF PassOver, Undoable, Without
    <2> QED
        BY <1>4, <2>1 DEF PassOver, InEffect
<1>5. CASE SetValue
    <2> SUFFICES ASSUME amiss = {}, caught = {} PROVE Unwinding'
        BY <1>5 DEF SetValue, AtWork, Without
    <2> DEFINE h == Head(batch)
    <2>1. Undoable' = Undoable /\ pc' = "set" /\ pc = "apply"
        BY <1>5 DEF SetValue, Undoable
    <2>2. h.target \in Targets
        BY <1>5, HeadOfBatch DEF SetValue, Step
    <2>3. Head(batch').target = h.target /\ Head(batch').old = live[h.target]
        BY <1>5, ValueSet
    <2>4. \A t \in Targets \ {h.target} : live'[t] = live[t]
        BY <1>5, ValueSet
    <2>5. Chain(Undoable) /\ \A t \in Targets : InEffect(live, Undoable, t)
        BY <2>1 DEF Without
    <2>6. Same(h.target, live[h.target], ValueAfter(Of(Undoable, h.target)))
        BY <2>2, <2>5 DEF InEffect
    <2>7. config.plastic' /\ config.plastic
        BY <1>5, <2>1 DEF SetValue, Without
    <2> QED
        BY <2>1, <2>3, <2>4, <2>5, <2>6, <2>7 DEF InEffect
<1>6. CASE Register
    <2> SUFFICES ASSUME amiss = {}, caught = {} PROVE Unwinding'
        BY <1>6 DEF Register
    <2> DEFINE h == Head(batch)
    <2>1. pc = "set" /\ pc' = "registered" /\ live' = live /\ undone' = undone
        BY <1>6 DEF Register
    <2>2. h \in Step /\ h.id \in Nat /\ h.target \in Targets
        BY <2>1, HeadOfBatch DEF AtWork, Unlogged, Step
    <2>3. h.id = drawn - Len(batch) + 1 /\ Newest = drawn - Len(batch)
        BY <2>1, HeadOfBatch DEF AtWork, Unlogged, Newest, BatchNumbered, Evaluating, Numbered
    <2>4. /\ \A e \in records : e.id < h.id
          /\ \A id \in undone : id < h.id
        <3>1. Newest \in Int /\ Newest < h.id
            BY <2>3 DEF SessionTypes, HistoryTypes
        <3>2. \A e \in records : e.id \in Nat /\ e.id <= Newest
            BY DEF Numbered, MemoryNumbered, SessionTypes, Step
        <3>3. \A id \in undone : id \in Nat /\ id <= Newest
            BY DEF Numbered, MemoryNumbered, SessionTypes
        <3> QED
            BY <2>2, <3>1, <3>2, <3>3
    <2>5. Undoable' = Undoable \cup {h}
        BY <1>6, <2>2, <2>4 DEF Register, Undoable
    <2>6. /\ Chain(Undoable) /\ Same(h.target, h.old, ValueAfter(Of(Undoable, h.target)))
          /\ \A t \in Targets \ {h.target} : InEffect(live, Undoable, t)
        BY <2>1 DEF Without
    <2>7. /\ Chain(Undoable \cup {h})
          /\ ValueAfter(Of(Undoable \cup {h}, h.target)) = h.new
          /\ \A t \in Targets \ {h.target} : Of(Undoable \cup {h}, t) = Of(Undoable, t)
        <3>1. Undoable \in SUBSET Step /\ \A e \in Undoable : e.id < h.id
            BY <2>4 DEF Undoable, SessionTypes
        <3> QED
            BY <2>2, <2>6, <3>1, ChainGrows
    <2>8. Same(h.target, live[h.target], h.new)
        BY <2>1 DEF AtWork
    <2>9. \A t \in Targets : InEffect(live', Undoable', t)
        BY <2>1, <2>5, <2>6, <2>7, <2>8 DEF InEffect
    <2>10. config.plastic' /\ config.plastic
        BY <1>6, <2>1 DEF Register, Without
    <2> QED
        BY <2>1, <2>5, <2>7, <2>9, <2>10
<1>7. CASE Raise
    BY <1>7 DEF Raise
<1>8. CASE LogApplied
    <2>1. Undoable' = Undoable /\ config.plastic
        BY <1>8 DEF LogApplied, Undoable, Without
    <2> QED
        BY <1>8, <2>1 DEF LogApplied, InEffect
<1>9. CASE EndEvaluation
    <2>1. Undoable' = Undoable /\ config.plastic
        BY <1>9 DEF EndEvaluation, Undoable, Without
    <2> QED
        BY <1>9, <2>1 DEF EndEvaluation, InEffect
<1>10. CASE Rollback
    <2>0. caught' = caught
        BY <1>10 DEF Rollback, Restore
    <2> SUFFICES ASSUME amiss' = {}, caught = {} PROVE Unwinding'
        BY <2>0
    <2>1. PICK rec \in Undoable : Restore(rec)
        BY <1>10 DEF Rollback
    <2>2. amiss = {} /\ \A e \in Undoable : ~(e.target = rec.target /\ e.id > rec.id)
        BY <2>1 DEF Restore, Skip
    <2>3. /\ Undoable \in SUBSET Step /\ rec \in records
          /\ rec \in Step /\ rec.id \in Nat /\ rec.target \in Targets
        BY <2>1 DEF Undoable, SessionTypes, Step
    <2>4. \A e \in Undoable : e # rec => e.id # rec.id
        BY <2>1 DEF Undoable, Numbered, Distinct
    <2>5. \A e \in Undoable : e.target = rec.target /\ e # rec => e.id < rec.id
        BY <2>2, <2>3, <2>4 DEF Step
    <2>6. Undoable' = Undoable \ {rec}
        BY <2>1, <2>4 DEF Undoable, Restore
    <2>7. /\ Chain(Undoable) /\ config.plastic
          /\ \A t \in Targets : InEffect(live, Undoable, t)
        BY <1>10, <2>1, <2>2 DEF Rollback, Without, Undoable
    <2>8. /\ Chain(Undoable \ {rec})
          /\ Same(rec.target, rec.old, ValueAfter(Of(Undoable \ {rec}, rec.target)))
          /\ \A t \in Targets \ {rec.target} : Of(Undoable \ {rec}, t) = Of(Undoable, t)
        BY <2>1, <2>3, <2>5, <2>7, ChainShrinks
    <2>9. /\ live'[rec.target] = rec.old
          /\ \A t \in Targets \ {rec.target} : live'[t] = live[t]
        BY <2>1, <2>3, ValueRestored
    <2>10. \A t \in Targets : InEffect(live', Undoable', t)
        BY <2>6, <2>7, <2>8, <2>9 DEF InEffect
    <2>11. pc' = "rollback" /\ config' = config
        BY <2>1 DEF Restore
    <2> QED
        BY <2>6, <2>7, <2>8, <2>10, <2>11
<1>11. CASE RefuseRollback
    <2>1. Undoable' = Undoable /\ config.plastic
        BY <1>11 DEF RefuseRollback, Undoable, Without
    <2> QED
        BY <1>11, <2>1 DEF RefuseRollback, InEffect
<1>12. CASE LogRollback
    <2>1. Undoable' = Undoable /\ config.plastic
        BY <1>12 DEF LogRollback, Undoable, Without
    <2> QED
        BY <1>12, <2>1 DEF LogRollback, InEffect
<1>13. CASE Checkpoint
    <2> SUFFICES ASSUME amiss' = {}, caught = {} PROVE Unwinding'
        BY <1>13 DEF Checkpoint
    <2>1. amiss = {} /\ Undoable' = Undoable /\ AuditUndoable' = AuditUndoable
        BY <1>13, ValuesSaved DEF Checkpoint, Undoable, AuditUndoable, Applied, UndoneInAudit, Rows
    <2>2. ~config.plastic => \A t \in Targets : Same(t, Restored'[t], Restored[t])
        BY <1>13, ValuesSaved DEF Checkpoint
    <2> QED
        BY <1>13, <2>1, <2>2 DEF Checkpoint, InEffect, Same
<1>14. CASE EndLoop
    <2>1. /\ Undoable' = Undoable /\ AuditUndoable' = AuditUndoable /\ Restored' = Restored
          /\ pc # "set"
        BY <1>14 DEF EndLoop, Undoable, AuditUndoable, Applied, UndoneInAudit, Rows, Restored
    <2> QED
        BY <1>14, <2>1 DEF EndLoop, InEffect
<1>15. CASE Interrupt
    <2>1. /\ Undoable' = Undoable /\ AuditUndoable' = AuditUndoable /\ Restored' = Restored
          /\ pc = "set" => caught' # {}
        BY <1>15 DEF Interrupt, Unlogged, Undoable, AuditUndoable, Applied, UndoneInAudit, Rows,
            Restored
    <2>2. caught' = {} => caught = {}
        BY <1>15 DEF Interrupt
    <2> QED
        BY <1>15, <2>1, <2>2 DEF Interrupt, InEffect
<1>16. CASE Finalize
    <2> SUFFICES ASSUME amiss' = {}, caught = {} PROVE Unwinding'
        BY <1>16 DEF Finalize
    <2>1. AuditUndoable' = AuditUndoable /\ pc = "final" /\ pc' = "off" /\ ~config'.plastic
        BY <1>16 DEF Finalize, Forget, DefaultConfig, AuditUndoable, Applied, UndoneInAudit, Rows
    <2>2. /\ amiss = {}
          /\ config.plastic => \A t \in Targets : Same(t, Restored'[t], live[t])
          /\ ~config.plastic => \A t \in Targets : Same(t, Restored'[t], Restored[t])
        BY <1>16, ValuesSaved DEF Finalize
    <2>3. config.plastic => Undoable = AuditUndoable
        BY <2>1, <2>2 DEF InStep, Undoable, AuditUndoable
    <2> QED
        BY <2>1, <2>2, <2>3 DEF InEffect, Same
<1>17. CASE Crash
    <2> SUFFICES ASSUME amiss' = {}, caught = {} PROVE Unwinding'
        BY <1>17 DEF Crash
    <2>1. /\ AuditUndoable' = AuditUndoable /\ Restored' = Restored
          /\ pc' = "off" /\ ~config'.plastic
        BY <1>17 DEF Crash, Forget, DefaultConfig, AuditUndoable, Applied, UndoneInAudit, Rows,
            Restored
    <2>2. /\ amiss = {} /\ pc \notin Unlogged
          /\ config.plastic => \A t \in Targets : Same(t, live[t], Restored[t])
        BY <1>17 DEF Crash
    <2>3. config.plastic => Undoable = AuditUndoable
        BY <2>2 DEF InStep, Undoable, AuditUndoable, Unlogged
    <2> QED
        BY <2>1, <2>2, <2>3 DEF InEffect, Same, Unlogged
<1>18. CASE UNCHANGED vars
    BY <1>18 DEF vars, Undoable, AuditUndoable, Applied, UndoneInAudit, Rows, Restored, InEffect
<1>19. CASE StartWithout
    BY <1>19 DEF StartWithout, Without, AuditUndoable, Applied, UndoneInAudit, Rows, Restored,
        InEffect
<1>20. CASE RollbackFails
    BY <1>20 DEF RollbackFails
<1> QED
    BY <1>1, <1>2, <1>3, <1>4, <1>5, <1>6, <1>7, <1>8, <1>9, <1>10, <1>11, <1>12, <1>13,
       <1>14, <1>15, <1>16, <1>17, <1>18, <1>19, <1>20 DEF Next


-----------------------------------------------------------------------------
(* What holds in every state, and over every step. *)

\* The invariant holds at first.
LEMMA Initially == Init => IInv
<1> SUFFICES ASSUME Init PROVE IInv
    OBVIOUS
<1> USE DEF Init
<1>1. live = Defaults /\ live \in [Targets -> Values] /\ \A t \in Targets : live[t] = Default
    BY ValuesAssumption DEF Defaults
<1>2. Applied = {} /\ UndoneInAudit = {} /\ AuditUndoable = {} /\ ~config.plastic
    BY DEF Applied, UndoneInAudit, Rows, AuditUndoable, DefaultConfig
<1>3. TypeOK
    <2>1. batch \in Seq(Step)
        OBVIOUS
    <2> QED
        BY <1>1, <2>1 DEF TypeOK, DiskTypes, SessionTypes, HistoryTypes, Config
<1>4. Numbered
    BY <1>2 DEF Numbered, BatchNumbered, AuditNumbered, MemoryNumbered, Distinct, Evaluating, Rows
<1>5. InStep
    BY <1>2 DEF InStep
<1>6. Unwinding
    <2>1. \A t \in Targets : Of({}, t) = {}
        BY DEF Of
    <2>2. Chain({})
        BY <2>1 DEF Chain
    <2>3. \A t \in Targets : InEffect(Restored, {}, t)
        BY <1>1, <2>1 DEF InEffect, ValueAfter, Restored, Same
    <2> QED
        BY <1>2, <2>2, <2>3 DEF Unwinding
<1>7. AtWork /\ Without /\ UndoneKnown /\ SavedTold
    BY <1>2 DEF AtWork, Without, UndoneKnown, SavedTold, Unlogged
<1>8. SafeHistory
    BY <1>1 DEF SafeHistory, InBounds, Bounded, Same, Rows, Unlogged
<1>9. LiveTold
    BY <1>1 DEF LiveTold, Told, Same
<1> QED
    BY <1>3, <1>4, <1>5, <1>6, <1>7, <1>8, <1>9 DEF IInv

\* Every step keeps it.
LEMMA Inductive == IInv /\ [Next]_vars => IInv'
<1> SUFFICES ASSUME IInv, [Next]_vars PROVE IInv'
    OBVIOUS
<1> USE DEF IInv, TypeOK
<1>1. DiskTypes' /\ SessionTypes' /\ HistoryTypes' /\ AtWork' /\ Without'
    BY DiskTypesInductive, SessionTypesInductive, HistoryTypesInductive, AtWorkInductive,
       WithoutInductive
<1>2. Numbered'
    BY BatchNumberedInductive, AuditNumberedInductive, MemoryNumberedInductive,
       DistinctInductive DEF Numbered
<1>3. InStep' /\ Unwinding'
    BY InStepInductive, UnwindingInductive
<1>4. SafeHistory' /\ LiveTold' /\ SavedTold' /\ UndoneKnown'
    BY SafeHistoryInductive, LiveToldInductive, SavedToldInductive, UndoneKnownInductive
<1> QED
    BY <1>1, <1>2, <1>3, <1>4

LEMMA Invariance == Spec => []IInv
BY Initially, Inductive, PTL DEF Spec

\* The variables have their types, over any number of sessions.
THEOREM TypeCorrect == Spec => []TypeOK
<1>1. IInv => TypeOK
    BY DEF IInv
<1> QED
    BY <1>1, Invariance, PTL

\* No parameter is ever live or saved outside its bounds but with the value it began with, although
\* a rollback is not validated and its record may be of any session.
THEOREM BoundsKept == Spec => []InBounds
<1>1. IInv => InBounds
    BY DEF IInv, SafeHistory
<1> QED
    BY <1>1, Invariance, PTL

\* The audit tells of every saved value, and of every live one at rest, but for the targets a Ctrl-C
\* caught between a value and its row.
THEOREM AuditTells == Spec => []ToldUnlessCaught
<1>1. IInv => ToldUnlessCaught
    BY DEF IInv, ToldUnlessCaught, LiveTold, SavedTold, Unlogged
<1> QED
    BY <1>1, Invariance, PTL

\* Between sessions too, no step is rolled back that the audit holds as rolled back.
THEOREM UndoneOnce == Spec => NeverUndoneTwice
<1> DEFINE Once ==
        pc = "idle" /\ pc' = "rollback" => ~\E r \in Rows({"rollback"}) : r.step.id = Head(batch').id
<1>1. ASSUME IInv, [Next]_vars PROVE Once
    <2> SUFFICES ASSUME pc = "idle", pc' = "rollback" PROVE Once
        OBVIOUS
    <2>1. Rollback \/ RollbackFails
        BY <1>1 DEF Next, vars, Start, StartWithout, Propose, Reject, PassOver, SetValue, Register,
            Raise, Forget, LogApplied, EndEvaluation, RefuseRollback, LogRollback, Checkpoint,
            EndLoop, Interrupt, Finalize, Crash
    <2>2. PICK rec \in Undoable : Head(batch') = rec
        <3>1. CASE Rollback
            BY <1>1, <3>1, ValueRestored DEF Rollback, Undoable, IInv, TypeOK
        <3>2. CASE RollbackFails
            BY <1>1, <3>2, ValueNotRestored DEF IInv, TypeOK
        <3> QED
            BY <2>1, <3>1, <3>2
    <2>3. config.plastic /\ Head(batch').id \notin undone
        BY <1>1, <2>2 DEF Undoable, IInv, Without
    <2> QED
        BY <1>1, <2>3 DEF IInv, UndoneKnown
<1>2. IInv /\ [Next]_vars => [Once]_vars
    BY <1>1
<1> QED
    BY <1>2, Invariance, PTL DEF Spec, NeverUndoneTwice

\* To roll back the last change, again and again, leads through the past values to the defaults, in
\* every session with plasticity and for any number of orderly restarts, until a mishap.
THEOREM HistoryUnwindsAlways == Spec => []HistoryUnwinds
<1>1. ASSUME IInv PROVE HistoryUnwinds
    <2> SUFFICES ASSUME pc = "idle", config.plastic, amiss = {}, caught = {} PROVE Unwinds
        BY DEF HistoryUnwinds
    <2>1. Chain(Undoable) /\ \A t \in Targets : InEffect(live, Undoable, t)
        BY <1>1 DEF IInv, Unwinding
    <2>2. \A t \in Targets : UndoableOf(t) = Of(Undoable, t)
        BY DEF UndoableOf, Of
    <2>3. \A t \in Targets : Same(t, live[t], ValueAfter(UndoableOf(t)))
        BY <2>1, <2>2 DEF InEffect
    <2>4. ASSUME NEW t \in Targets, NEW rec \in UndoableOf(t)
          PROVE  Same(t, rec.old, ValueAfter(Before(rec)))
        <3>1. rec \in Of(Undoable, t) /\ rec.target = t
            BY <2>2, <2>4 DEF UndoableOf
        <3>2. Before(rec) = {e \in Of(Undoable, t) : e.id < rec.id}
            BY <2>2, <3>1 DEF Before
        <3> QED
            BY <2>1, <3>1, <3>2 DEF Chain
    <2> QED
        BY <2>3, <2>4 DEF Unwinds
<1> QED
    BY <1>1, Invariance, PTL

=============================================================================
