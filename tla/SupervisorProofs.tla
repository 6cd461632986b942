-------------------------- MODULE SupervisorProofs --------------------------
(***************************************************************************)
(* Proofs about Supervisor, for all values of its constants.               *)
(***************************************************************************)
EXTENDS Supervisor, SequenceTheorems, TLAPS

\* A segment is in progress, or has just ended and is being looked at.
InSegment == {"build", "segment", "sentinel", "tick"}

\* The run is over, well or not.
Over == {"finalize", "register_stop", "off", "ended"}

\* Where a segment may begin or end with the sentinel lying there.
Sentinels ==
    /\ ~sentinel => overdue = 0
    /\ emergency => stop
    /\ pc \in {"pre_run", "loop", "tick"} /\ ~stop => overdue = 0
    /\ SentinelHonoured

\* The watchdog's counts are the lengths of the streaks the outcomes end with.
FailuresCount ==
    /\ failures <= Len(outcomes)
    /\ failures < Len(outcomes) => ~outcomes[Len(outcomes) - failures].failed
CriticalsCount ==
    /\ criticals <= Len(outcomes)
    /\ criticals < Len(outcomes) => outcomes[Len(outcomes) - criticals].health # "critical"

Streaks ==
    /\ FailuresCount /\ CriticalsCount
    /\ pc \in InSegment \/ (pc \in {"pre_run", "loop"} /\ ~stop) =>
        failures < FailureStrikes /\ criticals < CriticalStrikes
    /\ StrikesStop

\* How far the run is, and what it has been credited with.
Progress ==
    plan.steps # NoBound =>
        /\ pc = "pre_run" => done = 0
        /\ pc \in InSegment \cup {"pre_run", "loop"} => lifetime <= base + done + lived
        /\ pc \in InSegment \cup {"pre_run", "loop"} \cup Over => done <= Total
        /\ pc \in {"build", "segment"} => done + segment <= Total
        /\ lifetime <= base + Total

\* What is credited and what is handed out differ by failed segments, Ctrl-Cs and losses only.
Completeness ==
    ~AnyFailed /\ ~cut =>
        /\ pc \in {"pre_run", "loop", "build", "segment"} => lifetime = base + done + lived
        /\ pc \in {"sentinel", "tick"} => failed \/ lifetime = base + done
        /\ pc \in {"finalize", "register_stop"} /\ request = "none" /\ ~aborted /\ plan.steps # NoBound =>
              lifetime = base + Total
        /\ AllStepsLived

\* What the records say, as far as they are written.
Records ==
    /\ stop => request # "none"
    /\ emergency => stop
    /\ request # "session_complete"
    /\ pc \in Working \ {"register_stop"} => shutdown = "none"
    /\ pc = "register_stop" => shutdown # "none"
    /\ entry = "stopped" => pc = "ended"
    /\ pc = "finalize" /\ request = "none" /\ ~aborted => ~MoreToDo
    /\ ReasonTold
    /\ EvidenceFirst

\* How the last session of a run leaves the brain.
Rests ==
    /\ entry = "stopped" => pc = "ended"
    /\ pc = "pre_run" => outcomes = <<>>
    /\ pc \in {"sentinel", "tick"} => failed \/ phase = "resting"
    /\ pc \in {"loop", "finalize", "register_stop"} /\ ~aborted /\ outcomes # <<>> =>
          AnyFailed \/ phase = "resting"
    /\ QuietRunRests

IInv == TypeOK /\ Sentinels /\ Streaks /\ Progress /\ Completeness /\ Records /\ Rests

\* Every step keeps the types of the brain.
LEMMA BrainTypesKept ==
    ASSUME Brain!TypeOK, HistoryTypes, StepTypes, [Next]_vars
    PROVE  Brain!TypeOK'
<1> USE DEF brain, supervisor, artifacts, history, Brain!TypeOK, StepTypes
<1>1. CASE Launch
    BY <1>1 DEF Launch
<1>2. CASE Proceed
    BY <1>2 DEF Proceed
<1>3. ASSUME NEW note \in {"governance_refused", "dry_run"}, Decline(note) PROVE Brain!TypeOK'
    BY <1>3 DEF Decline
<1>4. CASE BeginSegment
    BY <1>4 DEF BeginSegment
<1>5. CASE ReportLoss
    BY <1>5 DEF ReportLoss, Brain!Report
<1>6. CASE BuildRunner
    BY <1>6 DEF BuildRunner, Brain!Awaken
<1>7. CASE Checkpoint
    BY <1>7 DEF Checkpoint, Brain!Grow
<1>8. CASE SegmentEnds
    BY <1>8 DEF SegmentEnds, Brain!Rest
<1>9. CASE SegmentFails
    BY <1>9 DEF SegmentFails, Brain!Lose
<1>10. CASE CheckSentinel
    BY <1>10 DEF CheckSentinel, RequestShutdown
<1>11. CASE Tick
    BY <1>11 DEF Tick, RequestShutdown
<1>12. CASE LeaveLoop
    BY <1>12 DEF LeaveLoop
<1>13. CASE PerformShutdown
    BY <1>13 DEF PerformShutdown
<1>14. CASE RegisterStop
    BY <1>14 DEF RegisterStop
<1>15. CASE Abort
    BY <1>15 DEF Abort, Brain!Lose
<1>16. CASE Kill
    BY <1>16 DEF Kill, Brain!Lose
<1>17. CASE OperatorStop
    BY <1>17 DEF OperatorStop, RequestShutdown
<1>18. CASE LaySentinel
    BY <1>18 DEF LaySentinel
<1>19. CASE ClearSentinel
    BY <1>19 DEF ClearSentinel
<1>20. CASE UNCHANGED vars
    BY <1>20 DEF vars
<1> QED
    BY <1>1, <1>2, <1>3, <1>4, <1>5, <1>6, <1>7, <1>8, <1>9, <1>10, <1>11, <1>12, <1>13,
       <1>14, <1>15, <1>16, <1>17, <1>18, <1>19, <1>20 DEF Next, Work

\* Every step keeps a segment within the interval and its credit within the segment.
LEMMA StepTypesKept ==
    ASSUME StepTypes, ControlTypes, [Next]_vars
    PROVE  StepTypes'
<1> USE DEF brain, supervisor, artifacts, history, StepTypes, ControlTypes
<1>1. CASE Launch
    BY <1>1, PlansAssumption, LimitsAssumption DEF Launch
<1>2. CASE Proceed
    BY <1>2 DEF Proceed
<1>3. ASSUME NEW note \in {"governance_refused", "dry_run"}, Decline(note) PROVE StepTypes'
    BY <1>3 DEF Decline
<1>4. CASE BeginSegment
    BY <1>4, PlansAssumption, LimitsAssumption DEF BeginSegment, Segment, MoreToDo, Unbounded, Total
<1>5. CASE ReportLoss
    BY <1>5 DEF ReportLoss, Brain!Report
<1>6. CASE BuildRunner
    BY <1>6 DEF BuildRunner, Brain!Awaken
<1>7. CASE Checkpoint
    BY <1>7 DEF Checkpoint, Brain!Grow
<1>8. CASE SegmentEnds
    BY <1>8 DEF SegmentEnds, Brain!Rest
<1>9. CASE SegmentFails
    BY <1>9 DEF SegmentFails, Brain!Lose
<1>10. CASE CheckSentinel
    BY <1>10 DEF CheckSentinel, RequestShutdown
<1>11. CASE Tick
    BY <1>11 DEF Tick, RequestShutdown
<1>12. CASE LeaveLoop
    BY <1>12 DEF LeaveLoop
<1>13. CASE PerformShutdown
    BY <1>13 DEF PerformShutdown
<1>14. CASE RegisterStop
    BY <1>14 DEF RegisterStop
<1>15. CASE Abort
    BY <1>15 DEF Abort, Brain!Lose
<1>16. CASE Kill
    BY <1>16 DEF Kill, Brain!Lose
<1>17. CASE OperatorStop
    BY <1>17 DEF OperatorStop, RequestShutdown
<1>18. CASE LaySentinel
    BY <1>18 DEF LaySentinel
<1>19. CASE ClearSentinel
    BY <1>19 DEF ClearSentinel
<1>20. CASE UNCHANGED vars
    BY <1>20 DEF vars
<1> QED
    BY <1>1, <1>2, <1>3, <1>4, <1>5, <1>6, <1>7, <1>8, <1>9, <1>10, <1>11, <1>12, <1>13,
       <1>14, <1>15, <1>16, <1>17, <1>18, <1>19, <1>20 DEF Next, Work

\* Every step keeps the types of the supervisor's control and records.
LEMMA ControlTypesKept ==
    ASSUME ControlTypes, [Next]_vars
    PROVE  ControlTypes'
<1> USE DEF brain, supervisor, artifacts, history, ControlTypes
<1>1. CASE Launch
    BY <1>1 DEF Launch, Working
<1>2. CASE Proceed
    BY <1>2 DEF Proceed, Working
<1>3. ASSUME NEW note \in {"governance_refused", "dry_run"}, Decline(note) PROVE ControlTypes'
    BY <1>3 DEF Decline, Working, Notes
<1>4. CASE BeginSegment
    BY <1>4 DEF BeginSegment, Working
<1>5. CASE ReportLoss
    BY <1>5 DEF ReportLoss, Brain!Report
<1>6. CASE BuildRunner
    BY <1>6 DEF BuildRunner, Brain!Awaken, Working
<1>7. CASE Checkpoint
    BY <1>7 DEF Checkpoint, Brain!Grow
<1>8. CASE SegmentEnds
    BY <1>8 DEF SegmentEnds, Brain!Rest, Working
<1>9. CASE SegmentFails
    BY <1>9 DEF SegmentFails, Brain!Lose, Working
<1>10. CASE CheckSentinel
    BY <1>10 DEF CheckSentinel, RequestShutdown, Working, Causes
<1>11. CASE Tick
    <2>1. failures' \in Nat /\ criticals' \in Nat
        BY <1>11 DEF Tick, Strikes
    <2>2. stop' \in BOOLEAN
        BY <1>11 DEF Tick, RequestShutdown
    <2>3. request' \in Causes \cup Notes \cup {"none"}
        BY <1>11 DEF Tick, RequestShutdown, Causes
    <2>4. pc' \in Working \cup {"off", "ended"} /\ failed' \in BOOLEAN
        BY <1>11 DEF Tick, Working
    <2> QED
        BY <1>11, <2>1, <2>2, <2>3, <2>4 DEF Tick
<1>12. CASE LeaveLoop
    BY <1>12 DEF LeaveLoop, Working
<1>13. CASE PerformShutdown
    BY <1>13 DEF PerformShutdown, Working, Notes
<1>14. CASE RegisterStop
    BY <1>14 DEF RegisterStop, Working
<1>15. CASE Abort
    BY <1>15 DEF Abort, Brain!Lose, Working
<1>16. CASE Kill
    BY <1>16 DEF Kill, Brain!Lose
<1>17. CASE OperatorStop
    BY <1>17 DEF OperatorStop, RequestShutdown, Causes
<1>18. CASE LaySentinel
    BY <1>18 DEF LaySentinel
<1>19. CASE ClearSentinel
    BY <1>19 DEF ClearSentinel
<1>20. CASE UNCHANGED vars
    BY <1>20 DEF vars
<1> QED
    BY <1>1, <1>2, <1>3, <1>4, <1>5, <1>6, <1>7, <1>8, <1>9, <1>10, <1>11, <1>12, <1>13,
       <1>14, <1>15, <1>16, <1>17, <1>18, <1>19, <1>20 DEF Next, Work

\* Every step keeps the types of the history.
LEMMA HistoryTypesKept ==
    ASSUME lifetime \in Nat, ControlTypes, HistoryTypes, [Next]_vars
    PROVE  HistoryTypes'
<1> USE DEF brain, supervisor, artifacts, history, HistoryTypes
<1>1. CASE Launch
    <2>1. outcomes' \in Seq(Outcome)
        BY <1>1 DEF Launch
    <2>2. runs' \in Nat /\ base' \in Nat /\ overdue' \in Nat
        BY <1>1 DEF Launch
    <2> QED
        BY <1>1, <2>1, <2>2 DEF Launch
<1>2. CASE Proceed
    BY <1>2 DEF Proceed
<1>3. ASSUME NEW note \in {"governance_refused", "dry_run"}, Decline(note) PROVE HistoryTypes'
    BY <1>3 DEF Decline
<1>4. CASE BeginSegment
    BY <1>4 DEF BeginSegment
<1>5. CASE ReportLoss
    BY <1>5 DEF ReportLoss, Brain!Report
<1>6. CASE BuildRunner
    BY <1>6 DEF BuildRunner, Brain!Awaken
<1>7. CASE Checkpoint
    BY <1>7 DEF Checkpoint, Brain!Grow
<1>8. CASE SegmentEnds
    BY <1>8 DEF SegmentEnds, Brain!Rest
<1>9. CASE SegmentFails
    BY <1>9 DEF SegmentFails, Brain!Lose
<1>10. CASE CheckSentinel
    BY <1>10 DEF CheckSentinel, RequestShutdown
<1>11. CASE Tick
    BY <1>11 DEF Tick, RequestShutdown, Outcome, ControlTypes
<1>12. CASE LeaveLoop
    BY <1>12 DEF LeaveLoop
<1>13. CASE PerformShutdown
    BY <1>13 DEF PerformShutdown
<1>14. CASE RegisterStop
    BY <1>14 DEF RegisterStop
<1>15. CASE Abort
    BY <1>15 DEF Abort, Brain!Lose
<1>16. CASE Kill
    BY <1>16 DEF Kill, Brain!Lose
<1>17. CASE OperatorStop
    BY <1>17 DEF OperatorStop, RequestShutdown
<1>18. CASE LaySentinel
    BY <1>18 DEF LaySentinel
<1>19. CASE ClearSentinel
    BY <1>19 DEF ClearSentinel
<1>20. CASE UNCHANGED vars
    BY <1>20 DEF vars
<1> QED
    BY <1>1, <1>2, <1>3, <1>4, <1>5, <1>6, <1>7, <1>8, <1>9, <1>10, <1>11, <1>12, <1>13,
       <1>14, <1>15, <1>16, <1>17, <1>18, <1>19, <1>20 DEF Next, Work

\* Every step keeps the account of the sentinel: a segment begins under it only from a
\* check that did not see it.
LEMMA SentinelsInductive ==
    ASSUME TypeOK, Sentinels, [Next]_vars
    PROVE  Sentinels'
<1> USE DEF brain, supervisor, artifacts, history, TypeOK, StepTypes, ControlTypes, HistoryTypes, Working, TypeOK, Sentinels, SentinelHonoured, Working
<1>1. CASE Launch
    BY <1>1 DEF Launch
<1>2. CASE Proceed
    BY <1>2 DEF Proceed
<1>3. ASSUME NEW note \in {"governance_refused", "dry_run"}, Decline(note) PROVE Sentinels'
    BY <1>3 DEF Decline
<1>4. CASE BeginSegment
    BY <1>4 DEF BeginSegment
<1>5. CASE ReportLoss
    BY <1>5 DEF ReportLoss, Brain!Report
<1>6. CASE BuildRunner
    BY <1>6 DEF BuildRunner, Brain!Awaken
<1>7. CASE Checkpoint
    BY <1>7 DEF Checkpoint, Brain!Grow
<1>8. CASE SegmentEnds
    BY <1>8 DEF SegmentEnds, Brain!Rest
<1>9. CASE SegmentFails
    BY <1>9 DEF SegmentFails, Brain!Lose
<1>10. CASE CheckSentinel
    BY <1>10 DEF CheckSentinel, RequestShutdown
<1>11. CASE Tick
    BY <1>11 DEF Tick, RequestShutdown
<1>12. CASE LeaveLoop
    BY <1>12 DEF LeaveLoop
<1>13. CASE PerformShutdown
    BY <1>13 DEF PerformShutdown
<1>14. CASE RegisterStop
    BY <1>14 DEF RegisterStop
<1>15. CASE Abort
    BY <1>15 DEF Abort, Brain!Lose
<1>16. CASE Kill
    BY <1>16 DEF Kill, Brain!Lose
<1>17. CASE OperatorStop
    BY <1>17 DEF OperatorStop, RequestShutdown
<1>18. CASE LaySentinel
    BY <1>18 DEF LaySentinel
<1>19. CASE ClearSentinel
    BY <1>19 DEF ClearSentinel
<1>20. CASE UNCHANGED vars
    BY <1>20 DEF vars
<1> QED
    BY <1>1, <1>2, <1>3, <1>4, <1>5, <1>6, <1>7, <1>8, <1>9, <1>10, <1>11, <1>12, <1>13,
       <1>14, <1>15, <1>16, <1>17, <1>18, <1>19, <1>20 DEF Next, Work

\* Every step keeps the account of the records: what asked the run to stop is told before
\* the shutdown is written, and the shutdown before the registry.
LEMMA RecordsInductive ==
    ASSUME TypeOK, Records, [Next]_vars
    PROVE  Records'
<1> USE DEF brain, supervisor, artifacts, history, TypeOK, StepTypes, ControlTypes, HistoryTypes, Working, TypeOK, Records, ReasonTold, EvidenceFirst, Working, MoreToDo, Unbounded, Total, Causes, Notes
<1>1. CASE Launch
    BY <1>1 DEF Launch
<1>2. CASE Proceed
    BY <1>2 DEF Proceed
<1>3. ASSUME NEW note \in {"governance_refused", "dry_run"}, Decline(note) PROVE Records'
    BY <1>3 DEF Decline
<1>4. CASE BeginSegment
    BY <1>4 DEF BeginSegment
<1>5. CASE ReportLoss
    BY <1>5 DEF ReportLoss, Brain!Report
<1>6. CASE BuildRunner
    BY <1>6 DEF BuildRunner, Brain!Awaken
<1>7. CASE Checkpoint
    BY <1>7 DEF Checkpoint, Brain!Grow
<1>8. CASE SegmentEnds
    BY <1>8 DEF SegmentEnds, Brain!Rest
<1>9. CASE SegmentFails
    BY <1>9 DEF SegmentFails, Brain!Lose
<1>10. CASE CheckSentinel
    BY <1>10 DEF CheckSentinel, RequestShutdown
<1>11. CASE Tick
    BY <1>11 DEF Tick, RequestShutdown
<1>12. CASE LeaveLoop
    BY <1>12 DEF LeaveLoop
<1>13. CASE PerformShutdown
    BY <1>13 DEF PerformShutdown
<1>14. CASE RegisterStop
    BY <1>14 DEF RegisterStop
<1>15. CASE Abort
    BY <1>15 DEF Abort, Brain!Lose
<1>16. CASE Kill
    BY <1>16 DEF Kill, Brain!Lose
<1>17. CASE OperatorStop
    BY <1>17 DEF OperatorStop, RequestShutdown
<1>18. CASE LaySentinel
    BY <1>18 DEF LaySentinel
<1>19. CASE ClearSentinel
    BY <1>19 DEF ClearSentinel
<1>20. CASE UNCHANGED vars
    BY <1>20 DEF vars
<1> QED
    BY <1>1, <1>2, <1>3, <1>4, <1>5, <1>6, <1>7, <1>8, <1>9, <1>10, <1>11, <1>12, <1>13,
       <1>14, <1>15, <1>16, <1>17, <1>18, <1>19, <1>20 DEF Next, Work

\* Every step keeps the account of the brain's rest: only a segment that failed, or an abort,
\* leaves it otherwise.
LEMMA RestsInductive ==
    ASSUME TypeOK, Rests, [Next]_vars
    PROVE  Rests'
<1> USE DEF brain, supervisor, artifacts, history, TypeOK, StepTypes, ControlTypes, HistoryTypes, Working, TypeOK, Rests, QuietRunRests, Working, AnyFailed
<1>1. CASE Launch
    BY <1>1 DEF Launch
<1>2. CASE Proceed
    BY <1>2 DEF Proceed
<1>3. ASSUME NEW note \in {"governance_refused", "dry_run"}, Decline(note) PROVE Rests'
    BY <1>3 DEF Decline
<1>4. CASE BeginSegment
    BY <1>4 DEF BeginSegment
<1>5. CASE ReportLoss
    BY <1>5 DEF ReportLoss, Brain!Report
<1>6. CASE BuildRunner
    BY <1>6 DEF BuildRunner, Brain!Awaken
<1>7. CASE Checkpoint
    BY <1>7 DEF Checkpoint, Brain!Grow
<1>8. CASE SegmentEnds
    BY <1>8 DEF SegmentEnds, Brain!Rest
<1>9. CASE SegmentFails
    BY <1>9 DEF SegmentFails, Brain!Lose
<1>10. CASE CheckSentinel
    BY <1>10 DEF CheckSentinel, RequestShutdown
<1>11. CASE Tick
    BY <1>11 DEF Tick, RequestShutdown
<1>12. CASE LeaveLoop
    BY <1>12 DEF LeaveLoop
<1>13. CASE PerformShutdown
    BY <1>13 DEF PerformShutdown
<1>14. CASE RegisterStop
    BY <1>14 DEF RegisterStop
<1>15. CASE Abort
    BY <1>15 DEF Abort, Brain!Lose
<1>16. CASE Kill
    BY <1>16 DEF Kill, Brain!Lose
<1>17. CASE OperatorStop
    BY <1>17 DEF OperatorStop, RequestShutdown
<1>18. CASE LaySentinel
    BY <1>18 DEF LaySentinel
<1>19. CASE ClearSentinel
    BY <1>19 DEF ClearSentinel
<1>20. CASE UNCHANGED vars
    BY <1>20 DEF vars
<1> QED
    BY <1>1, <1>2, <1>3, <1>4, <1>5, <1>6, <1>7, <1>8, <1>9, <1>10, <1>11, <1>12, <1>13,
       <1>14, <1>15, <1>16, <1>17, <1>18, <1>19, <1>20 DEF Next, Work

\* Every step keeps the account of the run's progress: credit never runs ahead of what has
\* been handed out, and that never ahead of the plan.
LEMMA ProgressInductive ==
    ASSUME TypeOK, Progress, [Next]_vars
    PROVE  Progress'
<1> USE DEF brain, supervisor, artifacts, history, TypeOK, StepTypes, ControlTypes, HistoryTypes, Working, TypeOK, Brain!TypeOK, Progress, Working, InSegment, Over, Total
<1>1. CASE Launch
    BY <1>1, PlansAssumption, LimitsAssumption DEF Launch
<1>2. CASE Proceed
    BY <1>2 DEF Proceed
<1>3. ASSUME NEW note \in {"governance_refused", "dry_run"}, Decline(note) PROVE Progress'
    BY <1>3 DEF Decline
<1>4. CASE BeginSegment
    BY <1>4, PlansAssumption, LimitsAssumption DEF BeginSegment, Segment, MoreToDo, Unbounded
<1>5. CASE ReportLoss
    BY <1>5 DEF ReportLoss, Brain!Report
<1>6. CASE BuildRunner
    BY <1>6 DEF BuildRunner, Brain!Awaken
<1>7. CASE Checkpoint
    BY <1>7, PlansAssumption, LimitsAssumption DEF Checkpoint, Brain!Grow
<1>8. CASE SegmentEnds
    BY <1>8 DEF SegmentEnds, Brain!Rest
<1>9. CASE SegmentFails
    BY <1>9 DEF SegmentFails, Brain!Lose
<1>10. CASE CheckSentinel
    BY <1>10 DEF CheckSentinel, RequestShutdown
<1>11. CASE Tick
    BY <1>11 DEF Tick, RequestShutdown
<1>12. CASE LeaveLoop
    BY <1>12 DEF LeaveLoop
<1>13. CASE PerformShutdown
    BY <1>13 DEF PerformShutdown
<1>14. CASE RegisterStop
    BY <1>14 DEF RegisterStop
<1>15. CASE Abort
    BY <1>15 DEF Abort, Brain!Lose
<1>16. CASE Kill
    BY <1>16 DEF Kill, Brain!Lose
<1>17. CASE OperatorStop
    BY <1>17 DEF OperatorStop, RequestShutdown
<1>18. CASE LaySentinel
    BY <1>18 DEF LaySentinel
<1>19. CASE ClearSentinel
    BY <1>19 DEF ClearSentinel
<1>20. CASE UNCHANGED vars
    BY <1>20 DEF vars
<1> QED
    BY <1>1, <1>2, <1>3, <1>4, <1>5, <1>6, <1>7, <1>8, <1>9, <1>10, <1>11, <1>12, <1>13,
       <1>14, <1>15, <1>16, <1>17, <1>18, <1>19, <1>20 DEF Next, Work

\* The watchdog's counts go on counting the streaks, and a full streak stops the run.
LEMMA StreaksAtTick ==
    ASSUME TypeOK, Streaks, Tick
    PROVE  Streaks'
<1> DEFINE n == Len(outcomes)
<1>1. n \in Nat /\ failures \in Nat /\ criticals \in Nat /\ FailureStrikes \in Nat /\ CriticalStrikes \in Nat
    BY LimitsAssumption DEF TypeOK, ControlTypes, HistoryTypes
<1>2. PICK health \in Health, bound \in BOOLEAN :
        /\ failures' = Strikes(failures, failed)
        /\ criticals' = Strikes(criticals, health = "critical")
        /\ outcomes' = Append(outcomes, [failed |-> failed, health |-> health])
        /\ IF StopDue(health, bound) THEN stop' ELSE UNCHANGED stop
    BY DEF Tick, RequestShutdown
<1>3. /\ Len(outcomes') = n + 1
      /\ \A i \in 1 .. n : outcomes'[i] = outcomes[i]
      /\ outcomes'[n + 1].failed = failed
      /\ outcomes'[n + 1].health = health
    BY <1>2 DEF TypeOK, HistoryTypes, ControlTypes, Outcome
<1>4. FailuresCount'
    <2>1. CASE failed
        BY <1>1, <1>2, <1>3, <2>1 DEF Streaks, FailuresCount, Strikes
    <2>2. CASE ~failed
        BY <1>1, <1>2, <1>3, <2>2 DEF FailuresCount, Strikes
    <2> QED
        BY <2>1, <2>2
<1>5. CriticalsCount'
    <2>1. CASE health = "critical"
        BY <1>1, <1>2, <1>3, <2>1 DEF Streaks, CriticalsCount, Strikes
    <2>2. CASE health # "critical"
        BY <1>1, <1>2, <1>3, <2>2 DEF CriticalsCount, Strikes
    <2> QED
        BY <2>1, <2>2
<1>6. pc' = "loop" /\ (~stop' => failures' < FailureStrikes /\ criticals' < CriticalStrikes)
    <2>1. Strikes(failures, failed) \in Nat /\ Strikes(criticals, health = "critical") \in Nat
        BY <1>1 DEF Strikes
    <2> QED
        BY <1>1, <1>2, <2>1 DEF Tick, StopDue
<1>7. failures < FailureStrikes /\ criticals < CriticalStrikes
    BY DEF Streaks, Tick, InSegment
<1>8. ~FailedStreak(FailureStrikes)'
    <2> SUFFICES ASSUME FailedStreak(FailureStrikes)' PROVE FALSE
        OBVIOUS
    <2>1. PICK i \in 1 .. (Len(outcomes') - FailureStrikes) :
            \A j \in i .. (i + FailureStrikes - 1) : outcomes'[j].failed
        BY DEF FailedStreak
    <2>2. i \in 1 .. (n + 1 - FailureStrikes)
        BY <1>1, <1>3, <2>1
    <2>3. CASE i + FailureStrikes - 1 < n
        <3>1. i \in 1 .. (n - FailureStrikes)
            BY <1>1, <2>3, <2>2
        <3>2. \A j \in i .. (i + FailureStrikes - 1) : outcomes[j].failed
            BY <1>1, <1>3, <2>3, <2>1, <2>2
        <3> QED
            BY <3>1, <3>2 DEF Streaks, StrikesStop, FailedStreak
    <2>4. CASE i + FailureStrikes - 1 = n
        <3>1. n - failures \in i .. (i + FailureStrikes - 1) /\ n - failures \in 1 .. n
            BY <1>1, <1>7, <2>4, <2>2
        <3>2. outcomes[n - failures].failed
            BY <1>3, <2>1, <3>1
        <3> QED
            BY <1>1, <3>1, <3>2 DEF Streaks, FailuresCount
    <2> QED
        BY <1>1, <2>3, <2>4, <2>2
<1>9. ~CriticalStreak(CriticalStrikes)'
    <2> SUFFICES ASSUME CriticalStreak(CriticalStrikes)' PROVE FALSE
        OBVIOUS
    <2>1. PICK i \in 1 .. (Len(outcomes') - CriticalStrikes) :
            \A j \in i .. (i + CriticalStrikes - 1) : outcomes'[j].health = "critical"
        BY DEF CriticalStreak
    <2>2. i \in 1 .. (n + 1 - CriticalStrikes)
        BY <1>1, <1>3, <2>1
    <2>3. CASE i + CriticalStrikes - 1 < n
        <3>1. i \in 1 .. (n - CriticalStrikes)
            BY <1>1, <2>3, <2>2
        <3>2. \A j \in i .. (i + CriticalStrikes - 1) : outcomes[j].health = "critical"
            BY <1>1, <1>3, <2>3, <2>1, <2>2
        <3> QED
            BY <3>1, <3>2 DEF Streaks, StrikesStop, CriticalStreak
    <2>4. CASE i + CriticalStrikes - 1 = n
        <3>1. n - criticals \in i .. (i + CriticalStrikes - 1) /\ n - criticals \in 1 .. n
            BY <1>1, <1>7, <2>4, <2>2
        <3>2. outcomes[n - criticals].health = "critical"
            BY <1>3, <2>1, <3>1
        <3> QED
            BY <1>1, <3>1, <3>2 DEF Streaks, CriticalsCount
    <2> QED
        BY <1>1, <2>3, <2>4, <2>2
<1> QED
    BY <1>4, <1>5, <1>6, <1>8, <1>9 DEF Streaks, StrikesStop, InSegment

\* Every step keeps the account of the streaks.
LEMMA StreaksInductive ==
    ASSUME TypeOK, Streaks, [Next]_vars
    PROVE  Streaks'
<1> USE DEF brain, supervisor, artifacts, history, Streaks, FailuresCount, CriticalsCount, StrikesStop, FailedStreak, CriticalStreak, Working, InSegment
<1>1. CASE Launch
    BY <1>1, LimitsAssumption DEF Launch
<1>2. CASE Proceed
    BY <1>2 DEF Proceed
<1>3. ASSUME NEW note \in {"governance_refused", "dry_run"}, Decline(note) PROVE Streaks'
    BY <1>3 DEF Decline
<1>4. CASE BeginSegment
    BY <1>4 DEF BeginSegment
<1>5. CASE ReportLoss
    BY <1>5 DEF ReportLoss, Brain!Report
<1>6. CASE BuildRunner
    BY <1>6 DEF BuildRunner, Brain!Awaken
<1>7. CASE Checkpoint
    BY <1>7 DEF Checkpoint, Brain!Grow
<1>8. CASE SegmentEnds
    BY <1>8 DEF SegmentEnds, Brain!Rest
<1>9. CASE SegmentFails
    BY <1>9 DEF SegmentFails, Brain!Lose
<1>10. CASE CheckSentinel
    BY <1>10 DEF CheckSentinel, RequestShutdown
<1>11. CASE Tick
    BY <1>11, StreaksAtTick
<1>12. CASE LeaveLoop
    BY <1>12 DEF LeaveLoop
<1>13. CASE PerformShutdown
    BY <1>13 DEF PerformShutdown
<1>14. CASE RegisterStop
    BY <1>14 DEF RegisterStop
<1>15. CASE Abort
    BY <1>15 DEF Abort, Brain!Lose
<1>16. CASE Kill
    BY <1>16 DEF Kill, Brain!Lose
<1>17. CASE OperatorStop
    BY <1>17 DEF OperatorStop, RequestShutdown
<1>18. CASE LaySentinel
    BY <1>18 DEF LaySentinel
<1>19. CASE ClearSentinel
    BY <1>19 DEF ClearSentinel
<1>20. CASE UNCHANGED vars
    BY <1>20 DEF vars
<1> QED
    BY <1>1, <1>2, <1>3, <1>4, <1>5, <1>6, <1>7, <1>8, <1>9, <1>10, <1>11, <1>12, <1>13,
       <1>14, <1>15, <1>16, <1>17, <1>18, <1>19, <1>20 DEF Next, Work

\* A segment that was not cut has been credited in full.
LEMMA CompletenessAtEnd ==
    ASSUME TypeOK, Completeness, Records, SegmentEnds
    PROVE  Completeness'
<1>1. AnyFailed' <=> AnyFailed
    BY DEF SegmentEnds, AnyFailed
<1>2. /\ pc = "segment" /\ pc' = "sentinel" /\ ~failed'
      /\ cut' <=> (cut \/ lived < segment)
      /\ shutdown' = shutdown
    BY DEF SegmentEnds, artifacts
<1>3. lifetime' = lifetime /\ base' = base /\ done' = done + segment
    BY DEF SegmentEnds, Brain!Rest
<1>4. ~cut' => lived = segment
    BY <1>2, LimitsAssumption DEF TypeOK, StepTypes
<1>5. ~AnyFailed' /\ ~cut' => lifetime' = base' + done'
    BY <1>1, <1>2, <1>3, <1>4 DEF Completeness, TypeOK, StepTypes, HistoryTypes, Brain!TypeOK
<1>6. AllStepsLived'
    BY <1>2 DEF AllStepsLived, Records, Working
<1> QED
    BY <1>2, <1>5, <1>6 DEF Completeness

\* Every step keeps the account of complete runs.
LEMMA CompletenessInductive ==
    ASSUME TypeOK, Progress, Records, Completeness, [Next]_vars
    PROVE  Completeness'
<1> USE DEF brain, supervisor, artifacts, history, TypeOK, StepTypes, ControlTypes, HistoryTypes, Working, TypeOK, Brain!TypeOK, Progress, Records, Completeness, AllStepsLived, Working, InSegment, Over, Total, MoreToDo, Unbounded, AnyFailed, Notes
<1>1. CASE Launch
    BY <1>1 DEF Launch
<1>2. CASE Proceed
    BY <1>2 DEF Proceed
<1>3. ASSUME NEW note \in {"governance_refused", "dry_run"}, Decline(note) PROVE Completeness'
    BY <1>3 DEF Decline
<1>4. CASE BeginSegment
    BY <1>4 DEF BeginSegment, Segment
<1>5. CASE ReportLoss
    BY <1>5 DEF ReportLoss, Brain!Report
<1>6. CASE BuildRunner
    BY <1>6 DEF BuildRunner, Brain!Awaken
<1>7. CASE Checkpoint
    BY <1>7 DEF Checkpoint, Brain!Grow
<1>8. CASE SegmentEnds
    BY <1>8, CompletenessAtEnd
<1>9. CASE SegmentFails
    BY <1>9 DEF SegmentFails, Brain!Lose
<1>10. CASE CheckSentinel
    BY <1>10 DEF CheckSentinel, RequestShutdown
<1>11. CASE Tick
    BY <1>11 DEF Tick, RequestShutdown
<1>12. CASE LeaveLoop
    BY <1>12, PlansAssumption, LimitsAssumption DEF LeaveLoop
<1>13. CASE PerformShutdown
    BY <1>13 DEF PerformShutdown
<1>14. CASE RegisterStop
    BY <1>14 DEF RegisterStop
<1>15. CASE Abort
    BY <1>15 DEF Abort, Brain!Lose
<1>16. CASE Kill
    BY <1>16 DEF Kill, Brain!Lose
<1>17. CASE OperatorStop
    BY <1>17 DEF OperatorStop, RequestShutdown
<1>18. CASE LaySentinel
    BY <1>18 DEF LaySentinel
<1>19. CASE ClearSentinel
    BY <1>19 DEF ClearSentinel
<1>20. CASE UNCHANGED vars
    BY <1>20 DEF vars
<1> QED
    BY <1>1, <1>2, <1>3, <1>4, <1>5, <1>6, <1>7, <1>8, <1>9, <1>10, <1>11, <1>12, <1>13,
       <1>14, <1>15, <1>16, <1>17, <1>18, <1>19, <1>20 DEF Next, Work

-----------------------------------------------------------------------------
(* The inductive invariant, and what it gives. *)

\* Its parts hold at the start, before any run.
LEMMA Initially == Init => IInv
<1> SUFFICES ASSUME Init PROVE IInv
    OBVIOUS
<1>1. TypeOK
    <2>1. Brain!TypeOK
        BY DEF Init, Brain!Init, Brain!TypeOK
    <2>2. StepTypes
        BY LimitsAssumption DEF Init, StepTypes
    <2>3. ControlTypes
        BY DEF Init, ControlTypes
    <2>4. HistoryTypes
        <3>1. outcomes \in Seq(Outcome)
            BY DEF Init
        <3>2. runs \in Nat /\ base \in Nat /\ overdue \in Nat
            BY DEF Init
        <3> QED
            BY <3>1, <3>2 DEF Init, HistoryTypes
    <2> QED
        BY <2>1, <2>2, <2>3, <2>4 DEF TypeOK
<1>2. Sentinels
    BY DEF Init, Sentinels, SentinelHonoured
<1>3. Streaks
    BY LimitsAssumption DEF Init, Streaks, FailuresCount, CriticalsCount, StrikesStop,
        FailedStreak, CriticalStreak, InSegment
<1>4. Progress
    BY PlansAssumption DEF Init, Brain!Init, Progress, Total, InSegment, Over
<1>5. Completeness
    BY DEF Init, Completeness, AllStepsLived
<1>6. Records
    BY DEF Init, Records, ReasonTold, EvidenceFirst, Working
<1>7. Rests
    BY DEF Init, Rests, QuietRunRests
<1> QED
    BY <1>1, <1>2, <1>3, <1>4, <1>5, <1>6, <1>7 DEF IInv

\* Every step keeps all of them.
LEMMA Inductive == IInv /\ [Next]_vars => IInv'
<1> SUFFICES ASSUME IInv, [Next]_vars PROVE IInv'
    OBVIOUS
<1>1. TypeOK'
    BY BrainTypesKept, StepTypesKept, ControlTypesKept, HistoryTypesKept DEF IInv, TypeOK, Brain!TypeOK
<1> QED
    BY <1>1, SentinelsInductive, StreaksInductive, ProgressInductive, CompletenessInductive,
       RecordsInductive, RestsInductive DEF IInv

\* The invariant holds in every reachable state.
THEOREM Invariance == Spec => []IInv
    BY Initially, Inductive, PTL DEF Spec

\* The supervisor, its records and the brain's life are well typed in every reachable state.
THEOREM TypeCorrect == Spec => []TypeOK
<1>1. IInv => TypeOK
    BY DEF IInv
<1> QED
    BY <1>1, Invariance, PTL

\* Under an emergency sentinel, _supervise lets at most the segment begin that its check missed.
THEOREM SentinelBounds == Spec => []SentinelHonoured
<1>1. IInv => SentinelHonoured
    BY DEF IInv, Sentinels
<1> QED
    BY <1>1, Invariance, PTL

\* No segment runs after a full streak of failures or of critical checks, whatever the limits of
\* the watchdog and whoever else stops the run.
THEOREM StrikesBound == Spec => []StrikesStop
<1>1. IInv => StrikesStop
    BY DEF IInv, Streaks
<1> QED
    BY <1>1, Invariance, PTL

\* A run with a step bound credits the manifest with at most that many steps, for every plan and
\* interval.
THEOREM BudgetBounds == Spec => []BudgetKept
<1>1. IInv => BudgetKept
    BY DEF IInv, Progress, BudgetKept
<1> QED
    BY <1>1, Invariance, PTL

\* A run that is shut down as complete, with no segment failed, cut or aborted, has lived exactly
\* the steps of its plan.
THEOREM CompleteRunsLived == Spec => []AllStepsLived
<1>1. IInv => AllStepsLived
    BY DEF IInv, Completeness, AllStepsLived
<1> QED
    BY <1>1, Invariance, PTL

\* A run without a failed segment leaves the brain at rest.
THEOREM QuietRunsRest == Spec => []QuietRunRests
<1>1. IInv => QuietRunRests
    BY DEF IInv, Rests
<1> QED
    BY <1>1, Invariance, PTL

\* shutdown.json never calls a run complete that something asked to stop.
THEOREM ReasonsTold == Spec => []ReasonTold
<1>1. IInv => ReasonTold
    BY DEF IInv, Records
<1> QED
    BY <1>1, Invariance, PTL

\* The registry never says stopped of a run whose shutdown.json is not written.
THEOREM EvidenceComesFirst == Spec => []EvidenceFirst
<1>1. IInv => EvidenceFirst
    BY DEF IInv, Records
<1> QED
    BY <1>1, Invariance, PTL
=============================================================================
