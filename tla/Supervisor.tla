----------------------------- MODULE Supervisor -----------------------------
(***************************************************************************)
(* The supervisor of ops/supervisor.py with its watchdog, its shutdown     *)
(* record, its registry entry and the emergency sentinel of                *)
(* governance/emergency.py.  A run is cut into segments; each segment is a *)
(* session of the brain in the state directory.                            *)
(*                                                                         *)
(* The brain is the one of Continuity, which ContinuousRunner implements:  *)
(* what a segment does to the state directory is a step of Continuity.     *)
(* What the health monitor and the clocks report is any of what they can   *)
(* report; the supervisor only sees the grade and whether a bound is hit.  *)
(***************************************************************************)
EXTENDS Naturals, Sequences

CONSTANTS
    Plans,            \* [mode, steps]: the manifests a run may have
    NoBound,          \* max_steps is None
    Chunk,            \* healthcheck_interval_steps
    FailureStrikes,   \* Watchdog.failure_strikes
    CriticalStrikes,  \* Watchdog.critical_strikes
    MaxRuns,          \* bound of the model: runs launched
    MaxSegments       \* bound of the model: segments of an unbounded run

VARIABLES
    phase, lifetime, reported,  \* the brain, as in Continuity
    sentinel,                   \* <state_dir>/EMERGENCY_STOP exists
    \* The supervisor.
    pc,         \* what it is about to do
    plan,       \* manifest of the run
    stop,       \* _stop_requested
    request,    \* SafeShutdownManager._reason, "none" when nothing was requested
    done,       \* steps handed out
    segment,    \* steps of the segment in progress
    lived,      \* of them, the ones the manifest of the state directory has credited
    failed,     \* the last segment raised
    failures, criticals,  \* the watchdog's strikes
    emergency,  \* _emergency_stop_triggered
    \* What it leaves behind.
    shutdown,   \* shutdown.json: its reason
    entry,      \* status in the run registry
    \* History, read by the properties and by no guard but the bounds.
    runs,       \* runs launched so far
    base,       \* lifetime at the launch
    outcomes,   \* per segment: whether it failed and how healthy it left the run
    cut,        \* a Ctrl-C ended a segment of this run early
    overdue,    \* segments begun since the sentinel was laid
    aborted     \* something escaped the loop

brain == <<phase, lifetime, reported>>
supervisor == <<pc, plan, stop, request, done, segment, lived, failed, failures, criticals, emergency>>
artifacts == <<shutdown, entry>>
history == <<runs, base, outcomes, cut, overdue, aborted>>
vars == <<brain, sentinel, supervisor, artifacts, history>>

Brain == INSTANCE Continuity

Modes == {"bounded", "soak", "continuous_explicit"}
Causes == {"sentinel", "watchdog", "operator"}
Notes == {"governance_refused", "dry_run", "session_complete"}
\* A warning makes the watchdog warn, and is as good as ok for all it does.
Health == {"ok", "critical"}

\* From the registration to the registry's stop.
Working == {"pre_run", "loop", "build", "segment", "sentinel", "tick",
            "finalize", "register_stop"}
Outcome == [failed : BOOLEAN, health : Health]

ASSUME PlansAssumption ==
    /\ Plans \subseteq [mode : Modes, steps : (Nat \ {0}) \cup {NoBound}]
    /\ NoBound \notin Nat

ASSUME LimitsAssumption ==
    /\ Chunk \in Nat \ {0}
    /\ FailureStrikes \in Nat \ {0} /\ CriticalStrikes \in Nat \ {0}
    /\ MaxRuns \in Nat /\ MaxSegments \in Nat

-----------------------------------------------------------------------------
(* The plan of a run. *)

Total == IF plan.steps = NoBound THEN 0 ELSE plan.steps

Unbounded == plan.mode = "continuous_explicit" /\ Total = 0

\* Slip: a run never takes a segment that is shorter than the others.
MoreToDoInChunks == Unbounded \/ done + Chunk <= Total

MoreToDo == Unbounded \/ done < Total

\* Slip: the last segment is as long as the others.
SegmentFull == Chunk

\* Slip: a bounded run is one segment.
SegmentWhole == IF Unbounded THEN Chunk ELSE Total

Segment == IF Unbounded \/ Total - done >= Chunk THEN Chunk ELSE Total - done

-----------------------------------------------------------------------------
Init ==
    /\ Brain!Init
    /\ sentinel = FALSE
    /\ pc = "off"
    /\ plan \in Plans
    /\ stop = FALSE /\ request = "none"
    /\ done = 0 /\ segment = 0 /\ lived = 0
    /\ failed = FALSE /\ failures = 0 /\ criticals = 0
    /\ emergency = FALSE
    /\ shutdown = "none" /\ entry = "none"
    /\ runs = 0 /\ base = 0 /\ outcomes = <<>>
    /\ cut = FALSE /\ overdue = 0 /\ aborted = FALSE

(* run: before the first segment *)

\* A new supervisor, manifest and registry entry over the same state directory.
Launch ==
    /\ pc \in {"off", "ended"}
    /\ runs < MaxRuns
    /\ plan' \in Plans
    /\ pc' = "pre_run"
    /\ stop' = FALSE /\ request' = "none"
    /\ done' = 0 /\ segment' = 0 /\ lived' = 0
    /\ failed' = FALSE /\ failures' = 0 /\ criticals' = 0
    /\ emergency' = FALSE
    /\ shutdown' = "none" /\ entry' = "running"
    /\ runs' = runs + 1 /\ base' = lifetime /\ outcomes' = <<>>
    /\ cut' = FALSE /\ overdue' = 0 /\ aborted' = FALSE
    /\ UNCHANGED <<brain, sentinel>>

Proceed ==
    /\ pc = "pre_run"
    /\ pc' = "loop"
    /\ UNCHANGED <<brain, sentinel, plan, stop, request, done, segment, lived, failed,
                   failures, criticals, emergency, artifacts, history>>

\* The governance gate denies the run, or the run is a dry one.
Decline(note) ==
    /\ pc = "pre_run"
    /\ pc' = "finalize"
    /\ request' = IF request = "none" THEN note ELSE request
    /\ UNCHANGED <<brain, sentinel, plan, stop, done, segment, lived, failed, failures,
                   criticals, emergency, artifacts, history>>

(* run: the segments *)

BeginSegment ==
    /\ pc = "loop"
    /\ ~stop
    /\ MoreToDo
    /\ Len(outcomes) < MaxSegments
    /\ pc' = "build"
    /\ segment' = Segment
    /\ overdue' = IF sentinel THEN overdue + 1 ELSE 0
    /\ UNCHANGED <<brain, sentinel, plan, stop, request, done, lived, failed, failures, criticals,
                   emergency, artifacts, runs, base, outcomes, cut, aborted>>

\* runner_factory: the session reports a loss it finds, and marks itself running.
ReportLoss ==
    /\ pc = "build"
    /\ ~reported
    /\ Brain!Report
    /\ UNCHANGED <<sentinel, supervisor, artifacts, history>>

BuildRunner ==
    /\ pc = "build"
    /\ Brain!Awaken
    /\ pc' = "segment"
    /\ UNCHANGED <<sentinel, plan, stop, request, done, segment, lived, failed, failures,
                   criticals, emergency, artifacts, history>>

\* A checkpoint of the session credits some of the segment's steps.
Checkpoint ==
    /\ pc = "segment"
    /\ \E steps \in 1 .. (segment - lived) :
           /\ lived' = lived + steps
           /\ lifetime' = lifetime + steps
    /\ Brain!Grow
    /\ UNCHANGED <<sentinel, pc, plan, stop, request, done, segment, failed, failures,
                   criticals, emergency, artifacts, history>>

\* runner.run() returned: all steps lived, or a Ctrl-C that the runner kept to itself.
SegmentEnds ==
    /\ pc = "segment"
    /\ Brain!Rest
    /\ cut' = (cut \/ lived < segment)
    /\ pc' = "sentinel"
    /\ done' = done + segment
    /\ lived' = 0
    /\ failed' = FALSE
    /\ UNCHANGED <<sentinel, plan, stop, request, segment, failures, criticals,
                   emergency, artifacts, runs, base, outcomes, overdue, aborted>>

\* Slip: an exception passes for a segment that ended.
SegmentFailsQuietly ==
    /\ \/ pc = "build" /\ UNCHANGED brain
       \/ pc = "segment" /\ Brain!Lose
    /\ pc' = "sentinel"
    /\ done' = done + segment
    /\ lived' = 0
    /\ failed' = FALSE
    /\ UNCHANGED <<sentinel, plan, stop, request, segment, failures, criticals,
                   emergency, artifacts, history>>

\* Slip: a segment that failed is tried again at once.
SegmentRetries ==
    /\ \/ pc = "build" /\ UNCHANGED brain
       \/ pc = "segment" /\ Brain!Lose
    /\ pc' = "loop"
    /\ lived' = 0
    /\ UNCHANGED <<sentinel, plan, stop, request, done, segment, failed, failures, criticals,
                   emergency, artifacts, history>>

\* The factory or the runner raised: the session ends as a loss, the steps count as done.
SegmentFails ==
    /\ \/ pc = "build" /\ UNCHANGED brain
       \/ pc = "segment" /\ Brain!Lose
    /\ pc' = "sentinel"
    /\ done' = done + segment
    /\ lived' = 0
    /\ failed' = TRUE
    /\ UNCHANGED <<sentinel, plan, stop, request, segment, failures, criticals,
                   emergency, artifacts, history>>

(* _supervise *)

RequestShutdown(cause) == stop' = TRUE /\ request' = cause

\* Slip: the sentinel is noted and the run goes on.
CheckSentinelMildly ==
    /\ pc = "sentinel"
    /\ pc' = "tick"
    /\ emergency' = (emergency \/ sentinel)
    /\ UNCHANGED <<brain, sentinel, plan, stop, request, done, segment, lived, failed,
                   failures, criticals, artifacts, history>>

CheckSentinel ==
    /\ pc = "sentinel"
    /\ pc' = "tick"
    /\ IF sentinel /\ ~emergency
         THEN emergency' = TRUE /\ RequestShutdown("sentinel")
         ELSE UNCHANGED <<emergency, stop, request>>
    /\ UNCHANGED <<brain, sentinel, plan, done, segment, lived, failed, failures, criticals,
                   artifacts, history>>

\* What the watchdog decides on this tick: a stop of either kind, or none.
Strikes(count, strike) == IF strike THEN count + 1 ELSE 0

\* Slip: the last strike is forgiven.
StopDueLate(health, bound) ==
    \/ Strikes(failures, failed) > FailureStrikes
    \/ Strikes(criticals, health = "critical") > CriticalStrikes
    \/ bound

StopDue(health, bound) ==
    \/ Strikes(failures, failed) >= FailureStrikes
    \/ Strikes(criticals, health = "critical") >= CriticalStrikes
    \/ bound

\* Slip: the watchdog's stop is not told to the shutdown manager.
TickSilently ==
    /\ pc = "tick"
    /\ pc' = "loop"
    /\ failed' = FALSE
    /\ \E health \in Health, bound \in BOOLEAN :
           /\ failures' = Strikes(failures, failed)
           /\ criticals' = Strikes(criticals, health = "critical")
           /\ outcomes' = Append(outcomes, [failed |-> failed, health |-> health])
           /\ stop' = (stop \/ StopDue(health, bound))
    /\ UNCHANGED <<brain, sentinel, plan, request, done, segment, lived, emergency,
                   artifacts, runs, base, cut, overdue, aborted>>

\* Health check, watchdog tick, registry update.  bound: the duration, the artifacts, the age of
\* the last heartbeat or the length of a latent cycle is over its limit.
Tick ==
    /\ pc = "tick"
    /\ pc' = "loop"
    /\ failed' = FALSE
    /\ \E health \in Health, bound \in BOOLEAN :
           /\ failures' = Strikes(failures, failed)
           /\ criticals' = Strikes(criticals, health = "critical")
           /\ outcomes' = Append(outcomes, [failed |-> failed, health |-> health])
           /\ IF StopDue(health, bound) THEN RequestShutdown("watchdog")
                                        ELSE UNCHANGED <<stop, request>>
    /\ UNCHANGED <<brain, sentinel, plan, done, segment, lived, emergency, artifacts,
                   runs, base, cut, overdue, aborted>>

(* finalize *)

LeaveLoop ==
    /\ pc = "loop"
    /\ stop \/ ~MoreToDo
    /\ pc' = "finalize"
    /\ UNCHANGED <<brain, sentinel, plan, stop, request, done, segment, lived, failed,
                   failures, criticals, emergency, artifacts, history>>

\* A Ctrl-C outside the runner's loop, or an exception of _supervise: straight to finalize.
Abort ==
    /\ \/ pc \in {"loop", "build", "sentinel", "tick"} /\ UNCHANGED brain
       \/ pc = "segment" /\ Brain!Lose
    /\ pc' = "finalize"
    /\ aborted' = TRUE
    /\ lived' = 0
    /\ UNCHANGED <<sentinel, plan, stop, request, done, segment, failed, failures,
                   criticals, emergency, artifacts, runs, base, outcomes, cut, overdue>>

\* Slip: the registry hears of the stop before the evidence is written.
PerformShutdownLast ==
    /\ pc = "finalize"
    /\ entry' = "stopped"
    /\ pc' = "register_stop"
    /\ UNCHANGED <<brain, sentinel, plan, stop, request, done, segment, lived, failed,
                   failures, criticals, emergency, shutdown, history>>

\* shutdown.json, always with graceful: true.
PerformShutdown ==
    /\ pc = "finalize"
    /\ shutdown' = IF request = "none" THEN "session_complete" ELSE request
    /\ pc' = "register_stop"
    /\ UNCHANGED <<brain, sentinel, plan, stop, request, done, segment, lived, failed,
                   failures, criticals, emergency, entry, history>>

\* register_stop, always with graceful=True; the governance evidence follows.
RegisterStop ==
    /\ pc = "register_stop"
    /\ entry' = "stopped"
    /\ pc' = "ended"
    /\ UNCHANGED <<brain, sentinel, plan, stop, request, done, segment, lived, failed,
                   failures, criticals, emergency, shutdown, history>>

(* the surroundings *)

\* OperationalSupervisor.stop, from a callback or a signal handler of the run: nothing of the run
\* comes between its two assignments.
OperatorStop ==
    /\ pc \in Working
    /\ RequestShutdown("operator")
    /\ UNCHANGED <<brain, sentinel, pc, plan, done, segment, lived, failed, failures,
                   criticals, emergency, artifacts, history>>

\* EmergencyStop.request of an operator's process, between runs too.
LaySentinel ==
    /\ ~sentinel
    /\ Len(outcomes) + 1 < MaxSegments
    /\ sentinel' = TRUE
    /\ UNCHANGED <<brain, supervisor, artifacts, history>>

ClearSentinel ==
    /\ sentinel
    /\ sentinel' = FALSE
    /\ overdue' = 0
    /\ UNCHANGED <<brain, supervisor, artifacts, runs, base, outcomes, cut, aborted>>

\* The supervisor's process is killed, and the session in it; or finalize itself raises.
Kill ==
    /\ pc \in Working
    /\ IF pc = "segment" THEN Brain!Lose ELSE UNCHANGED brain
    /\ pc' = "off"
    /\ lived' = 0
    /\ UNCHANGED <<sentinel, plan, stop, request, done, segment, failed, failures,
                   criticals, emergency, artifacts, history>>

Work ==
    \/ Proceed \/ Decline("governance_refused") \/ Decline("dry_run")
    \/ BeginSegment \/ ReportLoss \/ BuildRunner \/ Checkpoint \/ SegmentEnds \/ SegmentFails
    \/ CheckSentinel \/ Tick
    \/ LeaveLoop \/ PerformShutdown \/ RegisterStop

Next ==
    \/ Launch \/ Work \/ Abort \/ Kill
    \/ OperatorStop \/ LaySentinel \/ ClearSentinel

Spec == Init /\ [][Next]_vars

\* The supervisor goes on while it lives, and every session it runs comes to an end (RunEnds of
\* ContinuousRunner, and an exception ends one too).
FairSpec == Spec /\ WF_vars(Work)
-----------------------------------------------------------------------------
(* What must hold. *)

\* The run's steps: a segment is never longer than the interval, and only a session at work is
\* credited with steps the run has not counted yet.
StepTypes ==
    /\ done \in Nat
    /\ segment \in 0 .. Chunk
    /\ lived \in 0 .. segment
    /\ pc # "segment" => lived = 0

ControlTypes ==
    /\ sentinel \in BOOLEAN
    /\ pc \in Working \cup {"off", "ended"}
    /\ plan \in Plans
    /\ stop \in BOOLEAN /\ emergency \in BOOLEAN
    /\ request \in Causes \cup Notes \cup {"none"}
    /\ failed \in BOOLEAN
    /\ failures \in Nat /\ criticals \in Nat
    /\ shutdown \in Causes \cup Notes \cup {"none"}
    /\ entry \in {"none", "running", "stopped"}

HistoryTypes ==
    /\ runs \in Nat /\ base \in Nat
    /\ outcomes \in Seq(Outcome)
    /\ cut \in BOOLEAN /\ aborted \in BOOLEAN
    /\ overdue \in Nat

\* The variables have their types.
TypeOK == Brain!TypeOK /\ StepTypes /\ ControlTypes /\ HistoryTypes

\* Once the sentinel is there at most one more segment begins, whether it was laid before the
\* run, in a segment or between the check and the next one.
SentinelHonoured == overdue <= 1

AnyFailed == \E i \in 1 .. Len(outcomes) : outcomes[i].failed

FailedStreak(n) ==
    \E i \in 1 .. (Len(outcomes) - n) : \A j \in i .. (i + n - 1) : outcomes[j].failed
CriticalStreak(n) ==
    \E i \in 1 .. (Len(outcomes) - n) : \A j \in i .. (i + n - 1) : outcomes[j].health = "critical"

\* No segment is run after as many failures, or as many critical checks, in a row as the
\* watchdog allows.
StrikesStop == ~FailedStreak(FailureStrikes) /\ ~CriticalStreak(CriticalStrikes)

\* A run with a step bound never lives more steps than that, over segments that fail after a
\* checkpoint, are cut short or are the shorter last one.
BudgetKept == plan.steps # NoBound => lifetime <= base + Total

\* A run that nothing stopped, cut or failed has lived all of its steps.
AllStepsLived ==
    shutdown = "session_complete" /\ plan.steps # NoBound /\ ~cut /\ ~aborted =>
        AnyFailed \/ lifetime = base + Total

\* A run in which no segment failed leaves the brain at rest.
QuietRunRests ==
    entry = "stopped" /\ ~aborted /\ outcomes # <<>> =>
        AnyFailed \/ phase = "resting"

\* shutdown.json calls the session complete only when nothing asked it to stop.
ReasonTold == shutdown = "session_complete" /\ ~aborted => ~MoreToDo /\ ~emergency

\* The registry says stopped only when the evidence of the shutdown is on disk.
EvidenceFirst == entry = "stopped" => shutdown # "none"

\* A run with a bound comes to its end.
BoundedRunEnds == pc = "loop" /\ ~Unbounded ~> pc \in {"ended", "off"}

\* A sentinel that is left lying ends any run, the unbounded ones too.
SentinelEnds == pc = "loop" /\ sentinel ~> pc \in {"ended", "off"} \/ ~sentinel

-----------------------------------------------------------------------------
(* What the documentation says and the code does not keep. *)

\* ops/safe_shutdown.py:3-6: a safe shutdown checkpoints first and marks the manifest graceful,
\* so that the next session restores cleanly.
GracefulMeansRested ==
    entry = "stopped" /\ ~aborted /\ outcomes # <<>> => phase # "lost"

\* governance/runbook.py:245-250: a soak is launched with max_steps=None; ARCHITECTURE.md:676:
\* bounded mode demands a step or duration bound.  A run that is bounded by time only runs.
TimeBoundRuns ==
    entry = "stopped" /\ shutdown = "session_complete" /\ ~aborted => outcomes # <<>>
=============================================================================
