-------------------------- MODULE ContinuousRunner --------------------------
(***************************************************************************)
(* The runner of runtime/continuous_runner.py over the state directory of  *)
(* runtime/persistence.py: sessions that start, restore, step, checkpoint, *)
(* prune and finalize, each write of a file an action of its own, so that  *)
(* a session can die between any two of them.                              *)
(*                                                                         *)
(* What the brain has learned is abstracted to the set of signals that     *)
(* went into it.  A signal is the position it has in the history `heard`,  *)
(* which no crash rolls back; a process start is a number too, the session *)
(* id it draws.  Wall-clock time is the number of heartbeats beaten.       *)
(*                                                                         *)
(* A crash is whatever ends the process without _finalize: a kill, an      *)
(* exception of a provider or of a file operation, a Ctrl-C outside the    *)
(* loop, a runner that is constructed and dropped without being run.  What *)
(* write() handed to the system before the crash is kept.                  *)
(***************************************************************************)
EXTENDS Naturals, Sequences, FiniteSets

CONSTANTS
    MaxSteps,       \* max_steps of every session
    Interval,       \* checkpoint_interval_steps, 0 when off
    PruneInterval,  \* prune_interval_steps, 0 when off
    Reactions,      \* what reaction_provider may do with a signal: TRUE for a valence
    MaxStarts,      \* bound of the model: process starts
    NoFile,         \* a file that does not exist
    Torn            \* an .npz archive that is only partly written

VARIABLES
    \* The state directory.
    manifest,           \* manifest.json
    checkpoint,         \* latest_checkpoint.json
    npz,                \* substrate_state.npz
    substrateManifest,  \* substrate_manifest.json: last_saved_step
    log,                \* continuity_log.jsonl
    trace,              \* trace_events.jsonl
    \* The process.
    pc,                 \* the write or call it is about to make
    reason,             \* what the checkpoint in progress is for
    stop,               \* _stop_requested
    brain,              \* bridge, telemetry and counters of the session
    \* History, read by the properties and by no guard but the bound.
    session,            \* process starts so far; the id of the last one
    clock,              \* heartbeats beaten so far
    heard,              \* heard[i]: the session that processed signal i
    interrupts          \* Ctrl-Cs that reached the loop

disk == <<manifest, checkpoint, npz, substrateManifest, log, trace>>
process == <<pc, reason, stop, brain>>
history == <<session, clock, heard, interrupts>>
vars == <<disk, process, history>>

Events == {"birth", "restart", "checkpoint", "graceful_death", "synthesis_pruning",
           "unexpected_death_detected", "brain_death_gap"}

InitPoints == {"log_death", "log_gap", "mark_running"}
BirthPoints == {"birth", "log_restart", "log_birth"}
StepPoints == {"loop", "process", "react", "record", "beat", "prune"}
CheckpointPoints == {"log_checkpoint", "save_checkpoint", "open_npz", "close_npz",
                     "save_substrate_manifest", "save_manifest"}
DeathPoints == {"die", "save_final_manifest"}
Live == InitPoints \cup BirthPoints \cup StepPoints \cup CheckpointPoints \cup DeathPoints
\* From here on manifest.json names this session.
Marked == Live \ InitPoints

Pruning == [session : Nat, lifetime : Nat]
Manifest == [run : Nat, session : Nat, lifetime : Nat, restarts : Nat, sessions : Nat,
             graceful : BOOLEAN, heartbeat : Nat]
Checkpoint == [session : Nat, step : Nat, lifetime : Nat, steps : Nat,
               res : SUBSET Nat, wts : SUBSET Nat, prunings : SUBSET Pruning]
Archive == [res : SUBSET Nat]
Row == [event : Events, run : Nat, session : Nat, lifetime : Nat]
TraceRow == [lifetime : Nat, signal : Nat]
Brain == [run : Nat, base : Nat, restarts : Nat, sessions : Nat, isRestart : BOOLEAN,
          step : Nat, steps : Nat, heartbeat : Nat,
          res : SUBSET Nat, wts : SUBSET Nat, prunings : SUBSET Pruning]

ASSUME BoundsAssumption ==
    /\ MaxSteps \in Nat /\ Interval \in Nat /\ PruneInterval \in Nat /\ MaxStarts \in Nat
    /\ Reactions \subseteq BOOLEAN

ASSUME FilesAssumption ==
    /\ NoFile # Torn
    /\ NoFile \notin Manifest \cup Checkpoint \cup Archive \cup Nat
    /\ Torn \notin Archive

-----------------------------------------------------------------------------
(* The state of a session. *)

Blank == [run |-> 0, base |-> 0, restarts |-> 0, sessions |-> 0, isRestart |-> FALSE,
          step |-> 0, steps |-> 0, heartbeat |-> 0, res |-> {}, wts |-> {}, prunings |-> {}]

\* Slip: the steps of earlier sessions are forgotten.
LifetimeOfSession == brain.step

\* Slip: the count starts one too high.
LifetimeFromOne == brain.base + brain.step + 1

Lifetime == brain.base + brain.step

\* Slip: a checkpoint comes a step late.
DueLate(interval) == interval > 0 /\ brain.step % (interval + 1) = 0

Due(interval) == interval > 0 /\ brain.step % interval = 0

ShouldStop == stop \/ brain.step >= MaxSteps

\* ContinuityLog.log: one appended row, stamped with the session's identity.
LogRow(event, lifetime) ==
    [event |-> event, run |-> brain.run, session |-> session, lifetime |-> lifetime]

Log(event, lifetime) == log' = log \cup {LogRow(event, lifetime)}

\* Slip: the heartbeat in the file is never renewed.
SaveManifestStale(graceful) ==
    manifest' = [run |-> brain.run, session |-> session, lifetime |-> Lifetime,
                 restarts |-> brain.restarts, sessions |-> brain.sessions,
                 graceful |-> graceful,
                 heartbeat |-> IF manifest = NoFile THEN clock ELSE manifest.heartbeat]

\* _save_manifest; a session that has not beaten yet stamps the time of the save.
SaveManifest(graceful) ==
    manifest' = [run |-> brain.run, session |-> session, lifetime |-> Lifetime,
                 restarts |-> brain.restarts, sessions |-> brain.sessions,
                 graceful |-> graceful,
                 heartbeat |-> IF brain.heartbeat = 0 THEN clock ELSE brain.heartbeat]

\* load_npz raises on a torn archive, and nothing but the manifest beside it is looked at
\* before the archive is opened.
Loadable == substrateManifest = NoFile \/ npz # Torn

\* restore_into, then load_substrate_into: the archive replaces the checkpoint's reservoir.
RestoredReservoir ==
    IF substrateManifest # NoFile /\ npz # NoFile THEN npz.res
    ELSE IF checkpoint # NoFile THEN checkpoint.res ELSE {}

\* What restore_into gives readout and habits.
RestoredWeights == IF checkpoint = NoFile THEN {} ELSE checkpoint.wts

\* What _init_session reads and rebuilds before it writes anything.
Restored ==
    [run       |-> IF manifest = NoFile THEN session + 1 ELSE manifest.run,
     base      |-> IF manifest = NoFile THEN 0 ELSE manifest.lifetime,
     restarts  |-> IF manifest = NoFile THEN 0 ELSE manifest.restarts + 1,
     sessions  |-> IF manifest = NoFile THEN 1 ELSE manifest.sessions + 1,
     isRestart |-> manifest # NoFile,
     step      |-> 0,
     steps     |-> 0,
     heartbeat |-> 0,
     res       |-> RestoredReservoir,
     wts       |-> RestoredWeights,
     prunings  |-> IF checkpoint = NoFile THEN {} ELSE checkpoint.prunings]

-----------------------------------------------------------------------------
Init ==
    /\ manifest = NoFile
    /\ checkpoint = NoFile
    /\ npz = NoFile
    /\ substrateManifest = NoFile
    /\ log = {}
    /\ trace = {}
    /\ pc = "off"
    /\ reason = "interval"
    /\ stop = FALSE
    /\ brain = Blank
    /\ session = 0
    /\ clock = 0
    /\ heard = <<>>
    /\ interrupts = 0

(* __post_init__ and _init_session *)

Start ==
    /\ pc \in {"off", "dead"}
    /\ session < MaxStarts
    /\ Loadable
    /\ pc' = IF manifest = NoFile THEN "mark_running"
             ELSE IF manifest.graceful THEN "log_gap" ELSE "log_death"
    /\ reason' = "interval"
    /\ stop' = FALSE
    /\ brain' = Restored
    /\ session' = session + 1
    /\ UNCHANGED <<disk, clock, heard, interrupts>>

\* Slip: a loss is noticed and not logged.
LogUnexpectedDeathSilently ==
    /\ pc = "log_death"
    /\ pc' = "log_gap"
    /\ UNCHANGED <<disk, reason, stop, brain, history>>

LogUnexpectedDeath ==
    /\ pc = "log_death"
    /\ Log("unexpected_death_detected", brain.base)
    /\ pc' = "log_gap"
    /\ UNCHANGED <<manifest, checkpoint, npz, substrateManifest, trace, reason, stop, brain, history>>

LogGap ==
    /\ pc = "log_gap"
    /\ Log("brain_death_gap", brain.base)
    /\ pc' = "mark_running"
    /\ UNCHANGED <<manifest, checkpoint, npz, substrateManifest, trace, reason, stop, brain, history>>

\* Slip: the first manifest is left to the first checkpoint.
MarkRunningLater ==
    /\ pc = "mark_running"
    /\ pc' = "birth"
    /\ UNCHANGED <<disk, reason, stop, brain, history>>

\* Slip: a session is marked graceful until it fails.
MarkRunningGraceful ==
    /\ pc = "mark_running"
    /\ SaveManifest(TRUE)
    /\ pc' = "birth"
    /\ UNCHANGED <<checkpoint, npz, substrateManifest, log, trace, reason, stop, brain, history>>

MarkRunning ==
    /\ pc = "mark_running"
    /\ SaveManifest(FALSE)
    /\ pc' = "birth"
    /\ UNCHANGED <<checkpoint, npz, substrateManifest, log, trace, reason, stop, brain, history>>

(* run: the birth *)

Beat == clock' = clock + 1 /\ brain' = [brain EXCEPT !.heartbeat = clock + 1]

Birth ==
    /\ pc = "birth"
    /\ Beat
    /\ pc' = IF brain.isRestart THEN "log_restart" ELSE "log_birth"
    /\ UNCHANGED <<disk, reason, stop, session, heard, interrupts>>

\* Slip: an event type that EVENT_TYPES does not list.
LogRestartFreely ==
    /\ pc = "log_restart"
    /\ Log("rebirth", brain.base)
    /\ pc' = "log_birth"
    /\ UNCHANGED <<manifest, checkpoint, npz, substrateManifest, trace, reason, stop, brain, history>>

LogRestart ==
    /\ pc = "log_restart"
    /\ Log("restart", brain.base)
    /\ pc' = "log_birth"
    /\ UNCHANGED <<manifest, checkpoint, npz, substrateManifest, trace, reason, stop, brain, history>>

LogBirth ==
    /\ pc = "log_birth"
    /\ Log("birth", brain.base)
    /\ pc' = "loop"
    /\ UNCHANGED <<manifest, checkpoint, npz, substrateManifest, trace, reason, stop, brain, history>>

(* run: the loop, and the calls of _do_step *)

BeginStep ==
    /\ pc = "loop"
    /\ ~ShouldStop
    /\ brain' = [brain EXCEPT !.step = @ + 1]
    /\ pc' = "process"
    /\ UNCHANGED <<disk, reason, stop, history>>

Process ==
    /\ pc = "process"
    /\ heard' = Append(heard, session)
    /\ brain' = [brain EXCEPT !.steps = @ + 1, !.res = @ \cup {Len(heard) + 1}]
    /\ pc' = "react"
    /\ UNCHANGED <<disk, reason, stop, session, clock, interrupts>>

\* Readout and habits learn only from an external signal that drew a reaction.
React ==
    /\ pc = "react"
    /\ \E valence \in Reactions :
           brain' = [brain EXCEPT !.wts = IF valence THEN @ \cup {Len(heard)} ELSE @]
    /\ pc' = "record"
    /\ UNCHANGED <<disk, reason, stop, history>>

\* Slip: a relived step replaces its row.
RecordSignalOnce ==
    /\ pc = "record"
    /\ trace' = {r \in trace : r.lifetime # Lifetime}
                    \cup {[lifetime |-> Lifetime, signal |-> Len(heard)]}
    /\ pc' = "beat"
    /\ UNCHANGED <<manifest, checkpoint, npz, substrateManifest, log, reason, stop, brain, history>>

RecordSignal ==
    /\ pc = "record"
    /\ trace' = trace \cup {[lifetime |-> Lifetime, signal |-> Len(heard)]}
    /\ pc' = "beat"
    /\ UNCHANGED <<manifest, checkpoint, npz, substrateManifest, log, reason, stop, brain, history>>

AfterCheckpoint == IF Due(PruneInterval) THEN "prune" ELSE "loop"

Heartbeat ==
    /\ pc = "beat"
    /\ Beat
    /\ pc' = IF Due(Interval) THEN "log_checkpoint" ELSE AfterCheckpoint
    /\ UNCHANGED <<disk, reason, stop, session, heard, interrupts>>

Prune ==
    /\ pc = "prune"
    /\ brain' = [brain EXCEPT !.prunings = @ \cup {[session |-> session, lifetime |-> Lifetime]}]
    /\ Log("synthesis_pruning", Lifetime)
    /\ pc' = "loop"
    /\ UNCHANGED <<manifest, checkpoint, npz, substrateManifest, trace, reason, stop, history>>

(* _checkpoint *)

\* Slip: the manifest is saved before the state it speaks of.
LogCheckpointAndMark ==
    /\ pc = "log_checkpoint"
    /\ Log("checkpoint", Lifetime)
    /\ SaveManifest(FALSE)
    /\ pc' = "save_checkpoint"
    /\ UNCHANGED <<checkpoint, npz, substrateManifest, trace, reason, stop, brain, history>>

LogCheckpoint ==
    /\ pc = "log_checkpoint"
    /\ Log("checkpoint", Lifetime)
    /\ pc' = "save_checkpoint"
    /\ UNCHANGED <<manifest, checkpoint, npz, substrateManifest, trace, reason, stop, brain, history>>

SaveCheckpoint ==
    /\ pc = "save_checkpoint"
    /\ checkpoint' = [session |-> session, step |-> brain.step, lifetime |-> Lifetime,
                      steps |-> brain.steps, res |-> brain.res, wts |-> brain.wts,
                      prunings |-> brain.prunings]
    /\ pc' = "open_npz"
    /\ UNCHANGED <<manifest, npz, substrateManifest, log, trace, reason, stop, brain, history>>

\* np.savez truncates the archive it replaces and writes it in place, in several writes.
OpenNpz ==
    /\ pc = "open_npz"
    /\ npz' = Torn
    /\ pc' = "close_npz"
    /\ UNCHANGED <<manifest, checkpoint, substrateManifest, log, trace, reason, stop, brain, history>>

CloseNpz ==
    /\ pc = "close_npz"
    /\ npz' = [res |-> brain.res]
    /\ pc' = "save_substrate_manifest"
    /\ UNCHANGED <<manifest, checkpoint, substrateManifest, log, trace, reason, stop, brain, history>>

SaveSubstrateManifest ==
    /\ pc = "save_substrate_manifest"
    /\ substrateManifest' = Lifetime
    /\ pc' = "save_manifest"
    /\ UNCHANGED <<manifest, checkpoint, npz, log, trace, reason, stop, brain, history>>

\* Slip: a checkpoint leaves the manifest to the end of the session.
SaveNoCheckpointManifest ==
    /\ pc = "save_manifest"
    /\ pc' = IF reason = "final" THEN "die" ELSE AfterCheckpoint
    /\ UNCHANGED <<disk, reason, stop, brain, history>>

\* Slip: the final checkpoint goes back to the loop like any other.
SaveCheckpointManifestAndGoOn ==
    /\ pc = "save_manifest"
    /\ SaveManifest(FALSE)
    /\ pc' = AfterCheckpoint
    /\ UNCHANGED <<checkpoint, npz, substrateManifest, log, trace, reason, stop, brain, history>>

SaveCheckpointManifest ==
    /\ pc = "save_manifest"
    /\ SaveManifest(FALSE)
    /\ pc' = IF reason = "final" THEN "die" ELSE AfterCheckpoint
    /\ UNCHANGED <<checkpoint, npz, substrateManifest, log, trace, reason, stop, brain, history>>

(* _finalize: the loop ends, or a Ctrl-C ends it, in the middle of a checkpoint too *)

\* Slip: a session that ends on its own takes no final checkpoint.
EndLoopAtOnce ==
    /\ pc = "loop"
    /\ ShouldStop
    /\ reason' = "final"
    /\ pc' = "die"
    /\ UNCHANGED <<disk, stop, brain, history>>

EndLoop ==
    /\ pc = "loop"
    /\ ShouldStop
    /\ reason' = "final"
    /\ pc' = "log_checkpoint"
    /\ UNCHANGED <<disk, stop, brain, history>>

InLoop == pc \in StepPoints \/ (pc \in CheckpointPoints /\ reason = "interval")

\* Slip: a Ctrl-C saves the substrate only.
InterruptToSubstrate ==
    /\ InLoop
    /\ stop' = TRUE
    /\ reason' = "final"
    /\ pc' = "open_npz"
    /\ interrupts' = interrupts + 1
    /\ UNCHANGED <<disk, brain, session, clock, heard>>

Interrupt ==
    /\ InLoop
    /\ stop' = TRUE
    /\ reason' = "final"
    /\ pc' = "log_checkpoint"
    /\ interrupts' = interrupts + 1
    /\ UNCHANGED <<disk, brain, session, clock, heard>>

Die ==
    /\ pc = "die"
    /\ Log("graceful_death", Lifetime)
    /\ pc' = "save_final_manifest"
    /\ UNCHANGED <<manifest, checkpoint, npz, substrateManifest, trace, reason, stop, brain, history>>

SaveFinalManifest ==
    /\ pc = "save_final_manifest"
    /\ SaveManifest(TRUE)
    /\ pc' = "dead"
    /\ brain' = Blank
    /\ UNCHANGED <<checkpoint, npz, substrateManifest, log, trace, reason, stop, history>>

(* the surroundings *)

\* stop(): a provider, another thread or the expiry of max_duration_s, seen at the next test.
Stop ==
    /\ pc \in Marked
    /\ ~stop
    /\ stop' = TRUE
    /\ UNCHANGED <<disk, pc, reason, brain, history>>

Crash ==
    /\ pc \in Live
    /\ pc' = "off"
    /\ reason' = "interval"
    /\ stop' = FALSE
    /\ brain' = Blank
    /\ UNCHANGED <<disk, history>>

Run ==
    \/ LogUnexpectedDeath \/ LogGap \/ MarkRunning \/ Birth \/ LogRestart \/ LogBirth
    \/ BeginStep \/ Process \/ React \/ RecordSignal \/ Heartbeat \/ Prune
    \/ LogCheckpoint \/ SaveCheckpoint \/ OpenNpz \/ CloseNpz
    \/ SaveSubstrateManifest \/ SaveCheckpointManifest
    \/ EndLoop \/ Die \/ SaveFinalManifest

Next == Start \/ Run \/ Interrupt \/ Stop \/ Crash

Spec == Init /\ [][Next]_vars

\* A running process goes on; nothing promises that it is started, stopped or spared.
FairSpec == Spec /\ WF_vars(Run)

-----------------------------------------------------------------------------
(* What must hold. *)

\* The variables have their types.
TypeOK ==
    /\ manifest \in Manifest \cup {NoFile}
    /\ checkpoint \in Checkpoint \cup {NoFile}
    /\ npz \in Archive \cup {NoFile, Torn}
    /\ substrateManifest \in Nat \cup {NoFile}
    /\ log \in SUBSET Row
    /\ trace \in SUBSET TraceRow
    /\ pc \in Live \cup {"off", "dead"}
    /\ reason \in {"interval", "final"}
    /\ stop \in BOOLEAN
    /\ brain \in Brain
    /\ session \in Nat
    /\ clock \in Nat
    /\ heard \in Seq(Nat)
    /\ interrupts \in Nat

Rows(event) == {r \in log : r.event = event}

\* The manifest never counts a step whose state is not saved: whenever a crash falls, the
\* lifetime the next session resumes from is covered by the checkpoint and by the archive's
\* manifest.  This is the order of the writes of _checkpoint, across any number of sessions.
ManifestNeverAhead ==
    manifest # NoFile /\ manifest.lifetime > 0 =>
        /\ checkpoint # NoFile /\ manifest.lifetime <= checkpoint.lifetime
        /\ substrateManifest # NoFile /\ manifest.lifetime <= substrateManifest

\* The archive overrides the checkpoint's reservoir at a restart, so it must not hold a signal
\* the checkpoint, which the learned weights come from, does not hold.
ArchiveNeverAhead ==
    npz \notin {NoFile, Torn} => checkpoint # NoFile /\ npz.res \subseteq checkpoint.res

HeardBy(s) == {i \in 1..Len(heard) : heard[i] = s}

PrunedBy(s) == {[session |-> r.session, lifetime |-> r.lifetime] :
                    r \in {q \in Rows("synthesis_pruning") : q.session = s}}

\* A manifest that says graceful is a promise that nothing was left behind: the archive is
\* whole, all files speak of the same step, and every signal the session processed and every
\* pruning it logged is in the saved state, the ones after the last interval checkpoint and the
\* ones a Ctrl-C in the middle of a checkpoint left half written too.
CleanShutdownKeepsEverything ==
    manifest # NoFile /\ manifest.graceful =>
        /\ checkpoint # NoFile
        /\ checkpoint.session = manifest.session
        /\ checkpoint.lifetime = manifest.lifetime
        /\ substrateManifest = manifest.lifetime
        /\ npz = [res |-> checkpoint.res]
        /\ HeardBy(manifest.session) \subseteq checkpoint.res
        /\ PrunedBy(manifest.session) \subseteq checkpoint.prunings

\* Every death is on record by the time the brain lives again: between two births there is the
\* first one's graceful death or a later session's unexpected_death_detected.
NoSilentDeath ==
    \A a, b \in Rows("birth") :
        a.session < b.session =>
            \/ \E r \in Rows("graceful_death") : r.session = a.session
            \/ \E r \in Rows("unexpected_death_detected") :
                   a.session < r.session /\ r.session <= b.session

\* A brain keeps its identity: every row ever logged carries the run id the manifest holds, also
\* when the very first start dies before it has saved one.
OneIdentity ==
    \A r \in log : manifest # NoFile /\ r.run = manifest.run

\* A crash costs the next session at most the last Interval signals: what the brain has learned
\* from any earlier one, in its reservoir or in its weights, a start restores.  A crash within the
\* write of the archive is the exception, it leaves nothing that starts (AlwaysRestartable).
LossBounded ==
    Interval > 0 /\ pc \in Live /\ Loadable =>
        \A i \in 1..Len(heard) :
            i + Interval <= Len(heard) =>
                /\ i \in brain.res => i \in RestoredReservoir
                /\ i \in brain.wts => i \in RestoredWeights

\* The gap a session logs after a graceful shutdown is the time in which nobody lived: no heartbeat
\* has been beaten since the one the manifest names, however many starts failed in between.  After
\* a crash there may have been, and the gap is too long by what was lived since a checkpoint.
GapExactAfterRest ==
    pc = "log_gap" /\ manifest.graceful => manifest.heartbeat = clock

\* The lifetime is never credited with more than was lived: each Ctrl-C may add the one step it
\* cut short before the signal was processed, and nothing else does.
LifetimeNeverOverstates ==
    manifest # NoFile => manifest.lifetime <= Len(heard) + interrupts

\* Two trace rows share a lifetime step only when a session relived what a crash took: no
\* session that came to log its graceful death has a step relived.
RelivedOnlyAfterLoss ==
    \A x, y \in trace :
        x.lifetime = y.lifetime /\ x.signal < y.signal =>
            ~\E r \in Rows("graceful_death") : r.session = heard[x.signal]

Stored == IF checkpoint = NoFile THEN {} ELSE checkpoint.res \cup checkpoint.wts

\* The replayable trace misses no signal the saved state holds, but for the one each Ctrl-C may
\* have caught between the processing and the recording.
StoredSignalsTraced ==
    Cardinality(Stored \ {r.signal : r \in trace}) <= interrupts

\* No start, crash, rollback of the brain or half-done checkpoint ever takes lifetime back, and
\* the restart counter only moves together with the session that is counted.
LifetimeNeverRegresses ==
    [][manifest # NoFile =>
        /\ manifest' # NoFile
        /\ manifest'.run = manifest.run
        /\ manifest'.lifetime >= manifest.lifetime
        /\ manifest'.restarts = manifest.restarts
               + (IF manifest'.session = manifest.session THEN 0 ELSE 1)]_manifest

\* The life this session's files tell of.
phaseBar ==
    IF manifest = NoFile THEN "unborn"
    ELSE IF manifest.graceful THEN "resting"
    ELSE IF pc \in Marked THEN "alive" ELSE "lost"
lifetimeBar == IF manifest = NoFile THEN 0 ELSE manifest.lifetime
reportedBar ==
    /\ manifest # NoFile
    /\ \E r \in Rows("unexpected_death_detected") : r.session > manifest.session

Life == INSTANCE Continuity
            WITH phase <- phaseBar, lifetime <- lifetimeBar, reported <- reportedBar

\* The files implement the life of Continuity: no session marks itself running over a lost one
\* before the loss is logged, and no loss is logged against a brain at rest.
RefinesContinuity == Life!Spec

\* A session that reaches its loop and is not killed dies gracefully, whatever stops it.
RunEnds == pc = "loop" ~> (pc = "dead" /\ manifest.graceful) \/ pc = "off"

-----------------------------------------------------------------------------
(* What the documentation says and the code does not keep. *)

\* docs/ARCHITECTURE.md:231-233: a brain must be able to run, stop and resume: no crash leaves
\* files the next start cannot load.
AlwaysRestartable == pc = "off" => Loadable
=============================================================================
