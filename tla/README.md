# Verification of solaris-ai-nn

TLA+ models, TLC runs and TLAPS proofs about the parts of `src/solaris_ai_nn` that keep a brain
alive across sessions and that several processes share through files: the continuous runner and its
state directory, the supervisor that runs it in segments, the engine that changes its own
parameters, the stream from an external feeder into the sensory membrane, the rotation of the JSONL
evidence, the registry of supervised runs, and the ledger of approvals. Paths below are relative to
`src/src/solaris_ai_nn/` unless they start with `src/`.

Run everything from this directory: `tlc -config <cfg> <module>.tla` with the pairs of the table
under *Runs*, and `tlapm` on the eight
`...Proofs.tla` modules.

## The system

A *brain* is a substrate (an echo state network by default), a readout, habits and a trace of
signals. It lives in a *state directory*; a process that works on it is a *session*. Each process
is sequential Python: what makes the system hard is not threads but everything that can end a
session between two statements, the files the next session finds, and the few files that several
processes read and write without a lock.

| Component | State | Operations | Talks to | Hard behaviour | What makes it correct |
|---|---|---|---|---|---|
| Continuous runner (`runtime/continuous_runner.py`) | counters of the session, the bridge, `_stop_requested` | start, restore, step, checkpoint, prune, finalize, `stop` | persistence, lifecycle, bridge, memory, plasticity | a kill or a Ctrl-C between any two writes; a restart from whatever files are there | nothing learned and saved is forgotten by an orderly end; a crash costs at most an interval unless it tears the archive; lifetime and identity never go back |
| Persistence (`runtime/persistence.py`) | `manifest.json`, `latest_checkpoint.json`, `substrate_state.npz`, its manifest, `continuity_log.jsonl`, `trace_events.jsonl` | atomic replace, append, in-place rewrite of the archive | the runner | four files that describe one moment, written one after the other | what a start restores belongs together and is loadable |
| Lifecycle (`runtime/lifecycle.py`) | heartbeat, alive, graceful | birth, heartbeat, checkpoint, die | continuity log, runner | death is recorded before or after the manifest says so | every death is on record once the brain lives again |
| Bridge, memory, substrates (`bridges`, `memory`, `substrates`) | reservoir, weights, habits, trace | process, react, record | runner | save and restore through two formats | a stored signal is in the trace |
| Supervisor (`ops/supervisor.py`) | `_stop_requested`, segments, last health | run, `_supervise`, stop, finalize | runner factory, watchdog, shutdown manager, registry, sentinel | a segment that raises; a stop that races the next segment; last writer of the reason wins | a run keeps its bound, ends, and its records tell how |
| Watchdog (`ops/watchdog.py`) | strikes | tick | supervisor | several verdicts on one tick | it stops at the strike |
| Shutdown manager (`ops/safe_shutdown.py`) | the reason | request, perform | supervisor | a kill between its file and the registry's | a stopped run has its evidence |
| Run registry (`ops/run_registry.py`) | one JSON file for all runs, one temporary file | start, update, stop: each loads, changes and saves everything | supervisors | two supervisors between load and rename | runs are remembered; nothing is invented |
| Artifact rotation, JSONL evidence (`ops/artifact_rotation.py`) | logs, gzip archives named for the second | scan, copy, truncate, unlink | every writer of a log | a kill or an error at any step; torn rows; two sessions | evidence goes only when it is surplus, and is in one place |
| Approvals (`governance/approval.py`) | `approvals.json`, a copy of it per process | request, approve, reject, expire, gate, save | operators, supervisor | confirmations by several operators, lazy expiry, whole-file saves in place | nothing runs without its approvals; a rejection stands |
| Emergency stop (`governance/emergency.py`) | the sentinel file `EMERGENCY_STOP` | lay, find, clear | supervisor | looked at between segments only | the sentinel is honoured |
| Governance policy, permissions, checklists, risk | rule tables | evaluate | supervisor, plasticity | hardly any | tables |
| Plasticity (`plasticity`) | live parameters, rollback records, `plasticity_audit.jsonl` | propose, validate, apply, rollback, reload | runner, bridge, governance | parameters and audit become durable at different times; sessions without plasticity; setters that keep another value | a change is told of unless a Ctrl-C catches it; changes can be undone one by one as long as no mishap comes in between |
| Latent cognition, homeostasis, executive, ego, world model, inner map | in-memory layers of a step | scheduled passes | runner | cooldowns and modes | bounded, never acting outside |
| Feeder writer, sensory membrane streams (`feeder_sdk/writer.py`, `sensory_membrane`) | a rolling JSONL file; an offset per source, a bounded buffer, recurrence keys | write, rotate; poll, read lines, admit, publish, disable | a feeder process and the membrane, by the file alone | lines that are half on disk, a rename between two looks at the file, bounds in the middle of a result | each envelope once, in order, none passed over |
| Other membranes, live pipeline, motor membrane (`environmental_membrane`, `live_*`, `motor_membrane`, ...) | admitted events, gates | admit, quarantine, gate | runner | the order of the gates | nothing passes a gate that is closed |
| Perception, signs, development, conscience, communication, self-repair | scores and reports | analysis of one event or one run | one another | hardly any | thresholds |
| Research process, pilots, consoles, tester tooling, evaluation, experiments, feeders | reports and artifacts | command lines | files | hardly any | formats |

`PROJECT.json` lists all of them with their directories, what is modelled of each and why the rest
is not, and the hazards line by line.

## Modules

| Module | Models | Role |
|---|---|---|
| `Continuity` | what `runtime/` promises: a brain is unborn, alive, resting or lost, and a loss is reported before the next life | abstract specification |
| `ContinuousRunner` | `continuous_runner.py`, `persistence.py`, `lifecycle.py`, and what they call of the bridge, the trace and the archive | detailed specification, implements `Continuity` |
| `Supervisor` | `ops/supervisor.py`, `ops/watchdog.py`, `ops/safe_shutdown.py`, this run's entry of `ops/run_registry.py`, the sentinel of `governance/emergency.py` | composes the supervisor with the brain of `Continuity` |
| `PlasticityEngine` | `plasticity/plasticity_engine.py`, `rollback.py`, `audit.py`, the registry and the bounds, in the sessions of a runner | component over the audit and the checkpoint |
| `SensoryIntake` | `feeder_sdk/writer.py`, `sensory_membrane/jsonl_stream.py`, `membrane_runtime.py`, `sensory_buffer.py` | composes a feeder per source with the membrane that polls them |
| `EvidenceRotation` | `ops/artifact_rotation.py` and the `JsonlWriter` of `persistence.py` | several sessions over one log and its archives |
| `RunRegistry` | `ops/run_registry.py` | several supervisors over one registry and one temporary file |
| `Approvals` | `governance/approval.py` and the gate of `ops/supervisor.py` | several processes with copies of one ledger |
| `ContinuousRunnerProofs`, `ContinuousRunnerCostProofs`, `SupervisorProofs`, `PlasticityEngineProofs`, `SensoryIntakeProofs`, `EvidenceRotationProofs`, `RunRegistryProofs`, `ApprovalsProofs` | | theorems about the component they are named for |
| `...MC` | | the instances for TLC |

Each definition that stands for code is mapped to its lines in `PROJECT.json`. Definitions that
start with the comment `Slip:` are plausible mistakes in the definition that follows them; no
specification uses them. Each property comes with one that breaks it.

### ContinuousRunner

One action per write of a file or call that changes the session, in the order of the code; `pc`
names the next one. `Start` is the construction up to the first write: it reads the manifest, the
checkpoint and the archive and builds the session (`Restored`). `LogUnexpectedDeath`, `LogGap`,
`MarkRunning` are the writes of `_init_session`; `Birth`, `LogRestart`, `LogBirth` those of
`lifecycle.birth`; `BeginStep`, `Process`, `React`, `RecordSignal`, `Heartbeat` are a step;
`LogCheckpoint` to `SaveCheckpointManifest` are `_checkpoint`; `EndLoop` or `Interrupt` leads to
the final checkpoint, `Die` and `SaveFinalManifest`.

* JSON files are replaced atomically (`persistence.py:581`), so one action writes them. The archive
  is truncated and rewritten in place by `np.savez` (`substrates/base.py:208`), so two do, with
  `Torn` in between.
* What the brain has learned is the set of signals that went into it; a signal is its position in
  the history `heard`, which no crash rolls back. The reservoir takes every signal, readout and
  habits take those that draw a reaction.
* A session is the number of the process start. Time is the number of heartbeats.
* `Crash` is any end of the process outside `_finalize`, a runner that is built and never run
  included. `Stop` may come at any moment after the session has marked itself running.
* Rows of the logs are sets: the properties ask which rows there are, and rows carry the session.

### Supervisor

The brain is `Continuity`, on the supervisor's own variables `phase`, `lifetime`, `reported`: since
`ContinuousRunner` implements it, whatever a segment does to the state directory is a step of it.
`BuildRunner` awakens the brain (after `ReportLoss`, if there is a loss to report), `Checkpoint`
credits steps, `SegmentEnds` puts it to rest, `SegmentFails` and `Abort` lose it. A segment that is
cut short by a Ctrl-C ends like any other, since the runner keeps the Ctrl-C to itself: `cut`
remembers it. The 1000 lines of `_supervise` that turn metrics into incidents are a health grade, ok
or critical on every tick (a warning counts as ok with the watchdog); the watchdog's bounds on time,
artifacts and ages, and the supervisor's own stop on a stuck latent cycle, are one Boolean.
`_stop_requested` and the reason of the shutdown manager are set together, in callbacks and signal
handlers of the run's own thread, which is the only place the sources call `stop` from.

### PlasticityEngine

Two durable things with different rhythms: `audit` (appended per event) and `saved` (the
parameters in the last checkpoint). `Start` takes the live values from `saved` and the rollback
records from `audit`, as `continuous_runner.py:157-162` does; `StartWithout` is a session with
`enable_plasticity=False`, the default, which has no engine and whose checkpoints (`SaveValues`) hold
no parameters. `apply` is cut where an exception or a Ctrl-C tells the difference: `SetValue`,
`Register`, `LogApplied`; a rollback is `Rollback` or `RollbackFails`, and `LogRollback`. The rules of
the policy are replaced by any change of any target, safe or not; whether the governance gate denies
is left open. Whether the session is a dry run and whether its substrate is an ESN is chosen per
session (`config`).

A setter may keep another value than the one it is given: `int()` does (`mutation.py:190-192`), and
`set_spectral_radius` is read back as the radius that was achieved (`mutation.py:154-155`). `Kept` is
what each target's setter keeps of each value. The record and the row hold the value that was
proposed, so `Same` is how values compare: as the setter sees them. `Default` need not be safe:
`synthesis.pruning_interval` begins at 0, below its bound of 1. A rollback that reads back another
value than the old one has failed, leaves what the setter kept, and is logged as `rollback_failed`,
which a later session takes for a rollback. Habit weights are no targets here: learning moves them
too.

### SensoryIntake

An envelope is a number, its line as many bytes as `Width` says, and the file what bytes there are.
A feeder's `Write(s, k)` flushes its line as far as byte `k`, so that a reader may find half of it;
`Rotate` is the rename when `max_events` are in the file, and the next write makes a new one. The
membrane's `poll_once` is `StartPoll`, then per source `SkipDisabled`, or `Missing`, or `TakeSize`
(a file shorter than the offset has been replaced), `OpenFile`, `ReadLine` for each line or what
there is of one, `CloseFile` (the offset is remembered), `HandleEvent` for each event of the result,
and at the end `Publish`. Between any two of them the feeders may write or rename: an open file
stays the one it was. `RecurrenceKey` and `Admit` are the deduplication window and the buffer that
drops its oldest. The key of an event is what the normalizer makes of its line: of a malformed one
the first `KeyLength` bytes (64 characters in the code), so that two such lines may count as one.
`Publish` hands an event over also when `bus.publish` raises, for the bus calls its subscribers
before the one thing in it that may raise, its own log (`conscience/bus.py:133-144`), and the
membrane swallows that (`membrane_runtime.py:203-212`). The membrane is enabled and no dry run, and
files stay below `max_file_size_mb`.

### EvidenceRotation

A log is the set of its rows, numbered as they are recorded, and `torn` says whether it ends without
a newline: the next row is then written on to that line. `rotate` is `Scan` (what is surplus is
decided before the new archive exists), `OpenArchive` (`gzip.open` empties one of the same second),
`Copy`, `Truncate`, then an `Unlink` for each surplus archive, the newest of them first, and
`Finish`; below the size from which a log is compressed only the unlinks follow. Each step that
touches a file may fail, is noted and passed over: `CopyFails` leaves what there is of the archive,
`TruncateFails` the log beside its whole archive, `UnlinkFails` the archive. `doubled`, `missed` and
`unfinished` remember what such a failure or a kill left behind. A session may be killed at each of
these points, by `RecordCut` also in the middle of a row. Nothing keeps a second session from the
directory, so `Sessions` may have several.

### RunRegistry

One run per supervisor. A call is `RegisterStart`, `RegisterUpdate` or `RegisterStop` (load and
change), then `OpenTmp`, `WriteTmp`, `Replace`; `Unknown` is the silent return for a run the file
does not hold, `LoadFails` and `ReplaceFails` the two exceptions and where the supervisor takes
them. `handle` follows an open file through renames, which is what decides where a late write goes.

### Approvals

`book[p]` is the copy a process read when it started (`Open`), `ledger` the file. `RequestApproval`,
`Approve`, `Reject` change the copy, each after `Expire`; `Gate` is the supervisor's question before
a run, `OpenLedger` and `WriteLedger` the save, which truncates the file in place. `given` counts
what operators did, whatever copies were lost since.

## Runs

| Run | Config | Asks |
|---|---|---|
| `runner_safety` | `ContinuousRunnerSafety.cfg` on `ContinuousRunnerMC` | What the files promise the next session, whatever was cut off where; what a crash costs; refinement of `Continuity`; that a session in its loop comes to a graceful end |
| `supervisor_safety` | `SupervisorSafety.cfg` on `SupervisorMC` | Bounds, strikes, sentinel, what the records of a run say, and that it ends |
| `plasticity_safety` | `PlasticityEngineSafety.cfg` on `PlasticityEngineMC` | Which values parameters may have, which the audit tells of, no second rollback, when the history unwinds |
| `sensory_intake` | `SensoryIntakeSafety.cfg` on `SensoryIntakeMC` | What becomes a stimulus, in which order, what a poll may pass over |
| `evidence_rotation` | `EvidenceRotationSafety.cfg` on `EvidenceRotationMC` | Which rows are still there, how often, in how many archives |
| `run_registry` | `RunRegistrySafety.cfg` on `RunRegistryMC` | What the registry says of every run, and what it never says |
| `approvals` | `ApprovalsSafety.cfg` on `ApprovalsMC` | On what a run may begin, and how long a rejection stands |
| `torn_archive` | `ContinuousRunnerArchive.cfg` on `ContinuousRunnerMC` | violation, see *Findings* |
| `graceful_after_failure`, `time_bound_run` | `SupervisorGraceful.cfg`, `SupervisorTimeBound.cfg` on `SupervisorMC` | violations |
| `lost_history`, `silent_change` | `PlasticityEngineFresh.cfg`, `PlasticityEngineSilent.cfg` on `PlasticityEngineMC` | violations |

`CHECK_DEADLOCK FALSE` everywhere: each of these systems may simply stop, after the last start the
bound allows or because nobody starts another session.

### What the properties say

Runner: `ManifestNeverAhead` and `ArchiveNeverAhead` are the two orders among the four files of a
checkpoint that a restart relies on. `CleanShutdownKeepsEverything`: a manifest that says graceful
is a promise about all the files, also after a Ctrl-C in the middle of a checkpoint.
`NoSilentDeath`, `OneIdentity` and `RelivedOnlyAfterLoss` are about the record of a life over any
number of failed starts. `LossBounded` says what a crash costs: all but the last interval's
signals are in the weights a start would restore, and in the reservoir, which comes from the archive
when there is one and not from the checkpoint. It speaks of state directories that can be loaded; a
crash in the write of the archive costs the brain, see `torn_archive`. `GapExactAfterRest`: a session
that follows a graceful shutdown measures its gap from the brain's last heartbeat.
`LifetimeNeverOverstates` and `StoredSignalsTraced` hold up to one step per Ctrl-C: the step it
interrupts is counted before it is processed, and processed before it is recorded.
`LifetimeNeverRegresses` is an action property of the manifest; `RefinesContinuity` is the
refinement; `RunEnds` the liveness.

Supervisor: `SentinelHonoured` (at most one more segment once the sentinel lies there),
`StrikesStop` (no run goes on past the watchdog's strikes), `BudgetKept` and `AllStepsLived` (not
more steps than the bound, and not fewer unless something stopped, cut or failed the run),
`QuietRunRests`, `ReasonTold` and `EvidenceFirst` (what the records say is so), `BoundedRunEnds`,
`SentinelEnds`.

Plasticity: `InBounds` (rollbacks are not validated, and the only value out of bounds they can put
back is the default), `ToldUnlessCaught` (the audit tells of every value, but those of targets that
a Ctrl-C caught between the value and its row), `NeverUndoneTwice`, `HistoryUnwinds`: rolling back the
last change, again and again, leads through the past values back to the defaults, over any number of
orderly restarts of sessions with plasticity. It holds as long as there was no mishap, and `amiss`
and `caught` name the five there are: values or rows lost in a crash or to an exception, a step undone
before a later one, a session without plasticity that erased the values, a failed rollback, a
Ctrl-C between a value and its row. Each of them breaks it.

Sensory intake: `InOrderOnce` (no envelope becomes a stimulus twice and none overtakes another of
its source, over torn lines, rotations, bounds and drops), `NothingSkipped` (the offset never passes
a byte the membrane was not given; promised of a source's first file and below the total only, see
*Findings*), `TotalBounded` (the total is passed by one event at most for every source but the
first: the break leaves the inner loop only).

Evidence: `EvidenceKept` (no step loses a row of the log, nor one of an archive unless `Keep` newer
archives stay, whatever was killed or failed before; it does not say that rows go oldest first, for
the unlinks go newest first and may be cut short), `OneCopy` (no row is met twice but those that were
in the log when a truncation was missed, by a kill or by an error), `ArchivesBounded` (every rotation
that was killed or could not remove what it had to leaves one archive more at most, and the next that
removes all it has to catches up with them), `DamageBounded` (half a row costs one more row at most).

Registry and approvals: `RunsRemembered` as long as no two saves overlap, `NothingInvented` always;
`RunsBacked` always, `RejectionStands` as long as no two processes hold a copy at once. The second
of each pair says what is left, or what is lost, when processes do overlap: the code locks nothing.

### Bounds, and why they are enough

* Runner: two sessions, three steps each, a checkpoint every second step, a pruning every third, with
  and without reactions: a victim and a successor that may die in its start, steps between
  checkpoints, a final checkpoint that differs from the last of the interval, a pruning no interval
  checkpoint has picked up. That nothing new happens with a third session is shown by the theorems,
  which hold for any number of them and cover every property of the run but `RunEnds`.
* Supervisor: a plan of three steps in chunks of two has a full and a shorter last segment; at most
  three segments for a run without a bound, two runs over one state directory, two strikes of each
  kind. `MixedPlans` adds a run without the bound its mode needs. The two violations take the code's
  three failures, `time_bound_run` every mode with and without a step bound. The sentinel is only
  laid when a further segment fits under `MaxSegments`, since that bound would otherwise end a run
  that the code goes on with.
* Plasticity: two targets, three safe values of which the setter keeps two, two out of bounds, one
  of them the default; two steps, in one evaluation or two, with all rollbacks of them; three sessions
  with or without plasticity: a change, a restart, a change on top of it, and their rollbacks in either
  order; a session in between that erases the values. Targets are symmetric in `plasticity_safety`.
  More steps and sessions are the theorems' part, which cover every property of the run.
* Sensory intake: two sources and three envelopes each, lines of two and three bytes, the third
  envelope with the content of the first; two envelopes to a file, so that there is a rotation; two
  lines to a poll, three polls, a total of three that is reached in the middle of a result; a buffer
  of two, batches of one, a window of one, keys of one byte. Each bound is the smallest at which
  both its sides occur.
* Evidence: two sessions with two lives each, three rows, three seconds, one archive kept: a kept, a
  surplus and a new archive, in one second or not. Two surplus archives at once, as missed removals
  leave them, need the last of the four lives. Sessions are symmetric, as are runs and processes
  below; none of these runs checks liveness.
* Registry: three supervisors, so that a third may find what two left of the temporary file.
* Approvals: two processes with two lives each, one request of up to two confirmations, three
  moments: expiry between the last confirmation and the gate, and a copy older than a rejection.

### Fairness

`ContinuousRunner!FairSpec` is weak fairness of `Run`, the union of the process's own steps: a
process that is not killed goes on. Nothing is assumed of starts, stops, Ctrl-Cs and crashes.
`Supervisor!FairSpec` is weak fairness of `Work`, which includes the end of a segment: that a
segment comes to an end is what `RunEnds` shows of the runner, and an exception ends it as well. A
segment that makes checkpoints for ever is no behaviour, since its steps are bounded.
`PlasticityEngine` has no liveness property: an evaluation is a loop over a list. The four modules of
shared files state none either: each of their operations is a straight line of system calls, and
whether an operator ever confirms, or a feeder ever writes, the code does not say.

## Findings

Five runs end in a violation of what a doc, a comment or a test says.

* `torn_archive`: a crash in the rewrite of the archive leaves a state directory in which no later
  session starts.
* `graceful_after_failure`: `finalize` records every run as graceful and checkpoints nothing; after
  a segment that raised, the brain is a lost one.
* `time_bound_run`: a run that is bounded by time only is over before its first segment.
* `lost_history`: after a crash the rollback records hold changes that are not in effect, and
  `--rollback-last` undoes one of those.
* `silent_change`: a Ctrl-C between the setting of a value (`plasticity_engine.py:223`) and its row
  (234) goes on to the final checkpoint, which saves a value that the audit, where "plasticity must
  never happen silently", never tells of (`NothingSilent`).

Where the code does less than its documentation says or than one might expect, and there is no run of
its own for it, a property that passes says how far the code goes:

* `lifecycle.py:83-85` says that renewing the timestamp on every tick keeps the gap "always accurate",
  and `src/docs/ARCHITECTURE.md:258-263` lets the gap tell how long the brain was not running. The tick
  renews it in memory; the manifest has it from the last checkpoint. After a crash the gap therefore
  counts up to an interval's heartbeats, or the birth, as downtime: `GapExactAfterRest` speaks of a
  graceful shutdown only.
* Tunability is claimed of every substrate (`src/docs/ARCHITECTURE.md:449-451`), but `bridge.esn` is
  None for all but the ESN, so `plasticity_engine.py:229` raises at the first step that is applied,
  after the value is set and before the step is registered or on record: `Raise`.
* A session without plasticity saves an empty list of parameters over those of its predecessor
  (`continuous_runner.py:488-502`, `persistence.py:291`) and leaves the audit: the next session with
  plasticity has records of changes that are not in effect. `HistoryUnwinds` excludes it as "erasure".
* A rollback whose old value the setter does not keep is logged as `rollback_failed`, which
  `load_history_from_audit` takes for a rollback (`plasticity_engine.py:274`): its change stays in
  effect and no later session can undo it. `HistoryUnwinds` excludes it as "failure".
* A truncation that fails leaves every row of the log in the log and in its archive, and the next
  rotation archives them again; a removal that fails leaves its archive until a later rotation.
  `OneCopy` and `ArchivesBounded` say that this is all.
* A crash between the checkpoint and the archive makes the next session restore weights of one step
  and the reservoir of an earlier one: `ArchiveNeverAhead` says that it is never a later one.
* The stream adapter "detects rotation" (`sensory_membrane/jsonl_stream.py:6`) by a file that is
  shorter than its offset; one that has grown past it is taken for the old one and its first lines
  are skipped. `NothingSkipped` therefore speaks of the first file only.
* Rotation "never destroyed evidence" (`ops/artifact_rotation.py:1`): two rotations in one second
  write the same archive, and a row another session appends between copy and truncation is gone.
  `EvidenceKept` is conditional on `Exclusive`.
* Supervisors whose registry saves overlap lose each other's entries, or leave a file that no later
  one can load; `finalize` counts a run's incidents after it rotated their log away.
* The process that saves the approvals last wins, and a kill while it writes leaves a file that
  raises in the constructor of every later registry.

## Proofs

Every theorem holds for every value of the constants, hence for any number of sessions, segments,
steps, crashes and Ctrl-Cs; the bounds in the guards are constants like others. In each module
`Initially` is `Init => IInv`, `Inductive` is `IInv /\ [Next]_vars => IInv'` (one lemma per part of
`IInv`, one case per action), `Invariance` is `Spec => []IInv`, and the theorems follow.

| Module | Theorem | Property |
|---|---|---|
| `ContinuousRunnerProofs` | `TypeCorrect` | `TypeOK` |
| | `ManifestBacked` | `ManifestNeverAhead` |
| | `ArchiveBacked` | `ArchiveNeverAhead` |
| | `CleanShutdown` | `CleanShutdownKeepsEverything` |
| | `DeathsRecorded` | `NoSilentDeath` |
| | `IdentityKept` | `OneIdentity` |
| | `LifetimeMonotone` | `LifetimeNeverRegresses` |
| | `Implements` | `RefinesContinuity` |
| `ContinuousRunnerCostProofs` | `LossIsBounded` | `LossBounded` |
| | `GapIsExactAfterRest` | `GapExactAfterRest` |
| | `LifetimeHonest` | `LifetimeNeverOverstates` |
| | `RelivedAfterLoss` | `RelivedOnlyAfterLoss` |
| | `StoredTraced` | `StoredSignalsTraced` |
| `SupervisorProofs` | `TypeCorrect` | `TypeOK` |
| | `SentinelBounds` | `SentinelHonoured` |
| | `StrikesBound` | `StrikesStop` |
| | `BudgetBounds` | `BudgetKept` |
| | `CompleteRunsLived` | `AllStepsLived` |
| | `QuietRunsRest` | `QuietRunRests` |
| | `ReasonsTold` | `ReasonTold` |
| | `EvidenceComesFirst` | `EvidenceFirst` |
| `PlasticityEngineProofs` | `TypeCorrect` | `TypeOK` |
| | `BoundsKept` | `InBounds` |
| | `AuditTells` | `ToldUnlessCaught` |
| | `UndoneOnce` | `NeverUndoneTwice` |
| | `HistoryUnwindsAlways` | `HistoryUnwinds` |
| `SensoryIntakeProofs` | `StimuliInOrder` | `InOrderOnce` |
| | `NothingIsSkipped` | `NothingSkipped` |
| | `TotalIsBounded` | `TotalBounded` |
| `EvidenceRotationProofs` | `EvidenceIsKept` | `EvidenceKept` |
| | `OneCopyOnly` | `OneCopy` |
| | `ArchivesAreBounded` | `ArchivesBounded` |
| | `DamageIsBounded` | `DamageBounded` |
| `RunRegistryProofs` | `RegistryRemembers` | `RunsRemembered` |
| | `RegistryInventsNothing` | `NothingInvented` |
| `ApprovalsProofs` | `RunsAreBacked` | `RunsBacked` |
| | `RejectionsStand` | `RejectionStands` |

In the last four the lemmas are named for their part of the invariant, and `Invariant` is
`Spec => []IInv` (in `SensoryIntakeProofs` the invariant is `IntakeInv`, with `IntakeInit` and
`IntakeStep`). All four also prove their module's `TypeOK` (`TypeCorrect`), which no run needs to
check.

### The runner

Assumed: `BoundsAssumption` (the bounds are natural numbers) and `FilesAssumption` (the model
values for a missing and a torn file are none of the contents). None of the properties is inductive
alone. The inductive invariant adds four parts:

* `Identity`: whom the manifest speaks of. In its first writes a session has the manifest's run id
  and lifetime and not yet its name; from `MarkRunning` on the manifest is its own, not graceful,
  and at or below its lifetime. Without it no file can be tied to the session that wrote it.
* `Progress`: how far the checkpoint at work has come, per point of `_checkpoint`: what is written
  equals what is in memory, and the archive never holds a signal that memory lacks. This makes the
  final manifest true to the other files, and both orderings inductive.
* `Remembered`: what the session processed and pruned is in memory. With `Progress` it gives
  `CleanShutdownKeepsEverything`, and a Ctrl-C cannot hurt it: it only goes back to the first write.
* `Accounts`: each birth before the present session is accounted for; a graceful manifest has its
  row, and a session that found a loss has logged it before it takes the manifest over.

`Implements` is the refinement: each action is a step of `Continuity` under `phaseBar`,
`lifetimeBar` and `reportedBar`, or leaves them alone.

`ContinuousRunnerCostProofs` builds on that invariant and adds the counting one, `CostInv`:

* `SignalsSaved`: whatever was learned up to a step that was due a checkpoint is restored, the weights
  from the write of the checkpoint on, the reservoir from the end of the archive's. `DueBefore` says
  how it grows at a step, `DueBeforeProcess` that the signal at hand is later than all of these. With
  the lemma `SomeDue` (among any `Interval` steps one is due) it gives `LossBounded`
  (`LossFromSignals`); the bound itself is not inductive, since the step at which it is tightest
  depends on all the earlier ones.
* `HeartbeatKnown` and `RestStill`: a session that is born has the clock's heartbeat, and a brain at
  rest has the clock's in its manifest, for nobody beats while it rests.
* `Credited`: steps counted and signals heard, apart by the interrupts and by the step at work.
* `Traced`: sessions follow each other in `heard`, no session traces a step twice, and what a session
  that came to its graceful death traced is in the manifest, so that the next begins past it.
* `KnownHeard`, `UntracedFew`: of all that is in memory or in a file, not only of what is stored, at
  most one signal for each Ctrl-C is not in the trace, but for the one in hand.

### The supervisor

Assumed: `PlansAssumption` and `LimitsAssumption` (plan, chunk and the watchdog's limits are what
the constructor accepts). The invariant has six parts beside the types:

* `Sentinels`: how many segments began under the sentinel, per point of the loop. The check comes
  before a segment, so one that is already being built is the one that is let through.
* `Streaks`: the watchdog's two counts are the lengths of the streaks the recorded outcomes end
  with, and a streak at its limit has asked for the stop. `StrikesStop` speaks of outcomes only; it
  is this link to the counts that makes it inductive.
* `Progress`: steps credited to the brain and steps the supervisor counts, apart by what the segment
  at work has credited so far. It gives `BudgetKept` also when a segment fails halfway.
* `Completeness`: without a failed or cut segment the two counts are equal, so that a run that ends
  as complete has lived its plan.
* `Records`: which of `shutdown.json` and the registry's entry is there at each point of `finalize`,
  and which reasons they may tell.
* `Rests`: where the brain is at each point as long as no segment failed.

### The plasticity engine

Assumed: `ValuesAssumption` (unsafe values are not safe, a missing checkpoint is none; the default may
be either), `KeptAssumption` (what a setter keeps it keeps again, and of a safe value it keeps a safe
one, or else it keeps the same of it as of the default) and `BoundsAssumption`. The invariant has,
beside the types:

* `AtWork`: the step or record at work is there as long as it is needed, and the live value of its
  target is its doing.
* `Without`: between sessions, and in one without plasticity, there are no records and no changes.
* `SafeHistory`: `InBounds`, and the old values in the session's records, in the audit's applied
  rows and in the step at work are safe or the default. `InBounds` alone is lost at the first
  rollback.
* `LiveTold` and `SavedTold`: a live value is told of by a row, or is about to be, or its target was
  caught; a checkpoint makes saved values of live ones. Together they are `ToldUnlessCaught`.
* `UndoneKnown`: what the audit holds as rolled back, the session knows as rolled back.
* `Numbered`: the ids of a batch go up, no id the session or the audit knows of is newer than the
  newest step that was set, and one id is one change.
* `InStep`: as long as there was no mishap, the session's records and rollbacks are those of the
  audit, but for the one at work. So what a restart rebuilds is what was there.
* `Unwinding`: `HistoryUnwinds` at every point of the session and between sessions and in one
  without plasticity, where it speaks of the checkpoint and the audit. The lemmas `ChainGrows` and
  `ChainShrinks` say what appending a newer change to a chain and taking off its last one does;
  `Numbered` gives their premises.

### The sensory intake

Assumed: `IntakeAssumption` (the sources are a sequence that is not empty, the bounds positive, a
line has a byte besides its newline). The lemmas `Writing` and `LineOf` say what a write does to the
feeder's files and what `readline` makes of them; the rest of the proof uses files through them. The
invariant `IntakeInv` has, beside the types (a feeder goes on writing to its newest file only):

* `Results`: events are there only while a file is read or its result handled, and the file being
  read is not older than the one its source's offset was taken in.
* `WrittenInOrder`: the first bytes of lines stand in the files in the order in which the envelopes
  were begun, and every one of them is begun. A torn line is begun and not yet counted.
* `Fresh`: no stimulus is a line, or comes after a line, that the adapter may still read. What it may
  still read is `Unread`: beyond the position in the file it has open, or had open last if that is
  still the live one, and all of later files. A position past the end of a file counts as the
  beginning, since the adapter will take such a file for a new one. `InOrderOnce` alone is lost at
  the next line; `Fresh` is why the next line is later. `StepNarrows` shows that every step leaves
  less unread, but for what a write begins: also the start over, which happens only in a file of
  which nothing was read yet.
* `InOrderOnce`: by `StepThins` every step but a read takes one stimulus away at most, with all
  behind it perhaps (a duplicate, an overflow of the buffer, the total), and leaves the order of the
  others; a read appends one (`ReadAdds`).
* `GapFree`: while the total is not reached, every byte of a first file up to the remembered offset,
  or up to the cursor of the adapter that has it open, is a newline or in a text that was given. It
  speaks of the cursor because the offset takes its value when the file is closed.

`TotalIsBounded` needs none of this. `Passing` counts per source: those that are still to be polled
have not added to the total, each one before them has passed it by one event at most.

### The evidence

Assumed: `RotationAssumption` (what the constructor accepts). Beside the types:

* `Alone`: as long as no two sessions were alive at once, one is at most.
* `OnlyRecorded`: files hold nothing that was not recorded.
* `Counted`: how many archives the rotation at work will leave if it can remove what it has to; without
  `unfinished` and `missed` in it a killed or failed rotation breaks the bound.
* `Prepared`: each archive that the rotation at work has still to remove is older than `Keep` archives
  that it will not, and its own is there, empty before the copy and holding the log when that is
  truncated. This makes each removal safe although it follows a scan made before the archive existed,
  and whatever was removed, or could not be, before it. The lemmas `NewerFinite`, `OlderHasMore`,
  `KeptAreFew`, `KeptAreEnough` and `SurplusIsOldest` are about sets of archives alone.
* `Single`: where a row may be twice.

`EvidenceKept` is an action property: `LostOnlyIfSurplus` shows it of each step from `Prepared`.

### The registry and the approvals

Assumed: `FilesAssumption` and `ApprovalsAssumption` (the model values for missing and torn files are
none of the contents). For `NothingInvented` every file and every copy in memory, also one that will
never be published, has to be truthful (`Truths`), since a rename publishes what somebody else
wrote. For `RunsRemembered` the copy of the one supervisor that saves and the temporary file have to
hold what the registry holds (`Prepared`, `Temporary`). `RunsBacked` needs `CopiesAgree`: in every
copy, however old, a request is pending or approved as its confirmations say, and no copy counts
more of them than operators gave. `RejectionStands` needs the same of the copies as of the ledger.

### Only model-checked

Every safety invariant and action property of the passing runs, and the refinement, has a theorem.
The liveness properties `RunEnds`, `BoundedRunEnds` and `SentinelEnds` have none, since fairness and
ENABLED are beyond the prover. No model declares a RECURSIVE operator.

## Not modelled

* The numbers: reservoir states, learning rules, scores. What is learned is which signals.
* The optional layers the loop calls between steps (latent, homeostasis, executive, ego, world
  model, inner map, language): off by default, without files a start reads.
* Two runners on one state directory: nothing locks it and the code documents one brain per
  directory. `EvidenceRotation` has two sessions on one log, since rotation is where that destroys
  something.
* Torn lines of the runner's own logs and lost writes after a power failure: a row or a JSON file
  that was written stays written. `EvidenceRotation` has the torn lines.
* What the health monitor and the resource budget compute: a grade is any grade.
* Rotation of a feeder's file by size.
* The other adapters of the membranes, and the audit rows components write about themselves.
* By far the largest part of the code: evaluation, reports, consoles, the perception and development
  layers, the research process. These are about 240000 lines of sequential passes that
  score or format what is in memory and write a report. They have thresholds and layouts but no
  interleavings, no recovery and next to no state that outlives a call; a model of them would be a
  transliteration that says no more than a unit test. The share of the source the modules cover is
  therefore small, and covers what several processes or sessions have to agree on.

## Plan

The modules were written in the order of what hurts most when it goes wrong: the state directory
with `Continuity` as its abstract specification, the supervisor over that, the parameters, then the
files that several processes share. All of it is modelled, checked and, but for the list under
*Only model-checked*, proved. What is left to add: the latent scheduler (modes, cooldowns, wake on
stimulus) inside the runner's step.

That the supervisor's brain takes steps of `Continuity` only is no theorem: its actions are built
from those of `Continuity`, so it holds by construction.
