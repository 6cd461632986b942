--------------------- MODULE ContinuousRunnerCostProofs ---------------------
(***************************************************************************)
(* Proofs about what a crash of ContinuousRunner costs, for all values of  *)
(* its constants: the signals the next session does not restore, the       *)
(* heartbeat the gap is measured from, the lifetime that is credited, the  *)
(* steps that are relived, the trace.                                      *)
(***************************************************************************)
EXTENDS ContinuousRunnerProofs, FiniteSetTheorems

USE DEF Events, InitPoints, BirthPoints, StepPoints, CheckpointPoints, DeathPoints

\* What was learned up to a step that was due a checkpoint is restored, the
\* weights from the write of latest_checkpoint.json on, the reservoir from the
\* end of the archive's.
Done == brain.step - (IF pc = "process" THEN 1 ELSE 0)
Unsaved == {"process", "react", "record", "beat", "log_checkpoint", "save_checkpoint"}
UnsavedNpz == Unsaved \cup {"open_npz", "close_npz"}
Covers(learned, restored, unsaved) ==
    \A d \in 0..brain.step :
        d % Interval = 0 /\ (d < brain.step \/ d = 0 \/ pc \notin unsaved) =>
            \A i \in learned : i + (Done - d) <= Len(heard) => i \in restored
SignalsSaved ==
    /\ pc \in {"process", "react", "record", "beat"} => brain.step > 0
    /\ Interval > 0 /\ pc \in Live =>
        /\ Covers(brain.wts, RestoredWeights, Unsaved)
        /\ Loadable => Covers(brain.res, RestoredReservoir, UnsavedNpz)

\* A session has beaten once it is born, and a brain at rest has not since.
HeartbeatKnown ==
    /\ pc \in InitPoints \cup {"birth"} => brain.heartbeat = 0
    /\ pc \in Marked \ {"birth"} => brain.heartbeat = clock /\ clock > 0
RestStill == manifest # NoFile /\ manifest.graceful => manifest.heartbeat = clock

\* Between two steps a session has processed a signal for each of them, but
\* for the ones a Ctrl-C cut short.
Credited ==
    /\ LifetimeNeverOverstates
    /\ pc \in Live => Lifetime <= Len(heard) + interrupts + (IF pc = "process" THEN 1 ELSE 0)

\* Sessions follow each other, and none traces two signals for one step; what
\* a session that has logged its graceful death traced is in the manifest.
Deaths == Rows("graceful_death")
Gone(s) == \E r \in Deaths : r.session = s
SignalsHeard ==
    /\ \A x \in trace : x.signal \in 1..Len(heard)
    /\ \A i, j \in 1..Len(heard) : i < j => heard[i] <= heard[j]
    /\ pc \in {"react", "record"} => Len(heard) > 0 /\ heard[Len(heard)] = session
StepsTraced ==
    /\ pc \in Live => \A x \in trace : heard[x.signal] = session => x.lifetime <= Lifetime
    /\ pc \in {"process", "react", "record"} =>
          /\ manifest.lifetime < Lifetime
          /\ \A x \in trace : heard[x.signal] = session => x.lifetime < Lifetime
TracedOnce == \A x, y \in trace : x.lifetime = y.lifetime /\ heard[x.signal] = heard[y.signal] => x.signal = y.signal
GoneSaved ==
    /\ \A x \in trace : Gone(heard[x.signal]) => manifest # NoFile /\ x.lifetime <= manifest.lifetime
    /\ Gone(session) => pc \in {"save_final_manifest", "dead", "off"}
Traced == SignalsHeard /\ StepsTraced /\ TracedOnce /\ GoneSaved

\* The signals that are in memory or in a file and not in the trace, but for
\* the one in hand.
Saved == Stored \cup (IF npz \in {NoFile, Torn} THEN {} ELSE npz.res)
Known == Saved \cup brain.res \cup brain.wts
InHand == IF pc \in {"react", "record"} THEN {Len(heard)} ELSE {}
Untraced == (Known \ {r.signal : r \in trace}) \ InHand
KnownHeard ==
    /\ Known \subseteq 1..Len(heard)
    /\ pc \in {"react", "record"} => Len(heard) \notin Saved
UntracedFew == IsFiniteSet(Untraced) /\ Cardinality(Untraced) <= interrupts

-----------------------------------------------------------------------------
(* Among any Interval steps one is due a checkpoint. *)

LEMMA RoundedDown ==
    ASSUME NEW m \in Nat, NEW k \in Nat, k > 0, NEW r \in Nat, r = m % k
    PROVE  (m - r) % k = 0
BY SMTT(30)

LEMMA SomeDue ==
    ASSUME NEW n \in Nat, NEW k \in Nat, k > 0, n > k
    PROVE  \E d \in 1..(n - 1) : d % k = 0 /\ n <= d + k
<1>1. PICK m \in Nat : n = m + 1
    <2>1. n - 1 \in Nat /\ n = (n - 1) + 1
        OBVIOUS
    <2> QED
        BY <2>1
<1>2. PICK r \in 0..(k - 1) : r = m % k
    OBVIOUS
<1>3. (m - r) % k = 0
    <2>1. r \in Nat /\ r = m % k
        BY <1>2
    <2> QED
        BY <2>1, RoundedDown, Zenon
<1>4. m - r \in 1..(n - 1) /\ n <= (m - r) + k
    <2>1. r \in Int /\ 0 <= r /\ r <= k - 1
        OBVIOUS
    <2> QED
        BY <1>1, <2>1
<1> QED
    BY <1>3, <1>4

-----------------------------------------------------------------------------
(* What each step leaves alone. *)

\* Only BeginStep counts a step, while the session runs.
LEMMA StepCount ==
    ASSUME TypeOK, [Next]_vars, ~Start, ~BeginStep, ~SaveFinalManifest, ~Crash
    PROVE  /\ brain'.step = brain.step /\ brain'.base = brain.base /\ session' = session
           /\ pc' \in Marked => pc \in Marked \/ MarkRunning
<1>1. brain \in Brain
    BY DEF TypeOK
<1>2. CASE Birth \/ Process \/ React \/ Heartbeat \/ Prune
    BY <1>1, <1>2 DEF Birth, Process, React, Heartbeat, Prune, Beat, Brain, history, Marked, Live
<1>3. CASE LogUnexpectedDeath \/ LogGap \/ MarkRunning \/ LogRestart \/ LogBirth \/ RecordSignal \/ LogCheckpoint
           \/ SaveCheckpoint \/ OpenNpz \/ CloseNpz
    BY <1>3 DEF LogUnexpectedDeath, LogGap, MarkRunning, LogRestart, LogBirth, RecordSignal, LogCheckpoint,
           SaveCheckpoint, OpenNpz, CloseNpz, history, Marked, Live
<1>4. CASE SaveSubstrateManifest \/ SaveCheckpointManifest \/ EndLoop \/ Interrupt \/ Die \/ Stop
    BY <1>4 DEF SaveSubstrateManifest, SaveCheckpointManifest, EndLoop, Interrupt, InLoop, Die, Stop,
           history, Marked, Live
<1>5. CASE UNCHANGED vars
    BY <1>5 DEF vars, process, history
<1> QED
    BY <1>2, <1>3, <1>4, <1>5 DEF Next, Run

\* latest_checkpoint.json is there once it is written.
LEMMA SavedCheckpoint ==
    ASSUME TypeOK, SaveCheckpoint
    PROVE  checkpoint' # NoFile
<1>1. checkpoint' \in Checkpoint
    BY LifetimeType DEF SaveCheckpoint, TypeOK, Brain, Checkpoint
<1> QED
    BY <1>1, FilesAssumption

-----------------------------------------------------------------------------
(* The lifetime that is credited. *)

\* Who writes manifest.json, and what.
LEMMA ManifestWrites ==
    ASSUME TypeOK, [Next]_vars
    PROVE  \/ manifest' = manifest
           \/ /\ MarkRunning \/ SaveCheckpointManifest \/ SaveFinalManifest
              /\ manifest'.lifetime = Lifetime
              /\ manifest'.heartbeat = IF brain.heartbeat = 0 THEN clock ELSE brain.heartbeat
<1>1. CASE MarkRunning \/ SaveCheckpointManifest \/ SaveFinalManifest
    BY <1>1 DEF MarkRunning, SaveCheckpointManifest, SaveFinalManifest, SaveManifest
<1>2. CASE ~(MarkRunning \/ SaveCheckpointManifest \/ SaveFinalManifest)
    BY <1>2 DEF Next, Run, Start, LogUnexpectedDeath, LogGap, Birth, LogRestart, LogBirth, BeginStep, Process,
           React, RecordSignal, Heartbeat, Prune, LogCheckpoint, SaveCheckpoint, OpenNpz, CloseNpz,
           SaveSubstrateManifest, EndLoop, Interrupt, Die, Stop, Crash, vars, disk
<1> QED
    BY <1>1, <1>2

\* Only Process hears a signal, and only a Ctrl-C counts as one.
LEMMA HeardSame ==
    ASSUME [Next]_vars, ~Process
    PROVE  heard' = heard
BY DEF Next, Run, Start, LogUnexpectedDeath, LogGap, MarkRunning, Birth, LogRestart, LogBirth, BeginStep,
       React, RecordSignal, Heartbeat, Prune, LogCheckpoint, SaveCheckpoint, OpenNpz, CloseNpz,
       SaveSubstrateManifest, SaveCheckpointManifest, EndLoop, Interrupt, Die, SaveFinalManifest, Stop, Crash,
       vars, history

LEMMA InterruptsSame ==
    ASSUME [Next]_vars, ~Interrupt
    PROVE  interrupts' = interrupts
BY DEF Next, Run, Start, LogUnexpectedDeath, LogGap, MarkRunning, Birth, LogRestart, LogBirth, BeginStep, Process,
       React, RecordSignal, Heartbeat, Prune, LogCheckpoint, SaveCheckpoint, OpenNpz, CloseNpz,
       SaveSubstrateManifest, SaveCheckpointManifest, EndLoop, Die, SaveFinalManifest, Stop, Crash,
       vars, history

LEMMA CreditedStep ==
    ASSUME TypeOK, TypeOK', Credited, [Next]_vars
    PROVE  Credited'
<1>0. /\ Lifetime \in Nat /\ Lifetime' \in Nat /\ interrupts \in Nat
      /\ Len(heard) \in Nat /\ Len(heard') \in Nat
      /\ manifest # NoFile => manifest.lifetime \in Nat
    <2>1. Lifetime \in Nat /\ interrupts \in Nat /\ Len(heard) \in Nat
        BY LifetimeType DEF TypeOK
    <2>2. Lifetime' \in Nat
        <3>1. brain' \in Brain
            BY DEF TypeOK
        <3> QED
            BY <3>1 DEF Lifetime, Brain
    <2>3. Len(heard') \in Nat
        BY DEF TypeOK
    <2>4. manifest # NoFile => manifest.lifetime \in Nat
        BY DEF TypeOK, Manifest
    <2> QED
        BY <2>1, <2>2, <2>3, <2>4
<1>1. LifetimeNeverOverstates'
    <2>1. Len(heard') >= Len(heard) /\ interrupts' >= interrupts
        <3>1. CASE Process
            BY <1>0, <3>1 DEF Process, TypeOK
        <3>2. CASE Interrupt
            BY <1>0, <3>2 DEF Interrupt
        <3>3. Process => ~Interrupt
            BY DEF Process, Interrupt
        <3> QED
            BY <1>0, <3>1, <3>2, <3>3, HeardSame, InterruptsSame
    <2>2. CASE manifest' = manifest
        BY <1>0, <2>1, <2>2 DEF Credited, LifetimeNeverOverstates, TypeOK
    <2>3. CASE manifest' # manifest
        <3>1. manifest'.lifetime = Lifetime /\ (MarkRunning \/ SaveCheckpointManifest \/ SaveFinalManifest)
            BY <2>3, ManifestWrites
        <3>2. pc \in Live \ {"process"}
            BY <3>1 DEF MarkRunning, SaveCheckpointManifest, SaveFinalManifest, Live
        <3>3. Lifetime <= Len(heard) + interrupts
            BY <1>0, <3>2 DEF Credited
        <3> QED
            BY <1>0, <2>1, <3>1, <3>3 DEF LifetimeNeverOverstates, TypeOK
    <2> QED
        BY <2>2, <2>3
<1>2. pc' \in Live => Lifetime' <= Len(heard') + interrupts' + (IF pc' = "process" THEN 1 ELSE 0)
    <2>1. CASE Start
        <3>1. /\ Lifetime' = IF manifest = NoFile THEN 0 ELSE manifest.lifetime
              /\ pc' # "process" /\ heard' = heard /\ interrupts' = interrupts
            BY <1>0, <2>1 DEF Start, Restored, Lifetime
        <3> QED
            BY <1>0, <3>1 DEF Credited, LifetimeNeverOverstates
    <2>2. CASE SaveFinalManifest \/ Crash
        BY <2>2 DEF SaveFinalManifest, Crash, Live
    <2>3. CASE BeginStep
        <3>1. Lifetime' = Lifetime + 1 /\ pc = "loop" /\ pc' = "process" /\ heard' = heard /\ interrupts' = interrupts
            BY <2>3 DEF BeginStep, Lifetime, TypeOK, Brain, history
        <3> QED
            BY <1>0, <3>1 DEF Credited, Live
    <2>4. CASE Process
        <3>1. Len(heard') = Len(heard) + 1 /\ pc = "process" /\ pc' = "react" /\ interrupts' = interrupts
            BY <2>4 DEF Process, TypeOK
        <3>2. Lifetime' = Lifetime
            BY <2>4 DEF Process, Lifetime, TypeOK, Brain
        <3> QED
            BY <1>0, <3>1, <3>2 DEF Credited, Live
    <2>5. CASE Interrupt
        <3>1. pc \in Live /\ pc' = "log_checkpoint" /\ interrupts' = interrupts + 1 /\ heard' = heard
            BY <2>5 DEF Interrupt, InLoop, Live
        <3>2. Lifetime' = Lifetime
            BY <2>5 DEF Interrupt, Lifetime
        <3> QED
            BY <1>0, <3>1, <3>2 DEF Credited
    <2>6. CASE ~(Start \/ SaveFinalManifest \/ Crash \/ BeginStep \/ Process \/ Interrupt)
        <3>1. Lifetime' = Lifetime
            BY <2>6, StepCount DEF Lifetime
        <3>2. heard' = heard /\ interrupts' = interrupts
            BY <2>6, HeardSame, InterruptsSame
        <3>3. pc' \in Live => pc \in Live
            BY <2>6 DEF Next, Run, LogUnexpectedDeath, LogGap, MarkRunning, Birth, LogRestart, LogBirth, React,
                   RecordSignal, Heartbeat, Prune, LogCheckpoint, SaveCheckpoint, OpenNpz, CloseNpz,
                   SaveSubstrateManifest, SaveCheckpointManifest, EndLoop, Die, Stop, Live, Marked, vars, process
        <3>4. pc = "process" => pc' = "process"
            BY <2>6 DEF Next, Run, LogUnexpectedDeath, LogGap, MarkRunning, Birth, LogRestart, LogBirth, React,
                   RecordSignal, Heartbeat, Prune, LogCheckpoint, SaveCheckpoint, OpenNpz, CloseNpz,
                   SaveSubstrateManifest, SaveCheckpointManifest, EndLoop, Die, Stop, vars, process
        <3> QED
            BY <1>0, <3>1, <3>2, <3>3, <3>4 DEF Credited
    <2> QED
        BY <2>1, <2>2, <2>3, <2>4, <2>5, <2>6
<1> QED
    BY <1>1, <1>2 DEF Credited

-----------------------------------------------------------------------------
(* The signals a crash costs. *)

StepBegun == pc \in {"process", "react", "record", "beat"} => brain.step > 0

LEMMA StepBegunStep ==
    ASSUME TypeOK, StepBegun, [Next]_vars
    PROVE  StepBegun'
<1>0. brain \in Brain /\ brain.step \in Nat
    BY DEF TypeOK, Brain
<1>1. CASE BeginStep
    BY <1>0, <1>1 DEF BeginStep, Brain, StepBegun
<1>2. CASE ~BeginStep
    <2>1. pc' \in {"process", "react", "record", "beat"} =>
              /\ pc \in {"process", "react", "record", "beat"}
              /\ ~Start /\ ~SaveFinalManifest /\ ~Crash
        BY <1>2 DEF Next, Run, Start, LogUnexpectedDeath, LogGap, MarkRunning, Birth, LogRestart, LogBirth, Process,
               React, RecordSignal, Heartbeat, Prune, AfterCheckpoint, LogCheckpoint, SaveCheckpoint, OpenNpz, CloseNpz,
               SaveSubstrateManifest, SaveCheckpointManifest, EndLoop, Interrupt, Die, SaveFinalManifest, Stop,
               Crash, vars, process
    <2> QED
        BY <1>2, <2>1, StepCount DEF StepBegun
<1> QED
    BY <1>1, <1>2

\* Only Process and React learn, and only a start restores.
LEMMA LearnedSame ==
    ASSUME TypeOK, [Next]_vars, ~Start, ~SaveFinalManifest, ~Crash
    PROVE  /\ ~Process => brain'.res = brain.res
           /\ ~React => brain'.wts = brain.wts
<1>1. brain \in Brain
    BY DEF TypeOK
<1>2. CASE Birth \/ BeginStep \/ Process \/ React \/ Heartbeat \/ Prune
    BY <1>1, <1>2 DEF Birth, BeginStep, Process, React, Heartbeat, Prune, Beat, Brain
<1>3. CASE ~(Birth \/ BeginStep \/ Process \/ React \/ Heartbeat \/ Prune)
    <2>1. brain' = brain
        BY <1>3 DEF Next, Run, LogUnexpectedDeath, LogGap, MarkRunning, LogRestart, LogBirth, RecordSignal,
               LogCheckpoint, SaveCheckpoint, OpenNpz, CloseNpz, SaveSubstrateManifest, SaveCheckpointManifest,
               EndLoop, Interrupt, Die, Stop, vars, process
    <2> QED
        BY <2>1
<1> QED
    BY <1>2, <1>3

\* Who writes the files a start restores from.
LEMMA FilesSame ==
    ASSUME [Next]_vars
    PROVE  /\ ~SaveCheckpoint => checkpoint' = checkpoint
           /\ ~OpenNpz /\ ~CloseNpz => npz' = npz
           /\ ~SaveSubstrateManifest => substrateManifest' = substrateManifest
BY DEF Next, Run, Start, LogUnexpectedDeath, LogGap, MarkRunning, Birth, LogRestart, LogBirth, BeginStep, Process,
       React, RecordSignal, Heartbeat, Prune, LogCheckpoint, SaveCheckpoint, OpenNpz, CloseNpz, SaveSubstrateManifest,
       SaveCheckpointManifest, EndLoop, Interrupt, Die, SaveFinalManifest, Stop, Crash, vars, disk

LEMMA UnsavedApart == Unsaved # UnsavedNpz
<1>1. "open_npz" \in UnsavedNpz /\ "open_npz" \notin Unsaved
    BY DEF Unsaved, UnsavedNpz
<1> QED
    BY <1>1

\* A step that counts, hears and writes nothing leaves no more to be covered: what is due now
\* was due before, and was to be covered at least as far.
LEMMA DueBefore ==
    ASSUME TypeOK, [Next]_vars, pc' \in Live, ~Start, ~BeginStep, ~Process,
           Interval > 0, NEW unsaved \in {Unsaved, UnsavedNpz},
           unsaved = Unsaved => ~SaveCheckpoint,
           unsaved = UnsavedNpz => ~CloseNpz,
           NEW d \in 0..brain'.step, d % Interval = 0,
           d < brain'.step \/ d = 0 \/ pc' \notin unsaved
    PROVE  /\ pc \in Live /\ d \in 0..brain.step
           /\ d < brain.step \/ d = 0 \/ pc \notin unsaved
           /\ \A i \in Nat : i + (Done' - d) <= Len(heard') => i + (Done - d) <= Len(heard)
<1>0. brain.step \in Nat /\ Len(heard) \in Nat
    BY DEF TypeOK, Brain
<1>1. ~SaveFinalManifest /\ ~Crash
    BY DEF SaveFinalManifest, Crash, Live
<1>2. brain'.step = brain.step /\ heard' = heard
    BY <1>1, StepCount, HeardSame
<1>3. pc \in Live /\ (pc' = "process" => pc = "process")
    BY <1>1 DEF Next, Run, LogUnexpectedDeath, LogGap, MarkRunning, Birth, LogRestart, LogBirth, React,
           RecordSignal, Heartbeat, Prune, AfterCheckpoint, LogCheckpoint, SaveCheckpoint, OpenNpz, CloseNpz,
           SaveSubstrateManifest, SaveCheckpointManifest, EndLoop, Interrupt, InLoop, Die, Stop, Live, Marked,
           vars, process
<1>4. ASSUME NEW i \in Nat, i + (Done' - d) <= Len(heard')
      PROVE  i + (Done - d) <= Len(heard)
    <2>1. Done \in Int /\ Done' \in Int /\ Done <= Done'
        BY <1>0, <1>2, <1>3 DEF Done
    <2>2. d \in Int
        OBVIOUS
    <2> QED
        BY <1>0, <1>2, <1>4, <2>1, <2>2
<1>5. d < brain.step \/ d = 0 \/ pc \notin unsaved
    <2>1. CASE Heartbeat
        <3>1. Due(Interval) => pc' \in unsaved
            BY <2>1 DEF Heartbeat, Unsaved, UnsavedNpz
        <3>2. CASE ~Due(Interval)
            <4>1. d # brain.step
                BY <3>2 DEF Due
            <4> QED
                BY <1>0, <1>2, <4>1
        <3> QED
            BY <1>2, <3>1, <3>2
    <2>2. CASE ~Heartbeat /\ pc \in unsaved
        <3>1. pc' \in unsaved
            BY <1>1, <2>2 DEF Unsaved, UnsavedNpz, Next, Run, LogUnexpectedDeath, LogGap, MarkRunning, Birth, LogRestart,
                   LogBirth, React, RecordSignal, Prune, LogCheckpoint, SaveCheckpoint, OpenNpz, CloseNpz,
                   SaveSubstrateManifest, SaveCheckpointManifest, EndLoop, Interrupt, Die, Stop, vars, process
        <3> QED
            BY <1>2, <3>1
    <2> QED
        BY <2>1, <2>2
<1> QED
    BY <1>2, <1>3, <1>4, <1>5

\* A step begun has nothing more to cover than the last one had.
LEMMA DueBeforeStep ==
    ASSUME TypeOK, BeginStep, NEW unsaved \in {Unsaved, UnsavedNpz},
           NEW d \in 0..brain'.step, d < brain'.step \/ d = 0 \/ pc' \notin unsaved
    PROVE  /\ pc \in Live /\ d \in 0..brain.step /\ pc \notin unsaved
           /\ Done' = Done /\ heard' = heard
           /\ brain'.res = brain.res /\ brain'.wts = brain.wts
<1>1. /\ brain.step \in Nat /\ brain'.step = brain.step + 1
      /\ brain'.res = brain.res /\ brain'.wts = brain.wts
    BY DEF BeginStep, TypeOK, Brain
<1>2. pc = "loop" /\ pc' = "process" /\ heard' = heard
    BY DEF BeginStep, history
<1>3. pc \in Live /\ pc \notin unsaved /\ pc' \in unsaved
    BY <1>2 DEF Live, Unsaved, UnsavedNpz
<1>4. d \in 0..brain.step
    BY <1>1, <1>3
<1>5. Done' = Done
    BY <1>1, <1>2 DEF Done
<1> QED
    BY <1>1, <1>2, <1>3, <1>4, <1>5

\* The signal a step is working on is later than any that is due.
LEMMA InHandLater ==
    ASSUME TypeOK, StepBegun, NEW unsaved \in {Unsaved, UnsavedNpz}, pc \in {"react", "record"},
           NEW d \in 0..brain.step, d < brain.step \/ d = 0 \/ pc \notin unsaved
    PROVE  ~(Len(heard) + (Done - d) <= Len(heard))
<1>1. brain.step \in Nat /\ Len(heard) \in Nat /\ brain.step > 0
    BY DEF TypeOK, Brain, StepBegun
<1>2. Done = brain.step /\ pc \in unsaved
    BY <1>1 DEF Done, Unsaved, UnsavedNpz
<1>3. d < brain.step /\ d \in Int
    BY <1>1, <1>2
<1> QED
    BY <1>1, <1>2, <1>3

\* The signal that is processed is later than any that is due, and the others are as far.
LEMMA DueBeforeProcess ==
    ASSUME TypeOK, StepBegun, Process, NEW unsaved \in {Unsaved, UnsavedNpz},
           NEW d \in 0..brain'.step, d < brain'.step \/ d = 0 \/ pc' \notin unsaved
    PROVE  /\ pc \in Live /\ d \in 0..brain.step
           /\ d < brain.step \/ d = 0 \/ pc \notin unsaved
           /\ \A i \in Nat : i + (Done' - d) <= Len(heard') => i # Len(heard) + 1 /\ i + (Done - d) <= Len(heard)
<1>1. /\ brain.step \in Nat /\ brain'.step = brain.step /\ brain.step > 0
      /\ Len(heard) \in Nat /\ Len(heard') = Len(heard) + 1
      /\ pc = "process" /\ pc' = "react"
    BY DEF Process, TypeOK, Brain, StepBegun
<1>2. Done = brain.step - 1 /\ Done' = brain.step
    BY <1>1 DEF Done
<1>3. pc \in Live /\ pc \in unsaved /\ pc' \in unsaved
    BY <1>1 DEF Live, Unsaved, UnsavedNpz
<1>4. d < brain.step /\ d \in Int
    BY <1>1, <1>3
<1> QED
    BY <1>1, <1>2, <1>3, <1>4

LEMMA WeightsSavedStep ==
    ASSUME TypeOK, TypeOK', StepBegun, [Next]_vars, Interval > 0, pc' \in Live,
           pc \in Live => Covers(brain.wts, RestoredWeights, Unsaved)
    PROVE  Covers(brain.wts, RestoredWeights, Unsaved)'
<1> SUFFICES ASSUME NEW d \in 0..brain'.step, d % Interval = 0, d < brain'.step \/ d = 0 \/ pc' \notin Unsaved,
                    NEW i \in brain'.wts, i + (Done' - d) <= Len(heard')
             PROVE  i \in RestoredWeights'
    BY DEF Covers
<1>0. i \in Nat /\ ~SaveFinalManifest /\ ~Crash
    BY DEF TypeOK, Brain, SaveFinalManifest, Crash, Live
<1>1. CASE Start
    BY <1>1 DEF Start, Restored, RestoredWeights, disk
<1>2. CASE BeginStep
    <2>1. RestoredWeights' = RestoredWeights
        BY <1>2 DEF BeginStep, RestoredWeights, disk
    <2> QED
        BY <1>2, <2>1, DueBeforeStep DEF Covers
<1>3. CASE Process
    <2>1. RestoredWeights' = RestoredWeights /\ brain'.wts = brain.wts
        BY <1>3 DEF Process, RestoredWeights, disk, TypeOK, Brain
    <2> QED
        BY <1>0, <1>3, <2>1, DueBeforeProcess DEF Covers
<1>4. CASE React
    <2>1. RestoredWeights' = RestoredWeights /\ brain'.step = brain.step /\ heard' = heard
        BY <1>4 DEF React, RestoredWeights, disk, history, TypeOK, Brain
    <2>2. i \in brain.wts \/ i = Len(heard)
        BY <1>4 DEF React, TypeOK, Brain
    <2>3. pc = "react" /\ pc' = "record"
        BY <1>4 DEF React
    <2>4. Done' = Done
        BY <2>1, <2>3 DEF Done
    <2>5. d \in 0..brain.step /\ (d < brain.step \/ d = 0 \/ pc \notin Unsaved) /\ pc \in Live
        BY <2>1, <2>3 DEF Unsaved, Live
    <2>6. i # Len(heard)
        BY <2>1, <2>3, <2>4, <2>5, InHandLater
    <2> QED
        BY <2>1, <2>2, <2>4, <2>5, <2>6 DEF Covers
<1>5. CASE SaveCheckpoint
    <2>1. checkpoint' # NoFile
        BY <1>5, SavedCheckpoint
    <2>2. checkpoint'.wts = brain'.wts
        BY <1>5 DEF SaveCheckpoint
    <2> QED
        BY <2>1, <2>2 DEF RestoredWeights
<1>6. CASE ~(Start \/ BeginStep \/ Process \/ React \/ SaveCheckpoint)
    <2>1. brain'.wts = brain.wts /\ RestoredWeights' = RestoredWeights
        BY <1>0, <1>6, LearnedSame, FilesSame DEF RestoredWeights
    <2>2. /\ pc \in Live /\ d \in 0..brain.step /\ (d < brain.step \/ d = 0 \/ pc \notin Unsaved)
          /\ i + (Done - d) <= Len(heard)
        BY <1>0, <1>6, UnsavedApart, DueBefore
    <2> QED
        BY <2>1, <2>2 DEF Covers
<1> QED
    BY <1>1, <1>2, <1>3, <1>4, <1>5, <1>6

LEMMA ReservoirSavedStep ==
    ASSUME TypeOK, TypeOK', StepBegun, Progress, Progress', [Next]_vars, Interval > 0, pc' \in Live, Loadable',
           pc \in Live /\ Loadable => Covers(brain.res, RestoredReservoir, UnsavedNpz)
    PROVE  Covers(brain.res, RestoredReservoir, UnsavedNpz)'
<1> SUFFICES ASSUME NEW d \in 0..brain'.step, d % Interval = 0, d < brain'.step \/ d = 0 \/ pc' \notin UnsavedNpz,
                    NEW i \in brain'.res, i + (Done' - d) <= Len(heard')
             PROVE  i \in RestoredReservoir'
    BY DEF Covers
<1>0. i \in Nat /\ ~SaveFinalManifest /\ ~Crash
    BY DEF TypeOK, Brain, SaveFinalManifest, Crash, Live
<1>1. CASE Start
    BY <1>1 DEF Start, Restored, RestoredReservoir, disk
<1>2. CASE BeginStep
    <2>1. RestoredReservoir' = RestoredReservoir /\ Loadable
        BY <1>2 DEF BeginStep, RestoredReservoir, Loadable, disk
    <2> QED
        BY <1>2, <2>1, DueBeforeStep DEF Covers
<1>3. CASE Process
    <2>1. RestoredReservoir' = RestoredReservoir /\ Loadable
        BY <1>3 DEF Process, RestoredReservoir, Loadable, disk
    <2>2. i \in brain.res \/ i = Len(heard) + 1
        BY <1>3 DEF Process, TypeOK, Brain
    <2> QED
        BY <1>0, <1>3, <2>1, <2>2, DueBeforeProcess DEF Covers
<1>4. CASE CloseNpz \/ SaveSubstrateManifest
    <2>1. NpzSaved' /\ JsonSaved'
        BY <1>4 DEF CloseNpz, SaveSubstrateManifest, NpzSaved, JsonSaved
    <2>2. npz' = [res |-> brain'.res] /\ checkpoint' # NoFile /\ checkpoint'.res = brain'.res
        BY <2>1 DEF Progress
    <2>3. npz'.res = brain'.res
        BY <2>2
    <2>4. RestoredReservoir' = brain'.res
        BY <2>2, <2>3 DEF RestoredReservoir
    <2> QED
        BY <2>4
<1>5. CASE SaveCheckpoint \/ OpenNpz
    <2>1. substrateManifest' = substrateManifest /\ brain' = brain
        BY <1>5 DEF SaveCheckpoint, OpenNpz
    <2>2. JsonSaved'
        BY <1>5 DEF SaveCheckpoint, OpenNpz, JsonSaved
    <2>3. checkpoint' # NoFile /\ checkpoint'.res = brain'.res
        BY <2>2 DEF Progress
    <2>4. CASE substrateManifest = NoFile \/ npz' = NoFile
        BY <2>1, <2>3, <2>4 DEF RestoredReservoir
    <2>5. CASE substrateManifest # NoFile /\ npz' # NoFile
        <3>1. SaveCheckpoint /\ npz' = npz
            BY <1>5, <2>1, <2>5 DEF Loadable, OpenNpz, SaveCheckpoint
        <3>2. RestoredReservoir' = RestoredReservoir /\ Loadable
            BY <2>1, <2>5, <3>1 DEF RestoredReservoir, Loadable
        <3>3. /\ pc \in Live /\ d \in 0..brain.step /\ (d < brain.step \/ d = 0 \/ pc \notin UnsavedNpz)
              /\ i + (Done - d) <= Len(heard)
            <4>1. ~Start /\ ~BeginStep /\ ~Process /\ ~CloseNpz
                BY <3>1 DEF SaveCheckpoint, Start, BeginStep, Process, CloseNpz
            <4> QED
                BY <1>0, <4>1, UnsavedApart, DueBefore
        <3> QED
            BY <2>1, <3>2, <3>3 DEF Covers
    <2> QED
        BY <2>4, <2>5
<1>6. CASE ~(Start \/ BeginStep \/ Process \/ SaveCheckpoint \/ OpenNpz \/ CloseNpz \/ SaveSubstrateManifest)
    <2>1. brain'.res = brain.res /\ RestoredReservoir' = RestoredReservoir /\ Loadable
        BY <1>0, <1>6, LearnedSame, FilesSame DEF RestoredReservoir, Loadable
    <2>2. /\ pc \in Live /\ d \in 0..brain.step /\ (d < brain.step \/ d = 0 \/ pc \notin UnsavedNpz)
          /\ i + (Done - d) <= Len(heard)
        BY <1>0, <1>6, UnsavedApart, DueBefore
    <2> QED
        BY <2>1, <2>2 DEF Covers
<1> QED
    BY <1>1, <1>2, <1>3, <1>4, <1>5, <1>6

LEMMA SignalsSavedStep ==
    ASSUME TypeOK, TypeOK', Progress, Progress', SignalsSaved, [Next]_vars
    PROVE  SignalsSaved'
<1>1. StepBegun
    BY DEF SignalsSaved, StepBegun
<1>2. StepBegun'
    BY <1>1, StepBegunStep
<1>3. ASSUME Interval > 0, pc' \in Live
      PROVE  Covers(brain.wts, RestoredWeights, Unsaved)'
    BY <1>1, <1>3, WeightsSavedStep DEF SignalsSaved
<1>4. ASSUME Interval > 0, pc' \in Live, Loadable'
      PROVE  Covers(brain.res, RestoredReservoir, UnsavedNpz)'
    BY <1>1, <1>4, ReservoirSavedStep DEF SignalsSaved
<1> QED
    BY <1>2, <1>3, <1>4 DEF SignalsSaved, StepBegun

LEMMA LossFromSignals == TypeOK /\ SignalsSaved => LossBounded
<1> SUFFICES ASSUME TypeOK, SignalsSaved, Interval > 0, pc \in Live, Loadable,
                    NEW i \in 1..Len(heard), i + Interval <= Len(heard)
             PROVE  /\ i \in brain.res => i \in RestoredReservoir
                    /\ i \in brain.wts => i \in RestoredWeights
    BY DEF LossBounded
<1>1. brain.step \in Nat /\ Interval \in Nat /\ Len(heard) \in Nat /\ i \in Int
    BY BoundsAssumption DEF TypeOK, Brain
<1>2. PICK d \in 0..brain.step : d % Interval = 0 /\ (d < brain.step \/ d = 0) /\ brain.step <= d + Interval
    <2>1. CASE brain.step > Interval
        <3>1. PICK d \in 1..(brain.step - 1) : d % Interval = 0 /\ brain.step <= d + Interval
            BY <1>1, <2>1, SomeDue
        <3>2. d \in 0..brain.step /\ d < brain.step
            BY <1>1
        <3> QED
            BY <3>1, <3>2
    <2>2. CASE brain.step <= Interval
        <3>1. 0 % Interval = 0 /\ 0 \in 0..brain.step /\ brain.step <= 0 + Interval
            BY <1>1, <2>2
        <3> QED
            BY <3>1
    <2> QED
        BY <1>1, <2>1, <2>2
<1>3. i + (Done - d) <= Len(heard)
    <2>1. Done \in Int /\ Done <= brain.step /\ d \in Int
        BY <1>1 DEF Done
    <2> QED
        BY <1>1, <1>2, <2>1
<1> QED
    BY <1>2, <1>3 DEF SignalsSaved, Covers

-----------------------------------------------------------------------------
(* The heartbeat the gap is measured from. *)

LEMMA HeartbeatStep ==
    ASSUME TypeOK, HeartbeatKnown, [Next]_vars
    PROVE  HeartbeatKnown'
<1>0. brain \in Brain /\ clock \in Nat
    BY DEF TypeOK
<1>1. CASE Start
    <2>1. pc' \in InitPoints
        BY <1>1 DEF Start
    <2>2. brain'.heartbeat = 0
        BY <1>1 DEF Start, Restored
    <2> QED
        BY <2>1, <2>2 DEF HeartbeatKnown, Marked, Live
<1>2. CASE LogUnexpectedDeath \/ LogGap \/ MarkRunning \/ LogRestart \/ LogBirth \/ RecordSignal
    <2>1. UNCHANGED <<brain, clock>>
        BY <1>2 DEF LogUnexpectedDeath, LogGap, MarkRunning, LogRestart, LogBirth, RecordSignal, history
    <2>2. \/ pc \in InitPoints /\ pc' \in InitPoints \cup {"birth"}
          \/ pc \in BirthPoints \ {"birth"} /\ pc' \in {"log_birth", "loop"}
          \/ pc = "record" /\ pc' = "beat"
        BY <1>2 DEF LogUnexpectedDeath, LogGap, MarkRunning, LogRestart, LogBirth, RecordSignal
    <2> QED
        BY <2>1, <2>2 DEF HeartbeatKnown, Marked, Live
<1>3. CASE Birth \/ Heartbeat
    <2>1. clock' = clock + 1 /\ brain'.heartbeat = clock + 1
        BY <1>0, <1>3 DEF Birth, Heartbeat, Beat, Brain
    <2>2. pc' \notin InitPoints \cup {"birth"}
        BY <1>3 DEF Birth, Heartbeat, AfterCheckpoint
    <2> QED
        BY <1>0, <2>1, <2>2 DEF HeartbeatKnown
<1>4. CASE BeginStep \/ Process \/ React \/ Prune
    <2>1. brain'.heartbeat = brain.heartbeat /\ clock' = clock
        BY <1>0, <1>4 DEF BeginStep, Process, React, Prune, Brain, history
    <2>2. pc \in StepPoints /\ pc' \in StepPoints
        BY <1>4 DEF BeginStep, Process, React, Prune
    <2> QED
        BY <2>1, <2>2 DEF HeartbeatKnown, Marked, Live
<1>5. CASE LogCheckpoint \/ SaveCheckpoint \/ OpenNpz \/ CloseNpz \/ SaveSubstrateManifest \/ SaveCheckpointManifest
           \/ EndLoop \/ Interrupt \/ Die \/ SaveFinalManifest \/ Crash
    <2>1. pc' \notin Live \/ (brain' = brain /\ clock' = clock /\ pc \in Marked \ {"birth"})
        BY <1>5 DEF LogCheckpoint, SaveCheckpoint, OpenNpz, CloseNpz, SaveSubstrateManifest, SaveCheckpointManifest,
               EndLoop, Interrupt, InLoop, Die, SaveFinalManifest, Crash, history, Marked, Live
    <2>2. pc' \in Live => pc' \in Marked \ (InitPoints \cup BirthPoints)
        BY <1>5 DEF LogCheckpoint, SaveCheckpoint, OpenNpz, CloseNpz, SaveSubstrateManifest, SaveCheckpointManifest,
               AfterCheckpoint, EndLoop, Interrupt, Die, SaveFinalManifest, Crash, Marked, Live
    <2> QED
        BY <2>1, <2>2 DEF HeartbeatKnown, Marked, Live
<1>6. CASE Stop \/ UNCHANGED vars
    BY <1>6 DEF Stop, vars, process, history, HeartbeatKnown
<1> QED
    BY <1>1, <1>2, <1>3, <1>4, <1>5, <1>6 DEF Next, Run

LEMMA ClockSame ==
    ASSUME [Next]_vars, ~Birth, ~Heartbeat
    PROVE  clock' = clock
BY DEF Next, Run, Start, LogUnexpectedDeath, LogGap, MarkRunning, LogRestart, LogBirth, BeginStep, Process,
       React, RecordSignal, Prune, LogCheckpoint, SaveCheckpoint, OpenNpz, CloseNpz, SaveSubstrateManifest,
       SaveCheckpointManifest, EndLoop, Interrupt, Die, SaveFinalManifest, Stop, Crash, vars, history

LEMMA RestStillStep ==
    ASSUME TypeOK, Identity, HeartbeatKnown, RestStill, [Next]_vars
    PROVE  RestStill'
<1>1. CASE manifest' # manifest
    <2>1. /\ MarkRunning \/ SaveCheckpointManifest \/ SaveFinalManifest
          /\ manifest'.heartbeat = IF brain.heartbeat = 0 THEN clock ELSE brain.heartbeat
        BY <1>1, ManifestWrites
    <2>2. brain.heartbeat \in {0, clock}
        BY <2>1 DEF MarkRunning, SaveCheckpointManifest, SaveFinalManifest, HeartbeatKnown, Marked, Live
    <2>3. clock' = clock
        BY <2>1 DEF MarkRunning, SaveCheckpointManifest, SaveFinalManifest, history
    <2> QED
        BY <2>1, <2>2, <2>3 DEF RestStill
<1>2. CASE manifest' = manifest /\ ~Birth /\ ~Heartbeat
    BY <1>2, ClockSame DEF RestStill
<1>3. CASE manifest' = manifest /\ (Birth \/ Heartbeat)
    <2>1. pc \in Marked
        BY <1>3 DEF Birth, Heartbeat, Marked, Live
    <2>2. ~manifest.graceful
        BY <2>1 DEF Identity
    <2> QED
        BY <1>3, <2>2 DEF RestStill
<1> QED
    BY <1>1, <1>2, <1>3

-----------------------------------------------------------------------------
(* What is in the trace. *)

\* Only RecordSignal writes the trace, and only Die a graceful death.
LEMMA TraceSame ==
    ASSUME [Next]_vars, ~RecordSignal
    PROVE  trace' = trace
BY DEF Next, Run, Start, LogUnexpectedDeath, LogGap, MarkRunning, Birth, LogRestart, LogBirth, BeginStep, Process,
       React, Heartbeat, Prune, LogCheckpoint, SaveCheckpoint, OpenNpz, CloseNpz, SaveSubstrateManifest,
       SaveCheckpointManifest, EndLoop, Interrupt, Die, SaveFinalManifest, Stop, Crash, vars, disk

LEMMA DeathsSame ==
    ASSUME [Next]_vars
    PROVE  \A r \in Deaths' : r \in Deaths \/ (Die /\ r.session = session)
<1>1. CASE Die
    BY <1>1 DEF Die, Deaths, Rows, Log, LogRow
<1>2. CASE ~Die
    <2>1. \A r \in log' : r \in log \/ r.event # "graceful_death"
        <3>1. CASE LogUnexpectedDeath \/ LogGap \/ LogRestart \/ LogBirth \/ Prune \/ LogCheckpoint
            BY <3>1 DEF LogUnexpectedDeath, LogGap, LogRestart, LogBirth, Prune, LogCheckpoint, Log, LogRow
        <3>2. CASE ~(LogUnexpectedDeath \/ LogGap \/ LogRestart \/ LogBirth \/ Prune \/ LogCheckpoint)
            <4>1. log' = log
                BY <1>2, <3>2 DEF Next, Run, Start, MarkRunning, Birth, BeginStep, Process, React, RecordSignal,
                       Heartbeat, SaveCheckpoint, OpenNpz, CloseNpz, SaveSubstrateManifest, SaveCheckpointManifest,
                       EndLoop, Interrupt, SaveFinalManifest, Stop, Crash, vars, disk
            <4> QED
                BY <4>1
        <3> QED
            BY <3>1, <3>2
    <2> QED
        BY <2>1 DEF Deaths, Rows
<1> QED
    BY <1>1, <1>2

LEMMA SignalsStep ==
    ASSUME TypeOK, Remembered, SignalsHeard, [Next]_vars
    PROVE  SignalsHeard' /\ \A i \in 1..Len(heard) : i \in 1..Len(heard') /\ heard'[i] = heard[i]
<1>0. heard \in Seq(Nat) /\ Len(heard) \in Nat /\ session \in Nat
    BY DEF TypeOK
<1>1. CASE Process
    <2>1. heard' = Append(heard, session) /\ session' = session
        BY <1>1 DEF Process
    <2>2. /\ Len(heard') = Len(heard) + 1 /\ heard'[Len(heard) + 1] = session
          /\ \A i \in 1..Len(heard) : i \in 1..Len(heard') /\ heard'[i] = heard[i]
        BY <1>0, <2>1
    <2>3. trace' = trace
        BY <1>1 DEF Process, disk
    <2>4. \A x \in trace' : x.signal \in 1..Len(heard')
        BY <2>2, <2>3 DEF SignalsHeard
    <2>5. \A i, j \in 1..Len(heard') : i < j => heard'[i] <= heard'[j]
        <3> SUFFICES ASSUME NEW i \in 1..Len(heard'), NEW j \in 1..Len(heard'), i < j
                     PROVE  heard'[i] <= heard'[j]
            OBVIOUS
        <3>1. i \in 1..Len(heard)
            BY <1>0, <2>2
        <3>2. CASE j = Len(heard) + 1
            BY <2>2, <3>1, <3>2 DEF Remembered
        <3>3. CASE j # Len(heard) + 1
            <4>1. j \in Nat /\ 1 <= j /\ j <= Len(heard) + 1
                BY <1>0, <2>2
            <4>2. j \in 1..Len(heard)
                BY <1>0, <3>3, <4>1
            <4> QED
                BY <2>2, <3>1, <4>2 DEF SignalsHeard
        <3> QED
            BY <3>2, <3>3
    <2>6. Len(heard') > 0 /\ heard'[Len(heard')] = session'
        BY <1>0, <2>1, <2>2
    <2> QED
        BY <2>2, <2>4, <2>5, <2>6 DEF SignalsHeard
<1>2. CASE ~Process
    <2>1. heard' = heard
        BY <1>2, HeardSame
    <2>2. \A x \in trace' : x.signal \in 1..Len(heard)
        <3>1. CASE RecordSignal
            <4>1. Len(heard) \in 1..Len(heard)
                BY <1>0, <3>1 DEF RecordSignal, SignalsHeard
            <4>2. \A x \in trace' : x \in trace \/ x.signal = Len(heard)
                BY <3>1 DEF RecordSignal
            <4> QED
                BY <4>1, <4>2 DEF SignalsHeard
        <3>2. CASE ~RecordSignal
            BY <3>2, TraceSame DEF SignalsHeard
        <3> QED
            BY <3>1, <3>2
    <2>3. pc' \in {"react", "record"} => pc \in {"react", "record"} /\ session' = session
        BY <1>2 DEF Next, Run, Start, LogUnexpectedDeath, LogGap, MarkRunning, Birth, LogRestart, LogBirth, BeginStep,
               React, RecordSignal, Heartbeat, Prune, AfterCheckpoint, LogCheckpoint, SaveCheckpoint, OpenNpz,
               CloseNpz, SaveSubstrateManifest, SaveCheckpointManifest, EndLoop, Interrupt, Die, SaveFinalManifest,
               Stop, Crash, vars, process, history
    <2> QED
        BY <2>1, <2>2, <2>3 DEF SignalsHeard
<1> QED
    BY <1>1, <1>2

LEMMA StepsTracedStep ==
    ASSUME TypeOK, Identity, Remembered, SignalsHeard, StepsTraced, [Next]_vars
    PROVE  StepsTraced'
<1>0. /\ \A x \in trace : x.signal \in 1..Len(heard) /\ heard'[x.signal] = heard[x.signal]
      /\ \A x \in trace : x.lifetime \in Nat
      /\ Lifetime \in Nat
    BY SignalsStep, LifetimeType DEF SignalsHeard, TypeOK, TraceRow
<1>1. CASE Start
    <2>1. session' = session + 1 /\ trace' = trace /\ heard' = heard /\ pc' \in InitPoints
        BY <1>1 DEF Start, disk
    <2>2. \A x \in trace : heard[x.signal] <= session
        BY <1>0 DEF Remembered
    <2>3. \A x \in trace : heard[x.signal] \in Nat
        BY <1>0 DEF TypeOK
    <2>4. \A x \in trace' : heard'[x.signal] # session'
        BY <2>1, <2>2, <2>3 DEF TypeOK
    <2> QED
        BY <2>1, <2>4 DEF StepsTraced
<1>2. CASE SaveFinalManifest \/ Crash
    BY <1>2 DEF SaveFinalManifest, Crash, StepsTraced, Live
<1>3. CASE BeginStep
    <2>1. /\ Lifetime' = Lifetime + 1 /\ pc = "loop" /\ pc' = "process"
          /\ UNCHANGED <<trace, heard, session, manifest>>
        BY <1>3 DEF BeginStep, Lifetime, TypeOK, Brain, history, disk
    <2>2. pc \in Live /\ pc \in Marked
        BY <2>1 DEF Live, Marked
    <2>3. manifest.lifetime <= Lifetime /\ manifest.lifetime \in Nat
        BY <2>2 DEF Identity, TypeOK, Manifest
    <2>4. \A x \in trace : heard[x.signal] = session => x.lifetime <= Lifetime
        BY <2>2 DEF StepsTraced
    <2> QED
        BY <1>0, <2>1, <2>3, <2>4 DEF StepsTraced
<1>4. CASE RecordSignal
    <2>1. /\ Lifetime' = Lifetime /\ pc = "record" /\ pc' = "beat" /\ heard' = heard /\ session' = session
          /\ \A x \in trace' : x \in trace \/ x.lifetime = Lifetime
        BY <1>4 DEF RecordSignal, Lifetime, history
    <2> QED
        BY <1>0, <2>1 DEF StepsTraced, Live
<1>5. CASE ~(Start \/ SaveFinalManifest \/ Crash \/ BeginStep \/ RecordSignal)
    <2>1. Lifetime' = Lifetime /\ session' = session
        BY <1>5, StepCount DEF Lifetime
    <2>2. trace' = trace
        BY <1>5, TraceSame
    <2>3. pc' \in Live => pc \in Live
        BY <1>5 DEF Next, Run, LogUnexpectedDeath, LogGap, MarkRunning, Birth, LogRestart, LogBirth, Process, React,
               Heartbeat, Prune, LogCheckpoint, SaveCheckpoint, OpenNpz, CloseNpz, SaveSubstrateManifest,
               SaveCheckpointManifest, EndLoop, Interrupt, InLoop, Die, Stop, Live, Marked, vars, process
    <2>4. pc' \in {"process", "react", "record"} => pc \in {"process", "react", "record"} /\ manifest' = manifest
        BY <1>5 DEF Next, Run, LogUnexpectedDeath, LogGap, MarkRunning, Birth, LogRestart, LogBirth, Process, React,
               Heartbeat, Prune, AfterCheckpoint, LogCheckpoint, SaveCheckpoint, OpenNpz, CloseNpz,
               SaveSubstrateManifest, SaveCheckpointManifest, EndLoop, Interrupt, Die, Stop, vars, process, disk
    <2> QED
        BY <1>0, <2>1, <2>2, <2>3, <2>4 DEF StepsTraced
<1> QED
    BY <1>1, <1>2, <1>3, <1>4, <1>5

LEMMA TracedOnceStep ==
    ASSUME TypeOK, Remembered, SignalsHeard, StepsTraced, TracedOnce, [Next]_vars
    PROVE  TracedOnce'
<1>0. \A x \in trace : heard'[x.signal] = heard[x.signal]
    BY SignalsStep DEF SignalsHeard
<1>1. CASE ~RecordSignal
    <2>1. trace' = trace
        BY <1>1, TraceSame
    <2> QED
        BY <1>0, <2>1 DEF TracedOnce
<1>2. CASE RecordSignal
    <2>1. /\ pc = "record" /\ heard' = heard
          /\ \A x \in trace' : x \in trace \/ (x.lifetime = Lifetime /\ x.signal = Len(heard))
        BY <1>2 DEF RecordSignal, history
    <2>2. heard[Len(heard)] = session
        BY <2>1 DEF SignalsHeard
    <2>3. \A x \in trace : heard[x.signal] = session => x.lifetime # Lifetime
        BY <2>1, LifetimeType DEF StepsTraced, TypeOK, TraceRow
    <2> QED
        BY <2>1, <2>2, <2>3 DEF TracedOnce
<1> QED
    BY <1>1, <1>2

LEMMA GoneSavedStep ==
    ASSUME TypeOK, TypeOK', Identity, Progress, Remembered, SignalsHeard, StepsTraced, GoneSaved, [Next]_vars
    PROVE  GoneSaved'
<1>0. /\ \A x \in trace : heard'[x.signal] = heard[x.signal]
      /\ \A x \in trace : x.lifetime \in Nat
      /\ Lifetime \in Nat
    BY SignalsStep, LifetimeType DEF SignalsHeard, TypeOK, TraceRow
<1>1. manifest # NoFile => manifest' # NoFile /\ manifest.lifetime <= manifest'.lifetime
                            /\ manifest.lifetime \in Nat /\ manifest'.lifetime \in Nat
    <2> SUFFICES ASSUME manifest # NoFile
                 PROVE  manifest' # NoFile /\ manifest.lifetime <= manifest'.lifetime
                            /\ manifest.lifetime \in Nat /\ manifest'.lifetime \in Nat
        OBVIOUS
    <2>1. manifest.lifetime \in Nat
        BY DEF TypeOK, Manifest
    <2>2. CASE manifest' = manifest
        BY <2>1, <2>2
    <2>3. CASE manifest' # manifest
        <3>1. manifest'.lifetime = Lifetime /\ (MarkRunning \/ SaveCheckpointManifest \/ SaveFinalManifest)
            BY <2>3, ManifestWrites
        <3>2. manifest' # NoFile
            BY <3>1, SaveManifestType, FilesAssumption DEF MarkRunning, SaveCheckpointManifest, SaveFinalManifest
        <3>3. manifest.lifetime <= Lifetime
            <4>1. CASE MarkRunning
                BY <1>0, <2>1, <4>1 DEF MarkRunning, Identity, Lifetime, TypeOK, Brain
            <4>2. CASE SaveCheckpointManifest \/ SaveFinalManifest
                BY <4>2 DEF SaveCheckpointManifest, SaveFinalManifest, Identity, Marked, Live
            <4> QED
                BY <3>1, <4>1, <4>2
        <3> QED
            BY <1>0, <2>1, <3>1, <3>2, <3>3
    <2> QED
        BY <2>2, <2>3
<1>2. ASSUME NEW x \in trace', NEW g \in Deaths', g.session = heard'[x.signal]
      PROVE  manifest' # NoFile /\ x.lifetime <= manifest'.lifetime
    <2>1. CASE x \notin trace
        <3>1. RecordSignal
            BY <2>1, TraceSame
        <3>2. /\ pc = "record" /\ heard' = heard /\ x.signal = Len(heard)
            BY <1>2, <2>1, <3>1 DEF RecordSignal, history
        <3>3. heard'[x.signal] = session
            BY <3>2 DEF SignalsHeard
        <3>4. ~Die
            BY <3>2 DEF Die
        <3>5. g \in Deaths
            BY <3>4, DeathsSame
        <3>6. Gone(session)
            BY <1>2, <3>3, <3>5 DEF Gone
        <3> QED
            BY <3>2, <3>6 DEF GoneSaved
    <2>2. CASE x \in trace
        <3>1. heard'[x.signal] = heard[x.signal]
            BY <1>0, <2>2
        <3>2. CASE Gone(heard[x.signal])
            <4>1. manifest # NoFile /\ x.lifetime <= manifest.lifetime
                BY <2>2, <3>2 DEF GoneSaved
            <4> QED
                BY <1>0, <1>1, <2>2, <4>1
        <3>3. CASE Die /\ heard[x.signal] = session
            <4>1. pc = "die" /\ manifest' = manifest
                BY <3>3 DEF Die
            <4>2. manifest # NoFile /\ manifest.lifetime = Lifetime
                BY <4>1 DEF Identity, Marked, Live, Progress, AllSaved
            <4>3. x.lifetime <= Lifetime
                BY <2>2, <3>3, <4>1 DEF StepsTraced, Live
            <4> QED
                BY <4>1, <4>2, <4>3
        <3>4. g \in Deaths \/ (Die /\ g.session = session)
            BY DeathsSame
        <3> QED
            BY <1>2, <3>1, <3>2, <3>3, <3>4 DEF Gone
    <2> QED
        BY <2>1, <2>2
<1>3. ASSUME NEW g \in Deaths', g.session = session'
      PROVE  pc' \in {"save_final_manifest", "dead", "off"}
    <2>1. g \in Deaths \/ Die
        BY DeathsSame
    <2>2. CASE Die
        BY <2>2 DEF Die
    <2>3. CASE Start
        <3>1. session' = session + 1 /\ ~Die
            BY <2>3 DEF Start, Die
        <3>2. g \in log /\ g.session = session + 1
            BY <1>3, <2>1, <3>1 DEF Deaths, Rows
        <3> QED
            BY <3>2 DEF Identity, TypeOK, Row
    <2>4. CASE ~Die /\ ~Start
        <3>1. session' = session
            BY <2>4 DEF Next, Run, LogUnexpectedDeath, LogGap, MarkRunning, Birth, LogRestart, LogBirth, BeginStep,
                   Process, React, RecordSignal, Heartbeat, Prune, LogCheckpoint, SaveCheckpoint, OpenNpz, CloseNpz,
                   SaveSubstrateManifest, SaveCheckpointManifest, EndLoop, Interrupt, SaveFinalManifest, Stop, Crash,
                   vars, history
        <3>2. pc \in {"save_final_manifest", "dead", "off"}
            BY <1>3, <2>1, <2>4, <3>1 DEF GoneSaved, Gone
        <3> QED
            BY <2>4, <3>2 DEF Next, Run, LogUnexpectedDeath, LogGap, MarkRunning, Birth, LogRestart, LogBirth,
                   BeginStep, Process, React, RecordSignal, Heartbeat, Prune, LogCheckpoint, SaveCheckpoint, OpenNpz,
                   CloseNpz, SaveSubstrateManifest, SaveCheckpointManifest, EndLoop, Interrupt, InLoop,
                   SaveFinalManifest, Stop, Crash, vars, process
    <2> QED
        BY <2>2, <2>3, <2>4
<1> QED
    BY <1>2, <1>3 DEF GoneSaved, Gone

LEMMA RelivedStep ==
    ASSUME TypeOK, Remembered, Traced, RelivedOnlyAfterLoss, [Next]_vars
    PROVE  RelivedOnlyAfterLoss'
<1> SUFFICES ASSUME NEW x \in trace', NEW y \in trace', x.lifetime = y.lifetime, x.signal < y.signal,
                    NEW g \in Deaths', g.session = heard'[x.signal]
             PROVE  FALSE
    BY DEF RelivedOnlyAfterLoss, Deaths
<1>0. /\ \A z \in trace : z.signal \in 1..Len(heard) /\ heard'[z.signal] = heard[z.signal]
      /\ \A z \in trace : z.lifetime \in Nat /\ heard[z.signal] \in Nat /\ heard[z.signal] <= session
      /\ Lifetime \in Nat /\ Len(heard) \in Nat /\ session \in Nat
    <2>1. \A z \in trace : z.signal \in 1..Len(heard) /\ heard'[z.signal] = heard[z.signal]
        BY SignalsStep DEF Traced, SignalsHeard
    <2>2. \A z \in trace : z.lifetime \in Nat /\ heard[z.signal] \in Nat /\ heard[z.signal] <= session
        BY <2>1 DEF TypeOK, TraceRow, Remembered
    <2> QED
        BY <2>1, <2>2, LifetimeType DEF TypeOK
<1>1. CASE RecordSignal
    <2>1. /\ pc = "record" /\ heard' = heard /\ ~Die
          /\ \A z \in trace' : z \in trace \/ (z.lifetime = Lifetime /\ z.signal = Len(heard))
        BY <1>1 DEF RecordSignal, history, Die
    <2>2. Gone(heard[x.signal])
        BY <2>1, DeathsSame DEF Gone
    <2>3. x \in trace
        BY <1>0, <2>1
    <2>4. x.lifetime <= manifest.lifetime /\ manifest # NoFile
        BY <2>2, <2>3 DEF Traced, GoneSaved
    <2>5. manifest.lifetime < Lifetime /\ manifest.lifetime \in Nat
        BY <2>1, <2>4 DEF Traced, StepsTraced, TypeOK, Manifest
    <2>6. y \in trace
        BY <1>0, <2>1, <2>3, <2>4, <2>5
    <2> QED
        BY <2>2, <2>3, <2>6 DEF RelivedOnlyAfterLoss, Gone, Deaths
<1>2. CASE ~RecordSignal
    <2>1. x \in trace /\ y \in trace
        BY <1>2, TraceSame
    <2>2. CASE Gone(heard[x.signal])
        BY <2>1, <2>2 DEF RelivedOnlyAfterLoss, Gone, Deaths
    <2>3. CASE heard[x.signal] = session
        <3>1. heard[x.signal] <= heard[y.signal]
            BY <1>0, <2>1 DEF Traced, SignalsHeard
        <3>2. heard[y.signal] = session
            BY <1>0, <2>1, <2>3, <3>1
        <3>3. x.signal = y.signal
            BY <2>1, <2>3, <3>2 DEF Traced, TracedOnce
        <3> QED
            BY <1>0, <2>1, <3>3
    <2>4. g \in Deaths \/ g.session = session
        BY DeathsSame
    <2> QED
        BY <1>0, <2>1, <2>2, <2>3, <2>4 DEF Gone
<1> QED
    BY <1>1, <1>2

-----------------------------------------------------------------------------
(* The signals that are not in the trace. *)

\* A subset of few is few.
LEMMA FewStay ==
    ASSUME UntracedFew, interrupts \in Nat, interrupts' = interrupts, Untraced' \subseteq Untraced
    PROVE  UntracedFew'
<1>1. IsFiniteSet(Untraced') /\ Cardinality(Untraced') <= Cardinality(Untraced)
    BY FS_Subset DEF UntracedFew
<1>2. Cardinality(Untraced) \in Nat /\ Cardinality(Untraced') \in Nat
    BY <1>1, FS_CardinalityType DEF UntracedFew
<1> QED
    BY <1>1, <1>2 DEF UntracedFew

LEMMA KnownStep ==
    ASSUME TypeOK, [Next]_vars
    PROVE  \/ Process /\ Known' = Known \cup {Len(heard) + 1}
           \/ React /\ Known' \subseteq Known \cup {Len(heard)}
           \/ ~Process /\ ~React /\ Known' \subseteq Known
<1>0. brain \in Brain /\ NoFile # Torn
    BY FilesAssumption DEF TypeOK
<1>1. CASE Start
    <2>1. brain'.res \subseteq Known /\ brain'.wts \subseteq Known
        BY <1>0, <1>1 DEF Start, Restored, RestoredReservoir, RestoredWeights, Loadable, Known, Saved, Stored
    <2>2. UNCHANGED <<checkpoint, npz>> /\ ~Process /\ ~React
        BY <1>1 DEF Start, disk, Process, React
    <2> QED
        BY <2>1, <2>2 DEF Known, Saved, Stored
<1>2. CASE Process
    <2>1. brain'.res = brain.res \cup {Len(heard) + 1} /\ brain'.wts = brain.wts /\ UNCHANGED <<checkpoint, npz>>
        BY <1>0, <1>2 DEF Process, Brain, disk
    <2> QED
        BY <1>2, <2>1 DEF Known, Saved, Stored
<1>3. CASE React
    <2>1. brain'.res = brain.res /\ UNCHANGED <<checkpoint, npz>>
        BY <1>0, <1>3 DEF React, Brain, disk
    <2>2. brain'.wts \subseteq brain.wts \cup {Len(heard)}
        BY <1>0, <1>3 DEF React, Brain
    <2> QED
        BY <1>3, <2>1, <2>2 DEF Known, Saved, Stored
<1>4. CASE Birth \/ BeginStep \/ Heartbeat \/ Prune
    <2>1. brain'.res = brain.res /\ brain'.wts = brain.wts /\ UNCHANGED <<checkpoint, npz>> /\ ~Process /\ ~React
        BY <1>0, <1>4 DEF Birth, BeginStep, Heartbeat, Beat, Prune, Brain, disk, Process, React
    <2> QED
        BY <2>1 DEF Known, Saved, Stored
<1>5. CASE SaveCheckpoint
    <2>1. /\ checkpoint'.res = brain.res /\ checkpoint'.wts = brain.wts
          /\ UNCHANGED <<brain, npz>> /\ ~Process /\ ~React
        BY <1>5 DEF SaveCheckpoint, Process, React
    <2> QED
        BY <2>1 DEF Known, Saved, Stored
<1>6. CASE OpenNpz \/ CloseNpz
    <2>1. /\ npz' = Torn \/ npz' = [res |-> brain.res]
          /\ UNCHANGED <<brain, checkpoint>> /\ ~Process /\ ~React
        BY <1>6 DEF OpenNpz, CloseNpz, Process, React
    <2>2. Stored' = Stored /\ brain'.res = brain.res /\ brain'.wts = brain.wts
        BY <2>1 DEF Stored
    <2>3. Saved' \subseteq Stored \cup brain.res
        <3>1. CASE npz' = Torn
            BY <2>2, <3>1 DEF Saved
        <3>2. CASE npz' = [res |-> brain.res]
            <4>1. npz'.res = brain.res
                BY <3>2
            <4> QED
                BY <2>2, <4>1 DEF Saved
        <3> QED
            BY <2>1, <3>1, <3>2
    <2>4. Known' \subseteq Known
        BY <2>2, <2>3 DEF Known, Saved
    <2> QED
        BY <2>1, <2>4
<1>7. CASE SaveFinalManifest \/ Crash
    <2>1. brain' = Blank /\ UNCHANGED <<checkpoint, npz>>
        BY <1>7 DEF SaveFinalManifest, Crash, disk
    <2>2. Blank.res = {} /\ Blank.wts = {}
        BY DEF Blank
    <2>3. Saved' = Saved
        BY <2>1 DEF Saved, Stored
    <2>4. Known' \subseteq Known
        BY <2>1, <2>2, <2>3 DEF Known
    <2>5. ~Process /\ ~React
        <3>1. pc' \in {"dead", "off"}
            BY <1>7 DEF SaveFinalManifest, Crash
        <3> QED
            BY <3>1 DEF Process, React
    <2> QED
        BY <2>4, <2>5
<1>8. CASE LogUnexpectedDeath \/ LogGap \/ MarkRunning \/ LogRestart \/ LogBirth \/ RecordSignal \/ LogCheckpoint
           \/ SaveSubstrateManifest \/ SaveCheckpointManifest \/ EndLoop \/ Interrupt \/ Die \/ Stop \/ UNCHANGED vars
    <2>1. UNCHANGED <<brain, checkpoint, npz>>
        BY <1>8 DEF LogUnexpectedDeath, LogGap, MarkRunning, LogRestart, LogBirth, RecordSignal, LogCheckpoint,
               SaveSubstrateManifest, SaveCheckpointManifest, EndLoop, Interrupt, Die, Stop, vars, disk, process
    <2>2. Known' = Known
        BY <2>1 DEF Known, Saved, Stored
    <2>3. CASE Process
        BY <1>2, <2>3
    <2>4. CASE React
        BY <1>3, <2>4
    <2> QED
        BY <2>2, <2>3, <2>4
<1> QED
    BY <1>1, <1>2, <1>3, <1>4, <1>5, <1>6, <1>7, <1>8 DEF Next, Run

LEMMA SavedSame ==
    ASSUME [Next]_vars, ~SaveCheckpoint, ~OpenNpz, ~CloseNpz
    PROVE  Saved' = Saved
<1>1. UNCHANGED <<checkpoint, npz>>
    BY DEF Next, Run, Start, LogUnexpectedDeath, LogGap, MarkRunning, Birth, LogRestart, LogBirth, BeginStep, Process,
           React, RecordSignal, Heartbeat, Prune, LogCheckpoint, SaveSubstrateManifest, SaveCheckpointManifest,
           EndLoop, Interrupt, Die, SaveFinalManifest, Stop, Crash, vars, disk
<1> QED
    BY <1>1 DEF Saved, Stored

LEMMA KnownHeardStep ==
    ASSUME TypeOK, SignalsHeard, KnownHeard, [Next]_vars
    PROVE  KnownHeard'
<1>0. Len(heard) \in Nat
    BY DEF TypeOK
<1>1. CASE Process
    <2>1. Len(heard') = Len(heard) + 1 /\ ~React /\ ~SaveCheckpoint /\ ~OpenNpz /\ ~CloseNpz
        BY <1>1 DEF Process, React, SaveCheckpoint, OpenNpz, CloseNpz, TypeOK
    <2>2. Known' = Known \cup {Len(heard) + 1} /\ Saved' = Saved
        BY <1>1, <2>1, KnownStep, SavedSame
    <2>3. Saved \subseteq Known
        BY DEF Known
    <2>4. /\ Len(heard) + 1 \notin 1..Len(heard)
          /\ Len(heard) + 1 \in 1..Len(heard') /\ 1..Len(heard) \subseteq 1..Len(heard')
        BY <1>0, <2>1
    <2>5. Known \subseteq 1..Len(heard)
        BY DEF KnownHeard
    <2>6. Known' \subseteq 1..Len(heard')
        BY <2>2, <2>4, <2>5
    <2>7. Len(heard') \notin Saved'
        BY <2>1, <2>2, <2>3, <2>4, <2>5
    <2> QED
        BY <2>6, <2>7 DEF KnownHeard
<1>2. CASE React
    <2>1. heard' = heard /\ pc = "react" /\ ~Process /\ ~SaveCheckpoint /\ ~OpenNpz /\ ~CloseNpz
        BY <1>2 DEF React, Process, SaveCheckpoint, OpenNpz, CloseNpz, history
    <2>2. Known' \subseteq Known \cup {Len(heard)} /\ Saved' = Saved
        BY <1>2, <2>1, KnownStep, SavedSame
    <2>3. Len(heard) \in 1..Len(heard)
        BY <1>0, <2>1 DEF SignalsHeard
    <2> QED
        BY <2>1, <2>2, <2>3 DEF KnownHeard
<1>3. CASE ~Process /\ ~React
    <2>1. Known' \subseteq Known /\ heard' = heard
        BY <1>3, KnownStep, HeardSame
    <2>2. pc' \in {"react", "record"} => pc \in {"react", "record"} /\ ~SaveCheckpoint /\ ~OpenNpz /\ ~CloseNpz
        BY <1>3 DEF Next, Run, Start, LogUnexpectedDeath, LogGap, MarkRunning, Birth, LogRestart, LogBirth, BeginStep,
               RecordSignal, Heartbeat, Prune, AfterCheckpoint, LogCheckpoint, SaveCheckpoint, OpenNpz, CloseNpz,
               SaveSubstrateManifest, SaveCheckpointManifest, EndLoop, Interrupt, Die, SaveFinalManifest, Stop,
               Crash, vars, process
    <2> QED
        BY <2>1, <2>2, SavedSame DEF KnownHeard
<1> QED
    BY <1>1, <1>2, <1>3

LEMMA UntracedStep ==
    ASSUME TypeOK, KnownHeard, UntracedFew, [Next]_vars
    PROVE  UntracedFew'
<1>0. interrupts \in Nat /\ Len(heard) \in Nat
    BY DEF TypeOK
<1>1. {r.signal : r \in trace} \subseteq {r.signal : r \in trace'}
    <2>1. trace \subseteq trace'
        BY TraceSame DEF RecordSignal
    <2> QED
        BY <2>1
<1>2. CASE Process
    <2>1. Len(heard') = Len(heard) + 1 /\ pc' = "react" /\ pc = "process" /\ ~Interrupt /\ ~React
        BY <1>2 DEF Process, Interrupt, InLoop, React, TypeOK
    <2>2. Known' = Known \cup {Len(heard')}
        BY <1>2, <2>1, KnownStep
    <2>3. Untraced' \subseteq Untraced
        BY <1>1, <2>1, <2>2 DEF Untraced, InHand
    <2> QED
        BY <1>0, <2>1, <2>3, FewStay, InterruptsSame
<1>3. CASE React
    <2>1. heard' = heard /\ pc = "react" /\ pc' = "record" /\ ~Interrupt /\ ~Process
        BY <1>3 DEF React, Interrupt, InLoop, Process, history
    <2>2. Known' \subseteq Known \cup {Len(heard)}
        BY <1>3, <2>1, KnownStep
    <2>3. Untraced' \subseteq Untraced
        BY <1>1, <2>1, <2>2 DEF Untraced, InHand
    <2> QED
        BY <1>0, <2>1, <2>3, FewStay, InterruptsSame
<1>4. CASE RecordSignal
    <2>1. Len(heard) \in {r.signal : r \in trace'}
        <3>1. [lifetime |-> Lifetime, signal |-> Len(heard)] \in trace'
            BY <1>4 DEF RecordSignal
        <3> QED
            BY <3>1
    <2>2. pc = "record" /\ pc' = "beat" /\ ~Interrupt /\ ~Process /\ ~React /\ interrupts' = interrupts
        BY <1>4 DEF RecordSignal, Interrupt, InLoop, Process, React, history
    <2>3. Known' \subseteq Known
        BY <2>2, KnownStep
    <2>4. Untraced' \subseteq Untraced
        BY <1>1, <2>1, <2>2, <2>3 DEF Untraced, InHand
    <2> QED
        BY <1>0, <2>2, <2>4, FewStay
<1>5. CASE Interrupt
    <2>1. pc' = "log_checkpoint" /\ interrupts' = interrupts + 1 /\ UNCHANGED disk /\ brain' = brain
        BY <1>5 DEF Interrupt
    <2>2. Known' = Known
        BY <2>1 DEF disk, Known, Saved, Stored
    <2>3. Untraced' \subseteq Untraced \cup {Len(heard)}
        BY <1>1, <2>1, <2>2 DEF Untraced, InHand
    <2>4. /\ IsFiniteSet(Untraced \cup {Len(heard)})
          /\ Cardinality(Untraced \cup {Len(heard)}) \in {Cardinality(Untraced), Cardinality(Untraced) + 1}
        BY FS_AddElement DEF UntracedFew
    <2>5. IsFiniteSet(Untraced') /\ Cardinality(Untraced') <= Cardinality(Untraced \cup {Len(heard)})
        BY <2>3, <2>4, FS_Subset
    <2>6. Cardinality(Untraced) \in Nat /\ Cardinality(Untraced') \in Nat
        BY <2>5, FS_CardinalityType DEF UntracedFew
    <2> QED
        BY <1>0, <2>1, <2>4, <2>5, <2>6 DEF UntracedFew
<1>6. CASE ~(Process \/ React \/ RecordSignal \/ Interrupt)
    <2>1. Known' \subseteq Known
        BY <1>6, KnownStep
    <2>2. heard' = heard /\ interrupts' = interrupts
        BY <1>6, HeardSame, InterruptsSame
    <2>3. InHand \subseteq InHand' \/ Crash
        BY <1>6, <2>2 DEF Next, Run, Start, LogUnexpectedDeath, LogGap, MarkRunning, Birth, LogRestart, LogBirth,
               BeginStep, Heartbeat, Prune, LogCheckpoint, SaveCheckpoint, OpenNpz, CloseNpz, SaveSubstrateManifest,
               SaveCheckpointManifest, EndLoop, Die, SaveFinalManifest, Stop, Crash, vars, process, InHand
    <2>4. CASE InHand \subseteq InHand'
        <3>1. Untraced' \subseteq Untraced
            BY <1>1, <2>1, <2>4 DEF Untraced
        <3> QED
            BY <1>0, <2>2, <3>1, FewStay
    <2>5. CASE Crash
        <3>1. Known' = Saved
            BY <2>5 DEF Crash, Blank, disk, Known, Saved, Stored
        <3>2. Untraced' \subseteq Untraced
            BY <1>1, <3>1 DEF Untraced, Known, KnownHeard, InHand
        <3> QED
            BY <1>0, <2>2, <3>2, FewStay
    <2> QED
        BY <2>3, <2>4, <2>5
<1> QED
    BY <1>2, <1>3, <1>4, <1>5, <1>6

-----------------------------------------------------------------------------
(* The theorems. *)

CostInv ==
    /\ SignalsSaved /\ HeartbeatKnown /\ RestStill /\ Credited
    /\ Traced /\ RelivedOnlyAfterLoss /\ KnownHeard /\ UntracedFew

LEMMA CostInit == Init => CostInv
<1> SUFFICES ASSUME Init PROVE CostInv
    OBVIOUS
<1>1. pc = "off" /\ manifest = NoFile /\ checkpoint = NoFile /\ npz = NoFile /\ trace = {} /\ heard = <<>>
      /\ log = {} /\ interrupts = 0 /\ brain = Blank
    BY DEF Init
<1>2. pc \notin Live /\ pc \notin Marked
    BY <1>1 DEF Live, Marked
<1>3. SignalsSaved /\ HeartbeatKnown /\ RestStill /\ Credited
    BY <1>1, <1>2 DEF SignalsSaved, HeartbeatKnown, RestStill, Credited, LifetimeNeverOverstates, Live
<1>4. Traced /\ RelivedOnlyAfterLoss
    BY <1>1, <1>2 DEF Traced, SignalsHeard, StepsTraced, TracedOnce, GoneSaved, Deaths, Gone, Rows, RelivedOnlyAfterLoss
<1>5. Known = {}
    <2>1. Stored = {} /\ Saved = {}
        BY <1>1 DEF Stored, Saved
    <2>2. Blank.res = {} /\ Blank.wts = {}
        BY DEF Blank
    <2> QED
        BY <1>1, <2>1, <2>2 DEF Known
<1>6. Untraced = {}
    BY <1>5 DEF Untraced
<1>7. KnownHeard /\ UntracedFew
    BY <1>1, <1>5, <1>6, FS_EmptySet DEF KnownHeard, UntracedFew
<1> QED
    BY <1>3, <1>4, <1>7 DEF CostInv

LEMMA CostStep == IInv /\ IInv' /\ CostInv /\ [Next]_vars => CostInv'
<1> SUFFICES ASSUME IInv, IInv', CostInv, [Next]_vars PROVE CostInv'
    OBVIOUS
<1>1. TypeOK /\ TypeOK' /\ Identity /\ Progress /\ Progress' /\ Remembered
    BY DEF IInv
<1>2. SignalsSaved' /\ HeartbeatKnown' /\ RestStill' /\ Credited'
    BY <1>1, SignalsSavedStep, HeartbeatStep, RestStillStep, CreditedStep DEF CostInv
<1>3. SignalsHeard' /\ StepsTraced' /\ TracedOnce' /\ GoneSaved' /\ RelivedOnlyAfterLoss'
    BY <1>1, SignalsStep, StepsTracedStep, TracedOnceStep, GoneSavedStep, RelivedStep DEF CostInv, Traced
<1>4. KnownHeard' /\ UntracedFew'
    BY <1>1, KnownHeardStep, UntracedStep DEF CostInv, Traced
<1> QED
    BY <1>2, <1>3, <1>4 DEF CostInv, Traced

\* What every reachable state satisfies, beside IInv.
THEOREM CostInvariance == Spec => []CostInv
BY CostInit, CostStep, Invariance, PTL DEF Spec

\* A crash costs the next session at most the last Interval signals, in reservoir and weights.
THEOREM LossIsBounded == Spec => []LossBounded
<1>1. IInv /\ CostInv => LossBounded
    BY LossFromSignals DEF IInv, CostInv
<1> QED
    BY <1>1, Invariance, CostInvariance, PTL

\* After a graceful shutdown the gap is measured from the last heartbeat ever beaten.
THEOREM GapIsExactAfterRest == Spec => []GapExactAfterRest
<1>1. IInv /\ CostInv => GapExactAfterRest
    BY DEF IInv, Identity, CostInv, RestStill, GapExactAfterRest
<1> QED
    BY <1>1, Invariance, CostInvariance, PTL

\* No more lifetime is credited than was lived, but one step for each Ctrl-C.
THEOREM LifetimeHonest == Spec => []LifetimeNeverOverstates
<1>1. CostInv => LifetimeNeverOverstates
    BY DEF CostInv, Credited
<1> QED
    BY <1>1, CostInvariance, PTL

\* Only what a crash took is ever relived.
THEOREM RelivedAfterLoss == Spec => []RelivedOnlyAfterLoss
<1>1. CostInv => RelivedOnlyAfterLoss
    BY DEF CostInv
<1> QED
    BY <1>1, CostInvariance, PTL

\* The trace misses no stored signal, but one for each Ctrl-C.
THEOREM StoredTraced == Spec => []StoredSignalsTraced
<1>1. IInv /\ CostInv => StoredSignalsTraced
    <2> SUFFICES ASSUME IInv, CostInv
                 PROVE  Cardinality(Stored \ {r.signal : r \in trace}) <= interrupts
        BY DEF StoredSignalsTraced
    <2>1. Stored \ {r.signal : r \in trace} \subseteq Untraced
        BY DEF CostInv, KnownHeard, Untraced, Known, Saved, InHand
    <2>2. /\ IsFiniteSet(Stored \ {r.signal : r \in trace})
          /\ Cardinality(Stored \ {r.signal : r \in trace}) <= Cardinality(Untraced)
        BY <2>1, FS_Subset DEF CostInv, UntracedFew
    <2>3. Cardinality(Stored \ {r.signal : r \in trace}) \in Nat /\ Cardinality(Untraced) \in Nat /\ interrupts \in Nat
        BY <2>2, FS_CardinalityType DEF CostInv, UntracedFew, IInv, TypeOK
    <2> QED
        BY <2>2, <2>3 DEF CostInv, UntracedFew
<1> QED
    BY <1>1, Invariance, CostInvariance, PTL
=============================================================================
