----------------------- MODULE ContinuousRunnerProofs -----------------------
(***************************************************************************)
(* Proofs about ContinuousRunner, for all values of its constants.         *)
(***************************************************************************)
EXTENDS ContinuousRunner, TLAPS

Archived == npz \notin {NoFile, Torn}

\* Where the checkpoint in progress has saved the JSON, the archive's manifest, everything.
JsonSaved == pc \in {"open_npz", "close_npz", "save_substrate_manifest", "save_manifest",
                     "die", "save_final_manifest"}
NpzSaved == pc \in {"save_substrate_manifest", "save_manifest", "die", "save_final_manifest"}
ArchiveSaved == pc \in {"save_manifest", "die", "save_final_manifest"}
AllSaved == pc \in {"die", "save_final_manifest"}

\* Who the manifest speaks of, and what the session took over from it.
Identity ==
    /\ manifest # NoFile => manifest.session <= session
    /\ pc \in {"log_death", "log_gap"} => manifest # NoFile
    /\ pc \in InitPoints =>
        /\ brain.step = 0
        /\ manifest = NoFile => brain.base = 0
        /\ manifest # NoFile =>
            /\ manifest.session < session
            /\ brain.run = manifest.run
            /\ brain.base = manifest.lifetime
            /\ brain.restarts = manifest.restarts + 1
    /\ pc \in Marked =>
        /\ manifest # NoFile
        /\ manifest.session = session
        /\ ~manifest.graceful
        /\ manifest.run = brain.run
        /\ manifest.restarts = brain.restarts
        /\ manifest.lifetime <= Lifetime
    /\ \A r \in log : r.session <= session

\* How far the checkpoint in progress has come.
Progress ==
    /\ JsonSaved =>
        /\ checkpoint # NoFile
        /\ checkpoint.session = session
        /\ checkpoint.lifetime = Lifetime
        /\ checkpoint.res = brain.res
        /\ checkpoint.prunings = brain.prunings
    /\ NpzSaved => npz = [res |-> brain.res]
    /\ ArchiveSaved => substrateManifest = Lifetime
    /\ AllSaved => manifest.lifetime = Lifetime /\ reason = "final"
    /\ pc \in Live /\ Archived => npz.res \subseteq brain.res

\* What the session took in is in memory.
Remembered ==
    /\ \A i \in 1..Len(heard) : heard[i] <= session
    /\ pc \in Live =>
        /\ HeardBy(session) \subseteq brain.res
        /\ PrunedBy(session) \subseteq brain.prunings

\* Who has been reported dead, and how.
Accounted(a, s) ==
    \/ \E r \in Rows("graceful_death") : r.session = a.session
    \/ \E r \in Rows("unexpected_death_detected") : a.session < r.session /\ r.session <= s

BirthsAccounted ==
    \A a \in Rows("birth") :
        /\ manifest # NoFile
        /\ a.session <= manifest.session
        /\ a.session < manifest.session => Accounted(a, manifest.session)

RestOnRecord ==
    (manifest # NoFile /\ manifest.graceful) \/ pc = "save_final_manifest" =>
        \E r \in Rows("graceful_death") : r.session = manifest.session

LossOnRecord ==
    /\ pc = "log_death" => ~manifest.graceful
    /\ pc \in {"log_gap", "mark_running"} /\ manifest # NoFile /\ ~manifest.graceful =>
        \E r \in Rows("unexpected_death_detected") : r.session = session

Accounts == BirthsAccounted /\ RestOnRecord /\ LossOnRecord

IInv ==
    /\ TypeOK
    /\ Identity
    /\ OneIdentity
    /\ ManifestNeverAhead
    /\ ArchiveNeverAhead
    /\ Progress
    /\ Remembered
    /\ CleanShutdownKeepsEverything
    /\ Accounts
    /\ NoSilentDeath

-----------------------------------------------------------------------------
(* Types. *)

USE DEF Events, InitPoints, BirthPoints, StepPoints, CheckpointPoints, DeathPoints

\* What a start rebuilds from well-typed files is a well-typed session.
LEMMA RestoredType ==
    ASSUME TypeOK, Loadable
    PROVE  Restored \in Brain
<1>1. RestoredReservoir \in SUBSET Nat
    BY DEF TypeOK, Loadable, RestoredReservoir, Archive, Checkpoint
<1>2. manifest # NoFile => manifest \in Manifest
    BY DEF TypeOK
<1>3. checkpoint # NoFile => checkpoint \in Checkpoint
    BY DEF TypeOK
<1>4. session \in Nat
    BY DEF TypeOK
<1> QED
    BY <1>1, <1>2, <1>3, <1>4 DEF Restored, RestoredWeights, Brain, Manifest, Checkpoint

\* What the types of the session and of its counters are.
LEMMA BrainType == TypeOK => brain \in Brain /\ clock \in Nat /\ Len(heard) \in Nat
    BY DEF TypeOK

\* The lifetime of a session is a number.
LEMMA LifetimeType == TypeOK => Lifetime \in Nat
    BY DEF TypeOK, Lifetime, Brain

\* A row of a known event, appended, leaves a well-typed continuity log.
LEMMA LogType ==
    ASSUME TypeOK, NEW event \in Events, NEW lifetime \in Nat, Log(event, lifetime)
    PROVE  log' \in SUBSET Row
    BY DEF TypeOK, Log, LogRow, Row, Brain

\* What _save_manifest writes is a manifest.
LEMMA SaveManifestType ==
    ASSUME TypeOK, NEW graceful \in BOOLEAN, SaveManifest(graceful)
    PROVE  manifest' \in Manifest
    BY LifetimeType DEF TypeOK, SaveManifest, Manifest, Brain

\* Type correctness, for every schedule of checkpoints, crashes, interrupts and restarts.
THEOREM TypeCorrect == Spec => []TypeOK
<1>1. Init => TypeOK
  <2> SUFFICES ASSUME Init
               PROVE  TypeOK
    OBVIOUS
  <2>1. brain \in Brain
    BY DEF Init, Blank, Brain
  <2>2. heard \in Seq(Nat)
    BY DEF Init
  <2> QED
    BY <2>1, <2>2 DEF Init, TypeOK
<1>2. TypeOK /\ [Next]_vars => TypeOK'
  <2> SUFFICES ASSUME TypeOK, [Next]_vars
               PROVE  TypeOK'
    OBVIOUS
  <2>1. CASE Start
    <3>1. brain' \in Brain
      BY <2>1, RestoredType DEF Start
    <3>2. pc' \in Live
      BY <2>1 DEF Start, Live
    <3>3. session' \in Nat
      BY <2>1 DEF Start, TypeOK
    <3>4. UNCHANGED <<disk, clock, heard, interrupts>> /\ reason' = "interval" /\ stop' = FALSE
      BY <2>1 DEF Start
    <3> QED
      BY <3>1, <3>2, <3>3, <3>4 DEF TypeOK, disk
  <2>2. CASE LogUnexpectedDeath
    BY <2>2, LogType DEF LogUnexpectedDeath, TypeOK, history, Live, Brain
  <2>3. CASE LogGap
    BY <2>3, LogType DEF LogGap, TypeOK, history, Live, Brain
  <2>4. CASE MarkRunning
    BY <2>4, SaveManifestType DEF MarkRunning, TypeOK, history, Live
  <2>5. CASE Birth
    <3>1. brain' \in Brain
      BY SMTT(30), <2>5, BrainType DEF Birth, Beat, Brain
    <3> QED
      BY <2>5, <3>1 DEF Birth, Beat, TypeOK, disk, Live
  <2>6. CASE LogRestart
    BY <2>6, LogType DEF LogRestart, TypeOK, history, Live, Brain
  <2>7. CASE LogBirth
    BY <2>7, LogType DEF LogBirth, TypeOK, history, Live, Brain
  <2>8. CASE BeginStep
    <3>1. brain' \in Brain
      BY SMTT(30), <2>8, BrainType DEF BeginStep, Brain
    <3> QED
      BY <2>8, <3>1 DEF BeginStep, TypeOK, disk, history, Live
  <2>9. CASE Process
    <3>1. [brain EXCEPT !.steps = @ + 1] \in Brain
      BY SMTT(30), BrainType DEF Brain
    <3>2. brain.res \cup {Len(heard) + 1} \in SUBSET Nat
      BY BrainType DEF Brain
    <3>3. brain' \in Brain
      BY <2>9, <3>1, <3>2 DEF Process, Brain
    <3>4. heard' \in Seq(Nat)
      BY <2>9 DEF Process, TypeOK
    <3> QED
      BY <2>9, <3>3, <3>4 DEF Process, TypeOK, disk, Live
  <2>10. CASE React
    <3>1. brain' \in Brain
      BY SMTT(30), <2>10, BrainType DEF React, Brain
    <3> QED
      BY <2>10, <3>1 DEF React, TypeOK, disk, history, Live
  <2>11. CASE RecordSignal
    BY <2>11, LifetimeType DEF RecordSignal, TypeOK, history, Live, TraceRow
  <2>12. CASE Heartbeat
    <3>1. brain' \in Brain
      BY SMTT(30), <2>12, BrainType DEF Heartbeat, Beat, Brain
    <3> QED
      BY <2>12, <3>1 DEF Heartbeat, Beat, TypeOK, AfterCheckpoint, disk, Live
  <2>13. CASE Prune
    <3>1. session \in Nat /\ Lifetime \in Nat
      BY LifetimeType DEF TypeOK
    <3>2. brain' \in Brain
      BY SMTT(30), <2>13, <3>1, BrainType DEF Prune, Brain, Pruning
    <3>3. log' \in SUBSET Row
      BY <2>13, <3>1, LogType DEF Prune
    <3> QED
      BY <2>13, <3>2, <3>3 DEF Prune, TypeOK, history, Live
  <2>14. CASE LogCheckpoint
    BY <2>14, LogType, LifetimeType DEF LogCheckpoint, TypeOK, history, Live
  <2>15. CASE SaveCheckpoint
    BY <2>15, LifetimeType DEF SaveCheckpoint, TypeOK, history, Live, Brain, Checkpoint
  <2>16. CASE OpenNpz
    BY <2>16 DEF OpenNpz, TypeOK, history, Live
  <2>17. CASE CloseNpz
    BY <2>17 DEF CloseNpz, TypeOK, history, Live, Brain, Archive
  <2>18. CASE SaveSubstrateManifest
    BY <2>18, LifetimeType DEF SaveSubstrateManifest, TypeOK, history, Live
  <2>19. CASE SaveCheckpointManifest
    BY <2>19, SaveManifestType DEF SaveCheckpointManifest, AfterCheckpoint, TypeOK, history, Live
  <2>20. CASE EndLoop
    BY <2>20 DEF EndLoop, TypeOK, disk, history, Live
  <2>21. CASE Interrupt
    BY <2>21 DEF Interrupt, TypeOK, disk, Live
  <2>22. CASE Die
    BY <2>22, LogType, LifetimeType DEF Die, TypeOK, history, Live
  <2>23. CASE SaveFinalManifest
    BY <2>23, SaveManifestType DEF SaveFinalManifest, Blank, TypeOK, history, Live, Brain
  <2>24. CASE Stop
    BY <2>24 DEF Stop, TypeOK, disk, history
  <2>25. CASE Crash
    BY <2>25 DEF Crash, Blank, TypeOK, disk, history, Brain
  <2>26. CASE UNCHANGED vars
    BY <2>26 DEF vars, disk, process, history, TypeOK
  <2> QED
    BY <2>1, <2>2, <2>3, <2>4, <2>5, <2>6, <2>7, <2>8, <2>9, <2>10, <2>11, <2>12, <2>13, <2>14,
       <2>15, <2>16, <2>17, <2>18, <2>19, <2>20, <2>21, <2>22, <2>23, <2>24, <2>25, <2>26
       DEF Next, Run
<1> QED
    BY <1>1, <1>2, PTL DEF Spec

-----------------------------------------------------------------------------
(* The parts of the inductive invariant, one lemma each. *)

\* The manifest and the session agree on who is running, across starts, saves and crashes.
LEMMA IdentityStep ==
    ASSUME TypeOK, TypeOK', Identity, [Next]_vars
    PROVE  Identity'
<1>1. CASE Start
  <2>1. brain' = Restored /\ session' = session + 1 /\ UNCHANGED disk
    BY <1>1 DEF Start
  <2>2. pc' \in InitPoints /\ (manifest = NoFile => pc' = "mark_running")
    BY <1>1 DEF Start
  <2>3. manifest # NoFile => manifest.session < session'
    BY <2>1 DEF Identity, TypeOK, Manifest
  <2>4. \A r \in log' : r.session <= session'
    BY <2>1 DEF Identity, TypeOK, Row, disk
  <2>5. brain'.step = 0 /\ (manifest = NoFile => brain'.base = 0)
    BY <2>1 DEF Restored
  <2>6. manifest # NoFile =>
            /\ brain'.run = manifest.run
            /\ brain'.base = manifest.lifetime
            /\ brain'.restarts = manifest.restarts + 1
    BY <2>1 DEF Restored
  <2> QED
    BY <2>1, <2>2, <2>3, <2>4, <2>5, <2>6
       DEF Identity, disk, TypeOK, Marked, Live, Manifest
<1>2. CASE LogUnexpectedDeath
    BY SMTT(30), <1>2, FilesAssumption DEF LogUnexpectedDeath, Log, LogRow, disk, history, TypeOK, Identity, Lifetime, Live, Marked, Brain, Manifest, Row
<1>3. CASE LogGap
    BY SMTT(30), <1>3, FilesAssumption DEF LogGap, Log, LogRow, disk, history, TypeOK, Identity, Lifetime, Live, Marked, Brain, Manifest, Row
<1>4. CASE MarkRunning
  <2>1. pc' \in Marked /\ brain' = brain /\ session' = session /\ log' = log
    BY <1>4 DEF MarkRunning, Marked, Live, history
  <2>2. Lifetime' = Lifetime
    BY <2>1 DEF Lifetime
  <2>3. /\ manifest'.session = session
        /\ manifest'.graceful = FALSE
        /\ manifest'.run = brain.run
        /\ manifest'.restarts = brain.restarts
        /\ manifest'.lifetime = Lifetime
    BY <1>4 DEF MarkRunning, SaveManifest
  <2>4. manifest' # NoFile
    BY <1>4, SaveManifestType, FilesAssumption DEF MarkRunning
  <2>5. session \in Nat /\ Lifetime \in Nat
    BY LifetimeType DEF TypeOK
  <2> QED
    BY <2>1, <2>2, <2>3, <2>4, <2>5 DEF Identity, Marked
<1>5. CASE Birth
    BY <1>5, FilesAssumption DEF Birth, Beat, disk, history, TypeOK, Identity, Lifetime, Live, Marked, Brain, Manifest, Row
<1>6. CASE LogRestart
    BY SMTT(30), <1>6, FilesAssumption DEF LogRestart, Log, LogRow, disk, history, TypeOK, Identity, Lifetime, Live, Marked, Brain, Manifest, Row
<1>7. CASE LogBirth
    BY SMTT(30), <1>7, FilesAssumption DEF LogBirth, Log, LogRow, disk, history, TypeOK, Identity, Lifetime, Live, Marked, Brain, Manifest, Row
<1>8. CASE BeginStep
  <2>1. pc' = "process" /\ pc \in Marked /\ UNCHANGED <<disk, history>>
    BY <1>8 DEF BeginStep, Marked, Live
  <2>2. brain'.base = brain.base /\ brain'.run = brain.run /\ brain'.restarts = brain.restarts
    BY <1>8, BrainType DEF BeginStep, Brain
  <2>3. Lifetime \in Nat /\ Lifetime' \in Nat /\ Lifetime <= Lifetime'
    BY <1>8, BrainType DEF BeginStep, Lifetime, Brain
  <2>4. manifest.lifetime \in Nat
    BY <2>1 DEF Identity, TypeOK, Manifest
  <2> QED
    BY <2>1, <2>2, <2>3, <2>4 DEF Identity, disk, history
<1>9. CASE Process
    BY <1>9, FilesAssumption DEF Process, disk, history, TypeOK, Identity, Lifetime, Live, Marked, Brain, Manifest, Row
<1>10. CASE React
    BY <1>10, FilesAssumption DEF React, disk, history, TypeOK, Identity, Lifetime, Live, Marked, Brain, Manifest, Row
<1>11. CASE RecordSignal
    BY <1>11, FilesAssumption DEF RecordSignal, disk, history, TypeOK, Identity, Lifetime, Live, Marked, Brain, Manifest, Row
<1>12. CASE Heartbeat
    BY <1>12, FilesAssumption DEF Heartbeat, Beat, AfterCheckpoint, disk, history, TypeOK, Identity, Lifetime, Live, Marked, Brain, Manifest, Row
<1>13. CASE Prune
  <2>1. pc' = "loop" /\ pc \in Marked /\ manifest' = manifest /\ session' = session
    BY <1>13 DEF Prune, Marked, Live, history
  <2>2. brain'.base = brain.base /\ brain'.run = brain.run /\ brain'.restarts = brain.restarts
    BY <1>13, BrainType DEF Prune, Brain
  <2>3. Lifetime' = Lifetime
    BY <1>13, BrainType DEF Prune, Lifetime, Brain
  <2>4. \A r \in log' : r.session <= session
    BY <1>13 DEF Prune, Log, LogRow, Identity, TypeOK
  <2> QED
    BY <2>1, <2>2, <2>3, <2>4 DEF Identity
<1>14. CASE LogCheckpoint
    BY SMTT(30), <1>14, FilesAssumption DEF LogCheckpoint, Log, LogRow, disk, history, TypeOK, Identity, Lifetime, Live, Marked, Brain, Manifest, Row
<1>15. CASE SaveCheckpoint
    BY <1>15, FilesAssumption DEF SaveCheckpoint, disk, history, TypeOK, Identity, Lifetime, Live, Marked, Brain, Manifest, Row
<1>16. CASE OpenNpz
    BY <1>16, FilesAssumption DEF OpenNpz, disk, history, TypeOK, Identity, Lifetime, Live, Marked, Brain, Manifest, Row
<1>17. CASE CloseNpz
    BY <1>17, FilesAssumption DEF CloseNpz, disk, history, TypeOK, Identity, Lifetime, Live, Marked, Brain, Manifest, Row
<1>18. CASE SaveSubstrateManifest
    BY <1>18, FilesAssumption DEF SaveSubstrateManifest, disk, history, TypeOK, Identity, Lifetime, Live, Marked, Brain, Manifest, Row
<1>19. CASE SaveCheckpointManifest
  <2>1. pc' \in Marked /\ brain' = brain /\ session' = session /\ log' = log
    BY <1>19 DEF SaveCheckpointManifest, AfterCheckpoint, Marked, Live, history
  <2>2. Lifetime' = Lifetime
    BY <2>1 DEF Lifetime
  <2>3. /\ manifest'.session = session
        /\ manifest'.graceful = FALSE
        /\ manifest'.run = brain.run
        /\ manifest'.restarts = brain.restarts
        /\ manifest'.lifetime = Lifetime
    BY <1>19 DEF SaveCheckpointManifest, SaveManifest
  <2>4. manifest' # NoFile
    BY <1>19, SaveManifestType, FilesAssumption DEF SaveCheckpointManifest
  <2>5. session \in Nat /\ Lifetime \in Nat
    BY LifetimeType DEF TypeOK
  <2> QED
    BY <2>1, <2>2, <2>3, <2>4, <2>5 DEF Identity, Marked
<1>20. CASE EndLoop
    BY <1>20, FilesAssumption DEF EndLoop, disk, history, TypeOK, Identity, Lifetime, Live, Marked, Brain, Manifest, Row
<1>21. CASE Interrupt
    BY <1>21, FilesAssumption DEF Interrupt, InLoop, disk, history, TypeOK, Identity, Lifetime, Live, Marked, Brain, Manifest, Row
<1>22. CASE Die
    BY SMTT(30), <1>22, FilesAssumption DEF Die, Log, LogRow, disk, history, TypeOK, Identity, Lifetime, Live, Marked, Brain, Manifest, Row
<1>23. CASE SaveFinalManifest
    BY <1>23, FilesAssumption DEF SaveFinalManifest, SaveManifest, Blank, disk, history, TypeOK, Identity, Lifetime, Live, Marked, Brain, Manifest, Row
<1>24. CASE Stop
    BY <1>24, FilesAssumption DEF Stop, disk, history, TypeOK, Identity, Lifetime, Live, Marked, Brain, Manifest, Row
<1>25. CASE Crash
    BY <1>25, FilesAssumption DEF Crash, Blank, disk, history, TypeOK, Identity, Lifetime, Live, Marked, Brain, Manifest, Row
<1>26. CASE UNCHANGED vars
    BY <1>26, FilesAssumption DEF vars, disk, process, history, TypeOK, Identity, Lifetime, Live, Marked, Brain, Manifest, Row
<1> QED
    BY <1>1, <1>2, <1>3, <1>4, <1>5, <1>6, <1>7, <1>8, <1>9, <1>10, <1>11, <1>12, <1>13,
       <1>14, <1>15, <1>16, <1>17, <1>18, <1>19, <1>20, <1>21, <1>22, <1>23, <1>24,
       <1>25, <1>26
       DEF Next, Run

\* Rows are stamped with the run id that the first manifest holds before the first row is.
LEMMA OneIdentityStep ==
    ASSUME TypeOK, TypeOK', Identity, OneIdentity, [Next]_vars
    PROVE  OneIdentity'
<1>1. CASE Start
    BY <1>1, FilesAssumption DEF Start, Restored, disk, history, TypeOK, Identity, OneIdentity, Live, Marked
<1>2. CASE LogUnexpectedDeath
    BY <1>2, FilesAssumption DEF LogUnexpectedDeath, Log, LogRow, disk, history, TypeOK, Identity, OneIdentity, Live, Marked
<1>3. CASE LogGap
    BY <1>3, FilesAssumption DEF LogGap, Log, LogRow, disk, history, TypeOK, Identity, OneIdentity, Live, Marked
<1>4. CASE MarkRunning
  <2>1. manifest' \in Manifest /\ manifest'.run = brain.run /\ log' = log
    BY <1>4, SaveManifestType DEF MarkRunning, SaveManifest
  <2>2. manifest' # NoFile
    BY <2>1, FilesAssumption
  <2>3. \A r \in log : r.run = brain.run
    BY <1>4 DEF MarkRunning, Identity, OneIdentity, Marked, Live
  <2> QED
    BY <2>1, <2>2, <2>3 DEF OneIdentity
<1>5. CASE Birth
    BY <1>5, FilesAssumption DEF Birth, Beat, disk, history, TypeOK, Identity, OneIdentity, Live, Marked
<1>6. CASE LogRestart
    BY <1>6, FilesAssumption DEF LogRestart, Log, LogRow, disk, history, TypeOK, Identity, OneIdentity, Live, Marked
<1>7. CASE LogBirth
    BY <1>7, FilesAssumption DEF LogBirth, Log, LogRow, disk, history, TypeOK, Identity, OneIdentity, Live, Marked
<1>8. CASE BeginStep
    BY <1>8, FilesAssumption DEF BeginStep, disk, history, TypeOK, Identity, OneIdentity, Live, Marked
<1>9. CASE Process
    BY <1>9, FilesAssumption DEF Process, disk, history, TypeOK, Identity, OneIdentity, Live, Marked
<1>10. CASE React
    BY <1>10, FilesAssumption DEF React, disk, history, TypeOK, Identity, OneIdentity, Live, Marked
<1>11. CASE RecordSignal
    BY <1>11, FilesAssumption DEF RecordSignal, disk, history, TypeOK, Identity, OneIdentity, Live, Marked
<1>12. CASE Heartbeat
    BY <1>12, FilesAssumption DEF Heartbeat, Beat, AfterCheckpoint, disk, history, TypeOK, Identity, OneIdentity, Live, Marked
<1>13. CASE Prune
    BY <1>13, FilesAssumption DEF Prune, Log, LogRow, disk, history, TypeOK, Identity, OneIdentity, Live, Marked
<1>14. CASE LogCheckpoint
    BY <1>14, FilesAssumption DEF LogCheckpoint, Log, LogRow, disk, history, TypeOK, Identity, OneIdentity, Live, Marked
<1>15. CASE SaveCheckpoint
    BY <1>15, FilesAssumption DEF SaveCheckpoint, disk, history, TypeOK, Identity, OneIdentity, Live, Marked
<1>16. CASE OpenNpz
    BY <1>16, FilesAssumption DEF OpenNpz, disk, history, TypeOK, Identity, OneIdentity, Live, Marked
<1>17. CASE CloseNpz
    BY <1>17, FilesAssumption DEF CloseNpz, disk, history, TypeOK, Identity, OneIdentity, Live, Marked
<1>18. CASE SaveSubstrateManifest
    BY <1>18, FilesAssumption DEF SaveSubstrateManifest, disk, history, TypeOK, Identity, OneIdentity, Live, Marked
<1>19. CASE SaveCheckpointManifest
  <2>1. manifest' \in Manifest /\ manifest'.run = brain.run /\ log' = log
    BY <1>19, SaveManifestType DEF SaveCheckpointManifest, SaveManifest
  <2>2. manifest' # NoFile
    BY <2>1, FilesAssumption
  <2>3. \A r \in log : r.run = brain.run
    BY <1>19 DEF SaveCheckpointManifest, Identity, OneIdentity, Marked, Live
  <2> QED
    BY <2>1, <2>2, <2>3 DEF OneIdentity
<1>20. CASE EndLoop
    BY <1>20, FilesAssumption DEF EndLoop, disk, history, TypeOK, Identity, OneIdentity, Live, Marked
<1>21. CASE Interrupt
    BY <1>21, FilesAssumption DEF Interrupt, InLoop, disk, history, TypeOK, Identity, OneIdentity, Live, Marked
<1>22. CASE Die
    BY <1>22, FilesAssumption DEF Die, Log, LogRow, disk, history, TypeOK, Identity, OneIdentity, Live, Marked
<1>23. CASE SaveFinalManifest
  <2>1. manifest' \in Manifest /\ manifest'.run = brain.run /\ log' = log
    BY <1>23, SaveManifestType DEF SaveFinalManifest, SaveManifest
  <2>2. manifest' # NoFile
    BY <2>1, FilesAssumption
  <2>3. \A r \in log : r.run = brain.run
    BY <1>23 DEF SaveFinalManifest, Identity, OneIdentity, Marked, Live
  <2> QED
    BY <2>1, <2>2, <2>3 DEF OneIdentity
<1>24. CASE Stop
    BY <1>24, FilesAssumption DEF Stop, disk, history, TypeOK, Identity, OneIdentity, Live, Marked
<1>25. CASE Crash
    BY <1>25, FilesAssumption DEF Crash, Blank, disk, history, TypeOK, Identity, OneIdentity, Live, Marked
<1>26. CASE UNCHANGED vars
    BY <1>26, FilesAssumption DEF vars, disk, process, history, TypeOK, Identity, OneIdentity, Live, Marked
<1> QED
    BY <1>1, <1>2, <1>3, <1>4, <1>5, <1>6, <1>7, <1>8, <1>9, <1>10, <1>11, <1>12, <1>13,
       <1>14, <1>15, <1>16, <1>17, <1>18, <1>19, <1>20, <1>21, <1>22, <1>23, <1>24,
       <1>25, <1>26
       DEF Next, Run

\* The manifest is written after the files it counts on, and later sessions only go up from it.
LEMMA OrderStep ==
    ASSUME TypeOK, TypeOK', Identity, Progress, ManifestNeverAhead, [Next]_vars
    PROVE  ManifestNeverAhead'
<1>1. CASE Start
    BY <1>1, FilesAssumption DEF Start, Restored, disk, history, TypeOK, Identity, Progress, JsonSaved, NpzSaved, ArchiveSaved, AllSaved, ManifestNeverAhead, Lifetime, Live, Marked, Brain, Manifest, Checkpoint
<1>2. CASE LogUnexpectedDeath
    BY <1>2, FilesAssumption DEF LogUnexpectedDeath, Log, LogRow, disk, history, TypeOK, Identity, Progress, JsonSaved, NpzSaved, ArchiveSaved, AllSaved, ManifestNeverAhead, Lifetime, Live, Marked, Brain, Manifest, Checkpoint
<1>3. CASE LogGap
    BY <1>3, FilesAssumption DEF LogGap, Log, LogRow, disk, history, TypeOK, Identity, Progress, JsonSaved, NpzSaved, ArchiveSaved, AllSaved, ManifestNeverAhead, Lifetime, Live, Marked, Brain, Manifest, Checkpoint
<1>4. CASE MarkRunning
    BY SMTT(30), <1>4, FilesAssumption DEF MarkRunning, SaveManifest, disk, history, TypeOK, Identity, Progress, JsonSaved, NpzSaved, ArchiveSaved, AllSaved, ManifestNeverAhead, Lifetime, Live, Marked, Brain, Manifest, Checkpoint
<1>5. CASE Birth
    BY <1>5, FilesAssumption DEF Birth, Beat, disk, history, TypeOK, Identity, Progress, JsonSaved, NpzSaved, ArchiveSaved, AllSaved, ManifestNeverAhead, Lifetime, Live, Marked, Brain, Manifest, Checkpoint
<1>6. CASE LogRestart
    BY <1>6, FilesAssumption DEF LogRestart, Log, LogRow, disk, history, TypeOK, Identity, Progress, JsonSaved, NpzSaved, ArchiveSaved, AllSaved, ManifestNeverAhead, Lifetime, Live, Marked, Brain, Manifest, Checkpoint
<1>7. CASE LogBirth
    BY <1>7, FilesAssumption DEF LogBirth, Log, LogRow, disk, history, TypeOK, Identity, Progress, JsonSaved, NpzSaved, ArchiveSaved, AllSaved, ManifestNeverAhead, Lifetime, Live, Marked, Brain, Manifest, Checkpoint
<1>8. CASE BeginStep
    BY <1>8, FilesAssumption DEF BeginStep, disk, history, TypeOK, Identity, Progress, JsonSaved, NpzSaved, ArchiveSaved, AllSaved, ManifestNeverAhead, Lifetime, Live, Marked, Brain, Manifest, Checkpoint
<1>9. CASE Process
    BY <1>9, FilesAssumption DEF Process, disk, history, TypeOK, Identity, Progress, JsonSaved, NpzSaved, ArchiveSaved, AllSaved, ManifestNeverAhead, Lifetime, Live, Marked, Brain, Manifest, Checkpoint
<1>10. CASE React
    BY <1>10, FilesAssumption DEF React, disk, history, TypeOK, Identity, Progress, JsonSaved, NpzSaved, ArchiveSaved, AllSaved, ManifestNeverAhead, Lifetime, Live, Marked, Brain, Manifest, Checkpoint
<1>11. CASE RecordSignal
    BY <1>11, FilesAssumption DEF RecordSignal, disk, history, TypeOK, Identity, Progress, JsonSaved, NpzSaved, ArchiveSaved, AllSaved, ManifestNeverAhead, Lifetime, Live, Marked, Brain, Manifest, Checkpoint
<1>12. CASE Heartbeat
    BY <1>12, FilesAssumption DEF Heartbeat, Beat, AfterCheckpoint, disk, history, TypeOK, Identity, Progress, JsonSaved, NpzSaved, ArchiveSaved, AllSaved, ManifestNeverAhead, Lifetime, Live, Marked, Brain, Manifest, Checkpoint
<1>13. CASE Prune
    BY <1>13, FilesAssumption DEF Prune, Log, LogRow, disk, history, TypeOK, Identity, Progress, JsonSaved, NpzSaved, ArchiveSaved, AllSaved, ManifestNeverAhead, Lifetime, Live, Marked, Brain, Manifest, Checkpoint
<1>14. CASE LogCheckpoint
    BY <1>14, FilesAssumption DEF LogCheckpoint, Log, LogRow, disk, history, TypeOK, Identity, Progress, JsonSaved, NpzSaved, ArchiveSaved, AllSaved, ManifestNeverAhead, Lifetime, Live, Marked, Brain, Manifest, Checkpoint
<1>15. CASE SaveCheckpoint
  <2>1. checkpoint' \in Checkpoint /\ checkpoint'.lifetime = Lifetime
    BY <1>15, LifetimeType, FilesAssumption DEF SaveCheckpoint, TypeOK, Checkpoint, Brain
  <2>2. checkpoint' # NoFile
    BY <2>1, FilesAssumption
  <2>3. manifest # NoFile => manifest.lifetime <= Lifetime
    BY <1>15 DEF SaveCheckpoint, Identity, Marked, Live
  <2> QED
    BY <1>15, <2>1, <2>2, <2>3 DEF SaveCheckpoint, ManifestNeverAhead
<1>16. CASE OpenNpz
    BY <1>16, FilesAssumption DEF OpenNpz, disk, history, TypeOK, Identity, Progress, JsonSaved, NpzSaved, ArchiveSaved, AllSaved, ManifestNeverAhead, Lifetime, Live, Marked, Brain, Manifest, Checkpoint
<1>17. CASE CloseNpz
    BY <1>17, FilesAssumption DEF CloseNpz, disk, history, TypeOK, Identity, Progress, JsonSaved, NpzSaved, ArchiveSaved, AllSaved, ManifestNeverAhead, Lifetime, Live, Marked, Brain, Manifest, Checkpoint
<1>18. CASE SaveSubstrateManifest
    BY <1>18, FilesAssumption DEF SaveSubstrateManifest, disk, history, TypeOK, Identity, Progress, JsonSaved, NpzSaved, ArchiveSaved, AllSaved, ManifestNeverAhead, Lifetime, Live, Marked, Brain, Manifest, Checkpoint
<1>19. CASE SaveCheckpointManifest
  <2>1. manifest'.lifetime = Lifetime /\ checkpoint' = checkpoint /\ substrateManifest' = substrateManifest
    BY <1>19 DEF SaveCheckpointManifest, SaveManifest
  <2>2. checkpoint # NoFile /\ checkpoint.lifetime = Lifetime /\ substrateManifest = Lifetime
    BY <1>19 DEF SaveCheckpointManifest, Progress, JsonSaved, ArchiveSaved
  <2>3. Lifetime \in Nat
    BY LifetimeType
  <2> QED
    BY <2>1, <2>2, <2>3, FilesAssumption DEF ManifestNeverAhead
<1>20. CASE EndLoop
    BY <1>20, FilesAssumption DEF EndLoop, disk, history, TypeOK, Identity, Progress, JsonSaved, NpzSaved, ArchiveSaved, AllSaved, ManifestNeverAhead, Lifetime, Live, Marked, Brain, Manifest, Checkpoint
<1>21. CASE Interrupt
    BY <1>21, FilesAssumption DEF Interrupt, InLoop, disk, history, TypeOK, Identity, Progress, JsonSaved, NpzSaved, ArchiveSaved, AllSaved, ManifestNeverAhead, Lifetime, Live, Marked, Brain, Manifest, Checkpoint
<1>22. CASE Die
    BY <1>22, FilesAssumption DEF Die, Log, LogRow, disk, history, TypeOK, Identity, Progress, JsonSaved, NpzSaved, ArchiveSaved, AllSaved, ManifestNeverAhead, Lifetime, Live, Marked, Brain, Manifest, Checkpoint
<1>23. CASE SaveFinalManifest
    BY <1>23, FilesAssumption DEF SaveFinalManifest, SaveManifest, Blank, disk, history, TypeOK, Identity, Progress, JsonSaved, NpzSaved, ArchiveSaved, AllSaved, ManifestNeverAhead, Lifetime, Live, Marked, Brain, Manifest, Checkpoint
<1>24. CASE Stop
    BY <1>24, FilesAssumption DEF Stop, disk, history, TypeOK, Identity, Progress, JsonSaved, NpzSaved, ArchiveSaved, AllSaved, ManifestNeverAhead, Lifetime, Live, Marked, Brain, Manifest, Checkpoint
<1>25. CASE Crash
    BY <1>25, FilesAssumption DEF Crash, Blank, disk, history, TypeOK, Identity, Progress, JsonSaved, NpzSaved, ArchiveSaved, AllSaved, ManifestNeverAhead, Lifetime, Live, Marked, Brain, Manifest, Checkpoint
<1>26. CASE UNCHANGED vars
    BY <1>26, FilesAssumption DEF vars, disk, process, history, TypeOK, Identity, Progress, JsonSaved, NpzSaved, ArchiveSaved, AllSaved, ManifestNeverAhead, Lifetime, Live, Marked, Brain, Manifest, Checkpoint
<1> QED
    BY <1>1, <1>2, <1>3, <1>4, <1>5, <1>6, <1>7, <1>8, <1>9, <1>10, <1>11, <1>12, <1>13,
       <1>14, <1>15, <1>16, <1>17, <1>18, <1>19, <1>20, <1>21, <1>22, <1>23, <1>24,
       <1>25, <1>26
       DEF Next, Run

\* What a checkpoint has saved so far is what the session holds.
LEMMA ProgressStep ==
    ASSUME TypeOK, TypeOK', Identity, Progress, ArchiveNeverAhead, [Next]_vars
    PROVE  Progress'
<1>1. CASE Start
  <2>1. brain' = Restored /\ pc' \in InitPoints /\ npz' = npz
    BY <1>1 DEF Start, disk
  <2>2. npz \in Archive => npz.res \subseteq RestoredReservoir
    BY <1>1, FilesAssumption DEF Start, Loadable, RestoredReservoir, ArchiveNeverAhead, TypeOK
  <2>3. brain'.res = RestoredReservoir
    BY <2>1 DEF Restored
  <2>4. Archived' => npz \in Archive
    BY <2>1 DEF Archived, TypeOK
  <2> QED
    BY <2>1, <2>2, <2>3, <2>4 DEF Progress, JsonSaved, NpzSaved, ArchiveSaved, AllSaved
<1>2. CASE LogUnexpectedDeath
    BY <1>2, FilesAssumption DEF LogUnexpectedDeath, Log, LogRow, disk, history, TypeOK, Identity, Progress, JsonSaved, NpzSaved, ArchiveSaved, AllSaved, Archived, ArchiveNeverAhead, Lifetime, Live, Marked, Brain, Manifest, Checkpoint, Archive
<1>3. CASE LogGap
    BY <1>3, FilesAssumption DEF LogGap, Log, LogRow, disk, history, TypeOK, Identity, Progress, JsonSaved, NpzSaved, ArchiveSaved, AllSaved, Archived, ArchiveNeverAhead, Lifetime, Live, Marked, Brain, Manifest, Checkpoint, Archive
<1>4. CASE MarkRunning
    BY <1>4, FilesAssumption DEF MarkRunning, SaveManifest, disk, history, TypeOK, Identity, Progress, JsonSaved, NpzSaved, ArchiveSaved, AllSaved, Archived, ArchiveNeverAhead, Lifetime, Live, Marked, Brain, Manifest, Checkpoint, Archive
<1>5. CASE Birth
    BY <1>5, FilesAssumption DEF Birth, Beat, disk, history, TypeOK, Identity, Progress, JsonSaved, NpzSaved, ArchiveSaved, AllSaved, Archived, ArchiveNeverAhead, Lifetime, Live, Marked, Brain, Manifest, Checkpoint, Archive
<1>6. CASE LogRestart
    BY <1>6, FilesAssumption DEF LogRestart, Log, LogRow, disk, history, TypeOK, Identity, Progress, JsonSaved, NpzSaved, ArchiveSaved, AllSaved, Archived, ArchiveNeverAhead, Lifetime, Live, Marked, Brain, Manifest, Checkpoint, Archive
<1>7. CASE LogBirth
    BY <1>7, FilesAssumption DEF LogBirth, Log, LogRow, disk, history, TypeOK, Identity, Progress, JsonSaved, NpzSaved, ArchiveSaved, AllSaved, Archived, ArchiveNeverAhead, Lifetime, Live, Marked, Brain, Manifest, Checkpoint, Archive
<1>8. CASE BeginStep
    BY <1>8, FilesAssumption DEF BeginStep, disk, history, TypeOK, Identity, Progress, JsonSaved, NpzSaved, ArchiveSaved, AllSaved, Archived, ArchiveNeverAhead, Lifetime, Live, Marked, Brain, Manifest, Checkpoint, Archive
<1>9. CASE Process
    BY <1>9, FilesAssumption DEF Process, disk, history, TypeOK, Identity, Progress, JsonSaved, NpzSaved, ArchiveSaved, AllSaved, Archived, ArchiveNeverAhead, Lifetime, Live, Marked, Brain, Manifest, Checkpoint, Archive
<1>10. CASE React
    BY <1>10, FilesAssumption DEF React, disk, history, TypeOK, Identity, Progress, JsonSaved, NpzSaved, ArchiveSaved, AllSaved, Archived, ArchiveNeverAhead, Lifetime, Live, Marked, Brain, Manifest, Checkpoint, Archive
<1>11. CASE RecordSignal
    BY <1>11, FilesAssumption DEF RecordSignal, disk, history, TypeOK, Identity, Progress, JsonSaved, NpzSaved, ArchiveSaved, AllSaved, Archived, ArchiveNeverAhead, Lifetime, Live, Marked, Brain, Manifest, Checkpoint, Archive
<1>12. CASE Heartbeat
    BY <1>12, FilesAssumption DEF Heartbeat, Beat, AfterCheckpoint, disk, history, TypeOK, Identity, Progress, JsonSaved, NpzSaved, ArchiveSaved, AllSaved, Archived, ArchiveNeverAhead, Lifetime, Live, Marked, Brain, Manifest, Checkpoint, Archive
<1>13. CASE Prune
    BY <1>13, FilesAssumption DEF Prune, Log, LogRow, disk, history, TypeOK, Identity, Progress, JsonSaved, NpzSaved, ArchiveSaved, AllSaved, Archived, ArchiveNeverAhead, Lifetime, Live, Marked, Brain, Manifest, Checkpoint, Archive
<1>14. CASE LogCheckpoint
    BY <1>14, FilesAssumption DEF LogCheckpoint, Log, LogRow, disk, history, TypeOK, Identity, Progress, JsonSaved, NpzSaved, ArchiveSaved, AllSaved, Archived, ArchiveNeverAhead, Lifetime, Live, Marked, Brain, Manifest, Checkpoint, Archive
<1>15. CASE SaveCheckpoint
  <2>1. /\ checkpoint' \in Checkpoint
        /\ checkpoint'.lifetime = Lifetime
        /\ checkpoint'.session = session
        /\ checkpoint'.res = brain.res
        /\ checkpoint'.prunings = brain.prunings
    BY <1>15, LifetimeType DEF SaveCheckpoint, TypeOK, Checkpoint, Brain
  <2>2. checkpoint' # NoFile
    BY <2>1, FilesAssumption
  <2>3. pc' = "open_npz" /\ brain' = brain /\ session' = session /\ npz' = npz
    BY <1>15 DEF SaveCheckpoint, history
  <2>4. Lifetime' = Lifetime
    BY <2>3 DEF Lifetime
  <2>5. Archived => npz.res \subseteq brain.res
    BY <1>15 DEF SaveCheckpoint, Progress, Live
  <2> QED
    BY <2>1, <2>2, <2>3, <2>4, <2>5
       DEF Progress, JsonSaved, NpzSaved, ArchiveSaved, AllSaved, Archived
<1>16. CASE OpenNpz
    BY <1>16, FilesAssumption DEF OpenNpz, disk, history, TypeOK, Identity, Progress, JsonSaved, NpzSaved, ArchiveSaved, AllSaved, Archived, ArchiveNeverAhead, Lifetime, Live, Marked, Brain, Manifest, Checkpoint, Archive
<1>17. CASE CloseNpz
    BY <1>17, FilesAssumption DEF CloseNpz, disk, history, TypeOK, Identity, Progress, JsonSaved, NpzSaved, ArchiveSaved, AllSaved, Archived, ArchiveNeverAhead, Lifetime, Live, Marked, Brain, Manifest, Checkpoint, Archive
<1>18. CASE SaveSubstrateManifest
    BY <1>18, FilesAssumption DEF SaveSubstrateManifest, disk, history, TypeOK, Identity, Progress, JsonSaved, NpzSaved, ArchiveSaved, AllSaved, Archived, ArchiveNeverAhead, Lifetime, Live, Marked, Brain, Manifest, Checkpoint, Archive
<1>19. CASE SaveCheckpointManifest
    BY <1>19, FilesAssumption DEF SaveCheckpointManifest, SaveManifest, AfterCheckpoint, disk, history, TypeOK, Identity, Progress, JsonSaved, NpzSaved, ArchiveSaved, AllSaved, Archived, ArchiveNeverAhead, Lifetime, Live, Marked, Brain, Manifest, Checkpoint, Archive
<1>20. CASE EndLoop
    BY <1>20, FilesAssumption DEF EndLoop, disk, history, TypeOK, Identity, Progress, JsonSaved, NpzSaved, ArchiveSaved, AllSaved, Archived, ArchiveNeverAhead, Lifetime, Live, Marked, Brain, Manifest, Checkpoint, Archive
<1>21. CASE Interrupt
    BY <1>21, FilesAssumption DEF Interrupt, InLoop, disk, history, TypeOK, Identity, Progress, JsonSaved, NpzSaved, ArchiveSaved, AllSaved, Archived, ArchiveNeverAhead, Lifetime, Live, Marked, Brain, Manifest, Checkpoint, Archive
<1>22. CASE Die
    BY <1>22, FilesAssumption DEF Die, Log, LogRow, disk, history, TypeOK, Identity, Progress, JsonSaved, NpzSaved, ArchiveSaved, AllSaved, Archived, ArchiveNeverAhead, Lifetime, Live, Marked, Brain, Manifest, Checkpoint, Archive
<1>23. CASE SaveFinalManifest
    BY <1>23, FilesAssumption DEF SaveFinalManifest, SaveManifest, Blank, disk, history, TypeOK, Identity, Progress, JsonSaved, NpzSaved, ArchiveSaved, AllSaved, Archived, ArchiveNeverAhead, Lifetime, Live, Marked, Brain, Manifest, Checkpoint, Archive
<1>24. CASE Stop
    BY <1>24, FilesAssumption DEF Stop, disk, history, TypeOK, Identity, Progress, JsonSaved, NpzSaved, ArchiveSaved, AllSaved, Archived, ArchiveNeverAhead, Lifetime, Live, Marked, Brain, Manifest, Checkpoint, Archive
<1>25. CASE Crash
    BY <1>25, FilesAssumption DEF Crash, Blank, disk, history, TypeOK, Identity, Progress, JsonSaved, NpzSaved, ArchiveSaved, AllSaved, Archived, ArchiveNeverAhead, Lifetime, Live, Marked, Brain, Manifest, Checkpoint, Archive
<1>26. CASE UNCHANGED vars
    BY <1>26, FilesAssumption DEF vars, disk, process, history, TypeOK, Identity, Progress, JsonSaved, NpzSaved, ArchiveSaved, AllSaved, Archived, ArchiveNeverAhead, Lifetime, Live, Marked, Brain, Manifest, Checkpoint, Archive
<1> QED
    BY <1>1, <1>2, <1>3, <1>4, <1>5, <1>6, <1>7, <1>8, <1>9, <1>10, <1>11, <1>12, <1>13,
       <1>14, <1>15, <1>16, <1>17, <1>18, <1>19, <1>20, <1>21, <1>22, <1>23, <1>24,
       <1>25, <1>26
       DEF Next, Run

\* The archive is only replaced by a reservoir the checkpoint already holds.
LEMMA ArchiveStep ==
    ASSUME TypeOK, TypeOK', Progress, ArchiveNeverAhead, [Next]_vars
    PROVE  ArchiveNeverAhead'
<1>1. CASE Start
    BY <1>1, FilesAssumption DEF Start, Restored, disk, history, TypeOK, Progress, JsonSaved, Archived, ArchiveNeverAhead, Live, Checkpoint, Archive
<1>2. CASE LogUnexpectedDeath
    BY <1>2, FilesAssumption DEF LogUnexpectedDeath, Log, LogRow, disk, history, TypeOK, Progress, JsonSaved, Archived, ArchiveNeverAhead, Live, Checkpoint, Archive
<1>3. CASE LogGap
    BY <1>3, FilesAssumption DEF LogGap, Log, LogRow, disk, history, TypeOK, Progress, JsonSaved, Archived, ArchiveNeverAhead, Live, Checkpoint, Archive
<1>4. CASE MarkRunning
    BY <1>4, FilesAssumption DEF MarkRunning, SaveManifest, disk, history, TypeOK, Progress, JsonSaved, Archived, ArchiveNeverAhead, Live, Checkpoint, Archive
<1>5. CASE Birth
    BY <1>5, FilesAssumption DEF Birth, Beat, disk, history, TypeOK, Progress, JsonSaved, Archived, ArchiveNeverAhead, Live, Checkpoint, Archive
<1>6. CASE LogRestart
    BY <1>6, FilesAssumption DEF LogRestart, Log, LogRow, disk, history, TypeOK, Progress, JsonSaved, Archived, ArchiveNeverAhead, Live, Checkpoint, Archive
<1>7. CASE LogBirth
    BY <1>7, FilesAssumption DEF LogBirth, Log, LogRow, disk, history, TypeOK, Progress, JsonSaved, Archived, ArchiveNeverAhead, Live, Checkpoint, Archive
<1>8. CASE BeginStep
    BY <1>8, FilesAssumption DEF BeginStep, disk, history, TypeOK, Progress, JsonSaved, Archived, ArchiveNeverAhead, Live, Checkpoint, Archive
<1>9. CASE Process
    BY <1>9, FilesAssumption DEF Process, disk, history, TypeOK, Progress, JsonSaved, Archived, ArchiveNeverAhead, Live, Checkpoint, Archive
<1>10. CASE React
    BY <1>10, FilesAssumption DEF React, disk, history, TypeOK, Progress, JsonSaved, Archived, ArchiveNeverAhead, Live, Checkpoint, Archive
<1>11. CASE RecordSignal
    BY <1>11, FilesAssumption DEF RecordSignal, disk, history, TypeOK, Progress, JsonSaved, Archived, ArchiveNeverAhead, Live, Checkpoint, Archive
<1>12. CASE Heartbeat
    BY <1>12, FilesAssumption DEF Heartbeat, Beat, AfterCheckpoint, disk, history, TypeOK, Progress, JsonSaved, Archived, ArchiveNeverAhead, Live, Checkpoint, Archive
<1>13. CASE Prune
    BY <1>13, FilesAssumption DEF Prune, Log, LogRow, disk, history, TypeOK, Progress, JsonSaved, Archived, ArchiveNeverAhead, Live, Checkpoint, Archive
<1>14. CASE LogCheckpoint
    BY <1>14, FilesAssumption DEF LogCheckpoint, Log, LogRow, disk, history, TypeOK, Progress, JsonSaved, Archived, ArchiveNeverAhead, Live, Checkpoint, Archive
<1>15. CASE SaveCheckpoint
  <2>1. checkpoint' \in Checkpoint /\ checkpoint'.res = brain.res /\ npz' = npz
    BY <1>15, LifetimeType DEF SaveCheckpoint, TypeOK, Checkpoint, Brain
  <2>2. checkpoint' # NoFile
    BY <2>1, FilesAssumption
  <2>3. Archived => npz.res \subseteq brain.res
    BY <1>15 DEF SaveCheckpoint, Progress, Live
  <2> QED
    BY <2>1, <2>2, <2>3 DEF ArchiveNeverAhead, Archived
<1>16. CASE OpenNpz
    BY <1>16, FilesAssumption DEF OpenNpz, disk, history, TypeOK, Progress, JsonSaved, Archived, ArchiveNeverAhead, Live, Checkpoint, Archive
<1>17. CASE CloseNpz
    BY <1>17, FilesAssumption DEF CloseNpz, disk, history, TypeOK, Progress, JsonSaved, Archived, ArchiveNeverAhead, Live, Checkpoint, Archive
<1>18. CASE SaveSubstrateManifest
    BY <1>18, FilesAssumption DEF SaveSubstrateManifest, disk, history, TypeOK, Progress, JsonSaved, Archived, ArchiveNeverAhead, Live, Checkpoint, Archive
<1>19. CASE SaveCheckpointManifest
    BY <1>19, FilesAssumption DEF SaveCheckpointManifest, SaveManifest, AfterCheckpoint, disk, history, TypeOK, Progress, JsonSaved, Archived, ArchiveNeverAhead, Live, Checkpoint, Archive
<1>20. CASE EndLoop
    BY <1>20, FilesAssumption DEF EndLoop, disk, history, TypeOK, Progress, JsonSaved, Archived, ArchiveNeverAhead, Live, Checkpoint, Archive
<1>21. CASE Interrupt
    BY <1>21, FilesAssumption DEF Interrupt, InLoop, disk, history, TypeOK, Progress, JsonSaved, Archived, ArchiveNeverAhead, Live, Checkpoint, Archive
<1>22. CASE Die
    BY <1>22, FilesAssumption DEF Die, Log, LogRow, disk, history, TypeOK, Progress, JsonSaved, Archived, ArchiveNeverAhead, Live, Checkpoint, Archive
<1>23. CASE SaveFinalManifest
    BY <1>23, FilesAssumption DEF SaveFinalManifest, SaveManifest, Blank, disk, history, TypeOK, Progress, JsonSaved, Archived, ArchiveNeverAhead, Live, Checkpoint, Archive
<1>24. CASE Stop
    BY <1>24, FilesAssumption DEF Stop, disk, history, TypeOK, Progress, JsonSaved, Archived, ArchiveNeverAhead, Live, Checkpoint, Archive
<1>25. CASE Crash
    BY <1>25, FilesAssumption DEF Crash, Blank, disk, history, TypeOK, Progress, JsonSaved, Archived, ArchiveNeverAhead, Live, Checkpoint, Archive
<1>26. CASE UNCHANGED vars
    BY <1>26, FilesAssumption DEF vars, disk, process, history, TypeOK, Progress, JsonSaved, Archived, ArchiveNeverAhead, Live, Checkpoint, Archive
<1> QED
    BY <1>1, <1>2, <1>3, <1>4, <1>5, <1>6, <1>7, <1>8, <1>9, <1>10, <1>11, <1>12, <1>13,
       <1>14, <1>15, <1>16, <1>17, <1>18, <1>19, <1>20, <1>21, <1>22, <1>23, <1>24,
       <1>25, <1>26
       DEF Next, Run

\* Nothing the session processed or pruned leaves its memory.
LEMMA RememberedStep ==
    ASSUME TypeOK, TypeOK', Identity, Remembered, [Next]_vars
    PROVE  Remembered'
<1>1. CASE Start
  <2>1. session' = session + 1 /\ heard' = heard /\ log' = log
    BY <1>1 DEF Start, disk
  <2>2. session \in Nat /\ heard \in Seq(Nat) /\ \A r \in log : r.session \in Nat
    BY DEF TypeOK, Row
  <2>3. \A i \in 1..Len(heard) : heard[i] <= session /\ heard[i] \in Nat
    BY <2>2 DEF Remembered
  <2>4. HeardBy(session)' = {}
    BY <2>1, <2>2, <2>3 DEF HeardBy
  <2>5. \A r \in log : r.session # session + 1
    BY <2>2 DEF Identity
  <2>6. PrunedBy(session)' = {}
    BY <2>1, <2>5 DEF PrunedBy, Rows
  <2> QED
    BY <2>1, <2>2, <2>3, <2>4, <2>6 DEF Remembered
<1>2. CASE LogUnexpectedDeath
    BY <1>2, FilesAssumption DEF LogUnexpectedDeath, Log, LogRow, disk, history, TypeOK, Identity, Remembered, HeardBy, PrunedBy, Rows, Live, Brain, Row, Lifetime
<1>3. CASE LogGap
    BY <1>3, FilesAssumption DEF LogGap, Log, LogRow, disk, history, TypeOK, Identity, Remembered, HeardBy, PrunedBy, Rows, Live, Brain, Row, Lifetime
<1>4. CASE MarkRunning
    BY <1>4, FilesAssumption DEF MarkRunning, SaveManifest, disk, history, TypeOK, Identity, Remembered, HeardBy, PrunedBy, Rows, Live, Brain, Row, Lifetime
<1>5. CASE Birth
  <2>1. brain'.res = brain.res /\ brain'.prunings = brain.prunings
    BY <1>5, BrainType DEF Birth, Beat, Brain
  <2>2. heard' = heard /\ session' = session /\ log' = log /\ pc \in Live
    BY <1>5 DEF Birth, disk, history, Live
  <2> QED
    BY <2>1, <2>2 DEF Remembered, HeardBy, PrunedBy, Rows
<1>6. CASE LogRestart
    BY <1>6, FilesAssumption DEF LogRestart, Log, LogRow, disk, history, TypeOK, Identity, Remembered, HeardBy, PrunedBy, Rows, Live, Brain, Row, Lifetime
<1>7. CASE LogBirth
    BY <1>7, FilesAssumption DEF LogBirth, Log, LogRow, disk, history, TypeOK, Identity, Remembered, HeardBy, PrunedBy, Rows, Live, Brain, Row, Lifetime
<1>8. CASE BeginStep
  <2>1. brain'.res = brain.res /\ brain'.prunings = brain.prunings
    BY <1>8, BrainType DEF BeginStep, Brain
  <2>2. heard' = heard /\ session' = session /\ log' = log /\ pc \in Live
    BY <1>8 DEF BeginStep, disk, history, Live
  <2> QED
    BY <2>1, <2>2 DEF Remembered, HeardBy, PrunedBy, Rows
<1>9. CASE Process
  <2>1. brain'.res = brain.res \cup {Len(heard) + 1} /\ brain'.prunings = brain.prunings
    BY <1>9, BrainType DEF Process, Brain
  <2>2. heard' = Append(heard, session) /\ session' = session /\ log' = log /\ pc \in Live
    BY <1>9 DEF Process, disk, Live
  <2>3. Len(heard') = Len(heard) + 1 /\ Len(heard) \in Nat
    BY <2>2 DEF TypeOK
  <2>4. \A i \in 1..Len(heard') : \/ i \in 1..Len(heard) /\ heard'[i] = heard[i]
                                  \/ i = Len(heard) + 1 /\ heard'[i] = session
    <3> SUFFICES ASSUME NEW i \in 1..Len(heard')
                 PROVE  \/ i \in 1..Len(heard) /\ heard'[i] = heard[i]
                        \/ i = Len(heard) + 1 /\ heard'[i] = session
      OBVIOUS
    <3>1. heard \in Seq(Nat) /\ session \in Nat
      BY DEF TypeOK
    <3>2. CASE i = Len(heard) + 1
      BY <2>2, <3>1, <3>2
    <3>3. CASE i # Len(heard) + 1
      BY <2>2, <2>3, <3>1, <3>3
    <3> QED
      BY <3>2, <3>3
  <2>5. HeardBy(session) \subseteq brain.res /\ PrunedBy(session) \subseteq brain.prunings
    BY <2>2 DEF Remembered
  <2>6. HeardBy(session)' \subseteq brain'.res
    BY <2>1, <2>2, <2>4, <2>5 DEF HeardBy
  <2>7. PrunedBy(session)' \subseteq brain'.prunings
    BY <2>1, <2>2, <2>5 DEF PrunedBy, Rows
  <2>8. \A i \in 1..Len(heard') : heard'[i] <= session'
    BY <2>2, <2>4 DEF Remembered, TypeOK
  <2> QED
    BY <2>6, <2>7, <2>8 DEF Remembered
<1>10. CASE React
    BY <1>10, FilesAssumption DEF React, disk, history, TypeOK, Identity, Remembered, HeardBy, PrunedBy, Rows, Live, Brain, Row, Lifetime
<1>11. CASE RecordSignal
    BY <1>11, FilesAssumption DEF RecordSignal, disk, history, TypeOK, Identity, Remembered, HeardBy, PrunedBy, Rows, Live, Brain, Row, Lifetime
<1>12. CASE Heartbeat
  <2>1. brain'.res = brain.res /\ brain'.prunings = brain.prunings
    BY <1>12, BrainType DEF Heartbeat, Beat, Brain
  <2>2. heard' = heard /\ session' = session /\ log' = log /\ pc \in Live
    BY <1>12 DEF Heartbeat, disk, history, Live
  <2> QED
    BY <2>1, <2>2 DEF Remembered, HeardBy, PrunedBy, Rows
<1>13. CASE Prune
  <2> DEFINE entry == [session |-> session, lifetime |-> Lifetime]
  <2>1. brain'.res = brain.res /\ brain'.prunings = brain.prunings \cup {entry}
    BY <1>13, BrainType DEF Prune, Brain
  <2>2. heard' = heard /\ session' = session /\ pc \in Live
    BY <1>13 DEF Prune, history, Live
  <2>3. log' = log \cup {LogRow("synthesis_pruning", Lifetime)}
    BY <1>13 DEF Prune, Log
  <2>4. PrunedBy(session)' \subseteq PrunedBy(session) \cup {entry}
    BY <2>2, <2>3 DEF PrunedBy, Rows, LogRow
  <2> QED
    BY <2>1, <2>2, <2>4 DEF Remembered, HeardBy
<1>14. CASE LogCheckpoint
    BY <1>14, FilesAssumption DEF LogCheckpoint, Log, LogRow, disk, history, TypeOK, Identity, Remembered, HeardBy, PrunedBy, Rows, Live, Brain, Row, Lifetime
<1>15. CASE SaveCheckpoint
    BY <1>15, FilesAssumption DEF SaveCheckpoint, disk, history, TypeOK, Identity, Remembered, HeardBy, PrunedBy, Rows, Live, Brain, Row, Lifetime
<1>16. CASE OpenNpz
    BY <1>16, FilesAssumption DEF OpenNpz, disk, history, TypeOK, Identity, Remembered, HeardBy, PrunedBy, Rows, Live, Brain, Row, Lifetime
<1>17. CASE CloseNpz
    BY <1>17, FilesAssumption DEF CloseNpz, disk, history, TypeOK, Identity, Remembered, HeardBy, PrunedBy, Rows, Live, Brain, Row, Lifetime
<1>18. CASE SaveSubstrateManifest
    BY <1>18, FilesAssumption DEF SaveSubstrateManifest, disk, history, TypeOK, Identity, Remembered, HeardBy, PrunedBy, Rows, Live, Brain, Row, Lifetime
<1>19. CASE SaveCheckpointManifest
    BY <1>19, FilesAssumption DEF SaveCheckpointManifest, SaveManifest, AfterCheckpoint, disk, history, TypeOK, Identity, Remembered, HeardBy, PrunedBy, Rows, Live, Brain, Row, Lifetime
<1>20. CASE EndLoop
    BY <1>20, FilesAssumption DEF EndLoop, disk, history, TypeOK, Identity, Remembered, HeardBy, PrunedBy, Rows, Live, Brain, Row, Lifetime
<1>21. CASE Interrupt
    BY <1>21, FilesAssumption DEF Interrupt, InLoop, disk, history, TypeOK, Identity, Remembered, HeardBy, PrunedBy, Rows, Live, Brain, Row, Lifetime
<1>22. CASE Die
    BY <1>22, FilesAssumption DEF Die, Log, LogRow, disk, history, TypeOK, Identity, Remembered, HeardBy, PrunedBy, Rows, Live, Brain, Row, Lifetime
<1>23. CASE SaveFinalManifest
    BY <1>23, FilesAssumption DEF SaveFinalManifest, SaveManifest, Blank, disk, history, TypeOK, Identity, Remembered, HeardBy, PrunedBy, Rows, Live, Brain, Row, Lifetime
<1>24. CASE Stop
    BY <1>24, FilesAssumption DEF Stop, disk, history, TypeOK, Identity, Remembered, HeardBy, PrunedBy, Rows, Live, Brain, Row, Lifetime
<1>25. CASE Crash
    BY <1>25, FilesAssumption DEF Crash, Blank, disk, history, TypeOK, Identity, Remembered, HeardBy, PrunedBy, Rows, Live, Brain, Row, Lifetime
<1>26. CASE UNCHANGED vars
    BY <1>26, FilesAssumption DEF vars, disk, process, history, TypeOK, Identity, Remembered, HeardBy, PrunedBy, Rows, Live, Brain, Row, Lifetime
<1> QED
    BY <1>1, <1>2, <1>3, <1>4, <1>5, <1>6, <1>7, <1>8, <1>9, <1>10, <1>11, <1>12, <1>13,
       <1>14, <1>15, <1>16, <1>17, <1>18, <1>19, <1>20, <1>21, <1>22, <1>23, <1>24,
       <1>25, <1>26
       DEF Next, Run

\* The final manifest is saved when everything else is, and stays alone until it is replaced.
LEMMA CleanStep ==
    ASSUME TypeOK, TypeOK', Identity, Progress, Remembered, CleanShutdownKeepsEverything, [Next]_vars
    PROVE  CleanShutdownKeepsEverything'
<1>1. CASE Start
    BY <1>1, FilesAssumption DEF Start, Restored, disk, history, TypeOK, Identity, Remembered, Progress, JsonSaved, NpzSaved, ArchiveSaved, AllSaved, CleanShutdownKeepsEverything, HeardBy, PrunedBy, Rows, Live, Marked, Manifest
<1>2. CASE LogUnexpectedDeath
    BY <1>2, FilesAssumption DEF LogUnexpectedDeath, Log, LogRow, disk, history, TypeOK, Identity, Remembered, Progress, JsonSaved, NpzSaved, ArchiveSaved, AllSaved, CleanShutdownKeepsEverything, HeardBy, PrunedBy, Rows, Live, Marked, Manifest
<1>3. CASE LogGap
    BY <1>3, FilesAssumption DEF LogGap, Log, LogRow, disk, history, TypeOK, Identity, Remembered, Progress, JsonSaved, NpzSaved, ArchiveSaved, AllSaved, CleanShutdownKeepsEverything, HeardBy, PrunedBy, Rows, Live, Marked, Manifest
<1>4. CASE MarkRunning
    BY <1>4, FilesAssumption DEF MarkRunning, SaveManifest, disk, history, TypeOK, Identity, Remembered, Progress, JsonSaved, NpzSaved, ArchiveSaved, AllSaved, CleanShutdownKeepsEverything, HeardBy, PrunedBy, Rows, Live, Marked, Manifest
<1>5. CASE Birth
    BY <1>5, FilesAssumption DEF Birth, Beat, disk, history, TypeOK, Identity, Remembered, Progress, JsonSaved, NpzSaved, ArchiveSaved, AllSaved, CleanShutdownKeepsEverything, HeardBy, PrunedBy, Rows, Live, Marked, Manifest
<1>6. CASE LogRestart
    BY <1>6, FilesAssumption DEF LogRestart, Log, LogRow, disk, history, TypeOK, Identity, Remembered, Progress, JsonSaved, NpzSaved, ArchiveSaved, AllSaved, CleanShutdownKeepsEverything, HeardBy, PrunedBy, Rows, Live, Marked, Manifest
<1>7. CASE LogBirth
    BY <1>7, FilesAssumption DEF LogBirth, Log, LogRow, disk, history, TypeOK, Identity, Remembered, Progress, JsonSaved, NpzSaved, ArchiveSaved, AllSaved, CleanShutdownKeepsEverything, HeardBy, PrunedBy, Rows, Live, Marked, Manifest
<1>8. CASE BeginStep
    BY <1>8, FilesAssumption DEF BeginStep, disk, history, TypeOK, Identity, Remembered, Progress, JsonSaved, NpzSaved, ArchiveSaved, AllSaved, CleanShutdownKeepsEverything, HeardBy, PrunedBy, Rows, Live, Marked, Manifest
<1>9. CASE Process
    BY <1>9, FilesAssumption DEF Process, disk, history, TypeOK, Identity, Remembered, Progress, JsonSaved, NpzSaved, ArchiveSaved, AllSaved, CleanShutdownKeepsEverything, HeardBy, PrunedBy, Rows, Live, Marked, Manifest
<1>10. CASE React
    BY <1>10, FilesAssumption DEF React, disk, history, TypeOK, Identity, Remembered, Progress, JsonSaved, NpzSaved, ArchiveSaved, AllSaved, CleanShutdownKeepsEverything, HeardBy, PrunedBy, Rows, Live, Marked, Manifest
<1>11. CASE RecordSignal
    BY <1>11, FilesAssumption DEF RecordSignal, disk, history, TypeOK, Identity, Remembered, Progress, JsonSaved, NpzSaved, ArchiveSaved, AllSaved, CleanShutdownKeepsEverything, HeardBy, PrunedBy, Rows, Live, Marked, Manifest
<1>12. CASE Heartbeat
    BY <1>12, FilesAssumption DEF Heartbeat, Beat, AfterCheckpoint, disk, history, TypeOK, Identity, Remembered, Progress, JsonSaved, NpzSaved, ArchiveSaved, AllSaved, CleanShutdownKeepsEverything, HeardBy, PrunedBy, Rows, Live, Marked, Manifest
<1>13. CASE Prune
    BY <1>13, FilesAssumption DEF Prune, Log, LogRow, disk, history, TypeOK, Identity, Remembered, Progress, JsonSaved, NpzSaved, ArchiveSaved, AllSaved, CleanShutdownKeepsEverything, HeardBy, PrunedBy, Rows, Live, Marked, Manifest
<1>14. CASE LogCheckpoint
    BY <1>14, FilesAssumption DEF LogCheckpoint, Log, LogRow, disk, history, TypeOK, Identity, Remembered, Progress, JsonSaved, NpzSaved, ArchiveSaved, AllSaved, CleanShutdownKeepsEverything, HeardBy, PrunedBy, Rows, Live, Marked, Manifest
<1>15. CASE SaveCheckpoint
    BY <1>15, FilesAssumption DEF SaveCheckpoint, disk, history, TypeOK, Identity, Remembered, Progress, JsonSaved, NpzSaved, ArchiveSaved, AllSaved, CleanShutdownKeepsEverything, HeardBy, PrunedBy, Rows, Live, Marked, Manifest
<1>16. CASE OpenNpz
    BY <1>16, FilesAssumption DEF OpenNpz, disk, history, TypeOK, Identity, Remembered, Progress, JsonSaved, NpzSaved, ArchiveSaved, AllSaved, CleanShutdownKeepsEverything, HeardBy, PrunedBy, Rows, Live, Marked, Manifest
<1>17. CASE CloseNpz
    BY <1>17, FilesAssumption DEF CloseNpz, disk, history, TypeOK, Identity, Remembered, Progress, JsonSaved, NpzSaved, ArchiveSaved, AllSaved, CleanShutdownKeepsEverything, HeardBy, PrunedBy, Rows, Live, Marked, Manifest
<1>18. CASE SaveSubstrateManifest
    BY <1>18, FilesAssumption DEF SaveSubstrateManifest, disk, history, TypeOK, Identity, Remembered, Progress, JsonSaved, NpzSaved, ArchiveSaved, AllSaved, CleanShutdownKeepsEverything, HeardBy, PrunedBy, Rows, Live, Marked, Manifest
<1>19. CASE SaveCheckpointManifest
    BY <1>19, FilesAssumption DEF SaveCheckpointManifest, SaveManifest, AfterCheckpoint, disk, history, TypeOK, Identity, Remembered, Progress, JsonSaved, NpzSaved, ArchiveSaved, AllSaved, CleanShutdownKeepsEverything, HeardBy, PrunedBy, Rows, Live, Marked, Manifest
<1>20. CASE EndLoop
    BY <1>20, FilesAssumption DEF EndLoop, disk, history, TypeOK, Identity, Remembered, Progress, JsonSaved, NpzSaved, ArchiveSaved, AllSaved, CleanShutdownKeepsEverything, HeardBy, PrunedBy, Rows, Live, Marked, Manifest
<1>21. CASE Interrupt
    BY <1>21, FilesAssumption DEF Interrupt, InLoop, disk, history, TypeOK, Identity, Remembered, Progress, JsonSaved, NpzSaved, ArchiveSaved, AllSaved, CleanShutdownKeepsEverything, HeardBy, PrunedBy, Rows, Live, Marked, Manifest
<1>22. CASE Die
    BY <1>22, FilesAssumption DEF Die, Log, LogRow, disk, history, TypeOK, Identity, Remembered, Progress, JsonSaved, NpzSaved, ArchiveSaved, AllSaved, CleanShutdownKeepsEverything, HeardBy, PrunedBy, Rows, Live, Marked, Manifest
<1>23. CASE SaveFinalManifest
    BY <1>23, FilesAssumption DEF SaveFinalManifest, SaveManifest, Blank, disk, history, TypeOK, Identity, Remembered, Progress, JsonSaved, NpzSaved, ArchiveSaved, AllSaved, CleanShutdownKeepsEverything, HeardBy, PrunedBy, Rows, Live, Marked, Manifest
<1>24. CASE Stop
    BY <1>24, FilesAssumption DEF Stop, disk, history, TypeOK, Identity, Remembered, Progress, JsonSaved, NpzSaved, ArchiveSaved, AllSaved, CleanShutdownKeepsEverything, HeardBy, PrunedBy, Rows, Live, Marked, Manifest
<1>25. CASE Crash
    BY <1>25, FilesAssumption DEF Crash, Blank, disk, history, TypeOK, Identity, Remembered, Progress, JsonSaved, NpzSaved, ArchiveSaved, AllSaved, CleanShutdownKeepsEverything, HeardBy, PrunedBy, Rows, Live, Marked, Manifest
<1>26. CASE UNCHANGED vars
    BY <1>26, FilesAssumption DEF vars, disk, process, history, TypeOK, Identity, Remembered, Progress, JsonSaved, NpzSaved, ArchiveSaved, AllSaved, CleanShutdownKeepsEverything, HeardBy, PrunedBy, Rows, Live, Marked, Manifest
<1> QED
    BY <1>1, <1>2, <1>3, <1>4, <1>5, <1>6, <1>7, <1>8, <1>9, <1>10, <1>11, <1>12, <1>13,
       <1>14, <1>15, <1>16, <1>17, <1>18, <1>19, <1>20, <1>21, <1>22, <1>23, <1>24,
       <1>25, <1>26
       DEF Next, Run

\* The continuity log is append-only.
LEMMA LogGrows == [Next]_vars => log \subseteq log'
    BY DEF Next, Run, vars, disk, process, history, Start, LogUnexpectedDeath, LogGap, MarkRunning,
           Birth, LogRestart, LogBirth, BeginStep, Process, React, RecordSignal, Heartbeat, Prune,
           LogCheckpoint, SaveCheckpoint, OpenNpz, CloseNpz, SaveSubstrateManifest,
           SaveCheckpointManifest, EndLoop, Interrupt, Die, SaveFinalManifest, Stop, Crash, Log

\* A death that is on record stays on record: the log keeps its rows.
LEMMA AccountedStays ==
    ASSUME NEW a, NEW s, log \subseteq log', Accounted(a, s)
    PROVE  Accounted(a, s)'
    BY DEF Accounted, Rows

\* A session marks itself running only over one that is accounted for.
LEMMA BirthsStep ==
    ASSUME TypeOK, TypeOK', Identity, Accounts, [Next]_vars
    PROVE  BirthsAccounted'
<1>1. CASE Start
    BY <1>1, FilesAssumption, LogGrows, AccountedStays DEF Start, Restored, disk, history, TypeOK, Identity, Accounts, BirthsAccounted, Rows, Live, Marked, Row
<1>2. CASE LogUnexpectedDeath
    BY <1>2, FilesAssumption, LogGrows, AccountedStays DEF LogUnexpectedDeath, Log, LogRow, disk, history, TypeOK, Identity, Accounts, BirthsAccounted, Rows, Live, Marked, Row
<1>3. CASE LogGap
    BY <1>3, FilesAssumption, LogGrows, AccountedStays DEF LogGap, Log, LogRow, disk, history, TypeOK, Identity, Accounts, BirthsAccounted, Rows, Live, Marked, Row
<1>4. CASE MarkRunning
  <2>1. manifest'.session = session /\ manifest' \in Manifest /\ log' = log
    BY <1>4, SaveManifestType DEF MarkRunning, SaveManifest
  <2>2. manifest' # NoFile
    BY <2>1, FilesAssumption
  <2>3. manifest # NoFile => manifest \in Manifest /\ manifest.session < session
    BY <1>4 DEF MarkRunning, Identity, TypeOK
  <2>4. SUFFICES ASSUME NEW a \in Rows("birth")
                 PROVE  a.session <= session /\ (a.session < session => Accounted(a, session))
    BY <2>1, <2>2 DEF BirthsAccounted, Rows, Accounted
  <2>5. /\ manifest # NoFile /\ a.session <= manifest.session
        /\ a.session < manifest.session => Accounted(a, manifest.session)
    BY DEF Accounts, BirthsAccounted
  <2>6. a.session \in Nat /\ session \in Nat /\ \A r \in log : r.session \in Nat
    BY DEF Rows, TypeOK, Row
  <2>7. CASE a.session < manifest.session
    BY <2>3, <2>5, <2>6, <2>7 DEF Accounted, Rows, Manifest
  <2>8. CASE a.session = manifest.session /\ manifest.graceful
    BY <2>3, <2>5, <2>6, <2>8 DEF Accounts, RestOnRecord, Accounted, Manifest
  <2>9. CASE a.session = manifest.session /\ ~manifest.graceful
    BY <1>4, <2>3, <2>5, <2>6, <2>9 DEF MarkRunning, Accounts, LossOnRecord, Accounted, Manifest
  <2> QED
    BY <2>3, <2>5, <2>6, <2>7, <2>8, <2>9 DEF Manifest
<1>5. CASE Birth
    BY <1>5, FilesAssumption, LogGrows, AccountedStays DEF Birth, Beat, disk, history, TypeOK, Identity, Accounts, BirthsAccounted, Rows, Live, Marked, Row
<1>6. CASE LogRestart
    BY <1>6, FilesAssumption, LogGrows, AccountedStays DEF LogRestart, Log, LogRow, disk, history, TypeOK, Identity, Accounts, BirthsAccounted, Rows, Live, Marked, Row
<1>7. CASE LogBirth
    BY <1>7, FilesAssumption, LogGrows, AccountedStays DEF LogBirth, Log, LogRow, disk, history, TypeOK, Identity, Accounts, BirthsAccounted, Rows, Live, Marked, Row
<1>8. CASE BeginStep
    BY <1>8, FilesAssumption, LogGrows, AccountedStays DEF BeginStep, disk, history, TypeOK, Identity, Accounts, BirthsAccounted, Rows, Live, Marked, Row
<1>9. CASE Process
    BY <1>9, FilesAssumption, LogGrows, AccountedStays DEF Process, disk, history, TypeOK, Identity, Accounts, BirthsAccounted, Rows, Live, Marked, Row
<1>10. CASE React
    BY <1>10, FilesAssumption, LogGrows, AccountedStays DEF React, disk, history, TypeOK, Identity, Accounts, BirthsAccounted, Rows, Live, Marked, Row
<1>11. CASE RecordSignal
    BY <1>11, FilesAssumption, LogGrows, AccountedStays DEF RecordSignal, disk, history, TypeOK, Identity, Accounts, BirthsAccounted, Rows, Live, Marked, Row
<1>12. CASE Heartbeat
    BY <1>12, FilesAssumption, LogGrows, AccountedStays DEF Heartbeat, Beat, AfterCheckpoint, disk, history, TypeOK, Identity, Accounts, BirthsAccounted, Rows, Live, Marked, Row
<1>13. CASE Prune
    BY <1>13, FilesAssumption, LogGrows, AccountedStays DEF Prune, Log, LogRow, disk, history, TypeOK, Identity, Accounts, BirthsAccounted, Rows, Live, Marked, Row
<1>14. CASE LogCheckpoint
    BY <1>14, FilesAssumption, LogGrows, AccountedStays DEF LogCheckpoint, Log, LogRow, disk, history, TypeOK, Identity, Accounts, BirthsAccounted, Rows, Live, Marked, Row
<1>15. CASE SaveCheckpoint
    BY <1>15, FilesAssumption, LogGrows, AccountedStays DEF SaveCheckpoint, disk, history, TypeOK, Identity, Accounts, BirthsAccounted, Rows, Live, Marked, Row
<1>16. CASE OpenNpz
    BY <1>16, FilesAssumption, LogGrows, AccountedStays DEF OpenNpz, disk, history, TypeOK, Identity, Accounts, BirthsAccounted, Rows, Live, Marked, Row
<1>17. CASE CloseNpz
    BY <1>17, FilesAssumption, LogGrows, AccountedStays DEF CloseNpz, disk, history, TypeOK, Identity, Accounts, BirthsAccounted, Rows, Live, Marked, Row
<1>18. CASE SaveSubstrateManifest
    BY <1>18, FilesAssumption, LogGrows, AccountedStays DEF SaveSubstrateManifest, disk, history, TypeOK, Identity, Accounts, BirthsAccounted, Rows, Live, Marked, Row
<1>19. CASE SaveCheckpointManifest
  <2>1. manifest'.session = manifest.session /\ manifest' \in Manifest /\ log' = log
    BY <1>19, SaveManifestType DEF SaveCheckpointManifest, SaveManifest, Identity, Marked, Live
  <2>2. manifest' # NoFile
    BY <2>1, FilesAssumption
  <2> QED
    BY <2>1, <2>2 DEF Accounts, BirthsAccounted, Accounted, Rows
<1>20. CASE EndLoop
    BY <1>20, FilesAssumption, LogGrows, AccountedStays DEF EndLoop, disk, history, TypeOK, Identity, Accounts, BirthsAccounted, Rows, Live, Marked, Row
<1>21. CASE Interrupt
    BY <1>21, FilesAssumption, LogGrows, AccountedStays DEF Interrupt, InLoop, disk, history, TypeOK, Identity, Accounts, BirthsAccounted, Rows, Live, Marked, Row
<1>22. CASE Die
    BY <1>22, FilesAssumption, LogGrows, AccountedStays DEF Die, Log, LogRow, disk, history, TypeOK, Identity, Accounts, BirthsAccounted, Rows, Live, Marked, Row
<1>23. CASE SaveFinalManifest
  <2>1. manifest'.session = manifest.session /\ manifest' \in Manifest /\ log' = log
    BY <1>23, SaveManifestType DEF SaveFinalManifest, SaveManifest, Identity, Marked, Live
  <2>2. manifest' # NoFile
    BY <2>1, FilesAssumption
  <2> QED
    BY <2>1, <2>2 DEF Accounts, BirthsAccounted, Accounted, Rows
<1>24. CASE Stop
    BY <1>24, FilesAssumption, LogGrows, AccountedStays DEF Stop, disk, history, TypeOK, Identity, Accounts, BirthsAccounted, Rows, Live, Marked, Row
<1>25. CASE Crash
    BY <1>25, FilesAssumption, LogGrows, AccountedStays DEF Crash, Blank, disk, history, TypeOK, Identity, Accounts, BirthsAccounted, Rows, Live, Marked, Row
<1>26. CASE UNCHANGED vars
    BY <1>26, FilesAssumption, LogGrows, AccountedStays DEF vars, disk, process, history, TypeOK, Identity, Accounts, BirthsAccounted, Rows, Live, Marked, Row
<1> QED
    BY <1>1, <1>2, <1>3, <1>4, <1>5, <1>6, <1>7, <1>8, <1>9, <1>10, <1>11, <1>12, <1>13,
       <1>14, <1>15, <1>16, <1>17, <1>18, <1>19, <1>20, <1>21, <1>22, <1>23, <1>24,
       <1>25, <1>26
       DEF Next, Run

\* A graceful manifest comes after the row that says so.
LEMMA RestStep ==
    ASSUME TypeOK, TypeOK', Identity, Accounts, [Next]_vars
    PROVE  RestOnRecord'
<1>1. CASE Start
    BY <1>1, FilesAssumption DEF Start, Restored, disk, history, Identity, Accounts, RestOnRecord, Rows, Live, Marked
<1>2. CASE LogUnexpectedDeath
    BY <1>2, FilesAssumption DEF LogUnexpectedDeath, Log, LogRow, disk, history, Identity, Accounts, RestOnRecord, Rows, Live, Marked
<1>3. CASE LogGap
    BY <1>3, FilesAssumption DEF LogGap, Log, LogRow, disk, history, Identity, Accounts, RestOnRecord, Rows, Live, Marked
<1>4. CASE MarkRunning
    BY <1>4, FilesAssumption DEF MarkRunning, SaveManifest, disk, history, Identity, Accounts, RestOnRecord, Rows, Live, Marked
<1>5. CASE Birth
    BY <1>5, FilesAssumption DEF Birth, Beat, disk, history, Identity, Accounts, RestOnRecord, Rows, Live, Marked
<1>6. CASE LogRestart
    BY <1>6, FilesAssumption DEF LogRestart, Log, LogRow, disk, history, Identity, Accounts, RestOnRecord, Rows, Live, Marked
<1>7. CASE LogBirth
    BY <1>7, FilesAssumption DEF LogBirth, Log, LogRow, disk, history, Identity, Accounts, RestOnRecord, Rows, Live, Marked
<1>8. CASE BeginStep
    BY <1>8, FilesAssumption DEF BeginStep, disk, history, Identity, Accounts, RestOnRecord, Rows, Live, Marked
<1>9. CASE Process
    BY <1>9, FilesAssumption DEF Process, disk, history, Identity, Accounts, RestOnRecord, Rows, Live, Marked
<1>10. CASE React
    BY <1>10, FilesAssumption DEF React, disk, history, Identity, Accounts, RestOnRecord, Rows, Live, Marked
<1>11. CASE RecordSignal
    BY <1>11, FilesAssumption DEF RecordSignal, disk, history, Identity, Accounts, RestOnRecord, Rows, Live, Marked
<1>12. CASE Heartbeat
    BY <1>12, FilesAssumption DEF Heartbeat, Beat, AfterCheckpoint, disk, history, Identity, Accounts, RestOnRecord, Rows, Live, Marked
<1>13. CASE Prune
    BY <1>13, FilesAssumption DEF Prune, Log, LogRow, disk, history, Identity, Accounts, RestOnRecord, Rows, Live, Marked
<1>14. CASE LogCheckpoint
    BY <1>14, FilesAssumption DEF LogCheckpoint, Log, LogRow, disk, history, Identity, Accounts, RestOnRecord, Rows, Live, Marked
<1>15. CASE SaveCheckpoint
    BY <1>15, FilesAssumption DEF SaveCheckpoint, disk, history, Identity, Accounts, RestOnRecord, Rows, Live, Marked
<1>16. CASE OpenNpz
    BY <1>16, FilesAssumption DEF OpenNpz, disk, history, Identity, Accounts, RestOnRecord, Rows, Live, Marked
<1>17. CASE CloseNpz
    BY <1>17, FilesAssumption DEF CloseNpz, disk, history, Identity, Accounts, RestOnRecord, Rows, Live, Marked
<1>18. CASE SaveSubstrateManifest
    BY <1>18, FilesAssumption DEF SaveSubstrateManifest, disk, history, Identity, Accounts, RestOnRecord, Rows, Live, Marked
<1>19. CASE SaveCheckpointManifest
    BY <1>19, FilesAssumption DEF SaveCheckpointManifest, SaveManifest, AfterCheckpoint, disk, history, Identity, Accounts, RestOnRecord, Rows, Live, Marked
<1>20. CASE EndLoop
    BY <1>20, FilesAssumption DEF EndLoop, disk, history, Identity, Accounts, RestOnRecord, Rows, Live, Marked
<1>21. CASE Interrupt
    BY <1>21, FilesAssumption DEF Interrupt, InLoop, disk, history, Identity, Accounts, RestOnRecord, Rows, Live, Marked
<1>22. CASE Die
  <2>1. LogRow("graceful_death", Lifetime) \in Rows("graceful_death")'
    BY <1>22 DEF Die, Log, LogRow, Rows
  <2>2. LogRow("graceful_death", Lifetime).session = manifest'.session
    BY <1>22 DEF Die, LogRow, Identity, Marked, Live
  <2> QED
    BY <2>1, <2>2 DEF RestOnRecord
<1>23. CASE SaveFinalManifest
    BY <1>23, FilesAssumption DEF SaveFinalManifest, SaveManifest, Blank, disk, history, Identity, Accounts, RestOnRecord, Rows, Live, Marked
<1>24. CASE Stop
    BY <1>24, FilesAssumption DEF Stop, disk, history, Identity, Accounts, RestOnRecord, Rows, Live, Marked
<1>25. CASE Crash
    BY <1>25, FilesAssumption DEF Crash, Blank, disk, history, Identity, Accounts, RestOnRecord, Rows, Live, Marked
<1>26. CASE UNCHANGED vars
    BY <1>26, FilesAssumption DEF vars, disk, process, history, Identity, Accounts, RestOnRecord, Rows, Live, Marked
<1> QED
    BY <1>1, <1>2, <1>3, <1>4, <1>5, <1>6, <1>7, <1>8, <1>9, <1>10, <1>11, <1>12, <1>13,
       <1>14, <1>15, <1>16, <1>17, <1>18, <1>19, <1>20, <1>21, <1>22, <1>23, <1>24,
       <1>25, <1>26
       DEF Next, Run

\* A loss is logged before the session that found it goes on.
LEMMA LossStep ==
    ASSUME TypeOK, TypeOK', Identity, Accounts, [Next]_vars
    PROVE  LossOnRecord'
<1>1. CASE Start
    BY <1>1, FilesAssumption DEF Start, Restored, disk, history, Identity, Accounts, LossOnRecord, Rows, Live, Marked
<1>2. CASE LogUnexpectedDeath
  <2>1. LogRow("unexpected_death_detected", brain.base) \in Rows("unexpected_death_detected")'
    BY <1>2 DEF LogUnexpectedDeath, Log, LogRow, Rows
  <2>2. LogRow("unexpected_death_detected", brain.base).session = session'
    BY <1>2 DEF LogUnexpectedDeath, LogRow, history
  <2>3. pc' = "log_gap"
    BY <1>2 DEF LogUnexpectedDeath
  <2> QED
    BY <2>1, <2>2, <2>3 DEF LossOnRecord
<1>3. CASE LogGap
    BY <1>3, FilesAssumption DEF LogGap, Log, LogRow, disk, history, Identity, Accounts, LossOnRecord, Rows, Live, Marked
<1>4. CASE MarkRunning
    BY <1>4, FilesAssumption DEF MarkRunning, SaveManifest, disk, history, Identity, Accounts, LossOnRecord, Rows, Live, Marked
<1>5. CASE Birth
    BY <1>5, FilesAssumption DEF Birth, Beat, disk, history, Identity, Accounts, LossOnRecord, Rows, Live, Marked
<1>6. CASE LogRestart
    BY <1>6, FilesAssumption DEF LogRestart, Log, LogRow, disk, history, Identity, Accounts, LossOnRecord, Rows, Live, Marked
<1>7. CASE LogBirth
    BY <1>7, FilesAssumption DEF LogBirth, Log, LogRow, disk, history, Identity, Accounts, LossOnRecord, Rows, Live, Marked
<1>8. CASE BeginStep
    BY <1>8, FilesAssumption DEF BeginStep, disk, history, Identity, Accounts, LossOnRecord, Rows, Live, Marked
<1>9. CASE Process
    BY <1>9, FilesAssumption DEF Process, disk, history, Identity, Accounts, LossOnRecord, Rows, Live, Marked
<1>10. CASE React
    BY <1>10, FilesAssumption DEF React, disk, history, Identity, Accounts, LossOnRecord, Rows, Live, Marked
<1>11. CASE RecordSignal
    BY <1>11, FilesAssumption DEF RecordSignal, disk, history, Identity, Accounts, LossOnRecord, Rows, Live, Marked
<1>12. CASE Heartbeat
    BY <1>12, FilesAssumption DEF Heartbeat, Beat, AfterCheckpoint, disk, history, Identity, Accounts, LossOnRecord, Rows, Live, Marked
<1>13. CASE Prune
    BY <1>13, FilesAssumption DEF Prune, Log, LogRow, disk, history, Identity, Accounts, LossOnRecord, Rows, Live, Marked
<1>14. CASE LogCheckpoint
    BY <1>14, FilesAssumption DEF LogCheckpoint, Log, LogRow, disk, history, Identity, Accounts, LossOnRecord, Rows, Live, Marked
<1>15. CASE SaveCheckpoint
    BY <1>15, FilesAssumption DEF SaveCheckpoint, disk, history, Identity, Accounts, LossOnRecord, Rows, Live, Marked
<1>16. CASE OpenNpz
    BY <1>16, FilesAssumption DEF OpenNpz, disk, history, Identity, Accounts, LossOnRecord, Rows, Live, Marked
<1>17. CASE CloseNpz
    BY <1>17, FilesAssumption DEF CloseNpz, disk, history, Identity, Accounts, LossOnRecord, Rows, Live, Marked
<1>18. CASE SaveSubstrateManifest
    BY <1>18, FilesAssumption DEF SaveSubstrateManifest, disk, history, Identity, Accounts, LossOnRecord, Rows, Live, Marked
<1>19. CASE SaveCheckpointManifest
    BY <1>19, FilesAssumption DEF SaveCheckpointManifest, SaveManifest, AfterCheckpoint, disk, history, Identity, Accounts, LossOnRecord, Rows, Live, Marked
<1>20. CASE EndLoop
    BY <1>20, FilesAssumption DEF EndLoop, disk, history, Identity, Accounts, LossOnRecord, Rows, Live, Marked
<1>21. CASE Interrupt
    BY <1>21, FilesAssumption DEF Interrupt, InLoop, disk, history, Identity, Accounts, LossOnRecord, Rows, Live, Marked
<1>22. CASE Die
    BY <1>22, FilesAssumption DEF Die, Log, LogRow, disk, history, Identity, Accounts, LossOnRecord, Rows, Live, Marked
<1>23. CASE SaveFinalManifest
    BY <1>23, FilesAssumption DEF SaveFinalManifest, SaveManifest, Blank, disk, history, Identity, Accounts, LossOnRecord, Rows, Live, Marked
<1>24. CASE Stop
    BY <1>24, FilesAssumption DEF Stop, disk, history, Identity, Accounts, LossOnRecord, Rows, Live, Marked
<1>25. CASE Crash
    BY <1>25, FilesAssumption DEF Crash, Blank, disk, history, Identity, Accounts, LossOnRecord, Rows, Live, Marked
<1>26. CASE UNCHANGED vars
    BY <1>26, FilesAssumption DEF vars, disk, process, history, Identity, Accounts, LossOnRecord, Rows, Live, Marked
<1> QED
    BY <1>1, <1>2, <1>3, <1>4, <1>5, <1>6, <1>7, <1>8, <1>9, <1>10, <1>11, <1>12, <1>13,
       <1>14, <1>15, <1>16, <1>17, <1>18, <1>19, <1>20, <1>21, <1>22, <1>23, <1>24,
       <1>25, <1>26
       DEF Next, Run

\* A birth finds all earlier ones accounted for.
LEMMA SilentStep ==
    ASSUME TypeOK, TypeOK', Identity, Accounts, NoSilentDeath, [Next]_vars
    PROVE  NoSilentDeath'
<1>1. CASE Start
    BY <1>1 DEF Start, Restored, disk, history, NoSilentDeath, Rows
<1>2. CASE LogUnexpectedDeath
  <2>1. Rows("birth")' = Rows("birth")
    BY <1>2 DEF LogUnexpectedDeath, Log, LogRow, Rows
  <2> QED
    BY <2>1, LogGrows DEF NoSilentDeath, Rows
<1>3. CASE LogGap
  <2>1. Rows("birth")' = Rows("birth")
    BY <1>3 DEF LogGap, Log, LogRow, Rows
  <2> QED
    BY <2>1, LogGrows DEF NoSilentDeath, Rows
<1>4. CASE MarkRunning
    BY <1>4 DEF MarkRunning, SaveManifest, disk, history, NoSilentDeath, Rows
<1>5. CASE Birth
    BY <1>5 DEF Birth, Beat, disk, history, NoSilentDeath, Rows
<1>6. CASE LogRestart
  <2>1. Rows("birth")' = Rows("birth")
    BY <1>6 DEF LogRestart, Log, LogRow, Rows
  <2> QED
    BY <2>1, LogGrows DEF NoSilentDeath, Rows
<1>7. CASE LogBirth
  <2> DEFINE row == LogRow("birth", brain.base)
  <2>1. Rows("birth")' = Rows("birth") \cup {row} /\ row.session = session
    BY <1>7 DEF LogBirth, Log, LogRow, Rows
  <2>2. manifest.session = session /\ session \in Nat /\ \A a \in log : a.session \in Nat
    BY <1>7 DEF LogBirth, Identity, Marked, Live, TypeOK, Row
  <2>3. \A a \in Rows("birth") : a.session <= session
    BY DEF Identity, Rows
  <2>4. SUFFICES ASSUME NEW a \in Rows("birth")', NEW b \in Rows("birth")', a.session < b.session
                 PROVE  \/ \E r \in Rows("graceful_death")' : r.session = a.session
                        \/ \E r \in Rows("unexpected_death_detected")' :
                               a.session < r.session /\ r.session <= b.session
    BY DEF NoSilentDeath
  <2>5. a \in Rows("birth")
    BY <2>1, <2>2, <2>3, <2>4 DEF Rows
  <2>6. CASE b \in Rows("birth")
    BY <2>4, <2>5, <2>6, LogGrows DEF NoSilentDeath, Rows
  <2>7. CASE b = row
    <3>1. Accounted(a, session)
      BY <2>1, <2>2, <2>4, <2>5, <2>7 DEF Accounts, BirthsAccounted
    <3> QED
      BY <2>1, <2>7, <3>1, LogGrows DEF Accounted, Rows
  <2> QED
    BY <2>1, <2>6, <2>7
<1>8. CASE BeginStep
    BY <1>8 DEF BeginStep, disk, history, NoSilentDeath, Rows
<1>9. CASE Process
    BY <1>9 DEF Process, disk, history, NoSilentDeath, Rows
<1>10. CASE React
    BY <1>10 DEF React, disk, history, NoSilentDeath, Rows
<1>11. CASE RecordSignal
    BY <1>11 DEF RecordSignal, disk, history, NoSilentDeath, Rows
<1>12. CASE Heartbeat
    BY <1>12 DEF Heartbeat, Beat, AfterCheckpoint, disk, history, NoSilentDeath, Rows
<1>13. CASE Prune
  <2>1. Rows("birth")' = Rows("birth")
    BY <1>13 DEF Prune, Log, LogRow, Rows
  <2> QED
    BY <2>1, LogGrows DEF NoSilentDeath, Rows
<1>14. CASE LogCheckpoint
  <2>1. Rows("birth")' = Rows("birth")
    BY <1>14 DEF LogCheckpoint, Log, LogRow, Rows
  <2> QED
    BY <2>1, LogGrows DEF NoSilentDeath, Rows
<1>15. CASE SaveCheckpoint
    BY <1>15 DEF SaveCheckpoint, disk, history, NoSilentDeath, Rows
<1>16. CASE OpenNpz
    BY <1>16 DEF OpenNpz, disk, history, NoSilentDeath, Rows
<1>17. CASE CloseNpz
    BY <1>17 DEF CloseNpz, disk, history, NoSilentDeath, Rows
<1>18. CASE SaveSubstrateManifest
    BY <1>18 DEF SaveSubstrateManifest, disk, history, NoSilentDeath, Rows
<1>19. CASE SaveCheckpointManifest
    BY <1>19 DEF SaveCheckpointManifest, SaveManifest, AfterCheckpoint, disk, history, NoSilentDeath, Rows
<1>20. CASE EndLoop
    BY <1>20 DEF EndLoop, disk, history, NoSilentDeath, Rows
<1>21. CASE Interrupt
    BY <1>21 DEF Interrupt, InLoop, disk, history, NoSilentDeath, Rows
<1>22. CASE Die
  <2>1. Rows("birth")' = Rows("birth")
    BY <1>22 DEF Die, Log, LogRow, Rows
  <2> QED
    BY <2>1, LogGrows DEF NoSilentDeath, Rows
<1>23. CASE SaveFinalManifest
    BY <1>23 DEF SaveFinalManifest, SaveManifest, Blank, disk, history, NoSilentDeath, Rows
<1>24. CASE Stop
    BY <1>24 DEF Stop, disk, history, NoSilentDeath, Rows
<1>25. CASE Crash
    BY <1>25 DEF Crash, Blank, disk, history, NoSilentDeath, Rows
<1>26. CASE UNCHANGED vars
    BY <1>26 DEF vars, disk, process, history, NoSilentDeath, Rows
<1> QED
    BY <1>1, <1>2, <1>3, <1>4, <1>5, <1>6, <1>7, <1>8, <1>9, <1>10, <1>11, <1>12, <1>13,
       <1>14, <1>15, <1>16, <1>17, <1>18, <1>19, <1>20, <1>21, <1>22, <1>23, <1>24,
       <1>25, <1>26
       DEF Next, Run

-----------------------------------------------------------------------------
(* The inductive invariant and what follows from it. *)

\* The inductive invariant survives every step: its parts, put together.
LEMMA Inductive ==
    ASSUME IInv, TypeOK', [Next]_vars
    PROVE  IInv'
<1> USE DEF IInv
<1>1. Identity'
    BY IdentityStep
<1>2. OneIdentity'
    BY OneIdentityStep
<1>3. ManifestNeverAhead'
    BY OrderStep
<1>4. ArchiveNeverAhead'
    BY ArchiveStep
<1>5. Progress'
    BY ProgressStep
<1>6. Remembered'
    BY RememberedStep
<1>7. CleanShutdownKeepsEverything'
    BY CleanStep
<1>8. Accounts'
    BY BirthsStep, RestStep, LossStep DEF Accounts
<1>9. NoSilentDeath'
    BY SilentStep
<1> QED
    BY <1>1, <1>2, <1>3, <1>4, <1>5, <1>6, <1>7, <1>8, <1>9

\* The inductive invariant holds in every reachable state.
THEOREM Invariance == Spec => []IInv
<1>1. Init /\ TypeOK => IInv
  <2> SUFFICES ASSUME Init, TypeOK
               PROVE  IInv
    OBVIOUS
  <2>1. Identity /\ OneIdentity /\ ManifestNeverAhead /\ ArchiveNeverAhead
    BY DEF Init, Identity, OneIdentity, ManifestNeverAhead, ArchiveNeverAhead, Marked, Live
  <2>2. Progress /\ Remembered
    BY DEF Init, Progress, Remembered, JsonSaved, NpzSaved, ArchiveSaved, AllSaved, Live
  <2>3. CleanShutdownKeepsEverything /\ Accounts /\ NoSilentDeath
    BY DEF Init, CleanShutdownKeepsEverything, Accounts, BirthsAccounted, RestOnRecord,
           LossOnRecord, NoSilentDeath, Rows
  <2> QED
    BY <2>1, <2>2, <2>3 DEF IInv
<1>2. IInv /\ TypeOK' /\ [Next]_vars => IInv'
    BY Inductive
<1> QED
    BY <1>1, <1>2, TypeCorrect, PTL DEF Spec

\* The lifetime a restart resumes from is always backed by saved state.
THEOREM ManifestBacked == Spec => []ManifestNeverAhead
<1>1. IInv => ManifestNeverAhead
    BY DEF IInv
<1> QED
    BY <1>1, Invariance, PTL

\* The archive that overrides the checkpoint's reservoir holds nothing the checkpoint does not.
THEOREM ArchiveBacked == Spec => []ArchiveNeverAhead
<1>1. IInv => ArchiveNeverAhead
    BY DEF IInv
<1> QED
    BY <1>1, Invariance, PTL

\* After a shutdown that the manifest calls graceful nothing is missing from the files.
THEOREM CleanShutdown == Spec => []CleanShutdownKeepsEverything
<1>1. IInv => CleanShutdownKeepsEverything
    BY DEF IInv
<1> QED
    BY <1>1, Invariance, PTL

\* No session dies without a row in the continuity log once the brain lives again.
THEOREM DeathsRecorded == Spec => []NoSilentDeath
<1>1. IInv => NoSilentDeath
    BY DEF IInv
<1> QED
    BY <1>1, Invariance, PTL

\* The run id of the first manifest is on every row of the continuity log.
THEOREM IdentityKept == Spec => []OneIdentity
<1>1. IInv => OneIdentity
    BY DEF IInv
<1> QED
    BY <1>1, Invariance, PTL

\* Lifetime and restart count never go back.
THEOREM LifetimeMonotone == Spec => LifetimeNeverRegresses
<1> DEFINE Step ==
        manifest # NoFile =>
            /\ manifest' # NoFile
            /\ manifest'.run = manifest.run
            /\ manifest'.lifetime >= manifest.lifetime
            /\ manifest'.restarts = manifest.restarts
                   + (IF manifest'.session = manifest.session THEN 0 ELSE 1)
<1>1. IInv /\ TypeOK' /\ [Next]_vars => [Step]_manifest
  <2> SUFFICES ASSUME IInv, TypeOK', [Next]_vars, manifest' # manifest, manifest # NoFile
               PROVE  Step
    OBVIOUS
  <2>1. MarkRunning \/ SaveCheckpointManifest \/ SaveFinalManifest
    BY DEF Next, Run, vars, disk, process, history, Start, LogUnexpectedDeath, LogGap,
           Birth, LogRestart, LogBirth, BeginStep, Process, React, RecordSignal, Heartbeat, Prune,
           LogCheckpoint, SaveCheckpoint, OpenNpz, CloseNpz, SaveSubstrateManifest,
           EndLoop, Interrupt, Die, Stop, Crash
  <2>2. \E g \in BOOLEAN : SaveManifest(g)
    BY <2>1 DEF MarkRunning, SaveCheckpointManifest, SaveFinalManifest
  <2>3. manifest' \in Manifest /\ manifest' # NoFile
    BY <2>2, SaveManifestType, FilesAssumption DEF IInv
  <2>4. /\ manifest'.run = brain.run
        /\ manifest'.session = session
        /\ manifest'.lifetime = Lifetime
        /\ manifest'.restarts = brain.restarts
    BY <2>2 DEF SaveManifest
  <2>5. manifest \in Manifest
    BY DEF IInv, TypeOK
  <2>6. CASE pc = "mark_running"
    <3>1. /\ brain.run = manifest.run
          /\ brain.base = manifest.lifetime
          /\ brain.step = 0
          /\ brain.restarts = manifest.restarts + 1
          /\ manifest.session < session
      BY <2>6 DEF IInv, Identity
    <3>2. manifest.session # session
      BY <2>5, <3>1 DEF IInv, TypeOK, Manifest
    <3>3. Lifetime = manifest.lifetime
      BY <2>5, <3>1 DEF Lifetime, Manifest
    <3> QED
      BY <2>3, <2>4, <2>5, <3>1, <3>2, <3>3 DEF Manifest
  <2>7. CASE pc \in {"save_manifest", "save_final_manifest"}
    <3>1. /\ brain.run = manifest.run
          /\ manifest.lifetime <= Lifetime
          /\ brain.restarts = manifest.restarts
          /\ manifest.session = session
      BY <2>7 DEF IInv, Identity, Marked, Live
    <3> QED
      BY <2>3, <2>4, <2>5, <3>1 DEF Manifest
  <2> QED
    BY <2>1, <2>6, <2>7 DEF MarkRunning, SaveCheckpointManifest, SaveFinalManifest
<1> QED
    BY <1>1, Invariance, TypeCorrect, PTL DEF Spec, LifetimeNeverRegresses

-----------------------------------------------------------------------------
(* The files tell a life of Continuity. *)

\* A row of a loss is logged only over a lost manifest, and its session is not the manifest's.
LEMMA Reported ==
    ASSUME IInv
    PROVE  /\ pc \in Marked => ~reportedBar
           /\ pc = "mark_running" /\ manifest # NoFile /\ ~manifest.graceful => reportedBar
<1>1. ASSUME pc \in Marked
      PROVE  ~reportedBar
  <2>1. manifest.session = session /\ session \in Nat
    BY <1>1 DEF IInv, Identity, TypeOK
  <2>2. \A r \in log : r.session <= session /\ r.session \in Nat
    BY DEF IInv, Identity, TypeOK, Row
  <2> QED
    BY <2>1, <2>2 DEF reportedBar, Rows
<1>2. ASSUME pc = "mark_running", manifest # NoFile, ~manifest.graceful
      PROVE  reportedBar
  <2>1. \E r \in Rows("unexpected_death_detected") : r.session = session
    BY <1>2 DEF IInv, Accounts, LossOnRecord
  <2>2. manifest.session < session
    BY <1>2 DEF IInv, Identity
  <2> QED
    BY <1>2, <2>1, <2>2 DEF reportedBar
<1> QED
    BY <1>1, <1>2

\* The same of the next state.
LEMMA MarkedUnreported ==
    ASSUME IInv', pc' \in Marked
    PROVE  ~reportedBar'
<1>1. manifest'.session = session' /\ session' \in Nat
    BY DEF IInv, Identity, TypeOK
<1>2. \A r \in log' : r.session <= session' /\ r.session \in Nat
    BY DEF IInv, Identity, TypeOK, Row
<1> QED
    BY <1>1, <1>2 DEF reportedBar, Rows

\* A step that changes neither manifest nor log and stays on its side of the mark is no step of
\* the life.
LEMMA Stutter ==
    ASSUME UNCHANGED <<manifest, log>>,
           manifest = NoFile \/ manifest.graceful \/ (pc' \in Marked <=> pc \in Marked)
    PROVE  UNCHANGED <<phaseBar, lifetimeBar, reportedBar>>
    BY DEF phaseBar, lifetimeBar, reportedBar, Rows

\* A row that is not about a loss is no step of the life either.
LEMMA StutterLog ==
    ASSUME NEW event \in Events, NEW lifetime, Log(event, lifetime),
           event # "unexpected_death_detected", manifest' = manifest,
           pc' \in Marked <=> pc \in Marked
    PROVE  UNCHANGED <<phaseBar, lifetimeBar, reportedBar>>
<1>1. Rows("unexpected_death_detected")' = Rows("unexpected_death_detected")
    BY DEF Log, LogRow, Rows
<1> QED
    BY <1>1 DEF phaseBar, lifetimeBar, reportedBar

\* The state directory implements the life of Continuity, whatever the crashes.
THEOREM Implements == Spec => RefinesContinuity
<1>1. Init => Life!Init
    BY DEF Init, Life!Init, phaseBar, lifetimeBar, reportedBar
<1>2. IInv /\ TypeOK' /\ IInv' /\ [Next]_vars => [Life!Next]_(Life!vars)
  <2> SUFFICES ASSUME IInv, TypeOK', IInv', [Next]_vars
               PROVE  [Life!Next]_(Life!vars)
    OBVIOUS
  <2> USE DEF Life!vars
  <2>1. CASE Start
    BY <2>1, Stutter DEF Start, disk, Marked, Live
  <2>2. CASE LogUnexpectedDeath
    <3>1. manifest # NoFile /\ ~manifest.graceful /\ manifest' = manifest
      BY <2>2 DEF LogUnexpectedDeath, IInv, Identity, Accounts, LossOnRecord
    <3>2. manifest.session < session
      BY <2>2, <3>1 DEF LogUnexpectedDeath, IInv, Identity
    <3>3. reportedBar'
      <4> DEFINE row == LogRow("unexpected_death_detected", brain.base)
      <4>1. row \in log' /\ row.event = "unexpected_death_detected" /\ row.session = session
        BY <2>2 DEF LogUnexpectedDeath, Log, LogRow
      <4>2. row \in Rows("unexpected_death_detected")'
        BY <4>1 DEF Rows
      <4>3. row.session > manifest'.session
        BY <3>1, <3>2, <4>1 DEF IInv, TypeOK, Manifest
      <4>4. manifest' # NoFile
        BY <3>1
      <4> QED
        BY <4>2, <4>3, <4>4 DEF reportedBar
    <3>4. phaseBar = "lost" /\ phaseBar' = phaseBar /\ lifetimeBar' = lifetimeBar
      BY <2>2, <3>1 DEF LogUnexpectedDeath, phaseBar, lifetimeBar, Marked, Live
    <3> QED
      BY <3>3, <3>4 DEF Life!Next, Life!Report
  <2>3. CASE LogGap
    BY <2>3, StutterLog DEF LogGap, Marked, Live
  <2>4. CASE MarkRunning
    <3>1. manifest' \in Manifest /\ manifest'.lifetime = Lifetime /\ ~manifest'.graceful
      BY <2>4, SaveManifestType DEF MarkRunning, SaveManifest, IInv
    <3>2. manifest' # NoFile /\ pc' \in Marked
      BY <2>4, <3>1, FilesAssumption DEF MarkRunning, Marked, Live
    <3>3. phaseBar' = "alive" /\ ~reportedBar'
      BY <3>1, <3>2, MarkedUnreported DEF phaseBar
    <3>4. lifetimeBar' = lifetimeBar
      BY <2>4, <3>1, <3>2 DEF MarkRunning, IInv, Identity, Lifetime, lifetimeBar, TypeOK, Brain, Manifest
    <3>5. \/ phaseBar \in {"unborn", "resting"}
          \/ phaseBar = "lost" /\ reportedBar
      BY <2>4, Reported DEF MarkRunning, phaseBar, Marked, Live
    <3> QED
      BY <3>3, <3>4, <3>5 DEF Life!Next, Life!Awaken
  <2>5. CASE Birth
    BY <2>5, Stutter DEF Birth, disk, Marked, Live
  <2>6. CASE LogRestart
    BY <2>6, StutterLog DEF LogRestart, Marked, Live
  <2>7. CASE LogBirth
    BY <2>7, StutterLog DEF LogBirth, Marked, Live
  <2>8. CASE BeginStep \/ Process \/ React
    BY <2>8, Stutter DEF BeginStep, Process, React, disk, Marked, Live
  <2>9. CASE RecordSignal
    BY <2>9, Stutter DEF RecordSignal, Marked, Live
  <2>10. CASE Heartbeat
    BY <2>10, Stutter DEF Heartbeat, AfterCheckpoint, disk, Marked, Live
  <2>11. CASE Prune
    BY <2>11, StutterLog DEF Prune, Marked, Live
  <2>12. CASE LogCheckpoint
    BY <2>12, StutterLog DEF LogCheckpoint, Marked, Live
  <2>13. CASE SaveCheckpoint \/ OpenNpz \/ CloseNpz \/ SaveSubstrateManifest
    BY <2>13, Stutter DEF SaveCheckpoint, OpenNpz, CloseNpz, SaveSubstrateManifest, Marked, Live
  <2>14. CASE SaveCheckpointManifest
    <3>1. manifest' \in Manifest /\ manifest'.lifetime = Lifetime /\ ~manifest'.graceful
      BY <2>14, SaveManifestType DEF SaveCheckpointManifest, SaveManifest, IInv
    <3>2. manifest' # NoFile /\ pc \in Marked /\ pc' \in Marked
      BY <2>14, <3>1, FilesAssumption DEF SaveCheckpointManifest, AfterCheckpoint, Marked, Live
    <3>3. manifest # NoFile /\ ~manifest.graceful /\ manifest.lifetime <= Lifetime
      BY <3>2 DEF IInv, Identity
    <3>4. phaseBar = "alive" /\ phaseBar' = "alive"
      BY <3>1, <3>2, <3>3 DEF phaseBar
    <3>5. lifetimeBar' \in Nat /\ lifetimeBar' >= lifetimeBar
      BY <3>1, <3>2, <3>3 DEF lifetimeBar, Manifest, IInv, TypeOK
    <3>6. reportedBar' = reportedBar
      <4>1. ~reportedBar /\ ~reportedBar'
        BY <3>2, Reported, MarkedUnreported
      <4>2. reportedBar \in BOOLEAN /\ reportedBar' \in BOOLEAN
        BY DEF reportedBar
      <4> QED
        BY <4>1, <4>2, Zenon
    <3> QED
      BY <3>4, <3>5, <3>6 DEF Life!Next, Life!Grow
  <2>15. CASE EndLoop
    BY <2>15, Stutter DEF EndLoop, disk, Marked, Live
  <2>16. CASE Interrupt
    BY <2>16, Stutter DEF Interrupt, InLoop, disk, Marked, Live
  <2>17. CASE Die
    BY <2>17, StutterLog DEF Die, Marked, Live
  <2>18. CASE SaveFinalManifest
    <3>1. manifest' \in Manifest /\ manifest'.lifetime = Lifetime /\ manifest'.graceful
      BY <2>18, SaveManifestType DEF SaveFinalManifest, SaveManifest, IInv
    <3>2. manifest' # NoFile /\ pc \in Marked
      BY <2>18, <3>1, FilesAssumption DEF SaveFinalManifest, Marked, Live
    <3>3. manifest # NoFile /\ ~manifest.graceful /\ manifest.lifetime = Lifetime
      BY <2>18, <3>2 DEF SaveFinalManifest, IInv, Identity, Progress, AllSaved
    <3>4. phaseBar = "alive" /\ phaseBar' = "resting" /\ lifetimeBar' = lifetimeBar
      BY <3>1, <3>2, <3>3 DEF phaseBar, lifetimeBar
    <3>5. manifest'.session = manifest.session /\ log' = log
      BY <2>18, <3>2 DEF SaveFinalManifest, SaveManifest, IInv, Identity
    <3>6. reportedBar' = reportedBar
      BY <3>2, <3>3, <3>5 DEF reportedBar, Rows
    <3> QED
      BY <3>4, <3>6 DEF Life!Next, Life!Rest
  <2>19. CASE Stop
    BY <2>19, Stutter DEF Stop, disk
  <2>20. CASE Crash
    <3>1. UNCHANGED <<manifest, log>> /\ pc' \notin Marked
      BY <2>20 DEF Crash, disk, Marked, Live
    <3>2. CASE pc \in Marked
      <4>1. phaseBar = "alive" /\ phaseBar' = "lost"
        BY <3>1, <3>2 DEF phaseBar, IInv, Identity
      <4>2. lifetimeBar' = lifetimeBar /\ reportedBar' = reportedBar
        BY <3>1 DEF lifetimeBar, reportedBar, Rows
      <4> QED
        BY <4>1, <4>2 DEF Life!Next, Life!Lose
    <3>3. CASE pc \notin Marked
      BY <3>1, <3>3, Stutter
    <3> QED
      BY <3>2, <3>3
  <2>21. CASE UNCHANGED vars
    BY <2>21, Stutter DEF vars, disk, process
  <2> QED
    BY <2>1, <2>2, <2>3, <2>4, <2>5, <2>6, <2>7, <2>8, <2>9, <2>10, <2>11, <2>12, <2>13, <2>14,
       <2>15, <2>16, <2>17, <2>18, <2>19, <2>20, <2>21 DEF Next, Run
<1> QED
    BY <1>1, <1>2, Invariance, TypeCorrect, PTL DEF Spec, RefinesContinuity, Life!Spec
=============================================================================
