-------------------------- MODULE EvidenceRotation --------------------------
(***************************************************************************)
(* The JSONL evidence of a state directory, as several supervised sessions *)
(* leave it: each appends rows, and when it finalizes it compresses the    *)
(* log into an archive named for the second, truncates the log, and trims  *)
(* the archives that its scan found to be surplus.  A session may crash at *)
(* any step, also in the middle of a row, and nothing locks the directory, *)
(* so two may be alive at once.                                            *)
(*                                                                         *)
(* Rows are numbered as they are recorded; a file is the set of its rows.  *)
(***************************************************************************)
EXTENDS Integers, FiniteSets

CONSTANTS
    Sessions,     \* the processes that may open the log
    Keep,         \* keep_archives
    CompressOver, \* rows from which a log is compressed
    MaxRows,      \* bound: rows recorded in a behaviour
    MaxClock,     \* bound: seconds in a behaviour
    MaxLives      \* bound: starts of a session's process

ASSUME RotationAssumption ==
    /\ Keep \in Nat
    /\ CompressOver \in Nat \ {0}
    /\ MaxRows \in Nat
    /\ MaxClock \in Nat
    /\ MaxLives \in Nat

VARIABLES
    log,         \* the rows of the live log
    torn,        \* the log ends in a row without its newline
    archives,    \* the rows of the archive of each second there is one of
    clock,       \* the second it is
    next,        \* the next row
    stage,       \* stage[p]: where session p is
    plan,        \* plan[p]: the archives its scan found to be surplus
    stamp,       \* stamp[p]: the second its archive is named for
    lives,       \* lives[p]: starts of session p
    damaged,     \* history: rows no reader can parse
    cuts,        \* history: rows cut short by a crash
    shared,      \* history: two sessions have been alive at once
    clash,       \* history: an archive was written over by a later one
    doubled,     \* history: the rows of the log when it was copied and not truncated
    missed,      \* history: the sessions that could not remove an archive they had to
    unfinished   \* history: rotations begun since one last removed all it had to

process == <<stage, plan, stamp, lives>>
rows == <<next, damaged, cuts, torn>>
history == <<shared, clash, doubled, missed, unfinished>>
vars == <<log, archives, clock, rows, process, history>>

Rows == 1..MaxRows
Seconds == 0..MaxClock
Stages == {"off", "running", "compress", "copy", "truncate", "trim"}

Init ==
    /\ log = {} /\ archives = [t \in {} |-> {}]
    /\ clock = 0
    /\ next = 1 /\ damaged = {} /\ cuts = 0 /\ torn = FALSE
    /\ stage = [p \in Sessions |-> "off"]
    /\ plan = [p \in Sessions |-> {}]
    /\ stamp = [p \in Sessions |-> 0]
    /\ lives = [p \in Sessions |-> 0]
    /\ shared = FALSE /\ clash = FALSE
    /\ doubled = {} /\ missed = {} /\ unfinished = 0

Alive == {p \in Sessions : stage[p] # "off"}
Become(p, st) == stage' = [stage EXCEPT ![p] = st]

-----------------------------------------------------------------------------
(* A session: it opens its logs to append, and records. *)

Start(p) ==
    /\ stage[p] = "off"
    /\ lives[p] < MaxLives
    /\ lives' = [lives EXCEPT ![p] = @ + 1]
    /\ Become(p, "running")
    /\ shared' = (shared \/ Alive # {})
    /\ UNCHANGED <<log, archives, clock, rows, plan, stamp, clash, doubled, missed, unfinished>>

\* Slip: the line that lacks its newline is never ended.
RecordUnended(p) ==
    /\ stage[p] = "running"
    /\ next <= MaxRows
    /\ next' = next + 1
    /\ log' = log \cup {next}
    /\ damaged' = IF torn THEN damaged \cup {next} ELSE damaged
    /\ UNCHANGED <<torn, archives, clock, cuts, process, history>>

\* JsonlWriter.write: one line, which continues the line before when that
\* lacks its newline.
Record(p) ==
    /\ stage[p] = "running"
    /\ next <= MaxRows
    /\ next' = next + 1
    /\ log' = log \cup {next}
    /\ damaged' = IF torn THEN damaged \cup {next} ELSE damaged
    /\ torn' = FALSE
    /\ UNCHANGED <<archives, clock, cuts, process, history>>

\* The same, cut short by a crash.
RecordCut(p) ==
    /\ stage[p] = "running"
    /\ next <= MaxRows
    /\ next' = next + 1
    /\ log' = log \cup {next}
    /\ damaged' = damaged \cup {next}
    /\ cuts' = cuts + 1
    /\ torn' = TRUE
    /\ Become(p, "off")
    /\ UNCHANGED <<archives, clock, plan, stamp, lives, history>>

-----------------------------------------------------------------------------
(* rotate, step by step. *)

\* Slip: one archive more is kept.
SurplusLess(files) == {t \in files : Cardinality({u \in files : u > t}) > Keep}

\* The archives beyond the newest Keep.
Surplus(files) == {t \in files : Cardinality({u \in files : u > t}) >= Keep}

\* scan, and the stamp of the archive to come.
Scan(p) ==
    /\ stage[p] = "running"
    /\ plan' = [plan EXCEPT ![p] = Surplus(DOMAIN archives)]
    /\ stamp' = [stamp EXCEPT ![p] = clock]
    /\ Become(p, IF Cardinality(log) >= CompressOver THEN "compress" ELSE "trim")
    /\ missed' = missed \ {p}
    /\ unfinished' = unfinished + 1
    /\ UNCHANGED <<log, archives, clock, rows, lives, shared, clash, doubled>>

\* The archive of second t, or a new one, holding the rows of lines.
Archived(t, lines) == [u \in DOMAIN archives \cup {t} |-> IF u = t THEN lines ELSE archives[u]]

\* gzip.open(target, "wb"): what an archive of that name held is gone.
OpenArchive(p) ==
    /\ stage[p] = "compress"
    /\ archives' = Archived(stamp[p], {})
    /\ clash' = (clash \/ stamp[p] \in DOMAIN archives)
    /\ Become(p, "copy")
    /\ UNCHANGED <<log, clock, rows, plan, stamp, lives, shared, doubled, missed, unfinished>>

\* copyfileobj to the end of the log.  An archive another session has trimmed
\* meanwhile takes the rows with it.
Copy(p) ==
    /\ stage[p] = "copy"
    /\ archives' = IF stamp[p] \in DOMAIN archives THEN Archived(stamp[p], log) ELSE archives
    /\ Become(p, "truncate")
    /\ UNCHANGED <<log, clock, rows, plan, stamp, lives, history>>

\* Slip: the log is truncated all the same.
CopyFailsUnnoticed(p) ==
    /\ stage[p] = "copy"
    /\ Become(p, "truncate")
    /\ UNCHANGED <<log, archives, clock, rows, plan, stamp, lives, history>>

\* The log or the archive cannot be opened, or the disk is full: rotate notes
\* the error and goes on, and what there is of the archive stays.
CopyFails(p) ==
    /\ stage[p] \in {"compress", "copy"}
    /\ Become(p, "trim")
    /\ UNCHANGED <<log, archives, clock, rows, plan, stamp, lives, history>>

\* Slip: a line without its newline stays in the log, to be ended there.
TruncateWhole(p) ==
    /\ stage[p] = "truncate"
    /\ log' = IF torn THEN log \cap {next - 1} ELSE {}
    /\ Become(p, "trim")
    /\ UNCHANGED <<torn, archives, clock, next, damaged, cuts, plan, stamp, lives, history>>

\* path.write_text("").
Truncate(p) ==
    /\ stage[p] = "truncate"
    /\ log' = {}
    /\ torn' = FALSE
    /\ Become(p, "trim")
    /\ UNCHANGED <<archives, clock, next, damaged, cuts, plan, stamp, lives, history>>

\* The same, failing: the log stays, and its archive with it.
TruncateFails(p) ==
    /\ stage[p] = "truncate"
    /\ doubled' = doubled \cup log
    /\ Become(p, "trim")
    /\ UNCHANGED <<log, archives, clock, rows, plan, stamp, lives, shared, clash, missed, unfinished>>

\* The archive to be removed next: the newest of those left of the plan.
Following(p, t) ==
    /\ stage[p] = "trim"
    /\ t \in plan[p] /\ \A u \in plan[p] : u <= t
    /\ plan' = [plan EXCEPT ![p] = @ \ {t}]

\* path.unlink(), of one archive.
Unlink(p) ==
    \E t \in DOMAIN archives :
        /\ Following(p, t)
        /\ archives' = [u \in DOMAIN archives \ {t} |-> archives[u]]
        /\ UNCHANGED <<log, clock, rows, stage, stamp, lives, history>>

\* The same, failing, as it must when another session has removed the archive:
\* rotate notes the error and goes on with the next one.
UnlinkFails(p) ==
    \E t \in Seconds :
        /\ Following(p, t)
        /\ missed' = missed \cup {p}
        /\ UNCHANGED <<log, archives, clock, rows, stage, stamp, lives, shared, clash, doubled, unfinished>>

\* rotate returns its report, and the session ends.
Finish(p) ==
    /\ stage[p] = "trim" /\ plan[p] = {}
    /\ unfinished' = IF p \in missed THEN unfinished ELSE 0
    /\ Become(p, "off")
    /\ UNCHANGED <<log, archives, clock, rows, plan, stamp, lives, shared, clash, doubled, missed>>

Crash(p) ==
    /\ stage[p] # "off"
    /\ doubled' = IF stage[p] = "truncate" THEN doubled \cup log ELSE doubled
    /\ Become(p, "off")
    /\ UNCHANGED <<log, archives, clock, rows, plan, stamp, lives, shared, clash, missed, unfinished>>

Tick ==
    /\ clock < MaxClock
    /\ clock' = clock + 1
    /\ UNCHANGED <<log, archives, rows, process, history>>

Session(p) ==
    \/ Start(p) \/ Record(p) \/ RecordCut(p) \/ Scan(p) \/ OpenArchive(p) \/ Copy(p)
    \/ CopyFails(p) \/ Truncate(p) \/ TruncateFails(p) \/ Unlink(p) \/ UnlinkFails(p)
    \/ Finish(p) \/ Crash(p)

Next == Tick \/ \E p \in Sessions : Session(p)

Spec == Init /\ [][Next]_vars

-----------------------------------------------------------------------------
(* Properties. *)

\* Every variable has its type.
TypeOK ==
    /\ log \subseteq Rows /\ damaged \subseteq Rows
    /\ torn \in BOOLEAN /\ shared \in BOOLEAN /\ clash \in BOOLEAN
    /\ doubled \subseteq Rows /\ missed \subseteq Sessions
    /\ DOMAIN archives \subseteq Seconds
    /\ archives \in [DOMAIN archives -> SUBSET Rows]
    /\ clock \in Seconds
    /\ next \in 1..(MaxRows + 1)
    /\ stage \in [Sessions -> Stages]
    /\ plan \in [Sessions -> SUBSET Seconds]
    /\ stamp \in [Sessions -> Seconds]
    /\ lives \in [Sessions -> 0..MaxLives]
    /\ cuts \in Nat
    /\ unfinished \in Nat

Recorded == {r \in Rows : r < next}
Archives(r) == {t \in DOMAIN archives : r \in archives[t]}
Kept(r) == r \in log \/ Archives(r) # {}

\* One session at a time, and no two rotations in one second.
Exclusive == ~shared /\ ~clash

\* Whatever fails and wherever a session crashes, no step loses a row of the
\* log, nor one of an archive but where Keep newer archives stay (rotate
\* truncates only what it has copied, and removes, in whatever order and with
\* whatever errors, only what is surplus still when its turn comes).  Archives
\* cut short count among the newer: scan does not look into them.
EvidenceKept ==
    [][Exclusive' =>
          \A r \in Recorded : Kept(r) /\ ~Kept(r)' =>
              /\ r \notin log
              /\ \A t \in Archives(r) : Cardinality({u \in DOMAIN archives' : u > t}) >= Keep]_vars

\* A row is in one place only, but while its rotation is about to truncate the
\* log.  A truncation that is missed, by an error or a crash, doubles the rows
\* then in the log and no row before or after them: the next rotation copies
\* the log as it is, and no reader meets any other row twice.
OneCopy ==
    Exclusive =>
        \A r \in Recorded \ doubled :
            /\ Cardinality(Archives(r)) <= 1
            /\ r \in log /\ Archives(r) # {} => \E p \in Sessions : stage[p] = "truncate"

\* A rotation that removes all that its scan found leaves Keep archives and its
\* own, whatever it found; one that was cut off, or could not remove an
\* archive, leaves one more at most.
ArchivesBounded == ~shared => Cardinality(DOMAIN archives) <= Keep + 1 + unfinished

\* A row that was cut short costs itself and at most one row more, the next,
\* whichever session writes that, and never a row of an archive before it.
DamageBounded == Cardinality(damaged) + (IF torn THEN 1 ELSE 0) <= 2 * cuts
=============================================================================
