----------------------- MODULE EvidenceRotationProofs -----------------------
(***************************************************************************)
(* Proofs about EvidenceRotation, for any number of sessions, archives to  *)
(* keep and rows.                                                          *)
(***************************************************************************)
EXTENDS EvidenceRotation, FiniteSetTheorems, TLAPS

Rotating == {"compress", "copy", "truncate", "trim"}

\* One session at a time.
Alone == ~shared => \A p, q \in Alive : p = q

\* Files hold nothing that was not recorded.
OnlyRecorded ==
    /\ log \subseteq Recorded
    /\ \A t \in DOMAIN archives : archives[t] \subseteq Recorded

\* How many archives a rotation will leave, if it can remove what it has to.
Counted ==
    ~shared =>
        /\ Cardinality(DOMAIN archives) <= Keep + 1 + unfinished
        /\ \A p \in Sessions :
              /\ stage[p] \in Rotating /\ p \notin missed => Cardinality(DOMAIN archives \ plan[p]) <= Keep + 1
              /\ stage[p] = "compress" =>
                    /\ Cardinality(DOMAIN archives \ plan[p]) <= Keep
                    /\ Cardinality(DOMAIN archives) <= Keep + unfinished

\* The archives that are newer than one of second t.
Newer(S, t) == {u \in S : u > t}

\* What a rotation has still to remove is older than Keep archives that it will
\* not; its own archive is there, new, and holds the log when that is truncated.
PreparedAt(p) ==
    /\ stage[p] \in Rotating =>
          \A t \in plan[p] : Cardinality(Newer(DOMAIN archives \ plan[p], t)) >= Keep
    /\ stage[p] \in {"copy", "truncate"} => stamp[p] \in DOMAIN archives
    /\ stage[p] = "copy" => archives[stamp[p]] = {}
    /\ stage[p] = "truncate" => log \subseteq archives[stamp[p]]

Prepared == Exclusive => \A p \in Sessions : PreparedAt(p)

\* Where a row may be twice.
Single ==
    Exclusive =>
        /\ \A t, u \in DOMAIN archives : \A r \in Rows \ doubled : r \in archives[t] /\ r \in archives[u] => t = u
        /\ \A t \in DOMAIN archives : \A r \in Rows \ doubled :
              r \in archives[t] /\ r \in log => \E p \in Sessions : stage[p] = "truncate"

IInv ==
    /\ TypeOK /\ DamageBounded
    /\ Alone /\ OnlyRecorded /\ Counted /\ Prepared /\ Single

-----------------------------------------------------------------------------
(* Archives by age. *)

LEMMA NewerFinite ==
    ASSUME NEW S \in SUBSET Int, IsFiniteSet(S), NEW t \in S
    PROVE  /\ IsFiniteSet(Newer(S, t))
           /\ Cardinality(Newer(S, t)) \in 0..(Cardinality(S) - 1)
<1>1. Newer(S, t) \subseteq S \ {t}
    BY DEF Newer
<1>2. IsFiniteSet(S \ {t}) /\ Cardinality(S \ {t}) = Cardinality(S) - 1 /\ Cardinality(S) \in Nat
    BY FS_RemoveElement, FS_CardinalityType
<1>3. IsFiniteSet(Newer(S, t)) /\ Cardinality(Newer(S, t)) <= Cardinality(S \ {t})
    BY <1>1, <1>2, FS_Subset
<1>4. Cardinality(Newer(S, t)) \in Nat
    BY <1>3, FS_CardinalityType
<1> QED
    BY <1>2, <1>3, <1>4

\* The older of two has more that are newer.
LEMMA OlderHasMore ==
    ASSUME NEW S \in SUBSET Int, IsFiniteSet(S), NEW t \in S, NEW u \in S, t < u
    PROVE  Cardinality(Newer(S, u)) < Cardinality(Newer(S, t))
<1>1. IsFiniteSet(Newer(S, t)) /\ Cardinality(Newer(S, t)) \in Nat
    BY NewerFinite
<1>2. \A x \in S : x > u => x > t
    <2>1. t \in Int /\ u \in Int /\ \A x \in S : x \in Int
        OBVIOUS
    <2> QED
        BY <2>1
<1>3. u \in Newer(S, t) /\ u \notin Newer(S, u)
    BY DEF Newer
<1>4. IsFiniteSet(Newer(S, u)) /\ Cardinality(Newer(S, u)) <= Cardinality(Newer(S, t))
      /\ Cardinality(Newer(S, u)) # Cardinality(Newer(S, t))
    <2>1. Newer(S, u) \subseteq Newer(S, t)
        BY <1>2 DEF Newer
    <2> QED
        BY <1>1, <1>3, <2>1, FS_Subset
<1>5. Cardinality(Newer(S, u)) \in Nat
    BY <1>4, FS_CardinalityType
<1> QED
    BY <1>1, <1>4, <1>5

\* The number of newer ones tells archives apart.
LEMMA NewerInjective ==
    ASSUME NEW S \in SUBSET Int, IsFiniteSet(S), NEW T \in SUBSET S, NEW U,
           \A t \in T : Cardinality(Newer(S, t)) \in U
    PROVE  [t \in T |-> Cardinality(Newer(S, t))] \in Injection(T, U)
<1> DEFINE f == [t \in T |-> Cardinality(Newer(S, t))]
<1>1. f \in [T -> U]
    OBVIOUS
<1>2. ASSUME NEW t \in T, NEW u \in T, f[t] = f[u] PROVE t = u
    <2>1. \A x \in S : Cardinality(Newer(S, x)) \in Int
        BY NewerFinite
    <2>2. ~(t < u) /\ ~(u < t)
        BY <1>2, <2>1, OlderHasMore
    <2> QED
        BY <2>2
<1> QED
    BY <1>1, <1>2 DEF Injection, IsInjective

\* What is not surplus is Keep archives at most.
LEMMA KeptAreFew ==
    ASSUME NEW S \in SUBSET Int, IsFiniteSet(S)
    PROVE  Cardinality(S \ Surplus(S)) <= Keep
<1> DEFINE T == S \ Surplus(S)
<1>1. \A t \in T : Cardinality(Newer(S, t)) \in 0..(Keep - 1)
    <2> SUFFICES ASSUME NEW t \in T PROVE Cardinality(Newer(S, t)) \in 0..(Keep - 1)
        OBVIOUS
    <2>1. ~(Cardinality(Newer(S, t)) >= Keep)
        BY DEF Surplus, Newer
    <2>2. Cardinality(Newer(S, t)) \in Nat
        BY NewerFinite
    <2> QED
        BY <2>1, <2>2, RotationAssumption
<1>2. [t \in T |-> Cardinality(Newer(S, t))] \in Injection(T, 0..(Keep - 1))
    BY <1>1, NewerInjective
<1>3. IsFiniteSet(0..(Keep - 1)) /\ Cardinality(0..(Keep - 1)) = Keep
    BY FS_Interval, RotationAssumption
<1> QED
    BY <1>2, <1>3, FS_Injection

\* And Keep at least, as soon as one is surplus.
LEMMA KeptAreEnough ==
    ASSUME NEW S \in SUBSET Int, IsFiniteSet(S), Surplus(S) # {}
    PROVE  Cardinality(S \ Surplus(S)) >= Keep
<1> DEFINE n == Cardinality(S)
           f == [t \in S |-> Cardinality(Newer(S, t))]
<1>1. n \in Nat
    BY FS_CardinalityType
<1>2. f \in Injection(S, 0..(n - 1))
    BY NewerFinite, NewerInjective
<1>3. IsFiniteSet(0..(n - 1)) /\ Cardinality(0..(n - 1)) = n
    BY SMTT(30), <1>1, FS_Interval
<1>4. f \in Surjection(S, 0..(n - 1))
    BY <1>2, <1>3, FS_Injection
<1>5. Keep \in 0..(n - 1)
    <2>1. PICK t \in S : Cardinality(Newer(S, t)) >= Keep
        BY DEF Surplus, Newer
    <2>2. Cardinality(Newer(S, t)) \in 0..(n - 1)
        BY NewerFinite
    <2> QED
        BY <1>1, <2>1, <2>2, RotationAssumption
<1>6. PICK t \in S : f[t] = Keep
    BY <1>4, <1>5 DEF Surjection
<1>7. Cardinality(Newer(S, t)) = Keep
    BY <1>6
<1>8. Newer(S, t) \subseteq S \ Surplus(S)
    <2> SUFFICES ASSUME NEW u \in Newer(S, t) PROVE u \in S /\ u \notin Surplus(S)
        OBVIOUS
    <2>1. u \in S /\ u > t
        BY DEF Newer
    <2>2. Cardinality(Newer(S, u)) < Keep
        BY <1>7, <2>1, OlderHasMore
    <2>3. Cardinality(Newer(S, u)) \in Nat
        BY <2>1, NewerFinite
    <2> QED
        BY <2>1, <2>2, <2>3, RotationAssumption DEF Surplus, Newer
<1>9. IsFiniteSet(S \ Surplus(S))
    BY FS_Difference
<1> QED
    BY <1>7, <1>8, <1>9, FS_Subset

\* Whatever is older than a surplus archive is surplus.
LEMMA SurplusIsOldest ==
    ASSUME NEW S \in SUBSET Int, IsFiniteSet(S), NEW t \in Surplus(S), NEW u \in S \ Surplus(S)
    PROVE  t < u
<1>1. t \in S /\ Cardinality(Newer(S, t)) >= Keep /\ ~(Cardinality(Newer(S, u)) >= Keep)
    BY DEF Surplus, Newer
<1>2. Cardinality(Newer(S, t)) \in Int /\ Cardinality(Newer(S, u)) \in Int
    BY <1>1, NewerFinite
<1>3. ~(u < t)
    BY <1>1, <1>2, OlderHasMore, RotationAssumption
<1> QED
    BY <1>1, <1>3

-----------------------------------------------------------------------------
(* Types, and what holds of any step. *)

LEMMA ArchivedType ==
    ASSUME TypeOK, NEW t \in Seconds, NEW lines \in SUBSET Rows
    PROVE  /\ DOMAIN Archived(t, lines) = DOMAIN archives \cup {t}
           /\ DOMAIN Archived(t, lines) \subseteq Seconds
           /\ Archived(t, lines) \in [DOMAIN Archived(t, lines) -> SUBSET Rows]
           /\ Archived(t, lines)[t] = lines
           /\ \A u \in DOMAIN archives : u # t => Archived(t, lines)[u] = archives[u]
BY DEF TypeOK, Archived

\* Opening an archive changes no other.
LEMMA OpenArchives ==
    ASSUME TypeOK, NEW p \in Sessions, OpenArchive(p)
    PROVE  /\ DOMAIN archives' = DOMAIN archives \cup {stamp[p]}
           /\ archives'[stamp[p]] = {}
           /\ \A u \in DOMAIN archives : u # stamp[p] => archives'[u] = archives[u]
<1> DEFINE t == stamp[p]
<1>1. t \in Seconds
    BY DEF TypeOK
<1>2. /\ DOMAIN Archived(t, {}) = DOMAIN archives \cup {t}
      /\ Archived(t, {})[t] = {}
      /\ \A u \in DOMAIN archives : u # t => Archived(t, {})[u] = archives[u]
    BY DEF Archived
<1>3. archives' = Archived(t, {})
    BY DEF OpenArchive
<1> QED
    BY <1>2, <1>3

\* Copying changes none of the archives there are but the session's own.
LEMMA CopyArchives ==
    ASSUME TypeOK, NEW p \in Sessions, Copy(p)
    PROVE  /\ DOMAIN archives' = DOMAIN archives
           /\ stamp[p] \in DOMAIN archives => archives'[stamp[p]] = log
           /\ \A u \in DOMAIN archives : u # stamp[p] => archives'[u] = archives[u]
<1>1. log \in SUBSET Rows /\ stamp[p] \in Seconds
    BY DEF TypeOK
<1> QED
    BY <1>1, ArchivedType DEF Copy

\* Removing one changes no other.
LEMMA UnlinkArchives ==
    ASSUME NEW p \in Sessions, Unlink(p)
    PROVE  \E t \in DOMAIN archives :
              /\ Following(p, t)
              /\ DOMAIN archives' = DOMAIN archives \ {t}
              /\ \A u \in DOMAIN archives' : archives'[u] = archives[u]
              /\ UNCHANGED <<log, clock, rows, stage, stamp, lives, history>>
BY DEF Unlink

LEMMA TypesKept == TypeOK /\ [Next]_vars => TypeOK'
<1> SUFFICES ASSUME TypeOK, [Next]_vars PROVE TypeOK'
    OBVIOUS
<1> USE RotationAssumption
<1>1. CASE UNCHANGED vars
    BY <1>1 DEF vars, rows, process, history, TypeOK
<1>2. CASE Tick
    BY <1>2 DEF Tick, rows, process, history, TypeOK, Seconds
<1>3. ASSUME NEW p \in Sessions, Session(p) PROVE TypeOK'
    <2>1. CASE Start(p)
        BY <2>1 DEF Start, rows, TypeOK, Become, Stages
    <2>2. CASE Record(p)
        <3>1. next \in Rows /\ next' \in 1..(MaxRows + 1)
            BY <2>2 DEF Record, TypeOK, Rows
        <3>2. log' \subseteq Rows /\ damaged' \subseteq Rows
            BY <2>2, <3>1 DEF Record, TypeOK
        <3> QED
            BY <2>2, <3>1, <3>2 DEF Record, process, history, TypeOK
    <2>3. CASE RecordCut(p)
        <3>1. next \in Rows /\ next' \in 1..(MaxRows + 1)
            BY <2>3 DEF RecordCut, TypeOK, Rows
        <3>2. log' \subseteq Rows /\ damaged' \subseteq Rows
            BY <2>3, <3>1 DEF RecordCut, TypeOK
        <3>3. stage' \in [Sessions -> Stages]
            BY <2>3 DEF RecordCut, TypeOK, Become, Stages
        <3> QED
            BY <2>3, <3>1, <3>2, <3>3 DEF RecordCut, history, TypeOK
    <2>4. CASE Scan(p)
        <3>1. Surplus(DOMAIN archives) \subseteq Seconds
            BY DEF Surplus, TypeOK
        <3>2. plan' \in [Sessions -> SUBSET Seconds] /\ stamp' \in [Sessions -> Seconds]
            BY <2>4, <3>1 DEF Scan, TypeOK
        <3>3. stage' \in [Sessions -> Stages]
            BY <2>4 DEF Scan, TypeOK, Become, Stages
        <3>4. missed' \subseteq Sessions /\ unfinished' \in Nat
            BY <2>4 DEF Scan, TypeOK
        <3> QED
            BY <2>4, <3>2, <3>3, <3>4 DEF Scan, rows, TypeOK
    <2>5. CASE OpenArchive(p)
        <3>1. stamp[p] \in Seconds
            BY DEF TypeOK
        <3>2. DOMAIN archives' \subseteq Seconds /\ archives' \in [DOMAIN archives' -> SUBSET Rows]
            BY <2>5, <3>1, ArchivedType DEF OpenArchive
        <3>3. stage' \in [Sessions -> Stages]
            BY <2>5 DEF OpenArchive, TypeOK, Become, Stages
        <3>4. clash' \in BOOLEAN
            BY <2>5 DEF OpenArchive, TypeOK
        <3> QED
            BY <2>5, <3>2, <3>3, <3>4 DEF OpenArchive, rows, TypeOK
    <2>6. CASE Copy(p)
        <3>1. stamp[p] \in Seconds /\ log \in SUBSET Rows
            BY DEF TypeOK
        <3>2. DOMAIN archives' \subseteq Seconds /\ archives' \in [DOMAIN archives' -> SUBSET Rows]
            BY <2>6, <3>1, ArchivedType DEF Copy, TypeOK
        <3>3. stage' \in [Sessions -> Stages]
            BY <2>6 DEF Copy, TypeOK, Become, Stages
        <3> QED
            BY <2>6, <3>2, <3>3 DEF Copy, rows, history, TypeOK
    <2>7. CASE CopyFails(p)
        BY <2>7 DEF CopyFails, rows, history, TypeOK, Become, Stages
    <2>8. CASE Truncate(p)
        BY <2>8 DEF Truncate, history, TypeOK, Become, Stages
    <2>9. CASE TruncateFails(p)
        <3>1. doubled' \subseteq Rows
            BY <2>9 DEF TruncateFails, TypeOK
        <3> QED
            BY <2>9, <3>1 DEF TruncateFails, rows, TypeOK, Become, Stages
    <2>10. CASE Unlink(p)
        <3>1. PICK t \in DOMAIN archives :
                 /\ Following(p, t)
                 /\ archives' = [u \in DOMAIN archives \ {t} |-> archives[u]]
                 /\ UNCHANGED <<log, clock, rows, stage, stamp, lives, history>>
            BY <2>10 DEF Unlink
        <3>2. DOMAIN archives' \subseteq Seconds /\ archives' \in [DOMAIN archives' -> SUBSET Rows]
            BY <3>1 DEF TypeOK
        <3>3. plan' \in [Sessions -> SUBSET Seconds]
            BY <3>1 DEF Following, TypeOK
        <3> QED
            BY <3>1, <3>2, <3>3 DEF rows, history, TypeOK
    <2>11. CASE UnlinkFails(p)
        <3>1. PICK t \in Seconds : Following(p, t)
            BY <2>11 DEF UnlinkFails
        <3>2. plan' \in [Sessions -> SUBSET Seconds]
            BY <3>1 DEF Following, TypeOK
        <3>3. missed' \subseteq Sessions
            BY <2>11 DEF UnlinkFails, TypeOK
        <3> QED
            BY <2>11, <3>2, <3>3 DEF UnlinkFails, rows, TypeOK
    <2>12. CASE Finish(p)
        <3>1. stage' \in [Sessions -> Stages]
            BY <2>12 DEF Finish, TypeOK, Become, Stages
        <3>2. unfinished' \in Nat
            BY <2>12 DEF Finish, TypeOK
        <3> QED
            BY <2>12, <3>1, <3>2 DEF Finish, rows, TypeOK
    <2>13. CASE Crash(p)
        <3>1. stage' \in [Sessions -> Stages]
            BY <2>13 DEF Crash, TypeOK, Become, Stages
        <3>2. doubled' \subseteq Rows
            BY <2>13 DEF Crash, TypeOK
        <3> QED
            BY <2>13, <3>1, <3>2 DEF Crash, rows, TypeOK
    <2> QED
        BY <1>3, <2>1, <2>2, <2>3, <2>4, <2>5, <2>6, <2>7, <2>8, <2>9, <2>10, <2>11, <2>12, <2>13 DEF Session
<1> QED
    BY <1>1, <1>2, <1>3 DEF Next

LEMMA AloneKept == TypeOK /\ Alone /\ [Next]_vars => Alone'
<1> SUFFICES ASSUME TypeOK, Alone, [Next]_vars, ~shared' PROVE \A p, q \in Alive' : p = q
    BY DEF Alone
<1>1. CASE UNCHANGED <<stage, shared>>
    BY <1>1 DEF Alone, Alive
<1>2. ASSUME NEW p \in Sessions, Session(p) PROVE \A q, r \in Alive' : q = r
    <2>1. CASE Start(p)
        <3>1. Alive = {}
            BY <2>1 DEF Start
        <3>2. Alive' \subseteq {p}
            BY <2>1, <3>1 DEF Start, Become, TypeOK, Alive
        <3> QED
            BY <3>2
    <2>2. CASE ~Start(p)
        <3>1. Alive' \subseteq Alive /\ ~shared
            BY <1>2, <2>2 DEF Session, Record, RecordCut, Scan, OpenArchive, Copy, CopyFails, Truncate, TruncateFails, Unlink, UnlinkFails, Following, Finish, Crash,
                   Become, TypeOK, Alive, history, process
        <3> QED
            BY <3>1 DEF Alone
    <2> QED
        BY <2>1, <2>2
<1> QED
    BY <1>1, <1>2 DEF Next, vars, Tick, process, history

\* A row that is cut short costs itself and the next one.
LEMMA DamageKept == TypeOK /\ DamageBounded /\ [Next]_vars => DamageBounded'
<1> SUFFICES ASSUME TypeOK, DamageBounded, [Next]_vars PROVE DamageBounded'
    OBVIOUS
<1>1. IsFiniteSet(damaged) /\ Cardinality(damaged) \in Nat
    <2>1. IsFiniteSet(Rows)
        BY FS_Interval, RotationAssumption DEF Rows
    <2> QED
        BY <2>1, FS_Subset, FS_CardinalityType DEF TypeOK
<1>2. Cardinality(damaged \cup {next}) \in {Cardinality(damaged), Cardinality(damaged) + 1}
    BY <1>1, FS_AddElement
<1>3. cuts \in Nat /\ torn \in BOOLEAN
    BY DEF TypeOK
<1>4. CASE UNCHANGED <<damaged, torn, cuts>>
    BY <1>4 DEF DamageBounded
<1>5. ASSUME NEW p \in Sessions, Session(p) PROVE DamageBounded'
    <2>1. CASE Record(p)
        BY <1>1, <1>2, <1>3, <2>1 DEF Record, DamageBounded
    <2>2. CASE RecordCut(p)
        BY <1>1, <1>2, <1>3, <2>2 DEF RecordCut, DamageBounded
    <2>3. CASE Truncate(p)
        BY <1>1, <1>3, <2>3 DEF Truncate, DamageBounded
    <2> QED
        BY <1>4, <1>5, <2>1, <2>2, <2>3
           DEF Session, Start, Scan, OpenArchive, Copy, CopyFails, TruncateFails, Unlink, UnlinkFails, Finish, Crash, rows
<1> QED
    BY <1>4, <1>5 DEF Next, vars, Tick, rows

LEMMA OnlyRecordedKept == TypeOK /\ OnlyRecorded /\ [Next]_vars => OnlyRecorded'
<1> SUFFICES ASSUME TypeOK, OnlyRecorded, [Next]_vars PROVE OnlyRecorded'
    OBVIOUS
<1>1. CASE UNCHANGED <<log, archives, next>>
    BY <1>1 DEF OnlyRecorded, Recorded
<1>2. ASSUME NEW p \in Sessions, Session(p) PROVE OnlyRecorded'
    <2>1. CASE Record(p) \/ RecordCut(p)
        <3>1. next \in Rows /\ next' = next + 1 /\ log' = log \cup {next}
            BY <2>1 DEF Record, RecordCut, TypeOK, Rows
        <3>2. Recorded \subseteq Recorded' /\ next \in Recorded'
            BY <3>1 DEF Recorded, Rows
        <3>3. UNCHANGED archives
            BY <2>1 DEF Record, RecordCut, process
        <3> QED
            BY <3>1, <3>2, <3>3 DEF OnlyRecorded
    <2>2. CASE OpenArchive(p)
        <3>1. /\ DOMAIN archives' = DOMAIN archives \cup {stamp[p]}
              /\ archives'[stamp[p]] = {}
              /\ \A u \in DOMAIN archives : u # stamp[p] => archives'[u] = archives[u]
            BY <2>2, OpenArchives
        <3>2. UNCHANGED <<log, next>>
            BY <2>2 DEF OpenArchive, rows
        <3> QED
            BY <3>1, <3>2 DEF OnlyRecorded, Recorded
    <2>3. CASE Copy(p)
        <3>1. /\ DOMAIN archives' = DOMAIN archives
              /\ \A u \in DOMAIN archives : archives'[u] \in {archives[u], log}
            BY <2>3, CopyArchives
        <3>2. UNCHANGED <<log, next>>
            BY <2>3 DEF Copy, rows
        <3>3. \A u \in DOMAIN archives : archives'[u] \subseteq Recorded
            BY <3>1 DEF OnlyRecorded
        <3> QED
            BY <3>1, <3>2, <3>3 DEF OnlyRecorded, Recorded
    <2>4. CASE Truncate(p)
        BY <2>4 DEF Truncate, OnlyRecorded, Recorded
    <2>5. CASE Unlink(p)
        <3>1. /\ DOMAIN archives' \subseteq DOMAIN archives
              /\ \A u \in DOMAIN archives' : archives'[u] = archives[u]
              /\ UNCHANGED <<log, rows>>
            BY <2>5, UnlinkArchives
        <3> QED
            BY <3>1 DEF rows, OnlyRecorded, Recorded
    <2> QED
        BY <1>1, <1>2, <2>1, <2>2, <2>3, <2>4, <2>5
           DEF Session, Start, Scan, CopyFails, TruncateFails, UnlinkFails, Finish, Crash, rows
<1> QED
    BY <1>1, <1>2 DEF Next, vars, Tick, rows

-----------------------------------------------------------------------------
(* A session that has the directory to itself. *)

\* Nobody else is, or becomes, alive.
LEMMA NobodyElse ==
    ASSUME TypeOK, Alone, NEW p \in Sessions, Session(p), ~shared'
    PROVE  /\ ~shared
           /\ \A q \in Sessions : q # p => stage[q] = "off" /\ stage'[q] = "off"
<1>1. ~shared
    BY DEF Session, Start, Record, RecordCut, Scan, OpenArchive, Copy, CopyFails, Truncate, TruncateFails, Unlink, UnlinkFails, Following, Finish, Crash, history
<1>2. \A q \in Sessions : q # p => stage'[q] = stage[q]
    BY DEF Session, Start, Record, RecordCut, Scan, OpenArchive, Copy, CopyFails, Truncate, TruncateFails, Unlink, UnlinkFails, Following, Finish, Crash,
           Become, TypeOK, process
<1>3. \A q \in Sessions : q # p => stage[q] = "off"
    <2>1. CASE Start(p)
        BY <2>1 DEF Start, Alive
    <2>2. CASE ~Start(p)
        <3>1. p \in Alive
            BY <2>2 DEF Session, Record, RecordCut, Scan, OpenArchive, Copy, CopyFails, Truncate, TruncateFails, Unlink, UnlinkFails, Following, Finish, Crash, Alive
        <3> QED
            BY <1>1, <3>1 DEF Alone, Alive
    <2> QED
        BY <2>1, <2>2
<1> QED
    BY <1>1, <1>2, <1>3

\* Where each step takes the session.
LEMMA WhereTo ==
    ASSUME TypeOK, NEW p \in Sessions
    PROVE  /\ Start(p) => stage[p] = "off" /\ stage'[p] = "running"
           /\ Record(p) => stage[p] = "running" /\ stage'[p] = "running"
           /\ RecordCut(p) => stage[p] = "running" /\ stage'[p] = "off"
           /\ Scan(p) => stage[p] = "running" /\ stage'[p] \in {"compress", "trim"}
           /\ OpenArchive(p) => stage[p] = "compress" /\ stage'[p] = "copy"
           /\ Copy(p) => stage[p] = "copy" /\ stage'[p] = "truncate"
           /\ CopyFails(p) => stage[p] \in {"compress", "copy"} /\ stage'[p] = "trim"
           /\ Truncate(p) => stage[p] = "truncate" /\ stage'[p] = "trim"
           /\ TruncateFails(p) => stage[p] = "truncate" /\ stage'[p] = "trim"
           /\ Unlink(p) => stage[p] = "trim" /\ stage'[p] = "trim"
           /\ UnlinkFails(p) => stage[p] = "trim" /\ stage'[p] = "trim"
           /\ Finish(p) => stage[p] = "trim" /\ stage'[p] = "off"
           /\ Crash(p) => stage[p] # "off" /\ stage'[p] = "off"
BY DEF Start, Record, RecordCut, Scan, OpenArchive, Copy, CopyFails, Truncate, TruncateFails, Unlink, UnlinkFails, Following, Finish, Crash, Become, TypeOK, process

LEMMA ArchivesFinite ==
    ASSUME TypeOK
    PROVE  /\ DOMAIN archives \in SUBSET Int
           /\ \A S \in SUBSET DOMAIN archives : IsFiniteSet(S) /\ Cardinality(S) \in Nat
<1>1. IsFiniteSet(Seconds) /\ Seconds \subseteq Int
    BY FS_Interval, RotationAssumption DEF Seconds
<1>2. IsFiniteSet(DOMAIN archives) /\ DOMAIN archives \subseteq Int
    BY <1>1, FS_Subset DEF TypeOK
<1> QED
    BY <1>2, FS_Subset, FS_CardinalityType

\* The new archive is one more at most, also of those that will not be trimmed.
LEMMA OneArchiveMore ==
    ASSUME TypeOK, NEW p \in Sessions, OpenArchive(p)
    PROVE  /\ DOMAIN archives' = DOMAIN archives \cup {stamp[p]}
           /\ Cardinality(DOMAIN archives') <= Cardinality(DOMAIN archives) + 1
           /\ Cardinality(DOMAIN archives' \ plan[p]) <= Cardinality(DOMAIN archives \ plan[p]) + 1
           /\ Cardinality(DOMAIN archives') \in Nat
           /\ Cardinality(DOMAIN archives' \ plan[p]) \in Nat
<1> DEFINE D == DOMAIN archives
           K == DOMAIN archives \ plan[p]
           E == DOMAIN archives' \ plan[p]
<1>1. DOMAIN archives' = D \cup {stamp[p]}
    BY ArchivedType DEF OpenArchive, TypeOK
<1>2. IsFiniteSet(D) /\ Cardinality(D) \in Nat /\ IsFiniteSet(K) /\ Cardinality(K) \in Nat
    BY ArchivesFinite
<1>3. Cardinality(D \cup {stamp[p]}) \in {Cardinality(D), Cardinality(D) + 1}
    BY <1>2, FS_AddElement
<1>4. /\ IsFiniteSet(K \cup {stamp[p]})
      /\ Cardinality(K \cup {stamp[p]}) \in {Cardinality(K), Cardinality(K) + 1}
    BY <1>2, FS_AddElement
<1>5. E \subseteq K \cup {stamp[p]}
    BY <1>1
<1>6. IsFiniteSet(E) /\ Cardinality(E) <= Cardinality(K \cup {stamp[p]})
    BY <1>4, <1>5, FS_Subset
<1>7. Cardinality(E) \in Nat /\ Cardinality(K \cup {stamp[p]}) \in Nat
    BY <1>4, <1>6, FS_CardinalityType
<1> QED
    BY <1>1, <1>2, <1>3, <1>4, <1>6, <1>7

\* An archive goes from the directory and from the plan at once: those that
\* will not be removed stay as they are.
LEMMA OneArchiveLess ==
    ASSUME TypeOK, NEW p \in Sessions, Unlink(p)
    PROVE  /\ DOMAIN archives' \ plan'[p] = DOMAIN archives \ plan[p]
           /\ plan'[p] \subseteq plan[p]
           /\ Cardinality(DOMAIN archives') <= Cardinality(DOMAIN archives)
           /\ Cardinality(DOMAIN archives') \in Nat
           /\ UNCHANGED <<missed, unfinished>>
<1>1. PICK t \in DOMAIN archives :
         /\ Following(p, t)
         /\ DOMAIN archives' = DOMAIN archives \ {t}
         /\ UNCHANGED history
    BY UnlinkArchives
<1>2. t \in plan[p] /\ plan'[p] = plan[p] \ {t}
    BY <1>1 DEF Following, TypeOK
<1>3. DOMAIN archives' \in SUBSET DOMAIN archives
    BY <1>1
<1>4. IsFiniteSet(DOMAIN archives) /\ Cardinality(DOMAIN archives') \in Nat
    BY <1>3, ArchivesFinite
<1>5. Cardinality(DOMAIN archives') <= Cardinality(DOMAIN archives)
    BY <1>3, <1>4, FS_Subset
<1> QED
    BY <1>1, <1>2, <1>4, <1>5 DEF history

LEMMA CountKept == TypeOK /\ Alone /\ Counted /\ [Next]_vars => Counted'
<1> SUFFICES ASSUME TypeOK, Alone, Counted, [Next]_vars, ~shared'
             PROVE  /\ Cardinality(DOMAIN archives') <= Keep + 1 + unfinished'
                    /\ \A q \in Sessions :
                          /\ stage'[q] \in Rotating /\ q \notin missed' =>
                                Cardinality(DOMAIN archives' \ plan'[q]) <= Keep + 1
                          /\ stage'[q] = "compress" =>
                                /\ Cardinality(DOMAIN archives' \ plan'[q]) <= Keep
                                /\ Cardinality(DOMAIN archives') <= Keep + unfinished'
    BY DEF Counted
<1>0. Keep \in Nat /\ unfinished \in Nat
    BY RotationAssumption DEF TypeOK
<1>1. CASE UNCHANGED <<archives, stage, plan, shared, missed, unfinished>>
    BY <1>1 DEF Counted
<1>2. ASSUME NEW p \in Sessions, Session(p)
      PROVE  /\ Cardinality(DOMAIN archives') <= Keep + 1 + unfinished'
             /\ \A q \in Sessions :
                   /\ stage'[q] \in Rotating /\ q \notin missed' =>
                         Cardinality(DOMAIN archives' \ plan'[q]) <= Keep + 1
                   /\ stage'[q] = "compress" =>
                         /\ Cardinality(DOMAIN archives' \ plan'[q]) <= Keep
                         /\ Cardinality(DOMAIN archives') <= Keep + unfinished'
    <2>1. ~shared /\ \A q \in Sessions : q # p => stage'[q] = "off"
        BY <1>2, NobodyElse
    <2> SUFFICES /\ Cardinality(DOMAIN archives') <= Keep + 1 + unfinished'
                 /\ stage'[p] \in Rotating /\ p \notin missed' =>
                       Cardinality(DOMAIN archives' \ plan'[p]) <= Keep + 1
                 /\ stage'[p] = "compress" =>
                       /\ Cardinality(DOMAIN archives' \ plan'[p]) <= Keep
                       /\ Cardinality(DOMAIN archives') <= Keep + unfinished'
        BY <2>1 DEF Rotating
    <2>2. /\ Cardinality(DOMAIN archives) <= Keep + 1 + unfinished
          /\ stage[p] \in Rotating /\ p \notin missed => Cardinality(DOMAIN archives \ plan[p]) <= Keep + 1
          /\ stage[p] = "compress" =>
                /\ Cardinality(DOMAIN archives \ plan[p]) <= Keep
                /\ Cardinality(DOMAIN archives) <= Keep + unfinished
        BY <2>1 DEF Counted
    <2>3. /\ Cardinality(DOMAIN archives) \in Nat
          /\ Cardinality(DOMAIN archives \ plan[p]) \in Nat
        BY ArchivesFinite
    <2>4. CASE Start(p) \/ Record(p) \/ RecordCut(p) \/ Crash(p)
        BY <2>2, <2>4, WhereTo DEF Start, Record, RecordCut, Crash, process, history, rows, Rotating
    <2>5. CASE Scan(p)
        <3>1. plan'[p] = Surplus(DOMAIN archives) /\ archives' = archives /\ unfinished' = unfinished + 1
            BY <2>5 DEF Scan, TypeOK
        <3>2. Cardinality(DOMAIN archives \ Surplus(DOMAIN archives)) <= Keep
            BY ArchivesFinite, KeptAreFew
        <3>3. Cardinality(DOMAIN archives \ Surplus(DOMAIN archives)) \in Nat
            BY ArchivesFinite
        <3> QED
            BY <1>0, <2>2, <2>3, <3>1, <3>2, <3>3
    <2>6. CASE OpenArchive(p)
        <3>1. plan' = plan /\ unfinished' = unfinished
            BY <2>6 DEF OpenArchive
        <3>2. stage[p] = "compress" /\ stage'[p] = "copy"
            BY <2>6, WhereTo
        <3>3. /\ Cardinality(DOMAIN archives') <= Cardinality(DOMAIN archives) + 1
              /\ Cardinality(DOMAIN archives' \ plan[p]) <= Cardinality(DOMAIN archives \ plan[p]) + 1
              /\ Cardinality(DOMAIN archives') \in Nat
              /\ Cardinality(DOMAIN archives' \ plan[p]) \in Nat
            BY <2>6, OneArchiveMore
        <3> QED
            BY <1>0, <2>2, <2>3, <3>1, <3>2, <3>3
    <2>7. CASE Copy(p) \/ CopyFails(p) \/ Truncate(p) \/ TruncateFails(p)
        <3>1. DOMAIN archives' = DOMAIN archives /\ plan' = plan /\ missed' = missed /\ unfinished' = unfinished
            BY <2>7, CopyArchives DEF Copy, CopyFails, Truncate, TruncateFails, history
        <3> QED
            BY <2>2, <2>7, <3>1, WhereTo DEF Rotating
    <2>8. CASE Unlink(p)
        <3>1. /\ DOMAIN archives' \ plan'[p] = DOMAIN archives \ plan[p]
              /\ Cardinality(DOMAIN archives') <= Cardinality(DOMAIN archives)
              /\ Cardinality(DOMAIN archives') \in Nat
              /\ missed' = missed /\ unfinished' = unfinished
            BY <2>8, OneArchiveLess
        <3>2. stage[p] = "trim" /\ stage'[p] = "trim"
            BY <2>8, WhereTo
        <3>3. Cardinality(DOMAIN archives') <= Keep + 1 + unfinished
            BY <1>0, <2>2, <2>3, <3>1
        <3> QED
            BY <2>2, <3>1, <3>2, <3>3
    <2>9. CASE UnlinkFails(p)
        BY <2>2, <2>9, WhereTo DEF UnlinkFails
    <2>10. CASE Finish(p)
        <3>1. archives' = archives /\ stage[p] = "trim" /\ stage'[p] = "off" /\ plan[p] = {}
            BY <2>10, WhereTo DEF Finish
        <3>2. unfinished' = IF p \in missed THEN unfinished ELSE 0
            BY <2>10 DEF Finish
        <3>3. DOMAIN archives \ plan[p] = DOMAIN archives
            BY <3>1
        <3> QED
            BY <1>0, <2>2, <2>3, <3>1, <3>2, <3>3 DEF Rotating
    <2> QED
        BY <1>2, <2>4, <2>5, <2>6, <2>7, <2>8, <2>9, <2>10 DEF Session
<1> QED
    BY <1>1, <1>2 DEF Next, vars, Tick, process, history

-----------------------------------------------------------------------------
(* What a rotation is about to do to the archives. *)

\* What is older than Keep of some archives is older than Keep of all of them.
LEMMA StillSurplus ==
    ASSUME NEW S \in SUBSET Int, IsFiniteSet(S), NEW R \in SUBSET S, NEW t,
           Cardinality(Newer(R, t)) >= Keep
    PROVE  Cardinality(Newer(S, t)) >= Keep
<1>1. Newer(R, t) \subseteq Newer(S, t) /\ Newer(S, t) \subseteq S
    BY DEF Newer
<1>2. IsFiniteSet(Newer(S, t))
    BY <1>1, FS_Subset
<1>3. Cardinality(Newer(R, t)) <= Cardinality(Newer(S, t)) /\ IsFiniteSet(Newer(R, t))
    BY <1>1, <1>2, FS_Subset
<1>4. Cardinality(Newer(R, t)) \in Nat /\ Cardinality(Newer(S, t)) \in Nat
    BY <1>2, <1>3, FS_CardinalityType
<1> QED
    BY <1>3, <1>4, RotationAssumption

\* A step of a session that has the directory to itself, and overwrites no
\* archive: what it starts from.
LEMMA Undisturbed ==
    ASSUME TypeOK, Alone, Prepared, NEW p \in Sessions, Session(p), Exclusive'
    PROVE  /\ Exclusive /\ PreparedAt(p)
           /\ \A q \in Sessions : q # p => stage[q] = "off" /\ stage'[q] = "off"
           /\ OpenArchive(p) => stamp[p] \notin DOMAIN archives
<1>1. ~shared' /\ ~clash'
    BY DEF Exclusive
<1>2. ~shared /\ \A q \in Sessions : q # p => stage[q] = "off" /\ stage'[q] = "off"
    BY <1>1, NobodyElse
<1>3. ~clash
    BY <1>1 DEF Session, Start, Record, RecordCut, Scan, OpenArchive, Copy, CopyFails, Truncate, TruncateFails,
           Unlink, UnlinkFails, Finish, Crash, history
<1>4. OpenArchive(p) => stamp[p] \notin DOMAIN archives
    BY <1>1 DEF OpenArchive
<1> QED
    BY <1>2, <1>3, <1>4 DEF Prepared, Exclusive

LEMMA PreparedKept == TypeOK /\ Alone /\ Prepared /\ [Next]_vars => Prepared'
<1> SUFFICES ASSUME TypeOK, Alone, Prepared, [Next]_vars, Exclusive'
             PROVE  \A q \in Sessions : PreparedAt(q)'
    BY DEF Prepared
<1>1. CASE UNCHANGED <<log, archives, stage, plan, stamp, shared, clash>>
    BY <1>1 DEF Prepared, PreparedAt, Exclusive
<1>2. ASSUME NEW p \in Sessions, Session(p) PROVE \A q \in Sessions : PreparedAt(q)'
    <2>1. /\ PreparedAt(p)
          /\ \A q \in Sessions : q # p => stage'[q] = "off"
          /\ OpenArchive(p) => stamp[p] \notin DOMAIN archives
        BY <1>2, Undisturbed
    <2> SUFFICES PreparedAt(p)'
        BY <2>1 DEF PreparedAt, Rotating
    <2>2. DOMAIN archives \in SUBSET Int /\ IsFiniteSet(DOMAIN archives)
        BY ArchivesFinite
    <2>3. CASE Start(p) \/ Record(p) \/ RecordCut(p) \/ Finish(p) \/ Crash(p)
        BY <2>3, WhereTo DEF PreparedAt, Rotating
    <2>4. CASE Scan(p)
        <3> DEFINE D == DOMAIN archives
                   R == D \ Surplus(D)
        <3>1. plan'[p] = Surplus(D) /\ archives' = archives /\ stage'[p] \in {"compress", "trim"}
            BY <2>4, WhereTo DEF Scan, TypeOK
        <3>2. ASSUME NEW t \in Surplus(D) PROVE Cardinality(Newer(R, t)) >= Keep
            <4>1. \A u \in R : u > t
                <5>1. \A u \in R : t < u
                    BY <2>2, SurplusIsOldest
                <5>2. t \in Int /\ \A u \in R : u \in Int
                    BY <2>2 DEF Surplus
                <5> QED
                    BY <5>1, <5>2
            <4>2. Newer(R, t) = R
                BY <4>1 DEF Newer
            <4> QED
                BY <2>2, <4>2, KeptAreEnough
        <3> QED
            BY <3>1, <3>2 DEF PreparedAt
    <2>5. CASE OpenArchive(p)
        <3>1. /\ plan' = plan /\ stamp' = stamp
              /\ stage[p] = "compress" /\ stage'[p] = "copy"
            BY <2>5, WhereTo DEF OpenArchive
        <3>2. DOMAIN archives' = DOMAIN archives \cup {stamp[p]} /\ archives'[stamp[p]] = {}
            BY <2>5, OpenArchives
        <3>3. stamp[p] \in Int
            BY DEF TypeOK, Seconds
        <3>4. DOMAIN archives' \in SUBSET Int /\ IsFiniteSet(DOMAIN archives')
            BY <2>2, <3>2, <3>3, FS_AddElement
        <3>5. ASSUME NEW t \in plan[p] PROVE Cardinality(Newer(DOMAIN archives' \ plan[p], t)) >= Keep
            <4>1. Cardinality(Newer(DOMAIN archives \ plan[p], t)) >= Keep
                BY <2>1, <3>1, <3>5 DEF PreparedAt, Rotating
            <4>2. /\ DOMAIN archives \ plan[p] \in SUBSET (DOMAIN archives' \ plan[p])
                  /\ DOMAIN archives' \ plan[p] \in SUBSET Int
                  /\ IsFiniteSet(DOMAIN archives' \ plan[p])
                BY <3>2, <3>4, FS_Difference
            <4> QED
                BY <4>1, <4>2, StillSurplus
        <3> QED
            BY <3>1, <3>2, <3>5 DEF PreparedAt
    <2>6. CASE Copy(p)
        <3>1. /\ plan' = plan /\ stamp' = stamp /\ log' = log
              /\ stage[p] = "copy" /\ stage'[p] = "truncate"
            BY <2>6, WhereTo DEF Copy
        <3>2. DOMAIN archives' = DOMAIN archives
            BY <2>6, CopyArchives
        <3>3. archives'[stamp[p]] = log
            BY <2>1, <2>6, <3>1, CopyArchives DEF PreparedAt
        <3> QED
            BY <2>1, <3>1, <3>2, <3>3 DEF PreparedAt, Rotating
    <2>7. CASE CopyFails(p) \/ Truncate(p) \/ TruncateFails(p)
        <3>1. /\ plan' = plan /\ archives' = archives
              /\ stage[p] \in {"compress", "copy", "truncate"} /\ stage'[p] = "trim"
            BY <2>7, WhereTo DEF CopyFails, Truncate, TruncateFails
        <3> QED
            BY <2>1, <3>1 DEF PreparedAt, Rotating
    <2>8. CASE Unlink(p)
        <3>1. DOMAIN archives' \ plan'[p] = DOMAIN archives \ plan[p] /\ plan'[p] \subseteq plan[p]
            BY <2>8, OneArchiveLess
        <3>2. stage[p] = "trim" /\ stage'[p] = "trim"
            BY <2>8, WhereTo
        <3> QED
            BY <2>1, <3>1, <3>2 DEF PreparedAt, Rotating
    <2>9. CASE UnlinkFails(p)
        <3>1. stage[p] = "trim" /\ stage'[p] = "trim" /\ archives' = archives
            BY <2>9, WhereTo DEF UnlinkFails
        <3>2. plan'[p] \subseteq plan[p]
            BY <2>9 DEF UnlinkFails, Following, TypeOK
        <3>3. ASSUME NEW t \in plan'[p] PROVE Cardinality(Newer(DOMAIN archives \ plan'[p], t)) >= Keep
            <4>1. Cardinality(Newer(DOMAIN archives \ plan[p], t)) >= Keep
                BY <2>1, <3>1, <3>2, <3>3 DEF PreparedAt, Rotating
            <4>2. /\ DOMAIN archives \ plan[p] \in SUBSET (DOMAIN archives \ plan'[p])
                  /\ DOMAIN archives \ plan'[p] \in SUBSET Int
                  /\ IsFiniteSet(DOMAIN archives \ plan'[p])
                BY <2>2, <3>2, FS_Difference
            <4> QED
                BY <4>1, <4>2, StillSurplus
        <3> QED
            BY <3>1, <3>3 DEF PreparedAt
    <2> QED
        BY <1>2, <2>3, <2>4, <2>5, <2>6, <2>7, <2>8, <2>9 DEF Session
<1> QED
    BY <1>1, <1>2 DEF Next, vars, Tick, process, history

-----------------------------------------------------------------------------
(* What becomes of the rows. *)

\* A row that a step loses was in no file but archives that are surplus.
LEMMA LostOnlyIfSurplus ==
    ASSUME TypeOK, Alone, Prepared, [Next]_vars, Exclusive',
           NEW r \in Recorded, Kept(r), ~Kept(r)'
    PROVE  /\ r \notin log
           /\ \A t \in Archives(r) : Cardinality({u \in DOMAIN archives' : u > t}) >= Keep
<1>1. CASE UNCHANGED <<log, archives>>
    BY <1>1 DEF Kept, Archives
<1>2. ASSUME NEW p \in Sessions, Session(p)
      PROVE  /\ r \notin log
             /\ \A t \in Archives(r) : Cardinality({u \in DOMAIN archives' : u > t}) >= Keep
    <2>1. /\ PreparedAt(p)
          /\ OpenArchive(p) => stamp[p] \notin DOMAIN archives
        BY <1>2, Undisturbed
    <2>2. /\ r \notin log' /\ \A t \in DOMAIN archives' : r \notin archives'[t]
          /\ r \in log \/ \E t \in DOMAIN archives : r \in archives[t]
        BY DEF Kept, Archives
    <2>3. CASE Record(p) \/ RecordCut(p)
        BY <2>2, <2>3 DEF Record, RecordCut
    <2>4. CASE OpenArchive(p)
        <3>1. log' = log
            BY <2>4 DEF OpenArchive
        <3>2. /\ DOMAIN archives' = DOMAIN archives \cup {stamp[p]}
              /\ \A u \in DOMAIN archives : archives'[u] = archives[u]
            BY <2>1, <2>4, OpenArchives
        <3> QED
            BY <2>2, <3>1, <3>2
    <2>5. CASE Copy(p)
        <3>1. log' = log /\ stage[p] = "copy"
            BY <2>5 DEF Copy
        <3>2. archives[stamp[p]] = {}
            BY <2>1, <3>1 DEF PreparedAt
        <3>3. /\ DOMAIN archives' = DOMAIN archives
              /\ \A u \in DOMAIN archives : u # stamp[p] => archives'[u] = archives[u]
            BY <2>5, CopyArchives
        <3> QED
            BY <2>2, <3>1, <3>2, <3>3
    <2>6. CASE Truncate(p)
        <3>1. archives' = archives /\ stage[p] = "truncate"
            BY <2>6 DEF Truncate
        <3>2. stamp[p] \in DOMAIN archives /\ log \subseteq archives[stamp[p]]
            BY <2>1, <3>1 DEF PreparedAt
        <3> QED
            BY <2>2, <3>1, <3>2
    <2>7. CASE Unlink(p)
        <3>1. PICK t \in DOMAIN archives :
                 /\ Following(p, t)
                 /\ DOMAIN archives' = DOMAIN archives \ {t}
                 /\ \A u \in DOMAIN archives' : archives'[u] = archives[u]
                 /\ log' = log
            BY <2>7, UnlinkArchives
        <3>2. r \notin log /\ Archives(r) \subseteq {t}
            BY <2>2, <3>1 DEF Archives
        <3>3. t \in plan[p] /\ stage[p] = "trim"
            BY <3>1 DEF Following
        <3>4. Cardinality(Newer(DOMAIN archives \ plan[p], t)) >= Keep
            BY <2>1, <3>3 DEF PreparedAt, Rotating
        <3>5. DOMAIN archives \ plan[p] \in SUBSET DOMAIN archives'
            BY <3>1, <3>3
        <3>6. DOMAIN archives' \in SUBSET Int /\ IsFiniteSet(DOMAIN archives')
            BY <3>1, ArchivesFinite
        <3>7. Cardinality(Newer(DOMAIN archives', t)) >= Keep
            BY <3>4, <3>5, <3>6, StillSurplus
        <3> QED
            BY <3>2, <3>7 DEF Newer
    <2> QED
        BY <1>1, <1>2, <2>3, <2>4, <2>5, <2>6, <2>7
           DEF Session, Start, Scan, CopyFails, TruncateFails, UnlinkFails, Finish, Crash
<1> QED
    BY <1>1, <1>2 DEF Next, vars, Tick

LEMMA SingleKept == TypeOK /\ Alone /\ OnlyRecorded /\ Prepared /\ Single /\ [Next]_vars => Single'
<1> SUFFICES ASSUME TypeOK, Alone, OnlyRecorded, Prepared, Single, [Next]_vars, Exclusive',
                    NEW r \in Rows \ doubled'
             PROVE  /\ \A t, u \in DOMAIN archives' : r \in archives'[t] /\ r \in archives'[u] => t = u
                    /\ \A t \in DOMAIN archives' :
                          r \in archives'[t] /\ r \in log' => \E q \in Sessions : stage'[q] = "truncate"
    BY DEF Single
<1>1. CASE UNCHANGED <<log, archives, stage, shared, clash, doubled>>
    BY <1>1 DEF Single, Exclusive
<1>2. ASSUME NEW p \in Sessions, Session(p)
      PROVE  /\ \A t, u \in DOMAIN archives' : r \in archives'[t] /\ r \in archives'[u] => t = u
             /\ \A t \in DOMAIN archives' :
                   r \in archives'[t] /\ r \in log' => \E q \in Sessions : stage'[q] = "truncate"
    <2>1. /\ Exclusive /\ PreparedAt(p)
          /\ \A q \in Sessions : q # p => stage[q] = "off"
          /\ OpenArchive(p) => stamp[p] \notin DOMAIN archives
        BY <1>2, Undisturbed
    <2>2. r \in Rows \ doubled
        BY <1>2 DEF Session, Start, Record, RecordCut, Scan, OpenArchive, Copy, CopyFails, Truncate, TruncateFails,
               Unlink, UnlinkFails, Finish, Crash, history
    <2>3. /\ \A t, u \in DOMAIN archives : r \in archives[t] /\ r \in archives[u] => t = u
          /\ stage[p] # "truncate" => \A t \in DOMAIN archives : ~(r \in archives[t] /\ r \in log)
        BY <2>1, <2>2 DEF Single
    <2>4. CASE Record(p) \/ RecordCut(p)
        <3>1. next \in Int /\ log' = log \cup {next} /\ archives' = archives /\ stage[p] = "running"
            BY <2>4 DEF Record, RecordCut, TypeOK
        <3>2. next \notin Recorded
            BY <3>1 DEF Recorded
        <3>3. \A t \in DOMAIN archives : next \notin archives[t]
            BY <3>2 DEF OnlyRecorded
        <3> QED
            BY <2>3, <3>1, <3>3
    <2>5. CASE UNCHANGED <<log, archives>> /\ (stage[p] # "truncate" \/ r \notin log)
        BY <2>3, <2>5
    <2>6. CASE TruncateFails(p) \/ Crash(p)
        <3>1. UNCHANGED <<log, archives>> /\ (stage[p] = "truncate" => r \notin log)
            BY <2>6 DEF TruncateFails, Crash
        <3> QED
            BY <2>5, <3>1
    <2>7. CASE OpenArchive(p)
        <3>1. log' = log /\ stage[p] = "compress"
            BY <2>7 DEF OpenArchive
        <3>2. /\ DOMAIN archives' = DOMAIN archives \cup {stamp[p]}
              /\ archives'[stamp[p]] = {}
              /\ \A u \in DOMAIN archives : archives'[u] = archives[u]
            BY <2>1, <2>7, OpenArchives
        <3> QED
            BY <2>3, <3>1, <3>2
    <2>8. CASE Copy(p)
        <3>1. log' = log /\ stage[p] = "copy" /\ stage'[p] = "truncate"
            BY <2>8, WhereTo DEF Copy
        <3>2. /\ DOMAIN archives' = DOMAIN archives
              /\ stamp[p] \in DOMAIN archives => archives'[stamp[p]] = log
              /\ \A u \in DOMAIN archives : u # stamp[p] => archives'[u] = archives[u]
            BY <2>8, CopyArchives
        <3>3. \A t \in DOMAIN archives : ~(r \in archives[t] /\ r \in log)
            BY <2>3, <3>1
        <3>4. ASSUME NEW t \in DOMAIN archives, NEW u \in DOMAIN archives, r \in archives'[t], r \in archives'[u]
              PROVE  t = u
            BY <2>3, <3>2, <3>3, <3>4
        <3> QED
            BY <3>1, <3>2, <3>4
    <2>9. CASE Truncate(p)
        <3>1. log' = {} /\ archives' = archives
            BY <2>9 DEF Truncate
        <3> QED
            BY <2>3, <3>1
    <2>10. CASE Unlink(p)
        <3>1. /\ log' = log /\ stage[p] = "trim"
              /\ DOMAIN archives' \subseteq DOMAIN archives
              /\ \A t \in DOMAIN archives' : archives'[t] = archives[t]
            BY <2>10, UnlinkArchives DEF Following
        <3> QED
            BY <2>3, <3>1
    <2> QED
        BY <1>2, <2>4, <2>5, <2>6, <2>7, <2>8, <2>9, <2>10
           DEF Session, Start, Scan, CopyFails, UnlinkFails, Following, Finish
<1> QED
    BY <1>1, <1>2 DEF Next, vars, Tick, process, history

-----------------------------------------------------------------------------
(* The theorems. *)

LEMMA InitInvariant == Init => IInv
<1> SUFFICES ASSUME Init PROVE IInv
    OBVIOUS
<1> USE RotationAssumption
<1>1. /\ log = {} /\ DOMAIN archives = {} /\ damaged = {} /\ cuts = 0 /\ torn = FALSE
      /\ clock = 0 /\ next = 1 /\ unfinished = 0
    BY DEF Init
<1>2. TypeOK
    <2>1. archives \in [DOMAIN archives -> SUBSET Rows]
        BY DEF Init
    <2>2. /\ stage \in [Sessions -> Stages] /\ plan \in [Sessions -> SUBSET Seconds]
          /\ stamp \in [Sessions -> Seconds] /\ lives \in [Sessions -> 0..MaxLives]
        BY DEF Init, Stages, Seconds
    <2>3. next \in 1..(MaxRows + 1) /\ clock \in Seconds
        BY <1>1 DEF Seconds
    <2>4. shared = FALSE /\ clash = FALSE /\ doubled = {} /\ missed = {}
        BY DEF Init
    <2> QED
        BY <1>1, <2>1, <2>2, <2>3, <2>4 DEF TypeOK
<1>3. Cardinality({}) = 0
    BY FS_EmptySet
<1>4. DamageBounded
    BY <1>1, <1>3 DEF DamageBounded
<1>5. \A p \in Sessions : stage[p] = "off"
    BY DEF Init
<1>6. Alone /\ OnlyRecorded
    BY <1>1, <1>5 DEF Alone, OnlyRecorded, Alive
<1>7. Counted
    BY <1>1, <1>3, <1>5 DEF Counted, Rotating
<1>8. Prepared /\ Single
    BY <1>1, <1>5 DEF Prepared, PreparedAt, Rotating, Single
<1> QED
    BY <1>2, <1>4, <1>6, <1>7, <1>8 DEF IInv

LEMMA StepInvariant == IInv /\ [Next]_vars => IInv'
BY TypesKept, DamageKept, AloneKept, OnlyRecordedKept, CountKept, PreparedKept, SingleKept DEF IInv

\* What every reachable state satisfies.
THEOREM Invariant == Spec => []IInv
BY InitInvariant, StepInvariant, PTL DEF Spec

\* Every variable has its type.
THEOREM TypeCorrect == Spec => []TypeOK
<1>1. IInv => TypeOK
    BY DEF IInv
<1> QED
    BY <1>1, Invariant, PTL

\* Wherever sessions crash, one at a time, and whatever step of a rotation
\* fails, a row goes only from archives that Keep newer ones outlive.
THEOREM EvidenceIsKept == Spec => EvidenceKept
<1> DEFINE Lost == Exclusive' =>
                \A r \in Recorded : Kept(r) /\ ~Kept(r)' =>
                    /\ r \notin log
                    /\ \A t \in Archives(r) : Cardinality({u \in DOMAIN archives' : u > t}) >= Keep
<1>1. IInv /\ [Next]_vars => [Lost]_vars
    BY LostOnlyIfSurplus DEF IInv
<1> QED
    BY <1>1, Invariant, PTL DEF Spec, EvidenceKept

\* A row is in one place, but between a copy and its truncation and where a
\* truncation was missed.
THEOREM OneCopyOnly == Spec => []OneCopy
<1>1. IInv => OneCopy
    <2> SUFFICES ASSUME IInv, Exclusive, NEW r \in Recorded \ doubled
                 PROVE  /\ Cardinality(Archives(r)) <= 1
                        /\ r \in log /\ Archives(r) # {} => \E p \in Sessions : stage[p] = "truncate"
        BY DEF OneCopy
    <2>0. r \in Rows \ doubled
        BY DEF Recorded
    <2>1. Cardinality(Archives(r)) <= 1
        <3>1. \A t, u \in Archives(r) : t = u
            BY <2>0 DEF Archives, IInv, Single
        <3>2. CASE Archives(r) = {}
            BY <3>2, FS_EmptySet
        <3>3. ASSUME NEW t \in Archives(r) PROVE Cardinality(Archives(r)) <= 1
            <4>1. Archives(r) = {t}
                BY <3>1, <3>3
            <4>2. Cardinality({t}) = 1
                BY FS_Singleton
            <4> QED
                BY <4>1, <4>2
        <3> QED
            BY <3>2, <3>3
    <2>2. r \in log /\ Archives(r) # {} => \E p \in Sessions : stage[p] = "truncate"
        BY <2>0 DEF Archives, IInv, Single
    <2> QED
        BY <2>1, <2>2
<1> QED
    BY <1>1, Invariant, PTL

\* Rotations that remove what they have to leave Keep archives and their own,
\* each one that was cut off or could not, one more at most.
THEOREM ArchivesAreBounded == Spec => []ArchivesBounded
<1>1. IInv => ArchivesBounded
    BY DEF IInv, Counted, ArchivesBounded
<1> QED
    BY <1>1, Invariant, PTL

\* A row that was cut short costs itself and at most one row more.
THEOREM DamageIsBounded == Spec => []DamageBounded
<1>1. IInv => DamageBounded
    BY DEF IInv
<1> QED
    BY <1>1, Invariant, PTL
=============================================================================
