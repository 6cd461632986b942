------------------------- MODULE RunRegistryProofs -------------------------
(***************************************************************************)
(* Proofs about RunRegistry, for any number of supervised runs.            *)
(***************************************************************************)
EXTENDS RunRegistry, TLAPS

\* Where a run is that has come to its stop.
Stopping == {"opening", "writing", "renaming", "ended", "dead"}

\* What a file, or a supervisor's copy, says of every run is what the run has
\* come to.
Truthful(content) ==
    content \in Entries =>
        \A r \in DOMAIN content :
            /\ stage[r] # "new"
            /\ content[r] = "stopped" => call[r] = "stopped"

Truths ==
    /\ \A r \in Runs : call[r] = "stopped" => stage[r] \in Stopping
    /\ Truthful(registry)
    /\ Truthful(tmp)
    /\ \A r \in Runs : Truthful(data[r])

\* No two supervisors save at once, and only the one that writes has a file open.
OneSaves ==
    /\ \A p, q \in Saving : p = q
    /\ \A q \in Runs : handle[q] # "none" => handle[q] = "tmp" /\ stage[q] = "writing"

\* The registry was never anything but whole, and remembers every run.
Registered ==
    /\ registry \in Entries \cup {Absent}
    /\ \A q \in Runs : saved[q] # Absent =>
          registry \in Entries /\ q \in DOMAIN registry /\ registry[q] = saved[q]

\* So does what the supervisor that saves will put in its place, with its
\* run's entry renewed.
Prepared ==
    \A p \in Saving :
        /\ p \in DOMAIN data[p] /\ data[p][p] = call[p]
        /\ \A q \in Runs \ {p} : saved[q] # Absent =>
              q \in DOMAIN data[p] /\ data[p][q] = saved[q]

Temporary ==
    \A q \in Runs :
        /\ stage[q] = "writing" => tmp = Empty
        /\ stage[q] = "renaming" => tmp = data[q]

Quiet == ~overlapped => OneSaves /\ Registered /\ Prepared /\ Temporary

IInv == TypeOK /\ Truths /\ Quiet

-----------------------------------------------------------------------------
(* Entries. *)

LEMMA EntriesHaveDomains ==
    ASSUME NEW e \in Entries
    PROVE  DOMAIN e \subseteq Runs /\ e \in [DOMAIN e -> Status]
BY DEF Entries

LEMMA FunctionsAreEntries ==
    ASSUME NEW S \in SUBSET Runs, NEW e \in [S -> Status]
    PROVE  e \in Entries
BY DEF Entries

\* Setting one run's status gives entries again, and changes no other.
LEMMA WithKeepsTheRest ==
    ASSUME NEW e \in Entries, NEW r \in Runs, NEW s \in Status
    PROVE  /\ With(e, r, s) \in Entries
           /\ DOMAIN With(e, r, s) = DOMAIN e \cup {r}
           /\ With(e, r, s)[r] = s
           /\ \A q \in DOMAIN e : q # r => With(e, r, s)[q] = e[q]
<1>1. DOMAIN e \subseteq Runs /\ e \in [DOMAIN e -> Status]
    BY EntriesHaveDomains
<1> DEFINE S == DOMAIN e \cup {r}
<1>2. S \in SUBSET Runs
    BY <1>1
<1>3. With(e, r, s) = [q \in S |-> IF q = r THEN s ELSE e[q]]
    BY DEF With
<1>4. With(e, r, s) \in [S -> Status]
    BY <1>1, <1>3
<1>5. With(e, r, s) \in Entries
    BY <1>2, <1>4, FunctionsAreEntries
<1> QED
    BY <1>1, <1>3, <1>5

LEMMA NoEntriesAreEntries ==
    NoEntries \in Entries /\ DOMAIN NoEntries = {}
<1>1. NoEntries \in [{} -> Status] /\ DOMAIN NoEntries = {}
    BY DEF NoEntries
<1> QED
    BY <1>1, FunctionsAreEntries

LEMMA LoadedAreEntries ==
    ASSUME TypeOK, Loads
    PROVE  /\ Loaded \in Entries
           /\ registry = Absent => Loaded = NoEntries
           /\ registry # Absent => Loaded = registry
BY NoEntriesAreEntries DEF TypeOK, Loads, Loaded, File, Missing

-----------------------------------------------------------------------------
(* Types. *)

LEMMA InitTypes == Init => TypeOK
<1> SUFFICES ASSUME Init PROVE TypeOK
    OBVIOUS
<1>1. data \in [Runs -> Entries]
    BY NoEntriesAreEntries DEF Init
<1> QED
    BY <1>1 DEF Init, TypeOK, File, Missing, Stages, Status

LEMMA LoadTypes ==
    ASSUME TypeOK, Loads, NEW r \in Runs, NEW s \in Status, Load(r, s)
    PROVE  TypeOK'
<1>1. Loaded \in Entries
    BY LoadedAreEntries
<1>2. With(Loaded, r, s) \in Entries
    BY <1>1, WithKeepsTheRest
<1> QED
    BY <1>2 DEF Load, TypeOK, Become, Stages, Status

LEMMA TypesKept == TypeOK /\ [Next]_vars => TypeOK'
<1> SUFFICES ASSUME TypeOK, [Next]_vars PROVE TypeOK'
    OBVIOUS
<1>1. CASE UNCHANGED vars
    BY <1>1 DEF vars, TypeOK
<1>2. ASSUME NEW r \in Runs, Supervisor(r) PROVE TypeOK'
    <2>1. CASE RegisterStart(r)
        BY <2>1, LoadTypes DEF RegisterStart, Status
    <2>2. CASE RegisterUpdate(r)
        BY <2>2, LoadTypes DEF RegisterUpdate, Status
    <2>3. CASE RegisterStop(r)
        BY <2>3, LoadTypes DEF RegisterStop, Status
    <2>4. CASE Unknown(r)
        BY <2>4 DEF Unknown, TypeOK, Become, Stages
    <2>5. CASE LoadFails(r)
        BY <2>5 DEF LoadFails, TypeOK, Become, Stages
    <2>6. CASE OpenTmp(r)
        BY <2>6 DEF OpenTmp, TypeOK, Become, Stages, File, Missing
    <2>7. CASE WriteTmp(r)
        <3>1. \A content : Written(r, content) \subseteq File
            BY DEF Written, TypeOK, File, Missing
        <3>2. registry' \in File /\ tmp' \in File
            BY <2>7, <3>1 DEF WriteTmp, TypeOK
        <3> QED
            BY <2>7, <3>2 DEF WriteTmp, TypeOK, Become, Stages
    <2>8. CASE Replace(r)
        <3>1. registry' \in File /\ tmp' \in File
            BY <2>8 DEF Replace, TypeOK, File, Missing
        <3>2. saved' \in [Runs -> Status \cup {Absent}]
            BY <2>8 DEF Replace, TypeOK
        <3>3. handle' \in [Runs -> {"none", "tmp", "registry", "gone"}]
            <4>1. \A h \in {"none", "tmp", "registry", "gone"} : Renamed[h] \in {"none", "tmp", "registry", "gone"}
                BY DEF Renamed
            <4> QED
                BY <2>8, <4>1 DEF Replace, TypeOK
        <3>4. stage' \in [Runs -> Stages]
            BY <2>8 DEF Replace, TypeOK, Become, Stages
        <3> QED
            BY <2>8, <3>1, <3>2, <3>3, <3>4 DEF Replace, TypeOK
    <2>9. CASE ReplaceFails(r)
        BY <2>9 DEF ReplaceFails, TypeOK, Become, Stages
    <2>10. CASE Kill(r)
        BY <2>10 DEF Kill, TypeOK, Become, Stages
    <2> QED
        BY <1>2, <2>1, <2>2, <2>3, <2>4, <2>5, <2>6, <2>7, <2>8, <2>9, <2>10 DEF Supervisor
<1> QED
    BY <1>1, <1>2 DEF Next

-----------------------------------------------------------------------------
(* What the files and the copies say. *)

LEMMA InitTruths == Init => Truths
<1> SUFFICES ASSUME Init PROVE Truths
    OBVIOUS
<1>1. Absent \notin Entries
    BY FilesAssumption DEF Missing
<1> QED
    BY <1>1, NoEntriesAreEntries DEF Init, Truths, Truthful

\* A content stays true when no run goes back to being new or unstopped.
LEMMA TruthfulKept ==
    ASSUME NEW content,
           \A q \in Runs : stage[q] # "new" => stage'[q] # "new",
           \A q \in Runs : stage[q] # "new" /\ call[q] = "stopped" => call'[q] = "stopped",
           Truthful(content)
    PROVE  content \in Entries =>
             \A r \in DOMAIN content :
                /\ stage'[r] # "new"
                /\ content[r] = "stopped" => call'[r] = "stopped"
<1> SUFFICES ASSUME content \in Entries, NEW r \in DOMAIN content
             PROVE  /\ stage'[r] # "new"
                    /\ content[r] = "stopped" => call'[r] = "stopped"
    OBVIOUS
<1>1. r \in Runs
    BY EntriesHaveDomains
<1> QED
    BY <1>1 DEF Truthful

\* What the shared files may hold after a step that loads nothing.
Contents == {registry, tmp} \cup {data[q] : q \in Runs} \cup Missing

\* Moving contents about keeps them true.
LEMMA MovesKeepTruths ==
    ASSUME Truths, registry' \in Contents, tmp' \in Contents,
           UNCHANGED <<call, data>>,
           \A q \in Runs : stage[q] # "new" => stage'[q] # "new",
           \A q \in Runs : call[q] = "stopped" => stage'[q] \in Stopping
    PROVE  Truths'
<1>1. \A x \in Contents : Truthful(x)
    BY FilesAssumption DEF Contents, Truths, Truthful
<1>2. \A x \in Contents : x \in Entries =>
         \A r \in DOMAIN x : stage'[r] # "new" /\ (x[r] = "stopped" => call'[r] = "stopped")
    BY <1>1, TruthfulKept
<1>3. \A q \in Runs : data[q] \in Contents
    BY DEF Contents
<1>4. Truthful(registry)' /\ Truthful(tmp)'
    BY <1>2 DEF Truthful
<1>5. \A q \in Runs : Truthful(data[q])'
    BY <1>2, <1>3 DEF Truthful
<1> QED
    BY <1>4, <1>5 DEF Truths

\* The call that loads sets its own run's entry to its own status.
LEMMA LoadKeepsTruths ==
    ASSUME TypeOK, Truths, Loads, NEW r \in Runs, NEW s \in Status,
           stage[r] \in {"new", "idle", "finalizing"}, Load(r, s)
    PROVE  Truths'
<1>1. \A q \in Runs : stage'[q] = IF q = r THEN "opening" ELSE stage[q]
    BY DEF Load, Become, TypeOK
<1>2. call[r] # "stopped"
    BY DEF Truths, Stopping
<1>3. \A q \in Runs : call'[q] = IF q = r THEN s ELSE call[q]
    BY DEF Load, TypeOK
<1>4. \A content : Truthful(content) =>
        (content \in Entries =>
            \A q \in DOMAIN content : stage'[q] # "new" /\ (content[q] = "stopped" => call'[q] = "stopped"))
    BY <1>1, <1>2, <1>3, TruthfulKept
<1>5. Loaded \in Entries /\ Truthful(Loaded)
    BY LoadedAreEntries, NoEntriesAreEntries DEF Truths, Truthful
<1>6. \A q \in DOMAIN Loaded : stage'[q] # "new" /\ (Loaded[q] = "stopped" => call'[q] = "stopped")
    BY <1>4, <1>5
<1>7. \A q \in DOMAIN With(Loaded, r, s) :
         stage'[q] # "new" /\ (With(Loaded, r, s)[q] = "stopped" => call'[q] = "stopped")
    <2> DEFINE mine == With(Loaded, r, s)
    <2>1. /\ DOMAIN mine = DOMAIN Loaded \cup {r}
          /\ mine[r] = s
          /\ \A q \in DOMAIN Loaded : q # r => mine[q] = Loaded[q]
        BY <1>5, WithKeepsTheRest
    <2> HIDE DEF mine
    <2>2. DOMAIN Loaded \subseteq Runs
        BY <1>5, EntriesHaveDomains
    <2>3. \A q \in DOMAIN mine : stage'[q] # "new" /\ (mine[q] = "stopped" => call'[q] = "stopped")
        BY <1>1, <1>3, <1>6, <2>1, <2>2
    <2> QED
        BY <2>3 DEF mine
<1>8. \A q \in Runs : data'[q] = IF q = r THEN With(Loaded, r, s) ELSE data[q]
    BY DEF Load, TypeOK
<1>9. \A q \in Runs : Truthful(data[q])'
    BY <1>4, <1>7, <1>8 DEF Truthful, Truths
<1>10. Truthful(registry)' /\ Truthful(tmp)'
    BY <1>4 DEF Load, Truthful, Truths
<1>11. \A q \in Runs : call'[q] = "stopped" => stage'[q] \in Stopping
    BY <1>1, <1>3 DEF Truths, Stopping
<1> QED
    BY <1>9, <1>10, <1>11 DEF Truths

LEMMA TruthsKept == TypeOK /\ Truths /\ [Next]_vars => Truths'
<1> SUFFICES ASSUME TypeOK, Truths, [Next]_vars PROVE Truths'
    OBVIOUS
<1>1. CASE UNCHANGED vars
    BY <1>1 DEF vars, Truths, Truthful
<1>2. ASSUME NEW r \in Runs, Supervisor(r) PROVE Truths'
    <2>1. CASE RegisterStart(r)
        BY <2>1, LoadKeepsTruths DEF RegisterStart, Status
    <2>2. CASE RegisterUpdate(r)
        BY <2>2, LoadKeepsTruths DEF RegisterUpdate, Status
    <2>3. CASE RegisterStop(r)
        BY <2>3, LoadKeepsTruths DEF RegisterStop, Status
    <2> DEFINE Elsewhere == \A q \in Runs \ {r} : stage'[q] = stage[q]
    <2>a. ASSUME Elsewhere, registry' \in Contents, tmp' \in Contents, UNCHANGED <<call, data>>,
                 stage'[r] # "new" \/ stage'[r] = stage[r], call[r] = "stopped" => stage'[r] \in Stopping
          PROVE  Truths'
        BY <2>a, MovesKeepTruths DEF Truths
    <2>b. registry \in Contents /\ tmp \in Contents /\ data[r] \in Contents /\ Missing \subseteq Contents
        BY DEF Contents
    <2>4. CASE Unknown(r)
        BY <2>4, <2>a, <2>b DEF Unknown, Become, TypeOK, Truths, Stopping
    <2>5. CASE LoadFails(r)
        BY <2>5, <2>a, <2>b DEF LoadFails, Become, TypeOK, Truths, Stopping
    <2>6. CASE OpenTmp(r)
        BY <2>6, <2>a, <2>b DEF OpenTmp, Become, TypeOK, Stopping, Missing
    <2>7. CASE WriteTmp(r)
        <3>1. \A content : Written(r, content) \subseteq Contents
            BY <2>b DEF Written, Missing
        <3>2. registry' \in Contents /\ tmp' \in Contents
            BY <2>7, <2>b, <3>1 DEF WriteTmp
        <3> QED
            BY <2>7, <2>a, <3>2 DEF WriteTmp, Become, TypeOK, Stopping
    <2>8. CASE Replace(r)
        BY <2>8, <2>a, <2>b DEF Replace, Become, TypeOK, Stopping, Missing
    <2>9. CASE ReplaceFails(r)
        BY <2>9, <2>a, <2>b DEF ReplaceFails, Become, TypeOK, Stopping
    <2>10. CASE Kill(r)
        BY <2>10, <2>a, <2>b DEF Kill, Become, TypeOK, Stopping
    <2> QED
        BY <1>2, <2>1, <2>2, <2>3, <2>4, <2>5, <2>6, <2>7, <2>8, <2>9, <2>10 DEF Supervisor
<1> QED
    BY <1>1, <1>2 DEF Next

-----------------------------------------------------------------------------
(* One save at a time. *)

LEMMA InitQuiet == Init => Quiet
BY DEF Init, Quiet, OneSaves, Registered, Prepared, Temporary, Saving

\* A call that loads while nobody saves has the registry's entries to save.
LEMMA LoadKeepsQuiet ==
    ASSUME TypeOK, Quiet, Loads, NEW r \in Runs, NEW s \in Status,
           stage[r] \in {"new", "idle", "finalizing"}, Load(r, s)
    PROVE  Quiet'
<1> SUFFICES ASSUME ~overlapped' PROVE (OneSaves /\ Registered /\ Prepared /\ Temporary)'
    BY DEF Quiet
<1>1. ~overlapped /\ Saving = {}
    BY DEF Load
<1>2. OneSaves /\ Registered
    BY <1>1 DEF Quiet
<1>3. \A q \in Runs : stage'[q] = IF q = r THEN "opening" ELSE stage[q]
    BY DEF Load, Become, TypeOK
<1>4. \A q \in Runs : q \in Saving' <=> q = r
    BY <1>1, <1>3 DEF Saving
<1>5. \A q \in Runs : stage[q] \notin {"opening", "writing", "renaming"}
    BY <1>1 DEF Saving
<1>6. OneSaves'
    <2>1. \A p, q \in Saving' : p = q
        BY <1>4 DEF Saving
    <2>2. handle' = handle
        BY DEF Load
    <2> QED
        BY <1>2, <1>5, <2>1, <2>2 DEF OneSaves
<1>7. Registered'
    BY <1>2 DEF Registered, Load
<1>8. Prepared'
    <2> DEFINE mine == With(Loaded, r, s)
    <2>1. /\ DOMAIN mine = DOMAIN Loaded \cup {r}
          /\ mine[r] = s
          /\ \A q \in DOMAIN Loaded : q # r => mine[q] = Loaded[q]
        BY LoadedAreEntries, WithKeepsTheRest
    <2> HIDE DEF mine
    <2>2. data'[r] = mine /\ call'[r] = s /\ saved' = saved
        BY DEF Load, TypeOK, mine
    <2>3. \A q \in Runs : saved[q] # Absent => q \in DOMAIN Loaded /\ Loaded[q] = saved[q]
        <3>1. Absent \notin Entries
            BY FilesAssumption DEF Missing
        <3> QED
            BY <1>2, <3>1, LoadedAreEntries DEF Registered
    <2>4. \A p \in Saving' : p = r
        BY <1>4 DEF Saving
    <2>5. r \in DOMAIN mine /\ mine[r] = call'[r]
        BY <2>1, <2>2
    <2>6. \A q \in Runs \ {r} : saved[q] # Absent => q \in DOMAIN mine /\ mine[q] = saved[q]
        BY <2>1, <2>3
    <2> QED
        BY <2>2, <2>4, <2>5, <2>6 DEF Prepared
<1>9. Temporary'
    BY <1>3, <1>5 DEF Temporary
<1> QED
    BY <1>6, <1>7, <1>8, <1>9

\* A step that only takes supervisors out of their saves, or lets none in.
LEMMA LeavingKeepsQuiet ==
    ASSUME Quiet, UNCHANGED <<registry, tmp, call, data, saved, overlapped>>,
           \A q \in Runs : handle'[q] = handle[q] \/ handle'[q] = "none",
           \A q \in Runs : \/ stage'[q] = stage[q]
                           \/ stage'[q] \notin {"opening", "writing", "renaming"} /\ handle'[q] = "none"
    PROVE  Quiet'
<1> SUFFICES ASSUME ~overlapped PROVE (OneSaves /\ Registered /\ Prepared /\ Temporary)'
    BY DEF Quiet
<1>1. OneSaves /\ Registered /\ Prepared /\ Temporary
    BY DEF Quiet
<1>2. Saving' \subseteq Saving
    BY DEF Saving
<1>3. OneSaves'
    BY <1>1, <1>2 DEF OneSaves
<1>4. Prepared'
    BY <1>1, <1>2 DEF Prepared
<1> QED
    BY <1>1, <1>3, <1>4 DEF Registered, Temporary

LEMMA SavesKeepQuiet ==
    ASSUME TypeOK, Quiet, NEW r \in Runs, OpenTmp(r) \/ WriteTmp(r) \/ Replace(r)
    PROVE  Quiet'
<1> SUFFICES ASSUME ~overlapped PROVE (OneSaves /\ Registered /\ Prepared /\ Temporary)'
    BY DEF Quiet, OpenTmp, WriteTmp, Replace
<1>1. OneSaves /\ Registered /\ Prepared /\ Temporary
    BY DEF Quiet
<1>2. r \in Saving
    BY DEF Saving, OpenTmp, WriteTmp, Replace
<1>3. \A q \in Saving : q = r
    BY <1>1, <1>2 DEF OneSaves
<1>4. \A q \in Runs \ {r} : stage[q] \notin {"opening", "writing", "renaming"} /\ handle[q] = "none"
    BY <1>1, <1>3 DEF Saving, OneSaves
<1>5. \A q \in Runs : q # r => stage'[q] = stage[q]
    BY DEF OpenTmp, WriteTmp, Replace, Become, TypeOK
<1>6. Saving' \subseteq {r}
    BY <1>4, <1>5 DEF Saving
<1>7. CASE OpenTmp(r)
    <2>1. stage[r] = "opening" /\ stage'[r] = "writing" /\ handle'[r] = "tmp"
        BY <1>7 DEF OpenTmp, Become, TypeOK
    <2>2. \A q \in Runs : q # r => handle'[q] = handle[q]
        BY <1>7 DEF OpenTmp, TypeOK
    <2>3. tmp' = Empty
        BY <1>1, <1>4, <1>7, <2>1 DEF OpenTmp, OneSaves
    <2>4. OneSaves'
        BY <1>4, <1>6, <2>1, <2>2 DEF OneSaves
    <2>5. Registered' /\ Prepared'
        BY <1>1, <1>2, <1>6, <1>7 DEF OpenTmp, Registered, Prepared
    <2>6. Temporary'
        BY <1>4, <1>5, <2>1, <2>3 DEF Temporary
    <2> QED
        BY <2>4, <2>5, <2>6
<1>8. CASE WriteTmp(r)
    <2>1. stage[r] = "writing" /\ stage'[r] = "renaming" /\ handle'[r] = "none"
        BY <1>8 DEF WriteTmp, Become, TypeOK
    <2>2. \A q \in Runs : q # r => handle'[q] = handle[q]
        BY <1>8 DEF WriteTmp, TypeOK
    <2>3. tmp = Empty /\ handle[r] \in {"none", "tmp"}
        BY <1>1, <2>1 DEF Temporary, OneSaves
    <2>4. tmp' = data[r] /\ registry' = registry
        BY <1>8, <2>3 DEF WriteTmp, Written
    <2>5. OneSaves'
        BY <1>4, <1>6, <2>1, <2>2 DEF OneSaves
    <2>6. Registered' /\ Prepared'
        BY <1>1, <1>2, <1>6, <1>8, <2>4 DEF WriteTmp, Registered, Prepared
    <2>7. Temporary'
        BY <1>4, <1>5, <1>8, <2>1, <2>4 DEF Temporary, WriteTmp
    <2> QED
        BY <2>5, <2>6, <2>7
<1>9. CASE Replace(r)
    <2>1. stage[r] = "renaming" /\ stage'[r] \in {"ended", "idle"}
        BY <1>9 DEF Replace, Become, TypeOK
    <2>2. Saving' = {}
        BY <1>6, <2>1 DEF Saving
    <2>3. \A q \in Runs : handle[q] = "none"
        BY <1>1, <1>4, <2>1 DEF OneSaves
    <2>4. \A q \in Runs : handle'[q] = "none"
        BY <1>9, <2>3 DEF Replace, Renamed
    <2>5. OneSaves'
        BY <2>2, <2>4 DEF OneSaves
    <2>6. registry' = data[r] /\ data[r] \in Entries
        BY <1>1, <1>9, <2>1 DEF Replace, Temporary, TypeOK
    <2>7. \A q \in Runs : saved'[q] = IF q = r THEN call[r] ELSE saved[q]
        BY <1>9 DEF Replace, TypeOK
    <2>8. Registered'
        BY <1>1, <1>2, <2>6, <2>7 DEF Registered, Prepared
    <2>9. Prepared'
        BY <2>2 DEF Prepared
    <2>10. Temporary'
        BY <1>4, <1>5, <2>1 DEF Temporary
    <2> QED
        BY <2>5, <2>8, <2>9, <2>10
<1> QED
    BY <1>7, <1>8, <1>9

LEMMA QuietKept == TypeOK /\ Quiet /\ [Next]_vars => Quiet'
<1> SUFFICES ASSUME TypeOK, Quiet, [Next]_vars PROVE Quiet'
    OBVIOUS
<1>1. CASE UNCHANGED vars
    BY <1>1 DEF vars, Quiet, OneSaves, Registered, Prepared, Temporary, Saving
<1>2. ASSUME NEW r \in Runs, Supervisor(r) PROVE Quiet'
    <2>1. CASE RegisterStart(r)
        BY <2>1, LoadKeepsQuiet DEF RegisterStart, Status
    <2>2. CASE RegisterUpdate(r)
        BY <2>2, LoadKeepsQuiet DEF RegisterUpdate, Status
    <2>3. CASE RegisterStop(r)
        BY <2>3, LoadKeepsQuiet DEF RegisterStop, Status
    <2>4. CASE OpenTmp(r) \/ WriteTmp(r) \/ Replace(r)
        BY <2>4, SavesKeepQuiet
    <2>5. CASE Unknown(r) \/ LoadFails(r) \/ ReplaceFails(r) \/ Kill(r)
        <3> SUFFICES ASSUME ~overlapped PROVE Quiet'
            BY <2>5 DEF Quiet, Unknown, LoadFails, ReplaceFails, Kill
        <3>1. \A q \in Runs : q # r => stage'[q] = stage[q] /\ handle'[q] = handle[q]
            BY <2>5 DEF Unknown, LoadFails, ReplaceFails, Kill, Become, TypeOK
        <3>2. stage'[r] = stage[r] \/ stage'[r] \in {"ended", "finalizing", "dead"}
            BY <2>5 DEF Unknown, LoadFails, ReplaceFails, Kill, Become, TypeOK
        <3>3. (handle'[r] = handle[r] /\ stage[r] # "writing") \/ handle'[r] = "none"
            BY <2>5 DEF Unknown, LoadFails, ReplaceFails, Kill, TypeOK
        <3>4. handle'[r] = handle[r] \/ handle'[r] = "none"
            BY <3>3
        <3>5. handle'[r] = "none"
            BY <3>3 DEF Quiet, OneSaves
        <3>6. UNCHANGED <<registry, tmp, call, data, saved, overlapped>>
            BY <2>5 DEF Unknown, LoadFails, ReplaceFails, Kill
        <3> QED
            BY <3>1, <3>2, <3>4, <3>5, <3>6, LeavingKeepsQuiet
    <2> QED
        BY <1>2, <2>1, <2>2, <2>3, <2>4, <2>5 DEF Supervisor
<1> QED
    BY <1>1, <1>2 DEF Next

-----------------------------------------------------------------------------
(* What holds of every behavior. *)

\* Every variable has its type.
THEOREM TypeCorrect == Spec => []TypeOK
<1> QED
    BY InitTypes, TypesKept, PTL DEF Spec

THEOREM Invariant == Spec => []IInv
<1>1. Init => IInv
    BY InitTypes, InitTruths, InitQuiet DEF IInv
<1>2. IInv /\ [Next]_vars => IInv'
    BY TypesKept, TruthsKept, QuietKept DEF IInv
<1> QED
    BY <1>1, <1>2, PTL DEF Spec

\* As long as no two supervisors save at once, the registry remembers every
\* run with the last status the run gave it, wherever a supervisor is killed.
THEOREM RegistryRemembers == Spec => []RunsRemembered
<1>1. IInv => RunsRemembered
    BY DEF IInv, Quiet, Registered, RunsRemembered
<1> QED
    BY <1>1, Invariant, PTL

\* However the saves overlap, no entry tells of a stop that never came.
THEOREM RegistryInventsNothing == Spec => []NothingInvented
<1>1. IInv => NothingInvented
    BY DEF IInv, Truths, Truthful, NothingInvented
<1> QED
    BY <1>1, Invariant, PTL
=============================================================================
