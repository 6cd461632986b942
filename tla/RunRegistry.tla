---------------------------- MODULE RunRegistry ----------------------------
(***************************************************************************)
(* The registry of supervised runs: one JSON file that each supervisor     *)
(* loads, changes and saves whole, at the start of its run, after every    *)
(* segment and at its end.  A save writes the one temporary file all       *)
(* supervisors share and renames it over the registry; nothing is locked,  *)
(* and a supervisor may be killed between any two steps.                   *)
(*                                                                         *)
(* Each supervisor has one run, and run and supervisor have one name.  An  *)
(* open file is an inode: a rename takes the inode to the new name, and    *)
(* whoever has it open goes on writing into it there.                      *)
(***************************************************************************)
EXTENDS Naturals

CONSTANTS
    Runs,   \* the supervised runs
    Absent, \* no such file
    Empty,  \* a file that was emptied and has but one writer
    Torn    \* any other file that is not whole JSON

Status == {"running", "stopped"}
Entries == UNION {[S -> Status] : S \in SUBSET Runs}
Missing == {Absent, Empty, Torn}

ASSUME FilesAssumption ==
    /\ Absent # Empty /\ Absent # Torn /\ Empty # Torn
    /\ Entries \cap Missing = {}

VARIABLES
    registry, \* the content of run_registry.json
    tmp,      \* the content of run_registry.tmp
    handle,   \* handle[r]: the file r has open: "tmp", "registry", "gone" or "none"
    stage,    \* stage[r]: where r is
    call,     \* call[r]: the status its call is to record
    data,     \* data[r]: what r loaded, changed
    saved,    \* history: saved[r]: the status r's last completed save gave its run
    overlapped \* history: two supervisors have been between load and replace at once

vars == <<registry, tmp, handle, stage, call, data, saved, overlapped>>

NoEntries == [r \in {} |-> "running"]
Stages == {"new", "idle", "opening", "writing", "renaming", "finalizing", "ended", "dead"}

Init ==
    /\ registry = Absent
    /\ tmp = Absent
    /\ handle = [r \in Runs |-> "none"]
    /\ stage = [r \in Runs |-> "new"]
    /\ call = [r \in Runs |-> "running"]
    /\ data = [r \in Runs |-> NoEntries]
    /\ saved = [r \in Runs |-> Absent]
    /\ overlapped = FALSE

Saving == {r \in Runs : stage[r] \in {"opening", "writing", "renaming"}}
Become(r, st) == stage' = [stage EXCEPT ![r] = st]

\* _load: json.load raises on a file that is not whole.
Loads == registry \notin {Empty, Torn}
Loaded == IF registry = Absent THEN NoEntries ELSE registry

\* Slip: every entry gets the status.
WithAll(entries, r, status) == [q \in DOMAIN entries \cup {r} |-> status]

\* The entries with r's set to status.
With(entries, r, status) == [q \in DOMAIN entries \cup {r} |-> IF q = r THEN status ELSE entries[q]]

-----------------------------------------------------------------------------
(* The calls, up to their save. *)

\* What a call loads and changes; it then saves.
Load(r, status) ==
    /\ data' = [data EXCEPT ![r] = With(Loaded, r, status)]
    /\ call' = [call EXCEPT ![r] = status]
    /\ overlapped' = (overlapped \/ Saving # {})
    /\ Become(r, "opening")
    /\ UNCHANGED <<registry, tmp, handle, saved>>

\* register_start makes the run's entry, whatever there is.
RegisterStart(r) ==
    /\ stage[r] = "new"
    /\ Loads
    /\ Load(r, "running")

\* register_update and register_stop change the run's entry where there is one.
RegisterUpdate(r) ==
    /\ stage[r] = "idle"
    /\ Loads /\ r \in DOMAIN Loaded
    /\ Load(r, "running")

RegisterStop(r) ==
    /\ stage[r] \in {"idle", "finalizing"}
    /\ Loads /\ r \in DOMAIN Loaded
    /\ Load(r, "stopped")

\* Without an entry they return and record nothing: the run goes on after an
\* update, and is over after a stop.
Unknown(r) ==
    /\ Loads /\ r \notin DOMAIN Loaded
    /\ \/ stage[r] = "idle" /\ UNCHANGED stage
       \/ stage[r] \in {"idle", "finalizing"} /\ Become(r, "ended")
    /\ UNCHANGED <<registry, tmp, handle, call, data, saved, overlapped>>

\* An update that raises sends the supervisor to finalize, which still calls
\* register_stop; a start or a stop that raises ends it.
LoadFails(r) ==
    /\ ~Loads
    /\ \/ stage[r] = "idle" /\ Become(r, "finalizing")
       \/ stage[r] \in {"new", "idle", "finalizing"} /\ Become(r, "dead")
    /\ UNCHANGED <<registry, tmp, handle, call, data, saved, overlapped>>

-----------------------------------------------------------------------------
(* _save. *)

\* Slip: the registry itself is emptied and written.
OpenInPlace(r) ==
    /\ stage[r] = "opening"
    /\ registry' = Empty
    /\ tmp' = Empty
    /\ handle' = [handle EXCEPT ![r] = "tmp"]
    /\ Become(r, "writing")
    /\ UNCHANGED <<call, data, saved, overlapped>>

\* open(tmp, "w"): the file under that name is emptied, also when another
\* supervisor is writing it.
OpenTmp(r) ==
    /\ stage[r] = "opening"
    /\ tmp' = IF \E q \in Runs : handle[q] = "tmp" THEN Torn ELSE Empty
    /\ handle' = [handle EXCEPT ![r] = "tmp"]
    /\ Become(r, "writing")
    /\ UNCHANGED <<registry, call, data, saved, overlapped>>

\* What a file holds when r has written its entries to it: those, but if
\* others have written to it they may lie among what these wrote.
Written(r, content) == IF content = Empty THEN {data[r]} ELSE {data[r], Torn}

\* json.dump and the close: the content goes where the open file has gone.
WriteTmp(r) ==
    /\ stage[r] = "writing"
    /\ \/ /\ handle[r] = "tmp"
          /\ tmp' \in Written(r, tmp)
          /\ UNCHANGED registry
       \/ /\ handle[r] = "registry"
          /\ registry' \in Written(r, registry)
          /\ UNCHANGED tmp
       \/ /\ handle[r] = "gone"
          /\ UNCHANGED <<registry, tmp>>
    /\ handle' = [handle EXCEPT ![r] = "none"]
    /\ Become(r, "renaming")
    /\ UNCHANGED <<call, data, saved, overlapped>>

\* Where the rename leaves an open file.
Renamed == [none |-> "none", tmp |-> "registry", registry |-> "gone", gone |-> "gone"]

\* tmp.replace(path): whatever the temporary file holds becomes the registry,
\* and who has either file open keeps the inode.
Replace(r) ==
    /\ stage[r] = "renaming"
    /\ tmp # Absent
    /\ registry' = tmp
    /\ tmp' = Absent
    /\ handle' = [q \in Runs |-> Renamed[handle[q]]]
    /\ saved' = [saved EXCEPT ![r] = call[r]]
    /\ Become(r, IF call[r] = "stopped" THEN "ended" ELSE "idle")
    /\ UNCHANGED <<call, data, overlapped>>

\* Another supervisor has renamed it first: the rename raises, in an update
\* (a call to say running of a run that has an entry) or else.
ReplaceFails(r) ==
    /\ stage[r] = "renaming"
    /\ tmp = Absent
    /\ Become(r, IF call[r] = "running" /\ saved[r] # Absent THEN "finalizing" ELSE "dead")
    /\ UNCHANGED <<registry, tmp, handle, call, data, saved, overlapped>>

\* A kill; a file left open keeps what it held.
Kill(r) ==
    /\ stage[r] \notin {"new", "ended", "dead"}
    /\ handle' = [handle EXCEPT ![r] = "none"]
    /\ Become(r, "dead")
    /\ UNCHANGED <<registry, tmp, call, data, saved, overlapped>>

Supervisor(r) ==
    \/ RegisterStart(r) \/ RegisterUpdate(r) \/ RegisterStop(r) \/ Unknown(r) \/ LoadFails(r)
    \/ OpenTmp(r) \/ WriteTmp(r) \/ Replace(r) \/ ReplaceFails(r) \/ Kill(r)

Next == \E r \in Runs : Supervisor(r)

Spec == Init /\ [][Next]_vars

-----------------------------------------------------------------------------
(* Properties. *)

File == Entries \cup Missing

\* Every variable has its type.
TypeOK ==
    /\ registry \in File
    /\ tmp \in File
    /\ handle \in [Runs -> {"none", "tmp", "registry", "gone"}]
    /\ stage \in [Runs -> Stages]
    /\ call \in [Runs -> Status]
    /\ data \in [Runs -> Entries]
    /\ saved \in [Runs -> Status \cup {Absent}]
    /\ overlapped \in BOOLEAN

\* As long as no two supervisors save at once, the registry is one JSON file
\* that remembers every run with the last status the run gave it, wherever a
\* supervisor is killed (run_registry.py: "remembering every supervised run").
RunsRemembered ==
    ~overlapped =>
        \A r \in Runs : saved[r] # Absent =>
            /\ registry \in Entries
            /\ r \in DOMAIN registry
            /\ registry[r] = saved[r]

\* Also when they do: no entry says that a run was stopped which never came to
\* its stop, whichever supervisor's file the rename publishes.
NothingInvented ==
    registry \in Entries =>
        \A r \in DOMAIN registry :
            /\ stage[r] # "new"
            /\ registry[r] = "stopped" => call[r] = "stopped"
=============================================================================
