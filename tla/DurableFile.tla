---------------------------- MODULE DurableFile ----------------------------
(***************************************************************************)
(* save_bytes and write_durably (src/src/state.rs), which write the state  *)
(* file and the submission record, over a disk that loses at a power loss  *)
(* what was not synced.  The caller holds state.lock, so one save runs at  *)
(* a time; its process can die at any step.                                *)
(*                                                                         *)
(* A file is its content and whether that content is on disk.  Directory   *)
(* operations are atomic and reach the disk in order, at the latest with   *)
(* the next sync of the directory: `names` is every file the target's name *)
(* may stand for on disk.  Operators marked "Fault:" are mistakes the      *)
(* properties must notice.                                                 *)
(***************************************************************************)
CONSTANTS
    Values,   \* what the program saves
    Absent,   \* no file: the default state
    Torn      \* part of a value, or an empty file

ASSUME DurableAssumption ==
    /\ Absent \notin Values
    /\ Torn \notin Values
    /\ Absent # Torn

VARIABLES
    target,   \* the file at the path
    tmp,      \* the file at <path>.tmp
    names,    \* the files that may be at the path after a power loss
    pc,       \* the save's next step, "idle" between saves
    data,     \* what it saves
    kept,     \* history: the value of the last save that returned Ok, or the first
    tried     \* history: the values of the saves begun since

vars == <<target, tmp, names, pc, data, kept, tried>>

NoFile == [holds |-> Absent, synced |-> TRUE]
SavedFiles == [holds : Values, synced : {TRUE}] \union {NoFile}
Temporaries == [holds : Values \union {Torn}, synced : BOOLEAN] \union {NoFile}

Init ==
    /\ target \in SavedFiles
    /\ tmp = NoFile
    /\ names = {target}
    /\ pc = "idle"
    /\ data = Absent
    /\ kept = target.holds
    /\ tried = {}

Save(value) ==
    /\ pc = "idle"
    /\ pc' = "open"
    /\ data' = value
    /\ tried' = tried \union {value}
    /\ UNCHANGED <<target, tmp, names, kept>>

\* Created, or what a dead process left is truncated.
OpenTemporary ==
    /\ pc = "open"
    /\ tmp' = [holds |-> Torn, synced |-> FALSE]
    /\ pc' = "write"
    /\ UNCHANGED <<target, names, data, kept, tried>>

WriteAll ==
    /\ pc = "write"
    /\ tmp' = [holds |-> data, synced |-> FALSE]
    /\ pc' = "sync"
    /\ UNCHANGED <<target, names, data, kept, tried>>

\* Fault: the temporary is renamed before it is synced.
NoSync ==
    /\ pc = "sync"
    /\ pc' = "rename"
    /\ UNCHANGED <<target, tmp, names, data, kept, tried>>

SyncFile ==
    /\ pc = "sync"
    /\ tmp' = [tmp EXCEPT !.synced = TRUE]
    /\ pc' = "rename"
    /\ UNCHANGED <<target, names, data, kept, tried>>

Rename ==
    /\ pc = "rename"
    /\ target' = tmp
    /\ tmp' = NoFile
    /\ names' = names \union {tmp}
    /\ pc' = "syncdir"
    /\ UNCHANGED <<data, kept, tried>>

\* Fault: the rename is taken to be durable.
NoSyncDirectory ==
    /\ pc = "syncdir"
    /\ kept' = data
    /\ tried' = {}
    /\ pc' = "idle"
    /\ data' = Absent
    /\ UNCHANGED <<target, tmp, names>>

\* The last step: save returns Ok.
SyncDirectory ==
    /\ pc = "syncdir"
    /\ names' = {target}
    /\ kept' = data
    /\ tried' = {}
    /\ pc' = "idle"
    /\ data' = Absent
    /\ UNCHANGED <<target, tmp>>

\* Any step fails, and the temporary is removed, or the process dies.
Fail ==
    /\ pc # "idle"
    /\ tmp' \in {tmp, NoFile}
    /\ pc' = "idle"
    /\ data' = Absent
    /\ UNCHANGED <<target, names, kept, tried>>

\* What a file that was not synced holds after a power loss is anyone's guess.
Survivors(file) ==
    IF file.synced THEN {file} ELSE [holds : {file.holds, Torn}, synced : {TRUE}]

PowerLoss ==
    /\ \E file \in names : target' \in Survivors(file)
    /\ names' = {target'}
    /\ tmp' \in Survivors(tmp) \union {NoFile}
    /\ pc' = "idle"
    /\ data' = Absent
    /\ UNCHANGED <<kept, tried>>

Next ==
    \/ \E value \in Values : Save(value)
    \/ OpenTemporary \/ WriteAll \/ SyncFile \/ Rename \/ SyncDirectory
    \/ Fail
    \/ PowerLoss

Spec == Init /\ [][Next]_vars

-----------------------------------------------------------------------------
(* Properties *)

\* Whatever is at the path, now or after a power loss, is a whole file or none, and
\* a save has its contents in hand from the write to the rename.
DurableTypeOK ==
    /\ target \in SavedFiles
    /\ names \subseteq SavedFiles
    /\ tmp \in Temporaries
    /\ pc \in {"idle", "open", "write", "sync", "rename", "syncdir"}
    /\ data \in Values \union {Absent}
    /\ pc = "idle" <=> data = Absent
    /\ kept \in Values \union {Absent}
    /\ tried \subseteq Values

\* A reader, before or after any number of kills and power losses, finds the value of
\* the last save that returned Ok or of one attempted since: what run_once was told is
\* saved (state.rs:206) is what the next run loads.
ReadsAreRecent ==
    \A file \in names \union {target} : file.holds \in {kept} \union tried

\* A save is one atomic replacement, and it is durable once it has returned Ok.
Atomic == INSTANCE AtomicFile WITH
    shown <- target.holds,
    safe <- UNION {{file.holds : file \in Survivors(f)} : f \in names},
    ok <- tried = {}

ImplementsAtomicFile == Atomic!AtomicSpec
=============================================================================
