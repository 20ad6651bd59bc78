---------------------------- MODULE UpdaterDisk ----------------------------
(***************************************************************************)
(* Updater on a disk that loses at a power loss what was not synced.  The  *)
(* binaries are in one directory and the records in another; operations on *)
(* a directory reach the disk in order, at the latest with its next sync   *)
(* or when the next run starts: the kernel writes back within seconds, the *)
(* timer waits for minutes.  The updater syncs files before it renames     *)
(* them and a directory after each rename, but not after a removal, and    *)
(* sync_dir drops the error of a directory sync (update.rs:907).           *)
(* Operators marked "Fault:" are mistakes the properties must notice.      *)
(***************************************************************************)
EXTENDS Updater

CONSTANT SyncMayFail   \* a directory sync can fail, which the code ignores

ASSUME DiskAssumption == SyncMayFail \in BOOLEAN

VARIABLES
    installDir,   \* what a power loss may leave of bin and .previous
    stateDir      \* what it may leave of the three records

diskVars == <<installDir, stateDir>>

Binaries == [bin |-> bin, previous |-> previous]
Records == [release |-> release, pending |-> pending, failed |-> failed]

DiskInit ==
    /\ Init
    /\ installDir = {Binaries}
    /\ stateDir = {Records}

\* sync_dir: what the directory holds now is all it may hold later, if the sync works.
Synced(dir, now) ==
    {{now}} \union IF SyncMayFail THEN {dir \union {now}} ELSE {}

\* .previous was synced as a file: where the name exists it has its contents.
WithPrevious(dir) ==
    {[d EXCEPT !.previous = IF @ = None THEN None ELSE previous'] : d \in dir}

\* Fault: .previous is not synced, nor is its directory.
CopyUnsynced ==
    /\ FinishCopy
    /\ installDir' = installDir \union {Binaries'}
    /\ UNCHANGED stateDir

CopySynced ==
    /\ FinishCopy
    /\ \/ pc' = "pend" /\ installDir' \in Synced(WithPrevious(installDir), Binaries')
       \/ pc' = "idle" /\ installDir' = installDir \union {Binaries'}
    /\ UNCHANGED stateDir

\* A rename of a binary, and its directory synced.  A rename that failed changed nothing.
RenameSynced ==
    /\ Swap \/ Restore
    /\ installDir' \in Synced(installDir, Binaries')
    /\ \/ Records' = Records /\ UNCHANGED stateDir
       \/ Records' # Records /\ stateDir' = stateDir \union {Records'}

\* Fault: the swap does not wait for pending.json to be on disk.
WriteUnsynced ==
    /\ WritePending \/ RecordRelease \/ AlreadyRunning \/ MarkRollback
       \/ RecordFailure \/ Stage
    /\ stateDir' = stateDir \union {Records'}
    /\ UNCHANGED installDir

\* write_json: a failure before its rename changed nothing.
WriteSynced ==
    /\ WritePending \/ RecordRelease \/ AlreadyRunning \/ MarkRollback
       \/ RecordFailure \/ Stage
    /\ \/ Records' = Records /\ UNCHANGED stateDir
       \/ Records' # Records /\ stateDir' \in Synced(stateDir, Records')
    /\ UNCHANGED installDir

\* Truncating .previous and removing pending.json are not followed by a sync.
NotSynced ==
    /\ StartCopy \/ DropPending \/ ClearPending \/ Unmark
    /\ installDir' = installDir \union {Binaries'}
    /\ stateDir' = stateDir \union {Records'}

NoFileTouched ==
    /\ \/ ResumeRollback \/ ResumeConfirm \/ NothingToInstall \/ TakeRelease
       \/ Restart \/ HealthCheck \/ RestartPrevious
       \/ Exec \/ GiveUp \/ Abort \/ ServiceRestarts
    /\ UNCHANGED diskVars

\* What earlier runs did has been written back.
TakeLockLater ==
    /\ TakeLock
    /\ installDir' = {Binaries}
    /\ stateDir' = {Records}

\* Each directory comes back as one of the states it may have on disk; the service
\* starts with the machine.
PowerLoss ==
    /\ \E dir \in installDir :
          /\ bin' = dir.bin
          /\ previous' = dir.previous
    /\ \E dir \in stateDir :
          /\ release' = dir.release
          /\ pending' = dir.pending
          /\ failed' = dir.failed
    /\ staged' \in {staged, None}
    /\ service' = bin'
    /\ installDir' = {Binaries'}
    /\ stateDir' = {Records'}
    /\ EndRun
    /\ waiting' = {}
    /\ UNCHANGED history

\* Bound: up to the first process that gets the lock after its binary was replaced,
\* from where on Updater promises nothing of the binary in place.
DiskNext ==
    /\ \/ CopySynced \/ RenameSynced \/ WriteSynced \/ NotSynced \/ NoFileTouched
       \/ TakeLockLater \/ PowerLoss
    /\ ~ overtaken'

DiskSpec == DiskInit /\ [][DiskNext]_<<vars, diskVars>>

-----------------------------------------------------------------------------
(* Properties *)

\* Whatever a power loss would leave, now or later, has a way back from a binary that
\* has not passed its health check: pending.json and .previous are on disk before the
\* swap is (comment at update.rs:489).
PowerLossLeavesAWayBack ==
    \A dir \in installDir, rec \in stateDir :
        dir.bin \notin accepted =>
            /\ rec.pending # None
            /\ rec.pending.version = dir.bin
            /\ dir.previous \in accepted

\* Recovery reads the absence of .previous as a finished rollback, so pending.json may
\* not be on disk without it unless a rollback did restore it.
PreviousDurableFirst ==
    \A dir \in installDir, rec \in stateDir :
        rec.pending # None /\ dir.previous = None => rec.pending.sequence \in restored

\* A release that was rolled back stays recorded or pending through a power loss.
PowerLossForgetsNoFailure ==
    \A s \in restored, rec \in stateDir :
        s \in rec.failed \/ (rec.pending # None /\ rec.pending.sequence = s)
=============================================================================
