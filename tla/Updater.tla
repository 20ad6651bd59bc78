------------------------------ MODULE Updater ------------------------------
(***************************************************************************)
(* `sn46-validator update` (src/src/update.rs): run, confirm and roll_back *)
(* over the files they leave for the next run, with the process killed at  *)
(* any step and every file operation and restart able to fail.  Any number *)
(* of processes may be started, by the timer and by hand; update.lock      *)
(* admits one of them at a time to its run, the others wait for a moment   *)
(* and end.  A process knows only the version it was started from, and may *)
(* get the lock after that binary was replaced: history records it, and    *)
(* the properties that depend on it say so.                                *)
(*                                                                         *)
(* Abort is a `?` that returns with the files as they stand, or the death  *)
(* of the process (TimeoutStartSec, OOM, power): both leave the next run   *)
(* to recover.  Failures the code handles otherwise are disjuncts of the   *)
(* action they happen in.  Operators marked "Fault:" are not part of the   *)
(* specification: each is a plausible mistake in the definition after it,  *)
(* kept to show that the properties would notice it.                       *)
(***************************************************************************)
EXTENDS Naturals, FiniteSets

CONSTANTS
    Versions,    \* binaries, by the version they report
    Sequences,   \* sequences of the signed manifests
    VersionOf,   \* the version each manifest is for
    BadVersions, \* versions that never pass the health check
    Base,        \* the version installed at the start
    MaxWaiting,  \* bound: versions of which processes wait for the lock at a time
    None

ASSUME UpdaterAssumption ==
    /\ Sequences \subseteq Nat \ {0}
    /\ VersionOf \in [Sequences -> Versions]
    /\ BadVersions \subseteq Versions
    /\ Base \in Versions
    /\ MaxWaiting \in Nat
    /\ None \notin Versions

VARIABLES
    bin,         \* the binary at install_path
    previous,    \* <install_path>.previous: a version, Partial or None
    staged,      \* .sn46-validator.new, verified: a version or None
    release,     \* release.json (sequence 0 when absent)
    pending,     \* pending.json, or None
    failed,      \* the sequences in update-failed.json
    service,     \* the binary the systemd service runs
    pc,          \* the run's next step, "idle" between runs
    waiting,     \* the versions of the processes that were started and have no lock
    me,          \* the version of the process that has it (running_version)
    job,         \* the release the run installs, confirms or rolls back
    recorded,    \* roll_back's flag: the failure is recorded
    accepted,    \* history: versions that passed the health check, and Base
    restored,    \* history: sequences whose previous binary was put back
    overtaken    \* history: a process got the lock after its binary was replaced

fileVars == <<bin, previous, staged, release, pending, failed>>
runVars == <<pc, waiting, me, job, recorded>>
history == <<accepted, restored, overtaken>>
vars == <<fileVars, service, runVars, history>>

Partial == "partial"   \* fs::copy over .previous was cut short

Release == [version: Versions \union {None}, sequence: Sequences \union {0}]
Pending == [version: Versions, sequence: Sequences, rolling_back: BOOLEAN]
NoRelease == [version |-> None, sequence |-> 0]

\* None and Partial are no version and no record.
ASSUME NoneAssumption ==
    /\ Partial \notin Versions \union {None}
    /\ None \notin Pending

Steps == {"recover", "fetch", "stage", "copy", "copying", "pend", "swap",
          "restart", "check", "record", "clear", "mark", "fail", "restore",
          "rerestart", "unmark"}

\* write_release_state: the sequence of the installed version's manifest, if it has
\* one, else 0; an installation by hand has no release.json.
InstalledReleases ==
    {NoRelease} \union
    {[version |-> Base, sequence |-> seq] :
        seq \in {0} \union {s \in Sequences : VersionOf[s] = Base}}

Init ==
    /\ bin = Base
    /\ previous = None
    /\ staged = None
    /\ release \in InstalledReleases
    /\ pending = None
    /\ failed = {}
    /\ service = Base
    /\ pc = "idle"
    /\ waiting = {}
    /\ me = None
    /\ job = NoRelease
    /\ recorded = FALSE
    /\ accepted = {Base}
    /\ restored = {}
    /\ overtaken = FALSE

Goto(step) == pc' = step

EndRun ==
    /\ Goto("idle")
    /\ me' = None
    /\ job' = NoRelease
    /\ recorded' = FALSE

-----------------------------------------------------------------------------
(* run: recovery, then a new release *)

\* The timer or an operator starts the installed binary, at any time: its version is
\* fixed from here on.
Exec ==
    /\ Cardinality(waiting) < MaxWaiting
    /\ waiting' = waiting \union {bin}
    /\ UNCHANGED <<fileVars, service, pc, me, job, recorded, history>>

\* Busy: another run kept the lock for LOCK_WAIT.  Or the process is killed first.
GiveUp ==
    /\ \E v \in waiting : waiting' = waiting \ {v}
    /\ UNCHANGED <<fileVars, service, pc, me, job, recorded, history>>

\* try_lock succeeds; another process of the same version may wait on.  A run that
\* finds nothing pending goes on to look for a release.
TakeLock ==
    /\ pc = "idle"
    /\ \E v \in waiting :
          /\ me' = v
          /\ waiting' \in {waiting, waiting \ {v}}
          /\ overtaken' = (overtaken \/ v # bin)
    /\ Goto(IF pending = None THEN "fetch" ELSE "recover")
    /\ UNCHANGED <<fileVars, service, job, recorded, accepted, restored>>

\* Fault: only the marker is looked at.
RollbackMarked == pending.rolling_back

\* Only a rollback moves .previous away, so its absence under another version
\* than the pending one means a rollback restored it.
RollbackInterrupted ==
    \/ pending.rolling_back
    \/ pending.version # me /\ previous = None

PendingJob == [version |-> pending.version, sequence |-> pending.sequence]

ResumeRollback ==
    /\ pc = "recover"
    /\ RollbackInterrupted
    /\ job' = PendingJob
    /\ Goto("mark")
    /\ UNCHANGED <<fileVars, service, me, recorded, history, waiting>>

ResumeConfirm ==
    /\ pc = "recover"
    /\ ~ RollbackInterrupted
    /\ pending.version = me
    /\ job' = PendingJob
    /\ Goto("restart")
    /\ UNCHANGED <<fileVars, service, me, recorded, history, waiting>>

\* The swap never landed.
DropPending ==
    /\ pc = "recover"
    /\ ~ RollbackInterrupted
    /\ pending.version # me
    /\ pending' = None
    /\ Goto("fetch")
    /\ UNCHANGED <<bin, previous, staged, release, failed, service, me, job,
                   recorded, history, waiting>>

\* No manifest, not newer, failed before, not due or outside the window.
NothingToInstall ==
    /\ pc = "fetch"
    /\ EndRun
    /\ UNCHANGED <<fileVars, service, history, waiting>>

\* Fault: any other sequence is taken.
Different(seq) == seq # release.sequence

Newer(seq) == seq > release.sequence

\* The manifest is for the running version: only its sequence is recorded.
AlreadyRunning ==
    /\ pc = "fetch"
    /\ \E seq \in Sequences :
          /\ Newer(seq)
          /\ VersionOf[seq] = me
          /\ release' = [version |-> me, sequence |-> seq]
    /\ EndRun
    /\ UNCHANGED <<bin, previous, staged, pending, failed, service, history, waiting>>

\* A newer, due release that never failed here (the latest one published may be
\* any signed manifest), with the disk space for it.
TakeRelease ==
    /\ pc = "fetch"
    /\ \E seq \in Sequences :
          /\ Newer(seq)
          /\ VersionOf[seq] # me
          /\ seq \notin failed
          /\ job' = [version |-> VersionOf[seq], sequence |-> seq]
    /\ Goto("stage")
    /\ UNCHANGED <<fileVars, service, me, recorded, history, waiting>>

\* Download, verify and test-run.  A transport error leaves nothing behind and
\* is retried; a binary that reports another version is recorded as failed.
Stage ==
    /\ pc = "stage"
    /\ \/ /\ staged' = job.version
          /\ Goto("copy")
          /\ UNCHANGED <<failed, me, job, recorded>>
       \/ /\ staged' \in {staged, None}
          /\ failed' \in {failed, failed \union {job.sequence}}
          /\ EndRun
    /\ UNCHANGED <<bin, previous, release, pending, service, history, waiting>>

\* Fault: the copy is not waited for.
StartCopyOnly ==
    /\ pc = "copy"
    /\ previous' = Partial
    /\ Goto("pend")
    /\ UNCHANGED <<bin, staged, release, pending, failed, service, me, job,
                   recorded, history, waiting>>

\* Fault: the complete .previous of an earlier update is kept.
KeepOlderCopy ==
    /\ pc = "copy"
    /\ IF previous \in Versions
       THEN UNCHANGED previous /\ Goto("pend")
       ELSE previous' = Partial /\ Goto("copying")
    /\ UNCHANGED <<bin, staged, release, pending, failed, service, me, job,
                   recorded, history, waiting>>

\* fs::copy truncates .previous first; .previous is synced before it is relied on.
StartCopy ==
    /\ pc = "copy"
    /\ previous' = Partial
    /\ Goto("copying")
    /\ UNCHANGED <<bin, staged, release, pending, failed, service, me, job,
                   recorded, history, waiting>>

FinishCopy ==
    /\ pc = "copying"
    /\ \/ previous' = bin /\ Goto("pend") /\ UNCHANGED <<staged, me, job, recorded>>
       \/ previous' \in {Partial, bin} /\ staged' \in {staged, None} /\ EndRun
    /\ UNCHANGED <<bin, release, pending, failed, service, history, waiting>>

\* Fault: the swap goes ahead without its record.
SkipPending ==
    /\ pc = "pend"
    /\ Goto("swap")
    /\ UNCHANGED <<fileVars, service, me, job, recorded, history, waiting>>

WritePending ==
    /\ pc = "pend"
    /\ \/ /\ pending' = [version |-> job.version, sequence |-> job.sequence,
                         rolling_back |-> FALSE]
          /\ Goto("swap")
          /\ UNCHANGED <<staged, me, job, recorded>>
       \/ /\ staged' \in {staged, None}
          /\ EndRun
          /\ UNCHANGED pending
    /\ UNCHANGED <<bin, previous, release, failed, service, history, waiting>>

\* The rename; when it fails both files are removed, which may fail as well.
Swap ==
    /\ pc = "swap"
    /\ \/ /\ bin' = staged
          /\ staged' = None
          /\ Goto("restart")
          /\ UNCHANGED <<pending, me, job, recorded>>
       \/ /\ staged' \in {staged, None}
          /\ pending' \in {pending, None}
          /\ EndRun
          /\ UNCHANGED bin
    /\ UNCHANGED <<previous, release, failed, service, history, waiting>>

-----------------------------------------------------------------------------
(* confirm *)

\* systemctl restart; a failure starts the rollback.
Restart ==
    /\ pc = "restart"
    /\ \/ service' = bin /\ Goto("check")
       \/ UNCHANGED service /\ Goto("mark")
    /\ UNCHANGED <<fileVars, me, job, recorded, history, waiting>>

\* Active and not restarted for the health period.
HealthCheck ==
    /\ pc = "check"
    /\ \/ /\ service \notin BadVersions
          /\ accepted' = accepted \union {service}
          /\ Goto("record")
       \/ /\ Goto("mark")
          /\ UNCHANGED accepted
    /\ UNCHANGED <<fileVars, service, me, job, recorded, restored, overtaken, waiting>>

\* Fault: a release.json that cannot be written is logged only.
RecordReleaseOrNot ==
    /\ pc = "record"
    /\ release' \in {release, job}
    /\ Goto("clear")
    /\ UNCHANGED <<bin, previous, staged, pending, failed, service, me, job,
                   recorded, history, waiting>>

RecordRelease ==
    /\ pc = "record"
    /\ release' = job
    /\ Goto("clear")
    /\ UNCHANGED <<bin, previous, staged, pending, failed, service, me, job,
                   recorded, history, waiting>>

ClearPending ==
    /\ pc = "clear"
    /\ pending' = None
    /\ EndRun
    /\ UNCHANGED <<bin, previous, staged, release, failed, service, history, waiting>>

-----------------------------------------------------------------------------
(* roll_back *)

\* Marking the rollback may fail; that never stops it.
MarkRollback ==
    /\ pc = "mark"
    /\ pending' \in {pending, [version |-> job.version, sequence |-> job.sequence,
                               rolling_back |-> TRUE]}
    /\ Goto("fail")
    /\ UNCHANGED <<bin, previous, staged, release, failed, service, me, job,
                   recorded, history, waiting>>


\* Nor does failing to record the sequence, but then the rollback stays pending.
RecordFailure ==
    /\ pc = "fail"
    /\ \/ failed' = failed \union {job.sequence} /\ recorded' = TRUE
       \/ UNCHANGED failed /\ recorded' = FALSE
    /\ Goto("restore")
    /\ UNCHANGED <<bin, previous, staged, release, pending, service, me, job,
                   history, waiting>>

\* .previous is gone when an interrupted rollback already restored it.
Restore ==
    /\ pc = "restore"
    /\ \/ previous # None /\ bin' = previous
       \/ previous = None /\ UNCHANGED bin
    /\ previous' = None
    /\ restored' = restored \union {job.sequence}
    /\ Goto("rerestart")
    /\ UNCHANGED <<staged, release, pending, failed, service, me, job, recorded,
                   accepted, overtaken, waiting>>

\* Fault: the rollback is closed whether or not the failure was recorded.
RestartAndForget ==
    /\ pc = "rerestart"
    /\ service' = bin
    /\ Goto("unmark")
    /\ UNCHANGED <<fileVars, me, job, recorded, history, waiting>>

\* Fault: a failed restart is logged only.
RestartOrNot ==
    /\ pc = "rerestart"
    /\ service' \in {service, bin}
    /\ \/ recorded /\ Goto("unmark") /\ UNCHANGED <<me, job, recorded>>
       \/ ~ recorded /\ EndRun
    /\ UNCHANGED <<fileVars, history, waiting>>

RestartPrevious ==
    /\ pc = "rerestart"
    /\ service' = bin
    /\ \/ recorded /\ Goto("unmark") /\ UNCHANGED <<me, job, recorded>>
       \/ ~ recorded /\ EndRun
    /\ UNCHANGED <<fileVars, history, waiting>>

\* A pending.json that cannot be removed is logged only.
Unmark ==
    /\ pc = "unmark"
    /\ pending' \in {pending, None}
    /\ EndRun
    /\ UNCHANGED <<bin, previous, staged, release, failed, service, history, waiting>>

-----------------------------------------------------------------------------
Abort ==
    /\ pc # "idle"
    /\ EndRun
    /\ UNCHANGED <<fileVars, service, history, waiting>>

\* systemd restarts the service on its own: a crash of it, or a reboot.
ServiceRestarts ==
    /\ service # bin
    /\ service' = bin
    /\ UNCHANGED <<fileVars, runVars, history>>

RunStep ==
    \/ ResumeRollback \/ ResumeConfirm \/ DropPending
    \/ NothingToInstall \/ AlreadyRunning \/ TakeRelease
    \/ Stage \/ StartCopy \/ FinishCopy \/ WritePending \/ Swap
    \/ Restart \/ HealthCheck \/ RecordRelease \/ ClearPending
    \/ MarkRollback \/ RecordFailure \/ Restore \/ RestartPrevious \/ Unmark

Next == Exec \/ GiveUp \/ TakeLock \/ RunStep \/ Abort \/ ServiceRestarts

Spec == Init /\ [][Next]_vars

-----------------------------------------------------------------------------
(* Properties *)

UpdaterTypeOK ==
    /\ bin \in Versions
    /\ previous \in Versions \union {Partial, None}
    /\ staged \in Versions \union {None}
    /\ release \in Release
    /\ pending \in Pending \union {None}
    /\ failed \subseteq Sequences
    /\ service \in Versions
    /\ pc \in Steps \union {"idle"}
    /\ waiting \subseteq Versions
    /\ me \in Versions \union {None}
    /\ job \in Release
    /\ recorded \in BOOLEAN
    /\ accepted \subseteq Versions
    /\ restored \subseteq Sequences
    /\ overtaken \in BOOLEAN

\* A process that got the lock after its binary was replaced draws the wrong conclusions
\* from pending.json (update.rs:380-400): the next four properties are promised up to then.

\* A binary that has not passed its health check is only ever installed with a
\* pending record of it and a complete, accepted binary to go back to.
AlwaysAWayBack ==
    ~ overtaken /\ bin \notin accepted =>
        /\ pending # None
        /\ pending.version = bin
        /\ previous \in accepted

\* What was rolled back is either recorded as failed or still pending, whatever
\* writes failed and whenever the process died (comments at update.rs:382, 547).
NoFailureForgotten ==
    ~ overtaken =>
        \A s \in restored : s \in failed \/ (pending # None /\ pending.sequence = s)

\* With no run active and nothing pending the service runs the installed binary:
\* no crash leaves it on a binary that was swapped out under it.
ServiceRunsInstalled ==
    ~ overtaken /\ pc = "idle" /\ pending = None => service = bin

\* "The release the updater put in place" (update.rs:304): with nothing pending
\* release.json names the installed binary.  The one exception is a run killed between
\* recording a release and closing it (update.rs:527, 534) whose successor rolls it back.
ReleaseNamesInstalled ==
    ~ overtaken /\ pc = "idle" /\ pending = None /\ release.sequence # 0 =>
        release.version = bin \/ release.sequence \in restored

\* "never retries that release" (README): a release that was rolled back is not
\* swapped in again.
NeverRetried ==
    [][pc = "swap" /\ bin' # bin => job.sequence \notin restored]_vars

\* release.json never goes back, so no older release is ever taken as newer.
SequenceOnlyGrows == [][release.sequence <= release'.sequence]_release

-----------------------------------------------------------------------------
(* Refinement of UpdateTrials *)

\* The release on trial: its binary is installed and its record still pending.
Trial == IF pending # None /\ pending.version = bin THEN pending.sequence ELSE 0

Fallback == IF Trial = 0 THEN bin ELSE previous

Trials == INSTANCE UpdateTrials WITH
    installed <- bin, fallback <- Fallback, trial <- Trial, undone <- restored

\* Kills, failed writes and interrupted recoveries do nothing the promise does not allow:
\* an undone release makes way for the binary it replaced and is not tried again, and
\* what is kept was healthy (update.rs:380-402, 515-595).
KeepsTrials == Trials!TrialSpec
=============================================================================
