----------------------------- MODULE Reinstall -----------------------------
(***************************************************************************)
(* src/install.sh run by an operator on a host that has the updater.  The  *)
(* script replaces the binary, writes release.json and restarts the        *)
(* service without taking update.lock, so its steps fall between those of  *)
(* a run of Updater, and it can end after any of them.  "Fault:" operators *)
(* are mistakes the properties must notice.                                *)
(***************************************************************************)
EXTENDS Updater

CONSTANT MaxInstalls   \* bound: installations by an operator

ASSUME ReinstallAssumption == MaxInstalls \in Nat

VARIABLES
    script,      \* the script's next step; "idle", or "cut" if it ended early
    chosen,      \* the version it installs
    source,      \* the binary fs::copy has open, while the updater copies it
    installs     \* how often it has run

scriptVars == <<script, chosen, installs>>
reinstallVars == <<vars, scriptVars, source>>

ReinstallInit ==
    /\ Init
    /\ script = "idle"
    /\ chosen = None
    /\ source = None
    /\ installs = 0

\* mv over install_path.  The operator vouches for the version, so it is accepted.
InstallBinary ==
    /\ script \in {"idle", "cut"}
    /\ installs < MaxInstalls
    /\ installs' = installs + 1
    /\ \E v \in Versions \ BadVersions :
          /\ chosen' = v
          /\ bin' = v
          /\ accepted' = accepted \union {v}
    /\ script' = "release"
    /\ UNCHANGED <<previous, staged, release, pending, failed, service, runVars,
                   restored, overtaken, source>>

\* Its manifest's sequence, or 0 when it has none.
WriteReleaseState ==
    /\ script = "release"
    /\ \E seq \in {0} \union {s \in Sequences : VersionOf[s] = chosen} :
          release' = [version |-> chosen, sequence |-> seq]
    /\ script' = "start"
    /\ UNCHANGED <<bin, previous, staged, pending, failed, service, runVars, history,
                   chosen, installs, source>>

\* Fault: enable --now instead of restart, which leaves a running service alone.
EnableNow ==
    /\ script = "start"
    /\ script' = "idle"
    /\ chosen' = None
    /\ UNCHANGED <<vars, installs, source>>

\* systemctl restart starts whatever is installed by then.
StartService ==
    /\ script = "start"
    /\ service' = bin
    /\ script' = "idle"
    /\ chosen' = None
    /\ UNCHANGED <<fileVars, runVars, history, installs, source>>

\* set -e, or the operator's ^C.
ScriptEnds ==
    /\ script \in {"release", "start"}
    /\ script' = "cut"
    /\ chosen' = None
    /\ UNCHANGED <<vars, installs, source>>

\* fs::copy opens the installed binary before it truncates .previous, and reads that
\* file even if the script replaces it meanwhile.
OpenCopy == StartCopy /\ source' = bin /\ UNCHANGED scriptVars

\* Fault: a copy that was cut short is taken for a complete one.
FinishAnyCopy ==
    /\ pc = "copying"
    /\ previous' \in {Partial, source}
    /\ Goto("pend")
    /\ source' = None
    /\ UNCHANGED <<bin, staged, release, pending, failed, service, me, job, recorded,
                   history, waiting, scriptVars>>

FinishOpenCopy ==
    /\ pc = "copying"
    /\ \/ previous' = source /\ Goto("pend") /\ UNCHANGED <<staged, me, job, recorded>>
       \/ previous' \in {Partial, source} /\ staged' \in {staged, None} /\ EndRun
    /\ source' = None
    /\ UNCHANGED <<bin, release, pending, failed, service, history, waiting, scriptVars>>

EndCopy == Abort /\ source' = None /\ UNCHANGED scriptVars

OtherStep ==
    /\ \/ Exec \/ GiveUp \/ TakeLock
       \/ ResumeRollback \/ ResumeConfirm \/ DropPending
       \/ NothingToInstall \/ AlreadyRunning \/ TakeRelease
       \/ Stage \/ WritePending \/ Swap
       \/ Restart \/ HealthCheck \/ RecordRelease \/ ClearPending
       \/ MarkRollback \/ RecordFailure \/ Restore \/ RestartPrevious \/ Unmark
       \/ ServiceRestarts
    /\ UNCHANGED <<scriptVars, source>>

\* Bound: up to the first process that gets the lock after its binary was replaced, as
\* in UpdaterDisk.
ReinstallNext ==
    /\ \/ InstallBinary \/ WriteReleaseState \/ StartService \/ ScriptEnds
       \/ OpenCopy \/ FinishOpenCopy \/ EndCopy \/ OtherStep
    /\ ~ overtaken'

ReinstallSpec == ReinstallInit /\ [][ReinstallNext]_reinstallVars

-----------------------------------------------------------------------------
(* Properties.  AlwaysAWayBack of Updater holds as well; the other properties of  *)
(* Updater do not (README, section 3).                                            *)

\* An installation that ran to its end leaves the service on the binary in place,
\* wherever its steps fell between those of an updater's run that installs, confirms
\* or rolls back, and whatever that run or a later one did (install.sh:200-215).
InstallationTakesEffect ==
    script = "idle" /\ pc = "idle" /\ pending = None => service = bin
=============================================================================
