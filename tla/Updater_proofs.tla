--------------------------- MODULE Updater_proofs ---------------------------
(***************************************************************************)
(* Proofs about modules Updater, UpdaterDisk and Reinstall for any         *)
(* releases, versions and failures.                                        *)
(*                                                                         *)
(* The argument.  OnDisk is what the next run may find, whenever the last  *)
(* one died: with nothing pending the binary is an accepted one and runs;  *)
(* with a release pending .previous is accepted or has been put back, and  *)
(* which of the two it is can be read off the files.  InHand is what the   *)
(* active run knows at each of its steps.  A power loss leaves a disk that *)
(* is fit in the same way (Recoverable), because every step that relies on *)
(* a write comes after the sync of it.  install.sh takes from the run what *)
(* it knows of the binary, so with it only the way back is invariant, and  *)
(* that the last restart is of what is installed (ReinstallInv).           *)
(*                                                                         *)
(* All this holds until a process gets the lock after its binary was       *)
(* replaced (overtaken).  BaseInv holds in any case: it says of no binary  *)
(* what it is, only that what was put out is not taken again.              *)
(***************************************************************************)
EXTENDS UpdaterDisk, Reinstall, TLAPS

Installing == {"stage", "copy", "copying", "pend", "swap"}
Confirming == {"restart", "check", "record", "clear"}
RollingBack == {"mark", "fail", "restore", "rerestart", "unmark"}

NothingPending == bin \in accepted /\ service = bin

ReleasePending ==
    /\ previous \in accepted \union {None}
    /\ previous # pending.version
    /\ previous = None => bin # pending.version
    /\ bin # pending.version => bin \in accepted
    /\ bin # pending.version /\ previous # None => service = bin
    /\ release.sequence <= pending.sequence

FailuresOnRecord ==
    \A s \in restored : s \in failed \/ (pending # None /\ pending.sequence = s)

\* A record that outlived the run which dropped it: the next one drops it again.
SwapNeverLanded ==
    /\ bin # pending.version /\ bin \in accepted /\ service = bin
    /\ previous # None
    /\ ~ pending.rolling_back

OnDisk ==
    /\ pending = None => NothingPending
    /\ pending # None =>
          /\ ReleasePending \/ SwapNeverLanded
          /\ pending.sequence \in restored =>
                 pending.sequence \in failed \/ previous = None
          /\ pending.rolling_back => bin = pending.version \/ previous = None
          /\ previous = None => pending.sequence \in restored
    /\ FailuresOnRecord

InHand ==
    /\ pc \in {"recover", "fetch"} \union Installing => me = bin
    /\ pc = "recover" => pending # None
    /\ pc \in {"fetch", "stage", "copy", "copying", "pend"} => pending = None
    /\ pc \in Installing =>
          /\ job.version \in Versions \ {bin}
          /\ job.sequence \in Sequences \ failed
          /\ release.sequence < job.sequence
    /\ pc \in {"copy", "copying", "pend", "swap"} => staged = job.version
    /\ pc \in {"pend", "swap"} => previous = bin
    /\ pc \in {"swap"} \union Confirming \union RollingBack =>
          /\ pending # None
          /\ pending.version = job.version
          /\ pending.sequence = job.sequence
    /\ pc \in Confirming => bin = job.version
    /\ pc \in {"mark", "fail", "restore"} => bin = pending.version \/ previous = None
    /\ pc \in {"check", "record", "clear", "unmark"} => service = bin
    /\ pc \in {"record", "clear"} => bin \in accepted
    /\ pc \in {"rerestart", "unmark"} => previous = None
    /\ pc \in {"restore", "rerestart"} /\ recorded => job.sequence \in failed
    /\ pc = "unmark" => job.sequence \in failed

UpdaterInv == UpdaterTypeOK /\ OnDisk /\ InHand

\* The installation the updater starts from satisfies the invariant.
LEMMA UpdaterInit == Init => UpdaterInv
  <1> SUFFICES ASSUME Init PROVE UpdaterInv
    OBVIOUS
  <1>1. NoRelease \in Release /\ InstalledReleases \subseteq Release
    BY UpdaterAssumption DEF InstalledReleases, NoRelease, Release
  <1>2. UpdaterTypeOK
    BY <1>1, UpdaterAssumption DEF Init, UpdaterTypeOK
  <1>3. OnDisk
    BY DEF Init, OnDisk, NothingPending, FailuresOnRecord
  <1>4. InHand
    BY DEF Init, InHand, Installing, Confirming, RollingBack
  <1> QED
    BY <1>2, <1>3, <1>4 DEF UpdaterInv

\* A run that ends, or dies, leaves the disk as its last step left it.
LEMMA EndRunKeeps ==
  ASSUME UpdaterTypeOK, OnDisk', EndRun,
         bin' \in Versions, previous' \in Versions \union {Partial, None},
         staged' \in Versions \union {None}, release' \in Release,
         pending' \in Pending \union {None}, failed' \subseteq Sequences,
         UNCHANGED <<service, waiting, history>>
  PROVE  UpdaterInv'
  <1>1. UpdaterTypeOK'
    BY DEF EndRun, Goto, UpdaterTypeOK, Release, NoRelease, history
  <1>2. InHand'
    BY DEF EndRun, Goto, InHand, Installing, Confirming, RollingBack
  <1> QED
    BY <1>1, <1>2 DEF UpdaterInv

\* The record run writes before the swap and roll_back marks.
PendingFor(j, rolling_back) ==
    [version |-> j.version, sequence |-> j.sequence, rolling_back |-> rolling_back]

\* The record run writes before the swap and roll_back marks is a Pending, whose fields
\* are the release's.
LEMMA PendingRecord ==
  ASSUME NEW j, j.version \in Versions, j.sequence \in Sequences, NEW b \in BOOLEAN
  PROVE  /\ PendingFor(j, b) \in Pending
         /\ PendingFor(j, b) # None
         /\ PendingFor(j, b).version = j.version
         /\ PendingFor(j, b).sequence = j.sequence
  <1>1. /\ PendingFor(j, b) \in Pending
        /\ PendingFor(j, b).version = j.version
        /\ PendingFor(j, b).sequence = j.sequence
    BY DEF PendingFor, Pending
  <1> QED
    BY <1>1, NoneAssumption

\* The sequences of release.json and of every manifest can be compared.
LEMMA SequencesAreNumbers ==
  ASSUME UpdaterTypeOK
  PROVE  release.sequence \in Nat /\ \A s \in Sequences : s \in Nat
  <1>1. release.sequence \in Sequences \union {0}
    BY DEF UpdaterTypeOK, Release
  <1>2. \A s \in Sequences \union {0} : s \in Nat
    BY UpdaterAssumption
  <1> QED
    BY <1>1, <1>2

\* run's steps up to the swap keep the invariant.
LEMMA InstallStep ==
  ASSUME UpdaterInv,
         \/ Exec \/ GiveUp \/ (TakeLock /\ ~ overtaken')
         \/ ResumeRollback \/ ResumeConfirm \/ DropPending \/ NothingToInstall
         \/ AlreadyRunning \/ TakeRelease \/ Stage \/ StartCopy \/ FinishCopy
         \/ WritePending \/ Swap
  PROVE  UpdaterInv'
  <1> USE UpdaterAssumption, NoneAssumption
      DEF UpdaterInv, UpdaterTypeOK, OnDisk, NothingPending, ReleasePending, SwapNeverLanded,
          FailuresOnRecord, InHand, Installing, Confirming, RollingBack, Steps,
          fileVars, history, Goto
  <1>1. CASE Exec \/ GiveUp \/ (TakeLock /\ ~ overtaken')
    <2>1. CASE Exec
      BY <2>1 DEF Exec
    <2>2. CASE GiveUp
      BY <2>2 DEF GiveUp
    <2>3. CASE TakeLock /\ ~ overtaken'
      <3>1. me' = bin /\ waiting' \subseteq waiting /\ ~ overtaken' /\ overtaken' \in BOOLEAN
        BY <2>3 DEF TakeLock
      <3> QED
        BY <2>3, <3>1 DEF TakeLock
    <2> QED
      BY <1>1, <2>1, <2>2, <2>3
  <1>2. CASE ResumeRollback
    BY <1>2 DEF ResumeRollback, RollbackInterrupted, PendingJob, Pending, Release
  <1>3. CASE ResumeConfirm
    BY <1>3 DEF ResumeConfirm, RollbackInterrupted, PendingJob, Pending, Release
  <1>4. CASE DropPending
    BY <1>4 DEF DropPending, RollbackInterrupted
  <1>5. CASE NothingToInstall
    BY <1>5, EndRunKeeps DEF NothingToInstall
  <1>6. CASE AlreadyRunning
    BY <1>6, EndRunKeeps DEF AlreadyRunning, Release
  <1>7. CASE TakeRelease
    <2>1. PICK seq \in Sequences :
              /\ release.sequence < seq
              /\ VersionOf[seq] # me
              /\ seq \notin failed
              /\ job' = [version |-> VersionOf[seq], sequence |-> seq]
      BY <1>7 DEF TakeRelease, Newer, Release
    <2>2. VersionOf[seq] \in Versions
      OBVIOUS
    <2>3. job' \in Release /\ job'.version = VersionOf[seq] /\ job'.sequence = seq
      BY <2>1, <2>2 DEF Release
    <2>4. UpdaterTypeOK' /\ OnDisk'
      BY <1>7, <2>3 DEF TakeRelease
    <2>5. InHand'
      BY <1>7, <2>1, <2>2, <2>3 DEF TakeRelease
    <2> QED
      BY <2>4, <2>5
  <1>8. CASE Stage
    BY <1>8, EndRunKeeps DEF Stage, Release
  <1>9. CASE StartCopy
    BY <1>9 DEF StartCopy
  <1>10. CASE FinishCopy
    BY <1>10, EndRunKeeps DEF FinishCopy
  <1>11. CASE WritePending
    <2>1. CASE pending' = PendingFor(job, FALSE) /\ pc' = "swap"
               /\ UNCHANGED <<staged, me, job, recorded>>
      <3>1. job.version \in Versions /\ job.sequence \in Sequences
        BY <1>11 DEF WritePending
      <3>2. /\ pending' \in Pending
            /\ pending'.version = job.version
            /\ pending'.sequence = job.sequence
            /\ pending' # None
        BY <2>1, <3>1, PendingRecord, Zenon
      <3>3. UpdaterTypeOK'
        BY <1>11, <2>1, <3>2 DEF WritePending
      <3>4. OnDisk'
        <4>1. /\ release.sequence <= job.sequence
              /\ job.version # bin
              /\ job.sequence \in restored => job.sequence \in failed
              /\ previous = bin /\ previous # None
              /\ ~ pending'.rolling_back
          <5>1. release.sequence \in Nat /\ job.sequence \in Nat
            BY <3>1, SequencesAreNumbers
          <5>2. release.sequence < job.sequence /\ job.version # bin
            BY <1>11 DEF WritePending
          <5>3. job.sequence \in restored => job.sequence \in failed
            BY <1>11 DEF WritePending
          <5>4. previous = bin /\ previous # None
            BY <1>11 DEF WritePending
          <5>5. ~ pending'.rolling_back
            BY <2>1 DEF PendingFor
          <5> QED
            BY <5>1, <5>2, <5>3, <5>4, <5>5
        <4> QED
          BY <1>11, <2>1, <3>2, <4>1 DEF WritePending
      <3>5. InHand'
        BY <1>11, <2>1, <3>2 DEF WritePending
      <3> QED
        BY <3>3, <3>4, <3>5
    <2>2. CASE staged' \in {staged, None} /\ EndRun /\ UNCHANGED pending
      BY <1>11, <2>2, EndRunKeeps DEF WritePending
    <2> QED
      BY <1>11, <2>1, <2>2 DEF WritePending, PendingFor
  <1>12. CASE Swap
    <2>1. CASE bin' = staged /\ staged' = None /\ pc' = "restart"
               /\ UNCHANGED <<pending, me, job, recorded>>
      <3>1. /\ job.version \in Versions /\ bin # job.version
            /\ release.sequence < job.sequence /\ job.sequence \in Sequences
            /\ previous = bin /\ previous # None /\ staged = job.version
            /\ pending # None /\ pending.version = job.version
            /\ pending.sequence = job.sequence
        BY <1>12 DEF Swap
      <3>2. release.sequence <= pending.sequence
        <4>1. release.sequence \in Nat /\ job.sequence \in Nat
          BY <3>1, SequencesAreNumbers
        <4> QED
          BY <3>1, <4>1
      <3>3. bin \in accepted
        BY <1>12, <3>1 DEF Swap
      <3>4. UpdaterTypeOK'
        BY <1>12, <2>1, <3>1 DEF Swap
      <3>5. OnDisk'
        <4>1. UNCHANGED <<previous, release, pending, failed, accepted, restored>>
          BY <1>12, <2>1 DEF Swap
        <4>2. ReleasePending'
          BY <2>1, <3>1, <3>2, <3>3, <4>1
        <4>3. pending.sequence \in restored => pending.sequence \in failed
          BY <1>12, <3>1 DEF Swap
        <4>4. FailuresOnRecord'
          BY <4>1
        <4> QED
          BY <2>1, <3>1, <4>1, <4>2, <4>3, <4>4
      <3>6. InHand'
        BY <1>12, <2>1, <3>1 DEF Swap
      <3> QED
        BY <3>4, <3>5, <3>6
    <2>2. CASE staged' \in {staged, None} /\ pending' \in {pending, None} /\ EndRun
               /\ UNCHANGED bin
      BY <1>12, <2>2, EndRunKeeps DEF Swap
    <2> QED
      BY <1>12, <2>1, <2>2 DEF Swap
  <1> QED
    BY <1>1, <1>2, <1>3, <1>4, <1>5, <1>6, <1>7, <1>8, <1>9, <1>10, <1>11, <1>12

\* So do confirm's steps.
LEMMA ConfirmStep ==
  ASSUME UpdaterInv, Restart \/ HealthCheck \/ RecordRelease \/ ClearPending
  PROVE  UpdaterInv'
  <1> USE UpdaterAssumption, NoneAssumption
      DEF UpdaterInv, UpdaterTypeOK, OnDisk, NothingPending, ReleasePending, SwapNeverLanded,
          FailuresOnRecord, InHand, Installing, Confirming, RollingBack, Steps,
          fileVars, history, Goto
  <1>1. CASE Restart
    BY <1>1 DEF Restart
  <1>2. CASE HealthCheck
    BY <1>2 DEF HealthCheck
  <1>3. CASE RecordRelease
    <2>1. pending # None /\ pending.sequence = job.sequence /\ bin \in accepted
      BY <1>3 DEF RecordRelease
    <2>2. pending.sequence \in Sequences
      BY <2>1 DEF Pending
    <2>3. pending.sequence \in Nat
      BY <2>2
    <2>4. release' = job
      BY <1>3 DEF RecordRelease
    <2>5. release'.sequence <= pending.sequence
      BY <2>1, <2>3, <2>4
    <2>6. UpdaterTypeOK'
      BY <1>3 DEF RecordRelease
    <2>7. OnDisk'
      BY <1>3, <2>1, <2>5 DEF RecordRelease
    <2>8. InHand'
      BY <1>3, <2>1 DEF RecordRelease
    <2> QED
      BY <2>6, <2>7, <2>8
  <1>4. CASE ClearPending
    BY <1>4, EndRunKeeps DEF ClearPending
  <1> QED
    BY <1>1, <1>2, <1>3, <1>4

\* And roll_back's: nothing it fails to write keeps the next run from finishing it.
LEMMA RollBackStep ==
  ASSUME UpdaterInv,
         MarkRollback \/ RecordFailure \/ Restore \/ RestartPrevious \/ Unmark
  PROVE  UpdaterInv'
  <1> USE UpdaterAssumption, NoneAssumption
      DEF UpdaterInv, UpdaterTypeOK, OnDisk, NothingPending, ReleasePending, SwapNeverLanded,
          FailuresOnRecord, InHand, Installing, Confirming, RollingBack, Steps,
          fileVars, history, Goto
  <1>1. CASE MarkRollback
    <2>1. job.version \in Versions /\ job.sequence \in Sequences
      BY <1>1 DEF MarkRollback, Pending
    <2>2. pending' = pending \/ pending' = PendingFor(job, TRUE)
      BY <1>1 DEF MarkRollback, PendingFor
    <2>3. /\ PendingFor(job, TRUE) \in Pending
          /\ PendingFor(job, TRUE).version = job.version
          /\ PendingFor(job, TRUE).sequence = job.sequence
          /\ PendingFor(job, TRUE) # None
      BY <2>1, PendingRecord, Zenon
    <2>4. /\ pending' \in Pending
          /\ pending'.version = pending.version
          /\ pending'.sequence = pending.sequence
          /\ pending' # None
      BY <1>1, <2>2, <2>3 DEF MarkRollback
    <2> QED
      BY <1>1, <2>4 DEF MarkRollback
  <1>2. CASE RecordFailure
    <2>1. job.sequence \in Sequences
      BY <1>2 DEF RecordFailure, Pending
    <2> QED
      BY <1>2, <2>1 DEF RecordFailure
  <1>3. CASE Restore
    <2>1. job.sequence \in Sequences
      BY <1>3 DEF Restore, Pending
    <2>2. bin' \in accepted /\ bin' # pending.version /\ bin' \in Versions
      BY <1>3 DEF Restore
    <2>3. pending # None /\ pending.sequence = job.sequence
      BY <1>3 DEF Restore
    <2>4. UpdaterTypeOK'
      BY <1>3, <2>1, <2>2 DEF Restore
    <2>5. OnDisk'
      <3>1. ReleasePending'
        <4>1. pending.version \in Versions /\ pending.version # None
          BY <2>3 DEF Pending
        <4>2. UNCHANGED <<pending, release, accepted>> /\ previous' = None
          BY <1>3 DEF Restore
        <4>3. release.sequence <= pending.sequence
          BY <1>3, <2>3 DEF Restore
        <4> QED
          BY <2>2, <4>1, <4>2, <4>3 DEF ReleasePending
      <3>2. FailuresOnRecord'
        BY <1>3, <2>3 DEF Restore
      <3> QED
        BY <1>3, <2>3, <3>1, <3>2 DEF Restore
    <2>6. InHand'
      BY <1>3, <2>3 DEF Restore
    <2> QED
      BY <2>4, <2>5, <2>6
  <1>4. CASE RestartPrevious
    <2>1. CASE ~ recorded
      <3>1. UpdaterTypeOK /\ service' \in Versions /\ EndRun
        BY <1>4, <2>1 DEF RestartPrevious
      <3>2. OnDisk'
        BY <1>4 DEF RestartPrevious
      <3>3. UpdaterTypeOK'
        BY <1>4, <3>1 DEF RestartPrevious, EndRun, NoRelease, Release
      <3>4. InHand'
        BY <3>1 DEF EndRun
      <3> QED
        BY <3>2, <3>3, <3>4
    <2>2. CASE recorded
      BY <1>4, <2>2 DEF RestartPrevious
    <2> QED
      BY <2>1, <2>2
  <1>5. CASE Unmark
    BY <1>5, EndRunKeeps DEF Unmark
  <1> QED
    BY <1>1, <1>2, <1>3, <1>4, <1>5

\* Nothing is forgotten of a process that got the lock after its binary was replaced.
LEMMA OvertakenStays == [Next]_vars => (overtaken => overtaken')
  BY DEF Next, RunStep, Exec, GiveUp, TakeLock, ResumeRollback, ResumeConfirm, DropPending,
     NothingToInstall, AlreadyRunning, TakeRelease, Stage, StartCopy, FinishCopy,
     WritePending, Swap, Restart, HealthCheck, RecordRelease, ClearPending, MarkRollback,
     RecordFailure, Restore, RestartPrevious, Unmark, Abort, ServiceRestarts,
     vars, runVars, history

\* Every step up to there, a kill and a restart by systemd included, keeps the invariant.
LEMMA UpdaterStep == UpdaterInv /\ [Next /\ ~ overtaken']_vars => UpdaterInv'
  <1> SUFFICES ASSUME UpdaterInv, [Next /\ ~ overtaken']_vars PROVE UpdaterInv'
    OBVIOUS
  <1>1. CASE Abort
    BY <1>1, EndRunKeeps DEF Abort, fileVars, history, UpdaterInv, UpdaterTypeOK, OnDisk,
       NothingPending, ReleasePending, SwapNeverLanded, FailuresOnRecord
  <1>2. CASE ServiceRestarts
    BY <1>2 DEF ServiceRestarts, fileVars, runVars, history, UpdaterInv, UpdaterTypeOK,
       OnDisk, NothingPending, ReleasePending, SwapNeverLanded, FailuresOnRecord, InHand
  <1>3. CASE UNCHANGED vars
    BY <1>3 DEF vars, fileVars, runVars, history, UpdaterInv, UpdaterTypeOK, OnDisk,
       NothingPending, ReleasePending, SwapNeverLanded, FailuresOnRecord, InHand
  <1> QED
    BY <1>1, <1>2, <1>3, InstallStep, ConfirmStep, RollBackStep DEF Next, RunStep

\* The invariant holds until a process gets the lock after its binary was replaced.
THEOREM UpdaterInvariance == Spec => [](~ overtaken => UpdaterInv)
  <1>1. (~ overtaken => UpdaterInv) /\ [Next]_vars => (~ overtaken => UpdaterInv)'
    BY OvertakenStays, UpdaterStep
  <1> QED
    BY UpdaterInit, <1>1, PTL DEF Spec

-----------------------------------------------------------------------------
(* Theorems *)

\* Wherever a run is killed: a binary that has not passed its health check is installed
\* only with a record of it and an accepted binary to go back to, until a process gets the
\* lock after its binary was replaced.
THEOREM WayBack == Spec => []AlwaysAWayBack
  <1>1. (~ overtaken => UpdaterInv) => AlwaysAWayBack
    BY DEF UpdaterInv, OnDisk, NothingPending, ReleasePending, SwapNeverLanded, AlwaysAWayBack
  <1> QED
    BY UpdaterInvariance, <1>1, PTL

\* A release that was rolled back is recorded as failed or still pending, until a process
\* gets the lock after its binary was replaced.
THEOREM FailuresKept == Spec => []NoFailureForgotten
  <1>1. (~ overtaken => UpdaterInv) => NoFailureForgotten
    BY DEF UpdaterInv, OnDisk, FailuresOnRecord, NoFailureForgotten
  <1> QED
    BY UpdaterInvariance, <1>1, PTL

\* With nothing pending and no run active the service runs the installed binary, until a
\* process gets the lock after its binary was replaced.
THEOREM InstalledRuns == Spec => []ServiceRunsInstalled
  <1>1. (~ overtaken => UpdaterInv) => ServiceRunsInstalled
    BY DEF UpdaterInv, OnDisk, NothingPending, ServiceRunsInstalled
  <1> QED
    BY UpdaterInvariance, <1>1, PTL

-----------------------------------------------------------------------------
(* What holds whichever process gets the lock *)

\* What was rolled back cannot be taken again: it is recorded, or not newer than what is,
\* or pending without a .previous, which no process takes for a swap that never landed.
NotTakenAgain ==
    \A s \in restored :
        \/ s \in failed
        \/ s <= release.sequence
        \/ pending # None /\ pending.sequence = s /\ previous = None

BaseOnDisk ==
    /\ pending # None =>
           previous \in Versions \union {None} /\ release.sequence <= pending.sequence
    /\ NotTakenAgain

BaseInHand ==
    /\ pc # "idle" => me \in Versions
    /\ pc = "recover" => pending # None
    /\ pc \in {"fetch", "stage", "copy", "copying", "pend"} => pending = None
    /\ pc \in Installing =>
          /\ job.version \in Versions
          /\ job.sequence \in Sequences \ failed
          /\ release.sequence < job.sequence
    /\ pc \in {"copy", "copying", "pend", "swap"} => staged = job.version
    /\ pc \in {"pend", "swap"} => previous \in Versions
    /\ pc \in {"swap"} \union Confirming \union RollingBack =>
          /\ pending # None
          /\ pending.version = job.version
          /\ pending.sequence = job.sequence
    /\ pc = "clear" => release.sequence = job.sequence
    /\ pc \in {"restore", "rerestart"} /\ recorded => job.sequence \in failed
    /\ pc \in {"rerestart", "unmark"} => previous = None
    /\ pc = "unmark" => job.sequence \in failed

BaseInv == UpdaterTypeOK /\ BaseOnDisk /\ BaseInHand

\* The installation the updater starts from satisfies it.
LEMMA BaseInit == Init => BaseInv
  <1>1. Init => UpdaterTypeOK
    BY UpdaterInit DEF UpdaterInv
  <1> QED
    BY <1>1
    DEF Init, BaseInv, BaseOnDisk, NotTakenAgain, BaseInHand, Installing, Confirming,
        RollingBack

\* A run that ends, or dies, needs only the disk to be in order.
LEMMA EndRunBase ==
  ASSUME UpdaterTypeOK, BaseOnDisk', EndRun,
         bin' \in Versions, previous' \in Versions \union {Partial, None},
         staged' \in Versions \union {None}, release' \in Release,
         pending' \in Pending \union {None}, failed' \subseteq Sequences,
         service' \in Versions, UNCHANGED <<waiting, history>>
  PROVE  BaseInv'
  <1>1. UpdaterTypeOK'
    BY DEF EndRun, Goto, UpdaterTypeOK, Release, NoRelease, history
  <1>2. BaseInHand'
    BY DEF EndRun, Goto, BaseInHand, Installing, Confirming, RollingBack
  <1> QED
    BY <1>1, <1>2 DEF BaseInv

\* Whoever installs takes no release that was rolled back.
LEMMA BaseInstallStep ==
  ASSUME BaseInv,
         \/ Exec \/ GiveUp \/ TakeLock
         \/ ResumeRollback \/ ResumeConfirm \/ DropPending \/ NothingToInstall
         \/ AlreadyRunning \/ TakeRelease \/ Stage \/ StartCopy \/ FinishCopy
         \/ WritePending \/ Swap
  PROVE  BaseInv'
  <1> USE UpdaterAssumption, NoneAssumption
      DEF BaseInv, UpdaterTypeOK, BaseOnDisk, NotTakenAgain, BaseInHand, Installing,
          Confirming, RollingBack, Steps, fileVars, history, Goto
  <1>1. CASE Exec \/ GiveUp \/ TakeLock
    <2>1. CASE Exec \/ GiveUp
      <3>1. waiting' \subseteq Versions
        BY <2>1 DEF Exec, GiveUp
      <3>2. UNCHANGED <<fileVars, service, pc, me, job, recorded, history>>
        BY <2>1 DEF Exec, GiveUp
      <3>3. UpdaterTypeOK'
        BY <3>1, <3>2
      <3>4. BaseOnDisk' /\ BaseInHand'
        BY <3>2
      <3> QED
        BY <3>3, <3>4
    <2>2. CASE TakeLock
      <3>1. me' \in Versions /\ waiting' \subseteq waiting /\ overtaken' \in BOOLEAN
        BY <2>2 DEF TakeLock
      <3> QED
        BY <2>2, <3>1 DEF TakeLock
    <2> QED
      BY <1>1, <2>1, <2>2
  <1>2. CASE ResumeRollback \/ ResumeConfirm
    <2>1. /\ job' = PendingJob /\ PendingJob \in Release
          /\ PendingJob.version = pending.version /\ PendingJob.sequence = pending.sequence
      BY <1>2 DEF ResumeRollback, ResumeConfirm, PendingJob, Pending, Release
    <2> QED
      BY <1>2, <2>1 DEF ResumeRollback, ResumeConfirm
  <1>3. CASE DropPending
    BY <1>3 DEF DropPending, RollbackInterrupted
  <1>4. CASE NothingToInstall
    BY <1>4, EndRunBase DEF NothingToInstall
  <1>5. CASE AlreadyRunning
    <2>1. PICK seq \in Sequences :
              release.sequence < seq /\ release' = [version |-> me, sequence |-> seq]
      BY <1>5 DEF AlreadyRunning, Newer
    <2>2. /\ release.sequence \in Nat /\ seq \in Nat
          /\ restored \subseteq Nat
      BY SequencesAreNumbers
    <2>3. release' \in Release /\ release'.sequence = seq
      BY <1>5, <2>1 DEF AlreadyRunning, Release
    <2>4. BaseOnDisk'
      <3>1. pending' = None /\ UNCHANGED <<failed, restored>> /\ pending = None
        BY <1>5 DEF AlreadyRunning
      <3>2. ASSUME NEW s \in restored, s <= release.sequence PROVE s <= seq
        BY <2>1, <2>2, <3>2
      <3> QED
        BY <2>3, <3>1, <3>2
    <2> QED
      BY <1>5, <2>3, <2>4, EndRunBase DEF AlreadyRunning
  <1>6. CASE TakeRelease
    <2>1. PICK seq \in Sequences :
              /\ release.sequence < seq
              /\ seq \notin failed
              /\ job' = [version |-> VersionOf[seq], sequence |-> seq]
      BY <1>6 DEF TakeRelease, Newer
    <2>2. job' \in Release /\ job'.version \in Versions /\ job'.sequence = seq
      BY <2>1 DEF Release
    <2> QED
      BY <1>6, <2>1, <2>2 DEF TakeRelease
  <1>7. CASE Stage
    <2>1. CASE staged' = job.version /\ pc' = "copy" /\ UNCHANGED <<failed, me, job, recorded>>
      BY <1>7, <2>1 DEF Stage
    <2>2. CASE /\ staged' \in {staged, None} /\ EndRun
               /\ failed' \in {failed, failed \union {job.sequence}}
      BY <1>7, <2>2, EndRunBase DEF Stage
    <2> QED
      BY <1>7, <2>1, <2>2 DEF Stage
  <1>8. CASE StartCopy
    BY <1>8 DEF StartCopy
  <1>9. CASE FinishCopy
    BY <1>9, EndRunBase DEF FinishCopy
  <1>10. CASE WritePending
    <2>1. CASE pending' = PendingFor(job, FALSE) /\ pc' = "swap"
               /\ UNCHANGED <<staged, me, job, recorded>>
      <3>1. job.version \in Versions /\ job.sequence \in Sequences
        BY <1>10 DEF WritePending
      <3>2. /\ pending' \in Pending
            /\ pending'.version = job.version
            /\ pending'.sequence = job.sequence
            /\ pending' # None
        BY <2>1, <3>1, PendingRecord, Zenon
      <3>3. release.sequence <= job.sequence
        <4>1. release.sequence \in Nat /\ job.sequence \in Nat
          BY <3>1, SequencesAreNumbers
        <4> QED
          BY <1>10, <4>1 DEF WritePending
      <3>4. UpdaterTypeOK' /\ BaseOnDisk'
        BY <1>10, <2>1, <3>2, <3>3 DEF WritePending
      <3>5. BaseInHand'
        BY <1>10, <2>1, <3>2 DEF WritePending
      <3> QED
        BY <3>4, <3>5
    <2>2. CASE staged' \in {staged, None} /\ EndRun /\ UNCHANGED pending
      BY <1>10, <2>2, EndRunBase DEF WritePending
    <2> QED
      BY <1>10, <2>1, <2>2 DEF WritePending, PendingFor
  <1>11. CASE Swap
    <2>1. CASE bin' = staged /\ staged' = None /\ pc' = "restart"
               /\ UNCHANGED <<pending, me, job, recorded>>
      BY <1>11, <2>1 DEF Swap
    <2>2. CASE staged' \in {staged, None} /\ pending' \in {pending, None} /\ EndRun
               /\ UNCHANGED bin
      BY <1>11, <2>2, EndRunBase DEF Swap
    <2> QED
      BY <1>11, <2>1, <2>2 DEF Swap
  <1> QED
    BY <1>1, <1>2, <1>3, <1>4, <1>5, <1>6, <1>7, <1>8, <1>9, <1>10, <1>11

\* Whoever confirms a release or rolls it back leaves a record of it.
LEMMA BaseFinishStep ==
  ASSUME BaseInv,
         \/ Restart \/ HealthCheck \/ RecordRelease \/ ClearPending
         \/ MarkRollback \/ RecordFailure \/ Restore \/ RestartPrevious \/ Unmark
  PROVE  BaseInv'
  <1> USE UpdaterAssumption, NoneAssumption
      DEF BaseInv, UpdaterTypeOK, BaseOnDisk, NotTakenAgain, BaseInHand, Installing,
          Confirming, RollingBack, Steps, fileVars, history, Goto
  <1>1. CASE Restart
    BY <1>1 DEF Restart
  <1>2. CASE HealthCheck
    BY <1>2 DEF HealthCheck
  <1>3. CASE RecordRelease
    <2>1. /\ pending # None /\ pending.sequence = job.sequence /\ release' = job
          /\ release.sequence <= job.sequence
      BY <1>3 DEF RecordRelease
    <2>2. /\ job.sequence \in Nat /\ release.sequence \in Nat
          /\ restored \subseteq Nat
      <3>1. pending.sequence \in Sequences
        BY <2>1 DEF Pending
      <3> QED
        BY <2>1, <3>1, SequencesAreNumbers
    <2>3. ASSUME NEW s \in restored, s <= release.sequence PROVE s <= job.sequence
      BY <2>1, <2>2, <2>3
    <2>4. UpdaterTypeOK' /\ BaseInHand'
      BY <1>3, <2>1 DEF RecordRelease
    <2>5. BaseOnDisk'
      BY <1>3, <2>1, <2>2, <2>3 DEF RecordRelease
    <2> QED
      BY <2>4, <2>5
  <1>4. CASE ClearPending
    <2>1. /\ pending # None /\ pending.sequence = job.sequence
          /\ release.sequence = job.sequence /\ pending' = None
          /\ UNCHANGED <<release, failed, restored>>
      BY <1>4 DEF ClearPending
    <2>2. release.sequence \in Nat
      BY SequencesAreNumbers
    <2>3. BaseOnDisk'
      BY <2>1, <2>2
    <2> QED
      BY <1>4, <2>3, EndRunBase DEF ClearPending
  <1>5. CASE MarkRollback
    <2>1. job.version \in Versions /\ job.sequence \in Sequences
      BY <1>5 DEF MarkRollback, Pending
    <2>2. pending' = pending \/ pending' = PendingFor(job, TRUE)
      BY <1>5 DEF MarkRollback, PendingFor
    <2>3. /\ pending' \in Pending
          /\ pending'.version = pending.version
          /\ pending'.sequence = pending.sequence
          /\ pending' # None
      <3>1. /\ PendingFor(job, TRUE) \in Pending
            /\ PendingFor(job, TRUE).version = job.version
            /\ PendingFor(job, TRUE).sequence = job.sequence
            /\ PendingFor(job, TRUE) # None
        BY <2>1, PendingRecord, Zenon
      <3> QED
        BY <1>5, <2>2, <3>1 DEF MarkRollback
    <2> QED
      BY <1>5, <2>3 DEF MarkRollback
  <1>6. CASE RecordFailure
    <2>1. job.sequence \in Sequences
      BY <1>6 DEF RecordFailure, Pending
    <2> QED
      BY <1>6, <2>1 DEF RecordFailure
  <1>7. CASE Restore
    <2>1. job.sequence \in Sequences
      BY <1>7 DEF Restore, Pending
    <2> QED
      BY <1>7, <2>1 DEF Restore
  <1>8. CASE RestartPrevious
    <2>1. CASE ~ recorded
      BY <1>8, <2>1, EndRunBase DEF RestartPrevious
    <2>2. CASE recorded
      BY <1>8, <2>2 DEF RestartPrevious
    <2> QED
      BY <2>1, <2>2
  <1>9. CASE Unmark
    BY <1>9, EndRunBase DEF Unmark
  <1> QED
    BY <1>1, <1>2, <1>3, <1>4, <1>5, <1>6, <1>7, <1>8, <1>9

\* Every step keeps it, of however many processes with whatever versions.
LEMMA BaseStep == BaseInv /\ [Next]_vars => BaseInv'
  <1> SUFFICES ASSUME BaseInv, [Next]_vars PROVE BaseInv'
    OBVIOUS
  <1>1. CASE Abort
    BY <1>1, EndRunBase
    DEF Abort, fileVars, history, BaseInv, UpdaterTypeOK, BaseOnDisk, NotTakenAgain
  <1>2. CASE ServiceRestarts
    BY <1>2
    DEF ServiceRestarts, fileVars, runVars, history, BaseInv, UpdaterTypeOK, BaseOnDisk,
        NotTakenAgain, BaseInHand
  <1>3. CASE UNCHANGED vars
    BY <1>3
    DEF vars, fileVars, runVars, history, BaseInv, UpdaterTypeOK, BaseOnDisk,
        NotTakenAgain, BaseInHand
  <1> QED
    BY <1>1, <1>2, <1>3, BaseInstallStep, BaseFinishStep DEF Next, RunStep

\* It holds in every reachable state.
THEOREM BaseInvariance == Spec => []BaseInv
  BY BaseInit, BaseStep, PTL DEF Spec

\* Every reachable state of the updater is well typed.
THEOREM UpdaterTypes == Spec => []UpdaterTypeOK
  <1>1. BaseInv => UpdaterTypeOK
    BY DEF BaseInv
  <1> QED
    BY BaseInvariance, <1>1, PTL

\* A release that was rolled back is never swapped in again, whichever process runs.
THEOREM NoRetry == Spec => NeverRetried
  <1>1. BaseInv /\ [Next]_vars =>
            [pc = "swap" /\ bin' # bin => job.sequence \notin restored]_vars
    <2> SUFFICES ASSUME BaseInv, pc = "swap" PROVE job.sequence \notin restored
      OBVIOUS
    <2>1. /\ job.sequence \in Sequences /\ job.sequence \notin failed
          /\ release.sequence < job.sequence
          /\ previous # None
      BY UpdaterAssumption DEF BaseInv, BaseInHand, Installing
    <2>2. ~ (job.sequence <= release.sequence)
      BY <2>1, SequencesAreNumbers DEF BaseInv
    <2> QED
      BY <2>1, <2>2 DEF BaseInv, BaseOnDisk, NotTakenAgain
  <1> QED
    BY <1>1, BaseInvariance, PTL DEF Spec, NeverRetried

\* release.json never goes back to an older release, whichever process runs.
THEOREM SequenceGrows == Spec => SequenceOnlyGrows
  <1>1. BaseInv /\ [Next]_vars => [release.sequence <= release'.sequence]_release
    <2> SUFFICES ASSUME BaseInv, [Next]_vars, release' # release
                 PROVE  release.sequence <= release'.sequence
      OBVIOUS
    <2>1. CASE AlreadyRunning
      <3>1. PICK seq \in Sequences :
                release.sequence < seq /\ release' = [version |-> me, sequence |-> seq]
        BY <2>1 DEF AlreadyRunning, Newer
      <3>2. release.sequence \in Nat /\ seq \in Nat
        BY SequencesAreNumbers DEF BaseInv
      <3> QED
        BY <3>1, <3>2
    <2>2. CASE RecordRelease
      BY <2>2 DEF RecordRelease, BaseInv, BaseOnDisk, BaseInHand, Confirming
    <2>3. AlreadyRunning \/ RecordRelease
      BY DEF Next, RunStep, Exec, GiveUp, TakeLock, ResumeRollback, ResumeConfirm,
         DropPending, NothingToInstall, TakeRelease, Stage, StartCopy, FinishCopy,
         WritePending, Swap, Restart, HealthCheck, ClearPending, MarkRollback,
         RecordFailure, Restore, RestartPrevious, Unmark, Abort, ServiceRestarts, vars,
         fileVars
    <2> QED
      BY <2>1, <2>2, <2>3
  <1> QED
    BY <1>1, BaseInvariance, PTL DEF Spec, SequenceOnlyGrows

-----------------------------------------------------------------------------
(* Refinement of UpdateTrials *)

\* What a trial is, read off the files: a rollback only begins with the release installed,
\* and .previous is gone exactly when it has been put back.
TrialInv ==
    /\ pc \in Installing => VersionOf[job.sequence] = job.version
    /\ pc \in {"record", "clear"} => bin \notin BadVersions
    /\ pending # None /\ pending.rolling_back => bin = pending.version \/ previous = None
    /\ pc \in {"mark", "fail", "restore"} => bin = pending.version \/ previous = None
    /\ pending # None /\ previous = None => pending.sequence \in restored

\* A step that leaves the run to die, or to go on after the swap, with the files as they were.
LEMMA TrialFrame ==
  ASSUME TrialInv, UNCHANGED <<bin, previous, restored, pending>>,
         pc' \in Installing => pc \in Installing /\ job' = job,
         pc' \in {"record", "clear"} => pc \in {"record", "clear"},
         pc' \in {"mark", "fail", "restore"} =>
             pc \in {"mark", "fail", "restore"} \/ bin = pending.version \/ previous = None
  PROVE  TrialInv'
  BY DEF TrialInv

\* No trial is under way initially.
LEMMA TrialInvInit == Init => TrialInv
  BY DEF Init, TrialInv, Installing

\* The steps up to the swap keep what is known of a trial.
LEMMA TrialInvInstall ==
  ASSUME UpdaterInv, TrialInv,
         \/ Exec \/ GiveUp \/ (TakeLock /\ ~ overtaken')
         \/ ResumeRollback \/ ResumeConfirm \/ DropPending \/ NothingToInstall
         \/ AlreadyRunning \/ TakeRelease \/ Stage \/ StartCopy \/ FinishCopy
         \/ WritePending \/ Swap
  PROVE  TrialInv'
  <1> USE DEF Installing, fileVars, history, Goto, EndRun
  <1>1. CASE \/ Exec \/ GiveUp \/ TakeLock
             \/ NothingToInstall \/ AlreadyRunning \/ Stage
    BY <1>1, TrialFrame
    DEF Exec, GiveUp, TakeLock, NothingToInstall, AlreadyRunning, Stage
  <1>2. CASE ResumeConfirm
    BY <1>2, TrialFrame DEF ResumeConfirm
  <1>3. CASE ResumeRollback
    <2>1. bin = pending.version \/ previous = None
      BY <1>3 DEF ResumeRollback, RollbackInterrupted, UpdaterInv, InHand, TrialInv
    <2> QED
      BY <1>3, <2>1, TrialFrame DEF ResumeRollback
  <1>4. CASE DropPending
    BY <1>4 DEF DropPending, TrialInv
  <1>5. CASE TakeRelease
    <2>1. PICK seq \in Sequences : job' = [version |-> VersionOf[seq], sequence |-> seq]
      BY <1>5 DEF TakeRelease
    <2>2. VersionOf[job'.sequence] = job'.version
      BY <2>1
    <2> QED
      BY <1>5, <2>2 DEF TakeRelease, TrialInv
  <1>6. CASE StartCopy \/ FinishCopy
    <2>1. pending = None /\ pending' = None /\ restored' = restored
      BY <1>6 DEF StartCopy, FinishCopy, UpdaterInv, InHand
    <2>2. pc' \in {"idle", "copying", "pend"} /\ pc \in Installing
      BY <1>6 DEF StartCopy, FinishCopy
    <2>3. pc' # "idle" => job' = job
      BY <1>6 DEF StartCopy, FinishCopy
    <2> QED
      BY <2>1, <2>2, <2>3 DEF TrialInv
  <1>7. CASE WritePending
    <2>1. previous = bin /\ bin # None /\ pending = None
      BY <1>7, UpdaterAssumption DEF WritePending, UpdaterInv, UpdaterTypeOK, InHand
    <2>2. CASE pending' = PendingFor(job, FALSE) /\ pc' = "swap" /\ job' = job
      <3>1. ~ pending'.rolling_back
        BY <2>2 DEF PendingFor
      <3> QED
        BY <1>7, <2>1, <2>2, <3>1 DEF WritePending, TrialInv
    <2>3. CASE pending' = pending /\ pc' = "idle"
      BY <1>7, <2>1, <2>3 DEF WritePending, TrialInv
    <2> QED
      BY <1>7, <2>2, <2>3 DEF WritePending, PendingFor
  <1>8. CASE Swap
    <2>1. previous = bin /\ bin # None /\ staged = pending.version /\ pending # None
      BY <1>8, UpdaterAssumption DEF Swap, UpdaterInv, UpdaterTypeOK, InHand
    <2>2. pc' \in {"idle", "restart"} /\ previous' = previous /\ restored' = restored
      BY <1>8 DEF Swap
    <2>3. CASE bin' = staged /\ pending' = pending
      BY <2>1, <2>2, <2>3 DEF TrialInv
    <2>4. CASE bin' = bin /\ pending' \in {pending, None}
      BY <2>1, <2>2, <2>4 DEF TrialInv
    <2> QED
      BY <1>8, <2>3, <2>4 DEF Swap
  <1> QED
    BY <1>1, <1>2, <1>3, <1>4, <1>5, <1>6, <1>7, <1>8

\* So do the steps after it.
LEMMA TrialInvFinish ==
  ASSUME UpdaterInv, TrialInv,
         \/ Restart \/ HealthCheck \/ RecordRelease \/ ClearPending
         \/ MarkRollback \/ RecordFailure \/ Restore \/ RestartPrevious \/ Unmark
  PROVE  TrialInv'
  <1> USE DEF Installing, fileVars, history, Goto, EndRun
  <1>1. CASE Restart
    <2>1. bin = pending.version
      BY <1>1 DEF Restart, UpdaterInv, InHand, Confirming
    <2> QED
      BY <1>1, <2>1, TrialFrame DEF Restart
  <1>2. CASE HealthCheck
    <2>1. bin = pending.version /\ service = bin
      BY <1>2 DEF HealthCheck, UpdaterInv, InHand, Confirming
    <2>2. CASE pc' = "record" /\ service \notin BadVersions
      BY <1>2, <2>1, <2>2 DEF HealthCheck, TrialInv
    <2>3. CASE pc' = "mark"
      BY <1>2, <2>1, <2>3 DEF HealthCheck, TrialInv
    <2> QED
      BY <1>2, <2>2, <2>3 DEF HealthCheck
  <1>3. CASE RecordRelease \/ RecordFailure \/ RestartPrevious
    BY <1>3, TrialFrame DEF RecordRelease, RecordFailure, RestartPrevious
  <1>4. CASE ClearPending \/ Unmark
    <2>1. pending' \in {pending, None} /\ pc' = "idle" /\ UNCHANGED <<bin, previous, restored>>
      BY <1>4 DEF ClearPending, Unmark
    <2> QED
      BY <2>1 DEF TrialInv
  <1>5. CASE MarkRollback
    <2>1. bin = pending.version \/ previous = None
      BY <1>5 DEF MarkRollback, TrialInv
    <2>2. /\ pending # None /\ pending.version = job.version /\ pending.sequence = job.sequence
      BY <1>5 DEF MarkRollback, UpdaterInv, InHand, RollingBack
    <2>3. pending'.version = pending.version /\ pending'.sequence = pending.sequence
      BY <1>5, <2>2 DEF MarkRollback
    <2>4. pc' = "fail" /\ UNCHANGED <<bin, previous, restored>>
      BY <1>5 DEF MarkRollback
    <2> QED
      BY <2>1, <2>2, <2>3, <2>4 DEF TrialInv
  <1>6. CASE Restore
    <2>1. /\ previous' = None /\ restored' = restored \union {job.sequence}
          /\ pending' = pending /\ pc' = "rerestart"
      BY <1>6 DEF Restore
    <2>2. pending.sequence = job.sequence
      BY <1>6 DEF Restore, UpdaterInv, InHand, RollingBack
    <2> QED
      BY <2>1, <2>2 DEF TrialInv
  <1> QED
    BY <1>1, <1>2, <1>3, <1>4, <1>5, <1>6

\* Every step keeps what is known of a trial.
LEMMA TrialInvStep == UpdaterInv /\ TrialInv /\ [Next /\ ~ overtaken']_vars => TrialInv'
  <1> SUFFICES ASSUME UpdaterInv, TrialInv, [Next /\ ~ overtaken']_vars PROVE TrialInv'
    OBVIOUS
  <1>1. CASE Abort
    BY <1>1, TrialFrame DEF Abort, EndRun, Goto, fileVars, history, Installing
  <1>2. CASE ServiceRestarts \/ UNCHANGED vars
    BY <1>2, TrialFrame DEF ServiceRestarts, vars, fileVars, runVars, history
  <1> QED
    BY <1>1, <1>2, TrialInvInstall, TrialInvFinish DEF Next, RunStep

\* The swap begins a trial.
LEMMA SwapTries ==
  ASSUME UpdaterInv, TrialInv, Swap, bin' = staged, pending' = pending
  PROVE  \E seq \in Sequences : Trials!Try(seq)
  <1> DEFINE seq == job.sequence
  <1>1. /\ previous = bin /\ staged = job.version /\ job.version # bin
        /\ pending # None /\ pending.version = job.version /\ pending.sequence = seq
        /\ seq \in Sequences \ failed
    BY DEF Swap, UpdaterInv, InHand, Installing
  <1>2. VersionOf[seq] = job.version
    BY DEF Swap, TrialInv, Installing
  <1>3. seq # 0 /\ previous # None
    BY <1>1, UpdaterAssumption DEF UpdaterInv, UpdaterTypeOK
  <1>4. seq \notin restored
    BY <1>1, <1>3 DEF UpdaterInv, OnDisk, ReleasePending
  <1>5. Trial = 0 /\ Fallback = bin
    BY <1>1 DEF Trial, Fallback
  <1>6. previous' = previous /\ restored' = restored
    BY DEF Swap, history
  <1>7. Trial' = seq /\ Fallback' = bin
    BY <1>1, <1>3, <1>6 DEF Trial, Fallback
  <1>8. Trials!Try(seq)
    BY <1>1, <1>2, <1>4, <1>5, <1>6, <1>7 DEF Trials!Try
  <1> QED
    BY <1>1, <1>8

\* Removing the record of a healthy release keeps it.
LEMMA ClearKeeps ==
  ASSUME UpdaterInv, TrialInv, ClearPending
  PROVE  Trials!Keep
  <1>1. pending # None /\ bin = pending.version /\ bin \notin BadVersions
    BY DEF ClearPending, UpdaterInv, InHand, Confirming, TrialInv
  <1>2. pending.sequence # 0
    BY <1>1, UpdaterAssumption DEF UpdaterInv, UpdaterTypeOK, Pending
  <1>3. pending' = None /\ bin' = bin /\ restored' = restored
    BY DEF ClearPending, history
  <1>4. Trial # 0 /\ Trial' = 0 /\ Fallback' = bin
    BY <1>1, <1>2, <1>3 DEF Trial, Fallback
  <1> QED
    BY <1>1, <1>3, <1>4 DEF Trials!Keep

\* Restoring .previous undoes the trial, or repeats what was done.
LEMMA RestoreUndoes ==
  ASSUME UpdaterInv, TrialInv, Restore
  PROVE  Trials!Undo \/ UNCHANGED Trials!trialVars
  <1>1. /\ pending # None /\ pending.sequence = job.sequence
        /\ bin = pending.version \/ previous = None
        /\ pending.sequence # 0
    BY UpdaterAssumption
    DEF Restore, UpdaterInv, UpdaterTypeOK, InHand, RollingBack, TrialInv, Pending
  <1>2. ReleasePending
    BY <1>1 DEF UpdaterInv, OnDisk, SwapNeverLanded
  <1>3. previous' = None /\ restored' = restored \union {job.sequence} /\ pending' = pending
    BY DEF Restore
  <1>4. CASE bin = pending.version
    <2>1. previous # None /\ bin' = previous /\ previous # pending.version
      BY <1>2, <1>4 DEF ReleasePending, Restore
    <2>2. Trial = pending.sequence /\ Fallback = previous /\ Trial' = 0 /\ Fallback' = previous
      BY <1>1, <1>3, <1>4, <2>1 DEF Trial, Fallback
    <2> QED
      BY <1>1, <1>3, <2>1, <2>2 DEF Trials!Undo
  <1>5. CASE bin # pending.version
    <2>1. bin' = bin /\ job.sequence \in restored
      BY <1>1, <1>5 DEF Restore, TrialInv
    <2>2. Trial = 0 /\ Trial' = 0 /\ Fallback = bin /\ Fallback' = bin
      BY <1>3, <1>5, <2>1 DEF Trial, Fallback
    <2> QED
      BY <1>3, <2>1, <2>2 DEF Trials!trialVars, Restore
  <1> QED
    BY <1>4, <1>5

\* Where no overtaken process gets the lock, history does not change.
LEMMA OvertakenSame ==
  ASSUME UpdaterTypeOK, [Next /\ ~ overtaken']_vars
  PROVE  overtaken' = overtaken
  BY DEF UpdaterTypeOK, Next, RunStep, Exec, GiveUp, TakeLock, ResumeRollback,
     ResumeConfirm, DropPending, NothingToInstall, AlreadyRunning, TakeRelease, Stage,
     StartCopy, FinishCopy, WritePending, Swap, Restart, HealthCheck, RecordRelease,
     ClearPending, MarkRollback, RecordFailure, Restore, RestartPrevious, Unmark, Abort,
     ServiceRestarts, vars, runVars, history

\* No other step shows.
LEMMA OthersShowNothing ==
  ASSUME UpdaterInv, TrialInv, [Next /\ ~ overtaken']_vars, ~ ClearPending, ~ Restore,
         ~ (Swap /\ bin' = staged /\ pending' = pending)
  PROVE  UNCHANGED Trials!trialVars
  <1>0. overtaken' = overtaken
    BY OvertakenSame DEF UpdaterInv
  <1>1. ASSUME UNCHANGED <<bin, previous, pending, restored>> PROVE UNCHANGED Trials!trialVars
    BY <1>0, <1>1 DEF Trials!trialVars, Trial, Fallback
  <1>2. ASSUME UNCHANGED <<bin, restored>>, Trial = 0, Trial' = 0
        PROVE  UNCHANGED Trials!trialVars
    BY <1>0, <1>2 DEF Trials!trialVars, Fallback
  <1> USE DEF fileVars, history
  <1>3. CASE StartCopy \/ FinishCopy
    BY <1>2, <1>3 DEF StartCopy, FinishCopy, UpdaterInv, InHand, Trial
  <1>4. CASE WritePending
    <2>1. pending = None /\ job.version # bin /\ bin' = bin /\ restored' = restored
      BY <1>4 DEF WritePending, UpdaterInv, InHand, Installing
    <2>2. pending' = None \/ pending'.version = job.version
      BY <1>4, <2>1 DEF WritePending
    <2> QED
      BY <1>2, <2>1, <2>2 DEF Trial
  <1>5. CASE Swap
    <2>1. pending # None /\ pending.version = job.version /\ job.version # bin
      BY <1>5 DEF Swap, UpdaterInv, InHand, Installing
    <2>2. UNCHANGED <<bin, restored>> /\ pending' \in {pending, None}
      BY <1>5 DEF Swap
    <2> QED
      BY <1>2, <2>1, <2>2 DEF Trial
  <1>6. CASE DropPending
    BY <1>2, <1>6 DEF DropPending, UpdaterInv, InHand, Trial
  <1>7. CASE MarkRollback
    <2>1. pending # None /\ pending.version = job.version /\ pending.sequence = job.sequence
      BY <1>7 DEF MarkRollback, UpdaterInv, InHand, RollingBack
    <2>2. pending' = pending \/ pending' = PendingFor(job, TRUE)
      BY <1>7 DEF MarkRollback, PendingFor
    <2>3. job.version \in Versions /\ job.sequence \in Sequences
      BY <2>1 DEF UpdaterInv, UpdaterTypeOK, Pending
    <2>4. /\ pending' # None /\ pending'.version = pending.version
          /\ pending'.sequence = pending.sequence
      BY <2>1, <2>2, <2>3, PendingRecord
    <2>5. UNCHANGED <<bin, previous, restored>>
      BY <1>7 DEF MarkRollback
    <2> QED
      BY <1>0, <2>1, <2>4, <2>5 DEF Trials!trialVars, Trial, Fallback
  <1>8. CASE Unmark
    <2>1. /\ pending # None /\ previous = None
          /\ UNCHANGED <<bin, previous, restored>> /\ pending' \in {pending, None}
      BY <1>8 DEF Unmark, UpdaterInv, InHand, RollingBack
    <2>2. bin # pending.version
      BY <2>1 DEF UpdaterInv, OnDisk, ReleasePending, SwapNeverLanded
    <2> QED
      BY <1>2, <2>1, <2>2 DEF Trial
  <1>9. CASE \/ Exec \/ GiveUp \/ TakeLock \/ ResumeRollback \/ ResumeConfirm
             \/ NothingToInstall \/ AlreadyRunning \/ TakeRelease \/ Stage
    BY <1>1, <1>9 DEF Exec, GiveUp, TakeLock, ResumeRollback, ResumeConfirm, NothingToInstall,
       AlreadyRunning, TakeRelease, Stage
  <1>10. CASE \/ Restart \/ HealthCheck \/ RecordRelease \/ RecordFailure
              \/ RestartPrevious \/ Abort \/ ServiceRestarts \/ UNCHANGED vars
    BY <1>1, <1>10 DEF Restart, HealthCheck, RecordRelease, RecordFailure,
       RestartPrevious, Abort, ServiceRestarts, vars
  <1> QED
    BY <1>3, <1>4, <1>5, <1>6, <1>7, <1>8, <1>9, <1>10 DEF Next, RunStep

TrialsHold == ~ overtaken => UpdaterInv /\ TrialInv

\* What is known of a trial is, until a process gets the lock after its binary was replaced.
LEMMA TrialsHoldStep == TrialsHold /\ [Next]_vars => TrialsHold'
  BY OvertakenStays, UpdaterStep, TrialInvStep DEF TrialsHold

\* For any manifests, versions and failures the updater is UpdateTrials: an undone release
\* makes way for the binary it replaced and is not tried again, and what is kept was
\* healthy, until a process gets the lock after its binary was replaced.
THEOREM ImplementsTrials == Spec => KeepsTrials
  <1>1. Init => TrialsHold /\ Trials!TrialInit
    BY UpdaterInit, TrialInvInit DEF Init, TrialsHold, Trials!TrialInit, Trial, Fallback
  <1>2. TrialsHold /\ UpdaterTypeOK' /\ [Next]_vars
            => [Trials!TrialNext]_(Trials!trialVars)
    <2> SUFFICES ASSUME TrialsHold, UpdaterTypeOK', [Next]_vars
                 PROVE  [Trials!TrialNext]_(Trials!trialVars)
      OBVIOUS
    <2>1. CASE overtaken'
      <3>1. overtaken' = TRUE
        BY <2>1 DEF UpdaterTypeOK
      <3> QED
        BY <3>1 DEF Trials!TrialNext, Trials!Void
    <2>2. CASE ~ overtaken'
      <3>1. UpdaterInv /\ TrialInv /\ [Next /\ ~ overtaken']_vars
        BY <2>2, OvertakenStays DEF TrialsHold
      <3>2. overtaken' = overtaken
        BY <3>1, OvertakenSame DEF UpdaterInv
      <3>3. \/ (\E seq \in Sequences : Trials!Try(seq)) \/ Trials!Keep \/ Trials!Undo
            \/ UNCHANGED Trials!trialVars
        BY <3>1, SwapTries, ClearKeeps, RestoreUndoes, OthersShowNothing
      <3> QED
        BY <3>2, <3>3 DEF Trials!TrialNext, Trials!Promised
    <2> QED
      BY <2>1, <2>2
  <1> QED
    BY <1>1, <1>2, TrialsHoldStep, UpdaterTypes, PTL DEF Spec, KeepsTrials, Trials!TrialSpec
-----------------------------------------------------------------------------
(* release.json *)

\* It names the binary there was before the trial, the release on trial, or one that was
\* undone; and before a release is kept it has been recorded.
ReleaseInv ==
    /\ pc = "clear" => release.version = bin
    /\ \/ release.sequence \in {0} \union restored
       \/ release.version = Fallback
       \/ Trial # 0 /\ release.sequence = Trial

\* release.json names the first binary.
LEMMA ReleaseInit == Init => ReleaseInv
  BY DEF Init, InstalledReleases, NoRelease, ReleaseInv, Fallback, Trial

\* Only two steps write release.json, and only one of them before a release is kept.
LEMMA ReleaseWriters ==
  ASSUME [Next]_vars, ~ AlreadyRunning, ~ RecordRelease
  PROVE  /\ release' = release
         /\ pc' = "clear" => pc = "clear" /\ bin' = bin
  BY DEF Next, RunStep, Exec, GiveUp, TakeLock, ResumeRollback, ResumeConfirm, DropPending,
     NothingToInstall, TakeRelease, Stage, StartCopy, FinishCopy, WritePending, Swap,
     Restart, HealthCheck, ClearPending, MarkRollback, RecordFailure, Restore,
     RestartPrevious, Unmark, Abort, ServiceRestarts, vars, fileVars, runVars, Goto, EndRun

\* Every step keeps what release.json names.
LEMMA ReleaseStep ==
  UpdaterInv /\ TrialInv /\ ReleaseInv /\ [Next /\ ~ overtaken']_vars => ReleaseInv'
  <1> SUFFICES ASSUME UpdaterInv, TrialInv, ReleaseInv, [Next /\ ~ overtaken']_vars
               PROVE  ReleaseInv'
    OBVIOUS
  <1>1. CASE AlreadyRunning
    <2>1. pending = None /\ me = bin /\ UNCHANGED <<bin, pending>>
      BY <1>1 DEF AlreadyRunning, UpdaterInv, InHand
    <2>2. release'.version = me /\ pc' = "idle"
      BY <1>1 DEF AlreadyRunning, EndRun, Goto
    <2> QED
      BY <2>1, <2>2 DEF ReleaseInv, Fallback, Trial
  <1>2. CASE RecordRelease
    <2>1. /\ pending # None /\ pending.version = bin /\ pending.sequence = job.sequence
          /\ bin = job.version /\ UNCHANGED <<bin, pending>> /\ release' = job
      BY <1>2 DEF RecordRelease, UpdaterInv, InHand, Confirming
    <2>2. pending.sequence # 0
      BY <2>1, UpdaterAssumption DEF UpdaterInv, UpdaterTypeOK, Pending
    <2>3. Trial' = pending.sequence
      BY <2>1 DEF Trial
    <2> QED
      BY <2>1, <2>2, <2>3 DEF ReleaseInv
  <1>3. CASE ~ AlreadyRunning /\ ~ RecordRelease
    <2>1. release' = release /\ (pc' = "clear" => release'.version = bin')
      BY <1>3, ReleaseWriters DEF ReleaseInv
    <2>2. CASE ClearPending
      <3>1. release.version = bin /\ UNCHANGED bin /\ pending' = None
        BY <2>2 DEF ClearPending, ReleaseInv
      <3> QED
        BY <2>1, <3>1 DEF ReleaseInv, Fallback, Trial
    <2>3. CASE Trials!Undo
      BY <2>1, <2>3 DEF Trials!Undo, ReleaseInv
    <2>4. CASE UNCHANGED Trials!trialVars
      BY <2>1, <2>4 DEF Trials!trialVars, ReleaseInv
    <2>5. CASE \E seq \in Sequences : Trials!Try(seq)
      BY <2>1, <2>5 DEF Trials!Try, ReleaseInv
    <2> QED
      BY <2>2, <2>3, <2>4, <2>5, SwapTries, RestoreUndoes, OthersShowNothing
  <1> QED
    BY <1>1, <1>2, <1>3

\* With nothing pending release.json names the installed binary, or a release that a run
\* recorded, left open, and the next one rolled back; until a process gets the lock after
\* its binary was replaced.
THEOREM ReleaseNamed == Spec => []ReleaseNamesInstalled
  <1> DEFINE Holds == ~ overtaken => UpdaterInv /\ TrialInv /\ ReleaseInv
  <1>1. Init => Holds
    BY UpdaterInit, TrialInvInit, ReleaseInit
  <1>2. Holds /\ [Next]_vars => Holds'
    BY OvertakenStays, UpdaterStep, TrialInvStep, ReleaseStep
  <1>3. Holds => ReleaseNamesInstalled
    BY DEF ReleaseInv, ReleaseNamesInstalled, Fallback, Trial
  <1> HIDE DEF Holds
  <1> QED
    BY <1>1, <1>2, <1>3, PTL DEF Spec

-----------------------------------------------------------------------------
(* Power losses.  Whatever a power loss would leave is what a killed run may leave, so  *)
(* the next run finds OnDisk.                                                           *)

\* The steps up to the swap, in which a dropped record may still be on disk.
Fetching == {"fetch", "stage", "copy", "copying", "pend"}

\* The record on disk is of a release that was never swapped in, or was swapped out.
DropsAgain(dir, rec) ==
    /\ dir.bin # rec.pending.version /\ dir.bin \in accepted
    /\ dir.previous # None
    /\ ~ rec.pending.rolling_back

DirsTypeOK(dir, rec) ==
    /\ dir \in [bin: {bin}, previous: Versions \union {Partial, None}]
    /\ rec \in [release: Release, pending: Pending \union {None}, failed: SUBSET Sequences]

\* OnDisk, for the service that a reboot starts.
Recoverable(dir, rec) ==
    /\ rec.pending = None => dir.bin \in accepted
    /\ rec.pending # None =>
          /\ \/ /\ dir.previous \in accepted \union {None}
                /\ dir.previous # rec.pending.version
                /\ dir.previous = None => dir.bin # rec.pending.version
                /\ dir.bin # rec.pending.version => dir.bin \in accepted
                /\ rec.release.sequence <= rec.pending.sequence
             \/ DropsAgain(dir, rec)
          /\ rec.pending.sequence \in restored =>
                 rec.pending.sequence \in rec.failed \/ dir.previous = None
          /\ rec.pending.rolling_back =>
                 dir.bin = rec.pending.version \/ dir.previous = None
          /\ dir.previous = None => rec.pending.sequence \in restored
    /\ \A s \in restored :
           s \in rec.failed \/ (rec.pending # None /\ rec.pending.sequence = s)

DiskInv ==
    /\ Binaries \in installDir /\ Records \in stateDir
    /\ pc \notin {"idle", "copying"} => installDir = {Binaries}
    /\ pc \notin {"idle"} \union Fetching => stateDir = {Records}
    /\ \A dir \in installDir, rec \in stateDir :
          /\ DirsTypeOK(dir, rec)
          /\ Recoverable(dir, rec)
          /\ pc \in Fetching /\ rec.pending # None =>
                 /\ DropsAgain(dir, rec)
                 /\ rec.pending.sequence \in restored => rec.pending.sequence \in rec.failed

\* The files as the updater sees them are fit for the next run.
FilesFit == DirsTypeOK(Binaries, Records) /\ Recoverable(Binaries, Records)

\* Nothing but OnDisk is asked of the files as the updater sees them.
LEMMA FilesAreFit == UpdaterInv => FilesFit
  <1> SUFFICES ASSUME UpdaterInv PROVE FilesFit
    OBVIOUS
  <1>1. /\ Binaries.bin = bin /\ Binaries.previous = previous
        /\ Records.release = release /\ Records.pending = pending
        /\ Records.failed = failed
    BY DEF Binaries, Records
  <1>2. Recoverable(Binaries, Records)
    BY <1>1
    DEF UpdaterInv, OnDisk, NothingPending, ReleasePending, SwapNeverLanded,
        FailuresOnRecord, Recoverable, DropsAgain
  <1> QED
    BY <1>2 DEF UpdaterInv, UpdaterTypeOK, Binaries, Records, FilesFit, DirsTypeOK

DiskSynced == installDir = {Binaries} /\ stateDir = {Records}

\* A disk that holds just these files satisfies the invariant.
LEMMA SyncedDisk == UpdaterInv /\ DiskSynced => DiskInv
  <1> SUFFICES ASSUME UpdaterInv, DiskSynced PROVE DiskInv
    OBVIOUS
  <1>1. pc \in Fetching => Records.pending = None
    BY DEF UpdaterInv, InHand, Fetching, Records
  <1> QED
    BY <1>1, FilesAreFit DEF DiskSynced, DiskInv, FilesFit

\* A step that touches no file, and does not go back to where more may be on disk.
LEMMA NoFileKeepsDisk ==
  ASSUME DiskInv, UNCHANGED <<diskVars, Binaries, Records, restored>>,
         accepted \subseteq accepted',
         pc' \notin {"idle", "copying"} => pc \notin {"idle", "copying"},
         pc' \notin {"idle"} \union Fetching => pc \notin {"idle"} \union Fetching,
         pc' \in Fetching => pc \in Fetching
  PROVE  DiskInv'
  <1>1. bin' = bin
    BY DEF Binaries
  <1>2. ASSUME NEW dir, NEW rec, Recoverable(dir, rec) PROVE Recoverable(dir, rec)'
    BY <1>2 DEF Recoverable, DropsAgain
  <1>3. ASSUME NEW dir, NEW rec, DropsAgain(dir, rec) PROVE DropsAgain(dir, rec)'
    BY <1>3 DEF DropsAgain
  <1>4. \A dir, rec : DirsTypeOK(dir, rec) => DirsTypeOK(dir, rec)'
    BY <1>1 DEF DirsTypeOK
  <1> QED
    BY <1>1, <1>2, <1>3, <1>4 DEF DiskInv, diskVars

\* A step that may leave other files on disk but only ends the run.
LEMMA EndingKeepsDisk ==
  ASSUME DiskInv, UpdaterInv', pc' = "idle", UNCHANGED <<bin, accepted, restored>>,
         installDir' \subseteq installDir \union {Binaries'},
         stateDir' \subseteq stateDir \union {Records'},
         Binaries' \in installDir', Records' \in stateDir',
         \A dir \in installDir : Recoverable(dir, Records'),
         \A rec \in stateDir : Recoverable(Binaries', rec)
  PROVE  DiskInv'
  <1>1. \A dir, rec :
            /\ Recoverable(dir, rec) <=> Recoverable(dir, rec)'
            /\ DirsTypeOK(dir, rec) <=> DirsTypeOK(dir, rec)'
    BY DEF Recoverable, DropsAgain, DirsTypeOK
  <1>2. FilesFit'
    BY FilesAreFit, PTL
  <1>3. DirsTypeOK(Binaries', Records') /\ Recoverable(Binaries', Records')
    BY <1>1, <1>2 DEF FilesFit, Recoverable, DropsAgain, DirsTypeOK
  <1>4. \A dir \in installDir', rec \in stateDir' :
            DirsTypeOK(dir, rec) /\ Recoverable(dir, rec)
    <2>1. \A dir \in installDir', rec \in stateDir' : DirsTypeOK(dir, rec)
      BY <1>3 DEF DiskInv, DirsTypeOK
    <2>2. \A dir \in installDir', rec \in stateDir' : Recoverable(dir, rec)
      BY <1>3 DEF DiskInv
    <2> QED
      BY <2>1, <2>2
  <1>5. \A dir \in installDir', rec \in stateDir' :
            DirsTypeOK(dir, rec)' /\ Recoverable(dir, rec)'
    BY <1>1, <1>4
  <1> QED
    BY <1>5 DEF DiskInv, Fetching

\* Every step but the power loss is one of the updater's.
LEMMA DiskSteps == DiskNext /\ ~ PowerLoss => Next /\ ~ overtaken'
  BY DEF DiskNext, CopySynced, RenameSynced, WriteSynced, NotSynced, NoFileTouched,
     TakeLockLater, Next, RunStep

\* A machine that lost its power comes back to files that fit together, at rest.
LEMMA PowerLossStep ==
  ASSUME UpdaterInv, DiskInv, PowerLoss
  PROVE  UpdaterInv' /\ DiskInv'
  <1>1. PICK dir \in installDir : bin' = dir.bin /\ previous' = dir.previous
    BY DEF PowerLoss
  <1>2. PICK rec \in stateDir :
            release' = rec.release /\ pending' = rec.pending /\ failed' = rec.failed
    BY DEF PowerLoss
  <1>3. DirsTypeOK(dir, rec) /\ Recoverable(dir, rec)
    BY DEF DiskInv
  <1>4. UpdaterTypeOK'
    BY <1>1, <1>2, <1>3
    DEF PowerLoss, EndRun, Goto, NoRelease, Release, history, UpdaterInv, UpdaterTypeOK,
        DirsTypeOK
  <1>5. OnDisk'
    BY <1>1, <1>2, <1>3
    DEF PowerLoss, history, Recoverable, DropsAgain, OnDisk, NothingPending,
        ReleasePending, SwapNeverLanded, FailuresOnRecord
  <1>6. InHand'
    BY DEF PowerLoss, EndRun, Goto, InHand, Installing, Confirming, RollingBack
  <1>7. UpdaterInv'
    BY <1>4, <1>5, <1>6 DEF UpdaterInv
  <1>8. DiskSynced'
    BY DEF PowerLoss, DiskSynced
  <1> QED
    BY <1>7, <1>8, SyncedDisk, PTL

\* A copy over .previous, synced before the run goes on.
LEMMA CopyKeepsDisk ==
  ASSUME SyncMayFail = FALSE, UpdaterInv, DiskInv, UpdaterInv', CopySynced
  PROVE  DiskInv'
  <1>1. pc = "copying" /\ UNCHANGED <<bin, stateDir, Records, accepted, restored>>
    BY DEF CopySynced, FinishCopy, history, Records
  <1>2. previous' \in {Partial, bin} /\ bin \in accepted
    BY <1>1 DEF CopySynced, FinishCopy, UpdaterInv, InHand, OnDisk, NothingPending
  <1>3. Binaries'.bin = bin /\ Binaries'.previous = previous' /\ previous' # None
    BY <1>1, <1>2, UpdaterAssumption, NoneAssumption DEF Binaries, UpdaterInv, UpdaterTypeOK
  <1>4. ASSUME NEW rec \in stateDir
        PROVE  /\ Recoverable(Binaries', rec)
               /\ rec.pending # None =>
                      /\ DropsAgain(Binaries', rec)
                      /\ rec.pending.sequence \in restored =>
                             rec.pending.sequence \in rec.failed
    <2>1. /\ Recoverable(Binaries, rec)
          /\ rec.pending # None =>
                 /\ DropsAgain(Binaries, rec)
                 /\ rec.pending.sequence \in restored => rec.pending.sequence \in rec.failed
      BY <1>1 DEF DiskInv, Fetching
    <2>2. Binaries.bin = bin
      BY DEF Binaries
    <2> QED
      BY <1>2, <1>3, <2>1, <2>2 DEF Recoverable, DropsAgain
  <1>5. CASE pc' = "pend" /\ installDir' = {Binaries'}
    <2>1. Records' \in stateDir /\ Records = Records'
      BY <1>1 DEF DiskInv
    <2>2. Binaries' \in [bin: {bin'}, previous: Versions \union {Partial, None}]
      BY <1>2, UpdaterAssumption DEF Binaries, UpdaterInv, UpdaterTypeOK
    <2>3. \A rec \in stateDir : DirsTypeOK(Binaries, rec)'
      BY <1>1, <2>1, <2>2 DEF DiskInv, DirsTypeOK
    <2>4. \A rec \in stateDir :
              /\ Recoverable(Binaries, rec)'
              /\ rec.pending # None =>
                     /\ DropsAgain(Binaries, rec)'
                     /\ rec.pending.sequence \in restored' =>
                            rec.pending.sequence \in rec.failed
      BY <1>1, <1>4 DEF Recoverable, DropsAgain
    <2> QED
      BY <1>1, <1>5, <2>1, <2>3, <2>4 DEF DiskInv, Fetching
  <1>6. CASE pc' = "idle" /\ installDir' = installDir \union {Binaries'}
    <2>1. \A dir \in installDir : Recoverable(dir, Records')
      BY <1>1 DEF DiskInv
    <2> QED
      BY <1>1, <1>4, <1>6, <2>1, EndingKeepsDisk DEF DiskInv
  <1>7. CASE pc' = "pend" /\ installDir' \in Synced(WithPrevious(installDir), Binaries')
    BY <1>5, <1>7 DEF Synced
  <1> QED
    BY <1>6, <1>7 DEF CopySynced

\* The swap, and .previous put back, with their directory synced.
LEMMA RenameKeepsDisk ==
  ASSUME SyncMayFail = FALSE, UpdaterInv, DiskInv, UpdaterInv', RenameSynced
  PROVE  DiskInv'
  <1>1. installDir = {Binaries} /\ stateDir = {Records}
    BY DEF RenameSynced, Swap, Restore, DiskInv, Fetching
  <1>2. installDir' = {Binaries'}
    BY DEF RenameSynced, Synced
  <1>3. CASE stateDir' = {Records'}
    <2>1. DiskSynced'
      BY <1>2, <1>3 DEF DiskSynced
    <2> QED
      BY <2>1, SyncedDisk, PTL
  <1>4. CASE Records' # Records /\ stateDir' = stateDir \union {Records'}
    <2>1. Swap /\ bin' = bin /\ pc' = "idle"
      BY <1>4 DEF RenameSynced, Swap, Restore, Records, EndRun, Goto
    <2>2. UNCHANGED <<Binaries, bin, accepted, restored>>
      BY <2>1 DEF Swap, Binaries, history
    <2>3. Recoverable(Binaries, Records) /\ Recoverable(Binaries, Records)'
      <3>1. FilesFit /\ FilesFit'
        BY FilesAreFit, PTL
      <3> QED
        BY <3>1 DEF FilesFit
    <2>4. Recoverable(Binaries, Records')
      BY <2>2, <2>3 DEF Recoverable, DropsAgain
    <2> QED
      BY <1>1, <1>2, <1>4, <2>1, <2>2, <2>3, <2>4, EndingKeepsDisk
  <1> QED
    BY <1>1, <1>3, <1>4 DEF RenameSynced

\* A record, written and synced with its directory.
LEMMA WriteKeepsDisk ==
  ASSUME SyncMayFail = FALSE, UpdaterInv, DiskInv, UpdaterInv', WriteSynced
  PROVE  DiskInv'
  <1>1. pc \notin {"idle", "copying"} /\ UNCHANGED <<Binaries, restored, accepted>>
    BY DEF WriteSynced, WritePending, RecordRelease, AlreadyRunning, MarkRollback,
       RecordFailure, Stage, Binaries, history
  <1>2. installDir = {Binaries} /\ installDir' = {Binaries'}
    BY <1>1 DEF DiskInv, WriteSynced
  <1>3. CASE stateDir' = {Records'}
    <2>1. DiskSynced'
      BY <1>2, <1>3 DEF DiskSynced
    <2> QED
      BY <2>1, SyncedDisk, PTL
  <1>4. CASE Records' = Records /\ UNCHANGED stateDir
    <2>1. CASE RecordRelease \/ MarkRollback \/ RecordFailure
      <3>1. stateDir' = {Records'}
        BY <1>4, <2>1 DEF RecordRelease, MarkRollback, RecordFailure, DiskInv, Fetching
      <3> QED
        BY <1>3, <3>1
    <2>2. CASE WritePending \/ AlreadyRunning \/ Stage
      <3>1. pc \in Fetching /\ pc' \in {"idle", "copy", "swap"}
        BY <2>2 DEF WritePending, AlreadyRunning, Stage, EndRun, Goto, Fetching
      <3>2. pc' # "swap"
        <4>1. pending = None /\ pending' = pending
          BY <1>4, <3>1 DEF Records, UpdaterInv, InHand, Fetching
        <4> QED
          BY <4>1 DEF UpdaterInv, InHand
      <3> QED
        BY <1>1, <1>2, <1>4, <3>1, <3>2, NoFileKeepsDisk DEF diskVars, Fetching
    <2> QED
      BY <2>1, <2>2 DEF WriteSynced
  <1> QED
    BY <1>3, <1>4 DEF WriteSynced, Synced

\* What is removed or truncated without a sync may or may not be gone after a power loss.
LEMMA UnsyncedKeepsDisk ==
  ASSUME UpdaterInv, DiskInv, UpdaterInv', NotSynced
  PROVE  DiskInv'
  <1>1. pc \notin {"idle", "copying"} /\ UNCHANGED <<bin, restored, accepted>>
    BY DEF NotSynced, StartCopy, DropPending, ClearPending, Unmark, history
  <1>2. /\ installDir = {Binaries} /\ installDir' = {Binaries, Binaries'}
        /\ stateDir' = stateDir \union {Records'}
    BY <1>1 DEF DiskInv, NotSynced
  <1>3. FilesFit /\ FilesFit'
    BY FilesAreFit, PTL
  <1>4. CASE StartCopy
    <2>1. /\ pc \in Fetching /\ pc' = "copying" /\ previous' = Partial /\ pending' = None
          /\ Records' = Records /\ stateDir' = stateDir
      BY <1>2, <1>4
      DEF StartCopy, Records, DiskInv, UpdaterInv, InHand, Goto, Fetching
    <2>2. Binaries.bin = bin /\ Binaries'.bin = bin /\ Binaries'.previous = Partial
          /\ Binaries' \in [bin: {bin'}, previous: Versions \union {Partial, None}]
      BY <1>1, <2>1 DEF Binaries
    <2>3. bin \in accepted /\ Partial # None
      BY <2>1, NoneAssumption DEF UpdaterInv, InHand, OnDisk, NothingPending, Fetching
    <2>4. ASSUME NEW rec \in stateDir
          PROVE  /\ Recoverable(Binaries', rec)
                 /\ rec.pending # None => DropsAgain(Binaries', rec)
      <3>1. /\ Recoverable(Binaries, rec)
            /\ rec.pending # None =>
                   /\ DropsAgain(Binaries, rec)
                   /\ rec.pending.sequence \in restored =>
                          rec.pending.sequence \in rec.failed
        BY <2>1 DEF DiskInv, Fetching
      <3> QED
        BY <2>2, <2>3, <3>1 DEF Recoverable, DropsAgain
    <2>5. ASSUME NEW dir \in installDir', NEW rec \in stateDir'
          PROVE  /\ Recoverable(dir, rec)
                 /\ DirsTypeOK(dir, rec)'
                 /\ rec.pending # None =>
                        /\ DropsAgain(dir, rec)
                        /\ rec.pending.sequence \in restored =>
                               rec.pending.sequence \in rec.failed
      <3>1. CASE dir = Binaries'
        BY <2>1, <2>2, <2>4, <3>1 DEF DiskInv, DirsTypeOK
      <3>2. CASE dir = Binaries
        BY <1>1, <1>2, <2>1, <2>2, <3>2 DEF DiskInv, DirsTypeOK, Fetching
      <3> QED
        BY <1>2, <3>1, <3>2
    <2>6. \A dir, rec : /\ Recoverable(dir, rec) <=> Recoverable(dir, rec)'
                        /\ DropsAgain(dir, rec) <=> DropsAgain(dir, rec)'
      BY <1>1 DEF Recoverable, DropsAgain
    <2>7. ASSUME NEW dir \in installDir', NEW rec \in stateDir'
          PROVE  /\ DirsTypeOK(dir, rec)'
                 /\ Recoverable(dir, rec)'
                 /\ rec.pending # None =>
                        /\ DropsAgain(dir, rec)'
                        /\ rec.pending.sequence \in restored' =>
                               rec.pending.sequence \in rec.failed
      BY <1>1, <2>5, <2>6
    <2>8. Binaries' \in installDir' /\ Records' \in stateDir'
      BY <1>2
    <2> QED
      BY <2>1, <2>7, <2>8 DEF DiskInv, Fetching
  <1>5. CASE DropPending
    <2>1. /\ pc = "recover" /\ pc' = "fetch" /\ pending # None /\ me = bin
          /\ bin # pending.version /\ previous # None /\ ~ pending.rolling_back
          /\ Binaries' = Binaries
      BY <1>5 DEF DropPending, RollbackInterrupted, Goto, UpdaterInv, InHand, Binaries
    <2>2. /\ Binaries.bin = bin /\ Binaries.previous = previous
          /\ Records.pending = pending /\ Records.failed = failed
          /\ Records'.pending = None
      BY <1>5 DEF DropPending, Binaries, Records
    <2>3. stateDir' = {Records, Records'} /\ installDir' = {Binaries'}
      BY <1>2, <2>1 DEF DiskInv, Fetching
    <2>4. bin \in accepted /\ (pending.sequence \in restored => pending.sequence \in failed)
      BY <2>1 DEF UpdaterInv, OnDisk, ReleasePending, SwapNeverLanded
    <2>5. DropsAgain(Binaries, Records) /\ Recoverable(Binaries, Records)
      BY <1>3, <2>1, <2>2, <2>4 DEF DropsAgain, FilesFit
    <2>6. DirsTypeOK(Binaries, Records) /\ UNCHANGED <<bin, Binaries>>
      BY <1>1, <1>3, <2>1 DEF FilesFit
    <2>7. ASSUME NEW rec, rec = Records
          PROVE  /\ DirsTypeOK(Binaries, rec)' /\ Recoverable(Binaries, rec)'
                 /\ DropsAgain(Binaries, rec)'
                 /\ rec.pending.sequence \in restored' =>
                        rec.pending.sequence \in rec.failed
      BY <1>1, <2>2, <2>4, <2>5, <2>6, <2>7 DEF DirsTypeOK, Recoverable, DropsAgain
    <2>8. ASSUME NEW rec, rec = Records'
          PROVE  /\ DirsTypeOK(Binaries, rec)' /\ Recoverable(Binaries, rec)'
                 /\ rec.pending = None
      BY <1>3, <2>2, <2>8 DEF FilesFit, DirsTypeOK, Recoverable, DropsAgain
    <2> QED
      BY <2>1, <2>3, <2>7, <2>8 DEF DiskInv, Fetching
  <1>6. CASE ClearPending \/ Unmark
    <2>1. /\ pc' = "idle" /\ pc \notin {"idle"} \union Fetching /\ UNCHANGED Binaries
      BY <1>6 DEF ClearPending, Unmark, EndRun, Goto, Fetching, Binaries
    <2>2. stateDir = {Records}
      BY <2>1 DEF DiskInv
    <2>3. Recoverable(Binaries, Records) /\ Recoverable(Binaries', Records)
      BY <1>3, <2>1 DEF FilesFit
    <2>4. Recoverable(Binaries, Records')
      BY <1>1, <1>3, <2>1 DEF FilesFit, Recoverable, DropsAgain
    <2> QED
      BY <1>1, <1>2, <2>1, <2>2, <2>3, <2>4, EndingKeepsDisk
  <1> QED
    BY <1>4, <1>5, <1>6 DEF NotSynced

\* Every step keeps the invariant, a power loss included.
LEMMA DiskStep ==
  ASSUME SyncMayFail = FALSE, UpdaterInv, DiskInv, [DiskNext]_<<vars, diskVars>>
  PROVE  UpdaterInv' /\ DiskInv'
  <1>1. CASE UNCHANGED <<vars, diskVars>>
    <2>1. UpdaterInv'
      BY <1>1, UpdaterStep
    <2>2. UNCHANGED <<diskVars, Binaries, Records, restored, accepted, pc>>
      BY <1>1 DEF vars, fileVars, runVars, history, Binaries, Records
    <2> QED
      BY <2>1, <2>2, NoFileKeepsDisk
  <1>2. CASE DiskNext /\ ~ PowerLoss
    <2>1. UpdaterInv'
      BY <1>2, DiskSteps, UpdaterStep
    <2>2. CASE TakeLockLater
      <3>1. DiskSynced'
        BY <2>2 DEF TakeLockLater, DiskSynced, TakeLock, fileVars, Binaries, Records
      <3> QED
        BY <2>1, <3>1, SyncedDisk, PTL
    <2>3. CASE NoFileTouched
      <3>1. UNCHANGED <<Binaries, Records, restored>> /\ accepted \subseteq accepted'
        <4>1. UNCHANGED <<fileVars, restored>> /\ accepted \subseteq accepted'
          BY <2>3
          DEF NoFileTouched, ResumeRollback, ResumeConfirm, NothingToInstall, TakeRelease,
              Restart, HealthCheck, RestartPrevious, Exec, GiveUp, Abort, ServiceRestarts,
              history
        <4> QED
          BY <4>1 DEF fileVars, Binaries, Records
      <3>2. \/ pc' = "idle" \/ pc' = pc
            \/ pc = "fetch" /\ pc' = "stage"
            \/ {pc, pc'} \subseteq {"recover"} \union Confirming \union RollingBack
        BY <2>3
        DEF NoFileTouched, ResumeRollback, ResumeConfirm, NothingToInstall, TakeRelease,
            Restart, HealthCheck, RestartPrevious, Exec, GiveUp, Abort, ServiceRestarts,
            runVars, EndRun, Goto, Confirming, RollingBack
      <3>3. UNCHANGED diskVars
        BY <2>3 DEF NoFileTouched
      <3>4. /\ pc' \notin {"idle", "copying"} => pc \notin {"idle", "copying"}
            /\ pc' \notin {"idle"} \union Fetching => pc \notin {"idle"} \union Fetching
            /\ pc' \in Fetching => pc \in Fetching
        BY <3>2 DEF Fetching, Confirming, RollingBack
      <3> QED
        BY <2>1, <3>1, <3>3, <3>4, NoFileKeepsDisk
    <2> QED
      BY <1>2, <2>1, <2>2, <2>3, CopyKeepsDisk, RenameKeepsDisk, WriteKeepsDisk,
         UnsyncedKeepsDisk DEF DiskNext
  <1> QED
    BY <1>1, <1>2, PowerLossStep

\* With syncs that are noticed when they fail, both invariants hold in every reachable state
\* of the updater on a disk that can lose its unsynced writes.
LEMMA DiskInvariance ==
  ASSUME SyncMayFail = FALSE
  PROVE  DiskSpec => [](UpdaterInv /\ DiskInv)
  <1>1. DiskInit => UpdaterInv /\ DiskInv
    <2>1. DiskInit => UpdaterInv /\ DiskSynced
      BY UpdaterInit DEF DiskInit, DiskSynced
    <2> QED
      BY <2>1, SyncedDisk
  <1>2. UpdaterInv /\ DiskInv /\ [DiskNext]_<<vars, diskVars>> => (UpdaterInv /\ DiskInv)'
    BY DiskStep
  <1> QED
    BY <1>1, <1>2, PTL DEF DiskSpec

\* Whatever a power loss would leave has a way back from a binary that has not passed
\* its health check, if directory syncs work and up to the first process that gets the
\* lock after its binary was replaced, where DiskSpec ends.
THEOREM PowerLossWayBack ==
  ASSUME SyncMayFail = FALSE
  PROVE  DiskSpec => []PowerLossLeavesAWayBack
  <1>1. DiskInv => PowerLossLeavesAWayBack
    BY DEF DiskInv, Recoverable, DropsAgain, PowerLossLeavesAWayBack
  <1> QED
    BY DiskInvariance, <1>1, PTL

\* pending.json is never on disk without .previous, unless a rollback restored it.
THEOREM PreviousIsDurableFirst ==
  ASSUME SyncMayFail = FALSE
  PROVE  DiskSpec => []PreviousDurableFirst
  <1>1. DiskInv => PreviousDurableFirst
    BY DEF DiskInv, Recoverable, PreviousDurableFirst
  <1> QED
    BY DiskInvariance, <1>1, PTL

\* A release that was rolled back stays recorded or pending through a power loss.
THEOREM PowerLossKeepsFailures ==
  ASSUME SyncMayFail = FALSE
  PROVE  DiskSpec => []PowerLossForgetsNoFailure
  <1>1. DiskInv => PowerLossForgetsNoFailure
    BY DEF DiskInv, Recoverable, PowerLossForgetsNoFailure
  <1> QED
    BY DiskInvariance, <1>1, PTL

-----------------------------------------------------------------------------
(* Installations by an operator.  install.sh changes the binary under a run, so what a  *)
(* run knows of it is gone; what is left is that the script only installs accepted      *)
(* binaries, and that whatever is restarted last is what is installed.                  *)

ReinstallTypeOK ==
    /\ UpdaterTypeOK
    /\ script \in {"idle", "release", "start", "cut"}
    /\ script = "release" => chosen \in Versions
    /\ source \in Versions \union {None}

HasWayBack ==
    bin \notin accepted =>
        /\ pending # None
        /\ pending.version = bin
        /\ previous \in accepted

\* What a run can rely on for the way back.
WayBackInHand ==
    /\ HasWayBack
    /\ pending # None => previous \in accepted \union {None}
    /\ pc = "recover" => pending # None /\ (me = bin \/ bin \in accepted)
    /\ pc \in Fetching => pending = None
    /\ pc # "idle" => me \in Versions
    /\ pc \in Installing => job.version \in Versions /\ job.sequence \in Sequences
    /\ pc \in {"copy", "copying", "pend", "swap"} => staged = job.version
    /\ pc = "copying" => source \in accepted
    /\ pc \in {"pend", "swap"} => previous \in accepted
    /\ pc \in {"swap"} \union Confirming \union RollingBack =>
           /\ pending # None
           /\ pending.version = job.version
           /\ pending.sequence = job.sequence
    /\ pc = "check" => bin \in accepted \/ service = bin
    /\ pc \in {"swap", "record", "clear", "rerestart", "unmark"} => bin \in accepted

\* Where the service runs the installed binary, unless the script has yet to restart it.
EffectInHand ==
    script = "idle" =>
        /\ pending = None => service = bin
        /\ pending # None /\ bin # pending.version /\ previous # None => service = bin
        /\ pc = "recover" /\ me # pending.version /\ previous # None => service = bin
        /\ pc \in {"swap", "check", "record", "clear", "unmark"} => service = bin

ReinstallInv == ReinstallTypeOK /\ WayBackInHand /\ EffectInHand

\* The first installation is effective.
LEMMA ReinstallInitInv == ReinstallInit => ReinstallInv
  <1> SUFFICES ASSUME ReinstallInit PROVE ReinstallInv
    OBVIOUS
  <1>1. UpdaterTypeOK
    BY UpdaterInit DEF ReinstallInit, UpdaterInv
  <1> QED
    BY <1>1, UpdaterAssumption
    DEF ReinstallInit, Init, ReinstallInv, ReinstallTypeOK, WayBackInHand, HasWayBack,
        EffectInHand, Fetching, Installing, Confirming, RollingBack

\* The script's own steps.
LEMMA ScriptStep ==
  ASSUME ReinstallInv,
         InstallBinary \/ WriteReleaseState \/ StartService \/ ScriptEnds
  PROVE  ReinstallInv'
  <1> USE UpdaterAssumption, NoneAssumption
      DEF ReinstallInv, ReinstallTypeOK, UpdaterTypeOK, WayBackInHand, HasWayBack,
          EffectInHand, Fetching, Installing, Confirming, RollingBack, Steps,
          fileVars, runVars, history, vars
  <1>1. CASE InstallBinary
    BY <1>1 DEF InstallBinary
  <1>2. CASE WriteReleaseState
    BY <1>2 DEF WriteReleaseState, Release
  <1>3. CASE StartService
    BY <1>3 DEF StartService
  <1>4. CASE ScriptEnds
    BY <1>4 DEF ScriptEnds
  <1> QED
    BY <1>1, <1>2, <1>3, <1>4

\* A run that ends, with files that fit.
LEMMA EndRunReinstalled ==
  ASSUME ReinstallTypeOK, EndRun, UNCHANGED <<scriptVars, history, waiting>>,
         source' \in Versions \union {None}, bin' \in Versions, service' \in Versions,
         previous' \in Versions \union {Partial, None}, staged' \in Versions \union {None},
         release' \in Release, pending' \in Pending \union {None}, failed' \subseteq Sequences,
         HasWayBack',
         pending' # None => previous' \in accepted \union {None},
         script = "idle" =>
             /\ pending' = None => service' = bin'
             /\ pending' # None /\ bin' # pending'.version /\ previous' # None =>
                    service' = bin'
  PROVE  ReinstallInv'
  <1>1. ReinstallTypeOK'
    BY DEF EndRun, Goto, ReinstallTypeOK, UpdaterTypeOK, Release, NoRelease, scriptVars,
       history
  <1>2. WayBackInHand'
    BY DEF EndRun, Goto, WayBackInHand, HasWayBack, Fetching, Installing, Confirming,
       RollingBack, history
  <1>3. EffectInHand'
    BY DEF EndRun, Goto, EffectInHand, scriptVars
  <1> QED
    BY <1>1, <1>2, <1>3 DEF ReinstallInv

\* Recovery and the installation of a release.
LEMMA InstallUnderScript ==
  ASSUME ReinstallInv,
         \/ UNCHANGED <<scriptVars, source>> /\
                \/ Exec \/ GiveUp \/ (TakeLock /\ ~ overtaken')
                \/ ResumeRollback \/ ResumeConfirm \/ DropPending
                \/ NothingToInstall \/ AlreadyRunning \/ TakeRelease
                \/ Stage \/ WritePending \/ Swap
         \/ OpenCopy \/ FinishOpenCopy
  PROVE  ReinstallInv'
  <1> USE UpdaterAssumption, NoneAssumption
      DEF ReinstallInv, ReinstallTypeOK, UpdaterTypeOK, WayBackInHand, HasWayBack,
          EffectInHand, Fetching, Installing, Confirming, RollingBack, Steps,
          fileVars, history, scriptVars, Goto
  <1>1. CASE /\ Exec \/ GiveUp \/ (TakeLock /\ ~ overtaken')
             /\ UNCHANGED <<scriptVars, source>>
    <2>1. CASE Exec
      BY <1>1, <2>1 DEF Exec
    <2>2. CASE GiveUp
      BY <1>1, <2>2 DEF GiveUp
    <2>3. CASE TakeLock /\ ~ overtaken'
      <3>1. me' = bin /\ waiting' \subseteq waiting /\ overtaken' \in BOOLEAN
        BY <2>3 DEF TakeLock
      <3> QED
        BY <1>1, <2>3, <3>1 DEF TakeLock
    <2> QED
      BY <1>1, <2>1, <2>2, <2>3
  <1>2. CASE ResumeRollback /\ UNCHANGED <<scriptVars, source>>
    BY <1>2 DEF ResumeRollback, PendingJob, Pending, Release
  <1>3. CASE ResumeConfirm /\ UNCHANGED <<scriptVars, source>>
    BY <1>3 DEF ResumeConfirm, PendingJob, Pending, Release
  <1>4. CASE DropPending /\ UNCHANGED <<scriptVars, source>>
    BY <1>4 DEF DropPending, RollbackInterrupted
  <1>5. CASE NothingToInstall /\ UNCHANGED <<scriptVars, source>>
    BY <1>5, EndRunReinstalled DEF NothingToInstall
  <1>6. CASE AlreadyRunning /\ UNCHANGED <<scriptVars, source>>
    BY <1>6, EndRunReinstalled DEF AlreadyRunning, Release
  <1>7. CASE TakeRelease /\ UNCHANGED <<scriptVars, source>>
    <2>1. PICK seq \in Sequences : job' = [version |-> VersionOf[seq], sequence |-> seq]
      BY <1>7 DEF TakeRelease
    <2>2. VersionOf[seq] \in Versions
      OBVIOUS
    <2>3. job' \in Release /\ job'.version \in Versions /\ job'.sequence \in Sequences
      BY <2>1, <2>2 DEF Release
    <2> QED
      BY <1>7, <2>3 DEF TakeRelease
  <1>8. CASE Stage /\ UNCHANGED <<scriptVars, source>>
    <2>1. CASE staged' = job.version /\ pc' = "copy" /\ UNCHANGED <<failed, me, job, recorded>>
      BY <1>8, <2>1 DEF Stage
    <2>2. CASE /\ staged' \in {staged, None} /\ EndRun
               /\ failed' \in {failed, failed \union {job.sequence}}
      BY <1>8, <2>2, EndRunReinstalled DEF Stage
    <2> QED
      BY <1>8, <2>1, <2>2 DEF Stage
  <1>9. CASE OpenCopy
    BY <1>9 DEF OpenCopy, StartCopy
  <1>10. CASE FinishOpenCopy
    <2>1. /\ pending = None /\ source \in accepted /\ bin \in accepted
          /\ script = "idle" => service = bin
      BY <1>10 DEF FinishOpenCopy
    <2>2. CASE previous' = source /\ pc' = "pend" /\ UNCHANGED <<staged, me, job, recorded>>
      BY <1>10, <2>1, <2>2 DEF FinishOpenCopy
    <2>3. CASE previous' \in {Partial, source} /\ staged' \in {staged, None} /\ EndRun
      BY <1>10, <2>1, <2>3, EndRunReinstalled DEF FinishOpenCopy
    <2> QED
      BY <1>10, <2>2, <2>3 DEF FinishOpenCopy
  <1>11. CASE WritePending /\ UNCHANGED <<scriptVars, source>>
    <2>1. CASE pending' = PendingFor(job, FALSE) /\ pc' = "swap"
               /\ UNCHANGED <<staged, me, job, recorded>>
      <3>1. job.version \in Versions /\ job.sequence \in Sequences
        BY <1>11 DEF WritePending
      <3>2. /\ pending' \in Pending
            /\ pending'.version = job.version
            /\ pending'.sequence = job.sequence
            /\ pending' # None
        BY <2>1, <3>1, PendingRecord, Zenon
      <3> QED
        BY <1>11, <2>1, <3>2 DEF WritePending
    <2>2. CASE staged' \in {staged, None} /\ EndRun /\ UNCHANGED pending
      BY <1>11, <2>2, EndRunReinstalled DEF WritePending
    <2> QED
      BY <1>11, <2>1, <2>2 DEF WritePending, PendingFor
  <1>12. CASE Swap /\ UNCHANGED <<scriptVars, source>>
    BY <1>12, EndRunReinstalled DEF Swap
  <1> QED
    BY <1>1, <1>2, <1>3, <1>4, <1>5, <1>6, <1>7, <1>8, <1>9, <1>10, <1>11, <1>12

\* The health check, the rollback, a kill and a restart by systemd.
LEMMA ConfirmUnderScript ==
  ASSUME ReinstallInv,
         \/ UNCHANGED <<scriptVars, source>> /\
                \/ Restart \/ HealthCheck \/ RecordRelease \/ ClearPending
                \/ MarkRollback \/ RecordFailure \/ Restore \/ RestartPrevious \/ Unmark
                \/ ServiceRestarts
         \/ EndCopy
  PROVE  ReinstallInv'
  <1> USE UpdaterAssumption, NoneAssumption
      DEF ReinstallInv, ReinstallTypeOK, UpdaterTypeOK, WayBackInHand, HasWayBack,
          EffectInHand, Fetching, Installing, Confirming, RollingBack, Steps,
          fileVars, runVars, history, scriptVars, Goto
  <1>1. CASE Restart /\ UNCHANGED <<scriptVars, source>>
    BY <1>1 DEF Restart
  <1>2. CASE HealthCheck /\ UNCHANGED <<scriptVars, source>>
    BY <1>2 DEF HealthCheck
  <1>3. CASE RecordRelease /\ UNCHANGED <<scriptVars, source>>
    BY <1>3 DEF RecordRelease
  <1>4. CASE ClearPending /\ UNCHANGED <<scriptVars, source>>
    BY <1>4, EndRunReinstalled DEF ClearPending
  <1>5. CASE MarkRollback /\ UNCHANGED <<scriptVars, source>>
    <2>1. job.version \in Versions /\ job.sequence \in Sequences
      BY <1>5 DEF MarkRollback, Pending
    <2>2. pending' = pending \/ pending' = PendingFor(job, TRUE)
      BY <1>5 DEF MarkRollback, PendingFor
    <2>3. /\ PendingFor(job, TRUE) \in Pending
          /\ PendingFor(job, TRUE).version = job.version
          /\ PendingFor(job, TRUE).sequence = job.sequence
          /\ PendingFor(job, TRUE) # None
      BY <2>1, PendingRecord, Zenon
    <2>4. /\ pending' \in Pending
          /\ pending'.version = pending.version
          /\ pending'.sequence = pending.sequence
          /\ pending' # None
      BY <1>5, <2>2, <2>3 DEF MarkRollback
    <2> QED
      BY <1>5, <2>4 DEF MarkRollback
  <1>6. CASE RecordFailure /\ UNCHANGED <<scriptVars, source>>
    <2>1. job.sequence \in Sequences
      BY <1>6 DEF RecordFailure, Pending
    <2> QED
      BY <1>6, <2>1 DEF RecordFailure
  <1>7. CASE Restore /\ UNCHANGED <<scriptVars, source>>
    <2>1. job.sequence \in Sequences
      BY <1>7 DEF Restore, Pending
    <2>2. bin' \in accepted
      BY <1>7 DEF Restore
    <2> QED
      BY <1>7, <2>1, <2>2 DEF Restore
  <1>8. CASE RestartPrevious /\ UNCHANGED <<scriptVars, source>>
    <2>1. CASE ~ recorded
      BY <1>8, <2>1, EndRunReinstalled DEF RestartPrevious
    <2>2. CASE recorded
      BY <1>8, <2>2 DEF RestartPrevious
    <2> QED
      BY <2>1, <2>2
  <1>9. CASE Unmark /\ UNCHANGED <<scriptVars, source>>
    BY <1>9, EndRunReinstalled DEF Unmark
  <1>10. CASE ServiceRestarts /\ UNCHANGED <<scriptVars, source>>
    BY <1>10 DEF ServiceRestarts
  <1>11. CASE EndCopy
    BY <1>11, EndRunReinstalled DEF EndCopy, Abort
  <1> QED
    BY <1>1, <1>2, <1>3, <1>4, <1>5, <1>6, <1>7, <1>8, <1>9, <1>10, <1>11

\* The invariant holds in every reachable state of the updater and install.sh together.
LEMMA ReinstallInvariance == ReinstallSpec => []ReinstallInv
  <1>1. ReinstallInv /\ [ReinstallNext]_reinstallVars => ReinstallInv'
    <2> SUFFICES ASSUME ReinstallInv, [ReinstallNext]_reinstallVars PROVE ReinstallInv'
      OBVIOUS
    <2>1. CASE UNCHANGED reinstallVars
      BY <2>1
      DEF reinstallVars, vars, fileVars, runVars, history, scriptVars, ReinstallInv,
          ReinstallTypeOK, UpdaterTypeOK, WayBackInHand, HasWayBack, EffectInHand
    <2> QED
      BY <2>1, ScriptStep, InstallUnderScript, ConfirmUnderScript
      DEF ReinstallNext, OtherStep
  <1> QED
    BY ReinstallInitInv, <1>1, PTL DEF ReinstallSpec

\* An operator's installation that falls into a run never takes its way back away, up to
\* the first process that gets the lock after its binary was replaced, where ReinstallSpec
\* ends.
THEOREM ReinstallWayBack == ReinstallSpec => []AlwaysAWayBack
  <1>1. ReinstallInv => AlwaysAWayBack
    BY DEF ReinstallInv, WayBackInHand, HasWayBack, AlwaysAWayBack
  <1> QED
    BY ReinstallInvariance, <1>1, PTL

\* An installation that ran to its end leaves the service on the binary in place, wherever
\* its steps fell between those of the updater, up to the same point.
THEOREM InstallationEffective == ReinstallSpec => []InstallationTakesEffect
  <1>1. ReinstallInv => InstallationTakesEffect
    BY DEF ReinstallInv, EffectInHand, InstallationTakesEffect
  <1> QED
    BY ReinstallInvariance, <1>1, PTL
=============================================================================
