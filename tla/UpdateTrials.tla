---------------------------- MODULE UpdateTrials ----------------------------
(***************************************************************************)
(* What the updater promises, without runs, files, kills or retries: a     *)
(* release is on trial from the moment its binary is installed; a healthy  *)
(* one is kept, any other makes way for the very binary it replaced and is *)
(* never tried again.  One trial ends before the next begins.  All that is *)
(* void once an updater has been at work that was started from another     *)
(* binary than the installed one.                                          *)
(***************************************************************************)
EXTENDS Naturals

CONSTANTS Sequences, VersionOf, BadVersions, Base

VARIABLES
    installed,   \* the installed version
    fallback,    \* the version that was installed before the trial
    trial,       \* sequence of the release on trial, 0 for none
    undone,      \* sequences that were undone
    overtaken    \* such an updater has been at work

trialVars == <<installed, fallback, trial, undone, overtaken>>

TrialInit ==
    /\ installed = Base
    /\ fallback = Base
    /\ trial = 0
    /\ undone = {}
    /\ overtaken = FALSE

Try(seq) ==
    /\ trial = 0
    /\ seq \notin undone
    /\ VersionOf[seq] # installed
    /\ trial' = seq
    /\ installed' = VersionOf[seq]
    /\ UNCHANGED <<fallback, undone>>

Keep ==
    /\ trial # 0
    /\ installed \notin BadVersions
    /\ trial' = 0
    /\ fallback' = installed
    /\ UNCHANGED <<installed, undone>>

Undo ==
    /\ trial # 0
    /\ installed' = fallback
    /\ trial' = 0
    /\ undone' = undone \union {trial}
    /\ UNCHANGED fallback

Promised ==
    /\ (\E seq \in Sequences : Try(seq)) \/ Keep \/ Undo
    /\ UNCHANGED overtaken

Void == overtaken' = TRUE

TrialNext == Promised \/ Void

TrialSpec == TrialInit /\ [][TrialNext]_trialVars
=============================================================================
