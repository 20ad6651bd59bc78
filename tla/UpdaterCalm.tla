---------------------------- MODULE UpdaterCalm ----------------------------
(***************************************************************************)
(* Updater under the fairness that its promise to end every update needs:  *)
(* the timer keeps firing, and again and again a run is calm, which is to  *)
(* say not killed.  calm is chosen when a run gets the lock; nothing in    *)
(* the program depends on it.                                              *)
(***************************************************************************)
EXTENDS Updater

VARIABLE calm   \* the run that has the lock will not be killed

calmVars == <<vars, calm>>

CalmInit == Init /\ calm = FALSE

\* Bound: one process gets the lock after its binary was replaced.
CalmTakeLock(kind) ==
    /\ TakeLock
    /\ overtaken => me' = bin
    /\ calm' = kind

CalmRun ==
    \/ RunStep /\ calm' = (calm /\ pc' # "idle")
    \/ Abort /\ ~ calm /\ UNCHANGED calm

CalmNext ==
    \/ (Exec \/ GiveUp \/ ServiceRestarts) /\ UNCHANGED calm
    \/ \E kind \in BOOLEAN : CalmTakeLock(kind)
    \/ CalmRun

\* The timer keeps firing, no process waits for ever and not only killed ones get the
\* lock; a run does not hang (every wait in it is bounded); and the two writes whose
\* failure a run survives do not fail every time in the runs that get to them.
CalmFairness ==
    /\ WF_calmVars(Exec /\ UNCHANGED calm)
    /\ WF_calmVars(GiveUp /\ UNCHANGED calm)
    /\ SF_calmVars(CalmTakeLock(TRUE))
    /\ WF_calmVars(CalmRun)
    /\ SF_calmVars(RecordFailure /\ recorded' /\ calm /\ UNCHANGED calm)
    /\ SF_calmVars(Unmark /\ pending' = None /\ calm /\ calm' = FALSE)

CalmSpec == CalmInit /\ [][CalmNext]_calmVars /\ CalmFairness

=============================================================================
