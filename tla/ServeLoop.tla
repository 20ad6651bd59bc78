----------------------------- MODULE ServeLoop -----------------------------
(***************************************************************************)
(* The service (serve, src/src/main.rs) in time: the chain steps every     *)
(* EpochLength, the platform publishes the epoch's summary up to Gap later,*)
(* a run reads the chain and then fetches the summary, and the loop waits  *)
(* for the next one.  serve and the worker thread of a run are two         *)
(* processes; a signal can arrive at any time.  What a run does after      *)
(* validate_chain is Validator; here it only takes time.  The program's    *)
(* own steps take none, so time stands still while one is due.  "Fault:"   *)
(* operators are mistakes the properties must notice.                      *)
(***************************************************************************)
EXTENDS Naturals

CONSTANTS
    EpochLength,  \* time between two steps of the chain
    Gap,          \* the longest the platform takes to publish
    MaxRun,       \* the longest a run takes
    PollIntervals, \* values of poll_interval_secs
    StaleRetry,   \* STALE_RETRY
    RestartSec,   \* RestartSec of the unit
    MaxFailures   \* bound: runs that fail or panic

\* poll_interval_secs is 1..=86400; a stale summary is retried past the gap, within
\* the epoch.
ASSUME ServeAssumption ==
    /\ {EpochLength, Gap, MaxRun, RestartSec, MaxFailures} \subseteq Nat
    /\ PollIntervals \subseteq Nat \ {0}
    /\ StaleRetry \in Nat \ {0}
    /\ Gap <= StaleRetry
    /\ StaleRetry + Gap + 2 * MaxRun < EpochLength

VARIABLES
    interval,   \* poll_interval_secs
    phase,      \* time since the chain stepped
    published,  \* the epoch's summary is out
    pc,         \* serve: in which select!, or how it ended
    wait,       \* time until the next run, or until systemd restarts the service
    signal,     \* SIGINT or SIGTERM has arrived
    worker,     \* the run's next step, "done", "panicked" or "none"
    outcome,    \* how the last run ended
    ran,        \* time the run has taken
    snapshot,   \* age in epochs of the snapshot's last step
    summary,    \* age of the fetched summary
    scored,     \* age of the last epoch scored
    failures,   \* runs that failed or panicked
    late        \* runs started after the signal

clockVars == <<interval, phase, published>>
loopVars == <<pc, wait>>
runVars == <<worker, outcome, ran, snapshot, summary>>
vars == <<clockVars, loopVars, signal, runVars, scored, failures, late>>

Running == worker \in {"snapshot", "fetch", "check"}

\* Ages beyond this are not told apart.
MaxAge == 3

\* Nor more runs after the signal than this.
MaxLate == 2

Older(age) == IF age < MaxAge THEN age + 1 ELSE MaxAge

\* The service starts with what is out already scored.
Init ==
    /\ interval \in PollIntervals
    /\ phase \in 0..(EpochLength - 1)
    /\ published \in BOOLEAN /\ (published <=> phase >= Gap)
    /\ pc = "run"
    /\ wait = 0
    /\ signal = FALSE
    /\ worker = "snapshot"
    /\ outcome = "ok"
    /\ ran = 0
    /\ snapshot = 0
    /\ summary = 0
    /\ scored = IF published THEN 0 ELSE 1
    /\ failures = 0
    /\ late = 0

-----------------------------------------------------------------------------
(* The run *)

ReadSnapshot ==
    /\ worker = "snapshot"
    /\ worker' = "fetch"
    /\ snapshot' = 0
    /\ UNCHANGED <<clockVars, loopVars, signal, outcome, ran, summary, scored, failures,
                   late>>

\* The latest summary there is.
FetchSummary ==
    /\ worker = "fetch"
    /\ worker' = "check"
    /\ summary' = IF published THEN 0 ELSE 1
    /\ UNCHANGED <<clockVars, loopVars, signal, outcome, ran, snapshot, scored, failures,
                   late>>

\* validate_chain: an older summary and a newer one are both stale.
CheckEpoch ==
    /\ worker = "check"
    /\ worker' = "done"
    /\ \/ summary = snapshot /\ outcome' = "ok" /\ scored' = summary
       \/ summary # snapshot /\ outcome' = "stale" /\ UNCHANGED scored
    /\ UNCHANGED <<clockVars, loopVars, signal, ran, snapshot, summary, failures, late>>

\* Any other error, or a panic.
FailRun ==
    /\ Running
    /\ failures < MaxFailures
    /\ failures' = failures + 1
    /\ \/ worker' = "done" /\ outcome' = "failed"
       \/ worker' = "panicked" /\ UNCHANGED outcome
    /\ UNCHANGED <<clockVars, loopVars, signal, ran, snapshot, summary, scored, late>>

-----------------------------------------------------------------------------
(* serve *)

StartRun ==
    /\ pc' = "run"
    /\ worker' = "snapshot"
    /\ ran' = 0
    /\ late' = IF signal /\ late < MaxLate THEN late + 1 ELSE late
    /\ UNCHANGED <<clockVars, wait, signal, outcome, snapshot, summary, scored, failures>>

\* Fault: every outcome waits the interval.
AlwaysPoll == interval

\* Fault: a stale summary is retried at once.
AtOnce == IF outcome = "stale" THEN 0 ELSE interval

NextDelay ==
    IF outcome = "stale" /\ StaleRetry < interval THEN StaleRetry ELSE interval

RunEnds ==
    /\ pc = "run"
    /\ worker = "done"
    /\ pc' = "sleep"
    /\ wait' = NextDelay
    /\ worker' = "none"
    /\ UNCHANGED <<clockVars, signal, outcome, ran, snapshot, summary, scored, failures, late>>

\* Fault: serve returns, and the process with it.
StopAtOnce ==
    /\ pc = "run"
    /\ signal
    /\ pc' = "stopped"
    /\ UNCHANGED <<clockVars, wait, signal, runVars, scored, failures, late>>

\* select! takes any branch that is ready, so a run that ends now may win.
SignalInRun ==
    /\ pc = "run"
    /\ signal
    /\ pc' = "drain"
    /\ UNCHANGED <<clockVars, wait, signal, runVars, scored, failures, late>>

Drained ==
    /\ pc = "drain"
    /\ worker \in {"done", "panicked"}
    /\ pc' = "stopped"
    /\ worker' = "none"
    /\ UNCHANGED <<clockVars, wait, signal, outcome, ran, snapshot, summary, scored,
                   failures, late>>

Wake == pc = "sleep" /\ wait = 0 /\ StartRun

SignalInSleep ==
    /\ pc = "sleep"
    /\ signal
    /\ pc' = "stopped"
    /\ UNCHANGED <<clockVars, wait, signal, runVars, scored, failures, late>>

\* A panic ends the process with a failure; systemd starts it again unless it was asked
\* to stop it.
WorkerPanicked ==
    /\ pc = "run"
    /\ worker = "panicked"
    /\ worker' = "none"
    /\ pc' = IF signal THEN "stopped" ELSE "restarting"
    /\ wait' = RestartSec
    /\ UNCHANGED <<clockVars, signal, outcome, ran, snapshot, summary, scored, failures,
                   late>>

Restarted == pc = "restarting" /\ wait = 0 /\ ~ signal /\ StartRun

StoppedByUnit ==
    /\ pc = "restarting"
    /\ signal
    /\ pc' = "stopped"
    /\ UNCHANGED <<clockVars, wait, signal, runVars, scored, failures, late>>

-----------------------------------------------------------------------------
Signal ==
    /\ ~ signal
    /\ pc # "stopped"
    /\ signal' = TRUE
    /\ UNCHANGED <<clockVars, loopVars, runVars, scored, failures, late>>

Publish ==
    /\ ~ published
    /\ published' = TRUE
    /\ UNCHANGED <<interval, phase, loopVars, signal, runVars, scored, failures, late>>

\* Something is due that takes no time.
Due ==
    \/ pc \in {"sleep", "restarting"} /\ (wait = 0 \/ signal)
    \/ pc = "run" /\ (signal \/ worker \in {"done", "panicked"})
    \/ pc = "drain" /\ ~ Running
    \/ Running /\ ran = MaxRun
    \/ ~ published /\ phase = Gap

Tick ==
    /\ ~ Due
    /\ wait' = IF pc \in {"sleep", "restarting"} THEN wait - 1 ELSE wait
    /\ ran' = IF Running THEN ran + 1 ELSE ran
    /\ \/ /\ phase + 1 < EpochLength
          /\ phase' = phase + 1
          /\ UNCHANGED <<published, snapshot, summary, scored>>
       \/ /\ phase + 1 = EpochLength
          /\ phase' = 0
          /\ published' = FALSE
          /\ snapshot' = Older(snapshot)
          /\ summary' = Older(summary)
          /\ scored' = Older(scored)
    /\ UNCHANGED <<interval, pc, signal, worker, outcome, failures, late>>

Progress ==
    \/ ReadSnapshot \/ FetchSummary \/ CheckEpoch
    \/ RunEnds \/ SignalInRun \/ Drained \/ Wake \/ SignalInSleep
    \/ WorkerPanicked \/ Restarted \/ StoppedByUnit
    \/ Publish \/ Tick

Next == Progress \/ FailRun \/ Signal

\* Time goes on, a run ends, and the platform publishes.
Spec == Init /\ [][Next]_vars /\ WF_vars(Progress)

-----------------------------------------------------------------------------
(* Properties *)

\* Whatever the poll interval, the service goes on scoring until it is told to stop,
\* even with an interval that is a whole number of epochs (comment at runtime.rs:37).
KeepsScoring == []<>(signal \/ scored = 0)

\* When the interval and two runs fit into an epoch, so that two successive reads of the
\* chain do, no epoch goes by unscored, however runs and publications fall within it, as
\* long as no run fails.
EveryEpochScored ==
    interval + 2 * MaxRun <= EpochLength /\ failures = 0 => scored <= 1 \/ Running \/ signal

\* The process never ends under a run of its own (main.rs:215).
NeverCutShort == pc = "stopped" => ~ Running

\* A signal that falls together with the end of a sleep can let one more run start,
\* and never a second.
AtMostOneRunAfterSignal == late <= 1

\* A signal stops the service.
StopsAfterSignal == signal ~> pc = "stopped"
=============================================================================
