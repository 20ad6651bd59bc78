-------------------------- MODULE ServeLoop_proofs --------------------------
(***************************************************************************)
(* Proofs about module ServeLoop for any interval, and any lengths of      *)
(* epoch, gap and run that ServeAssumption admits.                         *)
(*                                                                         *)
(* The argument.  Left bounds the time until the run under way, or the     *)
(* next one, is over.  OnTime says that this is before the epoch is whose  *)
(* end would leave one unscored; only the end of a run sets it anew, and   *)
(* there the interval, or the gap and STALE_RETRY, are known to fit.       *)
(***************************************************************************)
EXTENDS ServeLoop, TLAPS

LoopTypeOK ==
    /\ interval \in PollIntervals
    /\ phase \in 0..(EpochLength - 1)
    /\ published \in BOOLEAN
    /\ pc \in {"run", "sleep", "drain", "restarting", "stopped"}
    /\ wait \in Nat
    /\ signal \in BOOLEAN
    /\ worker \in {"snapshot", "fetch", "check", "done", "panicked", "none"}
    /\ outcome \in {"ok", "stale", "failed"}
    /\ ran \in 0..MaxRun
    /\ snapshot \in 0..MaxAge /\ summary \in 0..MaxAge /\ scored \in 0..MaxAge
    /\ failures \in 0..MaxFailures
    /\ late \in 0..MaxLate

\* A worker thread exists while serve waits for one, and a sleep that a signal has ended
\* once is not over when it finds the signal again.
OneRun ==
    /\ pc \in {"sleep", "restarting", "stopped"} <=> worker = "none"
    /\ late > 0 => signal
    /\ late > 0 /\ pc = "sleep" => wait > 0
    /\ late <= 1

\* The platform publishes within the gap, and what was fetched had been published.
OutInTime ==
    /\ ~ published => phase <= Gap
    /\ scored = 0 => published
    /\ worker = "check" /\ summary = 0 => published

Left ==
    IF Running THEN MaxRun - ran
    ELSE MaxRun + IF worker = "done" THEN NextDelay ELSE wait

\* With the last epoch scored there is this epoch and the next to score this one in, with
\* only the one before it scored there is the rest of this one.
OnTime ==
    interval + 2 * MaxRun <= EpochLength /\ failures = 0 /\ ~ signal =>
        /\ pc \in {"run", "sleep"} /\ worker # "panicked"
        /\ scored \in {0, 1}
        /\ phase + Left < IF scored = 0 THEN 2 * EpochLength ELSE EpochLength
        /\ worker \in {"fetch", "check"} =>
               snapshot = 0 \/ (scored = 1 /\ snapshot = 1 /\ phase < ran)
        /\ worker = "check" =>
               \/ summary = 0
               \/ summary = 1 /\ scored = 1 /\ (snapshot = 0 => phase <= Gap + ran)

ServeInv == LoopTypeOK /\ OneRun /\ OutInTime /\ OnTime

\* The constants are numbers, and the assumption on them read as such.
LEMMA Lengths ==
    /\ EpochLength \in Nat /\ Gap \in Nat /\ MaxRun \in Nat /\ RestartSec \in Nat
    /\ MaxFailures \in Nat /\ StaleRetry \in Nat /\ StaleRetry > 0 /\ Gap <= StaleRetry
    /\ StaleRetry + Gap + 2 * MaxRun < EpochLength
    /\ \A i \in PollIntervals : i \in Nat /\ i > 0
  BY ServeAssumption

\* The first run starts in time for the epoch before.
LEMMA ServeInit == Init => ServeInv
  <1> SUFFICES ASSUME Init PROVE ServeInv
    OBVIOUS
  <1>1. /\ phase \in 0..(EpochLength - 1) /\ interval \in PollIntervals
        /\ pc = "run" /\ wait = 0 /\ signal = FALSE /\ worker = "snapshot"
        /\ outcome = "ok" /\ ran = 0 /\ snapshot = 0 /\ summary = 0 /\ failures = 0
        /\ late = 0
    BY DEF Init
  <1>2. \/ phase >= Gap /\ published = TRUE /\ scored = 0
        \/ phase < Gap /\ published = FALSE /\ scored = 1
    BY <1>1, Lengths DEF Init
  <1>3. LoopTypeOK
    <2>1. published \in BOOLEAN
      BY <1>2
    <2>2. scored \in 0..3
      BY <1>2
    <2>3. signal \in BOOLEAN
      BY <1>1
    <2>4. wait \in Nat /\ ran \in 0..MaxRun /\ failures \in 0..MaxFailures
          /\ 0 \in 0..3 /\ 0 \in 0..2
      BY <1>1, Lengths
    <2> QED
      BY <1>1, <2>1, <2>2, <2>3, <2>4, Zenon DEF LoopTypeOK, MaxAge, MaxLate
  <1>4. OneRun /\ OutInTime
    BY <1>1, <1>2, Lengths DEF OneRun, OutInTime
  <1>5. OnTime
    BY <1>1, <1>2, Lengths DEF OnTime, Left, Running
  <1> QED
    BY <1>3, <1>4, <1>5 DEF ServeInv

\* Every step keeps the types.
LEMMA ServeTypes == LoopTypeOK /\ [Next]_vars => LoopTypeOK'
  <1> SUFFICES ASSUME LoopTypeOK, [Next]_vars PROVE LoopTypeOK'
    OBVIOUS
  <1> USE Lengths DEF LoopTypeOK, clockVars, loopVars, runVars, MaxAge, MaxLate
  <1>1. CASE ReadSnapshot \/ FetchSummary \/ CheckEpoch
    BY <1>1 DEF ReadSnapshot, FetchSummary, CheckEpoch
  <1>2. CASE FailRun
    BY <1>2 DEF FailRun
  <1>3. CASE Wake \/ Restarted
    BY <1>3 DEF Wake, Restarted, StartRun
  <1>4. CASE RunEnds
    BY <1>4 DEF RunEnds, NextDelay
  <1>5. CASE SignalInRun \/ Drained \/ SignalInSleep \/ WorkerPanicked \/ StoppedByUnit
    BY <1>5 DEF SignalInRun, Drained, SignalInSleep, WorkerPanicked, StoppedByUnit
  <1>6. CASE Publish \/ Signal
    BY <1>6 DEF Publish, Signal
  <1>7. CASE Tick
    <2>1. wait' \in Nat
      BY <1>7 DEF Tick, Due
    <2>2. ran' \in 0..MaxRun
      BY <1>7 DEF Tick, Due
    <2>3. phase' \in 0..(EpochLength - 1)
      BY <1>7 DEF Tick
    <2>4. snapshot' \in 0..MaxAge /\ summary' \in 0..MaxAge /\ scored' \in 0..MaxAge
      BY <1>7 DEF Tick, Older
    <2> QED
      BY <1>7, <2>1, <2>2, <2>3, <2>4 DEF Tick
  <1>8. CASE UNCHANGED vars
    BY <1>8 DEF vars
  <1> QED
    BY <1>1, <1>2, <1>3, <1>4, <1>5, <1>6, <1>7, <1>8 DEF Next, Progress

\* Every step keeps a worker to each run, and one run after a signal.
LEMMA OneRunStep == LoopTypeOK /\ OneRun /\ [Next]_vars => OneRun'
  <1> SUFFICES ASSUME LoopTypeOK, OneRun, [Next]_vars PROVE OneRun'
    OBVIOUS
  <1> USE Lengths DEF LoopTypeOK, OneRun, clockVars, loopVars, runVars, MaxLate
  <1>1. CASE ReadSnapshot \/ FetchSummary \/ CheckEpoch
    BY <1>1 DEF ReadSnapshot, FetchSummary, CheckEpoch
  <1>2. CASE FailRun
    BY <1>2 DEF FailRun, Running
  <1>3. CASE Wake \/ Restarted
    BY <1>3 DEF Wake, Restarted, StartRun
  <1>4. CASE RunEnds
    BY <1>4 DEF RunEnds, NextDelay
  <1>5. CASE SignalInRun \/ Drained \/ SignalInSleep \/ WorkerPanicked \/ StoppedByUnit
    BY <1>5 DEF SignalInRun, Drained, SignalInSleep, WorkerPanicked, StoppedByUnit
  <1>6. CASE Publish \/ Signal
    BY <1>6 DEF Publish, Signal
  <1>7. CASE Tick
    BY <1>7 DEF Tick, Due
  <1>8. CASE UNCHANGED vars
    BY <1>8 DEF vars
  <1> QED
    BY <1>1, <1>2, <1>3, <1>4, <1>5, <1>6, <1>7, <1>8 DEF Next, Progress

\* Every step keeps to what the platform has published by when.
LEMMA OutInTimeStep == LoopTypeOK /\ OutInTime /\ [Next]_vars => OutInTime'
  <1> SUFFICES ASSUME LoopTypeOK, OutInTime, [Next]_vars PROVE OutInTime'
    OBVIOUS
  <1> USE Lengths DEF LoopTypeOK, OutInTime, clockVars, loopVars, runVars
  <1>1. CASE ReadSnapshot \/ FetchSummary \/ CheckEpoch
    BY <1>1 DEF ReadSnapshot, FetchSummary, CheckEpoch
  <1>2. CASE FailRun \/ Publish \/ Signal
    BY <1>2 DEF FailRun, Publish, Signal
  <1>3. CASE Wake \/ Restarted \/ RunEnds
    BY <1>3 DEF Wake, Restarted, StartRun, RunEnds
  <1>4. CASE SignalInRun \/ Drained \/ SignalInSleep \/ WorkerPanicked \/ StoppedByUnit
    BY <1>4 DEF SignalInRun, Drained, SignalInSleep, WorkerPanicked, StoppedByUnit
  <1>5. CASE Tick
    BY <1>5 DEF Tick, Due, Older, MaxAge
  <1>6. CASE UNCHANGED vars
    BY <1>6 DEF vars
  <1> QED
    BY <1>1, <1>2, <1>3, <1>4, <1>5, <1>6 DEF Next, Progress

\* The steps of a run that may be the one to score the epoch.
LEMMA OnTimeStep == ServeInv /\ [Next]_vars => OnTime'
  <1> SUFFICES ASSUME ServeInv, [Next]_vars,
                      interval' + 2 * MaxRun <= EpochLength, failures' = 0, ~ signal'
               PROVE  OnTime'
    BY DEF OnTime
  <1>1. interval' = interval /\ failures = 0 /\ ~ signal
    BY DEF ServeInv, LoopTypeOK, Next, Progress, ReadSnapshot, FetchSummary, CheckEpoch,
       FailRun, Wake, Restarted, StartRun, RunEnds, SignalInRun, Drained, SignalInSleep,
       WorkerPanicked, StoppedByUnit, Publish, Signal, Tick, vars, clockVars
  <1> USE <1>1, Lengths
      DEF ServeInv, LoopTypeOK, OnTime, Left, Running, clockVars, loopVars, runVars
  <1>2. CASE ReadSnapshot
    BY <1>2 DEF ReadSnapshot
  <1>3. CASE FetchSummary
    BY <1>3 DEF FetchSummary, OutInTime
  <1>4. CASE CheckEpoch
    BY <1>4 DEF CheckEpoch, NextDelay
  <1>5. CASE FailRun \/ Restarted \/ WorkerPanicked \/ StoppedByUnit \/ Drained
    BY <1>5 DEF FailRun, Restarted, WorkerPanicked, StoppedByUnit, Drained
  <1>6. CASE Wake
    BY <1>6 DEF Wake, StartRun, OneRun
  <1>7. CASE RunEnds
    BY <1>7 DEF RunEnds, NextDelay
  <1>8. CASE SignalInRun \/ SignalInSleep \/ Signal
    BY <1>8 DEF SignalInRun, SignalInSleep, Signal
  <1>9. CASE Publish \/ UNCHANGED vars
    BY <1>9 DEF Publish, vars, NextDelay
  <1>10. CASE Tick
    <2>1. CASE phase + 1 < EpochLength
      BY <1>10, <2>1 DEF Tick, Due, OneRun
    <2>2. CASE phase + 1 = EpochLength
      BY <1>10, <2>2 DEF Tick, Due, OneRun, Older, MaxAge
    <2> QED
      BY <2>1, <2>2
  <1> QED
    BY <1>2, <1>3, <1>4, <1>5, <1>6, <1>7, <1>8, <1>9, <1>10 DEF Next, Progress

\* In every reachable state of the service loop the run under way, or the next one, is over
\* before an epoch goes by unscored.
THEOREM ServeInvariance == Spec => []ServeInv
  <1>1. ServeInv /\ [Next]_vars => ServeInv'
    BY ServeTypes, OneRunStep, OutInTimeStep, OnTimeStep DEF ServeInv
  <1> QED
    BY ServeInit, <1>1, PTL DEF Spec

-----------------------------------------------------------------------------
(* Theorems *)

\* The process never ends under a run of its own.
THEOREM RunsComplete == Spec => []NeverCutShort
  <1>1. ServeInv => NeverCutShort
    BY DEF ServeInv, OneRun, NeverCutShort, Running
  <1> QED
    BY ServeInvariance, <1>1, PTL

\* A signal lets at most one more run start.
THEOREM OneRunAfterSignal == Spec => []AtMostOneRunAfterSignal
  <1>1. ServeInv => AtMostOneRunAfterSignal
    BY DEF ServeInv, OneRun, AtMostOneRunAfterSignal
  <1> QED
    BY ServeInvariance, <1>1, PTL

\* Where the interval and two runs fit into an epoch, no epoch goes by unscored, wherever
\* runs and publications fall: if runs and publication take as long as ServeAssumption says,
\* and an epoch is longer than STALE_RETRY, the gap and two runs.
THEOREM EpochsScored == Spec => []EveryEpochScored
  <1>1. ServeInv => EveryEpochScored
    BY DEF ServeInv, LoopTypeOK, OnTime, EveryEpochScored
  <1> QED
    BY ServeInvariance, <1>1, PTL
=============================================================================
