------------------------ MODULE ReleaseSchedule_proofs ------------------------
(***************************************************************************)
(* A due release waits for the window and the timer and no longer, for     *)
(* every length of the day, gap of the timer, window and spread.  The      *)
(* invariant follows one shut period of the window: at its beginning the   *)
(* last run of the timer lies in the open period before it, since that     *)
(* period is at least as long as the timer's gap.                          *)
(***************************************************************************)
EXTENDS ReleaseSchedule, TLAPS

Minute == now % Day

ScheduleTypeOK ==
    /\ now \in Nat
    /\ idle \in 0..MaxGap
    /\ window \in {None} \union {w \in Windows : Length(w) >= MaxGap}
    /\ spread \in Nat
    /\ manifest # None => manifest.applyAfter \in Nat
    /\ overdue \in Nat

\* Minutes since the window last opened, and since it last shut.
SinceOpen == Until(window.start, Minute)
SinceShut == Until(window.end, Minute)

\* What the last run of the timer says of the wait.
Waited ==
    /\ overdue > 0 => Wanted(manifest) /\ now >= DueAt(manifest)
    /\ window = None => overdue <= idle
    /\ window # None /\ Open(now) =>
          \/ overdue <= idle
          \/ SinceOpen < idle /\ overdue <= MaxGap + Shut + SinceOpen
    /\ window # None /\ ~ Open(now) => overdue <= MaxGap + SinceShut

Inv == ScheduleTypeOK /\ Waited

-----------------------------------------------------------------------------
(* The clock and the window *)

\* The remainder of a multiple of the day and some minutes.
LEMMA Remainder ==
    ASSUME NEW d \in Nat \ {0}, NEW q \in Int, NEW r \in 0..(d - 1)
    PROVE  (d * q + r) % d = r
OBVIOUS

\* The minute of the day is one, and the next minute follows it or is midnight.
LEMMA MinuteOfDay ==
    ASSUME NEW t \in Nat
    PROVE  /\ t % Day \in Minutes
           /\ (t + 1) % Day = IF t % Day = Day - 1 THEN 0 ELSE (t % Day) + 1
<1>1. Day \in Nat /\ Day >= 1
  BY ScheduleAssumption
<1>0. Day \in Nat \ {0}
  BY ScheduleAssumption
<1>2. t % Day \in 0..(Day - 1) /\ t = Day * (t \div Day) + (t % Day) /\ t \div Day \in Int
  BY <1>1, SMT
<1>3. CASE t % Day = Day - 1
  <2>1. t + 1 = Day * ((t \div Day) + 1) + 0 /\ 0 \in 0..(Day - 1) /\ (t \div Day) + 1 \in Int
    BY <1>1, <1>2, <1>3, SMT
  <2>2. (t + 1) % Day = 0
    BY <1>0, <2>1, Remainder, Zenon
  <2> QED
    BY <1>2, <1>3, <2>2 DEF Minutes
<1>4. CASE t % Day # Day - 1
  <2>1. t + 1 = Day * (t \div Day) + ((t % Day) + 1) /\ (t % Day) + 1 \in 0..(Day - 1)
    BY <1>1, <1>2, <1>4, SMT
  <2>2. (t + 1) % Day = (t % Day) + 1
    BY <1>1, <1>2, <2>1, SMT
  <2> QED
    BY <1>2, <1>4, <2>2 DEF Minutes
<1> QED
  BY <1>3, <1>4

\* A minute is in the window exactly if it comes before the window's end, counted from
\* its start.
LEMMA InWindow ==
    ASSUME NEW w \in Windows, NEW m \in Minutes
    PROVE  Contains(w, m) <=> Until(w.start, m) < Length(w)
BY ScheduleAssumption, SMT DEF Windows, Minutes, Contains, Until, Length

\* The length of a window and the two ways of telling the time by it.
LEMMA WindowClock ==
    ASSUME NEW w \in Windows, NEW m \in Minutes
    PROVE  /\ Length(w) \in 1..(Day - 1)
           /\ Contains(w, m) => Until(w.start, m) \in 0..(Length(w) - 1)
           /\ ~ Contains(w, m) => Until(w.end, m) \in 0..(Day - Length(w) - 1)
BY ScheduleAssumption, SMT DEF Windows, Minutes, Contains, Until, Length

\* From one minute to the next: the window stays open, shuts after its whole length,
\* stays shut, or opens after the whole time it was shut.
LEMMA WindowStep ==
    ASSUME NEW w \in Windows, NEW m \in Minutes, NEW n \in Minutes,
           n = IF m = Day - 1 THEN 0 ELSE m + 1
    PROVE  /\ Contains(w, m) /\ Contains(w, n) => Until(w.start, n) = Until(w.start, m) + 1
           /\ Contains(w, m) /\ ~ Contains(w, n) =>
                 Until(w.start, m) = Length(w) - 1 /\ Until(w.end, n) = 0
           /\ ~ Contains(w, m) /\ ~ Contains(w, n) => Until(w.end, n) = Until(w.end, m) + 1
           /\ ~ Contains(w, m) /\ Contains(w, n) =>
                 Until(w.end, m) = Day - Length(w) - 1 /\ Until(w.start, n) = 0
BY ScheduleAssumption, SMT DEF Windows, Minutes, Contains, Until, Length

-----------------------------------------------------------------------------
(* The invariant *)

\* Nothing has waited initially.
LEMMA InvInit == Init => Inv
<1> SUFFICES ASSUME Init PROVE Inv
  OBVIOUS
<1> USE ScheduleAssumption
<1>1. ScheduleTypeOK
  BY DEF Init, ScheduleTypeOK, Minutes
<1>2. now % Day \in Minutes
  BY <1>1, MinuteOfDay DEF ScheduleTypeOK
<1>3. window # None /\ ~ Open(now) => SinceShut \in Nat
  <2> SUFFICES ASSUME window # None, ~ Open(now) PROVE SinceShut \in Nat
    OBVIOUS
  <2>1. window \in Windows
    BY <1>1 DEF ScheduleTypeOK
  <2> QED
    BY <2>1, <1>2, WindowClock DEF Open, SinceShut, Minute
<1>4. Waited
  BY <1>1, <1>3 DEF Init, Waited, ScheduleTypeOK
<1> QED
  BY <1>1, <1>4 DEF Inv

\* Every step keeps the types.
LEMMA TypesStep == ScheduleTypeOK /\ [Next]_vars => ScheduleTypeOK'
<1> SUFFICES ASSUME ScheduleTypeOK, [Next]_vars PROVE ScheduleTypeOK'
  OBVIOUS
<1> USE ScheduleAssumption DEF ScheduleTypeOK
<1>1. CASE Publish
  <2>1. PICK seq \in Sequences, delay \in Delays :
           manifest' = [sequence |-> seq, applyAfter |-> now + delay]
    BY <1>1 DEF Publish
  <2>2. manifest'.applyAfter \in Nat
    BY <2>1
  <2> QED
    BY <1>1, <2>2 DEF Publish, hostVars, Windows, Length, Until
<1>2. CASE TimerRun
  BY <1>2 DEF TimerRun, Install, hostVars
<1>3. CASE RunNow
  BY <1>3 DEF RunNow, Install, hostVars
<1>4. CASE Tick
  BY <1>4 DEF Tick, hostVars
<1>5. CASE UNCHANGED vars
  BY <1>5 DEF vars, hostVars
<1> QED
  BY <1>1, <1>2, <1>3, <1>4, <1>5 DEF Next

\* Nothing but the clock moves the minute of the day.
LEMMA OnlyTickTells ==
    (now' = now /\ window' = window) =>
        SinceOpen' = SinceOpen /\ SinceShut' = SinceShut /\ Open(now)' = Open(now)
        /\ Shut' = Shut
BY DEF SinceOpen, SinceShut, Minute, Open, Shut

\* Another minute keeps the waiting time within its bounds.
LEMMA WaitedTick == Inv /\ Tick => Waited'
<1> SUFFICES ASSUME Inv, Tick PROVE Waited'
  OBVIOUS
<1> USE ScheduleAssumption
<1>t. ScheduleTypeOK /\ Waited
  BY DEF Inv
<1>1. now' = now + 1 /\ idle' = idle + 1 /\ UNCHANGED <<window, spread, manifest, installed, failed>>
  BY DEF Tick, hostVars
<1>2. /\ overdue' \in {0, overdue + 1}
      /\ overdue' > 0 => Wanted(manifest) /\ now >= DueAt(manifest)
  BY DEF Tick
<1>3. overdue' > 0 => Wanted(manifest)' /\ now' >= DueAt(manifest)'
  <2> SUFFICES ASSUME overdue' > 0 PROVE Wanted(manifest)' /\ now' >= DueAt(manifest)'
    OBVIOUS
  <2>1. Wanted(manifest)'
    BY <1>1, <1>2 DEF Wanted
  <2>2. manifest.applyAfter \in Nat /\ spread \in Nat /\ now \in Nat
    BY <1>t, <1>2 DEF ScheduleTypeOK, Wanted
  <2>3. now >= manifest.applyAfter + spread
    BY <1>2 DEF DueAt
  <2>4. DueAt(manifest)' = manifest.applyAfter + spread
    BY <1>1 DEF DueAt
  <2> QED
    BY <1>1, <2>1, <2>2, <2>3, <2>4
<1>4. CASE window = None
  <2>1. overdue' <= idle'
    BY <1>t, <1>1, <1>2, <1>4 DEF Waited, ScheduleTypeOK
  <2> QED
    BY <1>1, <1>3, <1>4, <2>1 DEF Waited
<1>5. CASE window # None
  <2>1. window \in Windows /\ Length(window) >= MaxGap
    BY <1>t, <1>5 DEF ScheduleTypeOK
  <2> DEFINE m == now % Day
             n == (now + 1) % Day
  <2>2. m \in Minutes /\ n \in Minutes /\ n = IF m = Day - 1 THEN 0 ELSE m + 1
    <3>1. now \in Nat
      BY <1>t DEF ScheduleTypeOK
    <3>2. now + 1 \in Nat
      BY <3>1
    <3>3. m \in Minutes
      BY <3>1, MinuteOfDay, Zenon
    <3>4. n \in Minutes
      BY <3>2, MinuteOfDay, Zenon
    <3>5. n = IF m = Day - 1 THEN 0 ELSE m + 1
      BY <3>1, MinuteOfDay, Zenon
    <3> QED
      BY <3>3, <3>4, <3>5
  <2>3. /\ Open(now) <=> Contains(window, m)
        /\ Open(now)' <=> Contains(window, n)
        /\ SinceOpen = Until(window.start, m) /\ SinceOpen' = Until(window.start, n)
        /\ SinceShut = Until(window.end, m) /\ SinceShut' = Until(window.end, n)
        /\ Shut = Day - Length(window) /\ Shut' = Shut
    BY <1>1, <1>5 DEF Open, SinceOpen, SinceShut, Minute, Shut
  <2> HIDE DEF m, n
  <2>4. /\ Length(window) \in 1..(Day - 1)
        /\ Open(now) => SinceOpen \in 0..(Length(window) - 1)
        /\ ~ Open(now) => SinceShut \in 0..(Day - Length(window) - 1)
        /\ Open(now)' => SinceOpen' \in 0..(Length(window) - 1)
        /\ ~ Open(now)' => SinceShut' \in 0..(Day - Length(window) - 1)
    BY <2>1, <2>2, <2>3, WindowClock
  <2>5. /\ Open(now) /\ Open(now)' => SinceOpen' = SinceOpen + 1
        /\ Open(now) /\ ~ Open(now)' => SinceOpen = Length(window) - 1 /\ SinceShut' = 0
        /\ ~ Open(now) /\ ~ Open(now)' => SinceShut' = SinceShut + 1
        /\ ~ Open(now) /\ Open(now)' =>
              SinceShut = Day - Length(window) - 1 /\ SinceOpen' = 0
    BY <2>1, <2>2, <2>3, WindowStep
  <2>6. /\ idle \in Nat /\ idle + 1 <= MaxGap /\ MaxGap \in Nat /\ overdue \in Nat /\ Day \in Nat
    BY <1>t DEF Tick, ScheduleTypeOK
  <2>7. /\ Open(now) =>
              \/ overdue <= idle
              \/ SinceOpen < idle /\ overdue <= MaxGap + Shut + SinceOpen
        /\ ~ Open(now) => overdue <= MaxGap + SinceShut
    BY <1>t, <1>5 DEF Waited
  <2>8. Open(now)' =>
           \/ overdue' <= idle'
           \/ SinceOpen' < idle' /\ overdue' <= MaxGap + Shut + SinceOpen'
    <3>1. CASE overdue' = 0
      BY <1>1, <2>6, <3>1
    <3>2. CASE overdue' = overdue + 1 /\ Open(now) /\ Open(now)'
      <4>1. SinceOpen \in Nat /\ SinceOpen' = SinceOpen + 1 /\ Shut \in Nat
        BY <2>3, <2>4, <2>5, <3>2
      <4> QED
        BY <1>1, <2>6, <2>7, <3>2, <4>1
    <3>3. CASE overdue' = overdue + 1 /\ ~ Open(now) /\ Open(now)'
      <4>1. SinceShut = Shut - 1 /\ SinceOpen' = 0 /\ Shut \in Nat
        BY <2>3, <2>4, <2>5, <3>3
      <4> QED
        BY <1>1, <2>6, <2>7, <3>3, <4>1
    <3> QED
      BY <1>2, <3>1, <3>2, <3>3
  <2>9. ~ Open(now)' => overdue' <= MaxGap + SinceShut'
    BY <1>1, <1>2, <2>1, <2>4, <2>5, <2>6, <2>7
  <2> QED
    BY <1>1, <1>3, <1>5, <2>3, <2>8, <2>9 DEF Waited
<1> QED
  BY <1>4, <1>5

\* Publishing and installing begin a wait anew.
LEMMA WaitedReset ==
    ASSUME ScheduleTypeOK, ScheduleTypeOK', now' = now, UNCHANGED hostVars, overdue' = 0
    PROVE  Waited'
<1> USE ScheduleAssumption
<1>1. now % Day \in Minutes
  BY MinuteOfDay DEF ScheduleTypeOK
<1>2. window' # None /\ ~ Open(now)' => SinceShut' \in Nat
  <2> SUFFICES ASSUME window' # None, ~ Open(now)' PROVE SinceShut' \in Nat
    OBVIOUS
  <2>1. window \in Windows /\ window' = window
    BY DEF ScheduleTypeOK, hostVars
  <2>2. ~ Contains(window, now % Day)
    BY <2>1 DEF Open
  <2> QED
    BY <1>1, <2>1, <2>2, WindowClock DEF SinceShut, Minute
<1> QED
  BY <1>2 DEF Waited, ScheduleTypeOK

\* Every step keeps the invariant.
LEMMA InvNext == Inv /\ [Next]_vars => Inv'
<1> SUFFICES ASSUME Inv, [Next]_vars PROVE Inv'
  OBVIOUS
<1>t. ScheduleTypeOK /\ ScheduleTypeOK' /\ Waited
  BY TypesStep DEF Inv
<1>1. CASE Publish
  BY <1>t, <1>1, WaitedReset DEF Publish, Inv
<1>2. CASE TimerRun
  <2>1. now' = now /\ UNCHANGED hostVars /\ idle' = 0 /\ manifest' = manifest
    BY <1>2 DEF TimerRun
  <2>2. CASE Wanted(manifest) /\ Passes
    BY <1>t, <1>2, <2>1, <2>2, WaitedReset DEF TimerRun, Install, Inv
  <2>3. CASE ~ (Wanted(manifest) /\ Passes)
    <3>1. UNCHANGED <<installed, failed, overdue>>
      BY <1>2, <2>3 DEF TimerRun
    <3>2. CASE overdue = 0
      BY <1>t, <2>1, <3>1, <3>2, WaitedReset DEF Inv
    <3>3. CASE overdue # 0
      <4>1. Wanted(manifest) /\ now >= DueAt(manifest)
        BY <1>t, <3>3 DEF Waited, ScheduleTypeOK
      <4>2. ~ Open(now)
        BY <2>3, <4>1 DEF Passes
      <4>3. window # None /\ overdue <= MaxGap + SinceShut
        BY <1>t, <4>2 DEF Waited, Open
      <4>4. Wanted(manifest)' /\ now' >= DueAt(manifest)'
        BY <2>1, <3>1, <4>1 DEF Wanted, DueAt, hostVars
      <4>5. SinceShut' = SinceShut /\ ~ Open(now)' /\ window' # None
        BY <2>1, <4>2, <4>3, OnlyTickTells DEF hostVars
      <4> QED
        BY <1>t, <3>1, <4>3, <4>4, <4>5 DEF Waited, Inv
    <3> QED
      BY <3>2, <3>3
  <2> QED
    BY <2>2, <2>3
<1>3. CASE RunNow
  BY <1>t, <1>3, WaitedReset DEF RunNow, Install, Inv
<1>4. CASE Tick
  BY <1>t, <1>4, WaitedTick DEF Inv
<1>5. CASE UNCHANGED vars
  <2>1. UNCHANGED <<now, idle, window, spread, manifest, installed, failed, overdue>>
    BY <1>5 DEF vars, hostVars
  <2>2. SinceOpen' = SinceOpen /\ SinceShut' = SinceShut /\ Open(now)' = Open(now) /\ Shut' = Shut
    BY <2>1, OnlyTickTells
  <2>3. Wanted(manifest)' = Wanted(manifest) /\ DueAt(manifest)' = DueAt(manifest)
    BY <2>1 DEF Wanted, DueAt
  <2> QED
    BY <1>t, <2>1, <2>2, <2>3 DEF Waited, Inv
<1> QED
  BY <1>1, <1>2, <1>3, <1>4, <1>5 DEF Next

\* The invariant holds in every reachable state.
LEMMA InvAlways == Spec => []Inv
BY InvInit, InvNext, PTL DEF Spec

-----------------------------------------------------------------------------
(* The theorems *)

\* A due release is installed, or rolled back and recorded, before it has waited for the
\* whole time the window is shut and two gaps of the timer (update.rs:441-464).
THEOREM NothingMissed == Spec => []TimerMissesNothing
<1>1. Inv => TimerMissesNothing
  <2> SUFFICES ASSUME Inv PROVE TimerMissesNothing
    OBVIOUS
  <2> USE ScheduleAssumption
  <2>t. ScheduleTypeOK /\ Waited
    BY DEF Inv
  <2>1. CASE window = None
    BY <2>t, <2>1 DEF ScheduleTypeOK, Waited, TimerMissesNothing, Shut
  <2>2. CASE window # None
    <3>1. window \in Windows /\ now % Day \in Minutes
      BY <2>t, <2>2, MinuteOfDay DEF ScheduleTypeOK
    <3>2. /\ Length(window) \in 1..(Day - 1) /\ Shut = Day - Length(window)
          /\ Open(now) => SinceOpen \in Nat
          /\ ~ Open(now) => SinceShut \in 0..(Shut - 1)
      BY <2>2, <3>1, WindowClock DEF Open, SinceOpen, SinceShut, Minute, Shut
    <3>3. idle \in 0..MaxGap /\ MaxGap \in Nat \ {0} /\ overdue \in Nat /\ Day \in Nat
      BY <2>t DEF ScheduleTypeOK
    <3>4. /\ Open(now) =>
                \/ overdue <= idle
                \/ SinceOpen < idle /\ overdue <= MaxGap + Shut + SinceOpen
          /\ ~ Open(now) => overdue <= MaxGap + SinceShut
      BY <2>t, <2>2 DEF Waited
    <3> QED
      BY <3>2, <3>3, <3>4 DEF TimerMissesNothing
  <2> QED
    BY <2>1, <2>2
<1> QED
  BY <1>1, InvAlways, PTL

\* Window::contains (update.rs:123) is the interval from the start to the end of every
\* window that Window::parse accepts.
THEOREM WindowIsInterval == Spec => []ContainsIsInterval
<1>1. Inv => ContainsIsInterval
  <2> SUFFICES ASSUME Inv, NEW m \in Minutes, window # None
               PROVE  Contains(window, m) <=> Until(window.start, m) < Until(window.start, window.end)
    BY DEF ContainsIsInterval
  <2>1. window \in Windows
    BY DEF Inv, ScheduleTypeOK
  <2> QED
    BY <2>1, InWindow DEF Length
<1> QED
  BY <1>1, InvAlways, PTL
=============================================================================
