--------------------------- MODULE ReleaseSchedule ---------------------------
(***************************************************************************)
(* When a run of the updater installs the release it finds published       *)
(* (run, src/src/update.rs:403-464): its sequence, the apply-after time    *)
(* and this host's spread, the maintenance window, and the timer.  What    *)
(* installing does is Updater; here it succeeds or the release is recorded *)
(* as failed.  "Fault:" operators are mistakes the properties must notice. *)
(***************************************************************************)
EXTENDS Integers

CONSTANTS
    Day,         \* minutes of a day
    MaxGap,      \* the longest time between two runs of the timer
    Spreads,     \* delays that spread_seconds may give a host
    Sequences,   \* sequences of signed manifests
    Delays,      \* apply-after times of manifests, from their publication
    MaxTime,     \* bound
    None

ASSUME ScheduleAssumption ==
    /\ Day \in Nat \ {0}
    /\ MaxGap \in Nat \ {0}
    /\ MaxGap <= Day
    /\ Spreads \union Delays \subseteq Nat
    /\ Sequences \subseteq Nat \ {0}
    /\ MaxTime \in Nat

VARIABLES
    now,        \* the wall clock, in minutes
    idle,       \* time since the timer's last run
    window,     \* UPDATE_WINDOW, or None
    spread,     \* spread_seconds of this host
    manifest,   \* the latest published manifest, or None
    installed,  \* the sequence in release.json
    failed,     \* the sequences in update-failed.json
    overdue     \* history: how long the manifest could have been installed

hostVars == <<window, spread>>
vars == <<now, idle, hostVars, manifest, installed, failed, overdue>>

Minutes == 0..(Day - 1)

\* Window::parse refuses an empty window.
Windows == {w \in [start: Minutes, end: Minutes] : w.start # w.end}

Contains(w, minute) ==
    \/ w.start < w.end /\ w.start <= minute /\ minute < w.end
    \/ w.start >= w.end /\ (minute >= w.start \/ minute < w.end)

\* Minutes from one time of day to the next occurrence of another.
Until(from, to) == IF from <= to THEN to - from ELSE to + Day - from

Length(w) == Until(w.start, w.end)

Open(time) == window # None => Contains(window, time % Day)

\* Only windows that the timer cannot step over: see TimerMissesNothing.
Init ==
    /\ now \in Minutes
    /\ idle \in 0..MaxGap
    /\ window \in {None} \union {w \in Windows : Length(w) >= MaxGap}
    /\ spread \in Spreads
    /\ manifest = None
    /\ installed = 0
    /\ failed = {}
    /\ overdue = 0

DueAt(m) == m.applyAfter + spread

Wanted(m) == m # None /\ m.sequence > installed /\ m.sequence \notin failed

\* Any signed manifest may be the latest, an older one again as well.
Publish ==
    /\ \E seq \in Sequences, delay \in Delays :
          manifest' = [sequence |-> seq, applyAfter |-> now + delay]
    /\ overdue' = 0
    /\ UNCHANGED <<now, idle, hostVars, installed, failed>>

\* Fault: the window is asked about the due time and not about now.
PassesAtDue == now >= DueAt(manifest) /\ Open(DueAt(manifest))

Passes == now >= DueAt(manifest) /\ Open(now)

\* Installed, or rolled back and recorded.
Install ==
    /\ \/ installed' = manifest.sequence /\ UNCHANGED failed
       \/ failed' = failed \union {manifest.sequence} /\ UNCHANGED installed
    /\ overdue' = 0

\* A run of the timer that reads the manifest.
TimerRun ==
    /\ idle > 0
    /\ idle' = 0
    /\ IF Wanted(manifest) /\ Passes THEN Install ELSE UNCHANGED <<installed, failed, overdue>>
    /\ UNCHANGED <<now, hostVars, manifest>>

\* update --now: the schedule is ignored, and nothing else.
RunNow ==
    /\ Wanted(manifest)
    /\ Install
    /\ UNCHANGED <<now, idle, hostVars, manifest>>

Tick ==
    /\ now < MaxTime
    /\ idle < MaxGap
    /\ now' = now + 1
    /\ idle' = idle + 1
    /\ overdue' = IF Wanted(manifest) /\ now >= DueAt(manifest) THEN overdue + 1 ELSE 0
    /\ UNCHANGED <<hostVars, manifest, installed, failed>>

Next == Publish \/ TimerRun \/ RunNow \/ Tick

Spec == Init /\ [][Next]_vars

-----------------------------------------------------------------------------
(* Properties *)

\* How long the window can stay shut.
Shut == IF window = None THEN 0 ELSE Day - Length(window)

\* A release that is due is installed by the first run of the timer in the window, on
\* the same or the next day, also when the window wraps midnight or the spread pushes
\* the due time past its end (update.rs:123, 441-464): it may wait for the window to
\* open, and at its end and its opening for the timer.
TimerMissesNothing == overdue < Shut + 2 * MaxGap

\* Window::contains against its meaning: the minutes from start up to end, midnight or
\* not.
ContainsIsInterval ==
    \A minute \in Minutes :
        window # None =>
            (Contains(window, minute)
                <=> Until(window.start, minute) < Until(window.start, window.end))
=============================================================================
