------------------------- MODULE DurableFile_proofs -------------------------
(* Theorems about DurableFile: any set of values, any sequence of saves, failures,
   kills and power losses. *)
EXTENDS DurableFile, TLAPS

\* What a save has done by each step.
Progress ==
    /\ target \in names
    /\ pc # "idle" => data \in tried
    /\ pc = "sync" => tmp.holds = data
    /\ pc = "rename" => tmp = [holds |-> data, synced |-> TRUE]
    /\ pc = "syncdir" => target = [holds |-> data, synced |-> TRUE]

Inv == DurableTypeOK /\ ReadsAreRecent /\ Progress

\* A file that was synced before it got its name survives as it is.
LEMMA SavedFacts ==
    ASSUME NEW file \in SavedFiles
    PROVE  /\ file.synced
           /\ file.holds \in Values \union {Absent}
           /\ file.holds = Absent => file = NoFile
<1>1. CASE file = NoFile
  BY <1>1 DEF NoFile
<1>2. CASE file \in [holds : Values, synced : {TRUE}]
  <2>1. file.synced \in {TRUE} /\ file.holds \in Values
    BY <1>2
  <2> QED BY <2>1, DurableAssumption
<1> QED BY <1>1, <1>2 DEF SavedFiles

\* A synced file survives a power loss as it is.
LEMMA SavedSurvive ==
    ASSUME NEW file \in SavedFiles
    PROVE  Survivors(file) = {file}
  BY SavedFacts DEF Survivors

\* What a power loss makes of a temporary file is a temporary file.
LEMMA TemporarySurvives ==
    ASSUME NEW file \in Temporaries
    PROVE  Survivors(file) \subseteq Temporaries
<1>1. CASE file = NoFile
  BY <1>1 DEF Survivors, Temporaries, NoFile
<1>2. CASE file \in [holds : Values \union {Torn}, synced : BOOLEAN]
  BY <1>2 DEF Survivors, Temporaries
<1> QED BY <1>1, <1>2 DEF Temporaries

\* The first file is a saved one.
LEMMA InitInv == ASSUME Init PROVE Inv
<1>1. target.holds \in Values \union {Absent}
  BY SavedFacts DEF Init
<1>2. DurableTypeOK
  BY <1>1 DEF Init, DurableTypeOK, Temporaries
<1>3. ReadsAreRecent /\ Progress
  BY DEF Init, ReadsAreRecent, Progress
<1> QED BY <1>2, <1>3 DEF Inv

\* Every step, and a power loss at any of them, keeps the saved files saved.
LEMMA NextInv == ASSUME Inv, [Next]_vars PROVE Inv'
<1> USE DEF Inv
<1>1. CASE UNCHANGED vars
  BY <1>1 DEF vars, DurableTypeOK, ReadsAreRecent, Progress
<1>2. ASSUME NEW value \in Values, Save(value) PROVE Inv'
  <2>1. DurableTypeOK' /\ Progress'
    BY <1>2, DurableAssumption DEF Save, DurableTypeOK, Progress
  <2>2. ReadsAreRecent'
    BY <1>2 DEF Save, ReadsAreRecent
  <2> QED BY <2>1, <2>2
<1>3. CASE OpenTemporary
  <2>1. tmp' \in Temporaries
    BY <1>3 DEF OpenTemporary, Temporaries
  <2>2. DurableTypeOK' /\ Progress'
    BY <1>3, <2>1 DEF OpenTemporary, DurableTypeOK, Progress
  <2> QED BY <1>3, <2>2 DEF OpenTemporary, ReadsAreRecent
<1>4. CASE WriteAll
  <2>1. data \in Values
    BY <1>4 DEF WriteAll, DurableTypeOK, Progress
  <2>2. tmp' \in Temporaries /\ tmp'.holds = data
    BY <1>4, <2>1 DEF WriteAll, Temporaries
  <2>3. DurableTypeOK' /\ Progress'
    BY <1>4, <2>2 DEF WriteAll, DurableTypeOK, Progress
  <2> QED BY <1>4, <2>3 DEF WriteAll, ReadsAreRecent
<1>5. CASE SyncFile
  <2>1. tmp.holds = data /\ data \in Values
    BY <1>5 DEF SyncFile, DurableTypeOK, Progress
  <2>2. tmp \in [holds : Values \union {Torn}, synced : BOOLEAN]
    BY <2>1, DurableAssumption DEF DurableTypeOK, Temporaries, NoFile
  <2>3. tmp' = [holds |-> data, synced |-> TRUE]
    BY <1>5, <2>1, <2>2 DEF SyncFile
  <2>4. tmp' \in Temporaries
    BY <2>3, <2>1 DEF Temporaries
  <2>5. DurableTypeOK' /\ Progress'
    BY <1>5, <2>3, <2>4 DEF SyncFile, DurableTypeOK, Progress
  <2> QED BY <1>5, <2>5 DEF SyncFile, ReadsAreRecent
<1>6. CASE Rename
  <2>1. tmp = [holds |-> data, synced |-> TRUE] /\ data \in Values /\ data \in tried
    BY <1>6 DEF Rename, DurableTypeOK, Progress
  <2>2. tmp \in SavedFiles /\ tmp.holds = data
    BY <2>1 DEF SavedFiles
  <2>3. DurableTypeOK'
    BY <1>6, <2>2 DEF Rename, DurableTypeOK, Temporaries
  <2>4. ReadsAreRecent' /\ Progress'
    BY <1>6, <2>1, <2>2 DEF Rename, ReadsAreRecent, Progress
  <2> QED BY <2>3, <2>4
<1>7. CASE SyncDirectory
  <2>1. target.holds = data /\ data \in Values
    BY <1>7 DEF SyncDirectory, DurableTypeOK, Progress
  <2>2. DurableTypeOK'
    BY <1>7, <2>1 DEF SyncDirectory, DurableTypeOK
  <2>3. ReadsAreRecent' /\ Progress'
    BY <1>7, <2>1 DEF SyncDirectory, ReadsAreRecent, Progress
  <2> QED BY <2>2, <2>3
<1>8. CASE Fail
  <2>1. tmp' \in Temporaries
    BY <1>8 DEF Fail, DurableTypeOK, Temporaries
  <2>2. DurableTypeOK' /\ Progress'
    BY <1>8, <2>1 DEF Fail, DurableTypeOK, Progress
  <2> QED BY <1>8, <2>2 DEF Fail, ReadsAreRecent
<1>9. CASE PowerLoss
  <2>1. PICK file \in names : target' \in Survivors(file)
    BY <1>9 DEF PowerLoss
  <2>2. target' = file
    BY <2>1, SavedSurvive DEF DurableTypeOK
  <2>3. tmp' \in Temporaries
    BY <1>9, TemporarySurvives DEF PowerLoss, DurableTypeOK, Temporaries
  <2>4. DurableTypeOK'
    BY <1>9, <2>1, <2>2, <2>3 DEF PowerLoss, DurableTypeOK
  <2>5. ReadsAreRecent' /\ Progress'
    BY <1>9, <2>1, <2>2 DEF PowerLoss, ReadsAreRecent, Progress
  <2> QED BY <2>4, <2>5
<1> QED
  BY <1>1, <1>2, <1>3, <1>4, <1>5, <1>6, <1>7, <1>8, <1>9 DEF Next

\* Every reachable state is well typed: no torn file ever gets the target's name.
THEOREM DurableTypes == Spec => []DurableTypeOK
<1>1. Inv => DurableTypeOK
  BY DEF Inv
<1> QED BY <1>1, InitInv, NextInv, PTL DEF Spec

\* A save that returned Ok is what is read until the next attempt (save_bytes).
THEOREM Durable == Spec => []ReadsAreRecent
<1>1. Inv => ReadsAreRecent
  BY DEF Inv
<1> QED BY <1>1, InitInv, NextInv, PTL DEF Spec

-----------------------------------------------------------------------------
(* The refinement: every step is a step of AtomicFile or a stutter. *)

Safe == UNION {{file.holds : file \in Survivors(f)} : f \in names}

\* On disk there are only whole files, so a reader may find just what they hold.
LEMMA SafeIsHeld ==
    ASSUME names \subseteq SavedFiles
    PROVE  Safe = {f.holds : f \in names}
<1>1. \A f \in names : Survivors(f) = {f}
  BY SavedSurvive
<1>2. \A f \in names : {file.holds : file \in Survivors(f)} = {f.holds}
  BY <1>1
<1> QED BY <1>2 DEF Safe

\* SafeIsHeld, of the state after a step.
LEMMA SafeIsHeldNext ==
    ASSUME names' \subseteq SavedFiles
    PROVE  Safe' = {f.holds : f \in names'}
<1>1. \A f \in SavedFiles : {file.holds : file \in Survivors(f)} = {f.holds}
  <2>1. \A f \in SavedFiles : Survivors(f) = {f}
    BY SavedSurvive
  <2> QED BY <2>1
<1>2. Safe' = UNION {{file.holds : file \in Survivors(f)} : f \in names'}
  BY DEF Safe, Survivors
<1> QED BY <1>1, <1>2

\* Initial states are initial states of AtomicFile.
LEMMA InitImplements == ASSUME Init PROVE Atomic!AtomicInit
<1>1. names = {target} /\ target \in SavedFiles /\ tried = {}
  BY DEF Init
<1>2. Safe = {target.holds}
  BY <1>1, SafeIsHeld
<1>3. target.holds \in Values \union {Absent}
  BY <1>1, SavedFacts
<1> QED BY <1>1, <1>2, <1>3 DEF Atomic!AtomicInit, Safe

\* Every step writes the file at once, is a refused write, or shows nothing.
LEMMA NextImplements ==
    ASSUME Inv, Inv', [Next]_vars
    PROVE  [Atomic!AtomicNext]_(Atomic!atomicVars)
<1> DEFINE shown == target.holds
           ok == tried = {}
<1>0. /\ Safe = {f.holds : f \in names}
      /\ Safe' = {f.holds : f \in names'}
  BY SafeIsHeld, SafeIsHeldNext DEF Inv, DurableTypeOK
<1>1. ASSUME names' = names, target' = target, tried' = tried
      PROVE  UNCHANGED Atomic!atomicVars
  BY <1>0, <1>1 DEF Atomic!atomicVars, Safe
<1>2. ASSUME NEW value \in Values, Save(value) PROVE Atomic!Begin
  <2>1. Safe' = Safe /\ shown' = shown /\ ok' = FALSE
    BY <1>0, <1>2 DEF Save
  <2> QED BY <2>1 DEF Atomic!Begin, Safe
<1>3. CASE Rename
  <2>1. tmp = [holds |-> data, synced |-> TRUE] /\ data \in Values /\ data \in tried
    BY <1>3 DEF Rename, Inv, DurableTypeOK, Progress
  <2>2. target' = tmp /\ names' = names \union {tmp} /\ tried' = tried
    BY <1>3 DEF Rename
  <2>3. shown' = data /\ ~ ok /\ ok' = ok
    BY <2>1, <2>2
  <2>4. Safe' = Safe \union {data}
    BY <1>0, <2>1, <2>2
  <2> QED BY <2>1, <2>3, <2>4 DEF Atomic!AtomicNext, Atomic!Replace, Safe
<1>4. CASE SyncDirectory
  <2>1. Safe' = {shown} /\ shown' = shown /\ ok' = TRUE
    BY <1>0, <1>4 DEF SyncDirectory
  <2> QED BY <2>1 DEF Atomic!AtomicNext, Atomic!Return, Safe
<1>5. CASE PowerLoss
  <2>1. PICK file \in names : target' \in Survivors(file)
    BY <1>5 DEF PowerLoss
  <2>2. target' = file
    BY <2>1, SavedSurvive DEF Inv, DurableTypeOK
  <2>3. shown' \in Safe /\ Safe' = {shown'} /\ ok' = ok
    BY <1>0, <1>5, <2>1, <2>2 DEF PowerLoss
  <2> QED BY <2>3 DEF Atomic!AtomicNext, Atomic!Lose, Safe
<1>6. CASE UNCHANGED vars
  BY <1>1, <1>6 DEF vars
<1>7. CASE OpenTemporary \/ WriteAll \/ SyncFile \/ Fail
  BY <1>1, <1>7 DEF OpenTemporary, WriteAll, SyncFile, Fail
<1> QED
  BY <1>2, <1>3, <1>4, <1>5, <1>6, <1>7 DEF Next, Atomic!AtomicNext

\* write_durably is one atomic replacement of the file, durable once save returns Ok.
THEOREM Refinement == Spec => ImplementsAtomicFile
<1>1. Inv /\ Inv' /\ [Next]_vars => [Atomic!AtomicNext]_(Atomic!atomicVars)
  BY NextImplements
<1>2. Init => Atomic!AtomicInit
  BY InitImplements
<1> QED
  BY <1>1, <1>2, InitInv, NextInv, PTL DEF Spec, ImplementsAtomicFile, Atomic!AtomicSpec
=============================================================================
