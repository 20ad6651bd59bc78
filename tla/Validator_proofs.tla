-------------------------- MODULE Validator_proofs --------------------------
(***************************************************************************)
(* Proofs about module Validator for any number of runners, epochs and     *)
(* blocks, any mortality, rate limit and node lag.                         *)
(*                                                                         *)
(* The argument.  LockHeld makes the active run unique, so only it and the *)
(* chain move.  CheckPending compares the record's expiry with a snapshot  *)
(* that is not ahead of the chain: by InFlightIsGuarded everything in the  *)
(* pool has then expired, and the pool is empty until the run broadcasts   *)
(* (Alone).  That yields AtMostOneInFlight.                                *)
(***************************************************************************)
EXTENDS Validator, TLAPS

-----------------------------------------------------------------------------
(* The inductive invariant *)

\* The active run is the holder of the lock.
LockHeld == \A r \in Runners : pc[r] # "idle" <=> lock = r

\* A run past FetchSummary holds a summary of an epoch that ended by its snapshot.
Fetched ==
    \A r \in Runners :
        pc[r] \notin {"idle", "snapshot", "fetch"} =>
            /\ summary[r].end \in EpochEnds
            /\ summary[r].id \in Ids
            /\ summary[r].end <= snap[r]

\* No run has read a block that is not finalized yet.
SnapshotsBehind == \A r \in Runners : snap[r] <= head

\* The pool holds what the next block may hold, with nonces not used yet.
PoolIsLive == \A x \in pool : InEra(x, head + 1) /\ nonce <= x.nonce

UsedNonces == \A i \in included : i.tx.nonce < nonce

\* From check_pending to the end of the submission the run has the pool to itself.
Alone ==
    \A r \in Runners :
        /\ pc[r] \in {"sign", "guard", "send", "clear"} => pool = {}
        /\ pc[r] \in {"guard", "send"} => nonce <= txNonce[r]
        /\ pc[r] = "send" => pending = snap[r] + Mortality
        /\ pc[r] = "watch" => pool \subseteq {Tx(r)}

TypeInv == ValidatorTypeOK /\ Fetched

SubmissionInv ==
    /\ LockHeld
    /\ SnapshotsBehind
    /\ PoolIsLive
    /\ UsedNonces
    /\ Alone
    /\ AtMostOneInFlight
    /\ InFlightIsGuarded

-----------------------------------------------------------------------------
(* Type correctness *)

\* Every initial state is well typed.
LEMMA TypeInit == ValidatorInit => TypeInv
  BY ChainAssumption, ValidatorAssumption
  DEF ValidatorInit, Init, TypeInv, ValidatorTypeOK, TypeOK, Fetched, State,
      Summary, FreshState, NoSummary, NoBlock, Steps

\* The chain's own steps keep the types of its variables.
LEMMA ChainType == TypeOK /\ ChainNext => TypeOK'
  <1> SUFFICES ASSUME TypeOK, ChainNext PROVE TypeOK'
    OBVIOUS
  <1>1. CASE EmptyBlock
    BY <1>1 DEF EmptyBlock, StillValid, TypeOK
  <1>2. ASSUME NEW x \in pool, NEW ok \in BOOLEAN, IncludeBlock(x, ok)
        PROVE  TypeOK'
    BY <1>2 DEF IncludeBlock, StillValid, TypeOK, Inclusion
  <1> QED
    BY <1>1, <1>2 DEF ChainNext

\* Every step of a run, of the chain or of the file system keeps the types.
LEMMA TypeStep == TypeInv /\ [Next]_vars => TypeInv'
  <1> SUFFICES ASSUME TypeInv, [Next]_vars PROVE TypeInv'
    OBVIOUS
  <1> USE ChainAssumption, ValidatorAssumption DEF TypeInv, ValidatorTypeOK, Fetched
  <1>1. ASSUME NEW r \in Runners, TakeLock(r) PROVE TypeInv'
    BY <1>1 DEF TakeLock, Goto, chainVars, fileVars, TypeOK, Steps
  <1>2. ASSUME NEW r \in Runners, ReadSnapshot(r) PROVE TypeInv'
    BY <1>2 DEF ReadSnapshot, Goto, chainVars, fileVars, TypeOK, Steps
  <1>3. ASSUME NEW r \in Runners, FetchSummary(r) PROVE TypeInv'
    BY <1>3 DEF FetchSummary, Goto, chainVars, fileVars, TypeOK, Steps, Summary, IsLastStep
  <1>4. ASSUME NEW r \in Runners, LoadState(r) PROVE TypeInv'
    BY <1>4 DEF LoadState, Goto, chainVars, fileVars, TypeOK, Steps
  <1>5. ASSUME NEW r \in Runners, SaveSummary(r) PROVE TypeInv'
    BY <1>5 DEF SaveSummary, Goto, chainVars, TypeOK, Steps, State, Summary
  <1>6. ASSUME NEW r \in Runners, EndRun(r), UNCHANGED <<chainVars, pending>>,
               state' \in State
        PROVE  TypeInv'
    BY <1>6 DEF EndRun, Goto, chainVars, TypeOK, Steps, State, Summary, FreshState,
       NoSummary, NoBlock
  <1>7. ASSUME NEW r \in Runners, AlreadyOnChain(r) PROVE TypeInv'
    BY <1>7 DEF AlreadyOnChain, Goto, chainVars, fileVars, TypeOK, Steps
  <1>8. ASSUME NEW r \in Runners, StartSubmit(r) PROVE TypeInv'
    BY <1>8 DEF StartSubmit, Goto, chainVars, fileVars, TypeOK, Steps
  <1>9. ASSUME NEW r \in Runners, CheckPending(r) PROVE TypeInv'
    BY <1>9 DEF CheckPending, Goto, chainVars, fileVars, TypeOK, Steps
  <1>10. ASSUME NEW r \in Runners, Sign(r) PROVE TypeInv'
    BY <1>10 DEF Sign, Goto, chainVars, fileVars, TypeOK, Steps, Extrinsic
  <1>11. ASSUME NEW r \in Runners, SavePending(r) PROVE TypeInv'
    BY <1>11 DEF SavePending, ExpiresAt, Goto, chainVars, TypeOK, Steps
  <1>12. ASSUME NEW r \in Runners, Broadcast(r) PROVE TypeInv'
    BY <1>12 DEF Broadcast, Tx, Goto, fileVars, TypeOK, Steps, Extrinsic
  <1>13. ASSUME NEW r \in Runners, SeeSuccess(r) PROVE TypeInv'
    BY <1>13 DEF SeeSuccess, Goto, chainVars, fileVars, TypeOK, Steps
  <1>14. ASSUME NEW r \in Runners, ClearPending(r) PROVE TypeInv'
    BY <1>14 DEF ClearPending, NoBlock, Goto, chainVars, TypeOK, Steps
  <1>15. ASSUME NEW r \in Runners, RecordBurn(r) PROVE TypeInv'
    <2>1. state' \in State
      BY <1>15 DEF RecordBurn, State, Summary
    <2> QED
      BY <1>6, <1>15, <2>1 DEF RecordBurn
  <1>16. ASSUME NEW r \in Runners, NothingToDo(r) \/ Abort(r) PROVE TypeInv'
    BY <1>6, <1>16 DEF NothingToDo, Abort, fileVars
  <1>17. CASE ChainNext /\ UNCHANGED <<lock, fileVars, runVars>>
    BY <1>17, ChainType DEF fileVars, runVars
  <1>18. CASE LoseState
    BY <1>18 DEF LoseState, chainVars, runVars, TypeOK, State, FreshState, NoBlock
  <1>19. CASE UNCHANGED vars
    BY <1>19 DEF vars, chainVars, fileVars, runVars, TypeOK
  <1> QED
    BY <1>1, <1>2, <1>3, <1>4, <1>5, <1>7, <1>8, <1>9, <1>10, <1>11, <1>12, <1>13,
       <1>14, <1>15, <1>16, <1>17, <1>18, <1>19 DEF Next, Progress

\* In every reachable state the files, the runs and the chain are well typed.
THEOREM TypeCorrect == Spec => []ValidatorTypeOK
  <1>1. TypeInv => ValidatorTypeOK
    BY DEF TypeInv
  <1> QED
    BY TypeInit, TypeStep, <1>1, PTL DEF Spec

-----------------------------------------------------------------------------
(* One extrinsic in flight, always covered by the record on disk *)

Inv == TypeInv /\ SubmissionInv

\* The submission invariant holds of every initial state.
LEMMA SubmissionInit == ValidatorInit => SubmissionInv
  BY ValidatorAssumption, ChainAssumption
  DEF ValidatorInit, Init, SubmissionInv, LockHeld, SnapshotsBehind, PoolIsLive,
      UsedNonces, Alone, AtMostOneInFlight, InFlightIsGuarded, NoBlock

\* A run that gets past check_pending finds the pool empty: the extrinsics in it are
\* covered by the record, and the record has expired by a block the chain has reached.
LEMMA PassedCheck ==
  ASSUME Inv, NEW r \in Runners, ~ Uncertain(snap[r])
  PROVE  pool = {}
  <1> SUFFICES ASSUME NEW x \in pool PROVE FALSE
    OBVIOUS
  <1>1. x.birth \in Nat /\ head \in Nat /\ pending \in Nat /\ snap[r] \in Nat
    BY DEF Inv, TypeInv, ValidatorTypeOK, TypeOK, Extrinsic
  <1>2. x.birth + Mortality <= pending /\ head + 1 < x.birth + Mortality
    BY DEF Inv, SubmissionInv, InFlightIsGuarded, PoolIsLive, InEra
  <1>3. pending = NoBlock \/ pending <= snap[r]
    BY <1>1 DEF Uncertain, NoBlock
  <1>4. snap[r] <= head
    BY DEF Inv, SubmissionInv, SnapshotsBehind
  <1> QED
    BY <1>1, <1>2, <1>3, <1>4, ChainAssumption DEF NoBlock

\* What the network has finalized is no longer in its pool.
LEMMA SucceededLeftPool ==
  ASSUME Inv, NEW r \in Runners, pc[r] = "watch", Succeeded(Tx(r))
  PROVE  pool = {}
  <1>1. PICK i \in included : i.tx = Tx(r)
    BY DEF Succeeded
  <1>2. Tx(r).nonce < nonce
    BY <1>1 DEF Inv, SubmissionInv, UsedNonces
  <1>3. Tx(r) \notin pool
    <2> SUFFICES ASSUME Tx(r) \in pool PROVE FALSE
      OBVIOUS
    <2>1. Tx(r).nonce \in Nat /\ nonce \in Nat
      BY DEF Inv, TypeInv, ValidatorTypeOK, TypeOK, Extrinsic
    <2>2. nonce <= Tx(r).nonce
      BY DEF Inv, SubmissionInv, PoolIsLive
    <2> QED
      BY <1>2, <2>1, <2>2
  <1> QED
    BY <1>3 DEF Inv, SubmissionInv, Alone

\* The end of a run, however it comes about, keeps the submission invariant.
LEMMA EndRunKeeps ==
  ASSUME Inv, NEW r \in Runners, pc[r] # "idle", EndRun(r), UNCHANGED <<chainVars, pending>>
  PROVE  SubmissionInv'
  <1> USE ValidatorAssumption DEF Inv, TypeInv, ValidatorTypeOK, TypeOK, SubmissionInv
  <1>1. chainVars' = chainVars /\ pending' = pending
    OBVIOUS
  <1>2. \A q \in Runners : pc'[q] = "idle"
    BY DEF EndRun, Goto, LockHeld
  <1>3. \A q \in Runners : snap'[q] \in {snap[q], NoBlock}
    BY DEF EndRun
  <1>4. LockHeld'
    BY <1>2 DEF EndRun, LockHeld
  <1>5. SnapshotsBehind'
    BY <1>1, <1>3 DEF SnapshotsBehind, chainVars, NoBlock
  <1>6. Alone'
    BY <1>2 DEF Alone
  <1> QED
    BY <1>1, <1>4, <1>5, <1>6
    DEF chainVars, PoolIsLive, UsedNonces, AtMostOneInFlight, InFlightIsGuarded, InEra

\* So does a step of a run that writes neither the pool, the submission record nor the
\* nonces: it moves to a step that claims no more than the one it leaves.
LEMMA QuietStepKeeps ==
  ASSUME Inv, NEW r \in Runners, NEW step \in Steps, pc[r] # "idle", Goto(r, step),
         UNCHANGED <<chainVars, lock, pending, txNonce, snap, summary>>,
         step \notin {"watch", "guard", "send"},
         step \in {"sign", "clear"} => pool = {}
  PROVE  SubmissionInv'
  <1> USE DEF Inv, TypeInv, ValidatorTypeOK, SubmissionInv
  <1>1. LockHeld'
    BY DEF LockHeld, Goto, Steps
  <1>2. \A q \in Runners : Tx(q)' = Tx(q)
    BY DEF Tx
  <1>3. Alone'
    BY <1>2 DEF Alone, Goto, chainVars
  <1> QED
    BY <1>1, <1>3
    DEF chainVars, SnapshotsBehind, PoolIsLive, UsedNonces, AtMostOneInFlight,
        InFlightIsGuarded, InEra

\* A finalized block takes extrinsics out of the pool and never adds one.
LEMMA ChainKeeps ==
  ASSUME Inv, ChainNext, UNCHANGED <<lock, fileVars, runVars>>
  PROVE  SubmissionInv' /\ pool' \subseteq pool
  <1> USE ChainAssumption
      DEF Inv, TypeInv, ValidatorTypeOK, TypeOK, SubmissionInv, fileVars, runVars
  <1>1. \A r \in Runners : Tx(r)' = Tx(r)
    BY DEF Tx
  <1>2. LockHeld'
    BY DEF LockHeld
  <1>3. CASE EmptyBlock
    <2>1. /\ pool' \subseteq pool
          /\ head' = head + 1
          /\ UNCHANGED <<nonce, included>>
      BY <1>3 DEF EmptyBlock, StillValid
    <2>2. PoolIsLive'
      BY <1>3 DEF EmptyBlock, StillValid, PoolIsLive, InEra
    <2>3. SnapshotsBehind' /\ UsedNonces' /\ AtMostOneInFlight' /\ InFlightIsGuarded'
      BY <2>1 DEF SnapshotsBehind, UsedNonces, AtMostOneInFlight, InFlightIsGuarded
    <2>4. Alone'
      BY <1>1, <2>1 DEF Alone
    <2> QED
      BY <1>2, <2>1, <2>2, <2>3, <2>4
  <1>4. ASSUME NEW x \in pool, NEW ok \in BOOLEAN, IncludeBlock(x, ok)
        PROVE  SubmissionInv' /\ pool' \subseteq pool
    <2>1. /\ pool' = {}
          /\ head' = head + 1
          /\ nonce' = nonce + 1
          /\ x.nonce = nonce
      BY <1>4 DEF IncludeBlock, StillValid, AtMostOneInFlight
    <2>2. UsedNonces'
      BY <1>4, <2>1 DEF IncludeBlock, UsedNonces, Inclusion, Extrinsic
    <2>3. SnapshotsBehind'
      BY <2>1 DEF SnapshotsBehind
    <2>4. Alone'
      \* a run that has signed has found the pool empty: x is not there to include
      BY <1>1, <2>1 DEF Alone
    <2> QED
      BY <1>2, <2>1, <2>2, <2>3, <2>4 DEF PoolIsLive, AtMostOneInFlight, InFlightIsGuarded
  <1> QED
    BY <1>3, <1>4 DEF ChainNext

\* Every step keeps the submission invariant.
LEMMA SubmissionStep == Inv /\ [Next]_vars => SubmissionInv'
  <1> SUFFICES ASSUME Inv, [Next]_vars PROVE SubmissionInv'
    OBVIOUS
  <1> USE ChainAssumption, ValidatorAssumption
  <1>1. ASSUME NEW r \in Runners, TakeLock(r) PROVE SubmissionInv'
    <2> USE DEF Inv, TypeInv, ValidatorTypeOK, SubmissionInv
    <2>1. \A q \in Runners : pc[q] = "idle"
      BY <1>1 DEF TakeLock, LockIsFree, LockHeld
    <2>2. LockHeld' /\ Alone'
      BY <1>1, <2>1 DEF TakeLock, Goto, LockHeld, Alone
    <2> QED
      BY <1>1, <2>2 DEF TakeLock, chainVars, fileVars, SnapshotsBehind, PoolIsLive,
         UsedNonces, AtMostOneInFlight, InFlightIsGuarded, InEra
  <1>2. ASSUME NEW r \in Runners, ReadSnapshot(r) PROVE SubmissionInv'
    <2> USE DEF Inv, TypeInv, ValidatorTypeOK, TypeOK, SubmissionInv
    <2>1. LockHeld' /\ SnapshotsBehind'
      BY <1>2 DEF ReadSnapshot, Goto, chainVars, LockHeld, SnapshotsBehind
    <2>2. Alone'
      BY <1>2 DEF ReadSnapshot, Goto, chainVars, fileVars, Alone, LockHeld, Tx
    <2> QED
      BY <1>2, <2>1, <2>2 DEF ReadSnapshot, chainVars, fileVars, PoolIsLive,
         UsedNonces, AtMostOneInFlight, InFlightIsGuarded, InEra
  <1>3. ASSUME NEW r \in Runners, FetchSummary(r) PROVE SubmissionInv'
    <2> USE DEF Inv, TypeInv, ValidatorTypeOK, TypeOK, SubmissionInv
    <2>1. LockHeld'
      BY <1>3 DEF FetchSummary, Goto, LockHeld
    <2>2. Alone'
      BY <1>3 DEF FetchSummary, Goto, chainVars, fileVars, Alone, LockHeld, Tx
    <2> QED
      BY <1>3, <2>1, <2>2 DEF FetchSummary, chainVars, fileVars, SnapshotsBehind,
         PoolIsLive, UsedNonces, AtMostOneInFlight, InFlightIsGuarded, InEra
  <1>4. ASSUME NEW r \in Runners, LoadState(r) PROVE SubmissionInv'
    BY <1>4, QuietStepKeeps DEF LoadState, chainVars, fileVars, Steps
  <1>5. ASSUME NEW r \in Runners, SaveSummary(r) PROVE SubmissionInv'
    BY <1>5, QuietStepKeeps DEF SaveSummary, Steps
  <1>6. ASSUME NEW r \in Runners, AlreadyOnChain(r) PROVE SubmissionInv'
    BY <1>6, QuietStepKeeps DEF AlreadyOnChain, fileVars, Steps
  <1>7. ASSUME NEW r \in Runners, StartSubmit(r) PROVE SubmissionInv'
    BY <1>7, QuietStepKeeps DEF StartSubmit, fileVars, Steps
  <1>8. ASSUME NEW r \in Runners, CheckPending(r) PROVE SubmissionInv'
    <2>1. pool = {}
      BY <1>8, PassedCheck DEF CheckPending
    <2> QED
      BY <1>8, <2>1, QuietStepKeeps DEF CheckPending, fileVars, Steps
  <1>9. ASSUME NEW r \in Runners, Sign(r) PROVE SubmissionInv'
    <2> USE DEF Inv, TypeInv, ValidatorTypeOK, TypeOK, SubmissionInv
    <2>1. pool = {}
      BY <1>9 DEF Sign, Alone
    <2>2. LockHeld'
      BY <1>9 DEF Sign, Goto, LockHeld
    <2>3. \A q \in Runners : q # r => pc[q] = "idle"
      BY <1>9 DEF Sign, LockHeld
    <2>4. Alone'
      BY <1>9, <2>1, <2>3 DEF Sign, Goto, chainVars, fileVars, Alone
    <2> QED
      BY <1>9, <2>2, <2>4 DEF Sign, chainVars, fileVars, SnapshotsBehind, PoolIsLive,
         UsedNonces, AtMostOneInFlight, InFlightIsGuarded, InEra
  <1>10. ASSUME NEW r \in Runners, SavePending(r) PROVE SubmissionInv'
    <2> USE DEF Inv, TypeInv, ValidatorTypeOK, TypeOK, SubmissionInv
    <2>1. pool = {}
      BY <1>10 DEF SavePending, Alone
    <2>2. LockHeld'
      BY <1>10 DEF SavePending, Goto, LockHeld
    <2>3. \A q \in Runners : q # r => pc[q] = "idle"
      BY <1>10 DEF SavePending, LockHeld
    <2>4. Alone'
      BY <1>10, <2>1, <2>3 DEF SavePending, ExpiresAt, Goto, chainVars, Alone
    <2> QED
      BY <1>10, <2>1, <2>2, <2>4 DEF SavePending, chainVars, SnapshotsBehind,
         PoolIsLive, UsedNonces, AtMostOneInFlight, InFlightIsGuarded, InEra
  <1>11. ASSUME NEW r \in Runners, Broadcast(r) PROVE SubmissionInv'
    <2> USE DEF Inv, TypeInv, ValidatorTypeOK, TypeOK, SubmissionInv
    <2>1. pool' = {Tx(r)}
      BY <1>11 DEF Broadcast, Alone
    <2>2. /\ Tx(r).birth + Mortality <= pending
          /\ InEra(Tx(r), head + 1)
          /\ nonce <= Tx(r).nonce
      BY <1>11 DEF Broadcast, Alone, Tx
    <2>3. LockHeld'
      BY <1>11 DEF Broadcast, Goto, LockHeld
    <2>4. \A q \in Runners : q # r => pc[q] = "idle"
      BY <1>11 DEF Broadcast, LockHeld
    <2>5. \A q \in Runners : Tx(q)' = Tx(q)
      BY <1>11 DEF Broadcast, Tx
    <2>6. Alone'
      BY <1>11, <2>1, <2>4, <2>5 DEF Broadcast, Goto, Alone
    <2>7. PoolIsLive' /\ AtMostOneInFlight' /\ InFlightIsGuarded'
      BY <1>11, <2>1, <2>2 DEF Broadcast, fileVars, PoolIsLive, AtMostOneInFlight,
         InFlightIsGuarded, InEra
    <2> QED
      BY <1>11, <2>3, <2>6, <2>7 DEF Broadcast, SnapshotsBehind, UsedNonces
  <1>12. ASSUME NEW r \in Runners, SeeSuccess(r) PROVE SubmissionInv'
    <2>1. pool = {}
      BY <1>12, SucceededLeftPool DEF SeeSuccess
    <2> QED
      BY <1>12, <2>1, QuietStepKeeps DEF SeeSuccess, fileVars, Steps
  <1>13. ASSUME NEW r \in Runners, ClearPending(r) PROVE SubmissionInv'
    <2> USE DEF Inv, TypeInv, ValidatorTypeOK, TypeOK, SubmissionInv
    <2>1. pool = {}
      BY <1>13 DEF ClearPending, Alone
    <2>2. LockHeld'
      BY <1>13 DEF ClearPending, Goto, LockHeld
    <2>3. \A q \in Runners : q # r => pc[q] = "idle"
      BY <1>13 DEF ClearPending, LockHeld
    <2>4. Alone'
      BY <1>13, <2>1, <2>3 DEF ClearPending, Goto, chainVars, Alone
    <2> QED
      BY <1>13, <2>1, <2>2, <2>4 DEF ClearPending, chainVars, SnapshotsBehind,
         PoolIsLive, UsedNonces, AtMostOneInFlight, InFlightIsGuarded, InEra
  <1>14. ASSUME NEW r \in Runners, RecordBurn(r) \/ NothingToDo(r) \/ Abort(r)
         PROVE  SubmissionInv'
    BY <1>14, EndRunKeeps DEF RecordBurn, NothingToDo, Abort, fileVars
  <1>15. CASE ChainNext /\ UNCHANGED <<lock, fileVars, runVars>>
    BY <1>15, ChainKeeps
  <1>16. CASE LoseState \/ UNCHANGED vars
    <2>1. UNCHANGED <<chainVars, lock, pending, runVars>>
      BY <1>16 DEF LoseState, vars, fileVars
    <2>2. \A r \in Runners : Tx(r)' = Tx(r)
      BY <2>1 DEF Tx, runVars
    <2> QED
      BY <2>1, <2>2 DEF Inv, SubmissionInv, chainVars, runVars, LockHeld,
         SnapshotsBehind, PoolIsLive, UsedNonces, Alone, AtMostOneInFlight,
         InFlightIsGuarded, InEra
  <1> QED
    BY <1>1, <1>2, <1>3, <1>4, <1>5, <1>6, <1>7, <1>8, <1>9, <1>10, <1>11, <1>12,
       <1>13, <1>14, <1>15, <1>16 DEF Next, Progress

\* The inductive invariant holds in every reachable state.
THEOREM Invariance == Spec => []Inv
  <1>1. ValidatorInit => Inv
    BY TypeInit, SubmissionInit DEF Inv
  <1>2. Inv /\ [Next]_vars => Inv'
    BY TypeStep, SubmissionStep DEF Inv
  <1> QED
    BY <1>1, <1>2, PTL DEF Spec

\* However runs, crashes, timeouts, lagging nodes and lost state files interleave, the
\* network never holds two extrinsics of this hotkey that can both still execute.
THEOREM OneInFlight == Spec => []AtMostOneInFlight
  <1>1. Inv => AtMostOneInFlight
    BY DEF Inv, SubmissionInv
  <1> QED
    BY Invariance, <1>1, PTL

\* An extrinsic that can still execute is covered by the submission record on disk.
THEOREM Guarded == Spec => []InFlightIsGuarded
  <1>1. Inv => InFlightIsGuarded
    BY DEF Inv, SubmissionInv
  <1> QED
    BY Invariance, <1>1, PTL

-----------------------------------------------------------------------------
(***************************************************************************)
(* What the state file says, for every value of the constants.             *)
(*                                                                         *)
(* The run that holds the lock is the only writer of the state file, so    *)
(* from LoadState on its own copy is the file (CopyIsFile).  A burn is     *)
(* recorded by a run that has seen LastUpdate past its epoch, or its own   *)
(* extrinsic succeed in a block past its snapshot (SettledRuns).           *)
(***************************************************************************)

Later == {"burn", "check", "sign", "guard", "send", "watch", "clear", "record"}

\* Extrinsics execute inside their era, in blocks that are finalized.
InclusionsInEra ==
    \A i \in included : InEra(i.tx, i.block) /\ i.block <= head

CopyIsFile ==
    \A r \in Runners :
        /\ pc[r] \in Later \union {"score"} => saved[r] = state
        /\ pc[r] = "score" => state.end < summary[r].end
        /\ pc[r] \in Later => state.end = summary[r].end /\ state.id = summary[r].id

SettledRuns ==
    \A r \in Runners :
        pc[r] \in {"clear", "record"} => UpdatedSince(summary[r].end, head)

RecordInv ==
    /\ InclusionsInEra
    /\ CopyIsFile
    /\ SettledRuns
    /\ StateLoadable
    /\ RecordedMeansUpdated

\* The block of a recorded burn is a number.
LEMMA BurnIsBlock == ASSUME Inv PROVE state.burn \in Nat
  <1>1. state.burn \in EpochEnds \union {NoBlock}
    BY DEF Inv, TypeInv, ValidatorTypeOK, State
  <1>2. \A b \in EpochEnds \union {NoBlock} : b \in Nat
    BY ChainAssumption DEF NoBlock
  <1> QED
    BY <1>1, <1>2

\* LastUpdate never moves back.
LEMMA UpdatedSinceGrows ==
  ASSUME Inv, NEW b \in Nat, NEW at \in Nat, UpdatedSince(b, at),
         head' \in Nat, at <= head', included \subseteq included'
  PROVE  UpdatedSince(b, head)'
  BY DEF UpdatedSince, Inv, TypeInv, ValidatorTypeOK, TypeOK, Inclusion

\* Only the chain's own steps produce blocks.
LEMMA OnlyTheChainIncludes ==
  ASSUME [Next]_vars
  PROVE  ChainNext \/ (head' = head /\ nonce' = nonce /\ included' = included)
  <1>1. ASSUME NEW r \in Runners, Progress(r)
        PROVE  head' = head /\ nonce' = nonce /\ included' = included
    BY <1>1 DEF Progress, TakeLock, ReadSnapshot, FetchSummary, LoadState, SaveSummary,
       NothingToDo, AlreadyOnChain, StartSubmit, CheckPending, Sign, SavePending,
       Broadcast, SeeSuccess, ClearPending, RecordBurn, chainVars
  <1>2. ASSUME NEW r \in Runners, Abort(r)
        PROVE  head' = head /\ nonce' = nonce /\ included' = included
    BY <1>2 DEF Abort, chainVars
  <1> QED
    BY <1>1, <1>2 DEF Next, LoseState, vars, chainVars

\* Blocks only move the finalized head on and only add inclusions.
LEMMA ChainGrows ==
  ASSUME Inv, [Next]_vars
  PROVE  /\ head \in Nat /\ head' \in Nat /\ head <= head'
         /\ included \subseteq included'
  <1>1. head \in Nat
    BY DEF Inv, TypeInv, ValidatorTypeOK, TypeOK
  <1>2. CASE EmptyBlock
    BY <1>1, <1>2 DEF EmptyBlock
  <1>3. ASSUME NEW x \in pool, NEW ok \in BOOLEAN, IncludeBlock(x, ok)
        PROVE  head' = head + 1 /\ included \subseteq included'
    BY <1>3 DEF IncludeBlock
  <1>4. CASE head' = head /\ nonce' = nonce /\ included' = included
    BY <1>1, <1>4
  <1> QED
    BY <1>1, <1>2, <1>3, <1>4, OnlyTheChainIncludes DEF ChainNext

\* It holds at the start: no file and no extrinsic.
LEMMA RecordInit == ValidatorInit => RecordInv
  BY ChainAssumption, ValidatorAssumption
  DEF ValidatorInit, Init, RecordInv, InclusionsInEra, CopyIsFile, SettledRuns, Later,
      StateLoadable, Loadable, RecordedMeansUpdated, FreshState, NoBlock

\* Every extrinsic executes in its era: the chain includes it there.
LEMMA InclusionsStep ==
  ASSUME Inv, RecordInv, [Next]_vars
  PROVE  InclusionsInEra'
  <1> USE DEF Inv, TypeInv, ValidatorTypeOK, TypeOK, RecordInv, InclusionsInEra
  <1>1. CASE EmptyBlock
    BY <1>1 DEF EmptyBlock, Inclusion, InEra
  <1>2. ASSUME NEW x \in pool, NEW ok \in BOOLEAN, IncludeBlock(x, ok)
        PROVE  InclusionsInEra'
    <2>1. \A i \in included : i.block <= head + 1 /\ InEra(i.tx, i.block)
      BY DEF Inclusion
    <2> QED
      BY <1>2, <2>1 DEF IncludeBlock, InEra
  <1>3. CASE head' = head /\ nonce' = nonce /\ included' = included
    BY <1>3 DEF InEra
  <1> QED
    BY <1>1, <1>2, <1>3, OnlyTheChainIncludes DEF ChainNext

\* A step that leaves the files and the runs alone keeps the records' invariant.
LEMMA RecordFrame ==
  ASSUME Inv, RecordInv, [Next]_vars, UNCHANGED <<state, pc, summary, saved>>
  PROVE  RecordInv'
  <1> USE DEF Inv, TypeInv, ValidatorTypeOK, RecordInv
  <1>1. InclusionsInEra'
    BY InclusionsStep
  <1>2. \A b \in Nat : UpdatedSince(b, head) => UpdatedSince(b, head)'
    BY UpdatedSinceGrows, ChainGrows
  <1>3. SettledRuns'
    <2> SUFFICES ASSUME NEW r \in Runners, pc[r] \in {"clear", "record"}
                 PROVE  UpdatedSince(summary[r].end, head)'
      BY DEF SettledRuns
    <2>1. summary[r].end \in Nat
      BY ChainAssumption DEF Fetched
    <2> QED
      BY <1>2, <2>1 DEF SettledRuns
  <1>4. RecordedMeansUpdated'
    BY <1>2, BurnIsBlock DEF RecordedMeansUpdated, UpdatedSince
  <1> QED
    BY <1>1, <1>3, <1>4 DEF CopyIsFile, StateLoadable, Loadable

\* A run that ends without writing the state file keeps the records' invariant.
LEMMA RecordEnd ==
  ASSUME Inv, RecordInv, [Next]_vars, NEW r \in Runners, pc[r] # "idle", EndRun(r),
         state' = state
  PROVE  RecordInv'
  <1> USE DEF Inv, TypeInv, ValidatorTypeOK, RecordInv
  <1>1. InclusionsInEra'
    BY InclusionsStep
  <1>2. \A q \in Runners : pc'[q] = "idle"
    BY DEF EndRun, Goto, SubmissionInv, LockHeld
  <1>3. CopyIsFile' /\ SettledRuns'
    BY <1>2 DEF CopyIsFile, SettledRuns, Later
  <1>4. RecordedMeansUpdated'
    BY BurnIsBlock, UpdatedSinceGrows, ChainGrows DEF RecordedMeansUpdated, UpdatedSince
  <1> QED
    BY <1>1, <1>3, <1>4 DEF StateLoadable, Loadable

\* A run that moves on without writing anything but its own snapshot and summary.
LEMMA RecordMove ==
  ASSUME Inv, RecordInv, [Next]_vars, NEW r \in Runners, NEW step \in Steps,
         pc[r] # "idle", Goto(r, step), UNCHANGED <<state, saved>>,
         \A q \in Runners : q # r => summary'[q] = summary[q],
         step \in Later =>
             pc[r] \in Later /\ UNCHANGED summary,
         step # "score",
         step \in {"clear", "record"} => UpdatedSince(summary[r].end, head)
  PROVE  RecordInv'
  <1> USE DEF Inv, TypeInv, ValidatorTypeOK, RecordInv
  <1>1. InclusionsInEra'
    BY InclusionsStep
  <1>2. \A q \in Runners : q # r => pc[q] = "idle" /\ pc'[q] = "idle"
    BY DEF Goto, SubmissionInv, LockHeld
  <1>3. pc'[r] = step
    BY DEF Goto
  <1>4. CopyIsFile'
    BY <1>2, <1>3 DEF CopyIsFile, Later
  <1>5. SettledRuns'
    <2> SUFFICES ASSUME step \in {"clear", "record"}
                 PROVE  UpdatedSince(summary[r].end, head)'
      BY <1>2, <1>3 DEF SettledRuns
    <2>1. summary[r].end \in Nat /\ summary'[r] = summary[r]
      BY ChainAssumption DEF Fetched, Later
    <2> QED
      BY <2>1, UpdatedSinceGrows, ChainGrows DEF UpdatedSince
  <1>6. RecordedMeansUpdated'
    BY BurnIsBlock, UpdatedSinceGrows, ChainGrows DEF RecordedMeansUpdated, UpdatedSince
  <1> QED
    BY <1>1, <1>4, <1>5, <1>6 DEF StateLoadable, Loadable

\* SaveSummary records the summary of a newer epoch and keeps the burn record.
LEMMA SaveSummaryKeeps ==
  ASSUME Inv, RecordInv, [Next]_vars, NEW r \in Runners, SaveSummary(r)
  PROVE  RecordInv'
  <1> USE DEF RecordInv
  <1>1. InclusionsInEra'
    BY InclusionsStep
  <1>2. \A q \in Runners : q # r => pc[q] = "idle" /\ pc'[q] = "idle"
    BY <1>1 DEF SaveSummary, Goto, Inv, SubmissionInv, LockHeld, TypeInv, ValidatorTypeOK
  <1>3. /\ pc'[r] = "burn"
        /\ saved'[r] = state'
        /\ saved[r] = state
        /\ UNCHANGED <<summary, head, included>>
    BY DEF SaveSummary, Goto, Inv, TypeInv, ValidatorTypeOK, CopyIsFile, chainVars
  <1>4. /\ state' = [state EXCEPT !.end = summary[r].end, !.id = summary[r].id]
        /\ state \in State
    BY <1>3 DEF SaveSummary, Inv, TypeInv, ValidatorTypeOK
  <1>5. /\ state'.end = summary[r].end
        /\ state'.id = summary[r].id
        /\ state'.burn = state.burn
    BY <1>4 DEF State
  <1>6. CopyIsFile'
    BY <1>2, <1>3, <1>5 DEF CopyIsFile, Later
  <1>7. SettledRuns'
    BY <1>2, <1>3 DEF SettledRuns
  <1>8. StateLoadable'
    <2>1. /\ state.burn \in Nat
          /\ summary[r].end \in EpochEnds
          /\ summary[r].id \in Ids
          /\ state.end < summary[r].end
          /\ state.burn <= state.end
      BY BurnIsBlock DEF SaveSummary, Inv, TypeInv, Fetched, CopyIsFile,
         StateLoadable, Loadable
    <2>2. state.end \in EpochEnds \union {NoBlock}
      BY <1>4 DEF State
    <2>3. \A b \in EpochEnds \union {NoBlock} : b \in Nat
      BY ChainAssumption DEF NoBlock
    <2>4. state.burn <= summary[r].end
      BY <2>1, <2>2, <2>3
    <2> QED
      BY <1>5, <2>1, <2>4, ChainAssumption, ValidatorAssumption
      DEF StateLoadable, Loadable, NoBlock
  <1>9. RecordedMeansUpdated'
    BY <1>3, <1>5 DEF RecordedMeansUpdated, UpdatedSince
  <1> QED
    BY <1>1, <1>6, <1>7, <1>8, <1>9

\* RecordBurn records an epoch whose end LastUpdate has passed.
LEMMA RecordBurnKeeps ==
  ASSUME Inv, RecordInv, [Next]_vars, NEW r \in Runners, RecordBurn(r)
  PROVE  RecordInv'
  <1> USE DEF RecordInv
  <1>1. InclusionsInEra'
    BY InclusionsStep
  <1>2. \A q \in Runners : pc'[q] = "idle"
    BY DEF RecordBurn, EndRun, Goto, Inv, SubmissionInv, LockHeld, TypeInv,
       ValidatorTypeOK
  <1>3. CopyIsFile' /\ SettledRuns'
    BY <1>2 DEF CopyIsFile, SettledRuns, Later
  <1>4. /\ state' = [state EXCEPT !.burn = summary[r].end]
        /\ state \in State
        /\ state.end = summary[r].end
        /\ UpdatedSince(summary[r].end, head)
        /\ UNCHANGED <<head, included>>
    BY DEF RecordBurn, CopyIsFile, SettledRuns, Later, Inv, TypeInv, ValidatorTypeOK,
       chainVars
  <1>5. /\ state'.end = summary[r].end
        /\ state'.id = state.id
        /\ state'.burn = summary[r].end
    BY <1>4 DEF State
  <1>6. summary[r].end \in Nat
    BY ChainAssumption DEF RecordBurn, Inv, TypeInv, Fetched
  <1>7. StateLoadable'
    BY <1>4, <1>5, <1>6 DEF StateLoadable, Loadable
  <1>8. RecordedMeansUpdated'
    BY <1>4, <1>5 DEF RecordedMeansUpdated, UpdatedSince
  <1> QED
    BY <1>1, <1>3, <1>7, <1>8

\* Every step keeps the records' invariant.
LEMMA RecordStep == Inv /\ RecordInv /\ [Next]_vars => RecordInv'
  <1> SUFFICES ASSUME Inv, RecordInv, [Next]_vars PROVE RecordInv'
    OBVIOUS
  <1> USE DEF Inv, TypeInv, ValidatorTypeOK
  <1>1. ASSUME NEW r \in Runners, TakeLock(r) PROVE RecordInv'
    <2>1. pc[r] = "idle" /\ Goto(r, "snapshot") /\ UNCHANGED <<state, summary, saved>>
      BY <1>1 DEF TakeLock, fileVars
    <2>2. \A q \in Runners : pc'[q] \in {pc[q], "snapshot"}
      BY <2>1 DEF Goto
    <2>3. CopyIsFile'
      BY <2>1, <2>2 DEF RecordInv, CopyIsFile, Later
    <2>4. SettledRuns' /\ RecordedMeansUpdated'
      BY <1>1, <2>1, <2>2 DEF TakeLock, chainVars, RecordInv, SettledRuns,
         RecordedMeansUpdated, UpdatedSince
    <2> QED
      BY <2>1, <2>3, <2>4, InclusionsStep DEF RecordInv, StateLoadable, Loadable
  <1>2. ASSUME NEW r \in Runners, ReadSnapshot(r) PROVE RecordInv'
    BY <1>2, RecordMove DEF ReadSnapshot, fileVars, Later, Steps
  <1>3. ASSUME NEW r \in Runners, FetchSummary(r) PROVE RecordInv'
    BY <1>3, RecordMove DEF FetchSummary, fileVars, Later, Steps
  <1>4. ASSUME NEW r \in Runners, LoadState(r) PROVE RecordInv'
    <2>1. \A q \in Runners : q # r => pc[q] = "idle" /\ pc'[q] = "idle"
      BY <1>4 DEF LoadState, Goto, SubmissionInv, LockHeld
    <2>2. /\ pc'[r] = IF state.end = summary[r].end THEN "burn" ELSE "score"
          /\ saved'[r] = state
          /\ state' = state
          /\ UNCHANGED <<summary, head, included>>
      BY <1>4 DEF LoadState, Goto, AlreadyProcessed, chainVars, fileVars
    <2>3. /\ state.end <= summary[r].end
          /\ state.end = summary[r].end => state.id = summary[r].id
      BY <1>4 DEF LoadState, Accepted
    <2>4. state.end \in Nat /\ summary[r].end \in Nat
      <3>1. \A b \in EpochEnds \union {NoBlock} : b \in Nat
        BY ChainAssumption DEF NoBlock
      <3>2. state.end \in EpochEnds \union {NoBlock}
        BY DEF State
      <3>3. summary[r].end \in EpochEnds \union {NoBlock}
        BY DEF Summary
      <3> QED
        BY <3>1, <3>2, <3>3
    <2>5. CopyIsFile'
      BY <2>1, <2>2, <2>3, <2>4 DEF CopyIsFile, Later
    <2>6. SettledRuns' /\ RecordedMeansUpdated' /\ StateLoadable'
      BY <2>1, <2>2 DEF RecordInv, SettledRuns, RecordedMeansUpdated, UpdatedSince,
         StateLoadable, Loadable
    <2> QED
      BY <2>5, <2>6, InclusionsStep DEF RecordInv
  <1>5. ASSUME NEW r \in Runners, AlreadyOnChain(r) PROVE RecordInv'
    <2>1. UpdatedSince(summary[r].end, head)
      <3>1. snap[r] <= head /\ snap[r] \in Nat /\ head \in Nat
        BY DEF SubmissionInv, SnapshotsBehind, TypeOK
      <3> QED
        BY <1>5, <3>1 DEF AlreadyOnChain, UpdatedSince, TypeOK, Inclusion
    <2> QED
      BY <1>5, <2>1, RecordMove DEF AlreadyOnChain, fileVars, Later, Steps
  <1>6. ASSUME NEW r \in Runners,
               StartSubmit(r) \/ CheckPending(r) \/ Sign(r) \/ Broadcast(r)
        PROVE  RecordInv'
    BY <1>6, RecordMove
    DEF StartSubmit, CheckPending, Sign, Broadcast, fileVars, Later, Steps
  <1>7. ASSUME NEW r \in Runners, SavePending(r) PROVE RecordInv'
    BY <1>7, RecordMove DEF SavePending, Later, Steps
  <1>8. ASSUME NEW r \in Runners, SeeSuccess(r) PROVE RecordInv'
    <2>1. UpdatedSince(summary[r].end, head)
      <3>1. PICK i \in included : i.tx = Tx(r) /\ i.ok
        BY <1>8 DEF SeeSuccess, Succeeded
      <3>2. /\ i.tx.birth = snap[r]
            /\ snap[r] \in Nat
            /\ i.block \in Nat
        BY <3>1 DEF Tx, TypeOK, Inclusion
      <3>3. summary[r].end <= snap[r] /\ summary[r].end \in Nat
        BY <1>8, ChainAssumption DEF SeeSuccess, Fetched
      <3>4. snap[r] < i.block /\ i.block <= head
        BY <3>2 DEF RecordInv, InclusionsInEra, InEra
      <3> QED
        BY <3>1, <3>2, <3>3, <3>4 DEF UpdatedSince
    <2> QED
      BY <1>8, <2>1, RecordMove DEF SeeSuccess, fileVars, Later, Steps
  <1>9. ASSUME NEW r \in Runners, ClearPending(r) PROVE RecordInv'
    BY <1>9, RecordMove DEF ClearPending, Later, Steps, RecordInv, SettledRuns
  <1>10. ASSUME NEW r \in Runners, NothingToDo(r) \/ Abort(r) PROVE RecordInv'
    BY <1>10, RecordEnd DEF NothingToDo, Abort, fileVars
  <1>11. CASE ChainNext /\ UNCHANGED <<lock, fileVars, runVars>>
    BY <1>11, RecordFrame DEF fileVars, runVars
  <1>12. CASE LoseState
    <2>1. \A r \in Runners : pc'[r] = "idle"
      BY <1>12, ValidatorAssumption DEF LoseState, SubmissionInv, LockHeld, runVars
    <2>2. CopyIsFile' /\ SettledRuns'
      BY <2>1 DEF CopyIsFile, SettledRuns, Later
    <2>3. StateLoadable' /\ RecordedMeansUpdated'
      BY <1>12 DEF LoseState, FreshState, StateLoadable, Loadable,
         RecordedMeansUpdated, NoBlock
    <2> QED
      BY <2>2, <2>3, InclusionsStep DEF RecordInv
  <1>13. CASE UNCHANGED vars
    BY <1>13, RecordFrame DEF vars, fileVars, runVars
  <1> QED
    BY <1>1, <1>2, <1>3, <1>4, <1>5, <1>6, <1>7, <1>8, <1>9, <1>10, <1>11, <1>12,
       <1>13, SaveSummaryKeeps, RecordBurnKeeps DEF Next, Progress

-----------------------------------------------------------------------------
(* Theorems *)

\* The invariants of the submission and of the records hold in every reachable state.
THEOREM Records == Spec => [](Inv /\ RecordInv)
  <1>1. ValidatorInit => Inv /\ RecordInv
    BY TypeInit, SubmissionInit, RecordInit DEF Inv
  <1>2. (Inv /\ RecordInv) /\ [Next]_vars => (Inv /\ RecordInv)'
    BY TypeStep, SubmissionStep, RecordStep DEF Inv
  <1> QED
    BY <1>1, <1>2, PTL DEF Spec

\* The validator never writes a state file that StateStore::load would refuse.
THEOREM AlwaysLoadable == Spec => []StateLoadable
  <1>1. RecordInv => StateLoadable
    BY DEF RecordInv
  <1> QED
    BY Records, <1>1, PTL

\* A recorded burn means LastUpdate has moved past the end of its epoch.
THEOREM RecordedIsUpdated == Spec => []RecordedMeansUpdated
  <1>1. RecordInv => RecordedMeansUpdated
    BY DEF RecordInv
  <1> QED
    BY Records, <1>1, PTL

\* Only a broadcasting run adds to the pool.
LEMMA OnlyBroadcastAdds ==
  ASSUME Inv, [Next]_vars
  PROVE  pool' \subseteq pool \/ \E r \in Runners : Broadcast(r)
  <1>1. ASSUME NEW r \in Runners, Progress(r), ~ Broadcast(r)
        PROVE  pool' = pool
    BY <1>1 DEF Progress, TakeLock, ReadSnapshot, FetchSummary, LoadState, SaveSummary,
       NothingToDo, AlreadyOnChain, StartSubmit, CheckPending, Sign, SavePending,
       SeeSuccess, ClearPending, RecordBurn, chainVars
  <1>2. ASSUME NEW r \in Runners, Abort(r) PROVE pool' = pool
    BY <1>2 DEF Abort, chainVars
  <1>3. CASE ChainNext /\ UNCHANGED <<lock, fileVars, runVars>>
    BY <1>3, ChainKeeps
  <1>4. CASE LoseState \/ UNCHANGED vars
    BY <1>4 DEF LoseState, vars, chainVars
  <1> QED
    BY <1>1, <1>2, <1>3, <1>4 DEF Next

\* What a run broadcasts is for the summary its state file records.
THEOREM BroadcastsMatch == Spec => BroadcastMatchesRecord
  <1>1. (Inv /\ RecordInv) /\ [Next]_vars =>
            [\A x \in pool' \ pool : x.epoch = state.end /\ x.id = state.id]_pool
    <2> SUFFICES ASSUME Inv, RecordInv, [Next]_vars, NEW x \in pool' \ pool
                 PROVE  x.epoch = state.end /\ x.id = state.id
      OBVIOUS
    <2>1. PICK r \in Runners : Broadcast(r)
      BY OnlyBroadcastAdds
    <2>2. x = Tx(r)
      BY <2>1 DEF Broadcast
    <2>3. state.end = summary[r].end /\ state.id = summary[r].id
      BY <2>1 DEF Broadcast, RecordInv, CopyIsFile, Later
    <2> QED
      BY <2>2, <2>3 DEF Tx
  <1> QED
    BY <1>1, Records, PTL DEF Spec, BroadcastMatchesRecord

\* An epoch is scored once between losses of the state file.
THEOREM ScoresOnce == Spec => ScoredOnce
  <1>1. Inv /\ RecordInv => 
            [\A r \in Runners :
                pc[r] = "score" /\ pc'[r] = "burn" => state.end < summary[r].end]_vars
    BY DEF RecordInv, CopyIsFile
  <1> QED
    BY <1>1, Records, PTL DEF ScoredOnce

-----------------------------------------------------------------------------
(***************************************************************************)
(* One execution per epoch.  Two facts stand between a retry and a second  *)
(* execution of an epoch's weights: the retry's snapshot shows LastUpdate  *)
(* before the epoch's end, so an earlier execution lies past that snapshot *)
(* (NotSeenYet), and an extrinsic only executes within Mortality blocks of *)
(* it.  Either the node does not lag, and then check_pending leaves no     *)
(* block past the snapshot for the earlier execution to lie in (Caught),   *)
(* or the rate limit spans the rest of the era.  With a lagging node and a *)
(* shorter rate limit the epoch can execute twice.                         *)
(***************************************************************************)

Early == {"fetch", "load", "score", "burn", "check"}
Signing == {"sign", "guard", "send"}
Submitting == {"check"} \union Signing

\* An extrinsic's era starts after its epoch's end.
BornAfterEpoch ==
    /\ \A x \in pool : x.epoch <= x.birth
    /\ \A i \in included : i.tx.epoch <= i.tx.birth

\* What executed of the epoch being submitted, executed past the snapshot.
NotSeenYet ==
    /\ \A r \in Runners, i \in included :
          pc[r] \in Submitting /\ i.ok /\ i.tx.epoch = summary[r].end => snap[r] < i.block
    /\ \A x \in pool, i \in included :
          i.ok /\ i.tx.epoch = x.epoch => x.birth < i.block

\* With an up-to-date node: what is finalized behind a run's back was covered by the
\* submission record, and nothing is once check_pending let the run through.
Caught ==
    /\ \A r \in Runners, i \in included :
          /\ pc[r] \in Early /\ snap[r] < i.block => i.tx.birth + Mortality <= pending
          /\ pc[r] \in Signing => i.block <= snap[r]
    /\ \A x \in pool, i \in included : i.block <= x.birth

OnceInv ==
    /\ BornAfterEpoch
    /\ NotSeenYet
    /\ MaxLag = 0 => Caught
    /\ WeightsOncePerEpoch

AllInv == Inv /\ RecordInv /\ OnceInv

\* The types the arithmetic below needs.
LEMMA Numbers ==
  ASSUME Inv
  PROVE  /\ head \in Nat /\ pending \in Nat
         /\ \A r \in Runners : snap[r] \in Nat
         /\ \A x \in pool : x.epoch \in Nat /\ x.birth \in Nat
         /\ \A i \in included : /\ i.block \in Nat /\ i.ok \in BOOLEAN
                                /\ i.tx.epoch \in Nat /\ i.tx.birth \in Nat
  <1> USE DEF Inv, TypeInv, ValidatorTypeOK, TypeOK
  <1>1. \A e \in EpochEnds : e \in Nat
    BY ChainAssumption
  <1>2. \A x \in Extrinsic : x.epoch \in EpochEnds /\ x.birth \in Nat
    BY DEF Extrinsic
  <1>3. \A i \in Inclusion : i.tx \in Extrinsic /\ i.block \in Nat /\ i.ok \in BOOLEAN
    BY DEF Inclusion
  <1> QED
    BY <1>1, <1>2, <1>3

\* It holds at the start: nothing has executed.
LEMMA OnceInit == ValidatorInit => OnceInv
  BY DEF ValidatorInit, Init, OnceInv, BornAfterEpoch, NotSeenYet, Caught, Early, Signing,
     Submitting, WeightsOncePerEpoch

\* The block that executes x adds to no epoch that has executed before.
LEMMA ExecutedOnce ==
  ASSUME MaxLag = 0 \/ Mortality <= RateLimit + 1,
         AllInv, NEW x \in pool, IncludeBlock(x, TRUE),
         NEW i \in included, i.ok, i.tx.epoch = x.epoch
  PROVE  FALSE
  <1> USE DEF AllInv, OnceInv
  <1>1. x.birth < i.block /\ x.birth \in Nat /\ i.block \in Nat /\ head \in Nat
    BY Numbers DEF NotSeenYet
  <1>2. CASE MaxLag = 0
    BY <1>1, <1>2 DEF Caught
  <1>3. CASE Mortality <= RateLimit + 1
    <2>1. head + 1 < x.birth + Mortality /\ i.block + RateLimit <= head + 1
      BY DEF IncludeBlock, InEra, RateLimitPasses
    <2> QED
      BY <1>1, <1>3, <2>1, ChainAssumption
  <1> QED
    BY <1>2, <1>3

\* The chain's own steps.
LEMMA OnceChain ==
  ASSUME MaxLag = 0 \/ Mortality <= RateLimit + 1,
         AllInv, ChainNext, UNCHANGED <<lock, fileVars, runVars>>
  PROVE  OnceInv'
  <1> USE DEF AllInv, OnceInv, fileVars, runVars
  <1>1. pool' \subseteq pool
    BY ChainKeeps
  <1>2. CASE EmptyBlock
    <2>1. included' = included
      BY <1>2 DEF EmptyBlock
    <2> QED
      BY <1>1, <2>1 DEF BornAfterEpoch, NotSeenYet, Caught, WeightsOncePerEpoch
  <1>3. ASSUME NEW x \in pool, NEW ok \in BOOLEAN, IncludeBlock(x, ok)
        PROVE  OnceInv'
    <2> DEFINE new == [tx |-> x, block |-> head + 1, ok |-> ok]
    <2>1. included' = included \union {new}
      BY <1>3 DEF IncludeBlock
    <2>2. new.tx = x /\ new.block = head + 1 /\ new.ok = ok
      OBVIOUS
    <2> HIDE DEF new
    <2>3. pool' = {}
      BY <1>3 DEF IncludeBlock, StillValid, Inv, SubmissionInv, AtMostOneInFlight
    <2>4. BornAfterEpoch'
      BY <2>1, <2>2, <2>3 DEF BornAfterEpoch
    <2>5. \A r \in Runners : snap[r] < new.block
      BY <2>2, Numbers DEF Inv, SubmissionInv, SnapshotsBehind
    <2>6. NotSeenYet'
      BY <2>1, <2>3, <2>5 DEF NotSeenYet
    <2>7. x.birth + Mortality <= pending
      BY DEF Inv, SubmissionInv, InFlightIsGuarded
    <2>8. \A r \in Runners : pc[r] \notin Signing
      BY DEF Inv, SubmissionInv, Alone, Signing
    <2>9. MaxLag = 0 => Caught'
      BY <2>1, <2>2, <2>3, <2>7, <2>8 DEF Caught
    <2>10. WeightsOncePerEpoch'
      BY <1>3, <2>1, <2>2, ExecutedOnce DEF WeightsOncePerEpoch
    <2> QED
      BY <2>4, <2>6, <2>9, <2>10
  <1> QED
    BY <1>2, <1>3 DEF ChainNext

\* A run that moves on, with all its claims accounted for.
LEMMA OnceMove ==
  ASSUME AllInv, NEW r \in Runners, NEW step \in Steps, pc[r] # "idle", Goto(r, step),
         UNCHANGED <<pool, included>>,
         step \in Early \union Signing => UNCHANGED <<snap, summary>>,
         step \in Early => pc[r] \in Early /\ pending' = pending,
         step \in Submitting =>
             \A i \in included : i.ok /\ i.tx.epoch = summary[r].end => snap[r] < i.block,
         step \in Signing /\ MaxLag = 0 => \A i \in included : i.block <= snap[r]
  PROVE  OnceInv'
  <1> USE DEF AllInv, OnceInv
  <1>1. \A q \in Runners : q # r => pc'[q] = "idle"
    BY DEF Goto, Inv, SubmissionInv, LockHeld, TypeInv, ValidatorTypeOK
  <1>2. pc'[r] = step
    BY DEF Goto, Inv, TypeInv, ValidatorTypeOK
  <1>3. NotSeenYet'
    BY <1>1, <1>2 DEF NotSeenYet, Early, Signing, Submitting
  <1>4. MaxLag = 0 => Caught'
    BY <1>1, <1>2 DEF Caught, Early, Signing
  <1> QED
    BY <1>3, <1>4 DEF BornAfterEpoch, WeightsOncePerEpoch

\* The end of a run withdraws its claims.
LEMMA OnceEnd ==
  ASSUME AllInv, NEW r \in Runners, pc[r] # "idle", EndRun(r), UNCHANGED chainVars
  PROVE  OnceInv'
  <1> USE DEF AllInv, OnceInv
  <1>1. \A q \in Runners : pc'[q] = "idle"
    BY DEF EndRun, Goto, Inv, SubmissionInv, LockHeld, TypeInv, ValidatorTypeOK
  <1>2. NotSeenYet' /\ (MaxLag = 0 => Caught')
    BY <1>1 DEF NotSeenYet, Caught, Early, Signing, Submitting, chainVars
  <1> QED
    BY <1>2 DEF BornAfterEpoch, WeightsOncePerEpoch, chainVars

\* A snapshot of an up-to-date node shows every block there is.
LEMMA OnceSnapshot ==
  ASSUME AllInv, NEW r \in Runners, ReadSnapshot(r)
  PROVE  OnceInv'
  <1> USE DEF AllInv, OnceInv
  <1>1. \A q \in Runners : q # r => pc'[q] = "idle"
    BY DEF ReadSnapshot, Goto, Inv, SubmissionInv, LockHeld, TypeInv, ValidatorTypeOK
  <1>2. pc'[r] = "fetch" /\ UNCHANGED <<pool, included, pending>>
    BY DEF ReadSnapshot, Goto, Inv, TypeInv, ValidatorTypeOK, chainVars, fileVars
  <1>3. MaxLag = 0 => snap'[r] = head
    BY Numbers DEF ReadSnapshot, Inv, TypeInv, ValidatorTypeOK
  <1>4. \A i \in included : i.block <= head
    BY DEF RecordInv, InclusionsInEra
  <1>5. NotSeenYet'
    BY <1>1, <1>2 DEF NotSeenYet, Submitting, Signing
  <1>6. MaxLag = 0 => Caught'
    BY <1>1, <1>2, <1>3, <1>4, Numbers DEF Caught, Early, Signing
  <1> QED
    BY <1>2, <1>5, <1>6 DEF BornAfterEpoch, WeightsOncePerEpoch

\* LastUpdate below the epoch's end at the snapshot: what executed of this epoch lies
\* past the snapshot.
LEMMA OnceStart ==
  ASSUME AllInv, NEW r \in Runners, StartSubmit(r)
  PROVE  OnceInv'
  <1>1. ASSUME NEW i \in included, i.ok, i.tx.epoch = summary[r].end
        PROVE  snap[r] < i.block
    <2>1. i.tx.epoch <= i.tx.birth /\ i.tx.birth < i.block
      BY DEF AllInv, OnceInv, BornAfterEpoch, RecordInv, InclusionsInEra, InEra
    <2>2. ~ (summary[r].end <= i.block /\ i.block <= snap[r])
      BY <1>1 DEF StartSubmit, UpdatedSince
    <2> QED
      BY <1>1, <2>1, <2>2, Numbers DEF AllInv
  <1> QED
    BY <1>1, OnceMove DEF StartSubmit, chainVars, fileVars, Early, Signing, Submitting,
       Steps

\* With an up-to-date node check_pending leaves nothing past the snapshot: it would
\* have executed before its era's end, which has not passed at the snapshot.
LEMMA OnceCheck ==
  ASSUME AllInv, NEW r \in Runners, CheckPending(r)
  PROVE  OnceInv'
  <1>1. ASSUME MaxLag = 0, NEW i \in included PROVE i.block <= snap[r]
    <2> SUFFICES ASSUME snap[r] < i.block PROVE FALSE
      BY Numbers DEF AllInv
    <2>1. i.tx.birth + Mortality <= pending
      BY <1>1 DEF AllInv, OnceInv, Caught, CheckPending, Early
    <2>2. i.block < i.tx.birth + Mortality
      BY DEF AllInv, RecordInv, InclusionsInEra, InEra
    <2>3. pending = NoBlock \/ pending <= snap[r]
      BY Numbers DEF AllInv, CheckPending, Uncertain, NoBlock
    <2> QED
      BY <2>1, <2>2, <2>3, Numbers, ChainAssumption DEF AllInv, NoBlock
  <1>2. \A i \in included : i.ok /\ i.tx.epoch = summary[r].end => snap[r] < i.block
    BY DEF AllInv, OnceInv, NotSeenYet, CheckPending, Submitting
  <1> QED
    BY <1>1, <1>2, OnceMove DEF CheckPending, chainVars, fileVars, Early, Signing,
       Submitting, Steps

\* The extrinsic takes over what the run knows.
LEMMA OnceBroadcast ==
  ASSUME AllInv, NEW r \in Runners, Broadcast(r)
  PROVE  OnceInv'
  <1> USE DEF AllInv, OnceInv
  <1>1. \A q \in Runners : pc'[q] \in {"idle", "watch"}
    BY DEF Broadcast, Goto, Inv, SubmissionInv, LockHeld, TypeInv, ValidatorTypeOK
  <1>2. pool' = {Tx(r)} /\ included' = included
    BY DEF Broadcast, Inv, SubmissionInv, Alone
  <1>3. Tx(r).epoch = summary[r].end /\ Tx(r).birth = snap[r]
    BY DEF Tx
  <1>4. summary[r].end <= snap[r]
    BY DEF Broadcast, Inv, TypeInv, Fetched
  <1>5. \A i \in included : i.ok /\ i.tx.epoch = summary[r].end => snap[r] < i.block
    BY DEF NotSeenYet, Broadcast, Submitting, Signing
  <1>6. MaxLag = 0 => \A i \in included : i.block <= snap[r]
    BY DEF Caught, Broadcast, Signing
  <1>7. BornAfterEpoch'
    BY <1>2, <1>3, <1>4 DEF BornAfterEpoch
  <1>8. NotSeenYet'
    BY <1>1, <1>2, <1>3, <1>5 DEF NotSeenYet, Submitting, Signing
  <1>9. MaxLag = 0 => Caught'
    BY <1>1, <1>2, <1>3, <1>6 DEF Caught, Early, Signing
  <1> QED
    BY <1>2, <1>7, <1>8, <1>9 DEF WeightsOncePerEpoch

\* Every step keeps it, when the node is up to date or the rate limit long enough.
LEMMA OnceStep ==
  ASSUME MaxLag = 0 \/ Mortality <= RateLimit + 1
  PROVE  AllInv /\ [Next]_vars => OnceInv'
  <1> SUFFICES ASSUME AllInv, [Next]_vars PROVE OnceInv'
    OBVIOUS
  <1> USE DEF chainVars, fileVars, Early, Signing, Submitting, Steps
  <1>1. ASSUME NEW r \in Runners, TakeLock(r) PROVE OnceInv'
    <2>1. \A q \in Runners : pc'[q] \in {"idle", "snapshot"}
      BY <1>1, ValidatorAssumption DEF TakeLock, LockIsFree, Goto, AllInv, Inv, SubmissionInv, LockHeld,
         TypeInv, ValidatorTypeOK
    <2>2. NotSeenYet' /\ (MaxLag = 0 => Caught')
      BY <1>1, <2>1 DEF TakeLock, AllInv, OnceInv, NotSeenYet, Caught
    <2> QED
      BY <1>1, <2>2 DEF TakeLock, AllInv, OnceInv, BornAfterEpoch, WeightsOncePerEpoch
  <1>2. ASSUME NEW r \in Runners, FetchSummary(r) PROVE OnceInv'
    <2>1. \A q \in Runners : q # r => pc'[q] = "idle"
      BY <1>2 DEF FetchSummary, Goto, AllInv, Inv, SubmissionInv, LockHeld, TypeInv,
         ValidatorTypeOK
    <2>2. pc[r] = "fetch" /\ pc'[r] = "load"
      BY <1>2 DEF FetchSummary, Goto, AllInv, Inv, TypeInv, ValidatorTypeOK
    <2>3. NotSeenYet' /\ (MaxLag = 0 => Caught')
      BY <1>2, <2>1, <2>2 DEF FetchSummary, AllInv, OnceInv, NotSeenYet, Caught
    <2> QED
      BY <1>2, <2>3 DEF FetchSummary, AllInv, OnceInv, BornAfterEpoch,
         WeightsOncePerEpoch
  <1>3. ASSUME NEW r \in Runners, LoadState(r) PROVE OnceInv'
    BY <1>3, OnceMove DEF LoadState
  <1>4. ASSUME NEW r \in Runners, SaveSummary(r) \/ AlreadyOnChain(r) PROVE OnceInv'
    BY <1>4, OnceMove DEF SaveSummary, AlreadyOnChain
  <1>5. ASSUME NEW r \in Runners, Sign(r) \/ SavePending(r) PROVE OnceInv'
    <2>1. \A i \in included : i.ok /\ i.tx.epoch = summary[r].end => snap[r] < i.block
      BY <1>5 DEF Sign, SavePending, AllInv, OnceInv, NotSeenYet
    <2>2. MaxLag = 0 => \A i \in included : i.block <= snap[r]
      BY <1>5 DEF Sign, SavePending, AllInv, OnceInv, Caught
    <2> QED
      BY <1>5, <2>1, <2>2, OnceMove DEF Sign, SavePending
  <1>6. ASSUME NEW r \in Runners, SeeSuccess(r) \/ ClearPending(r) PROVE OnceInv'
    BY <1>6, OnceMove DEF SeeSuccess, ClearPending
  <1>7. ASSUME NEW r \in Runners, NothingToDo(r) \/ RecordBurn(r) \/ Abort(r)
        PROVE  OnceInv'
    BY <1>7, OnceEnd DEF NothingToDo, RecordBurn, Abort
  <1>8. CASE ChainNext /\ UNCHANGED <<lock, fileVars, runVars>>
    BY <1>8, OnceChain
  <1>9. CASE LoseState \/ UNCHANGED vars
    BY <1>9 DEF LoseState, vars, runVars, AllInv, OnceInv, BornAfterEpoch, NotSeenYet,
       Caught, WeightsOncePerEpoch
  <1> QED
    BY <1>1, <1>2, <1>3, <1>4, <1>5, <1>6, <1>7, <1>8, <1>9, OnceSnapshot, OnceStart,
       OnceCheck, OnceBroadcast DEF Next, Progress

\* With an up-to-date node, or a rate limit no shorter than what is left of an era, the
\* chain executes an epoch's weights at most once: whatever crashed, timed out or was
\* lost, and also when the state file was.
THEOREM ExecutesOnce ==
  ASSUME MaxLag = 0 \/ Mortality <= RateLimit + 1
  PROVE  Spec => []WeightsOncePerEpoch
  <1>1. ValidatorInit => AllInv
    BY TypeInit, SubmissionInit, RecordInit, OnceInit DEF AllInv, Inv
  <1>2. AllInv /\ [Next]_vars => AllInv'
    BY TypeStep, SubmissionStep, RecordStep, OnceStep DEF AllInv, Inv
  <1>3. AllInv => WeightsOncePerEpoch
    BY DEF AllInv, OnceInv
  <1> QED
    BY <1>1, <1>2, <1>3, PTL DEF Spec

-----------------------------------------------------------------------------
(***************************************************************************)
(* What the validator promises, for every value of the constants: records  *)
(* that only advance, no submission into the rate limit when the node is   *)
(* up to date, and the refinement of EpochWeights.  The state file has     *)
(* three writers (OnlyTheseWrite), and each is one step of EpochWeights;   *)
(* a success on the chain is another; every other step shows nothing.      *)
(***************************************************************************)

\* The state file is written by a run at two of its steps, or lost.
LEMMA OnlyTheseWrite ==
  ASSUME [Next]_vars
  PROVE  \/ state' = state
         \/ \E r \in Runners : SaveSummary(r) \/ RecordBurn(r)
         \/ LoseState
  <1>1. ASSUME NEW r \in Runners, Progress(r), ~ SaveSummary(r), ~ RecordBurn(r)
        PROVE  state' = state
    BY <1>1 DEF Progress, TakeLock, ReadSnapshot, FetchSummary, LoadState, NothingToDo,
       AlreadyOnChain, StartSubmit, CheckPending, Sign, SavePending, Broadcast,
       SeeSuccess, ClearPending, fileVars
  <1>2. ASSUME NEW r \in Runners, Abort(r) PROVE state' = state
    BY <1>2 DEF Abort, fileVars
  <1>3. CASE (ChainNext /\ UNCHANGED <<lock, fileVars, runVars>>) \/ UNCHANGED vars
    BY <1>3 DEF vars, fileVars
  <1> QED
    BY <1>1, <1>2, <1>3 DEF Next

\* What SaveSummary and RecordBurn do to the fields of the file.
LEMMA SavedFields ==
  ASSUME Inv, RecordInv, NEW r \in Runners, SaveSummary(r)
  PROVE  /\ state.end < summary[r].end
         /\ state'.end = summary[r].end /\ state'.id = summary[r].id
         /\ state'.burn = state.burn
         /\ summary[r].end \in EpochEnds
  <1>1. saved[r] = state /\ state \in State
    BY DEF SaveSummary, RecordInv, CopyIsFile, Inv, TypeInv, ValidatorTypeOK
  <1>2. state' = [state EXCEPT !.end = summary[r].end, !.id = summary[r].id]
    BY <1>1 DEF SaveSummary
  <1>3. state.end < summary[r].end /\ summary[r].end \in EpochEnds
    BY DEF SaveSummary, RecordInv, CopyIsFile, Inv, TypeInv, Fetched
  <1> QED
    BY <1>1, <1>2, <1>3 DEF State

\* What RecordBurn does to the fields of the file, and what it has seen on the chain.
LEMMA BurnFields ==
  ASSUME Inv, RecordInv, NEW r \in Runners, RecordBurn(r)
  PROVE  /\ state'.end = state.end /\ state'.id = state.id
         /\ state'.burn = state.end
         /\ state.end \in EpochEnds
         /\ UpdatedSince(state.end, head)
  <1>1. saved[r] = state /\ state \in State /\ state.end = summary[r].end
    BY DEF RecordBurn, RecordInv, CopyIsFile, Later, Inv, TypeInv, ValidatorTypeOK
  <1>2. state' = [state EXCEPT !.burn = state.end]
    BY <1>1 DEF RecordBurn
  <1>3. UpdatedSince(state.end, head) /\ state.end \in EpochEnds
    BY <1>1 DEF RecordBurn, RecordInv, SettledRuns, Inv, TypeInv, Fetched
  <1> QED
    BY <1>1, <1>2, <1>3 DEF State

\* The blocks of the file are numbers and the burn record is behind the summary.
LEMMA FileBlocks ==
  ASSUME Inv, RecordInv
  PROVE  state.end \in Nat /\ state.burn \in Nat /\ state.burn <= state.end
  <1>1. state.end \in EpochEnds \union {NoBlock}
    BY DEF Inv, TypeInv, ValidatorTypeOK, State
  <1>2. \A b \in EpochEnds \union {NoBlock} : b \in Nat
    BY ChainAssumption DEF NoBlock
  <1> QED
    BY <1>1, <1>2, BurnIsBlock DEF RecordInv, StateLoadable, Loadable

\* Between losses of the state file a processed summary is never replaced by an older or
\* a changed one, nor a recorded burn taken back, also when the node or the platform goes
\* back.
THEOREM RecordsAdvance == Spec => RecordsOnlyAdvance
  <1>1. (Inv /\ RecordInv) /\ [Next]_vars =>
            [state' # FreshState =>
                /\ state.end <= state'.end
                /\ state.end = state'.end => state.id \in {NoId, state'.id}
                /\ state.burn <= state'.burn]_state
    <2> SUFFICES ASSUME Inv, RecordInv, [Next]_vars, state' # state, state' # FreshState
                 PROVE  /\ state.end <= state'.end
                        /\ state.end = state'.end => state.id \in {NoId, state'.id}
                        /\ state.burn <= state'.burn
      OBVIOUS
    <2>1. state.end \in Nat /\ state.burn \in Nat /\ state.burn <= state.end
      BY FileBlocks
    <2>2. ASSUME NEW r \in Runners, SaveSummary(r)
          PROVE  /\ state.end <= state'.end /\ state.end # state'.end
                 /\ state.burn <= state'.burn
      <3>1. summary[r].end \in Nat
        BY <2>2, SavedFields, ChainAssumption
      <3> QED
        BY <2>1, <2>2, <3>1, SavedFields
    <2>3. ASSUME NEW r \in Runners, RecordBurn(r)
          PROVE  state.end <= state'.end /\ state.id = state'.id /\ state.burn <= state'.burn
      BY <2>1, <2>3, BurnFields
    <2>4. ~ LoseState
      BY DEF LoseState
    <2> QED
      BY <2>2, <2>3, <2>4, OnlyTheseWrite
  <1> QED
    BY <1>1, Records, PTL DEF Spec, RecordsOnlyAdvance

-----------------------------------------------------------------------------
(* The rate limit, with an up-to-date node *)

\* A run submits only when the successes its snapshot shows are past the rate limit, and
\* what it broadcasts is past the limit of every success there is.
LimitInv ==
    /\ \A r \in Runners, i \in included :
          pc[r] \in Submitting /\ i.ok /\ i.block <= snap[r]
              => i.block + RateLimit <= snap[r]
    /\ \A x \in pool, i \in included : i.ok => i.block + RateLimit <= x.birth

\* No step of the chain puts a submission into the rate limit.
LEMMA LimitChain ==
  ASSUME AllInv, LimitInv, ChainNext, UNCHANGED <<lock, fileVars, runVars>>
  PROVE  LimitInv'
  <1> USE DEF AllInv
  <1>1. pool' \subseteq pool /\ pc' = pc /\ snap' = snap
    BY ChainKeeps DEF runVars
  <1>2. CASE EmptyBlock
    BY <1>1, <1>2 DEF EmptyBlock, LimitInv
  <1>3. ASSUME NEW x \in pool, NEW ok \in BOOLEAN, IncludeBlock(x, ok) PROVE LimitInv'
    <2> DEFINE new == [tx |-> x, block |-> head + 1, ok |-> ok]
    <2>1. included' = included \union {new}
      BY <1>3 DEF IncludeBlock
    <2>2. new.block = head + 1
      OBVIOUS
    <2> HIDE DEF new
    <2>3. pool' = {}
      BY <1>3 DEF IncludeBlock, StillValid, Inv, SubmissionInv, AtMostOneInFlight
    <2>4. \A r \in Runners : ~ (new.block <= snap[r])
      BY <2>2, Numbers DEF Inv, SubmissionInv, SnapshotsBehind
    <2> QED
      BY <1>1, <2>1, <2>3, <2>4 DEF LimitInv
  <1> QED
    BY <1>2, <1>3 DEF ChainNext

\* A run that moves on without broadcasting.
LEMMA LimitMove ==
  ASSUME AllInv, LimitInv, NEW r \in Runners, NEW step \in Steps, Goto(r, step),
         pool' = pool, included' = included,
         \A q \in Runners : q # r => pc[q] = "idle",
         step \in Submitting => pc[r] \in Submitting /\ snap' = snap
  PROVE  LimitInv'
  <1>1. \A q \in Runners : q # r => pc'[q] = "idle"
    BY DEF Goto, AllInv, Inv, TypeInv, ValidatorTypeOK
  <1>2. pc'[r] = step
    BY DEF Goto, AllInv, Inv, TypeInv, ValidatorTypeOK
  <1> QED
    BY <1>1, <1>2 DEF LimitInv, Submitting, Signing

\* With an up-to-date node no step does.
LEMMA LimitStep ==
  ASSUME MaxLag = 0
  PROVE  AllInv /\ LimitInv /\ [Next]_vars => LimitInv'
  <1> SUFFICES ASSUME AllInv, LimitInv, [Next]_vars PROVE LimitInv'
    OBVIOUS
  <1> USE DEF AllInv, chainVars
  <1>0. \A r \in Runners : pc[r] # "idle" => \A q \in Runners : q # r => pc[q] = "idle"
    BY DEF Inv, SubmissionInv, LockHeld
  <1>1. ASSUME NEW r \in Runners, TakeLock(r) PROVE LimitInv'
    <2>1. \A q \in Runners : pc[q] = "idle"
      BY <1>1, ValidatorAssumption DEF TakeLock, LockIsFree, Inv, SubmissionInv, LockHeld
    <2> QED
      BY <1>1, <2>1, LimitMove DEF TakeLock, Steps, Submitting, Signing
  <1>2. ASSUME NEW r \in Runners, ReadSnapshot(r) \/ FetchSummary(r) PROVE LimitInv'
    BY <1>0, <1>2, LimitMove DEF ReadSnapshot, FetchSummary, Steps, Submitting, Signing
  <1>3. ASSUME NEW r \in Runners, LoadState(r) \/ SaveSummary(r) \/ AlreadyOnChain(r)
        PROVE  LimitInv'
    BY <1>0, <1>3, LimitMove DEF LoadState, SaveSummary, AlreadyOnChain, Steps, Submitting,
       Signing
  <1>4. ASSUME NEW r \in Runners, CheckPending(r) \/ Sign(r) \/ SavePending(r)
        PROVE  LimitInv'
    BY <1>0, <1>4, LimitMove DEF CheckPending, Sign, SavePending, Steps, Submitting, Signing
  <1>5. ASSUME NEW r \in Runners, SeeSuccess(r) \/ ClearPending(r) PROVE LimitInv'
    BY <1>0, <1>5, LimitMove DEF SeeSuccess, ClearPending, Steps, Submitting, Signing
  <1>6. ASSUME NEW r \in Runners, StartSubmit(r) PROVE LimitInv'
    <2>1. \A i \in included : i.ok /\ i.block <= snap[r] => i.block + RateLimit <= snap[r]
      <3> SUFFICES ASSUME NEW i \in included, i.ok, i.block <= snap[r]
                   PROVE  i.block + RateLimit <= snap[r]
        OBVIOUS
      <3>1. ~ (snap[r] < i.block + RateLimit)
        BY <1>6 DEF StartSubmit, RateLimited
      <3> QED
        BY <3>1, Numbers, ChainAssumption
    <2>2. pc'[r] = "check" /\ \A q \in Runners : q # r => pc'[q] = "idle"
      BY <1>0, <1>6 DEF StartSubmit, Goto, Inv, TypeInv, ValidatorTypeOK
    <2>3. UNCHANGED <<snap, pool, included>>
      BY <1>6 DEF StartSubmit
    <2> QED
      BY <2>1, <2>2, <2>3 DEF LimitInv, Submitting, Signing
  <1>7. ASSUME NEW r \in Runners, Broadcast(r) PROVE LimitInv'
    <2>1. \A i \in included : i.ok => i.block + RateLimit <= snap[r]
      BY <1>7 DEF LimitInv, OnceInv, Caught, Broadcast, Submitting, Signing
    <2>2. pool' = {Tx(r)} /\ Tx(r).birth = snap[r] /\ included' = included
      BY <1>7 DEF Broadcast, Tx, Inv, SubmissionInv, Alone
    <2>3. \A q \in Runners : pc'[q] \in {"idle", "watch"}
      BY <1>0, <1>7 DEF Broadcast, Goto, Inv, TypeInv, ValidatorTypeOK
    <2> QED
      BY <2>1, <2>2, <2>3 DEF LimitInv, Submitting, Signing
  <1>8. ASSUME NEW r \in Runners, NothingToDo(r) \/ RecordBurn(r) \/ Abort(r)
        PROVE  LimitInv'
    <2>1. EndRun(r) /\ pc[r] # "idle" /\ pool' = pool /\ included' = included
      BY <1>8 DEF NothingToDo, RecordBurn, Abort
    <2>2. \A q \in Runners : pc'[q] = "idle"
      BY <1>0, <2>1 DEF EndRun, Goto, Inv, TypeInv, ValidatorTypeOK
    <2> QED
      BY <2>1, <2>2 DEF LimitInv, Submitting, Signing
  <1>9. CASE ChainNext /\ UNCHANGED <<lock, fileVars, runVars>>
    BY <1>9, LimitChain
  <1>10. CASE LoseState \/ UNCHANGED vars
    BY <1>10 DEF LoseState, vars, runVars, LimitInv
  <1> QED
    BY <1>1, <1>2, <1>3, <1>4, <1>5, <1>6, <1>7, <1>8, <1>9, <1>10 DEF Next, Progress

\* With an up-to-date node a broadcast extrinsic is never one the rate limit rejects, so
\* no rejected submission locks the hotkey out for an era (runtime.rs:179).
THEOREM NeverIntoLimit ==
  ASSUME MaxLag = 0
  PROVE  Spec => []NeverSentWhileRateLimited
  <1>1. ValidatorInit => AllInv /\ LimitInv
    BY TypeInit, SubmissionInit, RecordInit, OnceInit
    DEF AllInv, Inv, LimitInv, ValidatorInit, Init
  <1>2. (AllInv /\ LimitInv) /\ [Next]_vars => (AllInv /\ LimitInv)'
    BY TypeStep, SubmissionStep, RecordStep, OnceStep, LimitStep DEF AllInv, Inv
  <1>3. AllInv /\ LimitInv => NeverSentWhileRateLimited
    <2> SUFFICES ASSUME AllInv, LimitInv, NEW x \in pool, NEW i \in included, i.ok
                 PROVE  i.block + RateLimit <= head + 1
      BY DEF NeverSentWhileRateLimited, RateLimitPasses
    <2>1. i.block + RateLimit <= x.birth /\ x.birth < head + 1
      BY DEF LimitInv, AllInv, Inv, SubmissionInv, PoolIsLive, InEra
    <2> QED
      BY <2>1, Numbers, ChainAssumption DEF AllInv
  <1> QED
    BY <1>1, <1>2, <1>3, PTL DEF Spec

-----------------------------------------------------------------------------
(* The refinement *)

\* Initial states are initial states of EpochWeights.
LEMMA PromiseInit == ValidatorInit => Promise!AbstractInit
  BY DEF ValidatorInit, Init, Promise!AbstractInit, Landed, FreshState, NoBlock

\* A success is the landing of its epoch's weights, later than all before it.
LEMMA SuccessLands ==
  ASSUME MaxLag = 0 \/ Mortality <= RateLimit + 1,
         AllInv, NEW x \in pool, IncludeBlock(x, TRUE), state' = state
  PROVE  \E new \in Landed' : Promise!Land(new)
  <1> DEFINE i == [tx |-> x, block |-> head + 1, ok |-> TRUE]
             new == [epoch |-> x.epoch, block |-> head + 1]
  <1>1. included' = included \union {i} /\ i.ok /\ i.tx = x /\ i.block = head + 1
    BY DEF IncludeBlock
  <1>2. Landed' = Landed \union {new}
    BY <1>1 DEF Landed
  <1>3. new.epoch = x.epoch /\ new.block = head + 1
    OBVIOUS
  <1> HIDE DEF i, new
  <1>4. x.epoch \in EpochEnds
    BY DEF AllInv, Inv, TypeInv, ValidatorTypeOK, TypeOK, Extrinsic
  <1>5. x.epoch < head + 1
    <2>1. x.epoch <= x.birth /\ x.birth < head + 1
      BY DEF AllInv, OnceInv, BornAfterEpoch, IncludeBlock, InEra
    <2> QED
      BY <2>1, Numbers DEF AllInv
  <1>6. ASSUME NEW old \in Landed PROVE old.epoch # x.epoch /\ old.block < head + 1
    <2>1. PICK j \in included : j.ok /\ old = [epoch |-> j.tx.epoch, block |-> j.block]
      BY <1>6 DEF Landed
    <2>2. j.tx.epoch # x.epoch
      BY <2>1, ExecutedOnce
    <2>3. j.block <= head
      BY DEF AllInv, RecordInv, InclusionsInEra
    <2> QED
      BY <2>1, <2>2, <2>3, Numbers DEF AllInv
  <1>7. Promise!Land(new)
    BY <1>2, <1>3, <1>4, <1>5, <1>6 DEF Promise!Land
  <1> QED
    BY <1>2, <1>7

\* A failed extrinsic lands nothing.
LEMMA FailureShowsNothing ==
  ASSUME NEW x \in pool, IncludeBlock(x, FALSE)
  PROVE  Landed' = Landed
  <1> DEFINE i == [tx |-> x, block |-> head + 1, ok |-> FALSE]
  <1>1. included' = included \union {i} /\ ~ i.ok
    BY DEF IncludeBlock
  <1> HIDE DEF i
  <1> QED
    BY <1>1 DEF Landed

\* Every step records, forgets or lands an epoch, or shows nothing.
LEMMA PromiseStep ==
  ASSUME MaxLag = 0 \/ Mortality <= RateLimit + 1, AllInv, [Next]_vars
  PROVE  [Promise!AbstractNext]_(Promise!abstractVars)
  <1> USE DEF AllInv
  <1>1. ASSUME Landed' = Landed, state' = state PROVE UNCHANGED Promise!abstractVars
    BY <1>1 DEF Promise!abstractVars
  <1>2. ASSUME included' = included PROVE Landed' = Landed
    BY <1>2 DEF Landed
  <1>3. ASSUME NEW r \in Runners, SaveSummary(r) PROVE Promise!AbstractNext
    <2>1. Landed' = Landed
      BY <1>2, <1>3 DEF SaveSummary, chainVars
    <2>2. Promise!Process(summary[r].end)
      BY <1>3, <2>1, SavedFields DEF Promise!Process
    <2> QED
      BY <1>3, <2>2, SavedFields DEF Promise!AbstractNext
  <1>4. ASSUME NEW r \in Runners, RecordBurn(r)
        PROVE  Promise!AbstractNext \/ UNCHANGED Promise!abstractVars
    <2>1. Landed' = Landed
      BY <1>2, <1>4 DEF RecordBurn, chainVars
    <2>2. state'.end = state.end /\ state'.burn = state.end /\ UpdatedSince(state.end, head)
      BY <1>4, BurnFields
    <2>3. CASE state.burn = state.end
      BY <2>1, <2>2, <2>3 DEF Promise!abstractVars
    <2>4. CASE state.burn # state.end
      <3>1. state.burn < state.end
        BY <2>4, FileBlocks
      <3>2. PICK i \in included : i.ok /\ state.end <= i.block
        BY <2>2 DEF UpdatedSince
      <3>3. \E l \in Landed : state.end <= l.block
        <4>1. [epoch |-> i.tx.epoch, block |-> i.block] \in Landed
          BY <3>2 DEF Landed
        <4> QED
          BY <3>2, <4>1
      <3>4. Promise!Settle
        BY <2>1, <2>2, <3>1, <3>3 DEF Promise!Settle
      <3> QED
        BY <3>4 DEF Promise!AbstractNext
    <2> QED
      BY <2>3, <2>4
  <1>5. CASE LoseState
    <2>1. Landed' = Landed /\ state' = FreshState
      BY <1>2, <1>5 DEF LoseState, chainVars
    <2>2. Promise!Forget
      BY <2>1 DEF Promise!Forget, FreshState, NoBlock
    <2> QED
      BY <2>2 DEF Promise!AbstractNext
  <1>6. CASE state' = state
    <2>1. CASE included' = included
      BY <1>1, <1>2, <1>6, <2>1
    <2>2. CASE EmptyBlock
      BY <1>1, <1>2, <1>6, <2>2 DEF EmptyBlock
    <2>3. ASSUME NEW x \in pool, NEW ok \in BOOLEAN, IncludeBlock(x, ok)
          PROVE  [Promise!AbstractNext]_(Promise!abstractVars)
      <3>1. CASE ok = TRUE
        BY <1>6, <2>3, <3>1, SuccessLands DEF Promise!AbstractNext
      <3>2. CASE ok = FALSE
        BY <1>1, <1>6, <2>3, <3>2, FailureShowsNothing
      <3> QED
        BY <3>1, <3>2
    <2> QED
      BY <2>1, <2>2, <2>3, OnlyTheChainIncludes DEF ChainNext
  <1> QED
    BY <1>3, <1>4, <1>5, <1>6, OnlyTheseWrite

\* Runs, crashes, lagging nodes and the chain together do nothing that EpochWeights does
\* not allow: epochs in order, at most one landing each and past its end, and a record of
\* a burn only over a landing.
THEOREM ImplementsPromise ==
  ASSUME MaxLag = 0 \/ Mortality <= RateLimit + 1
  PROVE  Spec => KeepsPromise
  <1>1. ValidatorInit => AllInv
    BY TypeInit, SubmissionInit, RecordInit, OnceInit DEF AllInv, Inv
  <1>2. AllInv /\ [Next]_vars => AllInv'
    BY TypeStep, SubmissionStep, RecordStep, OnceStep DEF AllInv, Inv
  <1>3. AllInv /\ [Next]_vars => [Promise!AbstractNext]_(Promise!abstractVars)
    BY PromiseStep
  <1> QED
    BY <1>1, <1>2, <1>3, PromiseInit, PTL DEF Spec, KeepsPromise, Promise!AbstractSpec
=============================================================================
