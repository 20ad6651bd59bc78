----------------------------- MODULE Validator -----------------------------
(***************************************************************************)
(* run_once (src/src/runtime.rs) with the state store (state.rs) and the   *)
(* burn writer (burn.rs): several processes on one state path, each        *)
(* running lock / snapshot / fetch / load / score / submit / record, one   *)
(* action per read or durable write, over the chain of module Subtensor.   *)
(*                                                                         *)
(* Abort ends a run at any of its steps.  It is every early error return   *)
(* (`?`), the transaction timeout, a failed write and a killed process:    *)
(* each leaves the files as the completed steps left them and releases the *)
(* lock.  A write whose rename landed but whose directory sync failed is   *)
(* the write followed by Abort.                                            *)
(*                                                                         *)
(* Operators marked "Fault:" are not part of the specification.  Each is a *)
(* plausible mistake in the definition that follows it, kept to show that  *)
(* the properties below would notice it.                                   *)
(***************************************************************************)
EXTENDS Subtensor

CONSTANTS
    Runners,     \* processes sharing the state path: the service, a manual run-once
    NoId,        \* summary_id absent
    NoRunner     \* the lock is free

ASSUME ValidatorAssumption ==
    /\ NoId \notin Ids
    /\ NoRunner \notin Runners

VARIABLES
    lock,        \* holder of <state>.lock
    state,       \* the state file; block 0 stands for an absent block
    pending,     \* expires_at of <state>.submission.json; 0 when null or missing
    pc,          \* per runner: its next step, "idle" between runs
    snap,        \* per runner: finalized_block of its snapshot
    summary,     \* per runner: the verified summary
    saved,       \* per runner: the loaded state
    txNonce      \* per runner: the nonce its extrinsic is signed with

fileVars == <<state, pending>>
runVars == <<pc, snap, summary, saved, txNonce>>
vars == <<chainVars, lock, fileVars, runVars>>

NoBlock == 0

Steps == {"snapshot", "fetch", "load", "score", "burn", "check", "sign",
          "guard", "send", "watch", "clear", "record"}

State == [end: EpochEnds \union {NoBlock},
          id: Ids \union {NoId},
          burn: EpochEnds \union {NoBlock}]

Summary == [end: EpochEnds \union {NoBlock}, id: Ids \union {NoId}]

FreshState == [end |-> NoBlock, id |-> NoId, burn |-> NoBlock]
NoSummary == [end |-> NoBlock, id |-> NoId]

\* The checks StateStore::load makes on the fields of the file.
Loadable(s) ==
    /\ (s.end = NoBlock) <=> (s.id = NoId)
    /\ s.burn <= s.end

\* The extrinsic runner r signs: this summary's weights, mortal from its snapshot.
Tx(r) == [epoch |-> summary[r].end, id |-> summary[r].id,
          birth |-> snap[r], nonce |-> txNonce[r]]

ValidatorInit ==
    /\ Init
    /\ lock = NoRunner
    /\ state = FreshState
    /\ pending = NoBlock
    /\ pc = [r \in Runners |-> "idle"]
    /\ snap = [r \in Runners |-> NoBlock]
    /\ summary = [r \in Runners |-> NoSummary]
    /\ saved = [r \in Runners |-> FreshState]
    /\ txNonce = [r \in Runners |-> 0]

-----------------------------------------------------------------------------
Goto(r, step) == pc' = [pc EXCEPT ![r] = step]

\* The run returns (or its process dies): the lock file is closed, its memory gone.
EndRun(r) ==
    /\ Goto(r, "idle")
    /\ lock' = NoRunner
    /\ snap' = [snap EXCEPT ![r] = NoBlock]
    /\ summary' = [summary EXCEPT ![r] = NoSummary]
    /\ saved' = [saved EXCEPT ![r] = FreshState]
    /\ txNonce' = [txNonce EXCEPT ![r] = 0]

\* Fault: the lock is opened and never taken.
LockIgnored == TRUE

\* try_lock succeeds.
LockIsFree == lock = NoRunner

\* A contended lock ends the run before it has read anything.
TakeLock(r) ==
    /\ pc[r] = "idle"
    /\ LockIsFree
    /\ lock' = r
    /\ Goto(r, "snapshot")
    /\ UNCHANGED <<chainVars, fileVars, snap, summary, saved, txNonce>>

\* Chain::snapshot: the finalized head of the node this run connected to.
ReadSnapshot(r) ==
    /\ pc[r] = "snapshot"
    /\ \E block \in 1..head :
          /\ head <= block + MaxLag
          /\ snap' = [snap EXCEPT ![r] = block]
    /\ Goto(r, "fetch")
    /\ UNCHANGED <<chainVars, lock, fileVars, summary, saved, txNonce>>

\* Fetch, verify and validate_chain: whatever the platform serves, a summary
\* goes on only when its epoch is the snapshot's last step.
FetchSummary(r) ==
    /\ pc[r] = "fetch"
    /\ \E end \in EpochEnds, id \in Ids :
          /\ IsLastStep(end, snap[r])
          /\ summary' = [summary EXCEPT ![r] = [end |-> end, id |-> id]]
    /\ Goto(r, "load")
    /\ UNCHANGED <<chainVars, lock, fileVars, snap, saved, txNonce>>

\* Fault: an older summary is scored like a new one.
AcceptedUnlessChanged(s) == state.end = s.end => state.id = s.id

\* Fault: only the age of a summary is looked at.
AcceptedUnlessOlder(s) == state.end <= s.end

\* Neither OlderEpochSummary nor ChangedEpochSummary.
Accepted(s) ==
    /\ state.end <= s.end
    /\ state.end = s.end => state.id = s.id

\* Fault: every run scores.
NeverProcessed(s) == FALSE

AlreadyProcessed(s) == state.end = s.end

LoadState(r) ==
    /\ pc[r] = "load"
    /\ Loadable(state)
    /\ Accepted(summary[r])
    /\ saved' = [saved EXCEPT ![r] = state]
    /\ Goto(r, IF AlreadyProcessed(summary[r]) THEN "burn" ELSE "score")
    /\ UNCHANGED <<chainVars, lock, fileVars, snap, summary, txNonce>>

\* A new epoch is scored and its summary recorded; the burn record is kept.
SaveSummary(r) ==
    /\ pc[r] = "score"
    /\ state' = [saved[r] EXCEPT !.end = summary[r].end, !.id = summary[r].id]
    /\ saved' = [saved EXCEPT ![r] = state']
    /\ Goto(r, "burn")
    /\ UNCHANGED <<chainVars, lock, pending, snap, summary, txNonce>>

\* The epoch's burn is already recorded, or the chain would still rate-limit it:
\* the run ends and the next poll looks again.
NothingToDo(r) ==
    /\ pc[r] = "burn"
    /\ \/ saved[r].burn = summary[r].end
       \/ /\ ~ UpdatedSince(summary[r].end, snap[r])
          /\ RateLimited(snap[r])
    /\ EndRun(r)
    /\ UNCHANGED <<chainVars, fileVars>>

\* LastUpdate already covers the epoch: only the record is missing.
AlreadyOnChain(r) ==
    /\ pc[r] = "burn"
    /\ saved[r].burn # summary[r].end
    /\ UpdatedSince(summary[r].end, snap[r])
    /\ Goto(r, "record")
    /\ UNCHANGED <<chainVars, lock, fileVars, snap, summary, saved, txNonce>>

StartSubmit(r) ==
    /\ pc[r] = "burn"
    /\ saved[r].burn # summary[r].end
    /\ ~ UpdatedSince(summary[r].end, snap[r])
    /\ ~ RateLimited(snap[r])
    /\ Goto(r, "check")
    /\ UNCHANGED <<chainVars, lock, fileVars, snap, summary, saved, txNonce>>

\* Fault: the submission record is written but not read back.
NeverUncertain(block) == FALSE

\* Fault: the record blocks for as long as it exists.
UncertainForEver(block) == pending # NoBlock

\* A recorded submission may still execute as far as finalized block tells.
Uncertain(block) == pending # NoBlock /\ block < pending

\* check_pending
CheckPending(r) ==
    /\ pc[r] = "check"
    /\ ~ Uncertain(snap[r])
    /\ Goto(r, "sign")
    /\ UNCHANGED <<chainVars, lock, fileVars, snap, summary, saved, txNonce>>

\* Price and build the weights (pure, or Abort), then sign with the nonce
\* system_accountNextIndex gives: past the extrinsics the node knows of.
Sign(r) ==
    /\ pc[r] = "sign"
    /\ \E next \in {nonce} \union {x.nonce + 1 : x \in pool} :
          txNonce' = [txNonce EXCEPT ![r] = next]
    /\ Goto(r, "guard")
    /\ UNCHANGED <<chainVars, lock, fileVars, snap, summary, saved>>

\* Fault: the era is taken to end at the block it starts from.
ExpiresAtOnce(block) == block

ExpiresAt(block) == block + Mortality

\* save_pending(Some): durable before the extrinsic can reach the network.
SavePending(r) ==
    /\ pc[r] = "guard"
    /\ pending' = ExpiresAt(snap[r])
    /\ Goto(r, "send")
    /\ UNCHANGED <<chainVars, lock, state, snap, summary, saved, txNonce>>

\* submit_and_watch: the node accepts the extrinsic while its era is open.
Broadcast(r) ==
    /\ pc[r] = "send"
    /\ InEra(Tx(r), head + 1)
    /\ pool' = pool \union {Tx(r)}
    /\ Goto(r, "watch")
    /\ UNCHANGED <<head, nonce, included, lock, fileVars, snap, summary, saved,
                   txNonce>>

\* Fault: finalization is taken for success.
Finalized(tx) == \E i \in included : i.tx = tx

\* wait_for_finalized and wait_for_success see ExtrinsicSuccess.
Succeeded(tx) == \E i \in included : i.tx = tx /\ i.ok

SeeSuccess(r) ==
    /\ pc[r] = "watch"
    /\ Succeeded(Tx(r))
    /\ Goto(r, "clear")
    /\ UNCHANGED <<chainVars, lock, fileVars, snap, summary, saved, txNonce>>

\* save_pending(None)
ClearPending(r) ==
    /\ pc[r] = "clear"
    /\ pending' = NoBlock
    /\ Goto(r, "record")
    /\ UNCHANGED <<chainVars, lock, state, snap, summary, saved, txNonce>>

\* Fault: the burn is recorded at the snapshot's block.
RecordBurnAtSnapshot(r) ==
    /\ pc[r] = "record"
    /\ state' = [saved[r] EXCEPT !.burn = snap[r]]
    /\ EndRun(r)
    /\ UNCHANGED <<chainVars, pending>>

\* The last save of run_once.
RecordBurn(r) ==
    /\ pc[r] = "record"
    /\ state' = [saved[r] EXCEPT !.burn = summary[r].end]
    /\ EndRun(r)
    /\ UNCHANGED <<chainVars, pending>>

Abort(r) ==
    /\ pc[r] # "idle"
    /\ EndRun(r)
    /\ UNCHANGED <<chainVars, fileVars>>

\* The state file is lost between runs; the submission record, a file of its own,
\* is not.
LoseState ==
    /\ lock = NoRunner
    /\ state # FreshState
    /\ state' = FreshState
    /\ UNCHANGED <<chainVars, lock, pending, runVars>>

Progress(r) ==
    \/ TakeLock(r) \/ ReadSnapshot(r) \/ FetchSummary(r) \/ LoadState(r)
    \/ SaveSummary(r) \/ NothingToDo(r) \/ AlreadyOnChain(r) \/ StartSubmit(r)
    \/ CheckPending(r) \/ Sign(r) \/ SavePending(r) \/ Broadcast(r)
    \/ SeeSuccess(r) \/ ClearPending(r) \/ RecordBurn(r)

Next ==
    \/ \E r \in Runners : Progress(r) \/ Abort(r)
    \/ ChainNext /\ UNCHANGED <<lock, fileVars, runVars>>
    \/ LoseState

Spec == ValidatorInit /\ [][Next]_vars

-----------------------------------------------------------------------------
(* Properties *)

ValidatorTypeOK ==
    /\ TypeOK
    /\ lock \in Runners \union {NoRunner}
    /\ state \in State
    /\ pending \in Nat
    /\ pc \in [Runners -> Steps \union {"idle"}]
    /\ snap \in [Runners -> Nat]
    /\ summary \in [Runners -> Summary]
    /\ saved \in [Runners -> State]
    /\ txNonce \in [Runners -> Nat]

\* However runs, crashes, timeouts and lost state files interleave, the network
\* never holds two weight extrinsics of this hotkey that can both still execute.
AtMostOneInFlight == \A x, y \in pool : x = y

\* Whatever a crash leaves behind, an extrinsic that can still execute is covered
\* by the submission record on disk for its whole era.
InFlightIsGuarded == \A x \in pool : x.birth + Mortality <= pending

\* The chain executes one epoch's weights at most once, also when the state file
\* is lost and when the outcome of a submission was never seen.
WeightsOncePerEpoch ==
    \A i, j \in included : i.ok /\ j.ok /\ i.tx.epoch = j.tx.epoch => i = j

\* A burn recorded for an epoch means LastUpdate moved after that epoch ended.
RecordedMeansUpdated ==
    state.burn # NoBlock => UpdatedSince(state.burn, head)

\* The state file the validator itself writes is always one it accepts: the burn
\* record never overtakes the summary (InconsistentBurnEpoch stays unreachable).
StateLoadable == Loadable(state)

\* An extrinsic in the pool is never one the rate limit rejects, so a failed
\* submission does not lock the hotkey out for an era (comment at runtime.rs:180).
NeverSentWhileRateLimited == pool # {} => RateLimitPasses(head + 1)

\* Between losses of the state file its records only move forward: a processed
\* summary is never replaced by an older or a changed one, nor a burn taken back.
RecordsOnlyAdvance ==
    [][state' # FreshState =>
          /\ state.end <= state'.end
          /\ state.end = state'.end => state.id \in {NoId, state'.id}
          /\ state.burn <= state'.burn]_state

\* Weights leave the validator only for the summary its state file records, also
\* when an epoch is retried by a later run with the summary fetched anew.
BroadcastMatchesRecord ==
    [][\A x \in pool' \ pool : x.epoch = state.end /\ x.id = state.id]_pool

\* Each epoch is scored once: a run that scores finds an older epoch on disk.
ScoredOnce ==
    [][\A r \in Runners :
          pc[r] = "score" /\ pc'[r] = "burn" => state.end < summary[r].end]_vars

\* What "LastUpdate is sufficient" (src/tests/run_once.rs:568) asks of the code: an
\* epoch recorded as burned has that epoch's own weights on the chain.
RecordedEpochHasItsWeights ==
    state.burn # NoBlock => \E i \in included : i.ok /\ i.tx.epoch = state.burn

-----------------------------------------------------------------------------
(* Refinement of EpochWeights *)

Landed == {[epoch |-> i.tx.epoch, block |-> i.block] : i \in {j \in included : j.ok}}

Promise == INSTANCE EpochWeights WITH
    landed <- Landed, processed <- state.end, settled <- state.burn

\* Runs, crashes and the chain together do nothing the promise does not allow.
KeepsPromise == Promise!AbstractSpec
=============================================================================
