-------------------------- MODULE ValidatorRecovery --------------------------
(***************************************************************************)
(* The validator after trouble.  Up to block CalmBy anything module        *)
(* Validator allows may happen: kills, timeouts, failed writes, lost state *)
(* files, extrinsics that fail or never land.  From some moment on the     *)
(* world is calm: nothing fails of itself, serve's loop (src/src/main.rs)  *)
(* polls after at most PollEvery blocks, a run ends within the block it    *)
(* started in unless it waits for its extrinsic, and the chain executes    *)
(* what is in its pool.  What trouble left on disk must then clear up.     *)
(***************************************************************************)
EXTENDS Validator

CONSTANTS
    PollEvery,   \* the poll interval in blocks
    CalmBy       \* bound: the last block before which trouble may happen

ASSUME RecoveryAssumption == CalmBy \in 1..MaxBlock /\ PollEvery \in Nat \ {0}

VARIABLES
    calm,        \* trouble is over
    unpolled     \* blocks since a run last looked at the head, up to PollEvery

recoveryVars == <<vars, calm, unpolled>>

RecoveryInit ==
    /\ ValidatorInit
    /\ calm = FALSE
    /\ unpolled = PollEvery

Trouble ==
    /\ ~ calm
    /\ head < CalmBy
    /\ Next
    /\ UNCHANGED <<calm, unpolled>>

CalmDown ==
    /\ ~ calm
    /\ calm' = TRUE
    /\ UNCHANGED <<vars, unpolled>>

\* A run that only waits for its extrinsic to be finalized.
Watching(r) == pc[r] = "watch" /\ Tx(r) \in pool

\* At most one poll a block: the next iteration of serve's loop, or a run going on.
CalmRun(r) ==
    /\ calm
    /\ pc[r] = "idle" => unpolled > 0
    /\ Progress(r)
    /\ unpolled' = IF pc[r] = "snapshot" THEN 0 ELSE unpolled
    /\ UNCHANGED calm

\* A run the code itself refuses to continue, or whose watch can only time out.
CalmRefusal(r) ==
    /\ calm
    /\ ~ ENABLED Progress(r)
    /\ ~ Watching(r)
    /\ Abort(r)
    /\ UNCHANGED <<calm, unpolled>>

Executable(x) == /\ x.nonce = nonce
                 /\ InEra(x, head + 1)
                 /\ RateLimitPasses(head + 1)

CalmBlock ==
    /\ calm
    /\ unpolled < PollEvery \/ \E r \in Runners : Watching(r)
    /\ \A r \in Runners : pc[r] = "idle" \/ Watching(r)
    /\ \/ \E x \in pool : Executable(x) /\ IncludeBlock(x, TRUE)
       \/ ~ (\E x \in pool : Executable(x)) /\ EmptyBlock
    /\ unpolled' = IF unpolled < PollEvery THEN unpolled + 1 ELSE unpolled
    /\ UNCHANGED <<lock, fileVars, runVars, calm>>

CalmNext == CalmBlock \/ \E r \in Runners : CalmRun(r) \/ CalmRefusal(r)

RecoverySpec ==
    /\ RecoveryInit
    /\ [][Trouble \/ CalmDown \/ CalmNext]_recoveryVars
    /\ WF_recoveryVars(CalmDown)
    /\ WF_recoveryVars(CalmNext)

-----------------------------------------------------------------------------
\* Once trouble is over the last epoch is settled for good: an uncertain
\* submission, a rate limit or a lost record delays it and never wedges it.
EventuallySettled ==
    <>[](\E end \in EpochEnds : IsLastStep(end, MaxBlock) /\ state.burn = end)
=============================================================================
