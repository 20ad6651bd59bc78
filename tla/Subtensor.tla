----------------------------- MODULE Subtensor -----------------------------
(***************************************************************************)
(* The subnet as the validator sees it: the finalized chain, the network's *)
(* transaction pool and the weight extrinsics this hotkey's LastUpdate     *)
(* records.  The chain itself is not part of the repository; it is         *)
(* modelled from the storage src/src/chain.rs reads and the mortal         *)
(* extrinsics src/src/burn.rs signs.  What the weights are does not matter *)
(* here: an extrinsic carries the summary it was computed from.  Operators *)
(* marked "Fault:" are mistakes the properties must notice, see Validator. *)
(***************************************************************************)
EXTENDS Naturals

CONSTANTS
    EpochEnds,   \* the blocks at which the subnet steps (LastMechansimStepBlock)
    Ids,         \* the platform's summaries (summary_id and digest together)
    Mortality,   \* MORTALITY_BLOCKS
    RateLimit,   \* WeightsSetRateLimit
    MaxLag,      \* how many blocks the connected node may be behind the chain
    MaxBlock     \* bound: the last block of a behaviour

ASSUME ChainAssumption ==
    /\ EpochEnds \subseteq Nat \ {0}
    /\ Mortality \in Nat \ {0}
    /\ RateLimit \in Nat
    /\ MaxLag \in Nat
    /\ MaxBlock \in Nat \ {0}

VARIABLES
    head,        \* number of the finalized head
    nonce,       \* the hotkey's account nonce on the finalized chain
    pool,        \* this hotkey's extrinsics the network may still include
    included     \* this hotkey's extrinsics in finalized blocks, with their outcome

chainVars == <<head, nonce, pool, included>>

\* A signed weights extrinsic: the epoch and the summary its weights are for, the
\* finalized block its mortal era starts at, and its nonce.
Extrinsic == [epoch: EpochEnds, id: Ids, birth: Nat, nonce: Nat]

Inclusion == [tx: Extrinsic, block: Nat, ok: BOOLEAN]

\* The era of x admits block b: it is dead from birth + Mortality on.
InEra(x, b) == x.birth < b /\ b < x.birth + Mortality

\* The chain's own rate limit on a weights extrinsic in block b.
RateLimitPasses(b) ==
    \A i \in included : i.ok => i.block + RateLimit <= b

Init ==
    /\ head = 1
    /\ nonce = 0
    /\ pool = {}
    /\ included = {}

\* The pool after block b: extrinsics the next block cannot hold are dropped.
StillValid(txs, b) == {x \in txs : InEra(x, b + 1)}

\* A finalized block without an extrinsic of this hotkey.
EmptyBlock ==
    /\ head < MaxBlock
    /\ head' = head + 1
    /\ pool' = StillValid(pool, head')
    /\ UNCHANGED <<nonce, included>>

\* A finalized block holds x.  It may fail for reasons of the chain's own (stake,
\* version key, reveal limits), and always fails inside the rate limit; only a
\* success sets LastUpdate, which is the block of the last success.
IncludeBlock(x, ok) ==
    /\ head < MaxBlock
    /\ x.nonce = nonce
    /\ InEra(x, head + 1)
    /\ ok => RateLimitPasses(head + 1)
    /\ head' = head + 1
    /\ nonce' = nonce + 1
    /\ included' = included \union {[tx |-> x, block |-> head + 1, ok |-> ok]}
    /\ pool' = StillValid(pool \ {x}, head')

ChainNext ==
    \/ EmptyBlock
    \/ \E x \in pool, ok \in BOOLEAN : IncludeBlock(x, ok)

-----------------------------------------------------------------------------
(* What a read pinned to finalized block b returns.                         *)

\* last_step at block b is e.
IsLastStep(e, b) ==
    /\ e \in EpochEnds
    /\ e <= b
    /\ \A d \in EpochEnds : d <= b => d <= e

\* Fault: any LastUpdate counts.
EverUpdated(e, b) == \E i \in included : i.ok /\ i.block <= b

\* LastUpdate of the validator at block b is at least block e.
UpdatedSince(e, b) ==
    \E i \in included : i.ok /\ e <= i.block /\ i.block <= b

\* Fault: the rate limit is not looked at.
NeverRateLimited(b) == FALSE

\* LastUpdate + WeightsSetRateLimit is ahead of block b, and LastUpdate is set.
RateLimited(b) ==
    \E i \in included : i.ok /\ i.block <= b /\ b < i.block + RateLimit

TypeOK ==
    /\ head \in Nat \ {0}
    /\ nonce \in Nat
    /\ pool \subseteq Extrinsic
    /\ included \subseteq Inclusion
=============================================================================
