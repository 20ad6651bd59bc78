---------------------------- MODULE EpochWeights ----------------------------
(***************************************************************************)
(* What the validator promises, without runs, locks, files or submissions: *)
(* epochs are processed in order, an epoch's weights land on the chain at  *)
(* most once and after its end, and the epoch being processed is settled   *)
(* only once weights have landed past its end.  The local records may be   *)
(* lost; landed weights are not.                                           *)
(***************************************************************************)
EXTENDS Naturals

CONSTANT EpochEnds

VARIABLES
    landed,      \* weights on chain: the epoch they are for and their block
    processed,   \* end of the last epoch scored, 0 for none
    settled      \* end of the last epoch whose burn is recorded, 0 for none

abstractVars == <<landed, processed, settled>>

AbstractInit ==
    /\ landed = {}
    /\ processed = 0
    /\ settled = 0

Process(epoch) ==
    /\ processed < epoch
    /\ processed' = epoch
    /\ UNCHANGED <<landed, settled>>

Land(new) ==
    /\ new.epoch \in EpochEnds
    /\ new.epoch < new.block
    /\ \A old \in landed : old.epoch # new.epoch /\ old.block < new.block
    /\ landed' = landed \union {new}
    /\ UNCHANGED <<processed, settled>>

Settle ==
    /\ settled < processed
    /\ \E l \in landed : processed <= l.block
    /\ settled' = processed
    /\ UNCHANGED <<landed, processed>>

Forget ==
    /\ processed' = 0
    /\ settled' = 0
    /\ UNCHANGED landed

AbstractNext ==
    \/ \E epoch \in EpochEnds : Process(epoch)
    \/ \E new \in landed' : Land(new)
    \/ Settle
    \/ Forget

AbstractSpec == AbstractInit /\ [][AbstractNext]_abstractVars
=============================================================================
