-------------------------- MODULE MCRevealSchedule --------------------------
(* Values for TLC: every tempo, every age of the last epoch, and epochs that are pending
   (already due up to past the next regular one) or overdue. *)
EXTENDS RevealSchedule

CONSTANT FirstBlock

MCHeads ==
    {[block |-> FirstBlock, last |-> FirstBlock - age, pending |-> pending, epoch |-> 1,
      tempo |-> tempo, since |-> IF overdue THEN MaxTempo + 1 ELSE age] :
        tempo \in 0..MaxTempo, age \in 0..FirstBlock, overdue \in BOOLEAN,
        pending \in {0} \union FirstBlock..(FirstBlock + MaxTempo + 1)}
=============================================================================
