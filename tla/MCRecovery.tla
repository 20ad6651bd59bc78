----------------------------- MODULE MCRecovery -----------------------------
(* Values for TLC: two epochs; trouble may last into the second one, and the
   blocks left after it exceed an era, the rate limit and two poll intervals. *)
EXTENDS ValidatorRecovery

MCEpochEnds == {2, 5}
=============================================================================
