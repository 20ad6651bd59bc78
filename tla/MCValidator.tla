---------------------------- MODULE MCValidator ----------------------------
(* Values for TLC.  Runners and Ids are interchangeable. *)
EXTENDS Validator, TLC

MCEpochEnds == {3, 7}

Symmetry == Permutations(Runners) \union Permutations(Ids)
=============================================================================
