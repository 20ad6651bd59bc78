--------------------------- MODULE MCUpdaterDisk ---------------------------
(* Values for TLC: manifest 1 is for the version installed first, 2 and 3 for the
   same version signed twice, 4 for one that never passes its health check. *)
EXTENDS UpdaterDisk

CONSTANTS v1, v2, v3

MCVersionOf ==
    [s \in Sequences |-> CASE s = 1 -> v1 [] s \in {2, 3} -> v2 [] s = 4 -> v3]
=============================================================================
