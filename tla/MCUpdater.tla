----------------------------- MODULE MCUpdater -----------------------------
(* Values for TLC: manifest 1 is for the version installed first, 2 for a good version,
   3 for one that never passes its health check. *)
EXTENDS UpdaterCalm

CONSTANTS v1, v2, v3

MCVersionOf == [s \in Sequences |-> CASE s = 1 -> v1 [] s = 2 -> v2 [] s = 3 -> v3]
=============================================================================
