---------------------------- MODULE MCReinstall ----------------------------
EXTENDS Reinstall

CONSTANTS v1, v2, v3

MCVersionOf == [s \in Sequences |-> CASE s = 1 -> v1 [] s = 2 -> v2 [] s = 3 -> v3]
=============================================================================
