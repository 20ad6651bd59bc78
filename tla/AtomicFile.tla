----------------------------- MODULE AtomicFile -----------------------------
(***************************************************************************)
(* What a caller of StateStore::save relies on: a reader finds one whole   *)
(* value, a save replaces it in one step, and a power loss may bring back  *)
(* the value before it until the save has returned Ok.                     *)
(***************************************************************************)
CONSTANTS Values, Absent

VARIABLES
    shown,   \* what a reader finds
    safe,    \* what a reader may find after a power loss
    ok       \* the last save begun has returned Ok

atomicVars == <<shown, safe, ok>>

AtomicInit ==
    /\ shown \in Values \union {Absent}
    /\ safe = {shown}
    /\ ok = TRUE

Begin ==
    /\ ok' = FALSE
    /\ UNCHANGED <<shown, safe>>

Replace ==
    /\ ~ ok
    /\ shown' \in Values
    /\ safe' = safe \union {shown'}
    /\ UNCHANGED ok

Return ==
    /\ safe' = {shown}
    /\ ok' = TRUE
    /\ UNCHANGED shown

Lose ==
    /\ shown' \in safe
    /\ safe' = {shown'}
    /\ UNCHANGED ok

AtomicNext == Begin \/ Replace \/ Return \/ Lose

AtomicSpec == AtomicInit /\ [][AtomicNext]_atomicVars
=============================================================================
