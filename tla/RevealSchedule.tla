--------------------------- MODULE RevealSchedule ---------------------------
(***************************************************************************)
(* When the chain reveals a timelocked commit, and when the validator      *)
(* expects it to (src/src/commit_reveal.rs).  reveal_block simulates the   *)
(* chain's epoch counter from a state read at the best head; the commit is *)
(* included some blocks later, within its era.  The chain is external: its *)
(* epoch runs as the code simulates it, it reveals before the epoch with a *)
(* lookahead of one, and it stamps a commit with the counter it finds.     *)
(* "Fault:" operators are mistakes the properties must notice.             *)
(***************************************************************************)
EXTENDS Naturals

CONSTANTS
    MaxTempo,     \* MAX_TEMPO
    MaxPeriod,    \* the longest reveal period that is accepted
    Heads,        \* states of the chain at the best head the model starts from
    Periods,      \* reveal periods of the subnet
    MaxBlock,     \* bound
    MaxLag,       \* how far the finalized head is behind the best head
    Mortality,    \* MORTALITY_BLOCKS
    None

Schedule == [block: Nat, last: Nat, pending: Nat, epoch: Nat, tempo: Nat, since: Nat]

\* A state the chain can be in: blocks are counted since the last epoch, unless one is
\* overdue.  A tempo that was lowered, a pending epoch, however far ahead, or an overdue
\* step can make the next epoch due before the tempo does.
Possible(s) ==
    /\ s \in Schedule
    /\ s.last <= s.block
    /\ s.tempo <= MaxTempo
    /\ s.since > MaxTempo \/ s.since = s.block - s.last

ASSUME RevealAssumption ==
    /\ {MaxTempo, MaxPeriod, MaxBlock, MaxLag, Mortality} \subseteq Nat
    /\ MaxPeriod + 1 <= MaxTempo
    /\ \A s \in Heads : Possible(s)
    /\ Periods \subseteq Nat
    /\ None \notin Nat

VARIABLES
    head,       \* the chain at its best head, a Schedule
    finalized,  \* the chain at its finalized head
    period,     \* RevealPeriodEpochs
    born,       \* the first block of the commit's era, or None
    seen,       \* the block whose state the schedule was computed from
    expected,   \* the block in which the commit is expected to be revealed
    included,   \* the block that included the commit
    stamp,      \* the epoch the chain keeps it under
    revealed    \* the block that revealed it

commitVars == <<born, seen, expected>>
vars == <<head, finalized, period, commitVars, included, stamp, revealed>>

EpochDue(s, block) ==
    \/ s.pending > 0 /\ block >= s.pending
    \/ s.since > MaxTempo
    \/ block >= s.last /\ block - s.last >= s.tempo

\* The counter as a reveal in this block sees it.
Lookahead(s, block) == s.epoch + IF EpochDue(s, block) THEN 1 ELSE 0

\* One block of the chain.
Step(s) ==
    LET block == s.block + 1
        counted == [s EXCEPT !.block = block, !.since = @ + 1]
    IN IF EpochDue(counted, block)
       THEN [counted EXCEPT !.last = block, !.pending = 0, !.epoch = @ + 1, !.since = 0]
       ELSE counted

Target(s, p) == Lookahead(s, s.block + 1) + p

\* Fault: a reveal sees the counter as the last block left it.
CounterOnly(s, block) == s.epoch

\* What the simulation takes a reveal in this block to see.
Counter(s, block) == Lookahead(s, block)

\* Fault: one tempo for every epoch of the period.
HorizonOfPeriod(s, p) == s.block + p * MaxTempo

\* The simulation looks at the blocks up to this one.
Horizon(s, p) == s.block + 1 + (p + 1) * MaxTempo

\* The chain n blocks after s.
Chain(s) ==
    LET state[n \in Nat] == IF n = 0 THEN s ELSE Step(state[n - 1])
    IN state

\* The blocks in which a reveal would see the target.
Hits(s, p) ==
    {b \in (s.block + 1)..Horizon(s, p) :
        Counter(Chain(s)[b - 1 - s.block], b) = Target(s, p)}

RevealBlock(s, p) ==
    IF Hits(s, p) = {} THEN None
    ELSE CHOOSE b \in Hits(s, p) : \A c \in Hits(s, p) : b <= c

-----------------------------------------------------------------------------
Init ==
    /\ head \in Heads
    /\ finalized = head
    /\ period \in Periods
    /\ born = None
    /\ seen = None
    /\ expected = None
    /\ included = None
    /\ stamp = None
    /\ revealed = None

\* Fault: the schedule is taken from the finalized block the rest of the run uses.
ScheduleAtFinalized ==
    /\ born = None
    /\ head.tempo > 0 /\ period \in 1..MaxPeriod
    /\ RevealBlock(finalized, period) # None
    /\ born' = finalized.block
    /\ seen' = head
    /\ expected' = RevealBlock(finalized, period)
    /\ UNCHANGED <<head, finalized, period, included, stamp, revealed>>

\* encrypted_weights; nothing is submitted when it fails.
ScheduleCommit ==
    /\ born = None
    /\ head.tempo > 0 /\ period \in 1..MaxPeriod
    /\ RevealBlock(head, period) # None
    /\ born' = finalized.block
    /\ seen' = head
    /\ expected' = RevealBlock(head, period)
    /\ UNCHANGED <<head, finalized, period, included, stamp, revealed>>

InEra(block) == born < block /\ block < born + Mortality

\* The chain reveals a commit, then runs its epoch, then includes extrinsics.
NewBlock ==
    /\ head.block < MaxBlock
    /\ head.block < finalized.block + MaxLag
    /\ head' = Step(head)
    /\ revealed' = IF included # None /\ revealed = None
                      /\ Lookahead(head, head'.block) = stamp + period
                   THEN head'.block ELSE revealed
    /\ \/ born # None /\ included = None /\ InEra(head'.block)
          /\ included' = head'.block /\ stamp' = head'.epoch
       \/ UNCHANGED <<included, stamp>>
    /\ UNCHANGED <<finalized, period, commitVars>>

Finalize ==
    /\ finalized # head
    /\ finalized' = head
    /\ UNCHANGED <<head, period, commitVars, included, stamp, revealed>>

Next == ScheduleCommit \/ NewBlock \/ Finalize

Spec == Init /\ [][Next]_vars

-----------------------------------------------------------------------------
(* Properties *)

\* Included before the next epoch, the commit is revealed exactly when expected.
RevealedAsExpected ==
    revealed # None /\ stamp = Step(seen).epoch => revealed = expected

\* However late it is included, it is never revealed before the round it was encrypted
\* for is due.
NeverRevealedEarly == revealed # None => expected <= revealed

\* The simulation's bound is never what stops a submission.
SimulationReaches ==
    head.tempo > 0 /\ period \in 1..MaxPeriod => RevealBlock(head, period) # None
=============================================================================
