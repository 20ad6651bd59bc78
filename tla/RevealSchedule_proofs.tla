----------------------- MODULE RevealSchedule_proofs -----------------------
(***************************************************************************)
(* Proofs about module RevealSchedule for any tempo, period, lag and       *)
(* Possible state of the chain.                                            *)
(*                                                                         *)
(* The argument.  In a state the chain can be in, the counter a reveal     *)
(* looks ahead to is the one the block's own step leaves.  So it grows by  *)
(* at most one a block, and by one in every tempo: it reaches the target,  *)
(* first in the block that is expected.                                    *)
(***************************************************************************)
EXTENDS RevealSchedule, Induction, TLAPS

-----------------------------------------------------------------------------
(* The simulated chain *)

Extends(s, g) == [n \in Nat |-> IF n = 0 THEN s ELSE Step(g[n - 1])]

\* The first n blocks of it.
Prefix(s, n, g) == g = [i \in 0..n |-> IF i = 0 THEN s ELSE Step(g[i - 1])]

\* The simulated chain has first blocks, however many.
LEMMA PrefixExists == \A s : \A n \in Nat : \E g : Prefix(s, n, g)
  <1> SUFFICES ASSUME NEW s PROVE Nat \subseteq {n \in Nat : \E g : Prefix(s, n, g)}
    OBVIOUS
  <1> DEFINE S == {n \in Nat : \E g : Prefix(s, n, g)}
  <1>1. 0 \in S
    <2>1. Prefix(s, 0, [i \in 0..0 |-> s])
      BY DEF Prefix
    <2> QED
      BY <2>1
  <1>2. ASSUME NEW n \in Nat, n \in S PROVE n + 1 \in S
    <2>1. PICK g : Prefix(s, n, g)
      BY <1>2
    <2> DEFINE h == [i \in 0..(n + 1) |-> IF i <= n THEN g[i] ELSE Step(g[n])]
    <2>2. \A i \in 0..(n + 1) : h[i] = IF i = 0 THEN s ELSE Step(h[i - 1])
      <3> SUFFICES ASSUME NEW i \in 0..(n + 1)
                   PROVE  h[i] = IF i = 0 THEN s ELSE Step(h[i - 1])
        OBVIOUS
      <3>1. CASE i = 0
        <4>1. g[0] = s
          BY <2>1 DEF Prefix
        <4> QED
          BY <3>1, <4>1
      <3>2. CASE i # 0 /\ i <= n
        <4>1. g[i] = Step(g[i - 1])
          BY <2>1, <3>2 DEF Prefix
        <4> QED
          BY <3>2, <4>1
      <3>3. CASE i = n + 1
        BY <3>3
      <3> QED
        BY <3>1, <3>2, <3>3
    <2>3. Prefix(s, n + 1, h)
      BY <2>2 DEF Prefix
    <2> QED
      BY <2>3
  <1> QED
    BY <1>1, <1>2, SetInduction

\* Two prefixes agree.
LEMMA PrefixUnique ==
  ASSUME NEW s, NEW n \in Nat, NEW m \in Nat, NEW g, NEW h,
         Prefix(s, n, g), Prefix(s, m, h)
  PROVE  \A i \in Nat : i <= n /\ i <= m => g[i] = h[i]
  <1> DEFINE S == {i \in Nat : i <= n /\ i <= m => g[i] = h[i]}
  <1>1. 0 \in S
    BY DEF Prefix
  <1>2. ASSUME NEW i \in Nat, i \in S PROVE i + 1 \in S
    <2> SUFFICES ASSUME i + 1 <= n, i + 1 <= m PROVE g[i + 1] = h[i + 1]
      OBVIOUS
    <2>1. g[i] = h[i]
      BY <1>2
    <2>2. i + 1 \in 0..n /\ i + 1 \in 0..m /\ i + 1 # 0 /\ (i + 1) - 1 = i
      OBVIOUS
    <2>3. g[i + 1] = Step(g[i]) /\ h[i + 1] = Step(h[i])
      BY <2>2 DEF Prefix
    <2> QED
      BY <2>1, <2>3
  <1>3. Nat \subseteq S
    BY <1>1, <1>2, SetInduction
  <1> QED
    BY <1>3

\* The recursive definition of the chain after s has a solution.
LEMMA ChainExists == \A s : \E f : f = Extends(s, f)
  <1> SUFFICES ASSUME NEW s PROVE \E f : f = Extends(s, f)
    OBVIOUS
  <1> DEFINE G(n) == CHOOSE g : Prefix(s, n, g)
             f == [n \in Nat |-> G(n)[n]]
  <1>1. \A n \in Nat : Prefix(s, n, G(n))
    BY PrefixExists
  <1> HIDE DEF G
  <1>2. ASSUME NEW n \in Nat PROVE f[n] = IF n = 0 THEN s ELSE Step(f[n - 1])
    <2>1. G(n)[n] = IF n = 0 THEN s ELSE Step(G(n)[n - 1])
      BY <1>1 DEF Prefix
    <2>2. CASE n = 0
      BY <2>1, <2>2
    <2>3. CASE n # 0
      <3>1. n - 1 \in Nat /\ n - 1 <= n
        BY <2>3
      <3>2. G(n)[n - 1] = G(n - 1)[n - 1]
        BY <1>1, <3>1, PrefixUnique
      <3> QED
        BY <2>1, <2>3, <3>1, <3>2
    <2> QED
      BY <2>2, <2>3
  <1>3. f = Extends(s, f)
    BY <1>2 DEF Extends
  <1> QED
    BY <1>3

\* The chain after s starts with s, and each block is one step.
LEMMA ChainSteps ==
  ASSUME NEW s
  PROVE  Chain(s)[0] = s /\ \A n \in Nat : Chain(s)[n + 1] = Step(Chain(s)[n])
  <1> DEFINE D(g) == g = [n \in Nat |-> IF n = 0 THEN s ELSE Step(g[n - 1])]
  <1>1. Chain(s) = CHOOSE g : D(g)
    BY DEF Chain
  <1>2. \E g : D(g)
    BY ChainExists DEF Extends
  <1>3. D(CHOOSE g : D(g))
    <2> HIDE DEF D
    <2> QED
      BY <1>2
  <1>4. Chain(s) = [n \in Nat |-> IF n = 0 THEN s ELSE Step(Chain(s)[n - 1])]
    BY <1>1, <1>3
  <1>5. \A n \in Nat : n + 1 \in Nat /\ n + 1 # 0 /\ (n + 1) - 1 = n
    OBVIOUS
  <1> HIDE DEF D
  <1> QED
    BY <1>4, <1>5

-----------------------------------------------------------------------------
(* Epochs *)

\* One block: what a reveal in it looks ahead to is the epoch it leaves.
LEMMA StepPossible ==
  ASSUME NEW s, Possible(s)
  PROVE  /\ Possible(Step(s))
         /\ Step(s).block = s.block + 1
         /\ Step(s).tempo = s.tempo
         /\ Step(s).epoch = Lookahead(s, s.block + 1)
         /\ \/ /\ Step(s).epoch = s.epoch /\ Step(s).last = s.last
               /\ s.block + 1 < s.last + s.tempo
            \/ Step(s).epoch = s.epoch + 1 /\ Step(s).last = s.block + 1
  <1> DEFINE block == s.block + 1
             counted == [s EXCEPT !.block = block, !.since = @ + 1]
             ended == [counted EXCEPT !.last = block, !.pending = 0, !.epoch = @ + 1,
                                      !.since = 0]
  <1>1. /\ s.block \in Nat /\ s.last \in Nat /\ s.pending \in Nat /\ s.epoch \in Nat
        /\ s.tempo \in Nat /\ s.since \in Nat /\ MaxTempo \in Nat
    BY RevealAssumption DEF Possible, Schedule
  <1>2. /\ counted \in Schedule
        /\ counted.block = block /\ counted.last = s.last /\ counted.pending = s.pending
        /\ counted.epoch = s.epoch /\ counted.tempo = s.tempo
        /\ counted.since = s.since + 1
    <2>1. s \in Schedule /\ block \in Nat /\ s.since + 1 \in Nat
      BY <1>1 DEF Possible
    <2>2. counted \in Schedule
      BY <2>1 DEF Schedule
    <2> QED
      BY <2>1, <2>2 DEF Schedule
  <1>3. /\ ended \in Schedule
        /\ ended.block = block /\ ended.last = block /\ ended.epoch = s.epoch + 1
        /\ ended.tempo = s.tempo /\ ended.since = 0
    <2>1. block \in Nat /\ counted.epoch + 1 \in Nat
      BY <1>1, <1>2
    <2> HIDE DEF counted, block
    <2>2. ended \in Schedule
      BY <1>2, <2>1 DEF Schedule
    <2> QED
      BY <1>2, <2>1, <2>2 DEF Schedule
  <1>4. Step(s) = IF EpochDue(counted, block) THEN ended ELSE counted
    BY DEF Step
  <1>5. EpochDue(counted, block) <=> EpochDue(s, block)
    BY <1>1, <1>2 DEF EpochDue, Possible
  <1> HIDE DEF counted, ended
  <1>6. CASE EpochDue(s, block)
    <2>1. Step(s) = ended
      BY <1>4, <1>5, <1>6
    <2>2. Lookahead(s, s.block + 1) = s.epoch + 1
      BY <1>6 DEF Lookahead
    <2> QED
      BY <1>1, <1>3, <2>1, <2>2 DEF Possible
  <1>7. CASE ~ EpochDue(s, block)
    <2>1. Step(s) = counted
      BY <1>4, <1>5, <1>7
    <2>2. Lookahead(s, s.block + 1) = s.epoch
      BY <1>1, <1>7 DEF Lookahead
    <2>3. s.since <= MaxTempo /\ s.block + 1 < s.last + s.tempo
      BY <1>1, <1>7 DEF EpochDue, Possible
    <2> QED
      BY <1>1, <1>2, <2>1, <2>2, <2>3 DEF Possible
  <1> QED
    BY <1>6, <1>7

\* The chain after such a state.
LEMMA ChainPossible ==
  ASSUME NEW s, Possible(s)
  PROVE  \A n \in Nat : /\ Possible(Chain(s)[n])
                        /\ Chain(s)[n].block = s.block + n
                        /\ Chain(s)[n].tempo = s.tempo
  <1> DEFINE S == {n \in Nat : /\ Possible(Chain(s)[n])
                               /\ Chain(s)[n].block = s.block + n
                               /\ Chain(s)[n].tempo = s.tempo}
  <1>1. s.block \in Nat
    BY DEF Possible, Schedule
  <1>2. 0 \in S
    BY <1>1, ChainSteps
  <1>3. ASSUME NEW n \in Nat, n \in S PROVE n + 1 \in S
    <2>1. Chain(s)[n + 1] = Step(Chain(s)[n])
      BY ChainSteps
    <2>2. /\ Possible(Chain(s)[n])
          /\ Chain(s)[n].block = s.block + n
          /\ Chain(s)[n].tempo = s.tempo
      BY <1>3
    <2>3. /\ Possible(Chain(s)[n + 1])
          /\ Chain(s)[n + 1].block = (s.block + n) + 1
          /\ Chain(s)[n + 1].tempo = s.tempo
      BY <2>1, <2>2, StepPossible
    <2> QED
      BY <1>1, <2>3
  <1>4. Nat \subseteq S
    BY <1>2, <1>3, SetInduction
  <1> QED
    BY <1>4

\* The epoch n blocks on.
EpochAt(s, n) == Chain(s)[n].epoch

\* It grows by at most one a block, and is what a reveal in the block looks ahead to.
LEMMA EpochAtSteps ==
  ASSUME NEW s, Possible(s), NEW n \in Nat
  PROVE  /\ EpochAt(s, n) \in Nat
         /\ EpochAt(s, n + 1) \in {EpochAt(s, n), EpochAt(s, n) + 1}
         /\ EpochAt(s, n + 1) = Lookahead(Chain(s)[n], s.block + n + 1)
  <1>1. Possible(Chain(s)[n]) /\ Chain(s)[n].block = s.block + n
    BY ChainPossible
  <1>2. Chain(s)[n + 1] = Step(Chain(s)[n])
    BY ChainSteps
  <1>3. EpochAt(s, n) \in Nat
    BY <1>1 DEF EpochAt, Possible, Schedule
  <1>4. EpochAt(s, n + 1) \in {EpochAt(s, n), EpochAt(s, n) + 1}
    BY <1>1, <1>2, StepPossible DEF EpochAt
  <1>5. EpochAt(s, n + 1) = Lookahead(Chain(s)[n], s.block + n + 1)
    BY <1>1, <1>2, StepPossible DEF EpochAt
  <1> QED
    BY <1>3, <1>4, <1>5

\* No block of the simulated chain is of an earlier epoch than the block before it.
LEMMA EpochAtGrows ==
  ASSUME NEW s, Possible(s), NEW m \in Nat
  PROVE  \A n \in Nat : m <= n => EpochAt(s, m) <= EpochAt(s, n)
  <1> DEFINE S == {n \in Nat : m <= n => EpochAt(s, m) <= EpochAt(s, n)}
  <1>1. EpochAt(s, m) \in Nat
    BY EpochAtSteps
  <1>2. 0 \in S
    BY <1>1
  <1>3. ASSUME NEW n \in Nat, n \in S PROVE n + 1 \in S
    <2>1. /\ EpochAt(s, n) \in Nat
          /\ EpochAt(s, n + 1) \in {EpochAt(s, n), EpochAt(s, n) + 1}
      BY EpochAtSteps
    <2>2. CASE m <= n
      BY <1>1, <1>3, <2>1, <2>2
    <2>3. CASE m = n + 1
      BY <1>1, <2>3
    <2> QED
      BY <2>2, <2>3
  <1>4. Nat \subseteq S
    BY <1>2, <1>3, SetInduction
  <1> QED
    BY <1>4

\* A later epoch begins in some block, and each block before has an earlier one.
LEMMA EpochBegins ==
  ASSUME NEW s, Possible(s), NEW n \in Nat, NEW t \in Nat,
         EpochAt(s, 0) < t, t <= EpochAt(s, n)
  PROVE  \E i \in 1..n : EpochAt(s, i) = t /\ \A j \in 0..(i - 1) : EpochAt(s, j) < t
  <1> DEFINE T == {i \in Nat : t <= EpochAt(s, i)}
  <1>1. PICK i \in T : \A j \in T : i <= j
    BY LeastMember
  <1>2. \A j \in Nat : EpochAt(s, j) \in Nat
    BY EpochAtSteps
  <1>3. i \in Nat /\ i <= n /\ t <= EpochAt(s, i)
    BY <1>1
  <1>4. i # 0
    BY <1>2, <1>3
  <1>5. \A j \in 0..(i - 1) : EpochAt(s, j) < t
    BY <1>1, <1>2, <1>3
  <1>6. i - 1 \in Nat /\ (i - 1) + 1 = i /\ i - 1 \in 0..(i - 1)
    BY <1>3, <1>4
  <1>7. EpochAt(s, i) \in {EpochAt(s, i - 1), EpochAt(s, i - 1) + 1}
    BY <1>6, EpochAtSteps
  <1>8. EpochAt(s, i - 1) < t
    BY <1>5, <1>6
  <1>9. EpochAt(s, i) = t
    BY <1>2, <1>3, <1>6, <1>7, <1>8
  <1> QED
    BY <1>3, <1>4, <1>5, <1>9

\* From the first block on an epoch is not older than the tempo, and those that have passed
\* took at most MaxTempo blocks each.
LEMMA EpochsPass ==
  ASSUME NEW s, Possible(s), s.tempo > 0
  PROVE  \A n \in Nat :
             /\ Chain(s)[n + 1].block < Chain(s)[n + 1].last + s.tempo
             /\ EpochAt(s, 1) * MaxTempo + Chain(s)[n + 1].last
                    <= EpochAt(s, n + 1) * MaxTempo + Chain(s)[1].last
  <1> DEFINE S == {n \in Nat :
                      /\ Chain(s)[n + 1].block < Chain(s)[n + 1].last + s.tempo
                      /\ EpochAt(s, 1) * MaxTempo + Chain(s)[n + 1].last
                             <= EpochAt(s, n + 1) * MaxTempo + Chain(s)[1].last}
  <1>1. ASSUME NEW n \in Nat
        PROVE  /\ Chain(s)[n].block \in Nat /\ Chain(s)[n].last \in Nat
               /\ Chain(s)[n].tempo = s.tempo /\ Chain(s)[n].last <= Chain(s)[n].block
               /\ Chain(s)[n + 1].block = Chain(s)[n].block + 1
               /\ EpochAt(s, n) \in Nat
               /\ \/ /\ EpochAt(s, n + 1) = EpochAt(s, n)
                     /\ Chain(s)[n + 1].last = Chain(s)[n].last
                     /\ Chain(s)[n].block + 1 < Chain(s)[n].last + s.tempo
                  \/ /\ EpochAt(s, n + 1) = EpochAt(s, n) + 1
                     /\ Chain(s)[n + 1].last = Chain(s)[n].block + 1
    <2>1. Possible(Chain(s)[n]) /\ Chain(s)[n].tempo = s.tempo
      BY ChainPossible
    <2>2. Chain(s)[n + 1] = Step(Chain(s)[n])
      BY ChainSteps
    <2> QED
      BY <2>1, <2>2, StepPossible, EpochAtSteps DEF Possible, Schedule, EpochAt
  <1>2. s.tempo \in Nat /\ MaxTempo \in Nat /\ s.tempo <= MaxTempo
    BY RevealAssumption DEF Possible, Schedule
  <1>3. 0 \in S
    <2>1. 0 \in Nat /\ 1 \in Nat /\ 0 + 1 = 1
      OBVIOUS
    <2>2. Chain(s)[1].block < Chain(s)[1].last + s.tempo
      <3>1. /\ Chain(s)[0].block \in Nat /\ Chain(s)[0].last \in Nat
            /\ Chain(s)[0 + 1].block = Chain(s)[0].block + 1
            /\ \/ /\ Chain(s)[0 + 1].last = Chain(s)[0].last
                  /\ Chain(s)[0].block + 1 < Chain(s)[0].last + s.tempo
               \/ Chain(s)[0 + 1].last = Chain(s)[0].block + 1
        BY <1>1, <2>1, Zenon
      <3> QED
        BY <1>2, <2>1, <3>1
    <2>3. EpochAt(s, 1) * MaxTempo \in Nat /\ Chain(s)[1].last \in Nat
      BY <1>1, <1>2, <2>1
    <2> QED
      BY <2>1, <2>2, <2>3
  <1>4. ASSUME NEW n \in Nat, n \in S PROVE n + 1 \in S
    <2> DEFINE m == n + 1
    <2>1. /\ m \in Nat
          /\ Chain(s)[m].block < Chain(s)[m].last + s.tempo
          /\ EpochAt(s, 1) * MaxTempo + Chain(s)[m].last
                 <= EpochAt(s, m) * MaxTempo + Chain(s)[1].last
      BY <1>4
    <2>2. /\ EpochAt(s, 1) \in Nat /\ EpochAt(s, m) \in Nat /\ Chain(s)[1].last \in Nat
          /\ Chain(s)[m].last \in Nat /\ Chain(s)[m].block \in Nat
      BY <1>1, <2>1
    <2>3. EpochAt(s, 1) * MaxTempo \in Nat /\ EpochAt(s, m) * MaxTempo \in Nat
      BY <1>2, <2>2
    <2>4. (EpochAt(s, m) + 1) * MaxTempo = EpochAt(s, m) * MaxTempo + MaxTempo
      BY <1>2, <2>2
    <2> HIDE DEF m
    <2>5. CASE /\ EpochAt(s, m + 1) = EpochAt(s, m)
               /\ Chain(s)[m + 1].last = Chain(s)[m].last
               /\ Chain(s)[m].block + 1 < Chain(s)[m].last + s.tempo
      BY <1>1, <2>1, <2>5 DEF m
    <2>6. CASE /\ EpochAt(s, m + 1) = EpochAt(s, m) + 1
               /\ Chain(s)[m + 1].last = Chain(s)[m].block + 1
      <3>1. Chain(s)[m + 1].block = Chain(s)[m].block + 1
        BY <1>1, <2>1
      <3>2. Chain(s)[m + 1].block < Chain(s)[m + 1].last + s.tempo
        BY <1>2, <2>2, <2>6, <3>1
      <3>3. EpochAt(s, 1) * MaxTempo + Chain(s)[m + 1].last
                <= EpochAt(s, m + 1) * MaxTempo + Chain(s)[1].last
        <4>1. EpochAt(s, m + 1) * MaxTempo = EpochAt(s, m) * MaxTempo + MaxTempo
          BY <2>4, <2>6
        <4>2. Chain(s)[m + 1].last <= Chain(s)[m].last + MaxTempo
          BY <1>2, <2>1, <2>2, <2>6
        <4> QED
          BY <1>2, <2>1, <2>2, <2>3, <2>6, <4>1, <4>2
      <3> QED
        BY <3>2, <3>3 DEF m
    <2> QED
      BY <1>1, <2>1, <2>5, <2>6
  <1>5. Nat \subseteq S
    BY <1>3, <1>4, SetInduction
  <1> QED
    BY <1>5

\* Products are compared by their first factor.
LEMMA LargerFactor ==
  ASSUME NEW a \in Nat, NEW b \in Nat, NEW m \in Nat, a * m < b * m
  PROVE  a < b
  <1> SUFFICES ASSUME b <= a PROVE FALSE
    OBVIOUS
  <1>1. PICK d \in Nat : a = b + d
    <2>1. a - b \in Nat /\ a = b + (a - b)
      OBVIOUS
    <2> QED
      BY <2>1
  <1>2. a * m = b * m + d * m
    BY <1>1
  <1>3. d * m \in Nat /\ b * m \in Nat
    OBVIOUS
  <1> QED
    BY <1>2, <1>3

\* The simulation goes far enough for p more epochs.
LEMMA HorizonReached ==
  ASSUME NEW s, Possible(s), s.tempo > 0, NEW p \in Nat
  PROVE  EpochAt(s, 1) + p <= EpochAt(s, 1 + (p + 1) * MaxTempo)
  <1> DEFINE n == (p + 1) * MaxTempo
  <1>1. /\ MaxTempo \in Nat /\ s.tempo \in Nat /\ s.tempo <= MaxTempo /\ s.block \in Nat
        /\ n \in Nat /\ 1 + n = n + 1 /\ n = p * MaxTempo + MaxTempo /\ p * MaxTempo \in Nat
    BY RevealAssumption DEF Possible, Schedule
  <1> HIDE DEF n
  <1>2. /\ Chain(s)[n + 1].block < Chain(s)[n + 1].last + s.tempo
        /\ EpochAt(s, 1) * MaxTempo + Chain(s)[n + 1].last
               <= EpochAt(s, n + 1) * MaxTempo + Chain(s)[1].last
    BY <1>1, EpochsPass
  <1>3. /\ Chain(s)[n + 1].block = s.block + n + 1 /\ Chain(s)[1].block = s.block + 1
        /\ Chain(s)[1].last <= s.block + 1
        /\ Chain(s)[1].last \in Nat /\ Chain(s)[n + 1].last \in Nat
    <2>1. 1 \in Nat /\ n + 1 \in Nat
      BY <1>1
    <2>2. /\ Possible(Chain(s)[1]) /\ Possible(Chain(s)[n + 1])
          /\ Chain(s)[1].block = s.block + 1 /\ Chain(s)[n + 1].block = s.block + (n + 1)
      BY <2>1, ChainPossible
    <2> QED
      BY <1>1, <2>2 DEF Possible, Schedule
  <1>4. EpochAt(s, 1) \in Nat /\ EpochAt(s, n + 1) \in Nat
    <2>1. 1 \in Nat /\ n + 1 \in Nat
      BY <1>1
    <2> QED
      BY <2>1, EpochAtSteps
  <1>5. EpochAt(s, 1) * MaxTempo \in Nat /\ EpochAt(s, n + 1) * MaxTempo \in Nat
    BY <1>1, <1>4
  <1>6. EpochAt(s, 1) * MaxTempo + p * MaxTempo < EpochAt(s, n + 1) * MaxTempo
    BY <1>1, <1>2, <1>3, <1>5
  <1>7. (EpochAt(s, 1) + p) * MaxTempo = EpochAt(s, 1) * MaxTempo + p * MaxTempo
    BY <1>1, <1>4
  <1>8. (EpochAt(s, 1) + p) * MaxTempo < EpochAt(s, n + 1) * MaxTempo
    BY <1>6, <1>7
  <1>9. EpochAt(s, 1) + p \in Nat
    BY <1>4
  <1>10. EpochAt(s, 1) + p < EpochAt(s, n + 1)
    BY <1>1, <1>4, <1>8, <1>9, LargerFactor
  <1> QED
    BY <1>1, <1>4, <1>9, <1>10 DEF n

\* The expected block: the first to begin the epoch that is p after the next block's.
LEMMA RevealBlockFirst ==
  ASSUME NEW s, Possible(s), s.tempo > 0, NEW p \in Nat, p > 0
  PROVE  \E i \in Nat : /\ RevealBlock(s, p) = s.block + i
                        /\ EpochAt(s, i) = EpochAt(s, 1) + p
                        /\ \A j \in 0..(i - 1) : EpochAt(s, j) < EpochAt(s, 1) + p
  <1> DEFINE N == 1 + (p + 1) * MaxTempo
             t == EpochAt(s, 1) + p
  <1>1. MaxTempo \in Nat /\ s.block \in Nat /\ N \in Nat /\ Horizon(s, p) = s.block + N
    BY RevealAssumption DEF Possible, Schedule, Horizon
  <1>2. \A j \in Nat : EpochAt(s, j) \in Nat
    BY EpochAtSteps
  <1>3. EpochAt(s, 0) <= EpochAt(s, 1)
    BY EpochAtGrows
  <1>4. t \in Nat /\ EpochAt(s, 0) < t /\ t <= EpochAt(s, N)
    <2>1. t <= EpochAt(s, N)
      BY HorizonReached
    <2>2. EpochAt(s, 0) \in Nat /\ EpochAt(s, 1) \in Nat
      BY <1>2
    <2> QED
      BY <1>3, <2>1, <2>2
  <1>5. Target(s, p) = t
    <2>1. Chain(s)[0] = s
      BY ChainSteps
    <2>2. EpochAt(s, 0 + 1) = Lookahead(s, s.block + 0 + 1)
      BY <2>1, EpochAtSteps
    <2> QED
      BY <1>1, <2>2 DEF Target
  <1> HIDE DEF N, t
  <1>6. PICK i \in 1..N : EpochAt(s, i) = t /\ \A j \in 0..(i - 1) : EpochAt(s, j) < t
    BY <1>1, <1>4, EpochBegins
  <1>7. ASSUME NEW b \in (s.block + 1)..Horizon(s, p)
        PROVE  Counter(Chain(s)[b - 1 - s.block], b) = EpochAt(s, b - s.block)
    <2> DEFINE k == b - 1 - s.block
    <2>1. k \in Nat /\ k + 1 = b - s.block /\ s.block + k + 1 = b
      BY <1>1
    <2> HIDE DEF k
    <2>2. EpochAt(s, k + 1) = Lookahead(Chain(s)[k], b)
      BY <2>1, EpochAtSteps
    <2> QED
      BY <2>1, <2>2 DEF Counter, k
  <1>8. Hits(s, p) = {b \in (s.block + 1)..Horizon(s, p) : EpochAt(s, b - s.block) = t}
    BY <1>5, <1>7 DEF Hits
  <1>9. s.block + i \in (s.block + 1)..Horizon(s, p) /\ (s.block + i) - s.block = i
    BY <1>1
  <1>10. s.block + i \in Hits(s, p)
    BY <1>6, <1>8, <1>9
  <1>11. ASSUME NEW c \in Hits(s, p) PROVE s.block + i <= c
    <2>1. c \in (s.block + 1)..Horizon(s, p) /\ EpochAt(s, c - s.block) = t
      BY <1>8
    <2>2. c - s.block \in Nat /\ c \in Nat
      BY <1>1, <2>1
    <2>3. c - s.block \notin 0..(i - 1)
      BY <1>4, <1>6, <2>1
    <2> QED
      BY <1>1, <2>2, <2>3
  <1>12. PICK b \in Hits(s, p) : b = RevealBlock(s, p) /\ \A c \in Hits(s, p) : b <= c
    BY <1>10, <1>11 DEF RevealBlock
  <1>13. b = s.block + i
    <2>1. b \in (s.block + 1)..Horizon(s, p)
      BY <1>8
    <2>2. b <= s.block + i /\ s.block + i <= b
      BY <1>10, <1>11, <1>12
    <2> QED
      BY <1>1, <2>1, <2>2
  <1> QED
    BY <1>6, <1>12, <1>13 DEF t

-----------------------------------------------------------------------------
(* The commit *)

\* The best head is where the chain's own steps took it from the one the schedule was
\* computed at.
Follows ==
    /\ Possible(seen) /\ seen.tempo > 0 /\ period > 0
    /\ expected = RevealBlock(seen, period)
    /\ head.block >= seen.block
    /\ head = Chain(seen)[head.block - seen.block]

\* The commit waits for the epoch it was stamped with and the period.
Waits ==
    /\ included \in (seen.block + 1)..head.block
    /\ stamp = EpochAt(seen, included - seen.block)
    /\ revealed = None => head.epoch < stamp + period
    /\ revealed # None =>
           /\ revealed \in (seen.block + 1)..head.block
           /\ EpochAt(seen, revealed - seen.block) = stamp + period
           /\ \A j \in 0..(revealed - seen.block - 1) : EpochAt(seen, j) < stamp + period

RevealInv ==
    /\ Possible(head)
    /\ finalized.block \in Nat
    /\ period \in Periods
    /\ born # None => Follows
    /\ born = None => included = None
    /\ included # None => Waits
    /\ included = None => revealed = None

\* Nothing is committed initially.
LEMMA RevealInit == Init => RevealInv
  <1> SUFFICES ASSUME Init PROVE RevealInv
    OBVIOUS
  <1>1. Possible(head)
    BY RevealAssumption DEF Init
  <1> QED
    BY <1>1 DEF Init, RevealInv, Possible, Schedule

\* A commit is scheduled.
LEMMA ScheduleStep ==
  ASSUME RevealInv, ScheduleCommit
  PROVE  RevealInv'
  <1>1. Possible(head) /\ head.tempo > 0 /\ period > 0
    BY RevealAssumption DEF RevealInv, ScheduleCommit
  <1>2. seen' = head /\ head' = head /\ period' = period /\ expected' = RevealBlock(head, period)
    BY DEF ScheduleCommit
  <1>3. head.block \in Nat /\ head.block - head.block = 0 /\ Chain(head)[0] = head
    BY <1>1, ChainSteps DEF Possible, Schedule
  <1>4. Follows'
    BY <1>1, <1>2, <1>3 DEF Follows
  <1> QED
    BY <1>4 DEF ScheduleCommit, RevealInv

\* The chain goes on.
LEMMA BlockStep ==
  ASSUME RevealInv, NewBlock
  PROVE  RevealInv'
  <1>1. /\ head' = Step(head) /\ Possible(head)
        /\ UNCHANGED <<finalized, period, born, seen, expected>>
    BY DEF RevealInv, NewBlock, commitVars
  <1>2. /\ Possible(head') /\ head'.block = head.block + 1
        /\ head'.epoch = Lookahead(head, head'.block)
        /\ head'.epoch \in {head.epoch, head.epoch + 1}
        /\ head.block \in Nat /\ head.epoch \in Nat
    BY <1>1, StepPossible DEF Possible, Schedule
  <1>3. CASE born = None
    <2>1. included = None /\ included' = None /\ revealed' = None
      BY <1>3 DEF RevealInv, NewBlock
    <2> QED
      BY <1>1, <1>2, <1>3, <2>1 DEF RevealInv
  <1>4. CASE born # None
    <2> DEFINE k == head.block - seen.block
    <2>1. Follows
      BY <1>4 DEF RevealInv
    <2>2. /\ Possible(seen) /\ seen.block \in Nat /\ k \in Nat /\ head = Chain(seen)[k]
          /\ head'.block - seen.block = k + 1 /\ head.block = seen.block + k
      BY <1>2, <2>1 DEF Follows, Possible, Schedule
    <2>3. head' = Chain(seen)[k + 1] /\ head'.epoch = EpochAt(seen, k + 1)
      BY <1>1, <2>2, ChainSteps DEF EpochAt
    <2>4. Follows'
      BY <1>1, <1>2, <2>1, <2>2, <2>3 DEF Follows
    <2>5. period \in Nat /\ period > 0
      BY <2>1, RevealAssumption DEF RevealInv, Follows
    <2> HIDE DEF k
    <2>6. CASE included = None
      <3>1. revealed = None /\ revealed' = None
        BY <2>6 DEF RevealInv, NewBlock
      <3>2. CASE included' = head'.block /\ stamp' = head'.epoch
        <4>1. head'.block \in (seen.block + 1)..head'.block /\ head'.epoch \in Nat
          BY <1>2, <2>2
        <4>2. stamp' = EpochAt(seen, included' - seen.block)
          BY <2>2, <2>3, <3>2
        <4>3. head'.epoch < stamp' + period'
          BY <1>1, <2>5, <3>2, <4>1
        <4>4. Waits'
          BY <1>1, <3>1, <3>2, <4>1, <4>2, <4>3 DEF Waits, EpochAt
        <4> QED
          BY <1>1, <1>2, <1>4, <2>4, <3>1, <4>4 DEF RevealInv
      <3>3. CASE UNCHANGED <<included, stamp>>
        BY <1>1, <1>2, <1>4, <2>4, <2>6, <3>1, <3>3 DEF RevealInv
      <3> QED
        BY <3>2, <3>3 DEF NewBlock
    <2>7. CASE included # None
      <3>1. Waits /\ included' = included /\ stamp' = stamp
        BY <2>7 DEF RevealInv, NewBlock
      <3>2. included \in (seen.block + 1)..head'.block /\ stamp \in Nat
        <4>1. included - seen.block \in Nat
          BY <1>2, <2>2, <3>1 DEF Waits
        <4> QED
          BY <1>2, <2>2, <3>1, <4>1, EpochAtSteps DEF Waits
      <3>3. CASE revealed = None /\ head'.epoch = stamp + period
        <4>1. revealed' = head'.block
          BY <1>2, <2>7, <3>3 DEF NewBlock
        <4>2. head.epoch = EpochAt(seen, k) /\ head.epoch < stamp + period
          BY <2>2, <3>1, <3>3 DEF Waits, EpochAt
        <4>3. \A j \in 0..k : EpochAt(seen, j) < stamp + period
          <5> SUFFICES ASSUME NEW j \in 0..k PROVE EpochAt(seen, j) < stamp + period
            OBVIOUS
          <5>1. j \in Nat /\ k \in Nat /\ j <= k
            BY <2>2
          <5>2. EpochAt(seen, j) <= EpochAt(seen, k)
            BY <2>2, <5>1, EpochAtGrows
          <5>3. EpochAt(seen, j) \in Nat /\ EpochAt(seen, k) \in Nat
            BY <2>2, <5>1, EpochAtSteps
          <5> QED
            BY <2>5, <3>2, <4>2, <5>2, <5>3
        <4>4. revealed' - seen.block = k + 1 /\ (k + 1) - 1 = k
              /\ revealed' \in (seen.block + 1)..head'.block /\ revealed' # None
          BY <1>2, <2>2, <4>1, RevealAssumption
        <4>5. EpochAt(seen, revealed' - seen.block) = stamp + period
          BY <2>3, <3>3, <4>4
        <4>6. \A j \in 0..(revealed' - seen.block - 1) : EpochAt(seen, j) < stamp + period
          BY <4>3, <4>4
        <4>7. Waits'
          BY <1>1, <3>1, <3>2, <4>4, <4>5, <4>6 DEF Waits, EpochAt
        <4> QED
          BY <1>1, <1>2, <1>4, <2>4, <2>7, <3>1, <4>7 DEF RevealInv
      <3>4. CASE revealed = None /\ head'.epoch # stamp + period
        <4>1. revealed' = None
          BY <1>2, <3>4 DEF NewBlock
        <4>2. head'.epoch < stamp' + period'
          BY <1>1, <1>2, <2>5, <3>1, <3>2, <3>4 DEF Waits
        <4>3. Waits'
          BY <1>1, <3>1, <3>2, <4>1, <4>2 DEF Waits, EpochAt
        <4> QED
          BY <1>1, <1>2, <1>4, <2>4, <2>7, <3>1, <4>3 DEF RevealInv
      <3>5. CASE revealed # None
        <4>1. revealed' = revealed /\ revealed \in (seen.block + 1)..head'.block
          BY <1>2, <2>2, <3>1, <3>5 DEF NewBlock, Waits
        <4>2. Waits'
          BY <1>1, <3>1, <3>2, <3>5, <4>1 DEF Waits, EpochAt
        <4> QED
          BY <1>1, <1>2, <1>4, <2>4, <2>7, <3>1, <4>2 DEF RevealInv
      <3> QED
        BY <3>3, <3>4, <3>5
    <2> QED
      BY <2>6, <2>7
  <1> QED
    BY <1>3, <1>4

\* What is known of a commit holds in every reachable state, as the chain advances block
\* by block and the program commits on what it read at an earlier head.
THEOREM RevealInvariance == Spec => []RevealInv
  <1>1. RevealInv /\ [Next]_vars => RevealInv'
    <2> SUFFICES ASSUME RevealInv, [Next]_vars PROVE RevealInv'
      OBVIOUS
    <2>1. CASE Finalize
      <3>1. finalized'.block \in Nat
        BY <2>1 DEF Finalize, RevealInv, Possible, Schedule
      <3> QED
        BY <2>1, <3>1 DEF Finalize, commitVars, RevealInv, Follows, Waits, EpochAt
    <2>2. CASE UNCHANGED vars
      BY <2>2 DEF vars, commitVars, RevealInv, Follows, Waits, EpochAt
    <2> QED
      BY <2>1, <2>2, ScheduleStep, BlockStep DEF Next
  <1> QED
    BY RevealInit, <1>1, PTL DEF Spec

-----------------------------------------------------------------------------
(* Theorems *)

\* For every schedule the code accepts, and any state of the chain, the simulation finds
\* the block: its bound never stops a submission.
THEOREM SimulationFinds == Spec => []SimulationReaches
  <1>1. RevealInv => SimulationReaches
    <2> SUFFICES ASSUME RevealInv, head.tempo > 0, period \in 1..MaxPeriod
                 PROVE  RevealBlock(head, period) # None
      BY DEF SimulationReaches
    <2>1. Possible(head) /\ head.block \in Nat /\ period \in Nat /\ period > 0
      BY DEF RevealInv, Possible, Schedule
    <2>2. PICK i \in Nat : RevealBlock(head, period) = head.block + i
      BY <2>1, RevealBlockFirst
    <2> QED
      BY <2>1, <2>2, RevealAssumption
  <1> QED
    BY RevealInvariance, <1>1, PTL

\* The commit that was revealed, and the block in which it was expected to be.
LEMMA RevealedAndExpected ==
  ASSUME RevealInv, revealed # None
  PROVE  \E i, r \in Nat :
             /\ expected = seen.block + i /\ revealed = seen.block + r
             /\ EpochAt(seen, i) = EpochAt(seen, 1) + period
             /\ EpochAt(seen, r) = stamp + period
             /\ \A j \in 0..(i - 1) : EpochAt(seen, j) < EpochAt(seen, 1) + period
             /\ \A j \in 0..(r - 1) : EpochAt(seen, j) < stamp + period
             /\ EpochAt(seen, 1) <= stamp /\ stamp \in Nat
             /\ EpochAt(seen, 1) \in Nat /\ period \in Nat /\ seen.block \in Nat
  <1>1. Follows /\ Waits
    BY DEF RevealInv
  <1>2. /\ Possible(seen) /\ seen.tempo > 0 /\ period \in Nat /\ period > 0
        /\ seen.block \in Nat
    BY <1>1, RevealAssumption DEF RevealInv, Follows, Possible, Schedule
  <1>3. PICK i \in Nat :
            /\ expected = seen.block + i
            /\ EpochAt(seen, i) = EpochAt(seen, 1) + period
            /\ \A j \in 0..(i - 1) : EpochAt(seen, j) < EpochAt(seen, 1) + period
    BY <1>1, <1>2, RevealBlockFirst DEF Follows
  <1> DEFINE r == revealed - seen.block
             m == included - seen.block
  <1>4. /\ r \in Nat /\ revealed = seen.block + r
        /\ EpochAt(seen, r) = stamp + period
        /\ \A j \in 0..(r - 1) : EpochAt(seen, j) < stamp + period
    BY <1>1, <1>2 DEF Waits
  <1>5. m \in Nat /\ 1 <= m /\ stamp = EpochAt(seen, m)
    BY <1>1, <1>2 DEF Waits
  <1> HIDE DEF r, m
  <1>6. 1 \in Nat
    OBVIOUS
  <1>7. EpochAt(seen, 1) <= stamp
    BY <1>2, <1>5, <1>6, EpochAtGrows
  <1>8. stamp \in Nat /\ EpochAt(seen, 1) \in Nat
    BY <1>2, <1>5, <1>6, EpochAtSteps
  <1> QED
    BY <1>2, <1>3, <1>4, <1>7, <1>8

\* However late the commit is included, it is not revealed before it is expected to be.
THEOREM RevealNotEarly == Spec => []NeverRevealedEarly
  <1>1. RevealInv => NeverRevealedEarly
    <2> SUFFICES ASSUME RevealInv, revealed # None PROVE expected <= revealed
      BY DEF NeverRevealedEarly
    <2>1. PICK i, r \in Nat :
             /\ expected = seen.block + i /\ revealed = seen.block + r
             /\ EpochAt(seen, r) = stamp + period
             /\ \A j \in 0..(i - 1) : EpochAt(seen, j) < EpochAt(seen, 1) + period
             /\ EpochAt(seen, 1) <= stamp /\ stamp \in Nat
             /\ EpochAt(seen, 1) \in Nat /\ period \in Nat /\ seen.block \in Nat
      BY RevealedAndExpected
    <2>2. r \notin 0..(i - 1)
      BY <2>1
    <2> QED
      BY <2>1, <2>2
  <1> QED
    BY RevealInvariance, <1>1, PTL

\* Included before the next epoch, it is revealed exactly when expected.
THEOREM RevealOnTime == Spec => []RevealedAsExpected
  <1>1. RevealInv => RevealedAsExpected
    <2> SUFFICES ASSUME RevealInv, revealed # None, stamp = Step(seen).epoch
                 PROVE  revealed = expected
      BY DEF RevealedAsExpected
    <2>1. PICK i, r \in Nat :
             /\ expected = seen.block + i /\ revealed = seen.block + r
             /\ EpochAt(seen, i) = EpochAt(seen, 1) + period
             /\ EpochAt(seen, r) = stamp + period
             /\ \A j \in 0..(i - 1) : EpochAt(seen, j) < EpochAt(seen, 1) + period
             /\ \A j \in 0..(r - 1) : EpochAt(seen, j) < stamp + period
             /\ EpochAt(seen, 1) \in Nat /\ period \in Nat /\ seen.block \in Nat
      BY RevealedAndExpected
    <2>2. EpochAt(seen, 1) = stamp
      <3>1. Chain(seen)[0 + 1] = Step(Chain(seen)[0]) /\ Chain(seen)[0] = seen
        BY ChainSteps
      <3> QED
        BY <3>1 DEF EpochAt
    <2>3. r \notin 0..(i - 1) /\ i \notin 0..(r - 1)
      BY <2>1, <2>2
    <2> QED
      BY <2>1, <2>3
  <1> QED
    BY RevealInvariance, <1>1, PTL
=============================================================================
