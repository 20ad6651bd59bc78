------------------------- MODULE BurnPricing_proofs -------------------------
(***************************************************************************)
(* The burn's two roundings are exact for every value of the chain and the *)
(* summary: what is left is worth the target, and no larger burn leaves it.*)
(* The weight vector is exact for every list of scored miners: the loop    *)
(* over the records leaves each UID its exact part (RunningSharesSteps),   *)
(* something is scored, so the largest part is positive, and upscaling     *)
(* rounds to the nearest unit of it.                                       *)
(***************************************************************************)
EXTENDS BurnPricing, Induction, TLAPS

\* Division rounds down.
LEMMA DivBounds ==
    ASSUME NEW a \in Nat, NEW b \in Nat \ {0}
    PROVE  /\ a \div b \in Nat
           /\ b * (a \div b) <= a
           /\ a < b * (a \div b) + b
  BY SMT

\* Multiplication keeps order.
LEMMA TimesMonotone ==
    ASSUME NEW a \in Nat, NEW b \in Nat, NEW c \in Nat, a <= b
    PROVE  a * c <= b * c
  BY SMT

\* A product of naturals is a natural.
LEMMA NatTimes ==
    ASSUME NEW a \in Nat, NEW b \in Nat
    PROVE  a * b \in Nat
  BY SMT

\* div_ceil is the least multiple at or above.
LEMMA CeilBounds ==
    ASSUME NEW a \in Nat, NEW b \in Nat \ {0}
    PROVE  /\ DivCeil(a, b) \in Nat
           /\ a <= b * DivCeil(a, b)
           /\ b * DivCeil(a, b) < a + b
  <1>1. a + b - 1 \in Nat
    OBVIOUS
  <1>2. /\ (a + b - 1) \div b \in Nat
        /\ b * ((a + b - 1) \div b) <= a + b - 1
        /\ a + b - 1 < b * ((a + b - 1) \div b) + b
    BY <1>1, DivBounds
  <1>3. b * ((a + b - 1) \div b) \in Nat
    BY <1>2, NatTimes
  <1> QED
    BY <1>2, <1>3 DEF DivCeil

\* The widths and the units are positive.
LEMMA Constants ==
    /\ MaxU16 \in Nat \ {0} /\ MaxU64 \in Nat \ {0} /\ MaxU128 \in Nat \ {0}
    /\ BPS \in Nat \ {0} /\ BurnStep \in Nat \ {0} /\ RaoPerTao \in Nat \ {0}
  BY WidthAssumption

\* The widths hold what is not checked.
LEMMA NoWrap ==
    ASSUME NEW n \in Nat, n <= MaxU128
    PROVE  Wrap(n) = n
  BY Constants, SMT DEF Wrap

\* Scaling the target to the quote currency neither wraps nor loses it.
LEMMA TargetFits ==
    ASSUME NEW target \in 1..MaxU64
    PROVE  /\ TargetValue(target) \in Nat
           /\ 1 <= TargetValue(target)
           /\ BPS * TargetValue(target) \in Nat
           /\ 1 <= BPS * TargetValue(target)
           /\ Wrap(BPS * TargetValue(target)) = BPS * TargetValue(target)
  <1>1. TargetValue(target) \in Nat /\ 1 <= TargetValue(target)
    BY Constants, SMT DEF TargetValue
  <1>2. BPS * TargetValue(target) \in Nat /\ 1 <= BPS * TargetValue(target)
    BY <1>1, Constants, SMT
  <1>3. target * RaoPerTao <= MaxU64 * RaoPerTao
    BY Constants, TimesMonotone
  <1>4. TargetValue(target) * BPS <= (MaxU64 * RaoPerTao) * BPS
    BY <1>1, <1>3, Constants, NatTimes, TimesMonotone DEF TargetValue
  <1>5. (MaxU64 * RaoPerTao) * BPS = BPS * (MaxU64 * RaoPerTao)
    BY Constants, SMT
  <1>6. BPS * TargetValue(target) <= MaxU128
    BY <1>1, <1>4, <1>5, Constants, WidthAssumption, SMT
  <1> QED
    BY <1>1, <1>2, <1>6, NoWrap

\* What is kept is the least share of the value that is worth the target.
LEMMA KeepBounds ==
    ASSUME NEW target \in 1..MaxU64, NEW value \in Nat, TargetValue(target) < value
    PROVE  /\ Keep(target, value) \in 1..BPS
           /\ BPS * TargetValue(target) <= Keep(target, value) * value
           /\ (Keep(target, value) - 1) * value < BPS * TargetValue(target)
  <1> DEFINE T == TargetValue(target)
             K == Keep(target, value)
  <1>1. T \in Nat /\ 1 <= T /\ BPS * T \in Nat /\ 1 <= BPS * T /\ Wrap(BPS * T) = BPS * T
    BY TargetFits
  <1>2. value \in Nat \ {0}
    BY <1>1
  <1>3. /\ K \in Nat
        /\ BPS * T <= value * K
        /\ value * K < BPS * T + value
    BY <1>1, <1>2, CeilBounds DEF Keep
  <1>4. K # 0
    BY <1>1, <1>3, <1>2, SMT
  <1>5. (K - 1) * value < BPS * T
    <2> HIDE DEF K, T
    <2>1. (K - 1) * value = value * K - value
      BY <1>2, <1>3, SMT
    <2> QED
      BY <2>1, <1>1, <1>2, <1>3, <1>4, NatTimes, SMT
  <1>6. K <= BPS
    <2> HIDE DEF K, T
    <2>1. SUFFICES ASSUME BPS < K PROVE FALSE
      BY <1>3, Constants
    <2>2. BPS * value <= (K - 1) * value
      BY <2>1, <1>2, <1>3, Constants, TimesMonotone
    <2>3. T * BPS <= value * BPS
      BY <1>1, <1>2, Constants, TimesMonotone DEF T
    <2> QED
      BY <2>2, <2>3, <1>1, <1>2, <1>3, <1>5, Constants, SMT
  <1> QED
    BY <1>1, <1>2, <1>3, <1>4, <1>5, <1>6, SMT

\* Rounding a burn down to a step loses less than a step.
LEMMA StepBounds ==
    ASSUME NEW b \in Nat
    PROVE  /\ WholeSteps(b) \in Nat
           /\ WholeSteps(b) <= b
           /\ b < WholeSteps(b) + BurnStep
           /\ WholeSteps(b) % BurnStep = 0
  <1>1. b % BurnStep \in 0..(BurnStep - 1) /\ b % BurnStep <= b
    BY Constants, SMT
  <1>2. b = BurnStep * (b \div BurnStep) + (b % BurnStep)
    BY Constants, SMT
  <1>3. (BurnStep * (b \div BurnStep)) % BurnStep = 0
    BY Constants, DivBounds, SMT
  <1>4. WholeSteps(b) = BurnStep * (b \div BurnStep)
    BY <1>1, <1>2, Constants, DivBounds, NatTimes, SMT DEF WholeSteps
  <1> QED
    BY <1>1, <1>3, <1>4, Constants, SMT DEF WholeSteps

\* The burn for a value: whole steps, never all, worth the target, and the largest.
LEMMA BurnBounds ==
    ASSUME NEW target \in 1..MaxU64, NEW value \in Nat
    PROVE  LET b == BurnForTarget(target, value) IN
           /\ b \in 0..(BPS - 1)
           /\ b % BurnStep = 0
           /\ b > 0 => BPS * TargetValue(target) <= (BPS - b) * value
           /\ b + BurnStep <= BPS =>
                 (BPS - (b + BurnStep)) * value < BPS * TargetValue(target)
  <1> DEFINE T == TargetValue(target)
             K == Keep(target, value)
             b == BurnForTarget(target, value)
  <1>1. T \in Nat /\ 1 <= T /\ BPS * T \in Nat /\ 1 <= BPS * T
    BY TargetFits
  <1>2. CASE value <= T
    <2>1. b = 0
      BY <1>2 DEF BurnForTarget
    <2>2. ASSUME BurnStep <= BPS PROVE (BPS - BurnStep) * value < BPS * T
      <3>1. BPS - BurnStep \in Nat /\ BPS - BurnStep <= BPS - 1 /\ BPS - 1 \in Nat
        BY <2>2, Constants
      <3>2. (BPS - BurnStep) * value <= (BPS - 1) * value
        BY <3>1, TimesMonotone
      <3>3. value * (BPS - 1) <= T * (BPS - 1)
        BY <3>1, <1>1, <1>2, TimesMonotone
      <3> QED
        BY <3>1, <3>2, <3>3, <1>1, Constants, SMT
    <2>3. 0 % BurnStep = 0
      BY Constants, SMT
    <2> QED
      BY <2>1, <2>2, <2>3, Constants
  <1>3. CASE T < value
    <2>1. K \in 1..BPS /\ BPS * T <= K * value /\ (K - 1) * value < BPS * T
      BY <1>3, KeepBounds
    <2>2. BPS - K \in Nat /\ b = WholeSteps(BPS - K)
      BY <2>1, <1>1, <1>3, Constants DEF BurnForTarget
    <2>3. b \in Nat /\ b <= BPS - K /\ BPS - K < b + BurnStep /\ b % BurnStep = 0
      BY <2>2, StepBounds
    <2> HIDE DEF K, T, b
    <2>4. K * value <= (BPS - b) * value
      BY <2>1, <2>3, Constants, TimesMonotone
    <2>5. ASSUME b + BurnStep <= BPS
          PROVE  (BPS - (b + BurnStep)) * value <= (K - 1) * value
      BY <2>1, <2>3, <2>5, Constants, TimesMonotone
    <2>6. (BPS - b) * value \in Nat /\ K * value \in Nat /\ (K - 1) * value \in Nat
      BY <2>1, <2>3, Constants, NatTimes
    <2>7. BPS * T <= (BPS - b) * value
      BY <2>1, <2>4, <2>6, <1>1
    <2>8. ASSUME b + BurnStep <= BPS
          PROVE  (BPS - (b + BurnStep)) * value < BPS * T
      <3>1. (BPS - (b + BurnStep)) * value \in Nat
        BY <2>3, <2>8, Constants, NatTimes
      <3> QED
        BY <3>1, <2>1, <2>5, <2>8, <2>6, <1>1
    <2> QED
      BY <2>1, <2>3, <2>7, <2>8, Constants DEF b, T
  <1> QED
    BY <1>1, <1>2, <1>3

-----------------------------------------------------------------------------
(* The state machine: what PriceBurn computed is what Weigh will use. *)

Inv ==
    /\ policy \in Policy \union {None}
    /\ econ \in Economics \union {None}
    /\ pc = "price" => policy # None
    /\ econ # None /\ pc = "weigh" =>
          /\ policy # None
          /\ Priceable(econ, policy.price)
          /\ burn = BurnForTarget(policy.target, MinersValue(econ, policy.price))

\* Every economics and policy the program accepts is within the widths.
LEMMA Inputs ==
    ASSUME NEW e \in Economics, NEW p \in Policy
    PROVE  /\ e.emission \in Nat /\ e.emission <= MaxU64
           /\ e.tempo \in Nat /\ e.tempo <= MaxU16
           /\ MaxU16 - e.cut \in Nat /\ MaxU16 - e.cut <= MaxU16
           /\ e.tao \in Nat
           /\ e.alphaIn \in Nat
           /\ p.target \in 1..MaxU64
           /\ p.price \in Nat
  <1>1. /\ e.emission \in 0..MaxU64 /\ e.tempo \in 0..MaxU16 /\ e.cut \in 0..MaxU16
        /\ e.tao \in 0..MaxU64 /\ e.alphaIn \in 0..MaxU64
    BY InputAssumption DEF Economics
  <1>2. p.target \in 1..MaxU64 /\ p.price \in 1..MaxU64
    BY InputAssumption DEF Policy
  <1> QED
    BY <1>1, <1>2, Constants, SMT

\* The emission's product fits a u128, so the miners' alpha is the rounded quotient.
LEMMA AlphaBounds ==
    ASSUME NEW e \in Economics, NEW p \in Policy
    PROVE  LET gross == e.emission * e.tempo * (MaxU16 - e.cut) IN
           /\ gross \in Nat
           /\ MinersAlpha(e) \in Nat
           /\ (2 * MaxU16) * MinersAlpha(e) <= gross
  <1> DEFINE m == e.emission * e.tempo
             c == MaxU16 - e.cut
             gross == m * c
  <1>1. m \in Nat /\ c \in Nat /\ gross \in Nat
    BY Inputs, NatTimes
  <1>2. m <= MaxU64 * MaxU16
    <2>1. e.emission * e.tempo <= MaxU64 * e.tempo
      BY Inputs, Constants, TimesMonotone
    <2>2. e.tempo * MaxU64 <= MaxU16 * MaxU64
      BY Inputs, Constants, TimesMonotone
    <2>3. e.tempo * MaxU64 = MaxU64 * e.tempo /\ MaxU16 * MaxU64 = MaxU64 * MaxU16
      BY Inputs, Constants, SMT
    <2>4. MaxU64 * e.tempo \in Nat /\ MaxU64 * MaxU16 \in Nat
      BY Inputs, Constants, NatTimes
    <2> QED
      BY <1>1, <2>1, <2>2, <2>3, <2>4
  <1>3. gross <= MaxU128
    <2> HIDE DEF m, c
    <2>1. m * c <= (MaxU64 * MaxU16) * c
      BY <1>1, <1>2, Constants, NatTimes, TimesMonotone
    <2>2. c * (MaxU64 * MaxU16) <= MaxU16 * (MaxU64 * MaxU16)
      BY <1>1, Inputs, Constants, NatTimes, TimesMonotone DEF c
    <2> QED
      BY <1>1, <2>1, <2>2, Constants, WidthAssumption, NatTimes, SMT
  <1>4. MinersAlpha(e) = gross \div (2 * MaxU16)
    BY <1>1, <1>3, NoWrap DEF MinersAlpha
  <1>5. 2 * MaxU16 \in Nat \ {0}
    BY Constants
  <1> HIDE DEF m, c, gross
  <1>6. MinersAlpha(e) \in Nat /\ (2 * MaxU16) * MinersAlpha(e) <= gross
    BY <1>1, <1>4, <1>5, DivBounds
  <1> QED
    BY <1>1, <1>6 DEF m, c, gross

\* Two roundings down: the code's value is at most the exact one.
LEMMA ValueBounds ==
    ASSUME NEW e \in Economics, NEW p \in Policy, e.alphaIn > 0
    PROVE  /\ MinersValue(e, p.price) \in Nat
           /\ MinersValue(e, p.price) * (e.alphaIn * (2 * MaxU16))
                 <= ((e.emission * e.tempo * (MaxU16 - e.cut)) * e.tao) * p.price
  <1> DEFINE gross == e.emission * e.tempo * (MaxU16 - e.cut)
             A == MinersAlpha(e)
             V == MinersTao(e)
             a == e.alphaIn
             d == 2 * MaxU16
             x == e.tao
             q == p.price
  <1>1. gross \in Nat /\ A \in Nat /\ d * A <= gross
    BY AlphaBounds
  <1>2. a \in Nat \ {0} /\ x \in Nat /\ q \in Nat /\ d \in Nat
    BY Inputs, Constants
  <1>3. V \in Nat /\ a * V <= A * x
    BY <1>1, <1>2, NatTimes, DivBounds DEF MinersTao
  <1>4. MinersValue(e, p.price) = V * q
    BY DEF MinersValue
  <1> HIDE DEF gross, A, V, a, d, x, q
  <1>5. (a * V) * d <= (A * x) * d
    BY <1>1, <1>2, <1>3, NatTimes, TimesMonotone
  <1>6. (d * A) * x <= gross * x
    BY <1>1, <1>2, NatTimes, TimesMonotone
  <1>7. (A * x) * d = (d * A) * x
    BY <1>1, <1>2, SMT
  <1>8. (a * V) * d <= gross * x
    BY <1>1, <1>2, <1>3, <1>5, <1>6, <1>7, NatTimes, SMT
  <1>9. ((a * V) * d) * q <= (gross * x) * q
    BY <1>1, <1>2, <1>3, <1>8, NatTimes, TimesMonotone
  <1>10. ((a * V) * d) * q = (V * q) * (a * d)
    BY <1>2, <1>3, SMT
  <1> QED
    BY <1>2, <1>3, <1>4, <1>9, <1>10, NatTimes DEF gross, a, d, x, q

\* Nothing is priced initially.
LEMMA InvInit == Init => Inv
  BY NoneAssumption DEF Init, Inv

\* Every step keeps what is known of the burn.
LEMMA InvNext == Inv /\ [Next]_vars => Inv'
  <1> SUFFICES ASSUME Inv, [Next]_vars PROVE Inv'
    OBVIOUS
  <1> USE DEF Inv
  <1>1. CASE RefuseSubnet
    BY <1>1 DEF RefuseSubnet, Refuse
  <1>2. CASE CheckSubnet
    BY <1>2 DEF CheckSubnet
  <1>3. CASE ReadEconomics
    BY <1>3 DEF ReadEconomics
  <1>4. CASE RefuseEconomics
    BY <1>4 DEF RefuseEconomics, Refuse
  <1>5. CASE PriceBurn
    BY <1>5 DEF PriceBurn
  <1>6. CASE TakeScores
    BY <1>6 DEF TakeScores
  <1>7. CASE Weigh
    BY <1>7 DEF Weigh
  <1>8. CASE RefuseUid
    BY <1>8 DEF RefuseUid, Refuse
  <1>9. CASE Done \/ UNCHANGED vars
    BY <1>9 DEF Done, vars
  <1> QED
    BY <1>1, <1>2, <1>3, <1>4, <1>5, <1>6, <1>7, <1>8, <1>9 DEF Next

\* What a priced submission knows.
LEMMA Priced ==
    ASSUME Inv, econ # None, pc = "weigh"
    PROVE  /\ econ \in Economics /\ policy \in Policy
           /\ econ.alphaIn > 0
           /\ burn = BurnForTarget(policy.target, MinersValue(econ, policy.price))
           /\ MinersValue(econ, policy.price) \in Nat
           /\ policy.target \in 1..MaxU64
  <1>1. econ \in Economics /\ policy \in Policy /\ econ.alphaIn > 0
        /\ burn = BurnForTarget(policy.target, MinersValue(econ, policy.price))
    BY DEF Inv, Priceable
  <1> QED
    BY <1>1, ValueBounds, Inputs

\* The invariant says that the miners are left the target.
LEMMA InvKeepsTarget == Inv => MinersKeepTarget
  <1> SUFFICES ASSUME Inv, econ # None, pc = "weigh", burn > 0
               PROVE  (BPS - burn) * ((((econ.emission * econ.tempo * (MaxU16 - econ.cut))
                                        * econ.tao) * policy.price))
                      >= (BPS * TargetValue(policy.target)) * (econ.alphaIn * (2 * MaxU16))
    BY DEF MinersKeepTarget
  <1> DEFINE exact == ((econ.emission * econ.tempo * (MaxU16 - econ.cut)) * econ.tao)
                      * policy.price
             value == MinersValue(econ, policy.price)
             T == BPS * TargetValue(policy.target)
             units == econ.alphaIn * (2 * MaxU16)
             rest == BPS - burn
  <1>1. value \in Nat /\ policy.target \in 1..MaxU64 /\ econ.alphaIn > 0
        /\ econ \in Economics /\ policy \in Policy
        /\ burn = BurnForTarget(policy.target, value)
    BY Priced
  <1>2. burn \in 0..(BPS - 1) /\ T <= rest * value
    BY <1>1, BurnBounds
  <1>3. rest \in Nat
    BY <1>2, Constants
  <1>4. T \in Nat
    BY <1>1, TargetFits
  <1>5. /\ econ.alphaIn \in Nat /\ econ.tao \in Nat /\ policy.price \in Nat
        /\ econ.emission * econ.tempo * (MaxU16 - econ.cut) \in Nat
    BY <1>1, Inputs, AlphaBounds
  <1>6. units \in Nat /\ exact \in Nat
    BY <1>5, Constants, NatTimes
  <1>7. value * units <= exact
    BY <1>1, ValueBounds
  <1> HIDE DEF exact, value, T, units, rest
  <1>8. T * units <= (rest * value) * units
    BY <1>1, <1>2, <1>3, <1>4, <1>6, NatTimes, TimesMonotone
  <1>9. (value * units) * rest <= exact * rest
    BY <1>1, <1>3, <1>6, <1>7, NatTimes, TimesMonotone
  <1>10. (rest * value) * units = (value * units) * rest /\ exact * rest = rest * exact
    BY <1>1, <1>3, <1>6, SMT
  <1>11. T * units \in Nat /\ (value * units) * rest \in Nat /\ rest * exact \in Nat
    BY <1>1, <1>3, <1>4, <1>6, NatTimes
  <1>12. rest * exact >= T * units
    BY <1>8, <1>9, <1>10, <1>11
  <1> QED
    BY <1>12 DEF exact, T, units, rest

\* The invariant says that a larger burn would leave them less.
LEMMA InvLargest == Inv => BurnIsLargest
  <1> SUFFICES ASSUME Inv, econ # None, pc = "weigh"
               PROVE  BurnIsLargest
    BY DEF BurnIsLargest
  <1>1. MinersValue(econ, policy.price) \in Nat /\ policy.target \in 1..MaxU64
        /\ burn = BurnForTarget(policy.target, MinersValue(econ, policy.price))
    BY Priced
  <1>2. /\ burn \in 0..(BPS - 1)
        /\ burn % BurnStep = 0
        /\ burn + BurnStep <= BPS =>
              (BPS - (burn + BurnStep)) * MinersValue(econ, policy.price)
                  < BPS * TargetValue(policy.target)
    BY <1>1, BurnBounds
  <1>3. burn < BPS
    BY <1>2, Constants
  <1> QED
    BY <1>2, <1>3 DEF BurnIsLargest

-----------------------------------------------------------------------------
\* Inv holds of every submission.
LEMMA Invariance == Spec => []Inv
  BY InvInit, InvNext, PTL DEF Spec

\* Whatever the chain and the summary say, the miners are left at least the target's
\* worth, in exact fractions (EpochEconomics::burn_for_target).
THEOREM TargetIsKept == Spec => []MinersKeepTarget
  BY Invariance, InvKeepsTarget, PTL

\* And no larger whole-percent burn leaves it by the code's valuation.
THEOREM LargestBurn == Spec => []BurnIsLargest
  BY Invariance, InvLargest, PTL

-----------------------------------------------------------------------------
(* The weight vector *)

\* The running sums are what their recursion says.
LEMMA RunningSumSteps ==
  ASSUME NEW parts \in Seq(Nat)
  PROVE  LET sum == RunningSum(parts) IN
         /\ sum \in [0..Len(parts) -> Nat]
         /\ sum[0] = 0
         /\ \A n \in 1..Len(parts) : sum[n] = sum[n - 1] + parts[n]
  <1> DEFINE N == Len(parts)
             Sums(f) == f = [n \in 0..N |-> IF n = 0 THEN 0 ELSE f[n - 1] + parts[n]]
             step == [n \in 1..N |-> [v \in Nat |-> v + parts[n]]]
             sum == RunningSum(parts)
  <1>1. N \in Nat /\ \A n \in 1..N : parts[n] \in Nat
    OBVIOUS
  <1>2. \E f : Sums(f)
    <2>1. N \in Nat /\ 0 \in Nat
      BY <1>1
    <2> HIDE DEF N
    <2>2. \A n \in 1..N : \A v \in Nat : step[n][v] = v + parts[n]
      OBVIOUS
    <2> HIDE DEF step
    <2>3. Steps(N, Nat, step)
      <3> SUFFICES ASSUME NEW n \in 1..N, NEW v \in Nat PROVE step[n][v] \in Nat
        BY DEF Steps
      <3>1. step[n][v] = v + parts[n] /\ parts[n] \in Nat
        BY <1>1, <2>2
      <3> QED
        BY <3>1
    <2>4. PICK f \in [0..N -> Nat] : Recursive(N, 0, step, f)
      BY <2>1, <2>3, FiniteRecursion, Zenon
    <2>5. \A n \in 1..N : n - 1 \in 0..N
      BY <2>1
    <2>6. \A n \in 1..N : f[n] = f[n - 1] + parts[n]
      BY <2>2, <2>4, <2>5 DEF Recursive
    <2>7. Sums(f)
      BY <2>1, <2>4, <2>6 DEF Recursive
    <2> QED
      BY <2>7
  <1>3. Sums(sum)
    BY <1>2 DEF RunningSum
  <1> DEFINE S == {n \in Nat : n <= N => sum[n] \in Nat}
  <1> HIDE DEF N, sum
  <1>4. 0 \in S
    BY <1>1, <1>3
  <1>5. ASSUME NEW n \in Nat, n \in S PROVE n + 1 \in S
    BY <1>1, <1>3, <1>5
  <1>6. Nat \subseteq S
    <2> HIDE DEF S
    <2> QED
      BY <1>4, <1>5, SetInduction
  <1>7. sum \in [0..N -> Nat] /\ sum[0] = 0
    <2>1. \A n \in 0..N : sum[n] \in Nat
      BY <1>1, <1>6
    <2> HIDE DEF S
    <2> QED
      BY <1>1, <1>3, <2>1
  <1>8. \A n \in 1..N : sum[n] = sum[n - 1] + parts[n]
    BY <1>1, <1>3
  <1> QED
    BY <1>7, <1>8 DEF N, sum

\* What the first n records score one UID: its parts of the sum, zero for the others.
PartsOf(list, u) == [i \in DOMAIN list |-> IF list[i].uid = u THEN list[i].weight ELSE 0]

MinedAfter(list, u, n) == RunningSum(PartsOf(list, u))[n]

FirstUids(list, n) == {list[i].uid : i \in 1..n}

\* Every record has a UID and a weight.
LEMMA MinersTyped ==
  ASSUME NEW list \in Seq(Miner)
  PROVE  /\ Len(list) \in Nat /\ DOMAIN list = 1..Len(list)
         /\ \A i \in 1..Len(list) : list[i].uid \in Nat /\ list[i].weight \in Nat
  <1>1. \A i \in 1..Len(list) : list[i] \in Miner
    OBVIOUS
  <1>2. \A m \in Miner : m.uid \in Nat /\ m.weight \in Nat
    BY DEF Miner
  <1> QED
    BY <1>1, <1>2

\* A UID's score grows by the weight of each of its records.
LEMMA MinedSteps ==
  ASSUME NEW list \in Seq(Miner), NEW u
  PROVE  /\ \A n \in 0..Len(list) : MinedAfter(list, u, n) \in Nat
         /\ MinedAfter(list, u, 0) = 0
         /\ \A n \in 1..Len(list) :
               MinedAfter(list, u, n)
                   = MinedAfter(list, u, n - 1) + IF list[n].uid = u THEN list[n].weight ELSE 0
  <1> DEFINE N == Len(list)
             parts == PartsOf(list, u)
  <1>1. N \in Nat /\ DOMAIN list = 1..N /\ \A i \in 1..N : list[i].weight \in Nat
    BY MinersTyped
  <1>2. parts \in [1..N -> Nat]
    BY <1>1 DEF PartsOf
  <1>3. parts \in Seq(Nat) /\ Len(parts) = N
    BY <1>1, <1>2
  <1>4. \A n \in 1..N : parts[n] = IF list[n].uid = u THEN list[n].weight ELSE 0
    BY <1>1 DEF PartsOf
  <1> HIDE DEF N, parts
  <1>5. /\ RunningSum(parts) \in [0..N -> Nat]
        /\ RunningSum(parts)[0] = 0
        /\ \A n \in 1..N : RunningSum(parts)[n] = RunningSum(parts)[n - 1] + parts[n]
    BY <1>3, RunningSumSteps
  <1>6. \A n : MinedAfter(list, u, n) = RunningSum(parts)[n]
    BY DEF MinedAfter, parts
  <1>7. \A n \in 1..N : RunningSum(parts)[n]
            = RunningSum(parts)[n - 1] + IF list[n].uid = u THEN list[n].weight ELSE 0
    BY <1>4, <1>5
  <1>8. \A n \in 0..N : RunningSum(parts)[n] \in Nat
    BY <1>5
  <1> QED
    BY <1>5, <1>6, <1>7, <1>8 DEF N

\* The score of a UID without a record is zero.
LEMMA NotMined ==
  ASSUME NEW list \in Seq(Miner), NEW u, NEW n \in 0..Len(list), u \notin FirstUids(list, n)
  PROVE  MinedAfter(list, u, n) = 0
  <1> DEFINE N == Len(list)
             S == {m \in Nat : m <= N /\ u \notin FirstUids(list, m) => MinedAfter(list, u, m) = 0}
  <1>1. 0 \in S
    BY MinedSteps
  <1>2. ASSUME NEW m \in Nat, m \in S PROVE m + 1 \in S
    <2> SUFFICES ASSUME m + 1 <= N, u \notin FirstUids(list, m + 1)
                 PROVE  MinedAfter(list, u, m + 1) = 0
      OBVIOUS
    <2>1. m + 1 \in 1..N /\ (m + 1) - 1 = m /\ m + 1 \in 1..(m + 1)
          /\ \A i \in 1..m : i \in 1..(m + 1)
      OBVIOUS
    <2>2. u \notin FirstUids(list, m) /\ list[m + 1].uid # u
      BY <2>1 DEF FirstUids
    <2>3. MinedAfter(list, u, m) = 0
      BY <1>2, <2>1, <2>2
    <2>4. \A k \in 1..N : list[k].uid # u =>
              MinedAfter(list, u, k) = MinedAfter(list, u, k - 1) + 0
      BY MinedSteps
    <2>5. MinedAfter(list, u, m + 1) = MinedAfter(list, u, m) + 0
      BY <2>1, <2>2, <2>4
    <2> QED
      BY <2>3, <2>5
  <1>3. Nat \subseteq S
    <2> HIDE DEF S
    <2> QED
      BY <1>1, <1>2, SetInduction
  <1> QED
    BY <1>3

\* The map of shares after n records, without the loop.
SharesAfter(list, c, n) == [u \in FirstUids(list, n) |-> MinedAfter(list, u, n) * c]

\* A record adds its part to its UID and leaves the others.
LEMMA SharesStep ==
  ASSUME NEW list \in Seq(Miner), NEW c \in Nat, NEW n \in 1..Len(list)
  PROVE  AddShare(SharesAfter(list, c, n - 1), list[n].uid, list[n].weight * c)
             = SharesAfter(list, c, n)
  <1> DEFINE uid == list[n].uid
             before == FirstUids(list, n - 1)
             w == list[n].weight
  <1>1. n - 1 \in 0..Len(list) /\ n \in 0..Len(list) /\ w \in Nat
    BY MinersTyped
  <1>2. FirstUids(list, n) = before \union {uid}
    <2>1. \A i \in Int : i \in 1..n <=> i \in 1..(n - 1) \/ i = n
      BY <1>1
    <2> QED
      BY <2>1, <1>1 DEF FirstUids
  <1>3. DOMAIN SharesAfter(list, c, n - 1) = before
    BY DEF SharesAfter
  <1>4. ASSUME NEW u \in before \union {uid}
        PROVE  (IF u \in before THEN SharesAfter(list, c, n - 1)[u] ELSE 0)
                   + (IF u = uid THEN w * c ELSE 0)
               = MinedAfter(list, u, n) * c
    <2> DEFINE a == MinedAfter(list, u, n - 1)
    <2>1. a \in Nat /\ MinedAfter(list, u, n) = a + IF u = uid THEN w ELSE 0
      BY <1>1, MinedSteps
    <2>2. (IF u \in before THEN SharesAfter(list, c, n - 1)[u] ELSE 0) = a * c
      <3>1. CASE u \in before
        BY <3>1 DEF SharesAfter
      <3>2. CASE u \notin before
        <4>1. a = 0
          BY <1>1, <3>2, NotMined
        <4> QED
          BY <3>2, <4>1
      <3> QED
        BY <3>1, <3>2
    <2> HIDE DEF a, w, before, uid
    <2>3. (a + w) * c = a * c + w * c /\ a * c \in Nat
      BY <1>1, <2>1, SMT
    <2> QED
      BY <2>1, <2>2, <2>3
  <1> HIDE DEF w, before, uid
  <1>5. AddShare(SharesAfter(list, c, n - 1), uid, w * c)
            = [u \in before \union {uid} |->
                  (IF u \in before THEN SharesAfter(list, c, n - 1)[u] ELSE 0)
                      + IF u = uid THEN w * c ELSE 0]
    BY <1>3 DEF AddShare
  <1>6. SharesAfter(list, c, n) = [u \in before \union {uid} |-> MinedAfter(list, u, n) * c]
    BY <1>2 DEF SharesAfter
  <1> QED
    BY <1>4, <1>5, <1>6 DEF uid, w

\* The loop over the records computes that map.
LEMMA RunningSharesSteps ==
  ASSUME NEW list \in Seq(Miner), NEW b, BPS - b \in Nat, NEW n \in 0..Len(list)
  PROVE  RunningShares(list, b)[n] = SharesAfter(list, BPS - b, n)
  <1> DEFINE N == Len(list)
             c == BPS - b
             Loop(f) == f = [i \in 0..N |->
                                IF i = 0 THEN <<>>
                                ELSE AddShare(f[i - 1], list[i].uid, list[i].weight * (BPS - b))]
             known == [i \in 0..N |-> SharesAfter(list, c, i)]
             loop == RunningShares(list, b)
  <1>1. SharesAfter(list, c, 0) = <<>>
    BY DEF SharesAfter, FirstUids
  <1>2. \A i \in 1..N : AddShare(SharesAfter(list, c, i - 1), list[i].uid, list[i].weight * c)
                            = SharesAfter(list, c, i)
    BY SharesStep
  <1>3. \E f : Loop(f)
    <2>1. \A i \in 1..N : i - 1 \in 0..N /\ i \in 0..N
      OBVIOUS
    <2> HIDE DEF N
    <2>2. \A i \in 0..N : known[i] = IF i = 0 THEN <<>>
              ELSE AddShare(known[i - 1], list[i].uid, list[i].weight * (BPS - b))
      BY <1>1, <1>2, <2>1
    <2>3. Loop(known)
      BY <2>2
    <2> QED
      BY <2>3
  <1>4. Loop(loop)
    BY <1>3 DEF RunningShares
  <1> DEFINE S == {i \in Nat : i <= N => loop[i] = SharesAfter(list, c, i)}
  <1> HIDE DEF loop
  <1>5. 0 \in S
    BY <1>1, <1>4
  <1>6. ASSUME NEW i \in Nat, i \in S PROVE i + 1 \in S
    <2> SUFFICES ASSUME i + 1 <= N PROVE loop[i + 1] = SharesAfter(list, c, i + 1)
      OBVIOUS
    <2>1. i + 1 \in 1..N /\ i + 1 \in 0..N /\ (i + 1) - 1 = i /\ i + 1 # 0
      OBVIOUS
    <2>2. loop[i] = SharesAfter(list, c, i)
      BY <1>6, <2>1
    <2> HIDE DEF N
    <2>3. loop[i + 1] = AddShare(loop[i], list[i + 1].uid, list[i + 1].weight * c)
      BY <1>4, <2>1
    <2>4. AddShare(SharesAfter(list, c, i), list[i + 1].uid, list[i + 1].weight * c)
              = SharesAfter(list, c, i + 1)
      BY <1>2, <2>1
    <2> QED
      BY <2>2, <2>3, <2>4
  <1>7. Nat \subseteq S
    <2> HIDE DEF S
    <2> QED
      BY <1>5, <1>6, SetInduction
  <1> QED
    BY <1>7 DEF loop

\* A UID's exact part of the emission, and the UIDs that have one.
Part(list, uid, b, u) == Mined(list, u) * (BPS - b) + IF u = uid THEN Total(list) * b ELSE 0

AllUids(list, uid) == {uid} \union FirstUids(list, Len(list))

\* The weights of a list sum to a natural.
LEMMA TotalSteps ==
  ASSUME NEW list \in Seq(Miner)
  PROVE  LET sum == RunningSum([i \in DOMAIN list |-> list[i].weight]) IN
         /\ \A n \in 0..Len(list) : sum[n] \in Nat
         /\ sum[0] = 0
         /\ \A n \in 1..Len(list) : sum[n] = sum[n - 1] + list[n].weight
         /\ Total(list) = sum[Len(list)]
  <1> DEFINE N == Len(list)
             parts == [i \in DOMAIN list |-> list[i].weight]
  <1>1. N \in Nat /\ DOMAIN list = 1..N /\ \A i \in 1..N : list[i].weight \in Nat
    BY MinersTyped
  <1>2. parts \in Seq(Nat) /\ Len(parts) = N
    BY <1>1
  <1>3. \A n \in 1..N : parts[n] = list[n].weight
    BY <1>1
  <1>4. Total(list) = RunningSum(parts)[Len(parts)]
    BY DEF Total, SumOf
  <1> HIDE DEF N, parts
  <1>5. /\ RunningSum(parts) \in [0..N -> Nat]
        /\ RunningSum(parts)[0] = 0
        /\ \A n \in 1..N : RunningSum(parts)[n] = RunningSum(parts)[n - 1] + parts[n]
    BY <1>2, RunningSumSteps
  <1>6. /\ \A n \in 0..N : RunningSum(parts)[n] \in Nat
        /\ \A n \in 1..N : RunningSum(parts)[n] = RunningSum(parts)[n - 1] + list[n].weight
    BY <1>3, <1>5
  <1> QED
    BY <1>2, <1>4, <1>5, <1>6 DEF N, parts

\* The score of a UID over the whole list.
LEMMA MinedIsLast ==
  ASSUME NEW list \in Seq(Miner), NEW u
  PROVE  Mined(list, u) = MinedAfter(list, u, Len(list)) /\ Mined(list, u) \in Nat
  <1>1. PartsOf(list, u) \in [1..Len(list) -> Nat]
    BY MinersTyped DEF PartsOf
  <1>2. Len(PartsOf(list, u)) = Len(list)
    BY <1>1, MinersTyped
  <1>3. Mined(list, u) = MinedAfter(list, u, Len(list))
    BY <1>2 DEF Mined, SumOf, MinedAfter, PartsOf
  <1>4. Len(list) \in 0..Len(list)
    BY MinersTyped
  <1> QED
    BY <1>3, <1>4, MinedSteps

\* The shares are the exact parts.
LEMMA SharesAreParts ==
  ASSUME NEW list \in Seq(Miner), NEW uid, NEW b \in Nat, BPS - b \in Nat
  PROVE  Shares(list, uid, b) = [u \in AllUids(list, uid) |-> Part(list, uid, b, u)]
  <1> DEFINE N == Len(list)
             before == FirstUids(list, N)
             c == BPS - b
  <1>1. N \in 0..N /\ N \in Nat
    BY MinersTyped
  <1>2. MinerShares(list, b) = SharesAfter(list, c, N)
    BY <1>1, RunningSharesSteps DEF MinerShares
  <1>3. DOMAIN SharesAfter(list, c, N) = before
    BY DEF SharesAfter
  <1>4. Total(list) \in Nat
    BY <1>1, TotalSteps
  <1>5. ASSUME NEW u \in AllUids(list, uid)
        PROVE  (IF u \in before THEN SharesAfter(list, c, N)[u] ELSE 0)
                   + (IF u = uid THEN Total(list) * b ELSE 0)
               = Part(list, uid, b, u)
    <2>1. (IF u \in before THEN SharesAfter(list, c, N)[u] ELSE 0) = Mined(list, u) * c
      <3>1. CASE u \in before
        BY <3>1, MinedIsLast DEF SharesAfter
      <3>2. CASE u \notin before
        <4>1. Mined(list, u) = 0
          BY <1>1, <3>2, NotMined, MinedIsLast
        <4> QED
          BY <3>2, <4>1
      <3> QED
        BY <3>1, <3>2
    <2> QED
      BY <2>1 DEF Part
  <1> HIDE DEF N, before, c
  <1>6. Shares(list, uid, b) = [u \in before \union {uid} |->
            (IF u \in before THEN SharesAfter(list, c, N)[u] ELSE 0)
                + IF u = uid THEN Total(list) * b ELSE 0]
    BY <1>2, <1>3 DEF Shares, AddShare
  <1>7. before \union {uid} = AllUids(list, uid)
    BY DEF AllUids, before, N
  <1> QED
    BY <1>5, <1>6, <1>7

\* If anything is scored then some UID is.
LEMMA SomeUidMined ==
  ASSUME NEW list \in Seq(Miner), Total(list) > 0
  PROVE  \E u \in FirstUids(list, Len(list)) : Mined(list, u) > 0
  <1> DEFINE N == Len(list)
             sum == RunningSum([i \in DOMAIN list |-> list[i].weight])
             S == {n \in Nat : n <= N /\ sum[n] > 0 =>
                       \E u \in FirstUids(list, n) : MinedAfter(list, u, n) > 0}
  <1> HIDE DEF sum
  <1>1. /\ \A n \in 0..N : sum[n] \in Nat
        /\ sum[0] = 0
        /\ \A n \in 1..N : sum[n] = sum[n - 1] + list[n].weight
        /\ Total(list) = sum[N]
    BY TotalSteps DEF sum
  <1>2. 0 \in S
    BY <1>1
  <1>3. ASSUME NEW m \in Nat, m \in S PROVE m + 1 \in S
    <2> DEFINE n == m + 1
    <2> SUFFICES ASSUME n <= N, sum[n] > 0
                 PROVE  \E u \in FirstUids(list, n) : MinedAfter(list, u, n) > 0
      OBVIOUS
    <2>1. n \in 1..N /\ n - 1 = m /\ m \in 0..N /\ n \in 1..n /\ \A i \in 1..m : i \in 1..n
      BY MinersTyped
    <2>2. list[n].weight \in Nat
      BY <2>1, MinersTyped
    <2>3. ASSUME NEW u
          PROVE  MinedAfter(list, u, m) \in Nat /\ MinedAfter(list, u, n)
                     = MinedAfter(list, u, m) + IF list[n].uid = u THEN list[n].weight ELSE 0
      <3>1. \A k \in 1..N : MinedAfter(list, u, k)
                = MinedAfter(list, u, k - 1) + IF list[k].uid = u THEN list[k].weight ELSE 0
        BY MinedSteps
      <3>2. MinedAfter(list, u, m) \in Nat
        BY <2>1, MinedSteps
      <3> HIDE DEF n, N
      <3> QED
        BY <2>1, <3>1, <3>2
    <2>4. FirstUids(list, m) \subseteq FirstUids(list, n) /\ list[n].uid \in FirstUids(list, n)
      BY <2>1 DEF FirstUids
    <2> HIDE DEF n
    <2>5. CASE sum[m] > 0
      <3>1. PICK u \in FirstUids(list, m) : MinedAfter(list, u, m) > 0
        BY <1>3, <2>1, <2>5
      <3>2. MinedAfter(list, u, n) > 0
        BY <2>2, <2>3, <3>1
      <3> QED
        BY <2>4, <3>2
    <2>6. CASE ~ (sum[m] > 0)
      <3>1. list[n].weight > 0
        BY <1>1, <2>1, <2>2, <2>6
      <3>2. MinedAfter(list, list[n].uid, n) > 0
        BY <2>2, <2>3, <3>1
      <3> QED
        BY <2>4, <3>2
    <2> QED
      BY <2>5, <2>6
  <1>4. Nat \subseteq S
    <2> HIDE DEF S
    <2> QED
      BY <1>2, <1>3, SetInduction
  <1>5. N \in Nat
    BY MinersTyped
  <1>6. \E u \in FirstUids(list, N) : MinedAfter(list, u, N) > 0
    BY <1>1, <1>4, <1>5
  <1> QED
    BY <1>6, MinedIsLast

\* Among the UIDs of a list there is one with the largest value.
LEMMA LargestExists ==
  ASSUME NEW list \in Seq(Miner), NEW uid, NEW f, \A u \in AllUids(list, uid) : f[u] \in Nat
  PROVE  \E u \in AllUids(list, uid) : \A v \in AllUids(list, uid) : f[v] <= f[u]
  <1> DEFINE N == Len(list)
             First(n) == {uid} \union FirstUids(list, n)
             S == {n \in Nat : n <= N => \E u \in First(n) : \A v \in First(n) : f[v] <= f[u]}
  <1>1. N \in Nat /\ First(N) = AllUids(list, uid)
    BY MinersTyped DEF AllUids
  <1>2. \A n \in 0..N : First(n) \subseteq First(N)
    BY <1>1 DEF FirstUids
  <1>3. 0 \in S
    <2>1. First(0) = {uid}
      BY DEF FirstUids
    <2> QED
      BY <1>1, <2>1
  <1>4. ASSUME NEW m \in Nat, m \in S PROVE m + 1 \in S
    <2> DEFINE n == m + 1
    <2> SUFFICES ASSUME n <= N PROVE \E u \in First(n) : \A v \in First(n) : f[v] <= f[u]
      OBVIOUS
    <2>1. m \in 0..N /\ n \in 0..N
      BY <1>1
    <2>2. First(n) = First(m) \union {list[n].uid}
      <3>1. \A i \in Int : i \in 1..n <=> i \in 1..m \/ i = n
        OBVIOUS
      <3> QED
        BY <3>1 DEF FirstUids
    <2>3. \A u \in First(n) : f[u] \in Nat
      BY <1>1, <1>2, <2>1
    <2> HIDE DEF n, First
    <2>4. PICK u \in First(m) : \A v \in First(m) : f[v] <= f[u]
      BY <1>4, <2>1
    <2>5. f[u] <= f[list[n].uid] \/ f[list[n].uid] <= f[u]
      BY <2>2, <2>3
    <2>6. CASE f[u] <= f[list[n].uid]
      <3>1. \A v \in First(n) : f[v] <= f[list[n].uid]
        BY <2>2, <2>3, <2>4, <2>6
      <3> QED
        BY <2>2, <3>1
    <2>7. CASE f[list[n].uid] <= f[u]
      <3>1. \A v \in First(n) : f[v] <= f[u]
        BY <2>2, <2>3, <2>4, <2>7
      <3> QED
        BY <2>2, <3>1
    <2> QED
      BY <2>5, <2>6, <2>7
  <1>5. Nat \subseteq S
    <2> HIDE DEF S
    <2> QED
      BY <1>3, <1>4, SetInduction
  <1> HIDE DEF First
  <1> QED
    BY <1>1, <1>5

\* Rounding half up: off by half a unit at most, and exact for the largest.
LEMMA Rounding ==
  ASSUME NEW s \in Nat, NEW h \in Nat \ {0}, NEW m \in Nat
  PROVE  LET w == (s * m + h \div 2) \div h IN
         /\ w \in Nat
         /\ -h <= 2 * (w * h - s * m) /\ 2 * (w * h - s * m) <= h
         /\ s = h => w = m
  <1> DEFINE x == s * m
             half == h \div 2
             w == (x + half) \div h
  <1>1. x \in Nat
    BY NatTimes
  <1>2. half \in Nat /\ 2 * half <= h /\ h < 2 * half + 2 /\ half < h
    BY DivBounds
  <1>3. w \in Nat /\ h * w <= x + half /\ x + half < h * w + h
    BY <1>1, <1>2, DivBounds
  <1> HIDE DEF x, half, w
  <1>4. h * w \in Nat /\ w * h = h * w
    BY <1>3, NatTimes, SMT
  <1>5. -h <= 2 * (w * h - x) /\ 2 * (w * h - x) <= h
    BY <1>1, <1>2, <1>3, <1>4
  <1>6. ASSUME x = h * m PROVE w = m
    <2>1. h * (m + 1) = h * m + h /\ h * m \in Nat
      BY SMT
    <2>2. w < m + 1
      <3> SUFFICES ASSUME m + 1 <= w PROVE FALSE
        BY <1>3
      <3>1. (m + 1) * h <= w * h
        BY <1>3, TimesMonotone
      <3>2. (m + 1) * h = h * (m + 1)
        BY SMT
      <3> QED
        BY <1>2, <1>3, <1>4, <1>6, <2>1, <3>1, <3>2
    <2>3. m < w + 1
      <3> SUFFICES ASSUME w + 1 <= m PROVE FALSE
        BY <1>3
      <3>1. (w + 1) * h <= m * h
        BY <1>3, TimesMonotone
      <3>2. (w + 1) * h = h * w + h /\ m * h = h * m
        BY <1>3, SMT
      <3> QED
        BY <1>2, <1>3, <1>4, <1>6, <2>1, <3>1, <3>2
    <2> QED
      BY <1>3, <2>2, <2>3
  <1> QED
    BY <1>3, <1>5, <1>6 DEF x, half, w

\* Upscaling keeps every UID's exact part of the largest one, to the nearest unit.
LEMMA UpscaledBounds ==
  ASSUME NEW U, NEW f \in [U -> Nat], NEW top \in U, \A u \in U : f[u] <= f[top], f[top] > 0
  PROVE  LET v == Upscaled(f)
             weight(u) == IF u \in DOMAIN v THEN v[u] ELSE 0
             error(u) == 2 * (weight(u) * f[top] - f[u] * MaxU16)
         IN /\ Max({f[u] : u \in U}) = f[top]
            /\ DOMAIN v \subseteq U
            /\ \A u \in U : -f[top] <= error(u) /\ error(u) <= f[top]
            /\ top \in DOMAIN v /\ v[top] = MaxU16
  <1> DEFINE high == f[top]
             rounded(u) == (f[u] * MaxU16 + high \div 2) \div high
             v == Upscaled(f)
             weight(u) == IF u \in DOMAIN v THEN v[u] ELSE 0
  <1>1. high \in Nat \ {0} /\ MaxU16 \in Nat \ {0} /\ \A u \in U : f[u] \in Nat
    BY Constants
  <1>2. Max({f[u] : u \in U}) = high
    <2>1. high \in {f[u] : u \in U} /\ \A y \in {f[u] : u \in U} : y \in Nat /\ high >= y
      BY <1>1
    <2> HIDE DEF high
    <2>2. \A x \in {f[u] : u \in U} :
              (\A y \in {f[u] : u \in U} : x >= y) => x = high
      BY <2>1, <1>1
    <2> QED
      BY <2>1, <2>2 DEF Max
  <1>3. Highest(f) = high
    BY <1>2 DEF Highest
  <1>4. \A u \in U : /\ rounded(u) \in Nat
                     /\ -high <= 2 * (rounded(u) * high - f[u] * MaxU16)
                     /\ 2 * (rounded(u) * high - f[u] * MaxU16) <= high
                     /\ f[u] = high => rounded(u) = MaxU16
    <2> HIDE DEF high
    <2> QED
      BY <1>1, Rounding
  <1>5. v = [u \in {x \in U : rounded(x) > 0} |-> rounded(u)]
    <2>1. DOMAIN f = U
      OBVIOUS
    <2> HIDE DEF high
    <2> QED
      BY <1>3, <2>1 DEF Upscaled
  <1> HIDE DEF rounded, v
  <1>6. \A u \in U : weight(u) = rounded(u)
    BY <1>4, <1>5
  <1>7. top \in DOMAIN v /\ v[top] = MaxU16
    BY <1>1, <1>4, <1>5
  <1>8. DOMAIN v \subseteq U
    BY <1>5
  <1>9. \A u \in U : /\ -high <= 2 * (weight(u) * high - f[u] * MaxU16)
                     /\ 2 * (weight(u) * high - f[u] * MaxU16) <= high
    BY <1>4, <1>6
  <1> QED
    BY <1>2, <1>7, <1>8, <1>9 DEF v

\* The vector computed from the scored miners is exact.
LEMMA UpscaledIsExact ==
  ASSUME miners \in Seq(Miner), burn \in 0..(BPS - 1), pc = "sign", Total(miners) > 0,
         vector = Upscaled(Shares(miners, owner, burn))
  PROVE  VectorIsExact
  <1> DEFINE U == AllUids(miners, owner)
             f == [u \in U |-> Part(miners, owner, burn, u)]
  <1>1. burn \in Nat /\ BPS - burn \in Nat /\ BPS - burn > 0
    BY Constants
  <1>2. Total(miners) \in Nat /\ Total(miners) * burn \in Nat
    <2>1. Len(miners) \in 0..Len(miners)
      BY MinersTyped
    <2>2. Total(miners) \in Nat
      BY <2>1, TotalSteps
    <2> QED
      BY <1>1, <2>2, NatTimes
  <1>3. ASSUME NEW u \in U
        PROVE  /\ f[u] = Part(miners, owner, burn, u) /\ f[u] \in Nat
               /\ Mined(miners, u) > 0 => f[u] > 0
    <2>1. Mined(miners, u) \in Nat /\ Mined(miners, u) * (BPS - burn) \in Nat
      BY <1>1, MinedIsLast, NatTimes
    <2>2. Mined(miners, u) > 0 => Mined(miners, u) * (BPS - burn) > 0
      BY <1>1, <2>1, SMT
    <2> QED
      BY <1>2, <2>1, <2>2 DEF Part
  <1>4. f \in [U -> Nat]
    BY <1>3
  <1>5. vector = Upscaled(f)
    BY <1>1, SharesAreParts
  <1>6. U = Uids /\ \A u : Part(miners, owner, burn, u) = ExactShare(u)
    BY MinersTyped DEF AllUids, FirstUids, Uids, Part, ExactShare
  <1> HIDE DEF f
  <1>7. PICK top \in U : \A u \in U : f[u] <= f[top]
    BY <1>3, LargestExists
  <1>8. f[top] > 0
    <2>1. PICK u \in U : Mined(miners, u) > 0
      BY SomeUidMined DEF AllUids
    <2> QED
      BY <1>3, <1>7, <2>1
  <1> HIDE DEF U
  <1>9. {f[u] : u \in U} = {ExactShare(u) : u \in Uids}
    BY <1>3, <1>6
  <1>10. /\ Max({f[u] : u \in U}) = f[top]
         /\ DOMAIN vector \subseteq U
         /\ top \in DOMAIN vector /\ vector[top] = MaxU16
         /\ \A u \in U :
               LET weight == IF u \in DOMAIN vector THEN vector[u] ELSE 0
               IN  /\ -f[top] <= 2 * (weight * f[top] - f[u] * MaxU16)
                   /\ 2 * (weight * f[top] - f[u] * MaxU16) <= f[top]
    BY <1>4, <1>5, <1>7, <1>8, UpscaledBounds
  <1> QED
    BY <1>3, <1>6, <1>9, <1>10 DEF VectorIsExact

VectorInv ==
    /\ miners \in Seq(Miner)
    /\ pc \in {"weigh", "sign"} => burn \in 0..(BPS - 1)
    /\ pc = "sign" /\ Total(miners) > 0 => vector = Upscaled(Shares(miners, owner, burn))

\* Nothing is scored initially.
LEMMA VectorInit == Init => VectorInv
  BY DEF Init, VectorInv

\* Every step keeps what is known of the vector.
LEMMA VectorNext == Inv /\ Inv' /\ VectorInv /\ [Next]_vars => VectorInv'
  <1> SUFFICES ASSUME Inv, Inv', VectorInv, [Next]_vars PROVE VectorInv'
    OBVIOUS
  <1> USE DEF VectorInv
  <1>1. CASE RefuseSubnet \/ RefuseEconomics \/ RefuseUid
    BY <1>1 DEF RefuseSubnet, RefuseEconomics, RefuseUid, Refuse
  <1>2. CASE CheckSubnet \/ ReadEconomics
    BY <1>2 DEF CheckSubnet, ReadEconomics
  <1>3. CASE PriceBurn
    <2>1. policy \in Policy /\ econ \in Economics /\ econ.alphaIn > 0
      BY <1>3 DEF PriceBurn, Inv, Priceable
    <2>2. MinersValue(econ, policy.price) \in Nat /\ policy.target \in 1..MaxU64
      BY <2>1, ValueBounds, Inputs
    <2>3. burn' \in 0..(BPS - 1)
      BY <1>3, <2>2, BurnBounds DEF PriceBurn
    <2> QED
      BY <1>3, <2>3 DEF PriceBurn
  <1>4. CASE TakeScores
    BY <1>4, InputAssumption DEF TakeScores
  <1>5. CASE Weigh
    <2>1. burn # BPS
      BY <1>5, Constants DEF Weigh
    <2>2. Total(miners) > 0 => ~ OwnerAlone(miners, burn)
      BY <2>1, TotalSteps DEF OwnerAlone
    <2> QED
      BY <1>5, <2>2 DEF Weigh
  <1>6. CASE Done \/ UNCHANGED vars
    BY <1>6 DEF Done, vars
  <1> QED
    BY <1>1, <1>2, <1>3, <1>4, <1>5, <1>6 DEF Next

\* Whatever was scored, every UID is given its exact part of the emission relative to the
\* largest one, to the nearest unit of a u16, and the largest is MAX_WEIGHT (burn.rs, weights).
THEOREM VectorExact == Spec => []VectorIsExact
  <1>1. VectorInv => VectorIsExact
    BY UpscaledIsExact DEF VectorInv, VectorIsExact
  <1> QED
    BY InvInit, InvNext, VectorInit, VectorNext, <1>1, PTL DEF Spec
=============================================================================
