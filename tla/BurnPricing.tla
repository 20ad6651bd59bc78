---------------------------- MODULE BurnPricing ----------------------------
(***************************************************************************)
(* The numbers of one submission (submit_at, src/src/burn.rs): the checks  *)
(* on the subnet, the burn that leaves the miners their target, and the    *)
(* weight vector.  Products that the code does not check wrap at the width *)
(* of a u128; those it checks are refused.  "Fault:" operators are         *)
(* mistakes the properties must notice.                                    *)
(***************************************************************************)
EXTENDS Integers, Sequences, FiniteSetsExt

CONSTANTS
    MaxU16, MaxU64, MaxU128,  \* the largest value of each width
    BPS, BurnStep, RaoPerTao, \* the code's units
    Emissions, Tempos, Cuts, Reserves, Targets, Prices,  \* values to check
    MinerLists,               \* scored miners to check, sequences of Miner
    None

Miner == [uid: Nat, weight: Nat]

\* The widths leave room for the products the code does not check: a u64 times two u16,
\* and a u64 times BPS and RAO_PER_TAO.
ASSUME WidthAssumption ==
    /\ {MaxU16, MaxU64, MaxU128, BPS, BurnStep, RaoPerTao} \subseteq Nat \ {0}
    /\ MaxU64 * MaxU16 * MaxU16 <= MaxU128
    /\ BPS * (MaxU64 * RaoPerTao) <= MaxU128

ASSUME InputAssumption ==
    /\ Tempos \union Cuts \subseteq 0..MaxU16
    /\ Emissions \union Reserves \subseteq 0..MaxU64
    /\ Targets \union Prices \subseteq 1..MaxU64   \* NonZeroU64 in the summary
    /\ MinerLists \subseteq Seq(Miner)

VARIABLES
    pc,      \* the next step, or how the submission ended
    owner,   \* the owner's UID
    policy,  \* the summary's target and price, in US cents
    econ,    \* EpochEconomics
    burn,    \* BurnFraction
    miners,  \* the scored miners
    vector   \* the weights that are signed, a function on their UIDs

vars == <<pc, owner, policy, econ, burn, miners, vector>>

Economics == [emission: Emissions, tempo: Tempos, cut: Cuts, tao: Reserves,
              alphaIn: Reserves]
Policy == [target: Targets, price: Prices]

\* None is no record.
ASSUME NoneAssumption == None \notin Policy \union Economics

Wrap(n) == n % (MaxU128 + 1)
Fits(n) == n <= MaxU128

Init ==
    /\ pc = "subnet"
    /\ owner = None
    /\ policy \in Policy \union {None}
    /\ econ = None
    /\ burn = None
    /\ miners = <<>>
    /\ vector = None

Refuse ==
    /\ pc' = "refused"
    /\ UNCHANGED <<owner, policy, econ, burn, miners, vector>>

\* A summary without a target or a price sets no weights; the subnet must be in Burn
\* mode, and its owner hotkey registered.
RefuseSubnet == pc = "subnet" /\ Refuse

CheckSubnet ==
    /\ pc = "subnet"
    /\ policy # None
    /\ owner' \in 0..MaxU16
    /\ pc' = "price"
    /\ UNCHANGED <<policy, econ, burn, miners, vector>>

-----------------------------------------------------------------------------
(* Pricing *)

\* After the owner's cut, half of the rest goes to the miners.
MinersAlpha(e) == Wrap(e.emission * e.tempo * (MaxU16 - e.cut)) \div (2 * MaxU16)

MinersTao(e) == (MinersAlpha(e) * e.tao) \div e.alphaIn

MinersValue(e, price) == MinersTao(e) * price

Priceable(e, price) ==
    /\ e.alphaIn > 0
    /\ Fits(MinersAlpha(e) * e.tao)
    /\ Fits(MinersValue(e, price))

\* Fault: the share to keep is rounded down.
DivFloor(a, b) == a \div b

DivCeil(a, b) == (a + b - 1) \div b

TargetValue(target) == target * RaoPerTao

Keep(target, value) == DivCeil(Wrap(BPS * TargetValue(target)), value)

\* Fault: the burn is rounded down past a step it is on.
RoundPast(b) == IF b < BurnStep THEN 0 ELSE BurnStep * ((b - 1) \div BurnStep)

WholeSteps(b) == b - (b % BurnStep)

BurnForTarget(target, value) ==
    IF value <= TargetValue(target) THEN 0 ELSE WholeSteps(BPS - Keep(target, value))

ReadEconomics ==
    /\ pc = "price"
    /\ econ = None
    /\ econ' \in Economics
    /\ UNCHANGED <<pc, owner, policy, burn, miners, vector>>

RefuseEconomics ==
    /\ pc = "price"
    /\ econ # None
    /\ ~ Priceable(econ, policy.price)
    /\ Refuse

PriceBurn ==
    /\ pc = "price"
    /\ econ # None
    /\ Priceable(econ, policy.price)
    /\ burn' = BurnForTarget(policy.target, MinersValue(econ, policy.price))
    /\ pc' = "weigh"
    /\ UNCHANGED <<owner, policy, econ, miners, vector>>

-----------------------------------------------------------------------------
(* The weight vector *)

\* The sums of the first n numbers of a sequence, for every n.
RunningSum(parts) ==
    LET sum[n \in 0..Len(parts)] == IF n = 0 THEN 0 ELSE sum[n - 1] + parts[n]
    IN sum

SumOf(parts) == RunningSum(parts)[Len(parts)]

Total(list) == SumOf([i \in DOMAIN list |-> list[i].weight])

AddShare(shares, uid, part) ==
    [u \in DOMAIN shares \union {uid} |->
        (IF u \in DOMAIN shares THEN shares[u] ELSE 0) + IF u = uid THEN part ELSE 0]

\* The map after the first n records, for every n.
RunningShares(list, b) ==
    LET shares[n \in 0..Len(list)] ==
            IF n = 0 THEN <<>>
            ELSE AddShare(shares[n - 1], list[n].uid, list[n].weight * (BPS - b))
    IN shares

MinerShares(list, b) == RunningShares(list, b)[Len(list)]

\* Fault: or_insert without the addition, for an owner that mines.
SharesUnlessMining(list, uid, b) ==
    IF uid \in DOMAIN MinerShares(list, b) THEN MinerShares(list, b)
    ELSE AddShare(MinerShares(list, b), uid, Total(list) * b)

Shares(list, uid, b) == AddShare(MinerShares(list, b), uid, Total(list) * b)

Highest(shares) == Max({shares[u] : u \in DOMAIN shares})

Upscaled(shares) ==
    LET high == Highest(shares)
        weight == [u \in DOMAIN shares |-> (shares[u] * MaxU16 + high \div 2) \div high]
    IN [u \in {v \in DOMAIN shares : weight[v] > 0} |-> weight[u]]

OwnerAlone(list, b) == b = BPS \/ Total(list) = 0

KnownUids(list) == \A i \in DOMAIN list : list[i].uid <= MaxU16

\* The summary's scores, which nothing before this looks at.
TakeScores ==
    /\ pc = "weigh"
    /\ econ # None
    /\ econ' = None
    /\ policy' = None
    /\ miners' \in MinerLists
    /\ UNCHANGED <<pc, owner, burn, vector>>

Weigh ==
    /\ pc = "weigh"
    /\ econ = None
    /\ \/ OwnerAlone(miners, burn) /\ vector' = [u \in {owner} |-> MaxU16]
       \/ /\ ~ OwnerAlone(miners, burn)
          /\ KnownUids(miners)
          /\ vector' = Upscaled(Shares(miners, owner, burn))
    /\ pc' = "sign"
    /\ UNCHANGED <<owner, policy, econ, burn, miners>>

RefuseUid ==
    /\ pc = "weigh"
    /\ econ = None
    /\ ~ OwnerAlone(miners, burn)
    /\ ~ KnownUids(miners)
    /\ Refuse

Done == pc \in {"sign", "refused"} /\ UNCHANGED vars

Next ==
    \/ RefuseSubnet \/ CheckSubnet
    \/ ReadEconomics \/ RefuseEconomics \/ PriceBurn
    \/ TakeScores \/ Weigh \/ RefuseUid \/ Done

Spec == Init /\ [][Next]_vars

-----------------------------------------------------------------------------
(* Properties *)

\* What the burn leaves the miners is worth at least the target, in exact fractions:
\*    (1 - burn/BPS) * emission * tempo * (1 - cut)/2 * tao/alphaIn * price >= target
\* although the code divides three times on the way (burn.rs:138, 169).
MinersKeepTarget ==
    econ # None /\ pc = "weigh" /\ burn > 0 =>
        (BPS - burn) * ((((econ.emission * econ.tempo * (MaxU16 - econ.cut)) * econ.tao)
                         * policy.price))
        >= (BPS * TargetValue(policy.target)) * (econ.alphaIn * (2 * MaxU16))

\* One more step would not leave it, by the code's own valuation: the burn is the
\* largest that does, and it never takes everything.
BurnIsLargest ==
    econ # None /\ pc = "weigh" =>
        /\ burn % BurnStep = 0
        /\ burn < BPS
        /\ burn + BurnStep <= BPS =>
              (BPS - (burn + BurnStep)) * MinersValue(econ, policy.price)
                  < BPS * TargetValue(policy.target)

\* The definition to compare with: a miner's part of the emission is its weight in
\* what the burn leaves, summed over its records, and the owner's is the burn as well.
Mined(list, u) ==
    SumOf([i \in DOMAIN list |-> IF list[i].uid = u THEN list[i].weight ELSE 0])

ExactShare(u) ==
    Mined(miners, u) * (BPS - burn) + IF u = owner THEN Total(miners) * burn ELSE 0

Uids == {owner} \union {miners[i].uid : i \in DOMAIN miners}

\* Every UID's weight is its exact part of the largest one, to the nearest unit, the
\* largest is MAX_WEIGHT, and only what rounds to nothing is left out.
VectorIsExact ==
    pc = "sign" /\ Total(miners) > 0 =>
        LET high == Max({ExactShare(u) : u \in Uids})
            weight(u) == IF u \in DOMAIN vector THEN vector[u] ELSE 0
            error(u) == 2 * (weight(u) * high - ExactShare(u) * MaxU16)
        IN /\ DOMAIN vector \subseteq Uids
           /\ \A u \in Uids : -high <= error(u) /\ error(u) <= high
           /\ \E u \in DOMAIN vector : vector[u] = MaxU16
=============================================================================
