------------------------------ MODULE Emission ------------------------------
(***************************************************************************)
(* The arithmetic of wow-consensus that decides what a block may weigh,    *)
(* what it is paid and what its transactions must pay: emission.rs,        *)
(* weight.rs and fee.rs.  The protocol's sizes are constants, so that the  *)
(* windows and the roundings can be met by small numbers; the fractions    *)
(* (10/17, 7/10, 2/5, 1/20, 1/50) are the protocol's own.                  *)
(***************************************************************************)
EXTENDS Integers, Sequences, FiniteSets, SequencesExt

CONSTANTS
    MoneySupply,      \* MONEY_SUPPLY
    EmissionSpeed,    \* EMISSION_SPEED_FACTOR: the shift that yields the reward
    FullRewardZone,   \* get_min_block_weight, the same for every version from 5
    SurgeFactor,      \* SHORT_TERM_BLOCK_WEIGHT_SURGE_FACTOR
    ReferenceWeight,  \* DYNAMIC_FEE_REFERENCE_TRANSACTION_WEIGHT
    QuantizationMask, \* FEE_QUANTIZATION_MASK
    FeePlaces         \* SCALING_2021_FEE_ROUNDING_PLACES

ASSUME EmissionAssumption ==
    /\ {MoneySupply, EmissionSpeed} \subseteq Nat /\ 2 ^ EmissionSpeed \in Nat \ {0}
    /\ {FullRewardZone, SurgeFactor, ReferenceWeight, QuantizationMask, FeePlaces}
          \subseteq Nat \ {0}

(* The hard-fork versions at which a rule changes. *)
LongTermWeights == 13
ExactCoinbase == 16
Scaling2021 == 20

Larger(a, b) == IF a < b THEN b ELSE a
Smaller(a, b) == IF a < b THEN a ELSE b

-----------------------------------------------------------------------------
(* Medians. *)

GetMid(a, b) == a \div 2 + b \div 2 + ((a % 2) + (b % 2)) \div 2

(* The n-th smallest value of a sequence: what stands at n once it is sorted. *)
Nth(s, n) ==
    CHOOSE x \in Range(s) :
        /\ Cardinality({k \in DOMAIN s : s[k] < x}) < n
        /\ Cardinality({k \in DOMAIN s : s[k] <= x}) >= n

Median(s) ==
    LET half == Len(s) \div 2 IN
    IF s = << >> THEN 0
    ELSE IF Len(s) % 2 = 1 THEN Nth(s, half + 1)
    ELSE GetMid(Nth(s, half), Nth(s, half + 1))

-----------------------------------------------------------------------------
(* The block reward and the coinbase that claims it. *)

BaseReward(coins) == (MoneySupply - coins) \div (2 ^ EmissionSpeed)

TooBig(median, weight) == weight > 2 * Larger(median, FullRewardZone)

(* Fault: one division by the median instead of two. *)
BlockReward_OneDivision(median, weight, coins) ==
    LET m == Larger(median, FullRewardZone) IN
    IF weight <= m THEN BaseReward(coins)
    ELSE (BaseReward(coins) * ((2 * m - weight) * weight)) \div m

(* `get_block_reward` of a block that is not too big. *)
BlockReward(median, weight, coins) ==
    LET m == Larger(median, FullRewardZone) IN
    IF weight <= m THEN BaseReward(coins)
    ELSE ((BaseReward(coins) * ((2 * m - weight) * weight)) \div m) \div m

(* `validate_miner_reward`: what it accepts, and the reward it then counts. *)
ClaimAllowed(version, base, fee, claimed) ==
    IF version >= ExactCoinbase THEN claimed = base + fee
                                ELSE claimed <= base + fee /\ fee <= claimed

AdjustedReward(version, base, fee, claimed) ==
    IF version >= ExactCoinbase THEN base ELSE claimed - fee

-----------------------------------------------------------------------------
(* Block weights. *)

(* `next_long_term_block_weight`: the weight stored for the long-term median. *)
NextLongTermWeight(version, weight, longMedian) ==
    LET ltem == Larger(FullRewardZone, longMedian) IN
    IF version < LongTermWeights THEN weight
    ELSE IF version < Scaling2021 THEN Smaller(weight, ltem + (ltem * 2) \div 5)
    ELSE Smaller(Larger(weight, (ltem * 10) \div 17), ltem + (ltem * 7) \div 10)

(* `update_next_cumulative_weight_limit`; the limit is twice the median, and
   the effective long-term median is not set before version 13. *)
WeightLimits(version, recent, longMedian) ==
    LET ltem == Larger(FullRewardZone, longMedian)
        stm == Median(recent)
        floor == IF version >= Scaling2021 THEN ltem ELSE FullRewardZone
    IN IF version < LongTermWeights
       THEN [median |-> Larger(FullRewardZone, stm), ltem |-> 0]
       ELSE [median |-> Larger(FullRewardZone,
                               Smaller(Larger(floor, stm), SurgeFactor * ltem)),
             ltem |-> ltem]

-----------------------------------------------------------------------------
(* Fees, from version 12 on: what a transaction has to pay per byte, and    *)
(* the tiers a wallet is told to pay.                                       *)

QuantizeUp(v) == ((v + QuantizationMask - 1) \div QuantizationMask) * QuantizationMask

DynamicBaseFee(reward, median, version) ==
    LET m == Larger(median, FullRewardZone)
        once == (reward * ReferenceWeight) \div m
        twice == once \div m
    IN IF version >= Scaling2021 THEN Larger(twice - twice \div 20, 1)
                                 ELSE (once \div FullRewardZone) \div 5

(* `FeeContext::fee_median`. *)
FeeMedian(limits, version) ==
    IF version >= LongTermWeights THEN Smaller(limits.median, limits.ltem)
                                  ELSE limits.median

(* `check_fee`, with its two per cent of tolerance. *)
FeeEnough(limits, coins, version, weight, fee) ==
    LET base == BlockReward(limits.median, 1, coins)
        needed == QuantizeUp(weight * DynamicBaseFee(base, FeeMedian(limits, version), version))
    IN fee >= needed - needed \div 50

(* The decimal digits of a number, the most significant first. *)
DigitsOf(n) ==
    LET digits[k \in 0..n] ==
            IF k < 10 THEN <<k>> ELSE Append(digits[k \div 10], k % 10)
    IN  digits[n]

NumberOf(digits) ==
    LET read[k \in 0..Len(digits)] ==
            IF k = 0 THEN 0 ELSE 10 * read[k - 1] + digits[k]
    IN  read[Len(digits)]

(* Fault: the digits past the kept ones are dropped. *)
RoundMoneyUp_Down(amount, places) ==
    LET d == DigitsOf(amount) IN
    NumberOf([k \in DOMAIN d |-> IF k <= places THEN d[k] ELSE 0])

(* `round_money_up`: any digit past the kept ones bumps the last kept one, a
   nine becomes a zero and passes the bump on, and a bump that leaves the
   first digit puts a one before it. *)
RoundMoneyUp(amount, places) ==
    LET d == DigitsOf(amount)
        bump == \E k \in DOMAIN d : k > places /\ d[k] # 0
        stops == {k \in DOMAIN d : k <= places /\ d[k] # 9}
        last == IF stops = {} THEN 0 ELSE CHOOSE k \in stops : \A j \in stops : j <= k
        bumped == [k \in DOMAIN d |-> CASE k < last -> d[k]
                                        [] k = last -> d[k] + 1
                                        [] OTHER -> 0]
        kept == [k \in DOMAIN d |-> IF k <= places THEN d[k] ELSE 0]
    IN IF ~ bump THEN NumberOf(kept)
       ELSE NumberOf(IF last = 0 THEN <<1>> \o bumped ELSE bumped)

(* `fee_tiers_2021`. *)
FeeTiers(reward, limits) ==
    LET mfw == Smaller(limits.median, limits.ltem)
        low == (reward * ReferenceWeight) \div (mfw * mfw)
        normal == (4 * reward * ReferenceWeight) \div (mfw * mfw)
        medium == (16 * reward * ReferenceWeight) \div (FullRewardZone * mfw)
        divisor == (32 * ReferenceWeight * limits.median) \div FullRewardZone
        high == Larger(4 * medium,
                       IF divisor = 0 THEN 4 * medium ELSE (4 * medium * mfw) \div divisor)
    IN << RoundMoneyUp(low, FeePlaces), RoundMoneyUp(normal, FeePlaces),
          RoundMoneyUp(medium, FeePlaces), RoundMoneyUp(high, FeePlaces) >>
=============================================================================
