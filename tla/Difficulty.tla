----------------------------- MODULE Difficulty -----------------------------
(***************************************************************************)
(* The difficulty algorithms of wow-consensus (difficulty.rs) that         *)
(* versions 7, 11 to 19 and 20 on select: the classic one (v1), LWMA-1     *)
(* (v5) and v6, which is v1 with other windows.  Machine words are scaled  *)
(* down: a u64 holds one limb below LimbBase, a u128 two, and the product  *)
(* of a difficulty and the target is carried in four.                      *)
(***************************************************************************)
EXTENDS Emission

CONSTANTS
    LimbBase,        \* 2^64
    Target,          \* DIFFICULTY_TARGET_V2
    Window, Cut, Lag,         \* DIFFICULTY_WINDOW, _CUT, _LAG
    WindowV3, CutV2, LagV2    \* DIFFICULTY_WINDOW_V3, _CUT_V2, _LAG_V2

ASSUME DifficultyAssumption ==
    /\ LimbBase \in Nat /\ LimbBase > 1
    /\ Target \in 1..(LimbBase - 1)
    /\ {Window, Cut, Lag, WindowV3, CutV2, LagV2} \subseteq Nat /\ LagV2 # 0
    /\ Window > 2 * Cut + 1 /\ WindowV3 > 2 * CutV2 + 1

U128 == LimbBase * LimbBase

-----------------------------------------------------------------------------
(* 256-bit arithmetic in limbs: pairs of a low and a high u128. *)

(* Fault: the carry out of the middle column is dropped. *)
MulU128_NoCarry(a, b) ==
    LET aLo == a % LimbBase  aHi == a \div LimbBase
        bLo == b % LimbBase  bHi == b \div LimbBase
        mid == (aLo * bLo) \div LimbBase + aLo * bHi + aHi * bLo
    IN << ((aLo * bLo) % LimbBase) + ((mid * LimbBase) % U128), aHi * bHi >>

MulU128(a, b) ==
    LET aLo == a % LimbBase  aHi == a \div LimbBase
        bLo == b % LimbBase  bHi == b \div LimbBase
        ll == aLo * bLo
        lh == aLo * bHi
        hl == aHi * bLo
        mid == (ll \div LimbBase) + (lh % LimbBase) + (hl % LimbBase)
    IN << (ll % LimbBase) + ((mid * LimbBase) % U128),
          aHi * bHi + lh \div LimbBase + hl \div LimbBase + mid \div LimbBase >>

AddU256(n, add) == << (n[1] + add) % U128, n[2] + (n[1] + add) \div U128 >>

(* Long division, from the highest limb down: what is left of the limbs above
   stands before each limb. *)
DivU256(n, d) ==
    LET c4 == n[2] \div LimbBase
        c3 == (c4 % d) * LimbBase + (n[2] % LimbBase)
        c2 == (c3 % d) * LimbBase + n[1] \div LimbBase
        c1 == (c2 % d) * LimbBase + (n[1] % LimbBase)
    IN << c1 \div d + (c2 \div d) * LimbBase, c3 \div d + (c4 \div d) * LimbBase >>

(* `ceil_div_256`: zero when the quotient does not fit a u128. *)
CeilDiv256(work, target, span) ==
    LET q == DivU256(AddU256(MulU128(work, target), span - 1), span)
    IN IF q[2] # 0 THEN 0 ELSE q[1]

-----------------------------------------------------------------------------
(* The windows.  `ts` and `cd` are the timestamps and the cumulative        *)
(* difficulties of the blocks of the window, oldest first.                  *)

(* v1 and v6: the newest blocks past `window` are dropped, the timestamps
   alone are sorted, and `cut` of them is left off at either end. *)
NextDifficultyCut(ts, cd, window, cut) ==
    LET length == Smaller(Len(ts), window)
        times == SubSeq(ts, 1, length)
        span == window - 2 * cut
        begin == IF length <= span THEN 0 ELSE (length - span + 1) \div 2
        end == IF length <= span THEN length ELSE begin + span
        timeSpan == Nth(times, end) - Nth(times, begin + 1)
    IN IF length <= 1 THEN 1
       ELSE CeilDiv256((cd[end] - cd[begin + 1]) % U128, Target, Larger(timeSpan, 1))

(* v5.  A block whose timestamp is not above the one before it counts as one
   second later; six targets are the most one block counts for.  (The branches
   that divide before they multiply, for averages near 2^64, and the rounding
   of difficulties above a thousand are left out.) *)
NextDifficultyV5(ts, cd) ==
    LET n == WindowV3
        clock[i \in 0..n] ==
            IF i = 0 THEN ts[1] - Target
            ELSE Larger(ts[i + 1], clock[i - 1] + 1)
        total[i \in 0..n] ==
            IF i = 0 THEN 0
            ELSE total[i - 1] + i * Smaller(6 * Target, clock[i] - clock[i - 1])
        l == Larger(total[n], (n * n * Target) \div 20)
        average == (cd[n + 1] - cd[1]) \div n
    IN IF Len(ts) < n + 1 THEN 1
       ELSE (average * (n * (n + 1) * Target * 99)) \div (200 * l)

(* `difficulty_blocks_count`. *)
BlocksCount(version) ==
    IF version >= 20 THEN WindowV3 + LagV2
    ELSE IF version \in 11..17 THEN WindowV3 + 1
    ELSE Window + Lag

(* `next_difficulty`, by the algorithm the version selects. *)
NextDifficultyBy(version, ts, cd) ==
    IF version >= 20 THEN NextDifficultyCut(ts, cd, WindowV3, CutV2)
    ELSE IF version \in 11..17 THEN NextDifficultyV5(ts, cd)
    ELSE NextDifficultyCut(ts, cd, Window, Cut)
=============================================================================
