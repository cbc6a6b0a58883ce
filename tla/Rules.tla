------------------------------- MODULE Rules --------------------------------
(***************************************************************************)
(* What a block must satisfy by the chain below it, and the state          *)
(* `Blockchain` carries from block to block to know it (chain.rs:          *)
(* ChainState, add_block's steps 4, 5, 10 and 11 and its commit,           *)
(* reload_state, next_difficulty, alt_difficulty).  Module Chain takes     *)
(* these rules as given facts of each block; here they are computed, from  *)
(* the stored rows and from the carried state.                             *)
(*                                                                         *)
(* rows[k] is the stored row of height k - 1: its timestamp, its weight,   *)
(* its long-term weight, its cumulative difficulty and the coins generated *)
(* up to it.                                                               *)
(***************************************************************************)
EXTENDS WeightWindow, Difficulty

CONSTANTS
    Network,       \* the networks, each with its own hard-fork table
    Forks,         \* Forks[n]: the table, a sequence of [version, height]
    Pinned,        \* Pinned[n]: the heights whose difficulty is a number in
                   \* the source, and those numbers
    RewardWindow,  \* CRYPTONOTE_REWARD_BLOCKS_WINDOW
    StampWindow,   \* BLOCKCHAIN_TIMESTAMP_CHECK_WINDOW
    StampWindowV2, \* BLOCKCHAIN_TIMESTAMP_CHECK_WINDOW_V2
    GenesisRow,
    Gaps, Weights, Shortfalls, Fee, \* the blocks to choose from
    MaxHeight      \* a bound: how long the chain may grow

ASSUME RulesAssumption ==
    /\ {RewardWindow, StampWindow, StampWindowV2, MaxHeight} \subseteq Nat \ {0}
    /\ StampWindowV2 % 2 = 1
    /\ Gaps \subseteq Int /\ Weights \subseteq Nat
    /\ Shortfalls \subseteq 0..MoneySupply /\ Fee \in Nat
    /\ GenesisRow \in [ts : Nat, weight : Nat, long : Nat, cd : 1..(U128 - 1),
                       coins : 0..MoneySupply]

ASSUME NetworkAssumption ==
    \A n \in Network :
        /\ Forks[n] \in Seq([version : Nat, height : Nat]) /\ Forks[n] # << >>
        /\ \A h \in DOMAIN Pinned[n] : Pinned[n][h] \in Nat \ {0}

VARIABLES
    net,    \* the network this node is on
    rows,   \* the stored rows, the genesis block's first
    state   \* the carried ChainState

vars == << net, rows, state >>

-----------------------------------------------------------------------------
(* The hard-fork table. *)

RequiredVersion(h) ==
    LET reached == {k \in DOMAIN Forks[net] : Forks[net][k].height <= h}
    IN Forks[net][IF reached = {} THEN 1 ELSE Max(reached)].version

-----------------------------------------------------------------------------
(* The carried state. *)

LastOf(s, n) == SubSeq(s, Larger(Len(s) - n + 1, 1), Len(s))

(* DIFFICULTY_WINDOW_CACHE: as wide as the widest window of any version. *)
WindowCache == Larger(Window + Lag, WindowV3 + LagV2)

(* A ChainState above the block of row `tip`, its limit by `version`. *)
ChainState(long, recent, window, tip, version) ==
    [ long |-> long, recent |-> recent, window |-> window, coins |-> tip.coins, cd |-> tip.cd,
      limits |-> WeightLimits(version, recent, WindowMedian(long)) ]

(* The long-term window after the rows r, pushed one by one. *)
LongWindow(r) ==
    LET pushed[k \in 0..Len(r)] ==
            IF k = 0 THEN EmptyWindow ELSE Push(pushed[k - 1], r[k].long)
    IN pushed[Len(r)]

(* `reload_state` of the stored rows. *)
Reloaded(r) ==
    ChainState(LongWindow(LastOf(r, Capacity)),
               [k \in DOMAIN LastOf(r, RewardWindow) |-> LastOf(r, RewardWindow)[k].weight],
               [k \in DOMAIN LastOf(r, WindowCache) |->
                   [ts |-> LastOf(r, WindowCache)[k].ts, cd |-> LastOf(r, WindowCache)[k].cd]],
               Last(r), RequiredVersion(Len(r)))

(* Fault: the limit of the next block is computed by this block's version. *)
Carried_OldVersion(s, row, height) ==
    ChainState(Push(s.long, row.long),
               LastOf(Append(s.recent, row.weight), RewardWindow),
               LastOf(Append(s.window, [ts |-> row.ts, cd |-> row.cd]), WindowCache),
               row, RequiredVersion(height))

(* The end of `add_block`: the state after the row of `height`, the limit of
   the next block by that block's version. *)
Carried(s, row, height) ==
    ChainState(Push(s.long, row.long),
               LastOf(Append(s.recent, row.weight), RewardWindow),
               LastOf(Append(s.window, [ts |-> row.ts, cd |-> row.cd]), WindowCache),
               row, RequiredVersion(height + 1))

-----------------------------------------------------------------------------
(* The timestamp of a block. *)

TimestampWindow(version) == IF version >= 10 THEN StampWindowV2 ELSE StampWindow

(* `recent_timestamps`: none while the chain is shorter than the window. *)
RecentTimestamps(r, version) ==
    IF Len(r) < TimestampWindow(version) THEN << >>
    ELSE [k \in 1..TimestampWindow(version) |->
             r[Len(r) - TimestampWindow(version) + k].ts]

(* Fault: a block is compared with the oldest timestamps, not the median. *)
TimestampOK_Oldest(ts, r, version) ==
    RecentTimestamps(r, version) # << >> => ts >= Nth(RecentTimestamps(r, version), 1)

(* `check_block_timestamp`; every block offered is within the future limit. *)
TimestampOK(ts, r, version) ==
    RecentTimestamps(r, version) # << >> => ts >= Median(RecentTimestamps(r, version))

-----------------------------------------------------------------------------
(* The difficulty of a block. *)

StampsOf(w) == [k \in DOMAIN w |-> w[k].ts]
WorkOf(w) == [k \in DOMAIN w |-> w[k].cd]

(* A pinned height answers before the algorithm does. *)
DifficultyOf(w, height, version) ==
    IF height \in DOMAIN Pinned[net] THEN Pinned[net][height]
    ELSE NextDifficultyBy(version, StampsOf(w), WorkOf(w))

(* Fault: the genesis block is part of a window that reaches it. *)
NextDifficulty_WithGenesis(s, height) ==
    LET version == RequiredVersion(height)
        offset == Larger(height - BlocksCount(version), 0)
        skip == Larger(offset - (height - Len(s.window)), 0)
    IN DifficultyOf(SubSeq(s.window, skip + 1, Len(s.window)), height, version)

(* `next_difficulty`: the tail of the cached window the version asks for,
   which never has the genesis block in it. *)
NextDifficulty(s, height) ==
    LET version == RequiredVersion(height)
        offset == Larger(height - BlocksCount(version), 1)
        skip == Larger(offset - (height - Len(s.window)), 0)
    IN DifficultyOf(SubSeq(s.window, skip + 1, Len(s.window)), height, version)

(* `alt_difficulty`, by `version`, of the block after `links`, an alternative
   chain that leaves the main chain r below height `from`: the links, and
   main-chain blocks below them when they do not fill the window. *)
AltDifficulty(links, from, r, version) ==
    LET height == from + Len(links)
        count == BlocksCount(version)
        start == Larger(from - Smaller(count - Len(links), from), 1)
        w == IF Len(links) < count
             THEN [k \in 1..(from - start) |-> r[start + k]] \o links
             ELSE LastOf(links, count)
    IN DifficultyOf(w, height, version)

-----------------------------------------------------------------------------
(* `add_block` for a block with timestamp ts and that weight, whose coinbase
   claims `short` less than it could.  The proof of work meets any difficulty
   but zero.  Difficulties are kept within a u128. *)
AddBlock(ts, weight, short) ==
    LET height == Len(rows)
        version == RequiredVersion(height)
        difficulty == NextDifficulty(state, height)
        base == BlockReward(state.limits.median, weight, state.coins)
        claimed == base + Fee - short
    IN /\ height <= MaxHeight
       /\ TimestampOK(ts, rows, version)
       /\ difficulty # 0
       /\ state.cd + difficulty < U128
       /\ ~ TooBig(state.limits.median, weight)
       /\ short <= base + Fee
       /\ ClaimAllowed(version, base, Fee, claimed)
       /\ \E row \in {[ ts |-> ts, weight |-> weight,
                        long |-> NextLongTermWeight(version, weight, WindowMedian(state.long)),
                        cd |-> state.cd + difficulty,
                        coins |-> state.coins + AdjustedReward(version, base, Fee, claimed) ]} :
             /\ rows' = Append(rows, row)
             /\ state' = Carried(state, row, height)
       /\ UNCHANGED net

(* Blocks are popped, for a switch or by request, and the state is read back
   from the rows that are left. *)
PopTo(height) ==
    /\ rows' = SubSeq(rows, 1, height)
    /\ state' = Reloaded(rows')
    /\ UNCHANGED net

Init ==
    /\ net \in Network
    /\ rows = << GenesisRow >>
    /\ state = Reloaded(rows)

Next ==
    \/ \E ts \in {Last(rows).ts + gap : gap \in Gaps} \cap Nat,
         weight \in Weights, short \in Shortfalls : AddBlock(ts, weight, short)
    \/ \E height \in 1..(Len(rows) - 1) : PopTo(height)

Spec == Init /\ [][Next]_vars

-----------------------------------------------------------------------------
(* Properties. *)

(* Rows and carried state have the shapes reload_state and add_block give
   them: no column ever leaves the natural numbers, no window its size. *)
TypeOK ==
    /\ net \in Network
    /\ rows \in Seq([ts : Nat, weight : Nat, long : Nat, cd : 1..(U128 - 1),
                     coins : 0..MoneySupply])
    /\ Len(rows) \in 1..(MaxHeight + 1)
    /\ Len(state.recent) \in 0..RewardWindow
    /\ Len(state.window) \in 0..WindowCache
    /\ Len(state.long.order) \in 0..Capacity

(* The state add_block carries from block to block is the one reload_state
   reads from the rows, whatever blocks came and went: a node that restarts,
   or that switched chains, goes on with the rules of one that did neither. *)
CarriedAsReloaded == state = Reloaded(rows)

(* Together with its sizes, which trimming keeps. *)
CacheExact == TypeOK /\ CarriedAsReloaded

(* The median LongTermWeightWindow answers is that of the last Capacity
   stored long-term weights, sorted, the two middle ones averaged: the halves
   never drift apart, however often weights equal to each other are evicted. *)
RollingMedianExact ==
    LET stored == [k \in DOMAIN LastOf(rows, Capacity) |-> LastOf(rows, Capacity)[k].long]
        n == Len(stored)
    IN WindowMedian(state.long)
         = (Nth(stored, (n + 1) \div 2) + Nth(stored, n \div 2 + 1)) \div 2

(* The difficulty asked of the next block is never zero, which no hash meets
   and with which the chain could not go on, but where the quotient does not
   fit a u128, and where LWMA-1 averages blocks of a difficulty below seven:
   neither blocks that come at one instant nor blocks that take far longer
   than the target divide the work away. *)
AlwaysMineable ==
    LET height == Len(rows)
        lwma == RequiredVersion(height) \in 11..17 /\ height > WindowV3 + 1
    IN NextDifficulty(state, height) = 0 =>
          \/ state.cd * Target >= U128
          \/ lwma /\ (rows[height].cd - rows[height - WindowV3].cd) \div WindowV3 < 7

(* The difficulty stored at height h, where a classic algorithm gave it: no
   less than the work between the two cut ends and the time between them ask
   for, and one less would be. *)
CeilingAt(h) ==
    LET version == RequiredVersion(h)
        d == rows[h + 1].cd - rows[h].cd
        size == IF version >= 20 THEN WindowV3 ELSE Window
        cut == IF version >= 20 THEN CutV2 ELSE Cut
        first == Larger(h - BlocksCount(version), 1)
        n == Smaller(h - first, size)
        skip == Larger((n - (size - 2 * cut) + 1) \div 2, 0)
        last == IF skip = 0 THEN n ELSE skip + size - 2 * cut
        stamps == [k \in 1..n |-> rows[first + k].ts]
        work == rows[first + last].cd - rows[first + skip + 1].cd
        time == Larger(Nth(stamps, last) - Nth(stamps, skip + 1), 1)
    IN h \notin DOMAIN Pinned[net] /\ version \notin 11..17 /\ n > 1 =>
          /\ d * time >= work * Target
          /\ (d - 1) * time < work * Target

(* A classic difficulty that is stored is the exact quotient, rounded up, of
   the work between the two cut ends and the time between them, although the
   code multiplies, adds and divides in limbs. *)
DifficultyIsCeiling == \A h \in 2..(Len(rows) - 1) : CeilingAt(h)

(* The two of them: stored difficulties are exact, and the next can be met. *)
DifficultySound == DifficultyIsCeiling /\ AlwaysMineable

(* A block on an alternative chain is asked for the difficulty it would have
   to meet on the main chain, wherever the two chains parted: what
   alt_difficulty collects from links and rows is the window next_difficulty
   takes from its cache after the switch.  (Both by the version of the block's
   height; the caller passes that of the main chain's, which is another one
   while only one of the two chains has reached a hard fork.) *)
AltDifficultyAgrees ==
    \A from \in 1..Len(rows) :
        AltDifficulty(SubSeq(rows, from + 1, Len(rows)), from, rows, RequiredVersion(Len(rows)))
          = NextDifficulty(state, Len(rows))

(* The median of the timestamps, below which no block may be dated, never
   goes back from a block to the next (from version 10, whose window is odd). *)
MedianTimeAdvances ==
    \A h \in StampWindowV2..(Len(rows) - 1) :
        RequiredVersion(h) >= 10 =>
            Median(RecentTimestamps(SubSeq(rows, 1, h + 1), 10))
              >= Median(RecentTimestamps(SubSeq(rows, 1, h), 10))

(* A heavier block never earns more than a lighter one, up to the weight
   limit: the penalty is not undone by what its divisions cut off. *)
HeavierEarnsLess ==
    \A w \in 1..(2 * state.limits.median) :
        BlockReward(state.limits.median, w, state.coins)
          <= BlockReward(state.limits.median, w - 1, state.coins)

(* The fee get_fee_estimate tells a wallet to pay at least, for a transaction
   of any weight, is one check_fee accepts of the same chain, and no tier is
   below the one before it. *)
LowTierSuffices ==
    LET version == RequiredVersion(Len(rows))
        tiers == FeeTiers(BlockReward(state.limits.median, 1, state.coins), state.limits)
    IN version >= Scaling2021 =>
          /\ \A k \in 1..3 : tiers[k] <= tiers[k + 1]
          /\ tiers[1] > 0 =>
                \A w \in Weights : FeeEnough(state.limits, state.coins, version, w,
                                             QuantizeUp(w * tiers[1]))
=============================================================================
