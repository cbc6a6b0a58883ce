----------------------------- MODULE BlockRules -----------------------------
(***************************************************************************)
(* What wow-core's `Blockchain` checks of a block, over a fixed tree of    *)
(* blocks.  The tree is the world the node lives in: every block that      *)
(* exists, its parent (`prev_id`), its transactions, and the facts about   *)
(* it that no chain can change.  What a check reads off the chain below    *)
(* the block (its height, what is spent, the difficulty it must meet, the  *)
(* checkpoints) is computed from the chain given as an argument.           *)
(*                                                                         *)
(* A chain is a sequence of [id, cd] records: the rows of `block_info`,    *)
(* with cd the stored cumulative difficulty.  Element k is height k - 1.   *)
(***************************************************************************)
EXTENDS Naturals, Sequences, Transactions

CONSTANTS
    Block,           \* every block there is, the genesis block included
    Genesis,
    Prev,            \* Prev[b]: the parent, for b # Genesis
    Height,          \* Height[b]: how many ancestors b has
    TxsOf,           \* TxsOf[b]: the non-coinbase transactions, in order
    ForkHeight,      \* the hard fork: heights from here on are "new"
    NextDifficulty,  \* NextDifficulty[p][v]: what the window ending in p asks of
                     \* the block after it, by version v's algorithm
    PowOf,           \* PowOf[b]: the highest difficulty b's hash meets
    Sound,           \* blocks with the right version and vote for their height,
                     \* a timestamp not below the median, a well-formed
                     \* coinbase, and as many transactions as hashes
    AltSound,        \* the same as an alternative block, whose median is taken
                     \* over another window
    Genuine,         \* blocks whose transactions satisfy the rules and whose
                     \* signatures and proofs verify over their own ancestors
    WellPaid,        \* WellPaid[p]: blocks within the weight limit, claiming
                     \* what is due, by the cached weights and coins of tip p
    NotBefore,       \* NotBefore[b]: the first wall-clock time at which b's
                     \* timestamp is not too far in the future
    Checkpoints      \* the hard-coded blocks, one per checkpointed height

Version == {"old", "new"}

(* The id of a block is a hash over its parent's, so the parents form a    *)
(* tree rooted at the genesis block.                                       *)
ASSUME TreeAssumption ==
    /\ Genesis \in Block
    /\ Prev \in [Block \ {Genesis} -> Block]
    /\ Height \in [Block -> Nat]
    /\ Height[Genesis] = 0
    /\ \A b \in Block \ {Genesis} : Height[b] = Height[Prev[b]] + 1

ASSUME BodyAssumption ==
    /\ TxsOf \in [Block -> Seq(Tx)]
    /\ TxsOf[Genesis] = << >>
    /\ ImagesOf \in [Tx -> SUBSET Image]

(* No algorithm ever asks for difficulty zero. *)
ASSUME WorkAssumption ==
    /\ ForkHeight \in Nat
    /\ NextDifficulty \in [Block -> [Version -> Nat \ {0}]]
    /\ PowOf \in [Block -> Nat]
    /\ NotBefore \in [Block -> Nat]
    /\ WellPaid \in [Block -> SUBSET Block]

ASSUME CheckpointAssumption ==
    /\ Checkpoints \subseteq Block \ {Genesis}
    /\ \A c, d \in Checkpoints : Height[c] = Height[d] => c = d

-----------------------------------------------------------------------------
(* Rows of block_info, and what a chain of them holds.                     *)

Info == [id : Block, cd : Nat]

Tip(s) == s[Len(s)]

Ids(s) == {s[k].id : k \in DOMAIN s}

TxSet(b) == {TxsOf[b][k] : k \in DOMAIN TxsOf[b]}

BlockImages(b) == UNION {ImagesOf[t] : t \in TxSet(b)}

TxsIn(s) == UNION {TxSet(s[k].id) : k \in DOMAIN s}

SpentIn(s) == UNION {BlockImages(s[k].id) : k \in DOMAIN s}

Drop(s) == SubSeq(s, 1, Len(s) - 1)

(* `HardFork::required_version` at a height. *)
RequiredVersion(h) == IF h < ForkHeight THEN "old" ELSE "new"

(* The difficulty of the block at height h on top of block p: the algorithm
   is the one for the height being validated. *)
DifficultyAfter(p, h) == NextDifficulty[p][RequiredVersion(h)]

-----------------------------------------------------------------------------
(* Checkpoints. *)

(* Heights below this are covered by the last checkpoint: their proof of
   work and transaction rules are not re-checked.  Zero without checkpoints. *)
Trusted(h) == \E c \in Checkpoints : h <= Height[c]

CheckpointHolds(b, h) == \A c \in Checkpoints : Height[c] = h => c = b

(* Fault: alternative blocks are taken at any height. *)
AltHeightAllowed_Any(h) == TRUE

AltHeightAllowed(h) == ~ Trusted(h)

-----------------------------------------------------------------------------
(* The checks of `add_block` for a block on top of chain s. *)

(* Fault: the key images are compared within the block only. *)
TransactionsFresh_NoChainImages(b, s) ==
    \A k \in DOMAIN TxsOf[b] :
        /\ TxsOf[b][k] \notin TxsIn(s)
        /\ \A l \in DOMAIN TxsOf[b] :
              k # l => /\ TxsOf[b][k] # TxsOf[b][l]
                       /\ ImagesOf[TxsOf[b][k]] \cap ImagesOf[TxsOf[b][l]] = {}

(* No transaction twice, and no key image twice, within the block or against
   the chain below it.  Checked at every height, trusted ones included. *)
TransactionsFresh(b, s) ==
    \A k \in DOMAIN TxsOf[b] :
        /\ TxsOf[b][k] \notin TxsIn(s)
        /\ ImagesOf[TxsOf[b][k]] \cap SpentIn(s) = {}
        /\ \A l \in DOMAIN TxsOf[b] :
              k # l => /\ TxsOf[b][k] # TxsOf[b][l]
                       /\ ImagesOf[TxsOf[b][k]] \cap ImagesOf[TxsOf[b][l]] = {}

(* Steps 1 to 11 of `add_block`.  `c` is the tip the cached ChainState
   describes; the difficulty window, the weight median and the coins already
   generated are read from it, everything else from the store. *)
Accepts(b, s, c, now) ==
    /\ b \notin Ids(s)
    /\ b # Genesis /\ Prev[b] = Tip(s).id
    /\ b \in Sound
    /\ NotBefore[b] <= now
    /\ Trusted(Len(s)) \/ DifficultyAfter(c.id, Len(s)) <= PowOf[b]
    /\ CheckpointHolds(b, Len(s))
    /\ TransactionsFresh(b, s)
    /\ Trusted(Len(s)) \/ b \in Genuine
    /\ b \in WellPaid[c.id]

(* Step 12: the row `add_block` commits. *)
RowFor(b, s, c) == [id |-> b, cd |-> c.cd + DifficultyAfter(c.id, Len(s))]

(* Every block of s passed every check on top of the blocks below it, and
   its stored cumulative difficulty is its parent's plus its own. *)
ValidChain(s, now) ==
    /\ Len(s) > 0 /\ s[1] = [id |-> Genesis, cd |-> 1]
    /\ \A k \in 2..Len(s) :
          /\ Accepts(s[k].id, SubSeq(s, 1, k - 1), s[k - 1], now)
          /\ s[k] = RowFor(s[k].id, SubSeq(s, 1, k - 1), s[k - 1])
=============================================================================
