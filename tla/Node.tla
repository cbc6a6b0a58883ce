-------------------------------- MODULE Node --------------------------------
(***************************************************************************)
(* wownerod's `NodeCore`: the chain and the pool, each behind a mutex.     *)
(*                                                                         *)
(* Whoever holds the chain lock takes the pool's inside it.  Admitting a   *)
(* transaction takes only the pool's: it reads the store directly, and so  *)
(* sees the chain in the middle of a switch.  Blocks arrive by `apply`     *)
(* (from the network, submit_block or the miner).                          *)
(***************************************************************************)
EXTENDS Chain, TxPool

CONSTANTS
    RingOf,         \* RingOf[t]: the blocks whose outputs t's rings name
    Arriving,       \* the transactions that wallets and peers send
    Methods         \* the relay methods they are sent with

(* What a block's transactions name lies below it, or it does not verify. *)
ASSUME RingAssumption ==
    /\ RingOf \in [Tx -> SUBSET Block]
    /\ \A b \in Genuine : \A t \in TxSet(b) :
          RingOf[t] \subseteq {Ancestor[n][b] : n \in 1..Height[b]}

(* check_tx_semantic refuses a transaction without inputs. *)
ASSUME InputAssumption == IsFiniteSet(Tx) /\ \A t \in Tx : ImagesOf[t] # {}

ASSUME ArrivalAssumption ==
    /\ Arriving \subseteq Tx
    /\ Methods \subseteq {"None", "Local", "Forward", "Stem", "Fluff"}

VARIABLES
    stage,      \* what the chain lock's holder does once the chain call is over
    pool,       \* the TxPool                                   (in memory)
    admission,  \* the admission that holds the pool lock
    saved       \* the pool entries in the store                (on disk)

poolVars == <<pool, admission, saved>>

nodeVars == <<vars, stage, poolVars>>

Nobody == [tx |-> {}, method |-> "None", now |-> 0]

NodeTypeOK ==
    /\ stage \in {"free", "mined", "reorged", "settle"}
    /\ Held(pool) \subseteq Tx /\ pool.entries \in [Held(pool) -> Entry]
    /\ pool.spent \in [DOMAIN pool.spent -> Held(pool)]
    /\ pool.weight \in Nat
    /\ admission = Nobody \/ admission \in [tx : Arriving, method : Methods, now : Nat]
    /\ DOMAIN saved \subseteq Tx /\ saved \in [DOMAIN saved -> Entry]

NodeInit ==
    /\ Init
    /\ stage = "free"
    /\ pool = EmptyPool /\ admission = Nobody
    /\ saved = EmptyPool.entries

ChainLockFree == phase = "idle" /\ stage = "free"
PoolLockFree == admission = Nobody

(* `mempool::verify` against chain s. *)
Verifies(t, s) == RingOf[t] \subseteq Ids(s)

-----------------------------------------------------------------------------
(* apply and pop_blocks, under the chain lock. *)

(* `submit` hands the block to the chain.  A block that joined the main chain
   is settled with the pool; an alternative or a refused one is not. *)
Submit(b) ==
    /\ stage = "free"
    /\ \/ AddToMain(b) /\ stage' = "mined"
       \/ HandleAlternative(b) /\ UNCHANGED stage
    /\ UNCHANGED poolVars

(* What `settle` has left to do: nothing, and no pool lock to take, when
   nothing came off the chain. *)
SettleOr(displaced) == IF displaced = {} THEN "free" ELSE "settle"

(* Fault: the pool is not compared with the new chain. *)
ChainRuns_NoSweep ==
    /\ Continue
    /\ stage' = IF phase' = "idle" /\ phase \in {"promote", "popblocks"}
                  THEN SettleOr(orphaned') ELSE "free"
    /\ UNCHANGED poolVars

(* The call under way goes on.  A switch that failed returns its error, and
   `apply` with it; one that succeeded is Added::Reorg. *)
ChainRuns ==
    /\ Continue
    /\ stage' = CASE phase = "promote" /\ phase' = "idle"   -> "reorged"
                  [] phase = "popblocks" /\ phase' = "idle" -> SettleOr(orphaned')
                  [] OTHER                                  -> "free"
    /\ UNCHANGED poolVars

ClearMined ==
    /\ stage = "mined" /\ PoolLockFree
    /\ pool' = RemoveMined(pool, TxSet(Tip(main).id), BlockImages(Tip(main).id))
    /\ stage' = SettleOr(orphaned)
    /\ UNCHANGED <<vars, admission, saved>>

ClearConfirmed ==
    /\ stage = "reorged" /\ PoolLockFree
    /\ pool' = RemoveConfirmed(pool, TxsIn(main), SpentIn(main))
    /\ stage' = SettleOr(orphaned)
    /\ UNCHANGED <<vars, admission, saved>>

(* What came off the chain goes back to the pool, where it still can. *)
Settle ==
    /\ stage = "settle" /\ PoolLockFree
    /\ TakeOrphaned
    /\ pool' \in AddKept(pool, {t \in orphaned : Verifies(t, main)}, SpentIn(main), clock)
    /\ stage' = "free"
    /\ UNCHANGED <<admission, saved>>

Pop(n) ==
    /\ stage = "free"
    /\ PopBlocks(n)
    /\ UNCHANGED <<stage, poolVars>>

-----------------------------------------------------------------------------
(* The pool's own callers, under the pool lock alone. *)

(* A wallet's or a peer's transaction passes every check against the store
   as it stands... *)
Admit(t, m) ==
    /\ PoolLockFree
    /\ Admissible(pool, t, TxsIn(main), SpentIn(main))
    /\ Verifies(t, main)
    /\ admission' = [tx |-> t, method |-> m, now |-> clock]
    /\ UNCHANGED <<vars, stage, pool, saved>>

(* Fault: the chain lock is taken inside the pool's. *)
Admitted_UnderChainLock ==
    /\ admission # Nobody /\ ChainLockFree
    /\ pool' \in Add(pool, admission.tx, admission.method, admission.now)
    /\ admission' = Nobody
    /\ UNCHANGED <<vars, stage, saved>>

(* ... and goes in, by which time the store may be elsewhere. *)
Admitted ==
    /\ admission # Nobody
    /\ pool' \in Add(pool, admission.tx, admission.method, admission.now)
    /\ admission' = Nobody
    /\ UNCHANGED <<vars, stage, saved>>

(* tx_relayed: the network layer sent t as m. *)
TxRelayed(t, m) ==
    /\ PoolLockFree /\ t \in Held(pool)
    /\ pool' = SetRelayed(pool, t, m)
    /\ UNCHANGED <<vars, stage, admission, saved>>

(* The main loop's minute: what is too old goes. *)
ExpirePool ==
    /\ PoolLockFree
    /\ pool' = Expire(pool, clock)
    /\ UNCHANGED <<vars, stage, admission, saved>>

(* flush_txpool, of one transaction or all. *)
Flush(T) ==
    /\ PoolLockFree
    /\ pool' = Remove(pool, T)
    /\ UNCHANGED <<vars, stage, admission, saved>>

(* save_bc, and the end of an orderly stop. *)
Save ==
    /\ PoolLockFree
    /\ Intervene("save")
    /\ saved' \in Saved(saved, pool)
    /\ UNCHANGED <<main, alts, altTxs, orphaned, cache, phase, sw, clock, before>>
    /\ UNCHANGED <<stage, pool, admission>>

-----------------------------------------------------------------------------
(* The process dies, or stops, and starts again with the pool as saved. *)
NodeRestart ==
    /\ Restart
    /\ pool' \in Load(saved, TxsIn(main), SpentIn(main), clock)
    /\ stage' = "free" /\ admission' = Nobody
    /\ UNCHANGED saved

(* A store operation of the chain call fails, and the call with it. *)
NodeStorageError == StorageError /\ UNCHANGED <<stage, poolVars>>

Time == (Tick \/ SetClockBack) /\ UNCHANGED <<stage, poolVars>>

Maintain ==
    \/ \E t \in Tx, m \in {"Local", "Forward", "Stem", "Fluff"} : TxRelayed(t, m)
    \/ ExpirePool
    \/ \E T \in {{t} : t \in Tx} \cup {Tx} : Flush(T)
    \/ Save

NodeNext ==
    \/ \E b \in Block : Submit(b)
    \/ ChainRuns \/ ClearMined \/ ClearConfirmed \/ Settle
    \/ \E n \in 1..Len(main) : Pop(n)
    \/ \E t \in Arriving, m \in Methods : Admit(t, m)
    \/ Admitted
    \/ Maintain
    \/ NodeRestart \/ NodeStorageError \/ Time

NodeSpec == NodeInit /\ [][NodeNext]_nodeVars

(* The threads that hold the locks run on, and a mutex that is free again and
   again is obtained in the end. *)
FairNodeSpec ==
    /\ NodeSpec
    /\ WF_nodeVars(ChainRuns)
    /\ SF_nodeVars(ClearMined) /\ SF_nodeVars(ClearConfirmed) /\ SF_nodeVars(Settle)
    /\ WF_nodeVars(Admitted)

-----------------------------------------------------------------------------
(* TxPool under every caller: however admissions, blocks, reorganisations,
   expiry, eviction and restarts interleave, the image index and the weight
   are those of the entries, so no two entries spend the same output. *)
PoolIndexes == IndexesAgree(pool)

(* The pool at any moment at which a thread may find it. *)
PoolSound == NodeTypeOK /\ PoolIndexes

(* `after` and the order of the locks: whoever finds both locks free finds no
   pooled transaction that the chain has already, or conflicts with.  This is
   although admission checks the store and inserts at two moments with the
   chain moving in between. *)
PoolFollowsChain ==
    (ChainLockFree /\ PoolLockFree) =>
        /\ Held(pool) \cap TxsIn(main) = {}
        /\ ImagesIn(Held(pool)) \cap SpentIn(main) = {}

(* settle: when a reorganisation or pop_blocks lets go of the chain, each transaction it
   took off the chain is in the pool, unless what it spends is spent by
   another or it names outputs that went with the old blocks. *)
DisplacedReturn ==
    [][(~ ChainLockFree /\ stage # "mined" /\ ChainLockFree' /\ used' = used) =>
          \A t \in TxsIn(before) \ TxsIn(main') :
              \/ t \in Held(pool')
              \/ ImagesOf[t] \cap (SpentIn(main') \cup DOMAIN pool'.spent) # {}
              \/ ~ Verifies(t, main')]_nodeVars

(* upgrade, from `add` and from `set_relayed`, whose copies come in any order:
   a transaction the network knows of is not taken for a private one again
   while the process lives. *)
StaysPublic ==
    [][\A t \in Held(pool) \cap Held(pool') :
          (Public(pool.entries[t]) /\ used' = used) => Public(pool'.entries[t])]_nodeVars

(* Two locks, one order: the chain lock is always let go of again, and the
   pool's. *)
LocksReleased == (~ ChainLockFree ~> ChainLockFree) /\ (~ PoolLockFree ~> PoolLockFree)

=============================================================================
