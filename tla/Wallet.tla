------------------------------- MODULE Wallet -------------------------------
(***************************************************************************)
(* A wallet and the daemon it asks.  The wallet refreshes, judges what it  *)
(* sent by the daemon's pool, plans and commits sends, saves and is        *)
(* reopened; meanwhile the daemon's chain grows and is reorganised, its    *)
(* pool gains and loses transactions, and another copy of the wallet       *)
(* spends the same outputs.                                                *)
(*                                                                         *)
(* A ring names outputs by their places on the chain, so a transaction is  *)
(* good only while its inputs are where they were when it was built.       *)
(* Every block here has room for one transaction of this wallet, and the   *)
(* height of an output's block stands for its global index.                *)
(***************************************************************************)
EXTENDS WalletState

CONSTANTS
    OwnTx,          \* the transactions this wallet may build
    RestoreHeights, \* restore heights of a new wallet
    OldCaches,      \* start heights of caches from before hashes were filled in
    StartTxs,       \* the transactions of the daemon's chain at the start
    MaxBatch, MinBatch, \* MAX_BLOCKS_PER_CALL, MIN_BLOCKS_PER_CALL
    ListMax,        \* MAX_BLOCK_COUNT, the hashes listed per call
    SpendableAge,   \* SPENDABLE_AGE
    Reorgs,         \* bound: the numbers of blocks a reorganisation replaces
    MaxEvents       \* bound: things that happen outside this wallet

ASSUME WalletAssumption ==
    /\ OwnTx \subseteq Tx /\ \A t \in OwnTx : Ins[t] # {}
    /\ StartTxs \in Seq(Tx \cup {NoTx})
    /\ RestoreHeights \cup OldCaches \cup {Checkpoint} \subseteq 0..(Len(StartTxs) - 1)
    /\ StartTxs[1] = NoTx /\ StartTxs[Checkpoint + 1] = NoTx
    /\ \A i \in DOMAIN StartTxs : StartTxs[i] # NoTx => Ins[StartTxs[i]] = {}
    /\ \A i, j \in DOMAIN StartTxs : StartTxs[i] = StartTxs[j] => i = j \/ StartTxs[i] = NoTx
    /\ {MaxBatch, MinBatch, ListMax, SpendableAge} \subseteq Nat \ {0}
    /\ MinBatch <= MaxBatch /\ MinBatch > 1 /\ ListMax > 1
    /\ Reorgs \subseteq Nat \ {0} /\ MaxEvents \in Nat

VARIABLES
    chain, branch,  \* the daemon's chain, and how often it was reorganised
    pool,           \* the daemon's pool
    rings,          \* rings[t]: where the inputs of t, once built, were
    relayed,        \* the transactions some daemon has taken
    events,
    w,              \* the WalletState
    batch,          \* batch_size
    coarse,         \* ~first_refresh_done
    height,         \* daemon_height
    aged,           \* sent more than PROPAGATION_TIMEOUT ago
    prepared,       \* the send that waits for its confirmation
    ended,          \* how the last call ended
    saved           \* what the cache file says                  (on disk)

netVars == <<chain, branch, pool, rings, relayed, events>>
session == <<batch, coarse, height>>
vars == <<netVars, session, w, aged, prepared, ended, saved>>

NoSend == [tx |-> NoTx, plan |-> {}]

-----------------------------------------------------------------------------
(* The daemon. *)

TxsOf(c) == {c[i].tx : i \in DOMAIN c} \ {NoTx}
PaidIn(c) == UNION {ToSet(Pays[t]) : t \in TxsOf(c)}
SpentIn(T) == UNION {Ins[t] : t \in T}

(* The height of the block that pays o. *)
Where(c, o) == (CHOOSE b \in ToSet(c) : b.tx # NoTx /\ o \in ToSet(Pays[b.tx])).height

(* Where the inputs of a transaction built on chain c are. *)
RingsOf(t, c) == [o \in Ins[t] |-> Where(c, o)]

Verifies(t, c, ring) ==
    /\ t \notin TxsOf(c)
    /\ Ins[t] \subseteq PaidIn(c) \ SpentIn(TxsOf(c))
    /\ RingsOf(t, c) = ring
    /\ \A o \in Ins[t] : ring[o] + SpendableAge <= Len(c)

(* What of the transactions T a pool over chain c holds. *)
Staying(T, c) == {t \in T : Verifies(t, c, rings[t])}

(* supplement_start: the newest block of the history on the main chain. *)
Supplement(history) == Max({b.height : b \in history \cap ToSet(chain)})

Served(from, n) == SubSeq(chain, from + 1, Min({from + n, Len(chain)}))

(* getblocks.bin: nothing when the newest hash of the history is the tip. *)
GetBlocks(history, start, n) ==
    IF Last(chain) \in history THEN << >>
    ELSE Served(IF start > 0 THEN start ELSE Supplement(history), n)

GetHashes(history) == Served(Supplement(history), ListMax)

-----------------------------------------------------------------------------
Init ==
    /\ chain = [i \in DOMAIN StartTxs |-> BlockOf(i - 1, 0, StartTxs[i])] /\ branch = 0
    /\ rings = [t \in TxsOf(chain) |-> << >>] /\ relayed = TxsOf(chain)
    /\ pool = {} /\ events = 0
    /\ \/ w \in {NewWallet(h) : h \in RestoreHeights}
       \/ \E h \in OldCaches :
             w = ScanAll(NewWallet(h), SubSeq(chain, h + 1, Len(chain)))
    /\ batch = MaxBatch /\ coarse = TRUE /\ height = 0
    /\ aged = {} /\ prepared = NoSend /\ ended = "idle" /\ saved = w

(* A refresh that has caught up goes on to read the pool, and a send that is
   to be confirmed is waited for: the front end does nothing else meanwhile. *)
Idle == ended \notin {"asking", "caught up"}

Free == Idle /\ prepared = NoSend

Step == UNCHANGED netVars
Daemon == events' = events + 1 /\ events < MaxEvents /\ UNCHANGED <<session, w, prepared, ended, saved>>

(* How many blocks are asked for, after answers that were cut off. *)
Asked == {n \in MinBatch..batch : \E k \in 0..batch : n = Max({MinBatch, batch \div 2^k})}

(* A refresh begins; refresh_once is answered when the daemon gets to it. *)
Ask ==
    /\ Idle /\ ended' = "asking"
    /\ Step /\ UNCHANGED <<session, w, aged, prepared, saved>>

RefreshOnce ==
    /\ ended = "asking"
    /\ IF Fills(w)
       THEN \E r \in {FillBelow(w, GetHashes(FillHistory(w)))} :
               w' = r.w /\ ended' = r.end /\ UNCHANGED <<batch, coarse, events>>
       ELSE \E n \in Asked, g \in {IF coarse THEN Granularity ELSE 1} :
            \E r \in {TakeBlocks(w, GetBlocks(HistoryAt(w, g),
                          IF w.hashes = << >> THEN w.start ELSE 0, n), Len(chain), g)} :
               /\ w' = r.w /\ ended' = r.end
               /\ batch' = Min({2 * n, MaxBatch}) /\ coarse' = FALSE
               /\ IF n = batch THEN events' = events
                  ELSE events < MaxEvents /\ events' = events + 1
    /\ height' = Len(chain)
    /\ UNCHANGED <<chain, branch, pool, rings, relayed, aged, prepared, saved>>

(* check_pending: the pool is read after the blocks, and may have changed. *)
CheckPending ==
    /\ ended = "caught up" /\ ended' = "idle"
    /\ \E noted \in {NotePoolSpends(w, pool)} :
          /\ w' = UpdatePending(noted, pool, aged \ Noted(w, pool))
          /\ aged' = aged \ Noted(w, pool)
    /\ Step /\ UNCHANGED <<session, prepared, saved>>

(* The pool could not be read. *)
PoolUnread ==
    /\ ended = "caught up" /\ ended' = "idle"
    /\ Step /\ UNCHANGED <<session, w, aged, prepared, saved>>

(* unlocked_at, by the height the wallet believes the chain has *)
Unlocked(x) == x.height + SpendableAge <= Max({height, ScanHeight(w)})

(* prepare_send, with note_pool_spends before the plan is made. *)
Prepare(t) ==
    /\ Free /\ t \notin DOMAIN rings
    /\ \E noted \in {NotePoolSpends(w, pool)} :
       \E plan \in {{i \in DOMAIN noted.transfers : noted.transfers[i].out \in Ins[t]}} :
          /\ Ins[t] \subseteq HeldOuts(noted)
          /\ \A i \in plan : noted.transfers[i].spent = Unspent /\ Unlocked(noted.transfers[i])
          /\ w' = noted /\ aged' = aged \ Noted(w, pool)
          /\ prepared' = [tx |-> t, plan |-> plan]
          /\ rings' = Recorded(rings, t, [o \in Ins[t] |-> w.transfers[IndexOf(w, o)].height])
    /\ ended' = "idle"
    /\ UNCHANGED <<chain, branch, pool, relayed, events, session, saved>>

Takes(t) ==
    Verifies(t, chain, rings[t]) /\ Ins[t] \cap SpentIn(pool) = {} /\ t \notin pool

(* send_raw_transaction has the transaction taken; the answer may be lost. *)
Relay(t) ==
    /\ pool' = pool \cup {t} /\ relayed' = relayed \cup {t}
    /\ UNCHANGED <<chain, branch, rings, events>>

(* commit_send.  A plan that names places `transfers` no longer has makes
   record_sent panic: the transaction is sent and not written down. *)
Commit ==
    /\ Idle /\ prepared # NoSend /\ prepared' = NoSend
    /\ \/ /\ Takes(prepared.tx) /\ Relay(prepared.tx)
          /\ w' = IF prepared.plan \subseteq DOMAIN w.transfers
                  THEN RecordSent(w, prepared.tx, prepared.plan) ELSE w
          /\ aged' = aged \ {prepared.tx} /\ ended' = "idle"
       \/ /\ Takes(prepared.tx) /\ Relay(prepared.tx)
          /\ ended' = "idle" /\ UNCHANGED <<w, aged>>
       \/ /\ ~Takes(prepared.tx) /\ Step /\ ended' = "idle"
          /\ IF Ins[prepared.tx] \cap SpentIn(pool \cup TxsOf(chain)) # {}
             THEN w' = NotePoolSpends(w, pool) /\ aged' = aged \ Noted(w, pool)
             ELSE UNCHANGED <<w, aged>>
    /\ UNCHANGED <<session, saved>>

(* Not confirmed, or built with do_not_relay and handed back. *)
Cancel ==
    /\ Idle /\ prepared # NoSend /\ prepared' = NoSend /\ ended' = "idle"
    /\ Step /\ UNCHANGED <<session, w, aged, saved>>

(* relay_tx, of a transaction handed back before. *)
RelayTx(t) ==
    /\ Free /\ t \in DOMAIN rings \ relayed /\ Takes(t) /\ Relay(t)
    /\ w' = NotePoolSpends(w, {t}) /\ aged' = aged \ Noted(w, {t})
    /\ ended' = "idle"
    /\ UNCHANGED <<session, prepared, saved>>

Save ==
    /\ Free /\ saved' = [w EXCEPT !.fill = << >>] /\ saved # saved'
    /\ Step /\ UNCHANGED <<session, w, aged, prepared, ended>>

(* The wallet ends, saved or not, and its cache is read back. *)
Reopen ==
    /\ events < MaxEvents /\ events' = events + 1
    /\ w' = saved /\ batch' = MaxBatch /\ coarse' = TRUE /\ height' = 0
    /\ prepared' = NoSend /\ ended' = "idle"
    /\ UNCHANGED <<chain, branch, pool, rings, relayed, aged, saved>>

(* rescan_bc *)
Rescan(h) ==
    /\ Free /\ events < MaxEvents /\ events' = events + 1
    /\ w' = RescanFrom(w, h) /\ ended' = "idle"
    /\ UNCHANGED <<chain, branch, pool, rings, relayed, session, aged, prepared, saved>>

-----------------------------------------------------------------------------
(* What happens outside this wallet. *)

Mine(t) ==
    /\ Daemon
    /\ chain' = Append(chain, BlockOf(Len(chain), branch, t))
    /\ pool' = Staying(pool, chain')
    /\ UNCHANGED <<branch, rings, relayed, aged>>

(* The last k blocks make way for k + 1 others, and their transactions go
   back to the pool. *)
Reorg(k) ==
    /\ Daemon
    /\ Len(chain) - k > Checkpoint /\ k < Len(chain)
    /\ \E kept \in {SubSeq(chain, 1, Len(chain) - k)} :
       \E loose \in {pool \cup (TxsOf(chain) \ TxsOf(kept))} :
       \E txs \in [1..(k + 1) -> loose \cup {NoTx}] :
          /\ chain' = kept \o [i \in 1..(k + 1) |-> BlockOf(Len(kept) + i - 1, branch + 1, txs[i])]
          /\ \A i \in 1..(k + 1) :
                txs[i] # NoTx =>
                   Verifies(txs[i], SubSeq(chain', 1, Len(kept) + i - 1), rings[txs[i]])
          /\ pool' = Staying(loose, chain')
    /\ branch' = branch + 1
    /\ UNCHANGED <<rings, relayed, aged>>

(* A payment to this wallet, or a spend by another copy of it. *)
Arrive(t) ==
    /\ Daemon
    /\ t \notin DOMAIN rings /\ Ins[t] \subseteq PaidIn(chain)
    /\ rings' = Recorded(rings, t, RingsOf(t, chain))
    /\ Verifies(t, chain, rings'[t]) /\ Ins[t] \cap SpentIn(pool) = {}
    /\ pool' = pool \cup {t} /\ relayed' = relayed \cup {t}
    /\ UNCHANGED <<chain, branch, aged>>

(* The daemon forgets a transaction of its pool, or is told of it again. *)
Drop(t) ==
    /\ Daemon
    /\ pool' = pool \ {t}
    /\ UNCHANGED <<chain, branch, rings, relayed, aged>>

Return(t) ==
    /\ Daemon /\ Takes(t)
    /\ pool' = pool \cup {t}
    /\ UNCHANGED <<chain, branch, rings, relayed, aged>>

TimePasses ==
    /\ DOMAIN w.sent \ aged # {} /\ aged' = aged \cup DOMAIN w.sent
    /\ Step /\ UNCHANGED <<session, w, prepared, ended, saved>>

-----------------------------------------------------------------------------
Environment ==
    \/ \E t \in pool \cup {NoTx} : Mine(t)
    \/ \E k \in Reorgs : Reorg(k)
    \/ \E t \in Tx \ OwnTx : Arrive(t)
    \/ \E t \in pool : Drop(t)
    \/ \E t \in relayed : Return(t)
    \/ TimePasses

Session ==
    \/ CheckPending \/ PoolUnread
    \/ \E t \in OwnTx : Prepare(t) \/ RelayTx(t)
    \/ Commit \/ Cancel
    \/ Save \/ Reopen
    \/ \E h \in RestoreHeights : Rescan(h)

(* wallet-cli and wallet-rpc: no refresh begins while a send waits. *)
Refresh == (prepared = NoSend /\ Ask) \/ RefreshOnce

Next == Environment \/ Session \/ Refresh

(* What a refresh ends with: this step leaves no other. *)
Answered == ended = "asking" /\ ended' \in {"idle", "caught up", "GapInChain", "ShortChain",
                                            "NoProgress"}

Fairness ==
    /\ WF_vars(prepared = NoSend /\ Ask) /\ WF_ended(Answered)
    /\ SF_vars(CheckPending) /\ WF_vars(Commit \/ Cancel) /\ WF_vars(TimePasses)

Spec == Init /\ [][Next]_vars /\ Fairness

(* wallet-gui: `tick` refreshes while a send waits for its confirmation. *)
GuiNext == Environment \/ Session \/ Ask \/ RefreshOnce

GuiSpec == Init /\ [][GuiNext]_vars

-----------------------------------------------------------------------------
Transfer == [out : Out, height : Nat, spent : Nat \cup {Unspent}]
Sent == [state : {"pending", "failed", "confirmed"}, height : Nat, own : BOOLEAN,
         images : SUBSET Out]

TypeOK ==
    /\ ToSet(w.transfers) \subseteq Transfer
    /\ \A i, j \in DOMAIN w.transfers : w.transfers[i].out = w.transfers[j].out => i = j
    /\ DOMAIN w.sent \subseteq Tx /\ \A t \in DOMAIN w.sent : w.sent[t] \in Sent
    /\ \A i \in DOMAIN w.hashes : w.hashes[i].height = w.start + i - 1
    /\ pool \subseteq relayed /\ relayed \subseteq DOMAIN rings
    /\ batch \in MinBatch..MaxBatch

(* The blocks the wallet holds and has scanned. *)
Scanned == {b \in ToSet(w.hashes) : b.height >= w.from /\ b.tx # NoTx}

(* The books agree with the blocks held, whatever was detached and scanned
   again on the way: the outputs held are the ones those blocks pay, each at
   its height, an output counts as spent at a height exactly when the block
   held at that height spends it, and a transaction counts as confirmed only
   by a block held.  (`rescan_from` a height keeps what was confirmed below.) *)
BooksMatchBlocks ==
    /\ {[out |-> x.out, height |-> x.height] : x \in ToSet(w.transfers)}
         = UNION {{[out |-> o, height |-> b.height] : o \in ToSet(Pays[b.tx])} : b \in Scanned}
    /\ \A x \in ToSet(w.transfers) : \A b \in Scanned :
          x.out \in Ins[b.tx] <=> x.spent = b.height
    /\ \A x \in ToSet(w.transfers) :
          x.spent > Waiting => \E b \in Scanned : b.height = x.spent
    /\ \A t \in Records(w, "confirmed") :
          w.sent[t].height >= w.from =>
             \E b \in Scanned : b.tx = t /\ b.height = w.sent[t].height

(* The books at any moment, in the middle of a refresh as well. *)
BooksSound == TypeOK /\ BooksMatchBlocks

(* What waits for a block holds its inputs, and an output is held back only
   by something that waits for a block. *)
HeldBackByPending ==
    \A x \in ToSet(w.transfers) :
       /\ IsPendingInput(w, x.out) => x.spent # Unspent
       /\ x.spent = Waiting => IsPendingInput(w, x.out)

(* The wallet and the daemon agree: on the blocks, on the outputs paid, and on
   which of them are spent, in a block or in the pool. *)
Agreed ==
    /\ SubSeq(chain, w.start + 1, Len(chain)) = w.hashes
    /\ \A x \in ToSet(w.transfers) :
          /\ x.spent > Waiting <=> x.out \in SpentIn(TxsOf(chain))
          /\ x.spent = Waiting <=> x.out \in SpentIn(pool)

(* Once the daemon's chain and pool settle, so do the wallet's books, also
   after a send nobody answered, one forgotten by a wallet that was not
   saved, one that came to nothing, or a spend from elsewhere. *)
Settles == <>[]Agreed

(* record_sent: a record names inputs of its own transaction and no others, so
   that what it holds back, and gives back, is what the transaction spends. *)
RecordsItsInputs == \A t \in DOMAIN w.sent : w.sent[t].images \subseteq Ins[t]
=============================================================================
