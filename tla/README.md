# A verification project for wow-in-rust

TLA+ modules beside the Rust implementation of Wownero: what the node's core
logic does, model-checked with TLC on small instances and, where it matters
most, proved with TLAPS for every instance.

## The system

A Cargo workspace: a daemon (`bin/wownerod`), two wallet front ends
(`bin/wownero-wallet-cli`, `bin/wownero-wallet-rpc`), desktop extras, and the
crates they share. The table lists the parts, the state each keeps, its
operations, and what makes it correct.

| Part | State | Operations | Interacts with | What makes it correct |
|---|---|---|---|---|
| `wow-core` `Blockchain` | rows of blocks (store), alternative blocks (store), their transactions (memory), cached `ChainState` (memory), displaced transactions (memory) | `handle_block`, `handle_alternative_block`, `switch_to_alternative`, `pop_blocks`, `take_orphaned_txs`, `reload_state` | store below; node core above, under the chain lock | no double spend; every block fully checked; a switch is all or nothing; the heaviest valid branch wins; the cache describes the tip |
| `wow-consensus` | none (tables and arithmetic) | difficulty, weight median, emission, fees, timestamps, hard forks, checkpoints, transaction rules | called by `wow-core` and the pool | agrees with the reference definitions, no overflow at the edges |
| `wow-storage` (LMDB) | some twenty tables keyed by height, hash, amount and index | `add_block`, `pop_block`, alternative blocks, pool records, pruning seed | called by all | one write transaction is atomic; `pop_block` undoes `add_block` in every table |
| transaction pool (`mempool.rs`) | entries by id, key images in use, total weight, relay times | `add`, `add_kept_by_block`, `remove_mined`, `remove_confirmed`, `expire`, `evict_to_fit`, `set_relayed`, `save`, `load` | chain (via the node core), relay, RPC, miner | the indexes agree; no two entries share an image; private transactions stay private; weight bound |
| node core (`node.rs`, `netsync.rs`, `serve.rs`) | the chain lock, the pool lock, prevalidated proofs of work and transactions, fee snapshot, recent hashes | `submit_block`, `apply`/`after`, `pop_blocks`, `prevalidate`, `forget`, start and stop | everything | cached verdicts are used only where they hold; pool and chain agree when both locks are free |
| block download (`wow-p2p` `queue.rs`, `node.rs`) | spans by height, ids requested, spans being applied, per-connection needed ids | `reserve`, `fill`, `take_next`, `applied`, `flush`, `clear`, `overdue_next`; the applier thread; a thread per connection | node core below, peers | no block downloaded by two connections for nothing; nothing applied out of order; the download never stalls while a peer has blocks |
| relay (`zone.rs`, `node.rs`) | stem and fluff queues, embargoes, noise channels | Dandelion++ stem, fluff, embargo timeout | pool, peers | a transaction is fluffed in the end; not before its embargo unless told |
| peer lists (`addressbook.rs`) | white, gray and anchor lists, bans | insert, promote, demote, evict, ban | connections | bounds; a banned address is not offered |
| mining (`template.rs`, `miner.rs`) | current template, worker threads | new template, submit | chain, pool | templates name the tip they were built on |
| wallet (`wow-wallet`) | scanned chain hashes, transfers, unconfirmed sends, key files | refresh, handle reorg, spend, cold signing, save | daemon client | a detached block's effects are undone; no output spent twice; a crash while saving loses nothing |
| RPC, ZMQ, TLS, serialization, cryptography, front ends | sessions | request handling and encodings | all | conformance with the protocol's encodings |

What is hard in it: a reorganisation is a long sequence of separate write
transactions with an undo path, and may be cut short by a rejected block, a
store error or a crash; alternative blocks live half on disk and half in
memory; a cached state must follow every path that moves the tip; the pool and
the chain are guarded by two locks and verdicts are computed outside both; the
download queue serves many connections with timeouts, duplicates and resets.
`PROJECT.json` lists these hazards at the lines where they bite.

## Modules

| Module | What it is |
|---|---|
| `Transactions` | the transactions and the key images they spend |
| `BlockRules` | the checks of `add_block` and the checkpoint rules, over a constant tree of blocks |
| `Ledger` | the abstract promise: a ledger of checked blocks that grows, is replaced in one step by one with more work, or is truncated by an operator; a crash leaves it checked and with its checkpoints |
| `Chain` | `Blockchain` in detail: one action per write transaction, with its properties and the refinement to `Ledger` |
| `MCChain` | the block trees of the runs |
| `ChainProofs` | theorems about `Chain`: types, double spends, validity, the cache, all-or-nothing switches |
| `ChainRefinement` | theorems about `Chain`: checkpoints, the alternative store, displaced transactions, work, and that `Chain` implements `Ledger` |
| `TxPool` | the pool's methods as operators on its value |
| `Node` | `NodeCore`: composes `Chain` and `TxPool` under their two locks, with restarts |
| `MCNode` | the block trees and pools of the runs |
| `NodeProofs` | theorems about `Node` and `TxPool` |
| `BlockQueue` | `BlockQueue`'s methods as operators on its value |
| `Sync` | the download: a reader per connection, the applier, the ticker and the peers around one `BlockQueue` |
| `StemMap` | the Dandelion++ `StemMap` as operators on its value |
| `Relay` | how a transaction leaves the node: `relay_txs` and its locks, the ticker's parts, the zone, the pool's relay state |
| `WalletState` | the wallet's books (hashes held, transfers, key images, pending sends) as operators on one value |
| `Wallet` | a session of the wallet against a daemon whose chain and pool move |
| `Emission` | block reward, penalty, fee tiers and fee rounding |
| `WeightWindow` | the rolling median of weights |
| `Difficulty` | the classic and the LWMA-1 algorithms, the 256-bit limb division, timestamp medians |
| `Rules` | `ChainState` carried from block to block with these, against what is read back from the store |
| `PeerLists` | white, gray and anchor lists as operators on one value |
| `Peers` | outgoing and incoming connections, checks and bans around the lists |
| `SyncProofs`, `RelayProofs`, `WalletProofs`, `PeersProofs`, `RulesProofs` | theorems about `Sync`, `Relay`, `Wallet`, `Peers` and `Rules`, each with its operator modules |
| `MCSync`, `MCRelay`, `MCWallet`, `MCRules`, `MCPeers` | the instances of the runs |

`Node` composes `Chain` and `TxPool`; `Sync`, `Relay`, `Wallet`, `Rules` and
`Peers` each compose their operator modules. Between these groups the seam is
a promise one group shows and another takes as given: `Rules` shows what
`BlockRules` assumes of a block's difficulty and pay, `Chain` shows that the
chain `Sync` feeds ends on the heaviest valid branch, `Node` shows what the
pool `Relay` walks holds.

### `BlockRules` and `Chain` against the code

The world is a constant tree of blocks. Facts of a block that no chain can
change are constants: its parent, height, transactions and key images, the
highest difficulty its hash meets (`PowOf`), whether its version, timestamp and
coinbase are in order (`Sound`, and `AltSound` for the window an alternative
block is measured with), whether its signatures and proofs verify over its own
ancestors (`Genuine`), when its timestamp stops being too far in the future
(`NotBefore`). What depends on the *cached* state is indexed by the tip that
state describes: `NextDifficulty[tip][version]` and `WellPaid[tip]`. A stale
cache therefore shows, as it would in the code.

| Variable | Code |
|---|---|
| `main` | the `blocks` and `block_info` tables; a row is an id and its cumulative difficulty |
| `alts` | the `alt_blocks` table: id and cumulative difficulty |
| `altTxs` | `Blockchain::alt_txs`, in memory |
| `orphaned` | `Blockchain::orphaned_txs`, in memory |
| `cache` | `Blockchain::state`: the row of the tip it was computed for |
| `phase`, `sw` | the point of control of the call that holds the chain lock and its locals (`chain`, `split`, `popped`, loop counters, `now`) |
| `clock` | `SystemTime::now` |
| `before` | history only: `main` when the call began |
| `used` | counts crashes, store errors, pops and clock changes against `MaxInterventions` |

`AddToMain`, `AddAlt`, `RefuseSwitch` and `BeginSwitch` are the four ends of
`handle_block`; the actions of `Switch` are the loops of
`switch_to_alternative`, one write transaction each; `PopBlocks`, `PopOne` and
`PopBlocksDone` are `pop_blocks`. `Restart` is a crash at any moment followed
by `Blockchain::new`, with the alternative blocks dropped unless
`--keep-alt-blocks`. `StorageError` is a `DbError` returned through `?`: while
a link is being applied it counts as a rejection of the link, everywhere else
the call returns at once.

Abstracted: block and transaction contents, the difficulty and weight
arithmetic, the seed hash, logging. Blocks that are rejected change nothing and
are not steps.

### `TxPool` and `Node` against the code

A pool is a record: the entries by id (relay method and receive time), the
index from key image to entry, the total weight. A method with several
outcomes is a set of pools: `EvictToFit`, because the order among equal fee
rates is the hash map's, and `AddKept` and `Load`, which go through a list in
an order the model leaves open. Fee rates are compared exactly, where the code
compares quotients of floats. The limits on size, fee, extra field and unlock
time are a fact of the transaction (`WithinPolicy`), so the fee snapshot and
its age are not modelled. Nor are `relayed`, `double_spend_seen` and
`relayed_at`, which only relay and statistics read.

| Variable of `Node` | Code |
|---|---|
| `stage` | what `apply`, `after` or `pop_blocks` has left to do once the chain call has returned: `mined` is before `remove_mined`, `reorged` before `remove_confirmed`, `settle` before `settle` takes the pool lock |
| `pool` | `NodeCore::pool` |
| `admission` | the thread between the checks and the insertion of `TxPool::add`, which holds the pool lock throughout |
| `saved` | the `txpool_meta` and `txpool_blob` tables |

The chain lock is held while `phase` is not `idle` or `stage` is not `free`;
the pool lock while there is an `admission`. `Submit` and `ChainRuns` are the
chain's own actions under the lock; `ClearMined`, `ClearConfirmed` and `Settle`
each wait for the pool lock. `Admit` reads the store wherever the chain's call
happens to be, since the code reads it without the chain lock. (The code reads
the store several times there. `Admit` takes one moment for all: a mixture of
readings admits only what a block or a switch still under way then removes, as
for a single one.) `Saved` has every point at which writing the pool may stop.
A transaction's rings are the blocks whose outputs they name (`RingOf`), and it
verifies on a chain that has those blocks; the minimum age of ring members only
makes a transaction verify later.

### `BlockQueue` and `Sync` against the code

A queue is a record of spans by height, requested ids and spans in
application; a method is an operator. `conn[p]` is one connection with the
reader's `Proto`: what it was told of the peer's chain, the ids it still needs
and the request it waits for. A span remembers the connection it was reserved
by, not the peer: `<<p, "current">>` and `<<p, "earlier">>` are the two that
matter, since a connection that ended may still own spans. The queue's
generation counter, which only tells a reader that the queue was thrown away
since its request, is the flag `outdated`.

| Action | Code |
|---|---|
| `Connect`, `Reader`, `Answer` | the handshake, `advance` and the handlers of a chain entry and of objects in the reader thread |
| `TimedSync`, `OnNewBlock` | the timed sync and an announced block, both of which may restart the download |
| `Applier` | the applier thread: take, apply, mark applied; on a bad block, ban and flush |
| `Retry`, `Tick` | a stall's end, and the ticker's overdue requests |
| `Lose`, `PeerMoves`, `TroubleStarts`, `TroubleEnds` | the environment: a connection lost, a peer's chain that switches, a time in which the chain refuses everything for a reason that is not the blocks' |

`flush_queue` clears the queue and then bumps the generation, in two steps; a
reader between them keeps ids that are no longer queued. The model has that
window, and counts it as a fault: were a reader to fall into it every time, the
download would not finish. A batch with missing transactions is treated like
one with a bad block, as the code does. Peers are honest about their heights,
and a chain entry is a part of the peer's present chain. `--no-sync` and pruned
peers are left out. `PoolAsked` holds where no peer stays on a chain that is
longer than ours and has less work: the code takes "synchronised" from heights.

### `StemMap` and `Relay` against the code

`thread[h]` is the list of calls of `relay_txs` that thread `h` (the ticker or
an RPC request) has left and the point of control in the first, so that two
threads can interleave between taking the relay lock, sending, and writing to
the pool. The ticker's parts (`TickForward`, `TickEmbargo`, `TickWalk`,
`TickFlush`, `TickArrived`) may run in any order here, though `relay_tick` fixes
one. Snapshot and update of the stem map at an epoch are one step
(`NewEpoch`). An anonymity zone is up or down and takes what it is given.

Left out: the random delays themselves (a timer may fire at any moment), the
cutoff at half the pool's lifetime, padding, noise fragments and complement
serving. `out` and `foreign` are history variables. A connection is used once:
a peer that comes back has another id, in the code as here. `Stranded` names
what the pool's walk passes over and nothing else will send: a transaction in
its stem, not noted as sent, in no thread's hands and under no timer.

### `WalletState` and `Wallet` against the code

The daemon's side is its chain, a pool, and two answers: hashes (`gethashes`)
and blocks (`getblocks`). A refresh takes one answer at a time (`Ask`), and
ends when it has nothing new to hold; `ended` says how the last call ended,
because an error leaves the books where they were. `saved` is the cache file.

A block has at most one transaction of interest, so a block's height also
stands for the global index of its output; one-time keys are distinct, between
transactions and within one (`TxAssumption`); the
daemon is honest, and its answer follows from its chain at that moment. Cut-off
answers and reorganisations count against `MaxEvents`. Left out: the check of
the first block's parent, `max_reorg_depth`, subaddress lookahead, unlock
times, selection and signing. `Spec` is the command line and wallet-rpc, where
no refresh runs while a send waits for its confirmation; `GuiSpec` is the
desktop wallet, whose ticker refreshes at any time. A rescan from a height
keeps the records confirmed below it although their blocks are not held, so
`BooksMatchBlocks` asks for the block of a confirmed record only from `from` on.

### `Emission`, `WeightWindow`, `Difficulty` and `Rules` against the code

The same formulas over scaled-down constants (a money supply of 20 000, limbs
of base 16, windows of four), so that every rounding, cut and limit is met
within six blocks. Each network of the run has its own fork table: together
they pass through the classic algorithm, LWMA-1 and the weight rules. Versions
8 to 10's difficulties, fees before version 12, and in version 5 the branches
that divide first and the rounding above 1000 are left out. Heights with a
pinned difficulty stand for the resets. The limit on future timestamps is
`Chain`'s clock. A half of the weight window is a map from weight to count with
the number of elements kept beside it, as in the code.

Three things the module makes visible. LWMA-1 has no minimum: where the
difficulties of the window average less than seven, a chain slow enough is given
difficulty zero, so `AlwaysMineable` (a part of `DifficultySound`) leaves that
case out, and the one where cumulative difficulty times the target does not fit
128 bits; real chains are far from both. With an even number of timestamps the
median is a mean and may go back from one block to the next, so
`MedianTimeAdvances` speaks of version 10 on, whose window is odd. And
`LowTierSuffices` needs the lowest tier to be positive, which a median grown
large enough ends.

### `PeerLists` and `Peers` against the code

`out[a]`, `check[a]` and `in[a]` say how far the thread dialling, checking or
serving address `a` has come; `conns` is the table of registered connections,
`dialing` the set the ticker consults. A host is the address without its port:
bans, failures and the limit per host go by it. `MakeConnections` is one turn
of the ticker, which may also fail to start the thread that is to dial.
`TimedSynced` is the answer to a timed sync, which goes to every connection:
the list of a peer that called is merged like that of one that was dialled, and
only the latter is added to the white list. The hosts of `--ban-list` are kept
out of merged lists like other banned ones. Each tried address may be tried
again when its own `RETRY_AFTER` has passed. `ForgetFailures` waits until a turn
finds nothing left to dial (`Exhausted`): the failures are forgotten after an
hour, in which the few addresses of an instance have all been dialled. With very
many addresses, few places and slow failures that need not be so, and
`FindsPeers` is not claimed of it.

Left out: `--add-peer`, priority and exclusive nodes, proxies, the preference
for other /24 networks, `set_out_peers` and trimming, pruning seeds. The gray
check is one address at a time, as in the code.

## Runs

| Run | Bounds | Shows |
|---|---|---|
| `chain_reorg` | 9 blocks, 3 branches, two crashes or pops | every order of delivery; switches that succeed, fail and are undone; chain and cached state stay valid across a crash between any two write transactions; refinement of `Ledger`; the heaviest valid branch is adopted |
| `chain_final` | 8 blocks, one checkpoint, three faults of any kind, alternative blocks kept | nothing is spent twice; a checkpointed block stays on the chain |
| `node_pool` | 5 blocks, 4 transactions, 2 of them arriving as stem or fluff, a pool of two, two pops, saves or crashes, one tick | indexes agree; pool and chain agree when the locks are free; displaced transactions return; public stays public |
| `node_failed_switch` | the blocks of `chain_final` with other transactions, one branch failing at its last block, three faults of any kind | the locks are always released, whatever the call that holds them meets |
| `sync_download` | 2 peers, 6 blocks, batches of 1 and 2, one fault | the queue's index is exact; only a peer that sent a bad block is banned; the download finishes; the pool is then asked for |
| `relay_out` | 1 transaction, 2 outgoing connections of which one may close or fall behind, an incoming one, one RPC thread, 2 events | slots, sources and counts of the stem map agree; a source keeps its stem while that can be used; never shown to a clearnet peer when it must not be; goes out in the end unless stranded |
| `relay_nobody` (violation) | an outgoing connection and an incoming one, 1 event | a stem transaction fluffed to nobody is not offered again |
| `wallet_books` | 3 transactions, 2 outputs, one reorganisation, 3 events | the books match the blocks held; outputs are held back exactly by what waits; wallet and daemon agree in the end |
| `wallet_stale_plan` (violation) | 3 outputs, one reorganisation, the desktop wallet | a send confirmed after a reorganisation marks another output spent |
| `rules_carried` | 3 networks, 6 blocks, gaps and weights of a few values | the carried state is the one read back; medians, limbs, alternative windows, penalty and fees agree with their definitions |
| `peers_kept` | a seed and two ports of another host, lists of one and two, two outgoing connections, one event | lists bounded, apart and verified; no node connected twice; no dial leaked; the node finds its peers |
| `peers_banned_seed` (violation) | 3 seeds, one banned | the seeds behind the banned one are never dialled |

The bounds. In `chain_reorg` a failing link is first, in the middle or last of
its branch, depending on what the main chain is when it comes; two interventions
give a crash during the recovery from a crash or pop. In `chain_final` the block
that fails is a double spend, and the block to be restored may be one that the
clock, set back, no longer allows. Longer branches repeat the same loops, which
the proofs cover for every length. In the pool runs the
transactions compete for one output (`t2`, `t3`), one depends on a block that
may go (`t2` on `a1`), one is beyond the relay policy (`t4`), and the limit of
two makes the third evict; two interventions are a save and a crash, or a pop
between saves.

In `sync_download` one fault is enough for a span whose owner is gone, a second
request of the span the chain needs, an answer to a request the queue has
dropped, and a flush in the middle of a reader's step; the second peer's
refused block adds the ban, and the first peer's switch a request whose answer
changes under it. In `relay_out` one outgoing connection stays, as `GoesOut`
needs one that does. The other closes or falls behind while sources are sent to
it: with two events its slot is emptied and filled again, sources move, counts
go up to two and down again, and a restart may follow a submission. One
transaction is enough because no part of relay looks at two together. Larger
instances were checked while the modules were written: three events with one
outgoing connection (329 173 states) for `GoesOut` and `HiddenStaysHidden`, and
three events with two that need not stay (2 809 847 states up to the symmetry
of the two) for `StemsOK` and `PathsKept`.

In `node_failed_switch` one fault may be an error of the store in the middle of
the switch, another a crash while it is being undone. In `wallet_books` three
events give a reorganisation, a crash and a rescan around one send; another copy
of the wallet spending the same output is the case the pool cannot foresee. In
`rules_carried` six blocks fill every window and pop it again. In `peers_kept`
`a1` and `b` are one host; everybody's list names somebody else, so that the
white list overflows and an entry is evicted, and the caller `b` answers timed
syncs whether or not its ping-back has been. The three invariants were also
checked with four addresses on three hosts (2 325 508 states). The largest runs
have some 570 000 (`node_pool`), 510 000 (`relay_out`) and 500 000
(`wallet_books`) states.

Deadlock is not checked: when every block has been delivered and the clock is
at its bound, the node has nothing to do; likewise once a download is complete,
a transaction is mined, wallet and daemon agree, or the connections are full
and the bounds are spent.

Fairness (`FairSpec`): the thread in a call runs on (nothing in the switch
waits); time passes; and a peer with a block offers it again for as long as
the node lacks it, which the p2p layer does at every handshake and timed sync.
Strong fairness for the offers, because one may find the lock taken by another
call any number of times. No fairness is assumed of faults. `FairNodeSpec`:
the holders of the locks run on, and a thread that waits for the pool lock gets
it if it is free again and again (strong fairness), which a mutex gives in
practice; blocks and transactions need not arrive.

`Sync`: the threads run on, a peer answers or the connection is lost, timed
syncs happen, a stall's end and overdue requests are noticed by the ticker, and
trouble ends. No fairness of losses. `Relay`: threads holding the relay lock run
on, and each part of the ticker gets to a transaction that stays due (strong
fairness, because another thread may hold the lock whenever it looks); the
steady connection is opened again when it closes, and a zone that is down comes
back. `Wallet`: a refresh is asked for again and again and answered (weakly
fair), the pool can be read from time to time (strongly fair `CheckPending`:
the daemon may fail any number of times), the prompt is answered one way or the
other, and time passes. `Peers`: the ticker turns (strong fairness, since its
target may be met and lost in between), dials and checks end, a connection that
was closed is cleaned up, bans expire, `RETRY_AFTER` passes for every address on
its own, and so does the hour of a failure (strongly fair, since `Exhausted` may
come and go). `Rules` has no liveness.

## Known disagreements

Three runs expect a violation; `PROJECT.json` quotes the comment each stands
against.

* `wallet_stale_plan`: `record_sent` (`wow-wallet/src/history.rs:228`) uses
  places in `transfers` that were valid when the send was prepared. The desktop
  wallet refreshes while the send waits, and a reorganisation that reaches an
  output old enough to spend shifts them.
* `peers_banned_seed`: `pick_candidate` (`wow-p2p/src/node.rs:2360`) offers the
  first seed not tried recently even when it is banned, and `make_connections`
  passes over it without noting a try, so the next turn gets it again.
* `relay_nobody`: `fluff` (`wow-p2p/src/node.rs:1520`) leaves what it could send
  to nobody to the pool, which "offers them again". `due_for_relay`
  (`mempool.rs:742`) does not when the transaction came through a stem.

The following are inside or at the edge of what the modules model, and bound
what the properties claim; they have no run of their own:

* Around a hard fork, an alternative block's difficulty is computed with the
  version the main chain is at now (`chain.rs:380`), and the same block's, once
  switched to, with the version at its own height. The work a branch was chosen
  for is then not the work it has, and a switch may go to less
  (`ReorgGainsWorkHolds` assumes `OneAlgorithm`; compare
  `specs/06-consensus-rules.md`).
* A clock set back by more than a block's slack makes an undo refuse a block
  that was accepted (`SwitchAllOrNothingHolds` assumes `Reliable`).
* A store error in the middle of a switch leaves the cached state behind the
  tip (`CacheCoherentHolds` assumes it away; `chain.rs:804`).
* With `--keep-alt-blocks` the transactions of kept alternative blocks are gone
  after a restart, and their branch cannot be switched to; a node on another
  branch below a checkpoint stays there. `HeaviestAdopted` is checked without
  either.
* A failed switch leaves a transaction in the pool that the restored chain has
  mined. A template leaves it out, as it looks at the key images again.
* A template may take a transaction whose ring members were popped
  (`netsync.rs:230`); the node then refuses its own block until they are back.
* After a restart "everything" is said to be due to go out again
  (`mempool.rs:279`); a transaction read back in its stem is not, and `Restart`
  is the other way into `Stranded` (`AllGoOut` fails by it too).
* wallet-rpc's `refresh` with a `start_height` moves the scan without detaching
  (`methods.rs:961`); `Wallet` has the rescan that does.
* A ban does not reach a handshake already under way (`wow-p2p/src/node.rs:1084`),
  and the limit on incoming peers is checked before it; `Peers` has both windows
  and states no property against them.

## Proofs

Eight modules hold theorems; together they state every safety property that a
passing run checks. Each is about the specification a run checks, for every
value of the constants that the named `ASSUME`s allow: ids form a tree,
difficulties are positive, one checkpoint a height, every transaction spends
something, windows and limits are not zero. TLC evaluates those on every run.
Where a theorem has a hypothesis of its own it is named below, with the
disagreement that makes it necessary.

The library's induction theorems cannot be instantiated by the provers
installed here. The inductions that were needed (over heights, positions in a
list, sizes of finite sets) go by a least counterexample instead: the set of
numbers at which a statement fails has a least element (`NatLessThanWellFounded`
with `WFMin`), and that one is refuted. This also shows that the recursive
functions of the model (`Work`, `WeightOf`, the sums of `Difficulty`, the digits
of `Emission`) are what their defining equations say.

### `ChainProofs`

* `TypeCorrect`: `TypeOK` is not inductive: that `main` is never emptied needs
  the loop bounds of the switch (`LoopBounds`: the chain never falls below the
  split, the undo loop has exactly as many links to take off as were applied,
  `pop_blocks` has at most `Len(main) - 1` to go). The inductive invariant is
  `TypeInv == TypeOK /\ LoopBounds`.
* `NoDoubleSpendHolds`, with every fault allowed. A main chain only ever loses
  its tip (`MainMoves`) or gains a block that `TransactionsFresh` holds of, and
  both preserve it.
* `MainValidHolds` and `CacheCoherentHolds`, when neither store errors nor
  backward clock changes happen (`Reliable`); both fail otherwise (see "Known
  disagreements"). Neither is inductive alone: a block is checked
  against the cache, so validity needs coherence, and what was checked at
  `sw.now` must hold at `clock`. `SoundInv` adds `sw.now <= clock`.
* `SwitchAllOrNothingHolds`, under `Reliable`, of every switch that the process
  survives. The invariant `SwitchTrace` says where the call is: `main` is a prefix of `before` and
  `popped` the rest of it while popping; the common part plus the first `i - 1`
  links while applying and unapplying; the common part plus the first `j - 1`
  popped rows while restoring. That a restored block cannot be refused
  (`NextOldBlock`) follows from the validity of `before` at `sw.now` and the
  coherent cache.

### `ChainRefinement`

* `CheckpointsStayHolds`, with every fault allowed: only `pop_blocks` takes a
  checkpointed block off. `HeightInv`: a row stands at its block's height, and
  what is kept as alternative or was popped by a switch lies above every
  checkpoint.
* `AltStoreSoundHolds`, under `Reliable` and `BodiesKept` (alternative blocks
  are not kept over a crash, or none happens): the table and the memory beside
  it name the same blocks (`DOMAIN alts = altTxs`), and `AltTrace` says which of
  the links are in them at each point of a switch.
* `NoTxLostHolds`, under `Reliable`, of every call that the process survives (a
  crash loses the list of displaced transactions). `PopTrace` says of `pop_blocks` what `SwitchTrace`
  says of a switch.
* `ReorgGainsWorkHolds`, under `Reliable` and `OneAlgorithm`. `WorkInv`: a
  cumulative difficulty in either table is the `Work` of its block, so that the
  sum along the alternative links, which decided the switch, is the one the new
  tip has.
* `ChainImplementsLedger`, under `Reliable` and `OneAlgorithm`. `RefinementInv`
  is the conjunction of the above and of `KeptTrace`: at every moment of a switch
  the chain has the checkpoints it began with, which is what a crash leaves. The ledger is `Visible`: the chain before the call
  until its last write to the main chain is done, `main` from then on, so that
  a whole switch is one step of `Ledger`, and a failed one none. A crash is a step
  of its own there (`Interrupt`, told from the others by the count of mishaps), to
  a chain that is valid but may have less work.

### `NodeProofs`

* `PoolSoundHolds` and `StaysPublicHolds`, with every fault
  allowed. `PoolInv`: the types, the pool's indexes and weight agree, and
  `AdmissionClear`: what an admission has found of the pool still stands
  when it inserts, because it holds the pool lock. The weight is a sum over a
  finite set; `WeightOf` is shown not to depend on the order it is summed in.
* `PoolFollowsChainHolds`, without store errors and as long as switches
  succeed (`[]SwitchesSucceed`): a failed switch does leave mined transactions
  in the pool (see "Known disagreements"). `FollowInv` says what has not been
  removed yet at every stage, counting a transaction about to be inserted.
* `DisplacedReturnHolds`, under `Reliable`. `HandOver`: displaced transactions
  are in `orphaned` from the end of the chain's call until the pool has taken
  them, and nowhere else.

### `SyncProofs`, `RelayProofs`, `PeersProofs`

* `QueueSoundHolds` and `BansDeservedHolds` share `SyncInv`. What a reader was
  told, what it has asked for and what a span holds are segments of a branch
  (`Segment`), so an id belongs to one height and the index stays exact under
  every reservation, second request and flush; and what a peer that follows the
  rules is asked for contains no refused block (`Clean`), from its chain entry
  to the applier, whoever's span it fills in the end.
* `HiddenStaysHiddenHolds`, `StemsOKHolds`, `PathsKeptHolds`, for any number
  of threads and calls in a batch. `HiddenInv` follows a transaction that must
  not be shown from the pool into the jobs of the threads (`HiddenThreads`),
  where the pool may change under them. For `StemsOK`, each operator of
  `StemMap` keeps the slots' connections different and the usage counts those
  of the sources sent to the slot (`SentTo`), whatever is chosen at random.
  `PathsKept` rests on the same invariant: `update` leaves a slot alone whose
  connection is among the candidates, and `get_stem` a source that has a stem.
* `DialingExactHolds` and `OnePerNodeHolds` need nothing of the lists'
  contents. `DialInv` adds to `DialingExact` that no address is dialled by the
  maker of connections and the checker at once; without it, one's end would
  clear the other's mark.
* `BookSoundHolds`, for lists, limits and peer lists of any size. Trimming and
  `retain` leave a part of a list in its order (`Within`), and such parts,
  appending and joining keep a list in order (`WhiteGood`, `GrayGood`), so each
  operation of the book does (`BookOK`), and it makes nothing white but the
  address it was given: nothing at all, when it is the list of a peer that only
  called (`MergedOK`). A book read back from the state file is in order and has
  nothing white that was not. That this node has reached what is white is not
  inductive: `BookInv` adds the book in the file, the dials that had their
  answer and the outgoing connections, which are where white addresses come
  from. `FewDials`: the check of the gray list may exceed `MaxDialing` by the one
  address it is at.

### `WalletProofs`

Three theorems about `Spec`, for any outputs, transactions, chains,
reorganisations, batches and checkpoints: `BooksSoundHolds`,
`HeldBackByPendingHolds`, and `RecordsItsInputsHolds`, which the run
`wallet_stale_plan` refutes for the desktop wallet and which the other front
ends owe to one guard, that no refresh begins while a send waits.

They share `WalletInv`. The books of the wallet in memory and of the one in the
cache file satisfy `Books`: the transfers are those the scanned blocks pay
(`Paid`), spent where a scanned block spends them (`Spent`), held back by what
waits (`HeldBack`), and each record names inputs of its own (`ItsInputs`). That
much is not inductive. A block scanned again, or one whose transaction spends
an output the wallet was told of twice, would break it, and what keeps such
blocks away is on the daemon's side: its chain spends nothing twice and only
what it paid before (`Valid`), and the wallet's blocks follow it (`Follows`):
a block held is on the chain if it is of the chain's branch, and below one that
is on the chain all are. So a reply can only attach where what is held below
is the daemon's, which `ScanAllTracks` carries through a reply of any length,
`Detach` at the split included. `FillOK` says that hashes gathered below the
wallet's own stop short of them, and `SendOK` that a send that waits was planned
over the transfers as they are, which is the part that fails under `GuiSpec`.

Of the operators it is shown what they do to `Books`: `NotePoolSpendsBooks`,
`UpdatePendingBooks`, `RecordSentBooks`, `DetachBooks`, `RescanBooks`,
`ProcessBlockBooks`; of the daemon, that a block more and a reorganisation of
any depth keep `Valid` and what the wallet holds in step (`MinedIs`,
`ReplacedIs`, `FollowsStep`).

### `RulesProofs`

`RulesInv`: the rows have their shape, cumulative difficulty only grows,
timestamps and difficulties passed their checks, and `state = Reloaded(rows)`.

* `CarriedStateExact` is its last part: each field of `ChainState`, kept up to
  date block by block, is what `reload_state` would read back. The lemmas on
  windows (the last `n` of a column after a block) carry it.
* `MedianExact`: the two halves of the rolling median are a split of the window
  (`Halved`: disjoint, ordered, balanced, with exact counts), preserved by
  adding, by evicting and by moving an element across; the middle of such a
  split is the median of the sorted window.
* `DifficultyExact`: the limb arithmetic (product, sum, division and rounding
  up) is exact for every base, and the classic difficulty is the
  ceiling of work by time. Sums weighted by LWMA-1 stay within
  `3 * T * n * (n + 1)`; where the result can be zero is as stated in
  `AlwaysMineable`.
* `AltDifficultyExact`: a window put together from an alternative chain's links
  and the main chain below its split is the window the main chain would have,
  had it those blocks.
* `MedianTimeMonotone`: for odd windows, a block that passes the timestamp check
  does not set the median back (`MedianSlides`).
* `RewardMonotone`: within the full-reward zone and above it, weight never
  raises the reward (`RewardBounds`, integer division included).
* `LowTierAccepted`: `round_money_up` works on decimal digits. Its digits spell
  the amount (`DigitsSpell`); a bump adds one to what the kept digits make,
  whether a digit takes it or it leaves the first (`BumpIsOne`); so the result is
  the least multiple of the last kept digit's unit that is not below the amount
  (`RoundedUp`), never more than the next power of ten, and therefore keeps the
  order of two amounts even where they have different numbers of digits
  (`RoundingGrows`). The divisions of `fee_tiers_2021`, by a product, and of
  `get_dynamic_base_fee`, twice by the median, agree (`QuotientTwice`).

### Model-checked only

Liveness under fairness, and with it `ENABLED`, is out of this prover's reach:
`HeaviestAdopted`, `LocksReleased`, `SyncCompletes`, `PoolAsked`, `GoesOut`,
`Settles`, `FindsPeers`.

## Plan

Done: the chain, the pool under the node's locks, download, relay, the wallet's
books, the consensus arithmetic, the peer lists, and the proofs above. Next, in
order of importance:

1. Prevalidation in `Node`: verdicts on a batch's transactions computed
   without the chain lock and used under it, with the rings they rest on.
2. `Store`: the tables of one write transaction; `pop_block` undoes
   `add_block`.
3. The cold-signing round trip and the wallet's key files under a crash.

## Not modelled

Cryptography and RandomWOW (numerical; their results are facts of a block),
encodings (epee, levin, JSON, the wallet files' formats), TLS and sockets, the
front ends' screens and command parsers, logging: no control that a model
checker would add to. Together with the tests kept in the source files they are
most of the repository's lines. Decoy selection is sampling.
