------------------------------- MODULE Chain -------------------------------
(***************************************************************************)
(* wow-core's `Blockchain`: the main chain, the alternative blocks, and    *)
(* the switch between them.                                                *)
(*                                                                         *)
(* The chain lock serialises the calls, so at most one of handle_block and *)
(* pop_blocks is under way; `phase` is where it stands.  Each action is    *)
(* one write transaction of the store, because that is what a reader       *)
(* without the lock can see in between and what a crash can fall between.  *)
(* A rejected block changes nothing and is no step.                        *)
(***************************************************************************)
EXTENDS BlockRules

CONSTANTS
    KeepAlt,            \* --keep-alt-blocks
    Allowed,            \* which Interventions may happen
    MaxInterventions,   \* bound on how many do
    MaxClock            \* bound on the wall clock

(* What may happen to the node besides blocks arriving: the process dies and
   is started again, a store operation fails, an operator pops blocks, the
   wall clock is set back, the pool is written to the store. *)
Interventions == {"crash", "storage", "pop", "clockback", "save"}

ASSUME InterventionAssumption ==
    /\ KeepAlt \in BOOLEAN
    /\ Allowed \subseteq Interventions
    /\ MaxInterventions \in Nat
    /\ MaxClock \in Nat

VARIABLES
    main,       \* blocks and block_info, by height            (on disk)
    alts,       \* alt_blocks: id -> cumulative difficulty      (on disk)
    altTxs,     \* ids whose transactions `alt_txs` holds       (in memory)
    orphaned,   \* `orphaned_txs`, waiting for the pool         (in memory)
    cache,      \* the row `state: ChainState` describes        (in memory)
    phase,      \* where the call holding the chain lock stands
    sw,         \* that call's locals
    clock,      \* the wall clock
    used,       \* how many interventions there have been
    before      \* history: main when the call under way began

vars == <<main, alts, altTxs, orphaned, cache, phase, sw, clock, used, before>>

Phases == {"idle", "pop", "apply", "unapply", "restore", "purge",
           "demote", "promote", "popblocks"}

(* The locals of switch_to_alternative (and of pop_blocks, which counts with
   `i`): the links, oldest first; the split height; the rows popped so far,
   oldest first; the index in `chain` of the link being applied, which stays
   on the failing one while the switch is undone; the counter of the loop
   under way; and the `now` handed down from handle_block. *)
NoCall == [chain |-> << >>, split |-> 0, popped |-> << >>, i |-> 0, j |-> 0, now |-> 0]

Call == [chain : Seq(Block), split : Nat, popped : Seq(Info), i : Nat, j : Nat, now : Nat]

TypeOK ==
    /\ main \in Seq(Info) /\ main # << >>
    /\ DOMAIN alts \subseteq Block /\ alts \in [DOMAIN alts -> Nat]
    /\ altTxs \subseteq Block
    /\ orphaned \subseteq Tx
    /\ cache \in Info
    /\ phase \in Phases
    /\ sw \in Call
    /\ clock \in Nat /\ used \in Nat
    /\ before \in Seq(Info)

GenesisRow == [id |-> Genesis, cd |-> 1]

Init ==
    /\ main = << GenesisRow >>
    /\ alts = [b \in {} |-> 0]
    /\ altTxs = {} /\ orphaned = {}
    /\ cache = GenesisRow
    /\ phase = "idle" /\ sw = NoCall
    /\ clock = 0 /\ used = 0
    /\ before = << GenesisRow >>

-----------------------------------------------------------------------------
(* handle_block on the tip. *)

HaveBlock(b) == b \in Ids(main) \cup DOMAIN alts

(* add_block of b to the store, with the cached state advanced. *)
Commit(b) ==
    /\ main' = Append(main, RowFor(b, main, cache))
    /\ cache' = RowFor(b, main, cache)

AddToMain(b) ==
    /\ phase = "idle"
    /\ ~ HaveBlock(b)
    /\ Accepts(b, main, cache, clock)
    /\ Commit(b)
    /\ UNCHANGED <<alts, altTxs, orphaned, phase, sw, clock, used, before>>

-----------------------------------------------------------------------------
(* handle_alternative_block. *)

(* Ancestor[n][b]: the block n steps behind b. *)
Ancestor[n \in Nat] ==
    [b \in Block |-> IF n = 0 \/ b = Genesis THEN b ELSE Ancestor[n - 1][Prev[b]]]

(* The last n blocks of the branch that ends in b, oldest first. *)
Behind(b, n) == [k \in 1..n |-> Ancestor[n - k][b]]

(* s leads from the main chain to b through stored alternative blocks. *)
Attaches(s, b) ==
    /\ s \in Seq(Block) /\ s[Len(s)] = b
    /\ s[1] # Genesis /\ Prev[s[1]] \in Ids(main)
    /\ \A k \in 1..(Len(s) - 1) : /\ s[k] \in DOMAIN alts \ Ids(main)
                                 /\ s[k + 1] # Genesis /\ Prev[s[k + 1]] = s[k]

(* alt_chain_to, with b itself as the last link: the one walk back that ends
   on the main chain, or none when b is an orphan. *)
AltChainTo(b) == {s \in {Behind(b, n) : n \in 1..Height[b]} : Attaches(s, b)}

(* The main-chain height the links s attach to. *)
SplitHeight(s) == (CHOOSE k \in DOMAIN main : main[k].id = Prev[s[1]]) - 1

(* alt_difficulty: by the algorithm of the main chain's current version. *)
AltDifficulty(b) == NextDifficulty[Prev[b]][RequiredVersion(Len(main))]

AltWork(b, s) ==
    AltDifficulty(b) + IF Len(s) = 1 THEN main[SplitHeight(s) + 1].cd
                                     ELSE alts[s[Len(s) - 1]]

(* The checks before an alternative block is stored. Neither the future-time
   limit nor the transactions are among them. *)
AltAcceptable(b, s) ==
    /\ ~ HaveBlock(b)
    /\ Prev[b] # Tip(main).id
    /\ AltHeightAllowed(SplitHeight(s) + Len(s))
    /\ b \in AltSound
    /\ AltDifficulty(b) <= PowOf[b]

(* Fault: an equal amount of work is enough to switch. *)
Heavier_Ties(b, s) == AltWork(b, s) >= cache.cd

Heavier(b, s) == AltWork(b, s) > cache.cd

StoreAlt(b, s) ==
    /\ alts' = [x \in DOMAIN alts \cup {b} |-> IF x = b THEN AltWork(b, s) ELSE alts[x]]
    /\ altTxs' = altTxs \cup {b}

(* Every link's transactions are at hand, or it has none. *)
BodiesAtHand(b, s) ==
    \A k \in DOMAIN s : s[k] \in altTxs \cup {b} \/ TxsOf[s[k]] = << >>

(* Fault: a lighter alternative block is not kept. *)
AddAlt_Discarded(b, s) ==
    /\ phase = "idle"
    /\ AltAcceptable(b, s) /\ ~ Heavier(b, s)
    /\ UNCHANGED vars

(* Not more work than the main chain: Added::AltChain. *)
AddAlt(b, s) ==
    /\ phase = "idle"
    /\ AltAcceptable(b, s) /\ ~ Heavier(b, s)
    /\ StoreAlt(b, s)
    /\ UNCHANGED <<main, orphaned, cache, phase, sw, clock, used, before>>

(* More work, but a link's transactions are gone: the block stays stored and
   the switch is refused with MissingTx. *)
RefuseSwitch(b, s) ==
    /\ phase = "idle"
    /\ AltAcceptable(b, s) /\ Heavier(b, s) /\ ~ BodiesAtHand(b, s)
    /\ StoreAlt(b, s)
    /\ UNCHANGED <<main, orphaned, cache, phase, sw, clock, used, before>>

(* More work: switch_to_alternative begins. *)
BeginSwitch(b, s) ==
    /\ phase = "idle"
    /\ AltAcceptable(b, s) /\ Heavier(b, s) /\ BodiesAtHand(b, s)
    /\ StoreAlt(b, s)
    /\ phase' = "pop"
    /\ sw' = [NoCall EXCEPT !.chain = s, !.split = SplitHeight(s), !.i = 1, !.now = clock]
    /\ before' = main
    /\ UNCHANGED <<main, orphaned, cache, clock, used>>

HandleAlternative(b) ==
    \E s \in AltChainTo(b) : AddAlt(b, s) \/ RefuseSwitch(b, s) \/ BeginSwitch(b, s)

HandleBlock(b) == AddToMain(b) \/ HandleAlternative(b)

-----------------------------------------------------------------------------
(* switch_to_alternative: pop to the split, apply the links. *)

PopToSplit ==
    /\ phase = "pop" /\ Len(main) > sw.split + 1
    /\ main' = Drop(main)
    /\ sw' = [sw EXCEPT !.popped = <<Tip(main)>> \o @]
    /\ UNCHANGED <<alts, altTxs, orphaned, cache, phase, clock, used, before>>

(* Fault: the cached state is not rebuilt after the pops. *)
PopDone_NoReload ==
    /\ phase = "pop" /\ Len(main) <= sw.split + 1
    /\ phase' = "apply"
    /\ UNCHANGED <<main, alts, altTxs, orphaned, cache, sw, clock, used, before>>

PopDone ==
    /\ phase = "pop" /\ Len(main) <= sw.split + 1
    /\ cache' = Tip(main)
    /\ phase' = "apply"
    /\ UNCHANGED <<main, alts, altTxs, orphaned, sw, clock, used, before>>

ApplyLink ==
    /\ phase = "apply" /\ sw.i <= Len(sw.chain)
    /\ Accepts(sw.chain[sw.i], main, cache, sw.now)
    /\ Commit(sw.chain[sw.i])
    /\ sw' = [sw EXCEPT !.i = @ + 1]
    /\ UNCHANGED <<alts, altTxs, orphaned, phase, clock, used, before>>

(* Fault: the last link is left out. *)
ApplyDone_OneShort ==
    /\ phase = "apply" /\ sw.i >= Len(sw.chain)
    /\ phase' = "demote"
    /\ sw' = [sw EXCEPT !.j = 1]
    /\ UNCHANGED <<main, alts, altTxs, orphaned, cache, clock, used, before>>

(* A link is rejected: the i - 1 links already applied come off again. *)
RejectLink ==
    /\ phase = "apply" /\ sw.i <= Len(sw.chain)
    /\ ~ Accepts(sw.chain[sw.i], main, cache, sw.now)
    /\ phase' = "unapply"
    /\ sw' = [sw EXCEPT !.j = 1]
    /\ UNCHANGED <<main, alts, altTxs, orphaned, cache, clock, used, before>>

ApplyDone ==
    /\ phase = "apply" /\ sw.i > Len(sw.chain)
    /\ phase' = "demote"
    /\ sw' = [sw EXCEPT !.j = 1]
    /\ UNCHANGED <<main, alts, altTxs, orphaned, cache, clock, used, before>>

-----------------------------------------------------------------------------
(* ... and when a link was rejected, put the original chain back. *)

UnapplyLink ==
    /\ phase = "unapply" /\ sw.j < sw.i
    /\ main' = Drop(main)
    /\ sw' = [sw EXCEPT !.j = @ + 1]
    /\ UNCHANGED <<alts, altTxs, orphaned, cache, phase, clock, used, before>>

UnapplyDone ==
    /\ phase = "unapply" /\ sw.j >= sw.i
    /\ cache' = Tip(main)
    /\ phase' = "restore"
    /\ sw' = [sw EXCEPT !.j = 1]
    /\ UNCHANGED <<main, alts, altTxs, orphaned, clock, used, before>>

RestoreBlock ==
    /\ phase = "restore" /\ sw.j <= Len(sw.popped)
    /\ Accepts(sw.popped[sw.j].id, main, cache, sw.now)
    /\ Commit(sw.popped[sw.j].id)
    /\ sw' = [sw EXCEPT !.j = @ + 1]
    /\ UNCHANGED <<alts, altTxs, orphaned, phase, clock, used, before>>

(* "a failed reorganisation could not restore block": the call returns. *)
RestoreFails ==
    /\ phase = "restore" /\ sw.j <= Len(sw.popped)
    /\ ~ Accepts(sw.popped[sw.j].id, main, cache, sw.now)
    /\ phase' = "idle" /\ sw' = NoCall
    /\ UNCHANGED <<main, alts, altTxs, orphaned, cache, clock, used, before>>

(* Fault: the links are purged before the old chain is back in full. *)
RestoreDone_Early ==
    /\ phase = "restore" /\ sw.j >= Len(sw.popped)
    /\ phase' = "purge"
    /\ sw' = [sw EXCEPT !.j = sw.i]
    /\ UNCHANGED <<main, alts, altTxs, orphaned, cache, clock, used, before>>

RestoreDone ==
    /\ phase = "restore" /\ sw.j > Len(sw.popped)
    /\ phase' = "purge"
    /\ sw' = [sw EXCEPT !.j = sw.i]
    /\ UNCHANGED <<main, alts, altTxs, orphaned, cache, clock, used, before>>

RemoveAlt(b) ==
    /\ alts' = [x \in DOMAIN alts \ {b} |-> alts[x]]
    /\ altTxs' = altTxs \ {b}

(* The rejected link and the links after it are forgotten. *)
PurgeLink ==
    /\ phase = "purge" /\ sw.j <= Len(sw.chain)
    /\ RemoveAlt(sw.chain[sw.j])
    /\ sw' = [sw EXCEPT !.j = @ + 1]
    /\ UNCHANGED <<main, orphaned, cache, phase, clock, used, before>>

PurgeDone ==
    /\ phase = "purge" /\ sw.j > Len(sw.chain)
    /\ phase' = "idle" /\ sw' = NoCall
    /\ UNCHANGED <<main, alts, altTxs, orphaned, cache, clock, used, before>>

-----------------------------------------------------------------------------
(* ... and when all were accepted, what came off becomes the alternative. *)

DemoteBlock ==
    /\ phase = "demote" /\ sw.j <= Len(sw.popped)
    /\ LET p == sw.popped[sw.j] IN
          /\ alts' = [x \in DOMAIN alts \cup {p.id} |->
                          IF x = p.id THEN p.cd ELSE alts[x]]
          /\ altTxs' = altTxs \cup {p.id}
    /\ sw' = [sw EXCEPT !.j = @ + 1]
    /\ UNCHANGED <<main, orphaned, cache, phase, clock, used, before>>

DemoteDone ==
    /\ phase = "demote" /\ sw.j > Len(sw.popped)
    /\ phase' = "promote"
    /\ sw' = [sw EXCEPT !.j = 1]
    /\ UNCHANGED <<main, alts, altTxs, orphaned, cache, clock, used, before>>

(* Fault: the links stay in alt_blocks after they joined the main chain. *)
PromoteLink_Kept ==
    /\ phase = "promote" /\ sw.j <= Len(sw.chain)
    /\ sw' = [sw EXCEPT !.j = @ + 1]
    /\ UNCHANGED <<main, alts, altTxs, orphaned, cache, phase, clock, used, before>>

PromoteLink ==
    /\ phase = "promote" /\ sw.j <= Len(sw.chain)
    /\ RemoveAlt(sw.chain[sw.j])
    /\ sw' = [sw EXCEPT !.j = @ + 1]
    /\ UNCHANGED <<main, orphaned, cache, phase, clock, used, before>>

(* Fault: the displaced transactions are not handed over. *)
SwitchDone_TxsDropped ==
    /\ phase = "promote" /\ sw.j > Len(sw.chain)
    /\ phase' = "idle" /\ sw' = NoCall
    /\ UNCHANGED <<main, alts, altTxs, orphaned, cache, clock, used, before>>

(* The transactions the new chain does not contain wait for the pool. *)
SwitchDone ==
    /\ phase = "promote" /\ sw.j > Len(sw.chain)
    /\ orphaned' = orphaned \cup (TxsIn(sw.popped) \ TxsIn(main))
    /\ phase' = "idle" /\ sw' = NoCall
    /\ UNCHANGED <<main, alts, altTxs, cache, clock, used, before>>

Switch ==
    \/ PopToSplit \/ PopDone
    \/ ApplyLink \/ RejectLink \/ ApplyDone
    \/ UnapplyLink \/ UnapplyDone
    \/ RestoreBlock \/ RestoreFails \/ RestoreDone
    \/ PurgeLink \/ PurgeDone
    \/ DemoteBlock \/ DemoteDone \/ PromoteLink \/ SwitchDone

-----------------------------------------------------------------------------
(* pop_blocks, and take_orphaned_txs. *)

Intervene(kind) ==
    /\ kind \in Allowed
    /\ used < MaxInterventions
    /\ used' = used + 1

(* Fault: the genesis block may go too. *)
PopBlocks_PastGenesis(n) ==
    /\ phase = "idle"
    /\ Intervene("pop")
    /\ phase' = "popblocks"
    /\ sw' = [NoCall EXCEPT !.i = n]
    /\ before' = main
    /\ UNCHANGED <<main, alts, altTxs, orphaned, cache, clock>>

(* Fault: the popped transactions are forgotten. *)
PopOne_TxsDropped ==
    /\ phase = "popblocks" /\ sw.i > 0
    /\ main' = Drop(main)
    /\ sw' = [sw EXCEPT !.i = @ - 1]
    /\ UNCHANGED <<alts, altTxs, orphaned, cache, phase, clock, used, before>>

(* An operator asks for n blocks off the tip; the genesis block stays. *)
PopBlocks(n) ==
    /\ phase = "idle"
    /\ Intervene("pop")
    /\ phase' = "popblocks"
    /\ sw' = [NoCall EXCEPT !.i = IF n < Len(main) - 1 THEN n ELSE Len(main) - 1]
    /\ before' = main
    /\ UNCHANGED <<main, alts, altTxs, orphaned, cache, clock>>

PopOne ==
    /\ phase = "popblocks" /\ sw.i > 0
    /\ main' = Drop(main)
    /\ orphaned' = orphaned \cup TxSet(Tip(main).id)
    /\ sw' = [sw EXCEPT !.i = @ - 1]
    /\ UNCHANGED <<alts, altTxs, cache, phase, clock, used, before>>

(* Fault: pop_blocks leaves the cached state as it was. *)
PopBlocksDone_NoReload ==
    /\ phase = "popblocks" /\ sw.i = 0
    /\ phase' = "idle" /\ sw' = NoCall
    /\ UNCHANGED <<main, alts, altTxs, orphaned, cache, clock, used, before>>

PopBlocksDone ==
    /\ phase = "popblocks" /\ sw.i = 0
    /\ cache' = Tip(main)
    /\ phase' = "idle" /\ sw' = NoCall
    /\ UNCHANGED <<main, alts, altTxs, orphaned, clock, used, before>>

TakeOrphaned ==
    /\ phase = "idle" /\ orphaned # {}
    /\ orphaned' = {}
    /\ UNCHANGED <<main, alts, altTxs, cache, phase, sw, clock, used, before>>

-----------------------------------------------------------------------------
(* The world around the call. *)

(* Fault: the alternative blocks outlive their transactions. *)
Restart_AltsKept ==
    /\ Intervene("crash")
    /\ altTxs' = {} /\ orphaned' = {}
    /\ cache' = Tip(main)
    /\ phase' = "idle" /\ sw' = NoCall
    /\ UNCHANGED <<main, alts, clock, before>>

(* The process dies and starts again: Blockchain::new over the store, with
   the alternative blocks dropped unless --keep-alt-blocks. *)
Restart ==
    /\ Intervene("crash")
    /\ alts' = IF KeepAlt THEN alts ELSE [b \in {} |-> 0]
    /\ altTxs' = {} /\ orphaned' = {}
    /\ cache' = Tip(main)
    /\ phase' = "idle" /\ sw' = NoCall
    /\ UNCHANGED <<main, clock, before>>

(* The call under way is about to read or write the store. *)
StorageCallPending ==
    \/ phase \in {"pop", "unapply", "popblocks"}
    \/ phase = "apply" /\ sw.i <= Len(sw.chain)
    \/ phase \in {"restore", "demote"} /\ sw.j <= Len(sw.popped)
    \/ phase \in {"purge", "promote"} /\ sw.j <= Len(sw.chain)

(* A store operation of the call fails and the call returns the error at
   once.  While a link is applied, a failure is a rejection like another. *)
StorageError ==
    /\ StorageCallPending
    /\ Intervene("storage")
    /\ IF phase = "apply"
         THEN phase' = "unapply" /\ sw' = [sw EXCEPT !.j = 1]
         ELSE phase' = "idle" /\ sw' = NoCall
    /\ UNCHANGED <<main, alts, altTxs, orphaned, cache, clock, before>>

Tick ==
    /\ clock < MaxClock
    /\ clock' = clock + 1
    /\ UNCHANGED <<main, alts, altTxs, orphaned, cache, phase, sw, used, before>>

SetClockBack ==
    /\ clock > 0
    /\ Intervene("clockback")
    /\ clock' = clock - 1
    /\ UNCHANGED <<main, alts, altTxs, orphaned, cache, phase, sw, before>>

Continue == Switch \/ PopOne \/ PopBlocksDone

Next ==
    \/ \E b \in Block : HandleBlock(b)
    \/ Continue
    \/ \E n \in 1..Len(main) : PopBlocks(n)
    \/ TakeOrphaned
    \/ Restart \/ StorageError \/ Tick \/ SetClockBack

Spec == Init /\ [][Next]_vars

(* The thread that holds the chain lock runs on; time passes; and a peer that
   has a block offers it again for as long as this node does not have it.
   The lock is released between calls, so an offer may find the call of
   another block under way any number of times: strong fairness. *)
FairSpec ==
    /\ Spec
    /\ WF_vars(Continue)
    /\ WF_vars(Tick)
    /\ \A b \in Block : SF_vars(HandleBlock(b))

-----------------------------------------------------------------------------
(* Safety. *)

(* check_transactions and pop_block between them: however often blocks were
   popped, applied and put back, no key image is spent twice on the main
   chain and no transaction is in it twice, mid-switch states included. *)
NoDoubleSpend ==
    \A k, l \in DOMAIN main :
        k < l => /\ TxSet(main[k].id) \cap TxSet(main[l].id) = {}
                 /\ BlockImages(main[k].id) \cap BlockImages(main[l].id) = {}

(* add_block inside and outside a switch: at every moment, every block of the
   main chain has passed all the checks against the blocks below it and its
   stored cumulative difficulty is its parent's plus its own. *)
MainValid == ValidChain(main, clock)

(* reload_state and add_block: whenever a block may be checked (the lock is
   free, or a switch is applying or restoring), the cached state describes
   the tip of the store. *)
CacheCoherent ==
    phase \in {"idle", "apply", "restore", "purge", "demote", "promote"} => cache = Tip(main)

(* The two halves of the alternative store agree between calls: a block is
   never both on the main chain and an alternative, and each alternative's
   transactions are at hand, so a switch is never refused for want of them. *)
AltStoreSound ==
    phase = "idle" => /\ DOMAIN alts \cap Ids(main) = {}
                      /\ DOMAIN alts = altTxs

(* switch_to_alternative never ends halfway: when it returns (which it does not
   when the process dies), the main chain is the one it started from, row for
   row, or the whole new branch on top of the split point. *)
SwitchAllOrNothing ==
    [][(phase \notin {"idle", "popblocks"} /\ phase' = "idle" /\ ~ Restart) =>
          \/ main' = before
          \/ /\ SubSeq(main', 1, sw.split + 1) = SubSeq(before, 1, sw.split + 1)
             /\ [k \in 1..(Len(main') - sw.split - 1) |-> main'[sw.split + 1 + k].id]
                   = sw.chain]_vars

(* switch_to_alternative and pop_blocks hand over every transaction they take
   off: when the call returns, each is on the main chain or in orphaned_txs. *)
NoTxLost ==
    [][(phase # "idle" /\ phase' = "idle" /\ ~ Restart) =>
          TxsIn(before) \subseteq TxsIn(main') \cup orphaned']_vars

(* "switch only on strictly more work": once every link has been applied, the
   work stored for the new tip exceeds that of the tip given up. *)
ReorgGainsWork ==
    phase \in {"demote", "promote"} => Tip(main).cd > Tip(before).cd

(* add_block and is_alternative_block_allowed: a checkpointed block that is on
   the main chain is not taken off again, not even in the course of a switch. *)
CheckpointsStay ==
    [][phase # "popblocks" => Checkpoints \cap Ids(main) \subseteq Ids(main')]_vars

-----------------------------------------------------------------------------
(* Liveness. *)

(* Work[b]: the cumulative difficulty of the chain ending in b. *)
Work[b \in Block] ==
    IF b = Genesis THEN 1 ELSE Work[Prev[b]] + DifficultyAfter(Prev[b], Height[b])

(* b and all its ancestors would pass add_block, one on top of the other,
   once the clock has caught up with them. *)
Branch(b) == [k \in 1..(Height[b] + 1) |->
                 LET x == Ancestor[Height[b] + 1 - k][b] IN [id |-> x, cd |-> Work[x]]]

GoodTip(b) == ValidChain(Branch(b), MaxClock)

BestTips == {b \in Block : GoodTip(b) /\ \A c \in Block : GoodTip(c) => Work[c] <= Work[b]}

-----------------------------------------------------------------------------
(* What whoever takes the chain lock finds: a switch takes effect when the
   last link has been applied, and until then the old chain stands. *)
Settled == phase \in {"idle", "demote", "promote"}

Visible == IF Settled THEN main ELSE before

(* The node ends up, for good, on a valid chain with the most work there is,
   in whatever order its blocks arrive and whatever invalid ones come between. *)
HeaviestAdopted == <>[](Tip(Visible).id \in BestTips)

(* Seen under the lock, the chain is the abstract ledger: it grows by checked
   blocks, and a switch replaces it in one step by a valid chain with more
   work that keeps every checkpoint reached.  A crash in the middle of a switch
   leaves a valid chain with every checkpoint, if not always more work. *)
L == INSTANCE Ledger WITH
        ledger  <- Visible,
        clock   <- clock,
        mishaps <- used,
        CanPop  <- "pop" \in Allowed

ImplementsLedger == L!LedgerSpec
=============================================================================
