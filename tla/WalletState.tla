---------------------------- MODULE WalletState -----------------------------
(***************************************************************************)
(* wow-wallet's `WalletState`: the block hashes a wallet holds, the        *)
(* outputs it found in those blocks (`transfers`, in the order found) and  *)
(* the transactions that spend them (`sent`).                              *)
(*                                                                         *)
(* A block stands for its own hash: [height, branch, tx], where `branch`   *)
(* tells apart blocks of the same height and `tx` is the transaction in it *)
(* that concerns this wallet.  An output stands for its one-time key and   *)
(* its key image, which are taken to be different for every output.        *)
(***************************************************************************)
EXTENDS Integers, SequencesExt

CONSTANTS
    Out,            \* the outputs paid to this wallet
    Tx, NoTx,
    Ins,            \* Ins[t]: the outputs of this wallet t spends
    Pays,           \* Pays[t]: the outputs t pays to this wallet, in order
    Checkpoint,     \* the height of the last checkpoint
    Dense,          \* how many steps of a history are of one block: 10
    Granularity     \* FIRST_REFRESH_GRANULARITY

ASSUME TxAssumption ==
    /\ NoTx \notin Tx
    /\ Ins \in [Tx -> SUBSET Out] /\ Pays \in [Tx -> Seq(Out)]
    /\ \A t, u \in Tx : \A i \in DOMAIN Pays[t], j \in DOMAIN Pays[u] :
          Pays[t][i] = Pays[u][j] => t = u /\ i = j

ASSUME HistoryAssumption ==
    Checkpoint \in Nat /\ Dense \in Nat /\ Granularity \in Nat \ {0}

BlockOf(h, b, t) == [height |-> h, branch |-> b, tx |-> t]

(* The hard-coded hashes: genesis, and the last checkpoint. *)
Anchor(h) == BlockOf(h, 0, NoTx)

(* What `spent` and `spent_height` say of a transfer: not spent, spent by a
   transaction in no block yet, or (above zero) the height of its block. *)
Unspent == -1
Waiting == 0

(* Where the hashes begin is `start`; scanning begins at `from`. *)
NewWallet(h) ==
    [start |-> h, from |-> h, hashes |-> IF h = 0 THEN <<Anchor(0)>> ELSE << >>,
     fill |-> << >>, transfers |-> << >>, sent |-> << >>]

ScanHeight(w) == w.start + Len(w.hashes)

HashAt(w, h) == w.hashes[h - w.start + 1]

HeldOuts(w) == {w.transfers[i].out : i \in DOMAIN w.transfers}

IndexOf(w, o) == CHOOSE i \in DOMAIN w.transfers : w.transfers[i].out = o

(* `retain`: what of a sequence is in S, in its order. *)
Retained(s, S) ==
    LET kept[n \in 0..Len(s)] ==
            IF n = 0 THEN << >>
            ELSE IF s[n] \in S THEN Append(kept[n - 1], s[n]) ELSE kept[n - 1]
    IN  kept[Len(s)]

Records(w, state) == {t \in DOMAIN w.sent : w.sent[t].state = state}

-----------------------------------------------------------------------------
(* history.rs: the records of what was spent, and by what. *)

IsPendingInput(w, o) == \E t \in Records(w, "pending") : o \in w.sent[t].images

(* The records with r as the one of t. *)
Recorded(sent, t, r) == [u \in DOMAIN sent \cup {t} |-> IF u = t THEN r ELSE sent[u]]

(* set_inputs_spent *)
SetInputs(w, O, was, is) ==
    [w EXCEPT !.transfers = [i \in DOMAIN @ |->
        IF @[i].out \in O /\ @[i].spent = was THEN [@[i] EXCEPT !.spent = is] ELSE @[i]]]

SpendPendingInputs(w) ==
    SetInputs(w, {o \in Out : IsPendingInput(w, o)}, Unspent, Waiting)

Pending(O, own) == [state |-> "pending", height |-> 0, own |-> own, images |-> O]

(* `own` is sent_time # 0: recorded when it was sent or seen in the pool,
   and not found in a block. *)
DetachSent(w, h) ==
    LET gone(t) == w.sent[t].state = "confirmed" /\ w.sent[t].height >= h
        keep == {t \in DOMAIN w.sent : gone(t) => w.sent[t].own}
    IN  SpendPendingInputs([w EXCEPT !.sent =
            [t \in keep |-> IF gone(t) THEN Pending(w.sent[t].images, TRUE) ELSE @[t]]])

SpendSeen(w, t, h, O) ==
    [w EXCEPT !.sent = Recorded(@, t,
        IF t \in DOMAIN @ THEN [@[t] EXCEPT !.state = "confirmed", !.height = h]
        ELSE [state |-> "confirmed", height |-> h, own |-> FALSE, images |-> O])]

(* The plan names its inputs by their places in `transfers`, as they were
   when it was made. *)
RecordSent(w, t, plan) ==
    [w EXCEPT !.transfers = [i \in DOMAIN @ |->
                  IF i \in plan THEN [@[i] EXCEPT !.spent = Waiting] ELSE @[i]],
              !.sent = Recorded(@, t, Pending({w.transfers[i].out : i \in plan}, TRUE))]

(* The transactions of the pool that note_pool_spends writes down. *)
Noted(w, pool) ==
    {t \in pool \ DOMAIN w.sent : Ins[t] \cap HeldOuts(w) # {}}

NotePoolSpends(w, pool) ==
    SpendPendingInputs([w EXCEPT !.sent =
        [t \in DOMAIN @ \cup Noted(w, pool) |->
            IF t \in DOMAIN @ THEN @[t] ELSE Pending(Ins[t] \cap HeldOuts(w), TRUE)]])

(* The transactions update_pending gives up on: too old, and not in the pool. *)
GivenUp(w, pool, old) == (Records(w, "pending") \ pool) \cap old

(* (fault) A transaction that failed stays failed. *)
UpdatePending_ForGood(w, pool, old) ==
    LET failed == GivenUp(w, pool, old)
    IN  SpendPendingInputs(SetInputs(
            [w EXCEPT !.sent = [t \in DOMAIN @ |->
                IF t \in failed THEN [@[t] EXCEPT !.state = "failed"] ELSE @[t]]],
            UNION {w.sent[t].images : t \in failed}, Waiting, Unspent))

(* (fault) Inputs that another waiting transaction names are given back too. *)
UpdatePending_Frees(w, pool, old) ==
    LET failed == GivenUp(w, pool, old)
        again == pool \cap Records(w, "failed")
    IN  SetInputs(
            SpendPendingInputs([w EXCEPT !.sent = [t \in DOMAIN @ |->
                 IF t \in failed THEN [@[t] EXCEPT !.state = "failed"]
                 ELSE IF t \in again THEN [@[t] EXCEPT !.state = "pending"] ELSE @[t]]]),
            UNION {w.sent[t].images : t \in failed}, Waiting, Unspent)

UpdatePending(w, pool, old) ==
    LET failed == GivenUp(w, pool, old)
        again == pool \cap Records(w, "failed")
        judged == [w EXCEPT !.sent = [t \in DOMAIN @ |->
            IF t \in failed THEN [@[t] EXCEPT !.state = "failed"]
            ELSE IF t \in again THEN [@[t] EXCEPT !.state = "pending"] ELSE @[t]]]
    IN  SpendPendingInputs(
            SetInputs(judged, UNION {w.sent[t].images : t \in failed}, Waiting, Unspent))

-----------------------------------------------------------------------------
(* refresh.rs: what a block says. *)

(* (fault) What the blocks detached spent stays spent. *)
Detach_KeepsSpends(w, h) ==
    DetachSent([w EXCEPT !.hashes = SubSeq(@, 1, h - w.start),
                         !.transfers = Retained(@, {x \in ToSet(@) : x.height < h})], h)

Detach(w, h) ==
    LET kept == Retained(w.transfers, {x \in ToSet(w.transfers) : x.height < h})
    IN  DetachSent([w EXCEPT
            !.hashes = SubSeq(@, 1, h - w.start),
            !.transfers = [i \in DOMAIN kept |->
                IF kept[i].spent >= h THEN [kept[i] EXCEPT !.spent = Unspent] ELSE kept[i]]], h)

RescanFrom(w, h) ==
    DetachSent([NewWallet(h) EXCEPT !.sent = w.sent], h)

(* process_transaction: spends first, then receipts.  An output held already
   is found again and ignored (add_transfer). *)
ProcessTransaction(w, t, h) ==
    LET spends == Ins[t] \cap HeldOuts(w)
        marked == [i \in DOMAIN w.transfers |->
            IF w.transfers[i].out \in spends /\ w.transfers[i].spent <= Waiting
            THEN [w.transfers[i] EXCEPT !.spent = h] ELSE w.transfers[i]]
        fresh == Retained(Pays[t], Out \ HeldOuts(w))
        found == [i \in DOMAIN fresh |->
            [out |-> fresh[i], height |-> h,
             spent |-> IF IsPendingInput(w, fresh[i]) THEN Waiting ELSE Unspent]]
        seen == [w EXCEPT !.transfers = marked \o found]
    IN  IF spends = {} THEN seen ELSE SpendSeen(seen, t, h, spends)

(* A block below the restore height leaves only its hash. *)
ProcessBlock(w, b) ==
    LET scanned == IF b.height < w.from \/ b.tx = NoTx THEN w
                   ELSE ProcessTransaction(w, b.tx, b.height)
    IN  [scanned EXCEPT !.hashes = Append(@, b)]

(* One block of a reply.  One held already is compared, and one that differs
   from the held one is where the chains split. *)
Passed(w, b) ==
    b.height < w.start \/ (b.height < ScanHeight(w) /\ HashAt(w, b.height) = b)

Split(w, b) == IF b.height < ScanHeight(w) THEN Detach(w, b.height) ELSE w

Scan(w, b) == IF Passed(w, b) THEN w ELSE ProcessBlock(Split(w, b), b)

ScanAll(w, list) ==
    LET scanned[n \in 0..Len(list)] ==
            IF n = 0 THEN w ELSE Scan(scanned[n - 1], list[n])
    IN  scanned[Len(list)]

-----------------------------------------------------------------------------
(* refresh.rs: what is asked of the daemon. *)

(* history_at: the hashes held up to the last whole `g` blocks, the newest
   Dense + 1 of them and then at doubling gaps, the first one and genesis. *)
HistoryAt(w, g) ==
    LET len == Min({((ScanHeight(w) \div g) * g) - w.start, Len(w.hashes)})
        back == (0..Dense) \cup {Dense + 2^k - 2 : k \in 1..Len(w.hashes)}
    IN  IF w.hashes = << >> THEN {Anchor(0)}
        ELSE {w.hashes[len - i] : i \in back \cap (0..(len - 1))}
             \cup {w.hashes[1], Anchor(0)}

(* Where every wallet's hashes begin, and up to where this one's are missing. *)
HistoryBase(w) == IF w.from > Checkpoint THEN Checkpoint ELSE 0

FillTarget(w) == IF w.hashes = << >> THEN Max({w.from, w.start}) ELSE w.start

Fills(w) == FillTarget(w) > HistoryBase(w)

(* The hashes gathered so far, and the history they are asked for with. *)
Gathered(w) == IF w.fill = << >> THEN <<Anchor(HistoryBase(w))>> ELSE w.fill

FillHistory(w) ==
    LET n == Len(Gathered(w))
    IN  {Gathered(w)[i] : i \in Max({1, n - 2})..n} \cup {Gathered(w)[1], Anchor(0)}

(* A listed hash either agrees with the one gathered, or cuts them off. *)
Listed(w, fill, b) ==
    LET at == b.height - HistoryBase(w)
    IN  IF at < Len(fill) /\ fill[at + 1] = b THEN fill
        ELSE Append(SubSeq(fill, 1, at), b)

(* The listed hashes below the target, one after the other. *)
ListAll(w, list) ==
    LET listed[n \in 0..Len(list)] ==
            IF n = 0 THEN Gathered(w)
            ELSE IF list[n].height < FillTarget(w) THEN Listed(w, listed[n - 1], list[n])
            ELSE listed[n - 1]
    IN  listed[Len(list)]

(* fill_below, given the blocks listed: the wallet and how the call ended, which
   is "idle" when there is more to do. *)
FillBelow(w, list) ==
    LET base == HistoryBase(w)
        target == FillTarget(w)
        fill == ListAll(w, list)
        atTarget == {b \in ToSet(list) : b.height = target}
        reached == atTarget # {} \/ base + Len(fill) >= target
        stale == w.hashes # << >> /\ atTarget # {} /\ w.hashes[1] \notin atTarget
        under == IF stale THEN Detach(w, w.start) ELSE w
    IN  IF ~reached /\ Len(fill) > Len(Gathered(w))
        THEN [w |-> [w EXCEPT !.fill = fill], end |-> "idle"]
        ELSE IF ~reached /\ w.hashes # << >>
        THEN [w |-> [w EXCEPT !.fill = << >>], end |-> "ShortChain"]
        ELSE [w |-> [under EXCEPT !.fill = << >>, !.hashes = fill \o @, !.start = base],
              end |-> "idle"]

(* refresh_once, given the blocks the daemon answered a history of
   granularity g with, and its height. *)
TakeBlocks(w, list, current, g) ==
    LET new == ScanAll(w, list)
        caught == list = << >> \/ ScanHeight(new) >= current
    IN  IF list = << >> THEN [w |-> w, end |-> "caught up"]
        ELSE IF list[1].height > ScanHeight(w) THEN [w |-> w, end |-> "GapInChain"]
        ELSE IF list[1].height < w.start /\ w.hashes # << >>
        THEN [w |-> Detach(w, w.start), end |-> "idle"]
        ELSE [w |-> new,
              end |-> IF caught THEN "caught up"
                      ELSE IF new = w /\ g = 1 THEN "NoProgress" ELSE "idle"]
=============================================================================
