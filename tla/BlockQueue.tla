----------------------------- MODULE BlockQueue -----------------------------
(***************************************************************************)
(* wow-p2p's `BlockQueue`: the spans of block ids that the connections     *)
(* have asked for, filed by the height of their first block, and the ids   *)
(* of the span the applier holds.                                          *)
(*                                                                         *)
(* A queue is a record of the code's three tables; each operation maps a   *)
(* queue to the next one.  A delivered block is its id: what was delivered *)
(* has been compared with the ids asked for before it gets here.           *)
(***************************************************************************)
EXTENDS Naturals, Sequences, FiniteSets, FiniteSetsExt, SequencesExt

CONSTANTS
    NSpansThreshold,    \* NSPANS_THRESHOLD
    SizeThreshold,      \* SIZE_THRESHOLD, in blocks
    NearBlocks,         \* FORCE_DOWNLOAD_NEAR_BLOCKS
    Epoch               \* SEEDHASH_EPOCH_BLOCKS

ASSUME QueueAssumption ==
    /\ {NSpansThreshold, SizeThreshold, NearBlocks} \subseteq Nat
    /\ Epoch \in Nat \ {0}

EmptyQueue == [spans |-> << >>, heights |-> << >>, applying |-> << >>]

Without(f, S) == [x \in DOMAIN f \ S |-> f[x]]

IsEmpty(q) == DOMAIN q.spans = {} /\ DOMAIN q.applying = {}

Requested(q, id) == id \in DOMAIN q.heights \cup DOMAIN q.applying

(* `height_of`, as a set of at most one height. *)
HeightOf(q, id) ==
    IF id \in DOMAIN q.heights THEN {q.heights[id]}
    ELSE IF id \in DOMAIN q.applying THEN {q.applying[id]} ELSE {}

Filled(q) == {s \in DOMAIN q.spans : q.spans[s].filled}

DataSize(q) == MapThenSumSet(LAMBDA s : Len(q.spans[s].ids), Filled(q))

(* Downloading further ahead waits for the applier. *)
IsFull(q) == Cardinality(Filled(q)) >= NSpansThreshold /\ DataSize(q) >= SizeThreshold

(* ids[k] for k in 1..n, filed at the heights from `start` on. *)
Filing(start, ids) ==
    [id \in ToSet(ids) |-> start + (CHOOSE k \in DOMAIN ids : ids[k] = id) - 1]

Override(f, g) == [x \in DOMAIN f \cup DOMAIN g |-> IF x \in DOMAIN g THEN g[x] ELSE f[x]]

InsertSpan(q, start, span) ==
    [q EXCEPT !.heights = Override(@, Filing(start, span.ids)),
              !.spans = Override(@, [s \in {start} |-> span])]

RemoveSpan(q, start) ==
    [q EXCEPT !.heights = Without(@, ToSet(q.spans[start].ids)),
              !.spans = Without(@, {start})]

(* Fault: the index keeps the ids. *)
RemoveAll_KeepIds(q, starts) == [q EXCEPT !.spans = Without(@, starts)]

RemoveAll(q, starts) ==
    [q EXCEPT !.heights = Without(@, UNION {ToSet(q.spans[s].ids) : s \in starts}),
              !.spans = Without(@, starts)]

(***************************************************************************)
(* `BatchSize::next`: how many blocks to ask for, none past a seed epoch.  *)
(***************************************************************************)
NextBatch(batch, start, free) == Max({1, Min({batch, free, Epoch - (start % Epoch)})})

(***************************************************************************)
(* `reserve`: the first run of ids nobody has asked for, cut to a batch; a *)
(* sequence of at most one [start, ids].                                   *)
(***************************************************************************)
Reservation(q, first, ids, batch) ==
    LET free == {k \in DOMAIN ids : ~Requested(q, ids[k])}
        skip == Min(free)
        stop == Min({k \in skip..Len(ids) + 1 : k \notin free})
        n == NextBatch(batch, first + skip - 1, stop - skip)
    IN  IF free = {} \/ first + skip - 1 \in DOMAIN q.spans THEN << >>
        ELSE <<[start |-> first + skip - 1,
                ids |-> SubSeq(ids, skip, skip + Min({n, stop - skip}) - 1)]>>

Reserve(q, conn, r) ==
    InsertSpan(q, r.start, [ids |-> r.ids, filled |-> FALSE, conn |-> conn, age |-> 0])

(***************************************************************************)
(* `fill`: conn sent the first n of the ids asked for at `start`.          *)
(***************************************************************************)
Wanted(q, start, ids, n) ==
    /\ n \in 1..Len(ids)
    /\ IF start \in DOMAIN q.spans
         THEN /\ ~q.spans[start].filled
              /\ Len(q.spans[start].ids) >= n
              /\ SubSeq(q.spans[start].ids, 1, n) = SubSeq(ids, 1, n)
         ELSE \A k \in 1..n : ~Requested(q, ids[k])

Fill(q, start, ids, n, conn) ==
    LET rest == IF start \in DOMAIN q.spans THEN RemoveSpan(q, start) ELSE q
    IN  InsertSpan(rest, start,
               [ids |-> SubSeq(ids, 1, n), filled |-> TRUE, conn |-> conn, age |-> 0])

(***************************************************************************)
(* `take_next`: the spans whose last block the chain already has are       *)
(* dropped from the front; then the lowest goes to the applier if it is    *)
(* filled and starts no higher than the chain's height.                    *)
(***************************************************************************)
Passed(q, have) ==
    {s \in DOMAIN q.spans : \A r \in DOMAIN q.spans : r <= s => Last(q.spans[r].ids) \in have}

Trimmed(q, have) == RemoveAll(q, Passed(q, have))

Takes(q, height) ==
    /\ DOMAIN q.spans # {}
    /\ Min(DOMAIN q.spans) <= height
    /\ q.spans[Min(DOMAIN q.spans)].filled

Take(q) ==
    LET start == Min(DOMAIN q.spans)
    IN  [RemoveSpan(q, start) EXCEPT
            !.applying = Override(@, Filing(start, q.spans[start].ids))]

Applied(q, ids) == [q EXCEPT !.applying = Without(@, ToSet(ids))]

(* Fault: what a connection never delivered stays reserved. *)
Flush_Keep(q, conn, all) ==
    RemoveAll(q, {s \in DOMAIN q.spans : q.spans[s].conn = conn /\ all})

(* `flush`: a connection's spans are given back, the delivered ones too with `all`. *)
Flush(q, conn, all) ==
    RemoveAll(q, {s \in DOMAIN q.spans :
                     q.spans[s].conn = conn /\ (all \/ ~q.spans[s].filled)})

Clear(q) == [q EXCEPT !.spans = << >>, !.heights = << >>]

(* `overdue_next`: the span the chain needs next was asked for `after` ago. *)
OverdueNext(q, height, after) ==
    {s \in DOMAIN q.spans :
        /\ s = Min(DOMAIN q.spans) /\ s <= height
        /\ ~q.spans[s].filled /\ q.spans[s].age >= after}

Touch(q, start) == [q EXCEPT !.spans[start].age = 0]

(* `last_known`: the last block of the connection's highest span. *)
LastKnown(q, conn) ==
    LET mine == {s \in DOMAIN q.spans : q.spans[s].conn = conn}
    IN  IF mine = {} THEN << >> ELSE <<Last(q.spans[Max(mine)].ids)>>
=============================================================================
