-------------------------------- MODULE Sync --------------------------------
(***************************************************************************)
(* wow-p2p's chain synchronisation: one reader thread per connection runs  *)
(* `advance` after every message and on every tick, and one applier thread *)
(* takes delivered spans off the shared `BlockQueue` in height order and   *)
(* hands them to the chain.                                                *)
(*                                                                         *)
(* Peers are full nodes whose chains grow and switch.  Connections are     *)
(* lost, requests are never answered, answers arrive after the queue they  *)
(* were meant for was thrown away, and a span is asked of two peers.       *)
(* The chain is abstracted to the blocks it holds and its tip; Chain.tla   *)
(* is about what is in it.                                                 *)
(***************************************************************************)
EXTENDS BlockQueue

CONSTANTS
    Peer,
    Block, Genesis,
    Path,           \* Path[b]: the chain ending in b; element k is height k - 1
    Work,           \* Work[b]: cumulative difficulty of the chain ending in b
    Bad,            \* blocks the chain refuses and bans the sender of
    Other,          \* peers that follow other rules, and take such blocks
    Known,          \* the blocks held at the start
    StartTip,       \* StartTip[p]: where p's chain is at the start
    DefaultBatch,   \* BLOCKS_DEFAULT_COUNT
    MaxBatch,       \* MAX_OBJECT_REQUEST_COUNT
    ReplyMax,       \* BLOCK_IDS_DEFAULT_COUNT
    NextAfter,      \* NEXT_SPAN_THRESHOLD, in ticks
    StandbyAfter,   \* NEXT_SPAN_THRESHOLD_STANDBY, in ticks
    MovesTo,        \* MovesTo[p]: the tips p's chain may move to
    MaxFaults       \* bound: connections lost, requests unanswered, times this
                    \* node cannot take blocks, readers running in the middle
                    \* of flush_queue

TipHeight(b) == Len(Path[b])

Parent(b) == Path[b][TipHeight(b) - 1]

ASSUME TreeAssumption ==
    /\ Genesis \in Block \ Bad /\ Path \in [Block -> Seq(Block)] /\ Path[Genesis] = <<Genesis>>
    /\ \A b \in Block \ {Genesis} : TipHeight(b) > 1 /\ Path[b] = Append(Path[Parent(b)], b)
    /\ Work \in [Block -> Nat]
    /\ \A b \in Block \ {Genesis} : Work[Parent(b)] < Work[b]
    /\ Genesis \in Known /\ Known \subseteq Block /\ IsFiniteSet(Known)
    /\ \A b \in Known : ToSet(Path[b]) \subseteq Known \ Bad
    /\ StartTip \in [Peer -> Block] /\ MovesTo \in [Peer -> SUBSET Block]
    /\ \A p \in Peer \ Other : \A b \in MovesTo[p] \cup {StartTip[p]} :
          ToSet(Path[b]) \cap Bad = {}

ASSUME SizeAssumption ==
    /\ {DefaultBatch, MaxBatch, ReplyMax, StandbyAfter} \subseteq Nat \ {0}
    /\ NextAfter \in Nat /\ StandbyAfter <= NextAfter
    /\ DefaultBatch <= MaxBatch /\ ReplyMax > 1
    /\ MaxFaults \in Nat

VARIABLES
    have, tip,      \* the blocks the chain holds, alternative ones included; its tip
    queue,          \* the shared BlockQueue
    conn,           \* conn[p]: the connection to p and its reader's `Proto`
    applier,        \* the applier: where it is, and the span it holds
    stalled,        \* Stall::waiting
    banned,         \* peers whose address is banned
    everSynced,     \* Shared::ever_synced
    askComplement,  \* Shared::ask_complement
    peerTip,        \* peerTip[p]: the tip of p's own chain     (environment)
    news,           \* peers whose announcement of a new tip is on its way
    trouble,        \* the chain refuses blocks, through no fault of theirs
    faults

vars == <<have, tip, queue, conn, applier, stalled, banned, everSynced,
          askComplement, peerTip, news, trouble, faults>>

NoRequest == [kind |-> "none"]

(* `connected` is FALSE before the handshake and once the reader has ended. *)
Down == [connected |-> FALSE, closed |-> FALSE, state |-> "handshake",
         pending |-> NoRequest, chain |-> << >>, start |-> 0, outdated |-> FALSE,
         batch |-> DefaultBatch, mayAsk |-> TRUE, sync |-> Genesis, height |-> 0]

Idle == [at |-> "wait", start |-> 0, ids |-> << >>, conn |-> << >>, verdict |-> "none"]

Up == {p \in Peer : conn[p].connected}

(* A connection's id: p's current one, or one p had before. *)
ConnOf(p) == <<p, "current">>
Earlier(p) == <<p, "earlier">>

TypeOK ==
    /\ have \subseteq Block /\ tip \in have
    /\ \A p \in Peer :
          /\ conn[p].state \in {"handshake", "synchronizing", "standby", "normal"}
          /\ conn[p].pending.kind \in {"none", "chain", "objects"}
          /\ conn[p].chain \in Seq(Block)
          /\ conn[p].batch \in DefaultBatch..MaxBatch
    /\ applier.at \in {"wait", "apply", "done", "bump"}
    /\ peerTip \in [Peer -> Block]
    /\ banned \subseteq Peer /\ news \subseteq Up
    /\ faults \in 0..MaxFaults

Init ==
    /\ have = Known
    /\ tip = CHOOSE b \in Known : \A c \in Known : Work[c] <= Work[b]
    /\ queue = EmptyQueue
    /\ conn = [p \in Peer |-> Down]
    /\ applier = Idle /\ stalled = FALSE
    /\ banned = {}
    /\ everSynced = FALSE /\ askComplement = TRUE
    /\ peerTip = StartTip /\ news = {}
    /\ trouble = FALSE /\ faults = 0

-----------------------------------------------------------------------------
(* The chain. *)

(* How many of a span's blocks the chain takes, in order. *)
Accepts(ids, k) ==
    \/ ids[k] \in have
    \/ /\ ids[k] # Genesis /\ Parent(ids[k]) \in have \cup {ids[j] : j \in 1..k - 1}
       /\ ids[k] \notin Bad /\ ~trouble

TakenOf(ids) == Max({n \in 0..Len(ids) : \A k \in 1..n : Accepts(ids, k)})

(* Fault: a span that does not attach is held against its sender. *)
VerdictOf_OrphanBans(ids) ==
    LET n == TakenOf(ids)
    IN  CASE n = Len(ids) -> "taken" [] n < Len(ids) /\ ~trouble -> "ban" [] OTHER -> "refused"

(* What became of the first block not taken. *)
VerdictOf(ids) ==
    LET n == TakenOf(ids)
        b == ids[n + 1]
    IN  IF n = Len(ids) THEN "taken"
        ELSE IF Parent(b) \notin have \cup {ids[j] : j \in 1..n} THEN "orphan"
        ELSE IF b \in Bad /\ ~trouble THEN "ban" ELSE "refused"

(* The chain with blocks S more: it moves to one of them only for more work. *)
Grown(S) ==
    /\ have' = have \cup S
    /\ tip' = LET best == CHOOSE b \in S \cup {tip} :
                             \A c \in S \cup {tip} : Work[c] <= Work[b]
              IN  IF Work[best] > Work[tip] THEN best ELSE tip

-----------------------------------------------------------------------------
(* A reader thread. *)

(* `sync_status().synchronized`, with queue q and connections c. *)
Synchronized(q, c) ==
    LET up == {p \in Peer : c[p].connected}
    IN  /\ up # {} /\ IsEmpty(q)
        /\ \A p \in up : /\ c[p].state \notin {"synchronizing", "standby"}
                         /\ c[p].height <= TipHeight(tip) + 1

(* Fault: only a connection that was syncing asks for the pool. *)
Settle_AfterSync(p, c, q) ==
    /\ conn' = [conn EXCEPT ![p] = [c EXCEPT !.state = "normal"]]
    /\ queue' = q
    /\ everSynced' = TRUE
    /\ askComplement' = (askComplement /\ ~(/\ c.state \in {"synchronizing", "standby"}
                                          /\ Synchronized(q, conn')))

(* `settle`: the peer is not ahead.  The pool is asked for once. *)
Settle(p, c, q) ==
    /\ conn' = [conn EXCEPT ![p] = [c EXCEPT !.state = "normal"]]
    /\ queue' = q
    /\ everSynced' = TRUE
    /\ askComplement' = (askComplement /\ ~Synchronized(q, conn'))

(* c with the blocks at the front of the peer's chain that this node has dropped. *)
DropKnown(c) ==
    LET known == Max({n \in 0..Len(c.chain) : \A k \in 1..n : c.chain[k] \in have})
    IN  [c EXCEPT !.chain = SubSeq(@, known + 1, Len(@)), !.start = @ + known]

(* `request_chain`: by our history, after the last block reserved from p. *)
RequestChain(p, c, q) ==
    /\ conn' = [conn EXCEPT ![p] = [c EXCEPT
            !.pending = [kind |-> "chain",
                         history |-> LastKnown(q, ConnOf(p)) \o Reverse(Path[tip])],
            !.chain = << >>, !.state = "synchronizing"]]
    /\ queue' = q

(* Whether the peer's chain holds `ids` from height `start`. *)
Offers(c, start, ids) ==
    /\ start >= c.start
    /\ start - c.start + Len(ids) <= Len(c.chain)
    /\ SubSeq(c.chain, start - c.start + 1, start - c.start + Len(ids)) = ids

(* REQUEST_GET_OBJECTS for a span's blocks. *)
RequestObjects(p, c, q, span) ==
    /\ conn' = [conn EXCEPT ![p] = [c EXCEPT
            !.pending = [kind |-> "objects", start |-> span.start, ids |-> span.ids],
            !.state = "synchronizing"]]
    /\ queue' = q

OverdueAfter(c) == IF c.state = "standby" THEN StandbyAfter ELSE NextAfter

(* The overdue span to ask p for, too: a sequence of at most one. *)
SecondRequest(p, c, q) ==
    LET overdue == {s \in OverdueNext(q, TipHeight(tip), OverdueAfter(c)) :
                       /\ q.spans[s].conn # ConnOf(p)
                       /\ Offers(c, s, q.spans[s].ids)}
    IN  SetToSeq({[start |-> s, ids |-> q.spans[s].ids] : s \in overdue})

(* The next span of p's chain, unless enough is waiting for the applier. *)
FirstRequest(c, q) ==
    IF c.start < TipHeight(tip) + NearBlocks \/ ~IsFull(q)
      THEN Reservation(q, c.start, c.chain, c.batch)
      ELSE << >>

Download(p, c, q) ==
    \E again \in {SecondRequest(p, c, q)}, first \in {FirstRequest(c, q)} :
        \/ again # << >> /\ RequestObjects(p, c, Touch(q, again[1].start), again[1])
        \/ /\ again = << >> /\ first # << >>
           /\ RequestObjects(p, c, Reserve(q, ConnOf(p), first[1]), first[1])
        \/ /\ again = << >> /\ first = << >>
           /\ conn' = [conn EXCEPT ![p] = [c EXCEPT !.state = "standby"]]
           /\ queue' = q

(***************************************************************************)
(* `advance`: move p's part of the sync along, from connection state c and *)
(* queue q.  What was known of the peer's chain is dropped with the queue  *)
(* it was read against.                                                    *)
(***************************************************************************)
Ahead(c) == Work[c.sync] > Work[tip] /\ c.sync \notin have

Advance(p, c, q) ==
    \/ /\ c.pending # NoRequest
       /\ conn' = [conn EXCEPT ![p] = c] /\ queue' = q
       /\ UNCHANGED <<everSynced, askComplement>>
    \/ /\ c.pending = NoRequest
       /\ \E d \in {DropKnown(IF c.outdated THEN [c EXCEPT !.outdated = FALSE, !.chain = << >>]
                                             ELSE c)} :
             \/ d.chain # << >> /\ Download(p, d, q) /\ UNCHANGED <<everSynced, askComplement>>
             \/ d.chain = << >> /\ ~Ahead(d) /\ Settle(p, d, q)
             \/ /\ d.chain = << >> /\ Ahead(d) /\ d.mayAsk
                /\ RequestChain(p, d, q) /\ UNCHANGED <<everSynced, askComplement>>
             \/ /\ d.chain = << >> /\ Ahead(d) /\ ~d.mayAsk
                /\ conn' = [conn EXCEPT ![p] = [d EXCEPT !.state = "standby"]]
                /\ queue' = q
                /\ UNCHANGED <<everSynced, askComplement>>

(* The reader ends: its undelivered spans are given back. *)
EndConnection(p) ==
    LET q == Flush(queue, ConnOf(p), FALSE)
    IN  /\ conn' = [conn EXCEPT ![p] = Down]
        /\ queue' = [q EXCEPT !.spans = [s \in DOMAIN @ |->
                        IF @[s].conn = ConnOf(p) THEN [@[s] EXCEPT !.conn = Earlier(p)]
                                                 ELSE @[s]]]
        /\ applier' = IF applier.conn = ConnOf(p)
                        THEN [applier EXCEPT !.conn = Earlier(p)] ELSE applier
        /\ askComplement' = (askComplement \/ Up = {p})
        /\ news' = news \ {p}
        /\ UNCHANGED <<have, tip, stalled, everSynced, peerTip, trouble>>

(* `make_connections` and the handshake, which tells where the peer's chain is. *)
Connect(p) ==
    /\ ~conn[p].connected /\ p \notin banned
    /\ Advance(p, [Down EXCEPT !.connected = TRUE, !.sync = peerTip[p],
                               !.height = TipHeight(peerTip[p])], queue)
    /\ UNCHANGED <<have, tip, applier, stalled, banned, peerTip, news, trouble, faults>>

Live(p) == conn[p].connected /\ ~conn[p].closed

(* `housekeeping`, every tick. *)
Housekeeping(p) ==
    /\ Live(p)
    /\ Advance(p, conn[p], queue)
    /\ UNCHANGED <<have, tip, applier, stalled, banned, peerTip, news, trouble, faults>>

(* A timed sync's answer. *)
TimedSync(p) ==
    /\ Live(p)
    /\ conn' = [conn EXCEPT ![p].sync = peerTip[p], ![p].height = TipHeight(peerTip[p])]
    /\ UNCHANGED <<have, tip, queue, applier, stalled, banned, everSynced, askComplement,
                   peerTip, news, trouble, faults>>

(* p's `chain_reply`: its chain from the first block of the history it has. *)
ChainReply(p) ==
    LET history == conn[p].pending.history
        chain == Path[peerTip[p]]
        k == Min({j \in DOMAIN history : history[j] \in ToSet(chain)})
        from == CHOOSE i \in DOMAIN chain : chain[i] = history[k]
    IN  [start |-> from - 1, total |-> Len(chain),
         ids |-> SubSeq(chain, from, Min({Len(chain), from + ReplyMax - 1}))]

(* The split point must be a block this node has, or one queued at that height. *)
Attaches(r) == r.ids[1] \in have \/ r.start \in HeightOf(queue, r.ids[1])

(* `on_chain_entry`. *)
OnChainEntry(p) ==
    /\ Live(p) /\ conn[p].pending.kind = "chain"
    /\ \E r \in {ChainReply(p)} :
          \/ /\ Attaches(r)
             /\ \E c \in {[conn[p] EXCEPT
                      !.pending = NoRequest, !.height = Max({@, r.total}),
                      !.outdated = FALSE, !.chain = r.ids, !.start = r.start,
                      !.mayAsk = ~(ToSet(r.ids) \subseteq have)]} : Advance(p, c, queue)
             /\ UNCHANGED <<have, tip, applier, stalled, banned, peerTip, news, trouble, faults>>
          \/ ~Attaches(r) /\ EndConnection(p) /\ UNCHANGED <<banned, faults>>

(* How many of the blocks asked of p it still has. *)
StillHeld(p) ==
    Cardinality({k \in DOMAIN conn[p].pending.ids :
                    conn[p].pending.ids[k] \in ToSet(Path[peerTip[p]])})

(* The queue with p's first n blocks filed, if they are wanted. *)
FilledBy(p, n) ==
    LET asked == conn[p].pending
    IN  IF Wanted(queue, asked.start, asked.ids, n)
          THEN Fill(queue, asked.start, asked.ids, n, ConnOf(p)) ELSE queue

(* p's connection once n of the blocks asked for have come. *)
AfterObjects(p, n) ==
    [conn[p] EXCEPT !.pending = NoRequest,
                    !.height = Max({@, TipHeight(peerTip[p])}),
                    !.batch = IF n = Len(conn[p].pending.ids)
                                THEN Min({2 * @, MaxBatch}) ELSE Max({@ \div 2, DefaultBatch})]

(* `on_objects`: p sends the first n of the blocks asked for. *)
OnObjects(p, n) ==
    /\ Live(p) /\ conn[p].pending.kind = "objects"
    /\ \/ /\ n <= StillHeld(p)
          /\ \E c \in {AfterObjects(p, n)}, q \in {FilledBy(p, n)} : Advance(p, c, q)
          /\ UNCHANGED <<have, tip, applier, stalled, banned, peerTip, news, trouble,
                         faults>>
       \/ n = 1 /\ StillHeld(p) = 0 /\ EndConnection(p) /\ UNCHANGED <<banned, faults>>

(* `on_new_block`: p announces its tip; only the normal state listens. *)
OnNewBlock(p) ==
    /\ Live(p) /\ p \in news
    /\ LET ids == <<peerTip[p]>>
           c == [conn[p] EXCEPT !.height = Max({@, TipHeight(peerTip[p])})]
       IN  \/ /\ c.state # "normal" /\ UNCHANGED <<have, tip, conn, queue>>
              /\ news' = news \ {p}
              /\ UNCHANGED <<applier, askComplement, banned, faults>>
           \/ /\ c.state = "normal" /\ VerdictOf(ids) \in {"taken", "refused"}
              /\ Grown({ids[k] : k \in 1..TakenOf(ids)})
              /\ conn' = [conn EXCEPT ![p] = c]
              /\ news' = news \ {p}
              /\ UNCHANGED <<queue, applier, askComplement, banned, faults>>
           \/ /\ c.state = "normal" /\ VerdictOf(ids) = "orphan"
              /\ RequestChain(p, c, queue)
              /\ news' = news \ {p}
              /\ UNCHANGED <<have, tip, applier, askComplement, banned, faults>>
           \/ /\ c.state = "normal" /\ VerdictOf(ids) = "ban"
              /\ EndConnection(p) /\ banned' = banned \cup {p} /\ UNCHANGED faults
    /\ UNCHANGED <<stalled, everSynced, peerTip, trouble>>

(* The applier closed the connection; its reader notices. *)
NoticeClosed(p) ==
    /\ conn[p].connected /\ conn[p].closed
    /\ EndConnection(p) /\ UNCHANGED <<banned, faults>>

(* The connection is lost, or a request goes unanswered for INVOKE_TIMEOUT. *)
Lose(p) ==
    /\ Live(p) /\ faults < MaxFaults
    /\ faults' = faults + 1
    /\ EndConnection(p) /\ UNCHANGED banned

-----------------------------------------------------------------------------
(* The applier thread: `drain_queue`. *)

TakeNext ==
    /\ applier.at = "wait" /\ ~stalled
    /\ LET q == Trimmed(queue, have)
           start == Min(DOMAIN q.spans)
       IN  \/ /\ Takes(q, TipHeight(tip))
              /\ queue' = Take(q)
              /\ applier' = [at |-> "apply", start |-> start, ids |-> q.spans[start].ids,
                             conn |-> q.spans[start].conn, verdict |-> "none"]
           \/ ~Takes(q, TipHeight(tip)) /\ queue' = q /\ UNCHANGED applier
    /\ UNCHANGED <<have, tip, conn, stalled, banned, everSynced, askComplement, peerTip, news,
                   trouble, faults>>

(* `apply_blocks`, under the chain lock. *)
ApplyBlocks ==
    /\ applier.at = "apply"
    /\ Grown({applier.ids[k] : k \in 1..TakenOf(applier.ids)})
    /\ applier' = [applier EXCEPT !.at = "done", !.verdict = VerdictOf(applier.ids)]
    /\ UNCHANGED <<queue, conn, stalled, banned, everSynced, askComplement, peerTip, news, trouble,
                   faults>>

(* The generation moves on: what readers knew of their peers' chains is outdated. *)
Outdate == conn' = [p \in Peer |-> [conn[p] EXCEPT !.outdated = conn[p].connected]]

(* What a failure costs depends on whose fault it is. *)
Done ==
    /\ applier.at = "done"
    /\ LET q == Applied(queue, applier.ids)
           sender == applier.conn[1]
       IN  \/ /\ applier.verdict = "taken"
              /\ queue' = q /\ applier' = Idle
              /\ UNCHANGED <<conn, banned, stalled, faults>>
           \/ /\ applier.verdict = "orphan"
              /\ queue' = Clear(q)
              /\ \/ applier' = Idle /\ Outdate /\ UNCHANGED faults
                 \/ /\ faults < MaxFaults /\ faults' = faults + 1
                    /\ applier' = [Idle EXCEPT !.at = "bump"] /\ UNCHANGED conn
              /\ UNCHANGED <<banned, stalled>>
           \/ /\ applier.verdict = "ban"
              /\ queue' = Flush(q, applier.conn, TRUE) /\ applier' = Idle
              /\ banned' = banned \cup {sender}
              /\ conn' = [conn EXCEPT ![sender].closed = conn[sender].connected]
              /\ UNCHANGED <<stalled, faults>>
           \/ /\ applier.verdict = "refused"
              /\ queue' = Flush(q, applier.conn, TRUE) /\ applier' = Idle
              /\ stalled' = TRUE
              /\ conn' = [conn EXCEPT ![sender].closed =
                              @ \/ applier.conn = ConnOf(sender)]
              /\ UNCHANGED <<banned, faults>>
    /\ UNCHANGED <<have, tip, everSynced, askComplement, peerTip, news, trouble>>

(* `flush_queue` clears the queue and then moves the generation on; here
   readers ran in between. *)
Bump ==
    /\ applier.at = "bump"
    /\ applier' = Idle /\ Outdate
    /\ UNCHANGED <<have, tip, queue, stalled, banned, everSynced, askComplement, peerTip,
                   news, trouble, faults>>

Retry ==
    /\ stalled /\ stalled' = FALSE
    /\ UNCHANGED <<have, tip, queue, conn, applier, banned, everSynced, askComplement,
                   peerTip, news, trouble, faults>>

-----------------------------------------------------------------------------
(* The environment. *)

(* An unanswered span is some time old. *)
Older(span) ==
    IF span.filled THEN span ELSE [span EXCEPT !.age = Min({NextAfter, @ + 1})]

(* Time passes: unanswered spans grow old, a peer may be asked again. *)
Tick ==
    /\ queue' = [queue EXCEPT !.spans = [s \in DOMAIN @ |-> Older(@[s])]]
    /\ conn' = [p \in Peer |-> [conn[p] EXCEPT !.mayAsk = TRUE]]
    /\ UNCHANGED <<have, tip, applier, stalled, banned, everSynced, askComplement, peerTip, news,
                   trouble, faults>>

(* p's chain grows, or switches to one with more work. *)
PeerMoves(p, b) ==
    /\ b \in MovesTo[p] /\ Work[b] > Work[peerTip[p]]
    /\ peerTip' = [peerTip EXCEPT ![p] = b]
    /\ news' = IF conn[p].connected THEN news \cup {p} ELSE news
    /\ UNCHANGED <<have, tip, queue, conn, applier, stalled, banned, everSynced,
                   askComplement, trouble, faults>>

(* This node cannot take blocks for a while: its clock is off, its store fails. *)
TroubleStarts ==
    /\ ~trouble /\ faults < MaxFaults
    /\ trouble' = TRUE /\ faults' = faults + 1
    /\ UNCHANGED <<have, tip, queue, conn, applier, stalled, banned, everSynced,
                   askComplement, peerTip, news>>

TroubleEnds ==
    /\ trouble /\ trouble' = FALSE
    /\ UNCHANGED <<have, tip, queue, conn, applier, stalled, banned, everSynced,
                   askComplement, peerTip, news, faults>>

Reader(p) == Housekeeping(p) \/ NoticeClosed(p)

Answer(p) == OnChainEntry(p) \/ \E n \in 1..MaxBatch : OnObjects(p, n)

Applier == TakeNext \/ ApplyBlocks \/ Done \/ Bump

Next ==
    \/ \E p \in Peer :
          \/ Connect(p) \/ Reader(p) \/ Answer(p) \/ TimedSync(p) \/ OnNewBlock(p)
          \/ Lose(p)
          \/ \E b \in MovesTo[p] : PeerMoves(p, b)
    \/ Applier \/ Retry \/ Tick \/ TroubleStarts \/ TroubleEnds

(***************************************************************************)
(* Every thread keeps running, a peer that is not lost answers, time       *)
(* passes, and whatever keeps this node from taking blocks ends.           *)
(***************************************************************************)
Fairness ==
    /\ \A p \in Peer :
          /\ WF_vars(Connect(p)) /\ WF_vars(Reader(p))
          /\ WF_vars(Answer(p)) /\ WF_vars(TimedSync(p))
    /\ WF_vars(Applier) /\ WF_vars(Retry) /\ WF_vars(Tick) /\ WF_vars(TroubleEnds)

Spec == Init /\ [][Next]_vars /\ Fairness

-----------------------------------------------------------------------------
(* Properties. *)

(* Every block is asked for once: an id is in one span, filed at the height
   the index gives, and not with the applier too. *)
QueueIndexed ==
    /\ \A s, r \in DOMAIN queue.spans : s # r =>
          ToSet(queue.spans[s].ids) \cap ToSet(queue.spans[r].ids) = {}
    /\ DOMAIN queue.heights = UNION {ToSet(queue.spans[s].ids) : s \in DOMAIN queue.spans}
    /\ \A s \in DOMAIN queue.spans : \A k \in DOMAIN queue.spans[s].ids :
          queue.heights[queue.spans[s].ids[k]] = s + k - 1
    /\ DOMAIN queue.heights \cap DOMAIN queue.applying = {}

(* The queue at any moment, between any two calls of any thread. *)
QueueSound == TypeOK /\ QueueIndexed

(* Whatever the order of requests, second requests and late answers, a ban
   hits only a peer that delivered a block the chain refuses. *)
BansDeserved == banned \subseteq Other

(* The download finishes: this node ends with at least the work of every
   peer it has not banned. *)
SyncCompletes ==
    <>[](\A p \in Peer \ banned : Work[peerTip[p]] <= Work[tip])

(* The pool is asked of the network once this node has caught up. *)
PoolAsked == <>[](Peer \subseteq banned \/ ~askComplement)
=============================================================================
