------------------------------- MODULE Relay -------------------------------
(***************************************************************************)
(* How wow-p2p passes transactions on (Dandelion++): through a stem and    *)
(* then under an embargo, or fluffed to every peer on that peer's timer.   *)
(* `relay_txs` runs on every thread there is: RPC threads, the readers of  *)
(* connections, and the ticker that ends embargoes and walks the pool.     *)
(* Every lock it takes and gives back is a step of its own.                *)
(*                                                                         *)
(* The pool is abstracted to how far each transaction has come and whether *)
(* it was sent (TxPool.tla has the rest).  A timer is one the ticker may   *)
(* find run out whenever it looks, and in the end does.  An anonymity zone *)
(* takes what it is given while it is up.                                  *)
(***************************************************************************)
EXTENDS StemMap, TLC

CONSTANTS
    Tx,
    Conn,           \* connection ids, of which each is used once
    Incoming,       \* the connections peers made
    Steady,         \* connections that are made and stay
    Rpc,            \* RPC threads
    Ticker,         \* the maintenance thread
    Self,           \* the source of what this node sends of its own accord
    Offers,         \* Offers[c]: the transactions the peer of c may send
    HiddenOffers,   \* those that may arrive over an anonymity zone
    Submits,        \* those a client of this node may submit
    MaxEvents       \* bound: transactions submitted, received or sent again,
                    \* epochs begun, connections lost or falling behind, a
                    \* zone going down, restarts

ASSUME RelayAssumption ==
    /\ IsFiniteSet(Conn) /\ Incoming \subseteq Conn /\ Steady \subseteq Conn
    /\ Offers \in [Conn -> SUBSET Tx] /\ HiddenOffers \subseteq Tx /\ Submits \subseteq Tx
    /\ Ticker \notin Rpc \cup Conn /\ Rpc \cap Conn = {} /\ Self \notin Conn
    /\ NoConn \notin Conn \cup {Self} /\ MaxEvents \in Nat

VARIABLES
    pool,       \* pool[t]: t's relay method, "absent", or "mined"
    sent,       \* the transactions sent from this process (relayed_at)
    conns,      \* conns[c]: where connection c is
    fluffing,   \* Relay::fluffing, stems, embargo, queued, forward
    stems,
    embargo,
    queued,
    forward,
    arrived,    \* what came over the zones since the last tick
    hidden,     \* an anonymity zone is configured
    zoneUp,     \* it has an outgoing connection
    thread,     \* thread[h]: the calls of relay_txs h has to make, and where it is
    out,        \* transactions the network has                   (history)
    foreign,    \* transactions that came from a peer             (history)
    events

vars == <<pool, sent, conns, fluffing, stems, embargo, queued, forward, arrived, hidden,
          zoneUp, thread, out, foreign, events>>

wire == <<fluffing, stems, embargo, queued, forward>>
seen == <<out, foreign>>
fixed == <<hidden, zoneUp, conns>>

Thread == Rpc \cup {Ticker} \cup Conn
Source == Conn \cup {Self}
Rank == [absent |-> 0, None |-> 1, Local |-> 2, Forward |-> 3, Stem |-> 4, Fluff |-> 5,
         mined |-> 6]

Idle == [jobs |-> << >>, at |-> "begin", tries |-> 0]

Job(from, txs, how) == [from |-> from, txs |-> txs, how |-> how]

(* A call with no transactions does nothing. *)
Jobs(from, txs, how) == IF txs = {} THEN << >> ELSE <<Job(from, txs, how)>>

(* A thread is given the calls of relay_txs it has to make, one after the
   other. *)
Give(h, jobs) == thread' = [thread EXCEPT ![h] = [jobs |-> jobs, at |-> "begin", tries |-> 0]]

Held == {t \in Tx : pool[t] \notin {"absent", "mined"}}

(* What a copy of is answered as known. *)
Legacy == {t \in Tx : pool[t] \in {"Fluff", "None", "mined"}}

InMap == {c \in Conn : conns[c] \in {"normal", "behind", "closed"}}

(* A connection's state stays NORMAL when it is closed, until it is gone. *)
Normal == {c \in Conn : conns[c] \in {"normal", "closed"}}

(* stem_candidates *)
Candidates == Normal \ Incoming

TypeOK ==
    /\ pool \in [Tx -> DOMAIN Rank]
    /\ sent \subseteq Held
    /\ conns \in [Conn -> {"absent", "normal", "behind", "closed", "gone"}]
    /\ embargo \subseteq Tx /\ forward \subseteq Tx
    /\ queued \in [Conn -> SUBSET Tx]
    /\ \A h \in Thread : thread[h].at \in {"begin", "stem", "mend", "fluff", "mark"}
    /\ out \subseteq Tx /\ foreign \subseteq Tx
    /\ events \in 0..MaxEvents

Init ==
    /\ pool = [t \in Tx |-> "absent"] /\ sent = {}
    /\ conns = [c \in Conn |-> "absent"]
    /\ fluffing = FALSE /\ stems \in NewStems({})
    /\ embargo = {} /\ forward = {} /\ queued = [c \in Conn |-> {}]
    /\ arrived = {}
    /\ hidden \in BOOLEAN /\ zoneUp = hidden
    /\ thread = [h \in Thread |-> Idle]
    /\ out = {} /\ foreign = {}
    /\ events = 0

Event == events < MaxEvents /\ events' = events + 1

-----------------------------------------------------------------------------
(* The pool. *)

(* How far a copy received as m takes t: a stem copy of one in its stem is a
   loop, and fluffs it. *)
Upgraded(t, m) ==
    LET m2 == IF m = "Stem" /\ pool[t] = "Stem" THEN "Fluff" ELSE m
    IN  IF Rank[pool[t]] < Rank[m2] THEN m2 ELSE pool[t]

(* set_relayed *)
Marked(T, m) ==
    /\ pool' = [t \in Tx |-> IF t \in T \cap Held /\ Rank[pool[t]] < Rank[m] THEN m ELSE pool[t]]
    /\ sent' = sent \cup (T \cap Held)

(* Fault: what was sent once is not offered again. *)
DueForRelay_Once == {t \in Held : pool[t] \notin {"None", "Stem"} /\ t \notin sent}

(* What may be offered for relay: what was sent, in time, and what was not
   unless it is in its stem. *)
DueForRelay == {t \in Held : pool[t] # "None" /\ (t \in sent \/ pool[t] # "Stem")}

-----------------------------------------------------------------------------
(* relay_txs: the first of a thread's jobs, a step between two locks. *)

Current(h) == Head(thread[h].jobs)

Busy(h) == thread[h].jobs # << >>

Onto(h, at) == thread' = [thread EXCEPT ![h].at = at]

(* The current job goes on as `job`. *)
GoOn(h, job, at) == thread' = [thread EXCEPT ![h].jobs = [@ EXCEPT ![1] = job], ![h].at = at]

Finished(h) == Give(h, Tail(thread[h].jobs))

(* Fault: a zone with no connection leaves the job to clearnet peers. *)
ViaZone_WhenUp(how) == how = "Local" /\ hidden /\ zoneUp

(* What this node sends of its own accord goes to the anonymity network when
   one is configured, whether or not it can take it. *)
ViaZone(how) == how = "Local" /\ hidden

ViaStem(how) == how = "Local" \/ (how = "Stem" /\ ~fluffing)

ToZone(h, T) ==
    /\ IF zoneUp THEN Marked(T, "Local") /\ out' = out \cup T
                 ELSE UNCHANGED <<pool, sent, out>>
    /\ Finished(h)

ToPeers(h, T) ==
    /\ GoOn(h, [Current(h) EXCEPT !.txs = T],
               IF ViaStem(Current(h).how) THEN "stem" ELSE "fluff")
    /\ UNCHANGED <<pool, sent, out>>

Begin(h) ==
    /\ Busy(h) /\ thread[h].at = "begin"
    /\ LET j == Current(h)
           T == IF j.how = "Local" THEN j.txs \ embargo ELSE j.txs
       IN  CASE j.how = "Forward" ->
                  /\ forward' = forward \cup T /\ Finished(h)
                  /\ UNCHANGED <<pool, sent, embargo, out>>
             [] j.how = "Seen" ->
                  /\ embargo' = embargo \ T /\ Finished(h)
                  /\ UNCHANGED <<pool, sent, forward, out>>
             [] j.how \notin {"Forward", "Seen"} /\ T = {} ->
                  Finished(h) /\ UNCHANGED <<pool, sent, forward, embargo, out>>
             [] OTHER ->
                  /\ IF ViaZone(j.how) THEN ToZone(h, T) ELSE ToPeers(h, T)
                  /\ UNCHANGED <<forward, embargo>>
    /\ UNCHANGED <<fluffing, stems, queued, arrived, foreign, fixed, events>>

(* What of a stem send is not under an embargo already, for this node's own. *)
Fresh(j) == IF j.how = "Local" THEN j.txs \ embargo ELSE j.txs

(* stem, with the relay lock held. *)
Stem(h) ==
    /\ Busy(h) /\ thread[h].at = "stem"
    /\ LET j == Current(h)
           T == Fresh(j)
       IN  IF T = {}
             THEN Finished(h) /\ UNCHANGED <<stems, embargo>>
             ELSE \E got \in GetStem(stems, j.from) :
                    /\ stems' = got[1]
                    /\ IF got[2] \in Conn /\ conns[got[2]] = "normal"
                         THEN /\ embargo' = embargo \cup T
                              /\ GoOn(h, Job(j.from, T, "Stem"), "mark")
                         ELSE Onto(h, "mend") /\ UNCHANGED embargo
    /\ UNCHANGED <<pool, sent, fluffing, queued, forward, arrived, seen, fixed, events>>

(* The map mended from the connections there are now. *)
Mend(h) ==
    /\ Busy(h) /\ thread[h].at = "mend"
    /\ stems' \in UpdateStems(stems, Candidates)
    /\ thread' = [thread EXCEPT ![h] =
                     [thread[h] EXCEPT !.tries = @ + 1,
                                       !.at = IF thread[h].tries = 0 THEN "stem" ELSE "fluff"]]
    /\ UNCHANGED <<pool, sent, fluffing, embargo, queued, forward, arrived, seen, fixed, events>>

(* The connections a fluff from `from` goes to. *)
Targets(from) == Normal \ {from}

(* What went to nobody is not marked, and waits in the pool. *)
AfterFluff(h) ==
    IF Targets(Current(h).from) = {} THEN Finished(h)
      ELSE GoOn(h, [Current(h) EXCEPT !.how = "Fluff"], "mark")

Fluff(h) ==
    /\ Busy(h) /\ thread[h].at = "fluff"
    /\ LET j == Current(h)
       IN  /\ embargo' = embargo \ j.txs
           /\ queued' = [c \in Conn |-> IF c \in Targets(j.from) THEN queued[c] \cup j.txs
                                                               ELSE queued[c]]
           /\ AfterFluff(h)
    /\ UNCHANGED <<pool, sent, fluffing, stems, forward, arrived, seen, fixed, events>>

(* tx_relayed, once the relay lock is given back. *)
Mark(h) ==
    /\ Busy(h) /\ thread[h].at = "mark"
    /\ Marked(Current(h).txs, Current(h).how)
    /\ Finished(h)
    /\ UNCHANGED <<wire, arrived, seen, fixed, events>>

Run(h) == Begin(h) \/ Stem(h) \/ Mend(h) \/ Fluff(h) \/ Mark(h)

-----------------------------------------------------------------------------
(* Where transactions come from. *)

(* The jobs for a transaction the pool has taken as m. *)
JobsFor(from, t, m) ==
    CASE m \in {"Local", "Stem"} -> <<Job(from, {t}, "Stem")>>
      [] m = "Fluff" -> <<Job(from, {t}, "Fluff")>>
      [] OTHER -> << >>

(* on_new_transactions: c's peer sends t, through a stem or fluffed. *)
Receive(c, t, fluff) ==
    /\ Event
    /\ conns[c] = "normal" /\ ~ Busy(c) /\ t \in Offers[c]
    /\ LET m == Upgraded(t, IF fluff THEN "Fluff" ELSE "Stem")
       IN  IF t \in Legacy
             THEN /\ Give(c, IF fluff THEN <<Job(c, {t}, "Seen")>> ELSE << >>)
                  /\ UNCHANGED pool
             ELSE /\ pool' = [pool EXCEPT ![t] = m]
                  /\ Give(c, JobsFor(c, t, m))
    /\ foreign' = foreign \cup {t}
    /\ out' = IF fluff THEN out \cup {t} ELSE out
    /\ UNCHANGED <<sent, wire, arrived, fixed>>

(* The same over an anonymity zone, which leaves it to the ticker. *)
HiddenReceive(t, fluff) ==
    /\ Event
    /\ hidden /\ t \in HiddenOffers \ Legacy
    /\ LET m == Upgraded(t, IF fluff THEN "Fluff" ELSE "Forward")
       IN  /\ pool' = [pool EXCEPT ![t] = m]
           /\ arrived' = arrived \cup {<<t, IF m = "Fluff" THEN "Fluff" ELSE "Forward">>}
    /\ foreign' = foreign \cup {t}
    /\ out' = IF fluff THEN out \cup {t} ELSE out
    /\ UNCHANGED <<sent, wire, thread, fixed>>

(* send_raw_transaction, from a client that may ask for it to be kept: then
   nothing is relayed, even of one held privately already. *)
Submit(h, t, keep) ==
    /\ Event
    /\ ~ Busy(h) /\ t \in Submits \ Legacy
    /\ pool' = [pool EXCEPT ![t] = Upgraded(t, IF keep THEN "None" ELSE "Local")]
    /\ Give(h, IF keep THEN << >> ELSE <<Job(Self, {t}, "Local")>>)
    /\ UNCHANGED <<sent, wire, arrived, seen, fixed>>

(* relay_tx: a pooled transaction again, in public if it is. *)
RelayTx(h, t) ==
    /\ Event
    /\ ~ Busy(h) /\ t \in Held
    /\ Give(h, <<Job(Self, {t}, IF pool[t] = "Fluff" THEN "Fluff" ELSE "Local")>>)
    /\ UNCHANGED <<pool, sent, wire, arrived, seen, fixed>>

-----------------------------------------------------------------------------
(* relay_tick.  Its parts run in a fixed order on every tick, but one that
   finds no timer run out does nothing: so any order of them is that of some
   ticks, and each is an action of its own. *)

NewEpoch ==
    /\ ~ Busy(Ticker) /\ Event
    /\ fluffing' \in BOOLEAN /\ stems' \in NewStems(Candidates)
    /\ UNCHANGED <<pool, sent, embargo, queued, forward, arrived, thread, seen, fixed>>

TickArrived ==
    /\ ~ Busy(Ticker) /\ arrived # {}
    /\ LET as(how) == Jobs(Self, {t \in Tx : <<t, how>> \in arrived}, how)
       IN  Give(Ticker, as("Forward") \o as("Fluff"))
    /\ arrived' = {}
    /\ UNCHANGED <<pool, sent, wire, seen, fixed, events>>

(* The forwards S have waited long enough. *)
TickForward(S) ==
    /\ ~ Busy(Ticker) /\ S # {} /\ S \subseteq forward
    /\ forward' = forward \ S
    /\ Give(Ticker, <<Job(Self, S, "Stem")>>)
    /\ UNCHANGED <<pool, sent, fluffing, stems, embargo, queued, arrived, seen, fixed, events>>

(* The embargoes of S are over. *)
TickEmbargo(S) ==
    /\ ~ Busy(Ticker) /\ S # {} /\ S \subseteq embargo
    /\ embargo' = embargo \ S
    /\ Give(Ticker, <<Job(Self, S, "Fluff")>>)
    /\ UNCHANGED <<pool, sent, fluffing, stems, queued, forward, arrived, seen, fixed, events>>

(* The queues of C are flushed; what was for a connection that is lost is. *)
TickFlush(C) ==
    /\ ~ Busy(Ticker) /\ C # {} /\ \A c \in C : queued[c] # {}
    /\ queued' = [c \in Conn |-> IF c \in C THEN {} ELSE queued[c]]
    /\ out' = out \cup UNION {queued[c] : c \in {d \in C : conns[d] \in {"normal", "behind"}}}
    /\ UNCHANGED <<pool, sent, fluffing, stems, embargo, forward, arrived, thread, foreign,
                   fixed, events>>

(* The pool's walk offers S. *)
TickWalk(S) ==
    /\ ~ Busy(Ticker) /\ S # {} /\ S \subseteq DueForRelay
    /\ LET of(M) == {t \in S : pool[t] \in M}
       IN  Give(Ticker, Jobs(Self, of({"Local"}), "Local")
                          \o Jobs(Self, of({"Stem", "Fluff"}), "Fluff")
                          \o Jobs(Self, of({"Forward"}), "Forward"))
    /\ UNCHANGED <<pool, sent, wire, arrived, seen, fixed, events>>

-----------------------------------------------------------------------------
(* The environment. *)

Rest == <<pool, sent, wire, arrived, hidden, thread, seen>>

Connect(c) ==
    /\ conns[c] = "absent" /\ conns' = [conns EXCEPT ![c] = "normal"]
    /\ UNCHANGED <<Rest, zoneUp, events>>

FallBehind(c) ==
    /\ conns[c] = "normal" /\ c \notin Steady /\ Event
    /\ conns' = [conns EXCEPT ![c] = "behind"]
    /\ UNCHANGED <<Rest, zoneUp>>

CatchUp(c) ==
    /\ conns[c] = "behind" /\ conns' = [conns EXCEPT ![c] = "normal"]
    /\ UNCHANGED <<Rest, zoneUp, events>>

Close(c) ==
    /\ conns[c] \in {"normal", "behind"} /\ c \notin Steady /\ Event
    /\ conns' = [conns EXCEPT ![c] = "closed"]
    /\ UNCHANGED <<Rest, zoneUp>>

Forget(c) ==
    /\ conns[c] = "closed" /\ ~ Busy(c) /\ conns' = [conns EXCEPT ![c] = "gone"]
    /\ UNCHANGED <<Rest, zoneUp, events>>

ZoneChanges ==
    /\ hidden
    /\ \/ zoneUp /\ Event /\ zoneUp' = FALSE
       \/ ~ zoneUp /\ zoneUp' = TRUE /\ UNCHANGED events
    /\ UNCHANGED <<Rest, conns>>

Mine(t) ==
    /\ t \in Held /\ Event /\ pool' = [pool EXCEPT ![t] = "mined"] /\ sent' = sent \ {t}
    /\ UNCHANGED <<wire, arrived, thread, seen, fixed>>

(* The daemon stops and starts again: the pool is read back, nothing else. *)
Restart ==
    /\ Event
    /\ sent' = {}
    /\ conns' = [c \in Conn |-> "absent"] /\ zoneUp' = hidden
    /\ fluffing' = FALSE /\ stems' \in NewStems({})
    /\ embargo' = {} /\ forward' = {} /\ queued' = [c \in Conn |-> {}] /\ arrived' = {}
    /\ thread' = [h \in Thread |-> Idle]
    /\ UNCHANGED <<pool, hidden, seen>>

Next ==
    \/ \E h \in Thread : Run(h)
    \/ NewEpoch \/ TickArrived
    \/ \E S \in SUBSET Tx : TickForward(S) \/ TickEmbargo(S) \/ TickWalk(S)
    \/ \E C \in SUBSET Conn : TickFlush(C)
    \/ \E c \in Conn : \E t \in Tx : \E fluff \in BOOLEAN : Receive(c, t, fluff)
    \/ \E t \in Tx : \E fluff \in BOOLEAN : HiddenReceive(t, fluff)
    \/ \E h \in Rpc : \E t \in Tx : (\E keep \in BOOLEAN : Submit(h, t, keep)) \/ RelayTx(h, t)
    \/ \E c \in Conn : Connect(c) \/ FallBehind(c) \/ CatchUp(c) \/ Close(c) \/ Forget(c)
    \/ ZoneChanges
    \/ \E t \in Tx : Mine(t)
    \/ Restart

(* Every thread runs on, every timer runs out and is found so, the pool is
   walked every two minutes, the steady peers are connected to, and a zone
   that is down comes back. *)
Fairness ==
    /\ \A h \in Thread : WF_vars(Run(h))
    /\ SF_vars(TickArrived)
    /\ \A t \in Tx : /\ SF_vars(\E S \in SUBSET Tx : t \in S /\ TickForward(S))
                     /\ SF_vars(\E S \in SUBSET Tx : t \in S /\ TickEmbargo(S))
                     /\ SF_vars(\E S \in SUBSET Tx : t \in S /\ TickWalk(S))
    /\ \A c \in Steady : /\ SF_vars(\E C \in SUBSET Conn : c \in C /\ TickFlush(C))
                         /\ WF_vars(Connect(c))
    /\ WF_vars(~ zoneUp /\ ZoneChanges)

Spec == Init /\ [][Next]_vars /\ Fairness

-----------------------------------------------------------------------------
(* Whatever joins, closes or falls behind, the stem slots hold different
   connections, every source is sent to a slot there is, and each slot's count
   is that of its sources. *)
StemsOK == TypeOK /\ StemsSound(stems)

(* With an anonymity network configured, a transaction that came from no peer
   is sent to no clearnet peer. *)
HiddenStaysHidden ==
    hidden => \A t \in Tx \ foreign :
                 t \notin embargo /\ \A c \in Conn : t \notin queued[c]

(* Between epochs, and while the process lives, a source whose stem connection
   may still be used keeps that connection, whichever other stem is found gone,
   mended or taken: `update` replaces only what went away. *)
PathsKept ==
    [][~ (NewEpoch \/ Restart) =>
          \A s \in DOMAIN stems.sources :
             LET stem == stems.out[stems.sources[s]]
             IN  stem \in Candidates =>
                    HasStem(stems', s) /\ stems'.out[stems'.sources[s]] = stem]_vars

(* In its stem and unsent, in no thread's hands and under no timer: nothing
   will send it, for `due_for_relay` passes over it.  It was read back in its
   stem, or it came through one when no other peer could take it. *)
Stranded(t) ==
    /\ pool[t] = "Stem" /\ t \notin sent
    /\ t \notin embargo \cup forward
    /\ \A h \in Thread : \A i \in DOMAIN thread[h].jobs : t \notin thread[h].jobs[i].txs

(* Every transaction there is to relay reaches the network in the end, unless
   it is stranded. *)
GoesOut == \A t \in Tx : <>[](t \in Held /\ pool[t] # "None" => t \in out \/ Stranded(t))

(* `fluff` and `relayed_at`, as their comments have it: what was sent to nobody
   is offered until a peer can take it, and after a restart everything is. *)
AllGoOut == \A t \in Tx : <>[](t \in Held /\ pool[t] # "None" => t \in out)
=============================================================================
