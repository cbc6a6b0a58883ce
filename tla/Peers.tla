------------------------------- MODULE Peers --------------------------------
(***************************************************************************)
(* How wow-p2p's node finds, keeps and refuses peers (node.rs: inbound,    *)
(* ping_back, make_connections, pick_candidate, gray_housekeeping,         *)
(* run_connection, ban, stop; addressbook.rs through PeerLists).           *)
(*                                                                         *)
(* The maintenance thread plans a dial and starts a thread for it; a dial  *)
(* leaves `dialing`, then files what it learned, then registers its        *)
(* connection, each under another lock.  Incoming connections are checked  *)
(* when they are accepted and registered after their handshake.  Every     *)
(* step that takes a lock is an action.                                    *)
(***************************************************************************)
EXTENDS PeerLists, Integers

CONSTANTS
    IdOf,         \* IdOf[a]: the node that answers at an address
    ListOf,       \* ListOf[a]: the peer list that node sends
    Steady,       \* addresses that always answer
    Seeds,        \* the seed nodes, in order
    BanList,      \* hosts the operator's --ban-list bans for good
    OutPeers,     \* the outgoing target
    InPeers,      \* the limit of incoming connections
    MaxDialing,   \* MAX_DIALING
    Anchors,      \* ANCHOR_CONNECTIONS
    FailsBeforeBlock, \* FAILS_BEFORE_BLOCK
    Callers,      \* nodes that dial this one, each from the host of its address
    MaxEvents     \* a bound: how often peers and operator act on their own

ASSUME PeersAssumption ==
    /\ IdOf \in [Addr -> Addr] /\ ListOf \in [Addr -> Seq(Addr)]
    /\ Steady \subseteq Addr /\ Callers \subseteq Addr /\ Seeds \in Seq(Addr)
    /\ {OutPeers, InPeers, MaxDialing, FailsBeforeBlock} \subseteq Nat \ {0}
    /\ Anchors \in Nat /\ MaxEvents \in Nat

Host == {HostOf[a] : a \in Addr}

VARIABLES
    book,     \* the address book
    saved,    \* the state file
    dialing,  \* addresses being dialled
    tried,    \* addresses dialled within RETRY_AFTER
    failed,   \* hosts a dial to which failed within the hour
    fails,    \* malformed handshakes counted against each host
    out,      \* out[a]: how far the thread dialling a has come
    check,    \* check[a]: whether the gray list's check of a is under way
    in,       \* in[a]: how far an incoming connection of a's node has come
    pings,    \* addresses being pinged back
    conns,    \* the registered connections
    reached,  \* history: addresses that answered this node
    events

vars == << book, saved, dialing, tried, failed, fails, out, check, in, pings, conns,
           reached, events >>

Conn == [id : Addr, addr : Addr, incoming : BOOLEAN, closed : BOOLEAN]

Outgoing == {c \in conns : ~ c.incoming}
Incoming == {c \in conns : c.incoming}

Happens == events < MaxEvents /\ events' = events + 1

-----------------------------------------------------------------------------
(* Dialling out. *)

Banned(h) == h \in book.bans \cup BanList

(* What make_connections never picks: addresses in use or tried just now. *)
Taken == {c.addr : c \in Outgoing} \cup dialing \cup tried

(* `unusable` of pick_candidate, for an address of a list. *)
Usable == {a \in Addr \ Taken :
              /\ ~ Banned(HostOf[a])
              /\ HostOf[a] \notin failed
              /\ \A c \in conns : c.id # IdOf[a] \/ HostOf[c.addr] # HostOf[a]}

(* The first seed node that is not in use or just tried, banned or not. *)
SeedChoice ==
    LET free == {k \in DOMAIN Seeds : Seeds[k] \notin Taken}
    IN IF free = {} THEN {} ELSE {Seeds[Min(free)]}

(* `pick_candidate`: an anchor while there are few connections, then one list
   and the other, then a seed node.  Which list comes first goes by how many
   of the outgoing connections there are. *)
Candidates ==
    LET anchors == IF Cardinality(Outgoing) < Anchors THEN book.anchors \cap Usable ELSE {}
        white == Pick(book.white, Usable)
        gray == Pick(GrayAddrs(book), Usable)
        first == IF Cardinality(Outgoing) < (OutPeers * 70) \div 100 THEN white ELSE gray
    IN IF anchors # {} THEN anchors
       ELSE IF first # {} THEN first
       ELSE IF white \cup gray # {} THEN white \cup gray
       ELSE SeedChoice

Wanting == Cardinality(Outgoing) + Cardinality(dialing) < OutPeers

(* `make_connections`: a candidate whose host is banned is passed over, and
   nothing is noted of it.  The thread that is to dial may not start: then the
   address leaves `dialing` again, and its host has not failed.  (A gray check
   that does not start leaves nothing behind, and is no step.) *)
MakeConnections ==
    /\ Wanting /\ Cardinality(dialing) < MaxDialing
    /\ \E a \in Candidates :
          /\ ~ Banned(HostOf[a]) /\ out[a] = "none"
          /\ tried' = tried \cup {a}
          /\ \/ /\ dialing' = dialing \cup {a}
                /\ out' = [out EXCEPT ![a] = "dialing"]
                /\ UNCHANGED events
             \/ Happens /\ UNCHANGED << dialing, out >>
    /\ UNCHANGED << book, saved, failed, fails, check, in, pings, conns, reached >>

(* Fault: a dial that failed is left among the dials in flight. *)
DialFails_StillDialing(a) ==
    /\ out[a] = "dialing" /\ a \notin Steady
    /\ failed' = failed \cup {HostOf[a]}
    /\ out' = [out EXCEPT ![a] = "none"]
    /\ UNCHANGED << book, saved, dialing, tried, fails, check, in, pings, conns, reached,
                    events >>

(* The dial fails: the host is left alone for an hour. *)
DialFails(a) ==
    /\ out[a] = "dialing" /\ a \notin Steady
    /\ dialing' = dialing \ {a}
    /\ failed' = failed \cup {HostOf[a]}
    /\ out' = [out EXCEPT ![a] = "none"]
    /\ UNCHANGED << book, saved, tried, fails, check, in, pings, conns, reached, events >>

(* The book with a's peer list, from which the hosts of --ban-list are kept out
   like other banned ones. *)
Merged(a) == MergePeerlist(book, ListOf[a], failed \cup BanList)

(* An answer's peer list is merged into the book and then the peer itself
   added. *)
Filed(a) == \E merged \in {Merged(a)} : book' = AddWhite(merged, a, TRUE)

(* The handshake is answered: the address leaves `dialing`, and the answer's
   peer list and the peer itself are filed.  (Two locks, one after the other;
   what is decided in between could as well have been decided before.) *)
DialAnswered(a) ==
    /\ out[a] = "dialing"
    /\ dialing' = dialing \ {a}
    /\ Filed(a)
    /\ out' = [out EXCEPT ![a] = "answered"]
    /\ reached' = reached \cup {a}
    /\ UNCHANGED << saved, tried, failed, fails, check, in, pings, conns, events >>

(* Fault: the connections are not looked at again when one is registered. *)
Registered_Unlooked(a, incoming) ==
    conns \cup {[id |-> IdOf[a], addr |-> a, incoming |-> incoming, closed |-> FALSE]}

(* The start of `run_connection`: the same node twice is one too many. *)
Registered(a, incoming) ==
    IF \E c \in conns : c.id = IdOf[a] THEN conns
    ELSE conns \cup {[id |-> IdOf[a], addr |-> a, incoming |-> incoming, closed |-> FALSE]}

DialRegisters(a) ==
    /\ out[a] = "answered"
    /\ conns' = Registered(a, FALSE)
    /\ out' = [out EXCEPT ![a] = "none"]
    /\ UNCHANGED << book, saved, dialing, tried, failed, fails, check, in, pings, reached,
                    events >>

(* Fault: a peer that called counts as one this node has reached. *)
TimedSynced_Caller(c) ==
    /\ ~ c.closed
    /\ Filed(c.addr)
    /\ UNCHANGED << saved, dialing, tried, failed, fails, out, check, in, pings, conns, reached,
                    events >>

(* A timed sync is answered, by a peer this node dialled or by one that called:
   the list of either is merged, and only the former is seen just now. *)
TimedSynced(c) ==
    /\ ~ c.closed
    /\ IF c.incoming THEN book' = Merged(c.addr) ELSE Filed(c.addr)
    /\ UNCHANGED << saved, dialing, tried, failed, fails, out, check, in, pings, conns, reached,
                    events >>

-----------------------------------------------------------------------------
(* The check of the gray list, while connections are not the first concern:
   a check is over long before the next one is due. *)

CheckGray(a) ==
    /\ conns # {} /\ \A b \in Addr : ~ check[b]
    /\ a \in Gray(book) \ dialing
    /\ dialing' = dialing \cup {a}
    /\ check' = [check EXCEPT ![a] = TRUE]
    /\ UNCHANGED << book, saved, tried, failed, fails, out, in, pings, conns, reached, events >>

CheckAnswered(a) ==
    /\ check[a]
    /\ dialing' = dialing \ {a}
    /\ check' = [check EXCEPT ![a] = FALSE]
    /\ Filed(a)
    /\ reached' = reached \cup {a}
    /\ UNCHANGED << saved, tried, failed, fails, out, in, pings, conns, events >>

CheckFails(a) ==
    /\ check[a] /\ a \notin Steady
    /\ dialing' = dialing \ {a}
    /\ check' = [check EXCEPT ![a] = FALSE]
    /\ failed' = failed \cup {HostOf[a]}
    /\ book' = RemoveGray(book, a)
    /\ UNCHANGED << saved, tried, fails, out, in, pings, conns, reached, events >>

-----------------------------------------------------------------------------
(* Being dialled. *)

(* A connection is accepted, if its host is not banned and there is room. *)
Accept(a) ==
    /\ a \in Callers /\ in[a] = "none"
    /\ ~ Banned(HostOf[a])
    /\ Cardinality(Incoming) < InPeers
    /\ \A c \in Incoming : HostOf[c.addr] # HostOf[a]
    /\ in' = [in EXCEPT ![a] = "accepted"]
    /\ Happens
    /\ UNCHANGED << book, saved, dialing, tried, failed, fails, out, check, pings, conns,
                    reached >>

(* Its handshake is malformed, which is counted; the tenth bans the host. *)
Malformed(a) ==
    /\ in[a] = "accepted"
    /\ in' = [in EXCEPT ![a] = "none"]
    /\ IF fails[HostOf[a]] + 1 >= FailsBeforeBlock
       THEN /\ fails' = [fails EXCEPT ![HostOf[a]] = 0]
            /\ book' = [book EXCEPT !.bans = @ \cup {HostOf[a]}]
       ELSE /\ fails' = [fails EXCEPT ![HostOf[a]] = @ + 1]
            /\ UNCHANGED book
    /\ UNCHANGED << saved, dialing, tried, failed, out, check, pings, conns, reached, events >>

(* Its handshake is read: a node that is connected is refused, another is
   answered and its address pinged back. *)
Handshake(a) ==
    /\ in[a] = "accepted"
    /\ IF \E c \in conns : c.id = IdOf[a]
       THEN /\ in' = [in EXCEPT ![a] = "none"]
            /\ UNCHANGED pings
       ELSE /\ in' = [in EXCEPT ![a] = "answered"]
            /\ pings' = pings \cup {a}
    /\ UNCHANGED << book, saved, dialing, tried, failed, fails, out, check, conns, reached,
                    events >>

InRegisters(a) ==
    /\ in[a] = "answered"
    /\ conns' = Registered(a, TRUE)
    /\ in' = [in EXCEPT ![a] = "none"]
    /\ UNCHANGED << book, saved, dialing, tried, failed, fails, out, check, pings, reached,
                    events >>

(* `ping_back`: the address is white if it answers as the node that called. *)
PingBack(a) ==
    /\ a \in pings
    /\ pings' = pings \ {a}
    /\ \/ /\ book' = AddWhite(book, a, FALSE)
          /\ reached' = reached \cup {a}
       \/ a \notin Steady /\ UNCHANGED << book, reached >>
    /\ UNCHANGED << saved, dialing, tried, failed, fails, out, check, in, conns, events >>

-----------------------------------------------------------------------------
(* Connections end, hosts are banned, time passes. *)

(* A closed connection leaves, and an open one whose peer goes away. *)
Ends(c) ==
    /\ c \in conns
    /\ IF c.closed THEN UNCHANGED events ELSE Happens
    /\ conns' = conns \ {c}
    /\ UNCHANGED << book, saved, dialing, tried, failed, fails, out, check, in, pings, reached >>

(* `ban`, by the operator or for a fault: every connection it covers is
   closed. *)
Ban(h) ==
    /\ Happens
    /\ book' = [book EXCEPT !.bans = @ \cup {h}]
    /\ conns' = {IF HostOf[c.addr] = h THEN [c EXCEPT !.closed = TRUE] ELSE c : c \in conns}
    /\ UNCHANGED << saved, dialing, tried, failed, fails, out, check, in, pings, reached >>

(* A ban ends, or is lifted. *)
BanEnds(h) ==
    /\ h \in book.bans
    /\ book' = [book EXCEPT !.bans = @ \ {h}]
    /\ fails' = [fails EXCEPT ![h] = 0]
    /\ UNCHANGED << saved, dialing, tried, failed, out, check, in, pings, conns, reached, events >>

(* Fault: an address that was dialled once is never dialled again. *)
RetryAfter_Never(a) == a \in tried /\ UNCHANGED vars

(* RETRY_AFTER has passed since a was dialled. *)
RetryAfter(a) ==
    /\ a \in tried
    /\ tried' = tried \ {a}
    /\ UNCHANGED << book, saved, dialing, failed, fails, out, check, in, pings, conns, reached,
                    events >>

(* Nothing is being dialled, and there is nothing that could be.  An hour is
   many times what it takes to dial the few addresses of an instance, so by the
   time it has passed this has been so. *)
Exhausted ==
    /\ \A a \in Addr : out[a] = "none" /\ ~ check[a]
    /\ ~ (Wanting /\ \E a \in Candidates : ~ Banned(HostOf[a]))

(* FAILED_ADDR_FORGET_SECONDS have passed. *)
ForgetFailures ==
    /\ failed # {} /\ Exhausted
    /\ failed' = {}
    /\ UNCHANGED << book, saved, dialing, tried, fails, out, check, in, pings, conns, reached,
                    events >>

-----------------------------------------------------------------------------
(* The state file. *)

(* `save_state`, every so often (and here only while the file may still be
   read back). *)
Save ==
    /\ events < MaxEvents
    /\ saved' = book
    /\ UNCHANGED << book, dialing, tried, failed, fails, out, check, in, pings, conns, reached,
                    events >>

(* The process starts over from what the file has. *)
StartFrom(file) ==
    /\ book' = ReadBack(file)
    /\ saved' = file
    /\ dialing' = {} /\ tried' = {} /\ failed' = {} /\ pings' = {} /\ conns' = {}
    /\ fails' = [h \in Host |-> 0]
    /\ out' = [a \in Addr |-> "none"]
    /\ in' = [a \in Addr |-> "none"]
    /\ check' = [a \in Addr |-> FALSE]
    /\ UNCHANGED reached

(* `stop`: the outgoing connections are remembered as anchors. *)
Stop == Happens /\ StartFrom([book EXCEPT !.anchors = {c.addr : c \in Outgoing}])

Crash == Happens /\ StartFrom(saved)

-----------------------------------------------------------------------------
Init ==
    /\ book = EmptyBook /\ saved = EmptyBook
    /\ dialing = {} /\ tried = {} /\ failed = {} /\ pings = {} /\ conns = {} /\ reached = {}
    /\ fails = [h \in Host |-> 0]
    /\ out = [a \in Addr |-> "none"]
    /\ in = [a \in Addr |-> "none"]
    /\ check = [a \in Addr |-> FALSE]
    /\ events = 0

Next ==
    \/ MakeConnections
    \/ \E a \in Addr : DialFails(a)
    \/ \E a \in Addr : DialAnswered(a)
    \/ \E a \in Addr : DialRegisters(a)
    \/ \E c \in conns : TimedSynced(c)
    \/ \E a \in Addr : CheckGray(a)
    \/ \E a \in Addr : CheckAnswered(a)
    \/ \E a \in Addr : CheckFails(a)
    \/ \E a \in Callers : Accept(a)
    \/ \E a \in Callers : Malformed(a)
    \/ \E a \in Callers : Handshake(a)
    \/ \E a \in Callers : InRegisters(a)
    \/ \E a \in Callers : PingBack(a)
    \/ \E c \in conns : Ends(c)
    \/ \E h \in Host : Ban(h)
    \/ \E h \in Host : BanEnds(h)
    \/ \E a \in Addr : RetryAfter(a)
    \/ ForgetFailures
    \/ Save
    \/ Stop
    \/ Crash

(* The maintenance thread never stops turning, four times a second, while the
   gray list is checked once a minute and a check lasts seconds: it always
   finds a turn without one.  Dials end at the latest with their timeouts, a
   closed connection's thread notices, and time passes. *)
Fairness ==
    /\ SF_vars(MakeConnections)
    /\ WF_vars(\E a \in Addr : DialAnswered(a) \/ DialFails(a) \/ DialRegisters(a))
    /\ WF_vars(\E a \in Addr : CheckAnswered(a) \/ CheckFails(a))
    /\ WF_vars(\E c \in conns : c.closed /\ Ends(c))
    /\ WF_vars(\E h \in Host : BanEnds(h))
    /\ \A a \in Addr : WF_vars(RetryAfter(a))
    /\ SF_vars(ForgetFailures)

Spec == Init /\ [][Next]_vars /\ Fairness

-----------------------------------------------------------------------------
(* Properties. *)

TypeOK ==
    /\ White(book) \subseteq Addr /\ Len(book.white) <= WhiteLimit
    /\ Gray(book) \subseteq Addr /\ Len(book.gray) <= GrayLimit
    /\ book.anchors \subseteq Addr /\ book.bans \subseteq Host
    /\ dialing \subseteq Addr /\ Cardinality(dialing) <= MaxDialing + 1
    /\ tried \subseteq Addr /\ failed \subseteq Host /\ pings \subseteq Addr
    /\ fails \in [Host -> 0..(FailsBeforeBlock - 1)]
    /\ out \in [Addr -> {"none", "dialing", "answered"}]
    /\ in \in [Addr -> {"none", "accepted", "answered"}]
    /\ check \in [Addr -> BOOLEAN]
    /\ conns \subseteq Conn /\ reached \subseteq Addr
    /\ events \in 0..MaxEvents

(* No node is connected twice, although it may be dialled while it dials:
   the look at the connections and the entry among them are one step, and
   the earlier refusal in the handshake alone would not do. *)
OnePerNode == \A c, d \in conns : c.id = d.id => c = d

(* Nothing a stranger says makes an address white, nor do trimming, a restart
   or a crash: this node has reached every address of the white list itself. *)
WhiteIsVerified == White(book) \subseteq reached

(* An address is on one list at most, a host once on the white list, and what
   this node has seen outlasts hearsay in the gray one. *)
ListsApart ==
    /\ White(book) \cap Gray(book) = {}
    /\ \A j, k \in DOMAIN book.white :
          HostOf[book.white[j]] = HostOf[book.white[k]] => j = k
    /\ \A j, k \in DOMAIN book.gray :
          /\ book.gray[j].addr = book.gray[k].addr => j = k
          /\ book.gray[j].seen /\ j < k => book.gray[k].seen

(* The address book at any moment, whoever sent what and in which order: within
   its limits, each address on one list, and the white list verified. *)
BookSound == TypeOK /\ WhiteIsVerified /\ ListsApart

(* An address counts as being dialled for exactly as long as a thread dials
   it: none is left behind to be passed over for good and to use up the dials
   that may be in flight. *)
DialingExact == dialing = {a \in Addr : out[a] = "dialing" \/ check[a]}

(* Whatever ended, failed, was banned or restarted: in the end the node has
   the outgoing connections it wants, or is connected with every node that is
   always there and that it knows of as a seed node. *)
FindsPeers ==
    <>[](\/ Cardinality(Outgoing) >= OutPeers
         \/ \A k \in DOMAIN Seeds : Seeds[k] \in Steady =>
                \/ HostOf[Seeds[k]] \in BanList
                \/ \E c \in conns : c.id = IdOf[Seeds[k]])
=============================================================================
