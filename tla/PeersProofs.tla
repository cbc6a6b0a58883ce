---------------------------- MODULE PeersProofs ----------------------------
(***************************************************************************)
(* Proofs about Peers, for any addresses, hosts, seed nodes and limits:    *)
(* the addresses being dialled are those some thread dials, no node is     *)
(* connected twice, and the address book is in order.                      *)
(*                                                                         *)
(* The first two need nothing of what is in the address book: whatever the *)
(* lists hold, what is picked from them is not in use.  The third is an    *)
(* induction over the book's operations: trimming, `retain` and joining    *)
(* keep the lists in order, so each operation does, and so do the steps.   *)
(***************************************************************************)
EXTENDS Peers, TLAPS, NaturalsInduction, WellFoundedInduction, FiniteSetTheorems

LEMMA LeastIndex ==
    ASSUME NEW T \in SUBSET Nat, T # {}
    PROVE  \E x \in T : \A y \in T : x <= y
  <1> DEFINE R == OpToRel(<, Nat)
  <1>1. IsWellFoundedOn(R, Nat)
    BY NatLessThanWellFounded, Zenon
  <1>2. \A x, y \in Nat : x < y => <<x, y>> \in R
    BY DEF OpToRel
  <1> HIDE DEF R
  <1>3. PICK x \in T : \A y \in T : ~ (<<y, x>> \in R)
    BY <1>1, WFMin
  <1>4. \A y \in T : ~ (y < x)
    BY <1>2, <1>3
  <1>5. QED
    BY <1>4

(* What `pick_candidate` answers is an address nobody uses or just tried,
   be it an anchor, from a list or a seed node. *)
LEMMA CandidatesFree == Candidates \subseteq Addr \ Taken
  <1>1. Usable \subseteq Addr \ Taken
    BY DEF Usable
  <1>2. \A list, usable : Pick(list, usable) \subseteq usable
    BY DEF Pick
  <1>3. SeedChoice \subseteq Addr \ Taken
    <2> DEFINE free == {k \in DOMAIN Seeds : Seeds[k] \notin Taken}
    <2>1. Seeds \in Seq(Addr)
      BY PeersAssumption
    <2>2. free \in SUBSET Nat
      BY <2>1
    <2>3. CASE free = {}
      BY <2>3 DEF SeedChoice
    <2>4. CASE free # {}
      <3>1. \E x \in free : \A y \in free : x <= y
        <4> HIDE DEF free
        <4>1. QED
          BY <2>2, <2>4, LeastIndex
      <3>2. Min(free) \in free
        <4> HIDE DEF free
        <4>1. QED
          BY <3>1 DEF Min
      <3>3. Seeds[Min(free)] \in Addr \ Taken
        BY <3>2, <2>1
      <3>4. SeedChoice = {Seeds[Min(free)]}
        BY <2>4 DEF SeedChoice
      <3>5. QED
        BY <3>3, <3>4
    <2>5. QED
      BY <2>3, <2>4
  <1>4. QED
    BY <1>1, <1>2, <1>3 DEF Candidates

-----------------------------------------------------------------------------
(* What is being dialled. *)

Threads ==
    /\ out \in [Addr -> {"none", "dialing", "answered"}]
    /\ check \in [Addr -> BOOLEAN]

(* Two threads never dial one address: each takes it only if it is not among
   the addresses being dialled, and then puts it there. *)
DialedByOne == \A a \in Addr : ~ (out[a] = "dialing" /\ check[a])

DialInv == Threads /\ DialingExact /\ DialedByOne

LEMMA DialInit == Init => DialInv
  BY DEF Init, DialInv, Threads, DialingExact, DialedByOne

LEMMA DialNext == DialInv /\ [Next]_vars => DialInv'
  <1> SUFFICES ASSUME DialInv, [Next]_vars PROVE DialInv'
    OBVIOUS
  <1> USE DEF DialInv, Threads, DialingExact, DialedByOne
  <1>1. CASE MakeConnections
    <2>1. PICK a \in Candidates :
             /\ out[a] = "none"
             /\ \/ dialing' = dialing \cup {a} /\ out' = [out EXCEPT ![a] = "dialing"]
                \/ UNCHANGED << dialing, out >>
      BY <1>1 DEF MakeConnections
    <2>2. a \in Addr /\ a \notin dialing
      BY CandidatesFree DEF Taken
    <2>3. check' = check
      BY <1>1 DEF MakeConnections
    <2>4. CASE dialing' = dialing \cup {a} /\ out' = [out EXCEPT ![a] = "dialing"]
      BY <2>1, <2>2, <2>3, <2>4
    <2>5. CASE UNCHANGED << dialing, out >>
      BY <2>3, <2>5
    <2>6. QED
      BY <2>1, <2>4, <2>5
  <1>2. ASSUME NEW a \in Addr, DialFails(a) PROVE DialInv'
    BY <1>2 DEF DialFails
  <1>3. ASSUME NEW a \in Addr, DialAnswered(a) PROVE DialInv'
    BY <1>3 DEF DialAnswered
  <1>4. ASSUME NEW a \in Addr, DialRegisters(a) PROVE DialInv'
    BY <1>4 DEF DialRegisters
  <1>5. ASSUME NEW a \in Addr, CheckGray(a) PROVE DialInv'
    BY <1>5 DEF CheckGray
  <1>6. ASSUME NEW a \in Addr, CheckAnswered(a) PROVE DialInv'
    BY <1>6 DEF CheckAnswered
  <1>7. ASSUME NEW a \in Addr, CheckFails(a) PROVE DialInv'
    BY <1>7 DEF CheckFails
  <1>8. ASSUME NEW file, StartFrom(file) PROVE DialInv'
    BY <1>8 DEF StartFrom
  <1>9. ASSUME UNCHANGED << dialing, out, check >> PROVE DialInv'
    BY <1>9
  <1>10. CASE Stop \/ Crash
    BY <1>8, <1>10 DEF Stop, Crash
  <1>11. CASE \E c \in conns : TimedSynced(c) \/ Ends(c)
    BY <1>9, <1>11 DEF TimedSynced, Ends
  <1>12. CASE \E a \in Callers : Accept(a) \/ Malformed(a) \/ Handshake(a) \/ InRegisters(a)
                                   \/ PingBack(a)
    BY <1>9, <1>12 DEF Accept, Malformed, Handshake, InRegisters, PingBack
  <1>13. CASE (\E h \in Host : Ban(h) \/ BanEnds(h)) \/ (\E a \in Addr : RetryAfter(a))
               \/ ForgetFailures \/ Save
    BY <1>9, <1>13 DEF Ban, BanEnds, RetryAfter, ForgetFailures, Save
  <1>14. CASE UNCHANGED vars
    BY <1>9, <1>14 DEF vars
  <1>15. QED
    BY <1>1, <1>2, <1>3, <1>4, <1>5, <1>6, <1>7, <1>10, <1>11, <1>12, <1>13, <1>14 DEF Next

(* However dials fail, are answered or overtaken by a restart, an address is
   among those being dialled exactly while one thread dials it
   (make_connections, gray_housekeeping). *)
THEOREM DialingExactHolds == Spec => []DialingExact
  <1>1. Init => DialInv
    BY DialInit
  <1>2. DialInv /\ [Next]_vars => DialInv'
    BY DialNext
  <1>3. DialInv => DialingExact
    BY DEF DialInv
  <1>4. QED
    BY <1>1, <1>2, <1>3, PTL DEF Spec

-----------------------------------------------------------------------------
(* Connections. *)

OneInv == conns \subseteq Conn /\ OnePerNode

(* `run_connection` looks at the connections and joins them in one step. *)
LEMMA RegisteredOnce ==
    ASSUME OneInv, NEW a \in Addr, NEW incoming \in BOOLEAN,
           conns' = Registered(a, incoming)
    PROVE  OneInv'
  <1>1. CASE \E c \in conns : c.id = IdOf[a]
    BY <1>1 DEF OneInv, OnePerNode, Registered
  <1>2. CASE ~ \E c \in conns : c.id = IdOf[a]
    <2> DEFINE n == [id |-> IdOf[a], addr |-> a, incoming |-> incoming, closed |-> FALSE]
    <2>1. n \in Conn /\ n.id = IdOf[a]
      BY PeersAssumption DEF Conn
    <2>2. conns' = conns \cup {n}
      BY <1>2 DEF Registered
    <2>3. QED
      <3> HIDE DEF n
      <3>1. QED
        BY <1>2, <2>1, <2>2 DEF OneInv, OnePerNode
  <1>3. QED
    BY <1>1, <1>2

(* `ban` closes connections where they stand. *)
LEMMA BanKeepsNodes ==
    ASSUME OneInv, NEW h,
           conns' = {IF HostOf[c.addr] = h THEN [c EXCEPT !.closed = TRUE] ELSE c : c \in conns}
    PROVE  OneInv'
  <1> DEFINE Closed(c) == IF HostOf[c.addr] = h THEN [c EXCEPT !.closed = TRUE] ELSE c
  <1>1. \A c \in Conn : Closed(c) \in Conn /\ Closed(c).id = c.id
    BY DEF Conn
  <1>2. conns' = {Closed(c) : c \in conns}
    OBVIOUS
  <1> HIDE DEF Closed
  <1>3. \A c, d \in conns : Closed(c).id = Closed(d).id => Closed(c) = Closed(d)
    BY <1>1 DEF OneInv, OnePerNode
  <1>4. QED
    BY <1>1, <1>2, <1>3 DEF OneInv, OnePerNode

LEMMA OneInit == Init => OneInv
  BY DEF Init, OneInv, OnePerNode

LEMMA OneNext == OneInv /\ [Next]_vars => OneInv'
  <1> SUFFICES ASSUME OneInv, [Next]_vars PROVE OneInv'
    OBVIOUS
  <1>1. ASSUME NEW a \in Addr, DialRegisters(a) PROVE OneInv'
    BY <1>1, RegisteredOnce DEF DialRegisters
  <1>2. ASSUME NEW a \in Callers, InRegisters(a) PROVE OneInv'
    BY <1>2, RegisteredOnce, PeersAssumption DEF InRegisters
  <1>3. ASSUME NEW h \in Host, Ban(h) PROVE OneInv'
    BY <1>3, BanKeepsNodes DEF Ban
  <1>4. ASSUME conns' \subseteq conns PROVE OneInv'
    BY <1>4 DEF OneInv, OnePerNode
  <1>5. CASE \E c \in conns : TimedSynced(c) \/ Ends(c)
    BY <1>4, <1>5 DEF TimedSynced, Ends
  <1>6. CASE Stop \/ Crash
    BY <1>4, <1>6 DEF Stop, Crash, StartFrom
  <1>7. CASE \E a \in Addr : DialFails(a) \/ DialAnswered(a) \/ CheckGray(a)
                               \/ CheckAnswered(a) \/ CheckFails(a)
    BY <1>4, <1>7 DEF DialFails, DialAnswered, CheckGray, CheckAnswered, CheckFails
  <1>8. CASE \E a \in Callers : Accept(a) \/ Malformed(a) \/ Handshake(a) \/ PingBack(a)
    BY <1>4, <1>8 DEF Accept, Malformed, Handshake, PingBack
  <1>9. CASE MakeConnections \/ (\E h \in Host : BanEnds(h)) \/ (\E a \in Addr : RetryAfter(a))
               \/ ForgetFailures
               \/ Save \/ UNCHANGED vars
    BY <1>4, <1>9 DEF MakeConnections, BanEnds, RetryAfter, ForgetFailures, Save, vars
  <1>10. QED
    BY <1>1, <1>2, <1>3, <1>5, <1>6, <1>7, <1>8, <1>9 DEF Next

(* Two connections are never to the same node, although it may call while it
   is called and several threads register connections (run_connection,
   inbound, ban). *)
THEOREM OnePerNodeHolds == Spec => []OnePerNode
  <1>1. Init => OneInv
    BY OneInit
  <1>2. OneInv /\ [Next]_vars => OneInv'
    BY OneNext
  <1>3. OneInv => OnePerNode
    BY DEF OneInv
  <1>4. QED
    BY <1>1, <1>2, <1>3, PTL DEF Spec
-----------------------------------------------------------------------------
(* Lists.  The recursions by which Retained, GrayAll and WhiteAll are defined
   have solutions. *)

Keeping(s, S, f, m) ==
    f = [k \in 0..m |-> IF k = 0 THEN << >> ELSE IF s[k] \in S THEN Append(f[k - 1], s[k]) ELSE f[k - 1]]

LEMMA KeepingExists ==
    ASSUME NEW s, NEW S, NEW m \in Nat
    PROVE  \E f : Keeping(s, S, f, m)
  <1> DEFINE T == {n \in Nat : ~ \E f : Keeping(s, S, f, n)}
  <1>1. SUFFICES ASSUME T # {} PROVE FALSE
    OBVIOUS
  <1>2. PICK n \in T : \A k \in T : n <= k
    <2>1. T \in SUBSET Nat
      OBVIOUS
    <2> HIDE DEF T
    <2>2. QED
      BY <1>1, <2>1, LeastIndex
  <1>3. n # 0
    <2>1. SUFFICES ASSUME n = 0 PROVE FALSE
      OBVIOUS
    <2>2. PICK f : f = [k \in {0} |-> << >>]
      OBVIOUS
    <2>3. 0..0 = {0}
      OBVIOUS
    <2>4. f = [k \in {0} |-> IF k = 0 THEN << >> ELSE IF s[k] \in S THEN Append(f[k - 1], s[k]) ELSE f[k - 1]]
      BY <2>2
    <2>5. Keeping(s, S, f, 0)
      BY <2>3, <2>4 DEF Keeping
    <2>6. QED
      BY <1>2, <2>1, <2>5
  <1>4. n - 1 \in Nat /\ n - 1 \notin T
    BY <1>2, <1>3
  <1>5. PICK f : Keeping(s, S, f, n - 1)
    BY <1>4
  <1>6. PICK g : g = [k \in 0..n |-> IF k < n THEN f[k] ELSE IF s[n] \in S THEN Append(f[n - 1], s[n]) ELSE f[n - 1]]
    OBVIOUS
  <1>7. \A k \in 0..n : g[k] = IF k = 0 THEN << >> ELSE IF s[k] \in S THEN Append(g[k - 1], s[k]) ELSE g[k - 1]
    <2>1. SUFFICES ASSUME NEW k \in 0..n
                   PROVE  g[k] = IF k = 0 THEN << >> ELSE IF s[k] \in S THEN Append(g[k - 1], s[k]) ELSE g[k - 1]
      OBVIOUS
    <2>2. \A j \in 0..(n - 1) : g[j] = f[j]
      BY <1>2, <1>6
    <2>3. CASE k < n
      <3>1. k \in 0..(n - 1) /\ (k # 0 => k - 1 \in 0..(n - 1))
        BY <1>2, <2>3
      <3>2. f[k] = IF k = 0 THEN << >> ELSE IF s[k] \in S THEN Append(f[k - 1], s[k]) ELSE f[k - 1]
        BY <1>5, <3>1 DEF Keeping
      <3>3. QED
        BY <2>2, <3>1, <3>2
    <2>4. CASE k = n
      <3>1. g[k] = IF s[n] \in S THEN Append(f[n - 1], s[n]) ELSE f[n - 1]
        BY <1>2, <1>6, <2>4
      <3>2. g[n - 1] = f[n - 1]
        BY <1>2, <1>3, <2>2
      <3>3. QED
        BY <1>3, <2>4, <3>1, <3>2
    <2>5. QED
      BY <1>2, <2>3, <2>4
  <1>8. Keeping(s, S, g, n)
    <2>1. g = [k \in 0..n |-> g[k]]
      BY <1>6
    <2>2. [k \in 0..n |-> g[k]] = [k \in 0..n |-> IF k = 0 THEN << >> ELSE IF s[k] \in S THEN Append(g[k - 1], s[k]) ELSE g[k - 1]]
      BY <1>7
    <2>3. QED
      BY <2>1, <2>2 DEF Keeping
  <1>9. QED
    BY <1>2, <1>8

GrayAdding(v, list, seen, f, m) ==
    f = [k \in 0..m |-> IF k = 0 THEN v ELSE AddGray(f[k - 1], list[k], seen)]

LEMMA GrayAddingExists ==
    ASSUME NEW v, NEW list, NEW seen, NEW m \in Nat
    PROVE  \E f : GrayAdding(v, list, seen, f, m)
  <1> DEFINE T == {n \in Nat : ~ \E f : GrayAdding(v, list, seen, f, n)}
  <1>1. SUFFICES ASSUME T # {} PROVE FALSE
    OBVIOUS
  <1>2. PICK n \in T : \A k \in T : n <= k
    <2>1. T \in SUBSET Nat
      OBVIOUS
    <2> HIDE DEF T
    <2>2. QED
      BY <1>1, <2>1, LeastIndex
  <1>3. n # 0
    <2>1. SUFFICES ASSUME n = 0 PROVE FALSE
      OBVIOUS
    <2>2. PICK f : f = [k \in {0} |-> v]
      OBVIOUS
    <2>3. 0..0 = {0}
      OBVIOUS
    <2>4. f = [k \in {0} |-> IF k = 0 THEN v ELSE AddGray(f[k - 1], list[k], seen)]
      BY <2>2
    <2>5. GrayAdding(v, list, seen, f, 0)
      BY <2>3, <2>4 DEF GrayAdding
    <2>6. QED
      BY <1>2, <2>1, <2>5
  <1>4. n - 1 \in Nat /\ n - 1 \notin T
    BY <1>2, <1>3
  <1>5. PICK f : GrayAdding(v, list, seen, f, n - 1)
    BY <1>4
  <1>6. PICK g : g = [k \in 0..n |-> IF k < n THEN f[k] ELSE AddGray(f[n - 1], list[n], seen)]
    OBVIOUS
  <1>7. \A k \in 0..n : g[k] = IF k = 0 THEN v ELSE AddGray(g[k - 1], list[k], seen)
    <2>1. SUFFICES ASSUME NEW k \in 0..n
                   PROVE  g[k] = IF k = 0 THEN v ELSE AddGray(g[k - 1], list[k], seen)
      OBVIOUS
    <2>2. \A j \in 0..(n - 1) : g[j] = f[j]
      BY <1>2, <1>6
    <2>3. CASE k < n
      <3>1. k \in 0..(n - 1) /\ (k # 0 => k - 1 \in 0..(n - 1))
        BY <1>2, <2>3
      <3>2. f[k] = IF k = 0 THEN v ELSE AddGray(f[k - 1], list[k], seen)
        BY <1>5, <3>1 DEF GrayAdding
      <3>3. QED
        BY <2>2, <3>1, <3>2
    <2>4. CASE k = n
      <3>1. g[k] = AddGray(f[n - 1], list[n], seen)
        BY <1>2, <1>6, <2>4
      <3>2. g[n - 1] = f[n - 1]
        BY <1>2, <1>3, <2>2
      <3>3. QED
        BY <1>3, <2>4, <3>1, <3>2
    <2>5. QED
      BY <1>2, <2>3, <2>4
  <1>8. GrayAdding(v, list, seen, g, n)
    <2>1. g = [k \in 0..n |-> g[k]]
      BY <1>6
    <2>2. [k \in 0..n |-> g[k]] = [k \in 0..n |-> IF k = 0 THEN v ELSE AddGray(g[k - 1], list[k], seen)]
      BY <1>7
    <2>3. QED
      BY <2>1, <2>2 DEF GrayAdding
  <1>9. QED
    BY <1>2, <1>8

WhiteAdding(v, list, trusted, f, m) ==
    f = [k \in 0..m |-> IF k = 0 THEN v ELSE AddWhite(f[k - 1], list[k], trusted)]

LEMMA WhiteAddingExists ==
    ASSUME NEW v, NEW list, NEW trusted, NEW m \in Nat
    PROVE  \E f : WhiteAdding(v, list, trusted, f, m)
  <1> DEFINE T == {n \in Nat : ~ \E f : WhiteAdding(v, list, trusted, f, n)}
  <1>1. SUFFICES ASSUME T # {} PROVE FALSE
    OBVIOUS
  <1>2. PICK n \in T : \A k \in T : n <= k
    <2>1. T \in SUBSET Nat
      OBVIOUS
    <2> HIDE DEF T
    <2>2. QED
      BY <1>1, <2>1, LeastIndex
  <1>3. n # 0
    <2>1. SUFFICES ASSUME n = 0 PROVE FALSE
      OBVIOUS
    <2>2. PICK f : f = [k \in {0} |-> v]
      OBVIOUS
    <2>3. 0..0 = {0}
      OBVIOUS
    <2>4. f = [k \in {0} |-> IF k = 0 THEN v ELSE AddWhite(f[k - 1], list[k], trusted)]
      BY <2>2
    <2>5. WhiteAdding(v, list, trusted, f, 0)
      BY <2>3, <2>4 DEF WhiteAdding
    <2>6. QED
      BY <1>2, <2>1, <2>5
  <1>4. n - 1 \in Nat /\ n - 1 \notin T
    BY <1>2, <1>3
  <1>5. PICK f : WhiteAdding(v, list, trusted, f, n - 1)
    BY <1>4
  <1>6. PICK g : g = [k \in 0..n |-> IF k < n THEN f[k] ELSE AddWhite(f[n - 1], list[n], trusted)]
    OBVIOUS
  <1>7. \A k \in 0..n : g[k] = IF k = 0 THEN v ELSE AddWhite(g[k - 1], list[k], trusted)
    <2>1. SUFFICES ASSUME NEW k \in 0..n
                   PROVE  g[k] = IF k = 0 THEN v ELSE AddWhite(g[k - 1], list[k], trusted)
      OBVIOUS
    <2>2. \A j \in 0..(n - 1) : g[j] = f[j]
      BY <1>2, <1>6
    <2>3. CASE k < n
      <3>1. k \in 0..(n - 1) /\ (k # 0 => k - 1 \in 0..(n - 1))
        BY <1>2, <2>3
      <3>2. f[k] = IF k = 0 THEN v ELSE AddWhite(f[k - 1], list[k], trusted)
        BY <1>5, <3>1 DEF WhiteAdding
      <3>3. QED
        BY <2>2, <3>1, <3>2
    <2>4. CASE k = n
      <3>1. g[k] = AddWhite(f[n - 1], list[n], trusted)
        BY <1>2, <1>6, <2>4
      <3>2. g[n - 1] = f[n - 1]
        BY <1>2, <1>3, <2>2
      <3>3. QED
        BY <1>3, <2>4, <3>1, <3>2
    <2>5. QED
      BY <1>2, <2>3, <2>4
  <1>8. WhiteAdding(v, list, trusted, g, n)
    <2>1. g = [k \in 0..n |-> g[k]]
      BY <1>6
    <2>2. [k \in 0..n |-> g[k]] = [k \in 0..n |-> IF k = 0 THEN v ELSE AddWhite(g[k - 1], list[k], trusted)]
      BY <1>7
    <2>3. QED
      BY <2>1, <2>2 DEF WhiteAdding
  <1>9. QED
    BY <1>2, <1>8

(* r is part of the first n elements of s, all of it in S, and m says where
   each of them stood. *)
Picks(m, r, s, n, S) ==
    /\ m \in [1..Len(r) -> 1..n]
    /\ \A j, k \in 1..Len(r) : j < k => m[j] < m[k]
    /\ \A k \in 1..Len(r) : r[k] = s[m[k]] /\ s[m[k]] \in S

(* It is shorter than that wherever something was left out. *)
Shorter(r, s, n, S) ==
    /\ Len(r) <= n
    /\ \A i \in 1..n : s[i] \notin S => Len(r) < n

LEMMA PicksNone ==
    ASSUME NEW s, NEW S
    PROVE  Shorter(<< >>, s, 0, S) /\ \E m : Picks(m, << >>, s, 0, S)
  <1>1. PICK m : m = [k \in 1..0 |-> k]
    OBVIOUS
  <1>2. Len(<< >>) = 0 /\ m \in [1..0 -> 1..0]
    BY <1>1
  <1>3. Picks(m, << >>, s, 0, S)
    BY <1>2 DEF Picks
  <1>4. Shorter(<< >>, s, 0, S)
    BY DEF Shorter
  <1>5. QED
    BY <1>3, <1>4

LEMMA PicksOneMore ==
    ASSUME NEW T, NEW s, NEW S, NEW n \in Nat, NEW r \in Seq(T), NEW m, Picks(m, r, s, n, S),
           s[n + 1] \in T, s[n + 1] \in S, Shorter(r, s, n, S)
    PROVE  /\ Shorter(Append(r, s[n + 1]), s, n + 1, S)
           /\ \E q : Picks(q, Append(r, s[n + 1]), s, n + 1, S)
  <1>1. PICK l \in Nat : l = Len(r)
    OBVIOUS
  <1>2. PICK t : t = Append(r, s[n + 1])
    OBVIOUS
  <1>3. Len(t) = l + 1 /\ t[l + 1] = s[n + 1] /\ \A k \in 1..l : t[k] = r[k]
    BY <1>1, <1>2
  <1>4. PICK q : q = [k \in 1..(l + 1) |-> IF k = l + 1 THEN n + 1 ELSE m[k]]
    OBVIOUS
  <1>5. \A k \in 1..l : m[k] \in 1..n /\ q[k] = m[k]
    BY <1>1, <1>4 DEF Picks
  <1>6. q[l + 1] = n + 1
    BY <1>4
  <1>7. \A k \in 1..(l + 1) : k = l + 1 \/ k \in 1..l
    OBVIOUS
  <1>8. q \in [1..(l + 1) -> 1..(n + 1)]
    <2>1. \A k \in 1..(l + 1) : q[k] \in 1..(n + 1)
      BY <1>5, <1>6, <1>7
    <2>2. QED
      BY <1>4, <2>1
  <1>9. \A j, k \in 1..(l + 1) : j < k => q[j] < q[k]
    <2>1. SUFFICES ASSUME NEW j \in 1..(l + 1), NEW k \in 1..(l + 1), j < k PROVE q[j] < q[k]
      OBVIOUS
    <2>2. j \in 1..l
      BY <2>1
    <2>3. CASE k = l + 1
      BY <1>5, <1>6, <2>2, <2>3
    <2>4. CASE k \in 1..l
      <3>1. m[j] < m[k]
        BY <1>1, <2>1, <2>2, <2>4 DEF Picks
      <3>2. QED
        BY <1>5, <2>2, <2>4, <3>1
    <2>5. QED
      BY <1>7, <2>3, <2>4
  <1>10. \A k \in 1..(l + 1) : t[k] = s[q[k]] /\ s[q[k]] \in S
    <2>1. \A k \in 1..l : r[k] = s[m[k]] /\ s[m[k]] \in S
      BY <1>1 DEF Picks
    <2>2. QED
      BY <1>3, <1>5, <1>6, <1>7, <2>1
  <1>11. Picks(q, t, s, n + 1, S)
    BY <1>3, <1>8, <1>9, <1>10 DEF Picks
  <1>12. Shorter(t, s, n + 1, S)
    <2>1. l <= n /\ \A i \in 1..n : s[i] \notin S => l < n
      BY <1>1 DEF Shorter
    <2>2. \A i \in 1..(n + 1) : s[i] \notin S => i \in 1..n
      OBVIOUS
    <2>3. Len(t) <= n + 1
      BY <1>3, <2>1
    <2>4. \A i \in 1..(n + 1) : s[i] \notin S => Len(t) < n + 1
      BY <1>3, <2>1, <2>2
    <2>5. QED
      BY <2>3, <2>4 DEF Shorter
  <1>13. QED
    BY <1>2, <1>11, <1>12

LEMMA PicksNoMore ==
    ASSUME NEW s, NEW S, NEW n \in Nat, NEW r, Len(r) \in Nat, NEW m, Picks(m, r, s, n, S),
           s[n + 1] \notin S, Shorter(r, s, n, S)
    PROVE  Picks(m, r, s, n + 1, S) /\ Shorter(r, s, n + 1, S)
  <1>1. m \in [1..Len(r) -> 1..(n + 1)]
    BY DEF Picks
  <1>2. Len(r) < n + 1
    BY DEF Shorter
  <1>3. Shorter(r, s, n + 1, S)
    BY <1>2 DEF Shorter
  <1>4. QED
    BY <1>1, <1>3 DEF Picks

(* `retain` keeps what is in S, in its order. *)
LEMMA RetainedPicks ==
    ASSUME NEW T, NEW s \in Seq(T), NEW S
    PROVE  /\ Retained(s, S) \in Seq(T)
           /\ Shorter(Retained(s, S), s, Len(s), S)
           /\ \E m : Picks(m, Retained(s, S), s, Len(s), S)
  <1>1. PICK n \in Nat : n = Len(s)
    OBVIOUS
  <1>2. \A k \in 1..n : s[k] \in T
    BY <1>1
  <1>3. PICK f : f = CHOOSE g : Keeping(s, S, g, n)
    OBVIOUS
  <1>4. Keeping(s, S, f, n)
    BY <1>3, KeepingExists
  <1>5. Retained(s, S) = f[n]
    BY <1>1, <1>3 DEF Retained, Keeping
  <1>6. f[0] = << >>
    BY <1>4 DEF Keeping
  <1> DEFINE Good(k) == f[k] \in Seq(T) /\ Shorter(f[k], s, k, S) /\ \E m : Picks(m, f[k], s, k, S)
  <1>7. Good(0)
    <2>1. << >> \in Seq(T)
      OBVIOUS
    <2>2. QED
      BY <1>6, <2>1, PicksNone
  <1>8. ASSUME NEW k \in 0..(n - 1), Good(k) PROVE Good(k + 1)
    <2>1. f[k + 1] = IF s[k + 1] \in S THEN Append(f[k], s[k + 1]) ELSE f[k]
      <3>1. k + 1 \in 0..n /\ k + 1 # 0 /\ (k + 1) - 1 = k
        OBVIOUS
      <3>2. QED
        BY <1>4, <3>1 DEF Keeping
    <2>2. PICK r \in Seq(T) : r = f[k]
      BY <1>8
    <2>3. Shorter(r, s, k, S) /\ \E m : Picks(m, r, s, k, S)
      BY <1>8, <2>2
    <2>9. PICK m : Picks(m, r, s, k, S)
      BY <2>3
    <2>4. k \in Nat /\ s[k + 1] \in T /\ Len(r) \in Nat
      BY <1>2
    <2>5. CASE s[k + 1] \in S
      <3>1. f[k + 1] = Append(r, s[k + 1])
        BY <2>1, <2>2, <2>5
      <3>2. Append(r, s[k + 1]) \in Seq(T)
        BY <2>4
      <3>3. /\ Shorter(Append(r, s[k + 1]), s, k + 1, S)
            /\ \E q : Picks(q, Append(r, s[k + 1]), s, k + 1, S)
        BY <2>3, <2>9, <2>4, <2>5, PicksOneMore
      <3>4. QED
        BY <3>1, <3>2, <3>3
    <2>6. CASE s[k + 1] \notin S
      <3>1. f[k + 1] = r
        BY <2>1, <2>2, <2>6
      <3>2. Picks(m, r, s, k + 1, S) /\ Shorter(r, s, k + 1, S)
        BY <2>3, <2>9, <2>4, <2>6, PicksNoMore
      <3>3. QED
        BY <3>1, <3>2
    <2>7. QED
      BY <2>5, <2>6
  <1>9. Good(n)
    <2> DEFINE Bad == {k \in 0..n : ~ Good(k)}
    <2>1. SUFFICES ASSUME Bad # {} PROVE FALSE
      BY <1>1
    <2>2. PICK k \in Bad : \A j \in Bad : k <= j
      <3>1. Bad \in SUBSET Nat
        BY <1>1
      <3> HIDE DEF Bad
      <3>2. QED
        BY <2>1, <3>1, LeastIndex
    <2>3. k # 0 /\ k \in 0..n
      BY <1>7, <2>2
    <2>4. k - 1 \in 0..(n - 1) /\ k - 1 \in 0..n /\ (k - 1) + 1 = k
      BY <1>1, <2>3
    <2>5. k - 1 \notin Bad
      <3>1. ~ (k <= k - 1)
        BY <2>3
      <3> HIDE DEF Bad
      <3>2. QED
        BY <2>2, <3>1
    <2>6. Good(k - 1)
      BY <2>4, <2>5
    <2>7. Good((k - 1) + 1)
      <3> HIDE DEF Good
      <3>1. QED
        BY <1>8, <2>4, <2>6
    <2>8. QED
      BY <2>2, <2>4, <2>7
  <1>10. QED
    BY <1>1, <1>5, <1>9

(* Parts of a list, in its order: what trimming leaves and what `retain`
   keeps. *)
Within(r, s) ==
    \E m \in [1..Len(r) -> 1..Len(s)] :
        /\ \A j, k \in 1..Len(r) : j < k => m[j] < m[k]
        /\ \A k \in 1..Len(r) : r[k] = s[m[k]]

KeptOf(r, s, S) ==
    /\ Within(r, s)
    /\ \A k \in DOMAIN r : r[k] \in S
    /\ Len(r) <= Len(s)
    /\ \A i \in DOMAIN s : s[i] \notin S => Len(r) < Len(s)

LEMMA PlacesOf ==
    ASSUME NEW T, NEW s \in Seq(T)
    PROVE  Len(s) \in Nat /\ DOMAIN s = 1..Len(s) /\ \A i \in DOMAIN s : s[i] \in T
  OBVIOUS

LEMMA RetainedIs ==
    ASSUME NEW T, NEW s \in Seq(T), NEW S, NEW r, r = Retained(s, S)
    PROVE  r \in Seq(T) /\ KeptOf(r, s, S)
  <1>1. r \in Seq(T) /\ Shorter(r, s, Len(s), S) /\ \E m : Picks(m, r, s, Len(s), S)
    BY RetainedPicks
  <1>2. PICK m : Picks(m, r, s, Len(s), S)
    BY <1>1
  <1>3. DOMAIN r = 1..Len(r) /\ DOMAIN s = 1..Len(s)
    BY <1>1, PlacesOf
  <1>4. Within(r, s)
    BY <1>2 DEF Within, Picks
  <1>5. \A k \in DOMAIN r : r[k] \in S
    BY <1>2, <1>3 DEF Picks
  <1>6. Len(r) <= Len(s) /\ \A i \in DOMAIN s : s[i] \notin S => Len(r) < Len(s)
    BY <1>1, <1>3 DEF Shorter
  <1>7. QED
    BY <1>1, <1>4, <1>5, <1>6 DEF KeptOf

LEMMA NewestIs ==
    ASSUME NEW T, NEW s \in Seq(T), NEW n \in Nat, NEW r, r = Newest(s, n)
    PROVE  r \in Seq(T) /\ Within(r, s) /\ Len(r) <= n
  <1>1. PICK l \in Nat : l = Len(s)
    OBVIOUS
  <1>2. PICK d \in Nat : (l > n => d = l - n) /\ (~ (l > n) => d = 0)
    <2>1. CASE l > n
      <3>1. l - n \in Nat
        BY <2>1
      <3>2. QED
        BY <2>1, <3>1
    <2>2. CASE ~ (l > n)
      BY <2>2
    <2>3. QED
      BY <2>1, <2>2
  <1>3. d <= l /\ l - d \in Nat /\ l - d <= n /\ d + 1 \in 1..(l + 1)
    BY <1>2
  <1>4. r = SubSeq(s, d + 1, l)
    <2>1. CASE l > n
      BY <1>1, <1>2, <2>1 DEF Newest
    <2>2. CASE ~ (l > n)
      BY <1>1, <1>2, <2>2 DEF Newest
    <2>3. QED
      BY <2>1, <2>2
  <1>5. r \in Seq(T) /\ Len(r) = l - d /\ \A k \in 1..(l - d) : r[k] = s[d + k]
    <2>1. \A k \in 1..l : s[k] \in T
      BY <1>1
    <2>2. r = [k \in 1..(l - d) |-> s[d + k]]
      BY <1>1, <1>3, <1>4
    <2>3. \A k \in 1..(l - d) : d + k \in 1..l
      BY <1>3
    <2>4. r \in [1..(l - d) -> T]
      BY <2>1, <2>2, <2>3
    <2>5. r \in Seq(T)
      BY <1>3, <2>4
    <2>6. Len(r) = l - d
      BY <1>3, <2>2
    <2>7. QED
      BY <2>2, <2>5, <2>6
  <1>6. PICK m : m = [k \in 1..(l - d) |-> d + k]
    OBVIOUS
  <1>7. m \in [1..(l - d) -> 1..l]
    BY <1>3, <1>6
  <1>8. Within(r, s)
    <2>1. m \in [1..Len(r) -> 1..Len(s)]
      BY <1>1, <1>5, <1>7
    <2>2. \A j, k \in 1..Len(r) : j < k => m[j] < m[k]
      BY <1>3, <1>5, <1>6
    <2>3. \A k \in 1..Len(r) : r[k] = s[m[k]]
      BY <1>5, <1>6
    <2>4. QED
      BY <2>1, <2>2, <2>3 DEF Within
  <1>9. QED
    BY <1>3, <1>5, <1>8

(* What is within a list comes from its places, different ones from different
   ones and in their order. *)
Placed(m, r, s) ==
    /\ m \in [DOMAIN r -> DOMAIN s]
    /\ \A k \in DOMAIN r : r[k] = s[m[k]]
    /\ \A j, k \in DOMAIN r : (j < k => m[j] < m[k]) /\ (m[j] = m[k] => j = k)

LEMMA WithinPlaces ==
    ASSUME NEW T, NEW s \in Seq(T), NEW r \in Seq(T), Within(r, s)
    PROVE  /\ Range(r) \subseteq Range(s)
           /\ \E m : Placed(m, r, s)
  <1>1. DOMAIN r = 1..Len(r) /\ DOMAIN s = 1..Len(s) /\ Len(r) \in Nat /\ Len(s) \in Nat
    BY PlacesOf
  <1>2. PICK m \in [1..Len(r) -> 1..Len(s)] :
          /\ \A j, k \in 1..Len(r) : j < k => m[j] < m[k]
          /\ \A k \in 1..Len(r) : r[k] = s[m[k]]
    BY DEF Within
  <1>3. \A j, k \in DOMAIN r : m[j] = m[k] => j = k
    <2>1. SUFFICES ASSUME NEW j \in 1..Len(r), NEW k \in 1..Len(r), m[j] = m[k] PROVE j = k
      BY <1>1
    <2>2. (j < k => m[j] < m[k]) /\ (k < j => m[k] < m[j])
      BY <1>2
    <2>3. j \in Nat /\ k \in Nat /\ m[j] \in Nat /\ m[k] \in Nat
      BY <1>1
    <2>4. QED
      BY <2>1, <2>2, <2>3
  <1>4. \A k \in DOMAIN r : m[k] \in DOMAIN s /\ r[k] = s[m[k]]
    BY <1>1, <1>2
  <1>5. Range(r) \subseteq Range(s)
    <2>1. \A k \in DOMAIN r : r[k] \in Range(s)
      BY <1>4, Zenon DEF Range
    <2>2. QED
      BY <2>1, Zenon DEF Range
  <1>6. Placed(m, r, s)
    BY <1>1, <1>2, <1>3, <1>4 DEF Placed
  <1>7. QED
    BY <1>5, <1>6

Appended(r, s, l, e) ==
    /\ Len(r) = l + 1
    /\ r[l + 1] = e
    /\ \A k \in DOMAIN s : k \in 1..l /\ r[k] = s[k]
    /\ \A k \in DOMAIN r : k \in DOMAIN s \/ k = l + 1
    /\ Range(r) = Range(s) \cup {e}

LEMMA AppendPlaces ==
    ASSUME NEW T, NEW s \in Seq(T), NEW e \in T, NEW r, r = Append(s, e)
    PROVE  r \in Seq(T) /\ Appended(r, s, Len(s), e)
  <1>1. r \in Seq(T) /\ Len(r) = Len(s) + 1
    OBVIOUS
  <1>2. DOMAIN r = 1..(Len(s) + 1) /\ DOMAIN s = 1..Len(s) /\ Len(s) \in Nat
    BY <1>1, PlacesOf
  <1>3. r[Len(s) + 1] = e /\ \A k \in 1..Len(s) : r[k] = s[k]
    OBVIOUS
  <1>4. \A k \in DOMAIN s : k \in DOMAIN r /\ r[k] = s[k]
    BY <1>2, <1>3
  <1>5. \A k \in DOMAIN r : k \in DOMAIN s \/ k = Len(s) + 1
    BY <1>2
  <1>6. Len(s) + 1 \in DOMAIN r
    BY <1>2
  <1>7. Range(r) = Range(s) \cup {e}
    <2>1. \A z : z \in Range(r) <=> z \in Range(s) \cup {e}
      BY <1>3, <1>4, <1>5, <1>6, Zenon DEF Range
    <2>2. QED
      BY <2>1
  <1>8. QED
    BY <1>1, <1>2, <1>3, <1>4, <1>5, <1>7 DEF Appended

Joined(r, s, l, t) ==
    /\ \A k \in DOMAIN s : k \in 1..l
    /\ \A k \in DOMAIN r : k \in Nat /\ \/ k \in DOMAIN s /\ r[k] = s[k]
                                        \/ k - l \in DOMAIN t /\ r[k] = t[k - l] /\ k > l
    /\ Range(r) = Range(s) \cup Range(t)

LEMMA JoinPlaces ==
    ASSUME NEW T, NEW s \in Seq(T), NEW t \in Seq(T), NEW r, r = s \o t
    PROVE  r \in Seq(T) /\ Joined(r, s, Len(s), t)
  <1>1. r \in Seq(T) /\ Len(r) = Len(s) + Len(t)
    OBVIOUS
  <1>2. /\ DOMAIN r = 1..(Len(s) + Len(t)) /\ DOMAIN s = 1..Len(s) /\ DOMAIN t = 1..Len(t)
        /\ Len(s) \in Nat /\ Len(t) \in Nat
    BY <1>1, PlacesOf
  <1>3. \A k \in 1..(Len(s) + Len(t)) : r[k] = IF k <= Len(s) THEN s[k] ELSE t[k - Len(s)]
    BY <1>2
  <1>4. \A k \in DOMAIN r : \/ k \in DOMAIN s /\ r[k] = s[k]
                            \/ k - Len(s) \in DOMAIN t /\ r[k] = t[k - Len(s)] /\ k > Len(s)
    BY <1>2, <1>3
  <1>5. \A k \in DOMAIN s : k \in DOMAIN r /\ r[k] = s[k]
    BY <1>2, <1>3
  <1>6. \A k \in DOMAIN t : k + Len(s) \in DOMAIN r /\ r[k + Len(s)] = t[k]
    BY <1>2, <1>3
  <1>7. Range(r) = Range(s) \cup Range(t)
    <2>1. \A z \in Range(r) : z \in Range(s) \cup Range(t)
      BY <1>4, Zenon DEF Range
    <2>3. \A z \in Range(s) \cup Range(t) : z \in Range(r)
      BY <1>5, <1>6, Zenon DEF Range
    <2>4. QED
      BY <2>1, <2>3
  <1>8. QED
    BY <1>1, <1>2, <1>4, <1>7 DEF Joined

-----------------------------------------------------------------------------
(* The lists of the address book. *)

Entry == [addr : Addr, seen : BOOLEAN]

AddrsOf(g) == {e.addr : e \in Range(g)}

GrayGood(g) ==
    \A j, k \in DOMAIN g :
        /\ g[j].addr = g[k].addr => j = k
        /\ g[j].seen /\ j < k => g[k].seen

WhiteGood(w) == \A j, k \in DOMAIN w : HostOf[w[j]] = HostOf[w[k]] => j = k

LEMMA WithinGray ==
    ASSUME NEW g \in Seq(Entry), GrayGood(g), NEW r \in Seq(Entry), Within(r, g)
    PROVE  GrayGood(r) /\ AddrsOf(r) \subseteq AddrsOf(g)
  <1>5. PICK m : Placed(m, r, g)
    BY WithinPlaces
  <1>1. /\ m \in [DOMAIN r -> DOMAIN g]
        /\ \A k \in DOMAIN r : r[k] = g[m[k]]
        /\ \A j, k \in DOMAIN r : (j < k => m[j] < m[k]) /\ (m[j] = m[k] => j = k)
    BY <1>5 DEF Placed
  <1>2. ASSUME NEW j \in DOMAIN r, NEW k \in DOMAIN r
        PROVE  (r[j].addr = r[k].addr => j = k) /\ (r[j].seen /\ j < k => r[k].seen)
    <2>1. m[j] \in DOMAIN g /\ m[k] \in DOMAIN g /\ r[j] = g[m[j]] /\ r[k] = g[m[k]]
      BY <1>1, <1>2
    <2>2. (j < k => m[j] < m[k]) /\ (m[j] = m[k] => j = k)
      BY <1>1, <1>2
    <2>3. /\ g[m[j]].addr = g[m[k]].addr => m[j] = m[k]
          /\ g[m[j]].seen /\ m[j] < m[k] => g[m[k]].seen
      BY <2>1 DEF GrayGood
    <2>4. QED
      BY <2>1, <2>2, <2>3
  <1>3. Range(r) \subseteq Range(g)
    BY WithinPlaces
  <1>4. QED
    BY <1>2, <1>3 DEF GrayGood, AddrsOf

LEMMA WithinWhite ==
    ASSUME NEW w \in Seq(Addr), WhiteGood(w), NEW r \in Seq(Addr), Within(r, w)
    PROVE  WhiteGood(r) /\ Range(r) \subseteq Range(w)
  <1>5. PICK m : Placed(m, r, w)
    BY WithinPlaces
  <1>1. /\ m \in [DOMAIN r -> DOMAIN w]
        /\ \A k \in DOMAIN r : r[k] = w[m[k]]
        /\ \A j, k \in DOMAIN r : (j < k => m[j] < m[k]) /\ (m[j] = m[k] => j = k)
    BY <1>5 DEF Placed
  <1>2. ASSUME NEW j \in DOMAIN r, NEW k \in DOMAIN r, HostOf[r[j]] = HostOf[r[k]]
        PROVE  j = k
    <2>1. m[j] \in DOMAIN w /\ m[k] \in DOMAIN w /\ r[j] = w[m[j]] /\ r[k] = w[m[k]]
      BY <1>1, <1>2
    <2>2. m[j] = m[k]
      BY <1>2, <2>1 DEF WhiteGood
    <2>3. QED
      BY <1>1, <1>2, <2>2
  <1>3. Range(r) \subseteq Range(w)
    BY WithinPlaces
  <1>4. QED
    BY <1>2, <1>3 DEF WhiteGood

LEMMA AppendGray ==
    ASSUME NEW g \in Seq(Entry), GrayGood(g), NEW e \in Entry, e.addr \notin AddrsOf(g),
           e.seen \/ \A k \in DOMAIN g : ~ g[k].seen,
           NEW r, r = Append(g, e)
    PROVE  r \in Seq(Entry) /\ GrayGood(r) /\ AddrsOf(r) = AddrsOf(g) \cup {e.addr}
  <1>1. PICK l \in Nat : l = Len(g)
    OBVIOUS
  <1>2. /\ r \in Seq(Entry)
        /\ r[l + 1] = e
        /\ \A k \in DOMAIN g : r[k] = g[k] /\ k \in 1..l
        /\ \A k \in DOMAIN r : k \in DOMAIN g \/ k = l + 1
        /\ Range(r) = Range(g) \cup {e}
    <2>1. r \in Seq(Entry) /\ Appended(r, g, l, e)
      BY <1>1, AppendPlaces
    <2>2. QED
      BY <2>1 DEF Appended
  <1>3. \A k \in DOMAIN g : r[k].addr # e.addr
    <2>1. \A k \in DOMAIN g : g[k].addr # e.addr
      BY DEF AddrsOf, Range
    <2>2. QED
      BY <1>2, <2>1
  <1>4. ASSUME NEW j \in DOMAIN r, NEW k \in DOMAIN r
        PROVE  (r[j].addr = r[k].addr => j = k) /\ (r[j].seen /\ j < k => r[k].seen)
    <2>1. CASE j \in DOMAIN g /\ k \in DOMAIN g
      BY <1>2, <2>1 DEF GrayGood
    <2>2. CASE j \in DOMAIN g /\ k = l + 1
      <3>1. r[j] = g[j] /\ r[k] = e /\ r[j].addr # r[k].addr
        BY <1>2, <1>3, <2>2
      <3>2. QED
        BY <2>2, <3>1
    <2>3. CASE j = l + 1 /\ k \in DOMAIN g
      <3>1. r[j].addr # r[k].addr
        BY <1>2, <1>3, <2>3
      <3>2. ~ (j < k)
        BY <1>2, <2>3
      <3>3. QED
        BY <3>1, <3>2
    <2>4. CASE j = l + 1 /\ k = l + 1
      BY <2>4
    <2>5. QED
      BY <1>2, <1>4, <2>1, <2>2, <2>3, <2>4
  <1>5. AddrsOf(r) = AddrsOf(g) \cup {e.addr}
    BY <1>2 DEF AddrsOf
  <1>6. QED
    BY <1>2, <1>4, <1>5 DEF GrayGood

LEMMA JoinGray ==
    ASSUME NEW g \in Seq(Entry), GrayGood(g), NEW h \in Seq(Entry), GrayGood(h),
           AddrsOf(g) \cap AddrsOf(h) = {},
           \A k \in DOMAIN g : ~ g[k].seen,
           NEW r, r = g \o h
    PROVE  r \in Seq(Entry) /\ GrayGood(r) /\ AddrsOf(r) = AddrsOf(g) \cup AddrsOf(h)
  <1>1. PICK l \in Nat : l = Len(g)
    OBVIOUS
  <1>2. /\ r \in Seq(Entry)
        /\ \A k \in DOMAIN r : \/ k \in DOMAIN g /\ r[k] = g[k]
                               \/ k - l \in DOMAIN h /\ r[k] = h[k - l] /\ k > l
        /\ Range(r) = Range(g) \cup Range(h)
    <2>1. r \in Seq(Entry) /\ Joined(r, g, l, h)
      BY <1>1, JoinPlaces
    <2>2. QED
      BY <2>1 DEF Joined
  <1>3. \A j \in DOMAIN g, k \in DOMAIN h : g[j].addr # h[k].addr
    BY DEF AddrsOf, Range
  <1>4. (\A k \in DOMAIN g : k \in 1..l) /\ (\A k \in DOMAIN r : k \in Nat)
    <2>1. Joined(r, g, l, h)
      BY <1>1, JoinPlaces
    <2>2. QED
      BY <2>1 DEF Joined
  <1>5. ASSUME NEW j \in DOMAIN r, NEW k \in DOMAIN r
        PROVE  (r[j].addr = r[k].addr => j = k) /\ (r[j].seen /\ j < k => r[k].seen)
    <2>1. CASE j \in DOMAIN g /\ k \in DOMAIN g /\ r[j] = g[j] /\ r[k] = g[k]
      BY <2>1 DEF GrayGood
    <2>2. CASE j \in DOMAIN g /\ r[j] = g[j] /\ k - l \in DOMAIN h /\ r[k] = h[k - l]
      <3>1. ~ r[j].seen /\ r[j].addr # r[k].addr
        BY <1>3, <2>2
      <3>2. QED
        BY <3>1
    <2>3. CASE j - l \in DOMAIN h /\ r[j] = h[j - l] /\ j > l /\ k \in DOMAIN g /\ r[k] = g[k]
      <3>1. r[j].addr # r[k].addr
        BY <1>3, <2>3
      <3>2. ~ (j < k)
        BY <1>4, <1>5, <2>3
      <3>3. QED
        BY <3>1, <3>2
    <2>4. CASE j - l \in DOMAIN h /\ r[j] = h[j - l] /\ k - l \in DOMAIN h /\ r[k] = h[k - l]
      <3>1. /\ h[j - l].addr = h[k - l].addr => j - l = k - l
            /\ h[j - l].seen /\ j - l < k - l => h[k - l].seen
        BY <2>4 DEF GrayGood
      <3>2. (j - l = k - l => j = k) /\ (j < k => j - l < k - l)
        BY <1>4, <1>5
      <3>3. QED
        BY <2>4, <3>1, <3>2
    <2>5. QED
      BY <1>2, <1>5, <2>1, <2>2, <2>3, <2>4
  <1>6. AddrsOf(r) = AddrsOf(g) \cup AddrsOf(h)
    BY <1>2 DEF AddrsOf
  <1>7. QED
    BY <1>2, <1>5, <1>6 DEF GrayGood

LEMMA AppendWhite ==
    ASSUME NEW w \in Seq(Addr), WhiteGood(w), NEW a \in Addr,
           \A k \in DOMAIN w : HostOf[w[k]] # HostOf[a],
           NEW r, r = Append(w, a)
    PROVE  r \in Seq(Addr) /\ WhiteGood(r) /\ Range(r) = Range(w) \cup {a}
  <1>1. PICK l \in Nat : l = Len(w)
    OBVIOUS
  <1>2. /\ r \in Seq(Addr)
        /\ r[l + 1] = a
        /\ \A k \in DOMAIN w : r[k] = w[k]
        /\ \A k \in DOMAIN r : k \in DOMAIN w \/ k = l + 1
        /\ Range(r) = Range(w) \cup {a}
    <2>1. r \in Seq(Addr) /\ Appended(r, w, l, a)
      BY <1>1, AppendPlaces
    <2>2. QED
      BY <2>1 DEF Appended
  <1>3. ASSUME NEW j \in DOMAIN r, NEW k \in DOMAIN r, HostOf[r[j]] = HostOf[r[k]]
        PROVE  j = k
    <2>1. CASE j \in DOMAIN w /\ k \in DOMAIN w
      BY <1>2, <1>3, <2>1 DEF WhiteGood
    <2>2. CASE ~ (j \in DOMAIN w /\ k \in DOMAIN w)
      BY <1>2, <1>3, <2>2
    <2>3. QED
      BY <2>1, <2>2
  <1>4. QED
    BY <1>2, <1>3 DEF WhiteGood

-----------------------------------------------------------------------------
(* The address book: each of its operations keeps it in order. *)

BookOK(b) ==
    /\ b \in [white : Seq(Addr), gray : Seq(Entry), anchors : SUBSET Addr, bans : SUBSET Host]
    /\ Len(b.white) <= WhiteLimit /\ Len(b.gray) <= GrayLimit
    /\ WhiteGood(b.white) /\ GrayGood(b.gray)
    /\ Range(b.white) \cap AddrsOf(b.gray) = {}

LEMMA BookParts ==
    ASSUME NEW b, BookOK(b)
    PROVE  /\ b.white \in Seq(Addr) /\ b.gray \in Seq(Entry)
           /\ b.anchors \in SUBSET Addr /\ b.bans \in SUBSET Host
           /\ White(b) = Range(b.white) /\ Gray(b) = AddrsOf(b.gray)
           /\ White(b) \subseteq Addr /\ Gray(b) \subseteq Addr
  <1>1. b.white \in Seq(Addr) /\ b.gray \in Seq(Entry) /\ b.anchors \in SUBSET Addr /\ b.bans \in SUBSET Host
    BY DEF BookOK
  <1>2. White(b) = Range(b.white) /\ Gray(b) = AddrsOf(b.gray)
    BY DEF White, Gray, AddrsOf
  <1>3. \A k \in DOMAIN b.white : b.white[k] \in Addr
    BY <1>1
  <1>4. \A k \in DOMAIN b.gray : b.gray[k].addr \in Addr
    <2>1. \A k \in DOMAIN b.gray : b.gray[k] \in Entry
      BY <1>1
    <2>2. QED
      BY <2>1 DEF Entry
  <1>5. QED
    BY <1>1, <1>2, <1>3, <1>4 DEF AddrsOf, Range

(* A book with another gray list. *)
LEMMA GraySet ==
    ASSUME NEW b, BookOK(b), NEW g \in Seq(Entry), GrayGood(g), Len(g) <= GrayLimit,
           White(b) \cap AddrsOf(g) = {},
           NEW c, c = [b EXCEPT !.gray = g]
    PROVE  BookOK(c) /\ White(c) = White(b) /\ Gray(c) = AddrsOf(g) /\ c.white = b.white
  <1>1. /\ c.white = b.white /\ c.gray = g
        /\ c \in [white : Seq(Addr), gray : Seq(Entry), anchors : SUBSET Addr, bans : SUBSET Host]
    BY DEF BookOK
  <1>2. Range(b.white) \cap AddrsOf(g) = {}
    BY DEF White
  <1>3. BookOK(c)
    BY <1>1, <1>2 DEF BookOK
  <1>4. QED
    BY <1>1, <1>3, BookParts DEF White

(* A book with another white list. *)
LEMMA WhiteSet ==
    ASSUME NEW b, BookOK(b), NEW w \in Seq(Addr), WhiteGood(w), Len(w) <= WhiteLimit,
           Range(w) \cap Gray(b) = {},
           NEW c, c = [b EXCEPT !.white = w]
    PROVE  BookOK(c) /\ White(c) = Range(w)
  <1>1. /\ c.gray = b.gray /\ c.white = w
        /\ c \in [white : Seq(Addr), gray : Seq(Entry), anchors : SUBSET Addr, bans : SUBSET Host]
    BY DEF BookOK
  <1>2. Range(w) \cap AddrsOf(b.gray) = {}
    BY BookParts
  <1>3. BookOK(c)
    BY <1>1, <1>2 DEF BookOK
  <1>4. QED
    BY <1>1, <1>3 DEF White

LEMMA EmptyBookOK == BookOK(EmptyBook) /\ White(EmptyBook) = {}
  <1>1. /\ EmptyBook.white = << >> /\ EmptyBook.gray = << >>
        /\ EmptyBook \in [white : Seq(Addr), gray : Seq(Entry), anchors : SUBSET Addr, bans : SUBSET Host]
    BY DEF EmptyBook
  <1>2. Range(<< >>) = {} /\ Len(<< >>) = 0 /\ DOMAIN << >> = {}
    BY DEF Range
  <1>3. WhiteGood(<< >>) /\ GrayGood(<< >>)
    BY <1>2 DEF WhiteGood, GrayGood
  <1>4. WhiteLimit >= 0 /\ GrayLimit >= 0
    BY ListsAssumption
  <1>5. QED
    BY <1>1, <1>2, <1>3, <1>4 DEF BookOK, White

(* The hearsay of a gray list and what this node has seen of it. *)
LEMMA HeardIs ==
    ASSUME NEW g \in Seq(Entry), GrayGood(g), NEW seen \in BOOLEAN, NEW r, r = Heard(g, seen)
    PROVE  /\ r \in Seq(Entry) /\ GrayGood(r) /\ AddrsOf(r) \subseteq AddrsOf(g)
           /\ \A k \in DOMAIN r : r[k].seen = seen /\ r[k] \in Range(g)
  <1> DEFINE S == {e \in Range(g) : e.seen = seen}
  <1>1. r = Retained(g, S)
    BY DEF Heard
  <1>2. r \in Seq(Entry) /\ KeptOf(r, g, S)
    <2> HIDE DEF S
    <2>1. QED
      BY <1>1, RetainedIs
  <1>3. Within(r, g) /\ \A k \in DOMAIN r : r[k] \in S
    BY <1>2 DEF KeptOf
  <1>4. QED
    BY <1>2, <1>3, WithinGray

LEMMA HeardApart ==
    ASSUME NEW g \in Seq(Entry), GrayGood(g)
    PROVE  AddrsOf(Heard(g, FALSE)) \cap AddrsOf(Heard(g, TRUE)) = {}
  <1>1. PICK h : h = Heard(g, FALSE)
    OBVIOUS
  <1>2. PICK t : t = Heard(g, TRUE)
    OBVIOUS
  <1>3. \A k \in DOMAIN h : h[k].seen = FALSE /\ h[k] \in Range(g)
    BY <1>1, HeardIs
  <1>4. \A k \in DOMAIN t : t[k].seen = TRUE /\ t[k] \in Range(g)
    BY <1>2, HeardIs
  <1>5. ASSUME NEW j \in DOMAIN h, NEW k \in DOMAIN t, h[j].addr = t[k].addr PROVE FALSE
    <2>1. PICK p \in DOMAIN g : g[p] = h[j]
      BY <1>3, <1>5 DEF Range
    <2>2. PICK q \in DOMAIN g : g[q] = t[k]
      BY <1>4, <1>5 DEF Range
    <2>3. p = q
      BY <1>5, <2>1, <2>2 DEF GrayGood
    <2>4. QED
      BY <1>3, <1>4, <1>5, <2>1, <2>2, <2>3
  <1>6. \A x \in AddrsOf(h) : x \notin AddrsOf(t)
    BY <1>5 DEF AddrsOf, Range
  <1>7. QED
    BY <1>1, <1>2, <1>6

(* `add_gray` keeps the book in order and leaves the white list alone. *)
LEMMA AddGrayOK ==
    ASSUME NEW b, BookOK(b), NEW a \in Addr, NEW seen \in BOOLEAN, NEW c, c = AddGray(b, a, seen)
    PROVE  BookOK(c) /\ White(c) = White(b)
  <1>1. CASE a \in White(b) \cup Gray(b)
    BY <1>1 DEF AddGray
  <1>2. CASE a \notin White(b) \cup Gray(b)
    <2>1. PICK g \in Seq(Entry) : g = b.gray /\ GrayGood(g) /\ Gray(b) = AddrsOf(g) /\ White(b) \cap AddrsOf(g) = {}
      BY BookParts DEF BookOK
    <2>2. PICK e \in Entry : e = [addr |-> a, seen |-> seen]
      BY DEF Entry
    <2>3. e.addr = a /\ e.seen = seen
      BY <2>2
    <2>4. PICK h : h = Heard(g, FALSE)
      OBVIOUS
    <2>5. PICK t : t = Heard(g, TRUE)
      OBVIOUS
    <2>6. PICK x : x = IF seen THEN Append(g, e) ELSE Append(h, e) \o t
      OBVIOUS
    <2>7. c = [b EXCEPT !.gray = Newest(x, GrayLimit)]
      <3>1. CASE seen = TRUE
        BY <1>2, <2>1, <2>2, <2>6, <3>1 DEF AddGray
      <3>2. CASE seen = FALSE
        BY <1>2, <2>1, <2>2, <2>4, <2>5, <2>6, <3>2 DEF AddGray
      <3>3. QED
        BY <3>1, <3>2
    <2>8. x \in Seq(Entry) /\ GrayGood(x) /\ AddrsOf(x) \subseteq AddrsOf(g) \cup {a}
      <3>1. CASE seen = TRUE
        <4>1. x = Append(g, e)
          BY <2>6, <3>1
        <4>2. e.addr \notin AddrsOf(g) /\ (e.seen \/ \A k \in DOMAIN g : ~ g[k].seen)
          BY <1>2, <2>1, <2>3, <3>1
        <4>3. QED
          BY <2>1, <2>3, <4>1, <4>2, AppendGray
      <3>2. CASE seen = FALSE
        <4>1. x = Append(h, e) \o t
          BY <2>6, <3>2
        <4>2. h \in Seq(Entry) /\ GrayGood(h) /\ AddrsOf(h) \subseteq AddrsOf(g)
          BY <2>1, <2>4, HeardIs
        <4>3. \A k \in DOMAIN h : h[k].seen = FALSE
          BY <2>1, <2>4, HeardIs
        <4>4. t \in Seq(Entry) /\ GrayGood(t) /\ AddrsOf(t) \subseteq AddrsOf(g)
          BY <2>1, <2>5, HeardIs
        <4>5. AddrsOf(h) \cap AddrsOf(t) = {}
          BY <2>1, <2>4, <2>5, HeardApart
        <4>6. PICK y : y = Append(h, e)
          OBVIOUS
        <4>7. a \notin AddrsOf(g)
          BY <1>2, <2>1
        <4>8. y \in Seq(Entry) /\ GrayGood(y) /\ AddrsOf(y) = AddrsOf(h) \cup {a}
          <5>1. e.addr \notin AddrsOf(h) /\ (e.seen \/ \A k \in DOMAIN h : ~ h[k].seen)
            BY <2>3, <4>2, <4>3, <4>7
          <5>2. QED
            BY <2>3, <4>2, <4>6, <5>1, AppendGray
        <4>9. \A k \in DOMAIN y : ~ y[k].seen
          <5>1. Appended(y, h, Len(h), e)
            BY <4>2, <4>6, AppendPlaces
          <5>2. QED
            BY <2>3, <3>2, <4>3, <5>1 DEF Appended
        <4>10. AddrsOf(y) \cap AddrsOf(t) = {}
          BY <4>4, <4>5, <4>7, <4>8
        <4>11. x = y \o t
          BY <4>1, <4>6
        <4>12. x \in Seq(Entry) /\ GrayGood(x) /\ AddrsOf(x) = AddrsOf(y) \cup AddrsOf(t)
          BY <4>4, <4>8, <4>9, <4>10, <4>11, JoinGray
        <4>13. QED
          BY <4>2, <4>4, <4>8, <4>12
      <3>3. QED
        BY <3>1, <3>2
    <2>9. GrayLimit \in Nat
      BY ListsAssumption
    <2>10. PICK r : r = Newest(x, GrayLimit)
      OBVIOUS
    <2>11. r \in Seq(Entry) /\ Within(r, x) /\ Len(r) <= GrayLimit
      BY <2>8, <2>9, <2>10, NewestIs
    <2>12. GrayGood(r) /\ AddrsOf(r) \subseteq AddrsOf(x)
      BY <2>8, <2>11, WithinGray
    <2>13. White(b) \cap AddrsOf(r) = {}
      BY <1>2, <2>1, <2>8, <2>12
    <2>14. c = [b EXCEPT !.gray = r]
      BY <2>7, <2>10
    <2>15. QED
      BY <2>11, <2>12, <2>13, <2>14, GraySet
  <1>3. QED
    BY <1>1, <1>2

(* `remove_gray`. *)
LEMMA RemoveGrayOK ==
    ASSUME NEW b, BookOK(b), NEW a \in Addr, NEW c, c = RemoveGray(b, a)
    PROVE  BookOK(c) /\ White(c) = White(b) /\ a \notin Gray(c) /\ Gray(c) \subseteq Gray(b) /\ c.white = b.white
  <1>1. PICK g \in Seq(Entry) : g = b.gray /\ GrayGood(g) /\ Gray(b) = AddrsOf(g) /\ White(b) \cap AddrsOf(g) = {}
    BY BookParts DEF BookOK
  <1> DEFINE S == {e \in Range(g) : e.addr # a}
  <1>2. PICK r : r = Retained(g, S)
    OBVIOUS
  <1>3. c = [b EXCEPT !.gray = r]
    BY <1>1, <1>2 DEF RemoveGray
  <1>4. r \in Seq(Entry) /\ KeptOf(r, g, S)
    <2> HIDE DEF S
    <2>1. QED
      BY <1>2, RetainedIs
  <1>5. Within(r, g) /\ Len(r) <= Len(g) /\ \A k \in DOMAIN r : r[k] \in S
    BY <1>4 DEF KeptOf
  <1>6. a \notin AddrsOf(r)
    BY <1>5 DEF AddrsOf, Range
  <1>7. GrayGood(r) /\ AddrsOf(r) \subseteq AddrsOf(g)
    BY <1>1, <1>4, <1>5, WithinGray
  <1>8. Len(r) <= GrayLimit
    <2>1. Len(g) <= GrayLimit /\ Len(g) \in Nat /\ Len(r) \in Nat /\ GrayLimit \in Nat
      BY <1>1, <1>4, ListsAssumption DEF BookOK
    <2>2. QED
      BY <1>5, <2>1
  <1>9. White(b) \cap AddrsOf(r) = {}
    BY <1>1, <1>7
  <1>10. BookOK(c) /\ White(c) = White(b) /\ Gray(c) = AddrsOf(r) /\ c.white = b.white
    BY <1>3, <1>4, <1>7, <1>8, <1>9, GraySet
  <1>11. QED
    BY <1>1, <1>6, <1>7, <1>10

(* `add_white` keeps the book in order, and only the address itself becomes
   white. *)
LEMMA AddWhiteOK ==
    ASSUME NEW b, BookOK(b), NEW a \in Addr, NEW trusted \in BOOLEAN, NEW c, c = AddWhite(b, a, trusted)
    PROVE  BookOK(c) /\ White(c) \subseteq White(b) \cup {a}
  <1>1. PICK known : known = RemoveGray(b, a)
    OBVIOUS
  <1>2. /\ BookOK(known) /\ White(known) = White(b) /\ known.white = b.white
        /\ a \notin Gray(known) /\ Gray(known) \subseteq Gray(b)
    BY <1>1, RemoveGrayOK
  <1>3. PICK w \in Seq(Addr) : w = b.white /\ WhiteGood(w) /\ White(b) = Range(w) /\ Len(w) <= WhiteLimit
    BY BookParts DEF BookOK
  <1>4. White(b) \cap Gray(b) = {} /\ White(b) \subseteq Addr
    BY BookParts DEF BookOK
  <1>5. WhiteLimit \in Nat /\ Len(w) \in Nat
    BY ListsAssumption
  <1>6. CASE a \in White(b) /\ trusted
    <2>1. PICK r : r = Retained(w, Addr \ {a})
      OBVIOUS
    <2>2. r \in Seq(Addr) /\ KeptOf(r, w, Addr \ {a})
      BY <2>1, RetainedIs
    <2>3. Within(r, w) /\ (\A k \in DOMAIN r : r[k] # a) /\ \A i \in DOMAIN w : w[i] = a => Len(r) < Len(w)
      BY <2>2 DEF KeptOf
    <2>4. WhiteGood(r) /\ Range(r) \subseteq Range(w)
      BY <1>3, <2>2, <2>3, WithinWhite
    <2>5. PICK p \in DOMAIN w : w[p] = a
      BY <1>3, <1>6 DEF Range
    <2>6. \A k \in DOMAIN r : HostOf[r[k]] # HostOf[a]
      <3>1. SUFFICES ASSUME NEW k \in DOMAIN r, HostOf[r[k]] = HostOf[a] PROVE FALSE
        OBVIOUS
      <3>2. PICK q \in DOMAIN w : w[q] = r[k]
        BY <2>4, <3>1 DEF Range
      <3>3. q = p
        BY <1>3, <2>5, <3>1, <3>2 DEF WhiteGood
      <3>4. QED
        BY <2>3, <2>5, <3>1, <3>2, <3>3
    <2>7. PICK x : x = Append(r, a)
      OBVIOUS
    <2>8. x \in Seq(Addr) /\ WhiteGood(x) /\ Range(x) = Range(r) \cup {a}
      BY <2>2, <2>4, <2>6, <2>7, AppendWhite
    <2>9. Len(x) <= WhiteLimit
      <3>1. Appended(x, r, Len(r), a)
        BY <2>2, <2>7, AppendPlaces
      <3>2. Len(x) = Len(r) + 1 /\ Len(r) \in Nat /\ Len(r) < Len(w)
        BY <2>2, <2>3, <2>5, <3>1 DEF Appended
      <3>3. QED
        BY <1>3, <1>5, <3>2
    <2>10. Range(x) \cap Gray(known) = {}
      BY <1>2, <1>3, <1>4, <2>4, <2>8
    <2>11. c = [known EXCEPT !.white = x]
      BY <1>1, <1>2, <1>3, <1>6, <2>1, <2>7 DEF AddWhite
    <2>12. BookOK(c) /\ White(c) = Range(x)
      BY <1>2, <2>8, <2>9, <2>10, <2>11, WhiteSet
    <2>13. QED
      BY <1>3, <2>4, <2>8, <2>12
  <1>7. CASE a \in White(b) /\ ~ trusted
    <2>1. c = [known EXCEPT !.white = known.white]
      BY <1>1, <1>7 DEF AddWhite
    <2>2. known \in [white : Seq(Addr), gray : Seq(Entry), anchors : SUBSET Addr, bans : SUBSET Host]
      BY <1>2 DEF BookOK
    <2>3. c = known
      BY <2>1, <2>2
    <2>4. QED
      BY <1>2, <2>3
  <1>8. CASE a \notin White(b)
    <2> DEFINE S == {d \in Addr : HostOf[d] # HostOf[a]}
    <2>1. PICK r : r = Retained(w, S)
      OBVIOUS
    <2>2. r \in Seq(Addr) /\ KeptOf(r, w, S)
      <3> HIDE DEF S
      <3>1. QED
        BY <2>1, RetainedIs
    <2>3. Within(r, w) /\ \A k \in DOMAIN r : HostOf[r[k]] # HostOf[a]
      BY <2>2 DEF KeptOf
    <2>4. WhiteGood(r) /\ Range(r) \subseteq Range(w)
      BY <1>3, <2>2, <2>3, WithinWhite
    <2>5. PICK full : full = Append(r, a)
      OBVIOUS
    <2>6. full \in Seq(Addr) /\ WhiteGood(full) /\ Range(full) = Range(r) \cup {a}
      BY <2>2, <2>3, <2>4, <2>5, AppendWhite
    <2>7. PICK x : x = Newest(full, WhiteLimit)
      OBVIOUS
    <2>8. x \in Seq(Addr) /\ Within(x, full) /\ Len(x) <= WhiteLimit
      BY <1>5, <2>6, <2>7, NewestIs
    <2>9. WhiteGood(x) /\ Range(x) \subseteq Range(full)
      BY <2>6, <2>8, WithinWhite
    <2>10. Range(x) \cap Gray(known) = {}
      BY <1>2, <1>3, <1>4, <2>4, <2>6, <2>9
    <2>11. PICK listed : listed = [known EXCEPT !.white = x]
      OBVIOUS
    <2>12. BookOK(listed) /\ White(listed) = Range(x)
      BY <1>2, <2>8, <2>9, <2>10, <2>11, WhiteSet
    <2>13. White(listed) \subseteq White(b) \cup {a}
      BY <1>3, <2>4, <2>6, <2>9, <2>12
    <2>14. c = IF Len(full) > WhiteLimit THEN AddGray(listed, full[1], TRUE) ELSE listed
      BY <1>1, <1>3, <1>8, <2>1, <2>5, <2>7, <2>11 DEF AddWhite
    <2>15. full[1] \in Addr
      <3>1. Appended(full, r, Len(r), a)
        BY <2>2, <2>5, AppendPlaces
      <3>2. Len(full) = Len(r) + 1 /\ Len(r) \in Nat
        BY <2>2, <3>1 DEF Appended
      <3>3. 1 \in DOMAIN full
        BY <2>6, <3>2
      <3>4. QED
        BY <2>6, <3>3
    <2>16. CASE Len(full) > WhiteLimit
      <3>1. c = AddGray(listed, full[1], TRUE)
        BY <2>14, <2>16
      <3>2. BookOK(c) /\ White(c) = White(listed)
        BY <2>12, <2>15, <3>1, AddGrayOK
      <3>3. QED
        BY <2>13, <3>2
    <2>17. CASE ~ (Len(full) > WhiteLimit)
      BY <2>12, <2>13, <2>14, <2>17
    <2>18. QED
      BY <2>16, <2>17
  <1>9. QED
    BY <1>6, <1>7, <1>8

LEMMA AddWhiteSeen ==
    ASSUME NEW b, BookOK(b), NEW a \in Addr, NEW c, c = AddWhite(b, a, TRUE)
    PROVE  BookOK(c) /\ White(c) \subseteq White(b) \cup {a}
  <1>1. \A t \in BOOLEAN : c = AddWhite(b, a, t) => BookOK(c) /\ White(c) \subseteq White(b) \cup {a}
    BY AddWhiteOK
  <1>2. QED
    BY <1>1, Zenon

(* A list of addresses added one after the other. *)
LEMMA GrayAllOK ==
    ASSUME NEW b, BookOK(b), NEW list \in Seq(Addr), NEW seen \in BOOLEAN, NEW c, c = GrayAll(b, list, seen)
    PROVE  BookOK(c) /\ White(c) = White(b)
  <1>1. PICK n \in Nat : n = Len(list)
    OBVIOUS
  <1>2. \A k \in 1..n : list[k] \in Addr
    BY <1>1
  <1>3. PICK f : f = CHOOSE g : GrayAdding(b, list, seen, g, n)
    OBVIOUS
  <1>4. GrayAdding(b, list, seen, f, n)
    BY <1>3, GrayAddingExists
  <1>5. c = f[n]
    BY <1>1, <1>3 DEF GrayAll, GrayAdding
  <1>6. f[0] = b
    BY <1>4 DEF GrayAdding
  <1> DEFINE Good(k) == BookOK(f[k]) /\ White(f[k]) = White(b)
  <1>7. Good(0)
    BY <1>6
  <1>8. ASSUME NEW k \in 0..(n - 1), Good(k) PROVE Good(k + 1)
    <2>1. k + 1 \in 0..n /\ k + 1 # 0 /\ (k + 1) - 1 = k /\ k + 1 \in 1..n
      OBVIOUS
    <2>2. f[k + 1] = AddGray(f[k], list[k + 1], seen)
      BY <1>4, <2>1 DEF GrayAdding
    <2>3. PICK a \in Addr : a = list[k + 1]
      BY <1>2, <2>1
    <2>4. BookOK(f[k + 1]) /\ White(f[k + 1]) = White(f[k])
      BY <1>8, <2>2, <2>3, AddGrayOK
    <2>5. QED
      BY <1>8, <2>4
  <1>9. Good(n)
    <2> DEFINE Bad == {k \in 0..n : ~ Good(k)}
    <2>1. SUFFICES ASSUME Bad # {} PROVE FALSE
      BY <1>1
    <2>2. PICK k \in Bad : \A j \in Bad : k <= j
      <3>1. Bad \in SUBSET Nat
        BY <1>1
      <3> HIDE DEF Bad
      <3>2. QED
        BY <2>1, <3>1, LeastIndex
    <2>3. k # 0 /\ k \in 0..n
      BY <1>7, <2>2
    <2>4. k - 1 \in 0..(n - 1) /\ k - 1 \in 0..n /\ (k - 1) + 1 = k
      BY <1>1, <2>3
    <2>5. k - 1 \notin Bad
      <3>1. ~ (k <= k - 1)
        BY <2>3
      <3> HIDE DEF Bad
      <3>2. QED
        BY <2>2, <3>1
    <2>6. Good(k - 1)
      BY <2>4, <2>5
    <2>7. Good((k - 1) + 1)
      <3> HIDE DEF Good
      <3>1. QED
        BY <1>8, <2>4, <2>6
    <2>8. QED
      BY <2>2, <2>4, <2>7
  <1>10. QED
    BY <1>5, <1>9

LEMMA WhiteAllOK ==
    ASSUME NEW b, BookOK(b), NEW list \in Seq(Addr), NEW c, c = WhiteAll(b, list)
    PROVE  BookOK(c) /\ White(c) \subseteq White(b) \cup Range(list)
  <1>1. PICK n \in Nat : n = Len(list)
    OBVIOUS
  <1>2. \A k \in 1..n : list[k] \in Addr /\ list[k] \in Range(list)
    BY <1>1 DEF Range
  <1>3. PICK f : f = CHOOSE g : WhiteAdding(b, list, TRUE, g, n)
    OBVIOUS
  <1>4. WhiteAdding(b, list, TRUE, f, n)
    BY <1>3, WhiteAddingExists
  <1>5. c = f[n]
    BY <1>1, <1>3 DEF WhiteAll, WhiteAdding
  <1>6. f[0] = b
    BY <1>4 DEF WhiteAdding
  <1> DEFINE Good(k) == BookOK(f[k]) /\ White(f[k]) \subseteq White(b) \cup Range(list)
  <1>7. Good(0)
    BY <1>6
  <1>8. ASSUME NEW k \in 0..(n - 1), Good(k) PROVE Good(k + 1)
    <2>1. k + 1 \in 0..n /\ k + 1 # 0 /\ (k + 1) - 1 = k /\ k + 1 \in 1..n
      OBVIOUS
    <2>2. f[k + 1] = AddWhite(f[k], list[k + 1], TRUE)
      BY <1>4, <2>1 DEF WhiteAdding
    <2>3. PICK a \in Addr : a = list[k + 1] /\ a \in Range(list)
      BY <1>2, <2>1
    <2>4. BookOK(f[k + 1]) /\ White(f[k + 1]) \subseteq White(f[k]) \cup {a}
      <3>1. PICK d : d = f[k]
        OBVIOUS
      <3>2. PICK y : y = AddWhite(d, a, TRUE)
        OBVIOUS
      <3>3. BookOK(d) /\ f[k + 1] = y
        BY <1>8, <2>2, <2>3, <3>1, <3>2
      <3>5. BookOK(y) /\ White(y) \subseteq White(d) \cup {a}
        <4>1. BookOK(d) /\ a \in Addr /\ y = AddWhite(d, a, TRUE)
          BY <2>3, <3>2, <3>3
        <4>2. QED
          BY ONLY <4>1, AddWhiteSeen
      <3>6. QED
        BY <3>1, <3>3, <3>5
    <2>5. QED
      BY <1>8, <2>3, <2>4
  <1>9. Good(n)
    <2> DEFINE Bad == {k \in 0..n : ~ Good(k)}
    <2>1. SUFFICES ASSUME Bad # {} PROVE FALSE
      BY <1>1
    <2>2. PICK k \in Bad : \A j \in Bad : k <= j
      <3>1. Bad \in SUBSET Nat
        BY <1>1
      <3> HIDE DEF Bad
      <3>2. QED
        BY <2>1, <3>1, LeastIndex
    <2>3. k # 0 /\ k \in 0..n
      BY <1>7, <2>2
    <2>4. k - 1 \in 0..(n - 1) /\ k - 1 \in 0..n /\ (k - 1) + 1 = k
      BY <1>1, <2>3
    <2>5. k - 1 \notin Bad
      <3>1. ~ (k <= k - 1)
        BY <2>3
      <3> HIDE DEF Bad
      <3>2. QED
        BY <2>2, <3>1
    <2>6. Good(k - 1)
      BY <2>4, <2>5
    <2>7. Good((k - 1) + 1)
      <3> HIDE DEF Good
      <3>1. QED
        BY <1>8, <2>4, <2>6
    <2>8. QED
      BY <2>2, <2>4, <2>7
  <1>10. QED
    BY <1>5, <1>9

(* `merge_peerlist`: nothing a peer mentions becomes white. *)
LEMMA MergeOK ==
    ASSUME NEW b, BookOK(b), NEW list \in Seq(Addr), NEW lost, NEW c, c = MergePeerlist(b, list, lost)
    PROVE  BookOK(c) /\ White(c) = White(b)
  <1>1. PICK S : S = Admitted(b, lost)
    OBVIOUS
  <1>2. PICK r : r = Retained(list, S)
    OBVIOUS
  <1>3. r \in Seq(Addr)
    BY <1>2, RetainedIs
  <1>4. c = GrayAll(b, r, FALSE)
    BY <1>1, <1>2 DEF MergePeerlist
  <1>5. QED
    BY <1>3, <1>4, GrayAllOK

LEMMA AddrsTyped ==
    ASSUME NEW g \in Seq(Entry), GrayGood(g), NEW s, s = [k \in DOMAIN g |-> g[k].addr]
    PROVE  s \in Seq(Addr) /\ IsInjective(s)
  <1>1. PICK n \in Nat : n = Len(g)
    OBVIOUS
  <1>2. DOMAIN g = 1..n
    BY <1>1
  <1>3. \A k \in 1..n : g[k].addr \in Addr
    <2>1. \A k \in 1..n : g[k] \in Entry
      BY <1>1
    <2>2. QED
      BY <2>1 DEF Entry
  <1>4. s \in [1..n -> Addr]
    BY <1>2, <1>3
  <1>5. s \in Seq(Addr)
    BY <1>4
  <1>6. IsInjective(s)
    BY DEF IsInjective, GrayGood
  <1>7. QED
    BY <1>5, <1>6

LEMMA InOrderTyped ==
    ASSUME NEW s \in Seq(Addr), IsInjective(s)
    PROVE  InOrder(s) \in Seq(Addr)
  <1>1. PICK n \in Nat : n = Len(s)
    OBVIOUS
  <1>2. DOMAIN s = 1..n /\ Range(s) \subseteq Addr
    BY <1>1 DEF Range
  <1>3. s \in [DOMAIN s -> Range(s)]
    BY DEF Range
  <1>4. InOrder(s) \in [DOMAIN s -> Range(s)]
    BY <1>3 DEF InOrder
  <1>5. InOrder(s) \in [1..n -> Addr]
    BY <1>2, <1>4
  <1>6. QED
    BY <1>5

(* The state file: a book read back is in order, and nothing is white that
   was not. *)
LEMMA ReadBackOK ==
    ASSUME NEW b, BookOK(b), NEW c, c = ReadBack(b)
    PROVE  BookOK(c) /\ White(c) \subseteq White(b)
  <1>1. PICK g \in Seq(Entry) : g = b.gray /\ GrayGood(g)
    BY DEF BookOK
  <1>2. b.white \in Seq(Addr) /\ White(b) = Range(b.white) /\ b.anchors \in SUBSET Addr /\ b.bans \in SUBSET Host
    BY BookParts
  <1>3. PICK bare : bare = [EmptyBook EXCEPT !.anchors = b.anchors, !.bans = b.bans]
    OBVIOUS
  <1>4. BookOK(bare) /\ White(bare) = {}
    <2>1. /\ bare.white = EmptyBook.white /\ bare.gray = EmptyBook.gray
          /\ bare \in [white : Seq(Addr), gray : Seq(Entry), anchors : SUBSET Addr, bans : SUBSET Host]
      <3>1. EmptyBook \in [white : Seq(Addr), gray : Seq(Entry), anchors : SUBSET Addr, bans : SUBSET Host]
        BY EmptyBookOK DEF BookOK
      <3>2. QED
        BY <1>2, <1>3, <3>1
    <2>2. QED
      BY <2>1, EmptyBookOK DEF BookOK, White
  <1>5. PICK white : white = WhiteAll(bare, b.white)
    OBVIOUS
  <1>6. BookOK(white) /\ White(white) \subseteq White(b)
    BY <1>2, <1>4, <1>5, WhiteAllOK
  <1>7. PICK h : h = Heard(g, FALSE)
    OBVIOUS
  <1>8. PICK t : t = Heard(g, TRUE)
    OBVIOUS
  <1>9. PICK hs : hs = [k \in DOMAIN h |-> h[k].addr]
    OBVIOUS
  <1>10. PICK ts : ts = [k \in DOMAIN t |-> t[k].addr]
    OBVIOUS
  <1>11. h \in Seq(Entry) /\ GrayGood(h)
    BY <1>1, <1>7, HeardIs
  <1>12. t \in Seq(Entry) /\ GrayGood(t)
    BY <1>1, <1>8, HeardIs
  <1>13. hs \in Seq(Addr) /\ IsInjective(hs)
    BY <1>9, <1>11, AddrsTyped
  <1>14. ts \in Seq(Addr)
    BY <1>10, <1>12, AddrsTyped
  <1>15. PICK q : q = InOrder(hs)
    OBVIOUS
  <1>16. q \in Seq(Addr)
    BY <1>13, <1>15, InOrderTyped
  <1>17. PICK mentioned : mentioned = GrayAll(white, q, FALSE)
    OBVIOUS
  <1>18. BookOK(mentioned) /\ White(mentioned) = White(white)
    BY <1>6, <1>16, <1>17, GrayAllOK
  <1>19. c = GrayAll(mentioned, ts, TRUE)
    BY <1>1, <1>3, <1>5, <1>7, <1>8, <1>9, <1>10, <1>15, <1>17 DEF ReadBack
  <1>20. BookOK(c) /\ White(c) = White(mentioned)
    BY <1>14, <1>18, <1>19, GrayAllOK
  <1>21. QED
    BY <1>6, <1>18, <1>20

-----------------------------------------------------------------------------
(* The book of the running node and the one of the state file. *)

(* That this node has reached what is white rests on where white addresses
   come from: the file, and the threads that had an answer. *)
BookInv ==
    /\ BookOK(book) /\ White(book) \subseteq reached
    /\ BookOK(saved) /\ White(saved) \subseteq reached
    /\ \A a \in Addr : out[a] = "answered" => a \in reached
    /\ \A c \in Outgoing : c.addr \in reached

(* A list, whoever sent it, adds nothing to the white list. *)
LEMMA MergedOK ==
    ASSUME BookInv, NEW a \in Addr, NEW merged, merged = Merged(a)
    PROVE  BookOK(merged) /\ White(merged) = White(book)
  <1>1. PICK list \in Seq(Addr) : list = ListOf[a]
    BY PeersAssumption
  <1>2. PICK shunned : shunned = failed \cup BanList
    OBVIOUS
  <1>3. merged = MergePeerlist(book, list, shunned)
    BY <1>1, <1>2 DEF Merged
  <1>4. BookOK(book)
    BY DEF BookInv
  <1>5. QED
    BY <1>3, <1>4, MergeOK

LEMMA FiledOK ==
    ASSUME BookInv, NEW a \in Addr, Filed(a)
    PROVE  BookOK(book') /\ White(book') \subseteq reached \cup {a}
  <1>1. PICK merged : merged = Merged(a) /\ book' = AddWhite(merged, a, TRUE)
    BY DEF Filed
  <1>2. BookOK(book) /\ White(book) \subseteq reached
    BY DEF BookInv
  <1>3. BookOK(merged) /\ White(merged) = White(book)
    BY <1>1, MergedOK
  <1>4. BookOK(book') /\ White(book') \subseteq White(merged) \cup {a}
    <2>1. PICK c : c = AddWhite(merged, a, TRUE)
      OBVIOUS
    <2>2. BookOK(merged) /\ a \in Addr /\ c = AddWhite(merged, a, TRUE)
      BY <1>3, <2>1
    <2>3. BookOK(c) /\ White(c) \subseteq White(merged) \cup {a}
      BY ONLY <2>2, AddWhiteSeen
    <2>4. book' = c
      BY <1>1, <2>1
    <2>5. QED
      BY <2>3, <2>4
  <1>5. QED
    BY <1>2, <1>3, <1>4

(* What a ban or its end changes of a book is not in the lists. *)
LEMMA BansOK ==
    ASSUME NEW b, BookOK(b), NEW h \in SUBSET Host, NEW c, c = [b EXCEPT !.bans = h]
    PROVE  BookOK(c) /\ White(c) = White(b)
  <1>1. /\ c.white = b.white /\ c.gray = b.gray
        /\ c \in [white : Seq(Addr), gray : Seq(Entry), anchors : SUBSET Addr, bans : SUBSET Host]
    BY DEF BookOK
  <1>2. QED
    BY <1>1 DEF BookOK, White

LEMMA AnchorsOK ==
    ASSUME NEW b, BookOK(b), NEW s \in SUBSET Addr, NEW c, c = [b EXCEPT !.anchors = s]
    PROVE  BookOK(c) /\ White(c) = White(b)
  <1>1. /\ c.white = b.white /\ c.gray = b.gray
        /\ c \in [white : Seq(Addr), gray : Seq(Entry), anchors : SUBSET Addr, bans : SUBSET Host]
    BY DEF BookOK
  <1>2. QED
    BY <1>1 DEF BookOK, White

LEMMA BookInit == Init => BookInv
  BY EmptyBookOK DEF Init, BookInv, Outgoing

(* A restart, from the file or from what was just written to it. *)
LEMMA RestartOK ==
    ASSUME BookInv, NEW file, BookOK(file), White(file) \subseteq reached, StartFrom(file)
    PROVE  BookInv'
  <1>1. book' = ReadBack(file) /\ saved' = file /\ conns' = {} /\ reached' = reached
    BY DEF StartFrom
  <1>2. BookOK(book') /\ White(book') \subseteq White(file)
    <2>1. PICK c : c = ReadBack(file)
      OBVIOUS
    <2>2. BookOK(c) /\ White(c) \subseteq White(file)
      BY <2>1, ReadBackOK
    <2>3. QED
      BY <1>1, <2>1, <2>2
  <1>3. \A a \in Addr : out'[a] # "answered"
    BY DEF StartFrom
  <1>4. QED
    BY <1>1, <1>2, <1>3 DEF BookInv, Outgoing

LEMMA BookNext == BookInv /\ OneInv /\ DialInv /\ [Next]_vars => BookInv'
  <1> SUFFICES ASSUME BookInv, OneInv, DialInv, [Next]_vars PROVE BookInv'
    OBVIOUS
  <1>1. \A c \in conns : c.addr \in Addr /\ c.incoming \in BOOLEAN
    BY DEF OneInv, Conn
  <1>2. out \in [Addr -> {"none", "dialing", "answered"}]
    BY DEF DialInv, Threads
  <1>3. BookOK(book) /\ White(book) \subseteq reached /\ BookOK(saved) /\ White(saved) \subseteq reached
    BY DEF BookInv
  <1>4. \A a \in Addr : out[a] = "answered" => a \in reached
    BY DEF BookInv
  <1>5. \A c \in conns : ~ c.incoming => c.addr \in reached
    BY DEF BookInv, Outgoing
  (* A step that only lets threads end or connections go. *)
  <1>6. ASSUME BookOK(book'), White(book') \subseteq reached', reached \subseteq reached',
               saved' = saved \/ saved' = book,
               \A a \in Addr : out'[a] = "answered" => out[a] = "answered" \/ a \in reached',
               \A c \in conns' : ~ c.incoming => c.addr \in reached'
        PROVE  BookInv'
    <2>1. BookOK(saved') /\ White(saved') \subseteq reached'
      BY <1>3, <1>6
    <2>2. \A a \in Addr : out'[a] = "answered" => a \in reached'
      BY <1>4, <1>6
    <2>3. \A c \in Outgoing' : c.addr \in reached'
      BY <1>6 DEF Outgoing
    <2>4. QED
      BY <1>6, <2>1, <2>2, <2>3 DEF BookInv
  <1>7. CASE MakeConnections
    <2>1. PICK a \in Candidates : out' = [out EXCEPT ![a] = "dialing"] \/ out' = out
      BY <1>7 DEF MakeConnections
    <2>2. a \in Addr
      BY CandidatesFree
    <2>3. book' = book /\ saved' = saved /\ conns' = conns /\ reached' = reached
      BY <1>7 DEF MakeConnections
    <2>4. \A x \in Addr : out'[x] = "answered" => out[x] = "answered"
      BY <1>2, <2>1, <2>2
    <2>5. QED
      BY <1>3, <1>5, <1>6, <2>3, <2>4
  <1>8. ASSUME NEW a \in Addr, DialFails(a) PROVE BookInv'
    <2>1. book' = book /\ saved' = saved /\ conns' = conns /\ reached' = reached
      BY <1>8 DEF DialFails
    <2>2. \A x \in Addr : out'[x] = "answered" => out[x] = "answered"
      BY <1>2, <1>8 DEF DialFails
    <2>3. QED
      BY <1>3, <1>5, <1>6, <2>1, <2>2
  <1>9. ASSUME NEW a \in Addr, DialAnswered(a) PROVE BookInv'
    <2>1. Filed(a) /\ reached' = reached \cup {a} /\ saved' = saved /\ conns' = conns
      BY <1>9 DEF DialAnswered
    <2>2. BookOK(book') /\ White(book') \subseteq reached'
      BY <2>1, FiledOK
    <2>3. \A x \in Addr : out'[x] = "answered" => out[x] = "answered" \/ x \in reached'
      BY <1>2, <1>9, <2>1 DEF DialAnswered
    <2>4. QED
      BY <1>5, <1>6, <2>1, <2>2, <2>3
  <1>10. ASSUME NEW a \in Addr, DialRegisters(a) PROVE BookInv'
    <2>1. book' = book /\ saved' = saved /\ conns' = Registered(a, FALSE) /\ reached' = reached
      BY <1>10 DEF DialRegisters
    <2>2. a \in reached
      BY <1>4, <1>10 DEF DialRegisters
    <2>3. \A x \in Addr : out'[x] = "answered" => out[x] = "answered"
      BY <1>2, <1>10 DEF DialRegisters
    <2>4. \A c \in conns' : c \in conns \/ c.addr = a
      BY <2>1 DEF Registered
    <2>5. \A c \in conns' : ~ c.incoming => c.addr \in reached'
      BY <1>5, <2>1, <2>2, <2>4
    <2>6. QED
      BY <1>3, <1>6, <2>1, <2>3, <2>5
  <1>11. ASSUME NEW c \in conns, TimedSynced(c) PROVE BookInv'
    <2>1. PICK a : a = c.addr
      OBVIOUS
    <2>2. a \in Addr /\ reached' = reached /\ saved' = saved /\ conns' = conns /\ out' = out
      BY <1>1, <1>11, <2>1 DEF TimedSynced
    <2>3. CASE c.incoming
      <3>1. book' = Merged(a)
        BY <1>11, <2>1, <2>3 DEF TimedSynced
      <3>2. BookOK(book') /\ White(book') = White(book)
        BY <2>2, <3>1, MergedOK
      <3>3. QED
        BY <1>3, <1>5, <1>6, <2>2, <3>2
    <2>4. CASE ~ c.incoming
      <3>1. Filed(a) /\ a \in reached
        BY <1>5, <1>11, <2>1, <2>4 DEF TimedSynced
      <3>2. BookOK(book') /\ White(book') \subseteq reached'
        BY <2>2, <3>1, FiledOK
      <3>3. QED
        BY <1>5, <1>6, <2>2, <3>2
    <2>5. QED
      BY <2>3, <2>4
  <1>12. ASSUME NEW a \in Addr, CheckAnswered(a) PROVE BookInv'
    <2>1. Filed(a) /\ reached' = reached \cup {a} /\ saved' = saved /\ conns' = conns /\ out' = out
      BY <1>12 DEF CheckAnswered
    <2>2. BookOK(book') /\ White(book') \subseteq reached'
      BY <2>1, FiledOK
    <2>3. QED
      BY <1>5, <1>6, <2>1, <2>2
  <1>13. ASSUME NEW a \in Addr, CheckFails(a) PROVE BookInv'
    <2>1. book' = RemoveGray(book, a) /\ reached' = reached /\ saved' = saved /\ conns' = conns /\ out' = out
      BY <1>13 DEF CheckFails
    <2>2. BookOK(book') /\ White(book') = White(book)
      BY <1>3, <2>1, RemoveGrayOK
    <2>3. QED
      BY <1>3, <1>5, <1>6, <2>1, <2>2
  <1>14. ASSUME NEW a \in Callers, Malformed(a) PROVE BookInv'
    <2>1. reached' = reached /\ saved' = saved /\ conns' = conns /\ out' = out
      BY <1>14 DEF Malformed
    <2>2. book' = book \/ book' = [book EXCEPT !.bans = book.bans \cup {HostOf[a]}]
      BY <1>14 DEF Malformed
    <2>3. a \in Addr /\ book.bans \in SUBSET Host
      BY <1>3, BookParts, PeersAssumption
    <2>4. PICK h \in SUBSET Host : h = book.bans \cup {HostOf[a]}
      BY <2>3 DEF Host
    <2>5. BookOK(book') /\ White(book') = White(book)
      BY <1>3, <2>2, <2>4, BansOK
    <2>6. QED
      BY <1>3, <1>5, <1>6, <2>1, <2>5
  <1>15. ASSUME NEW a \in Callers, InRegisters(a) PROVE BookInv'
    <2>1. book' = book /\ saved' = saved /\ conns' = Registered(a, TRUE) /\ reached' = reached /\ out' = out
      BY <1>15 DEF InRegisters
    <2>2. \A c \in conns' : c \in conns \/ c.incoming = TRUE
      BY <2>1 DEF Registered
    <2>3. \A c \in conns' : ~ c.incoming => c.addr \in reached'
      BY <1>5, <2>1, <2>2
    <2>4. QED
      BY <1>3, <1>6, <2>1, <2>3
  <1>16. ASSUME NEW a \in Callers, PingBack(a) PROVE BookInv'
    <2>1. saved' = saved /\ conns' = conns /\ out' = out /\ a \in Addr
      BY <1>16, PeersAssumption DEF PingBack
    <2>2. CASE book' = AddWhite(book, a, FALSE) /\ reached' = reached \cup {a}
      <3>1. \A t \in BOOLEAN : book' = AddWhite(book, a, t) => BookOK(book') /\ White(book') \subseteq White(book) \cup {a}
        BY <1>3, <2>1, AddWhiteOK
      <3>2. BookOK(book') /\ White(book') \subseteq White(book) \cup {a}
        BY <2>2, <3>1, Zenon
      <3>3. QED
        BY <1>3, <1>5, <1>6, <2>1, <2>2, <3>2
    <2>3. CASE book' = book /\ reached' = reached
      BY <1>3, <1>5, <1>6, <2>1, <2>3
    <2>4. QED
      BY <1>16, <2>2, <2>3 DEF PingBack
  <1>17. ASSUME NEW h \in Host, Ban(h) PROVE BookInv'
    <2>1. reached' = reached /\ saved' = saved /\ out' = out
      BY <1>17 DEF Ban
    <2>2. book' = [book EXCEPT !.bans = book.bans \cup {h}]
      BY <1>17 DEF Ban
    <2>3. PICK b \in SUBSET Host : b = book.bans \cup {h}
      BY <1>3, BookParts
    <2>4. BookOK(book') /\ White(book') = White(book)
      BY <1>3, <2>2, <2>3, BansOK
    <2>5. \A c \in conns' : ~ c.incoming => c.addr \in reached'
      <3>1. SUFFICES ASSUME NEW c \in conns', ~ c.incoming PROVE c.addr \in reached'
        OBVIOUS
      <3>2. PICK d \in conns : c = IF HostOf[d.addr] = h THEN [d EXCEPT !.closed = TRUE] ELSE d
        BY <1>17, <3>1 DEF Ban
      <3>3. d \in Conn
        BY DEF OneInv
      <3>4. c.addr = d.addr /\ c.incoming = d.incoming
        <4>1. CASE HostOf[d.addr] = h
          BY <3>2, <3>3, <4>1 DEF Conn
        <4>2. CASE HostOf[d.addr] # h
          BY <3>2, <4>2
        <4>3. QED
          BY <4>1, <4>2
      <3>5. QED
        BY <1>5, <2>1, <3>1, <3>4
    <2>6. QED
      BY <1>3, <1>6, <2>1, <2>4, <2>5
  <1>18. ASSUME NEW h \in Host, BanEnds(h) PROVE BookInv'
    <2>1. reached' = reached /\ saved' = saved /\ out' = out /\ conns' = conns
      BY <1>18 DEF BanEnds
    <2>2. book' = [book EXCEPT !.bans = book.bans \ {h}]
      BY <1>18 DEF BanEnds
    <2>3. PICK b \in SUBSET Host : b = book.bans \ {h}
      BY <1>3, BookParts
    <2>4. BookOK(book') /\ White(book') = White(book)
      BY <1>3, <2>2, <2>3, BansOK
    <2>5. QED
      BY <1>3, <1>5, <1>6, <2>1, <2>4
  <1>19. CASE Stop
    <2>1. PICK s \in SUBSET Addr : s = {c.addr : c \in Outgoing}
      BY <1>1 DEF Outgoing
    <2>2. PICK file : file = [book EXCEPT !.anchors = s]
      OBVIOUS
    <2>3. BookOK(file) /\ White(file) = White(book)
      BY <1>3, <2>2, AnchorsOK
    <2>4. StartFrom(file)
      BY <1>19, <2>1, <2>2 DEF Stop
    <2>5. QED
      BY <1>3, <2>3, <2>4, RestartOK
  <1>20. CASE Crash
    <2>1. StartFrom(saved)
      BY <1>20 DEF Crash
    <2>2. QED
      BY <1>3, <2>1, RestartOK
  <1>21. ASSUME book' = book, reached' = reached, out' = out, conns' \subseteq conns,
                saved' = saved \/ saved' = book
         PROVE  BookInv'
    BY <1>3, <1>5, <1>6, <1>21
  <1>22. CASE \E c \in conns : Ends(c)
    BY <1>21, <1>22 DEF Ends
  <1>23. CASE (\E a \in Addr : CheckGray(a)) \/ (\E a \in Callers : Accept(a) \/ Handshake(a))
    BY <1>21, <1>23 DEF CheckGray, Accept, Handshake
  <1>24. CASE (\E a \in Addr : RetryAfter(a)) \/ ForgetFailures \/ Save \/ UNCHANGED vars
    BY <1>21, <1>24 DEF RetryAfter, ForgetFailures, Save, vars
  <1>25. QED
    BY <1>7, <1>8, <1>9, <1>10, <1>11, <1>12, <1>13, <1>14, <1>15, <1>16, <1>17, <1>18, <1>19,
       <1>20, <1>22, <1>23, <1>24 DEF Next

-----------------------------------------------------------------------------
(* The limits. *)

(* MAX_DIALING is looked at by make_connections only; the check of the gray
   list dials besides, one address at a time. *)
FewDials ==
    /\ IsFiniteSet(dialing)
    /\ Cardinality(dialing) <= MaxDialing + 1
    /\ (\A a \in Addr : ~ check[a]) => Cardinality(dialing) <= MaxDialing

LEMMA FewInit == Init => FewDials
  <1>1. MaxDialing \in Nat
    BY PeersAssumption
  <1>2. IsFiniteSet({}) /\ Cardinality({}) = 0
    BY FS_EmptySet
  <1>3. QED
    BY <1>1, <1>2 DEF Init, FewDials

LEMMA FewNext == FewDials /\ DialInv /\ [Next]_vars => FewDials'
  <1> SUFFICES ASSUME FewDials, DialInv, [Next]_vars PROVE FewDials'
    OBVIOUS
  <1>1. MaxDialing \in Nat /\ IsFiniteSet(dialing) /\ Cardinality(dialing) \in Nat
    BY PeersAssumption, FS_CardinalityType DEF FewDials
  <1>2. Cardinality(dialing) <= MaxDialing + 1
    BY DEF FewDials
  <1>3. check \in [Addr -> BOOLEAN] /\ \A a \in Addr : check[a] => a \in dialing
    BY DEF DialInv, Threads, DialingExact
  <1>4. ASSUME NEW a, dialing' = dialing \cup {a}, Cardinality(dialing) < MaxDialing PROVE FewDials'
    <2>1. IsFiniteSet(dialing') /\ Cardinality(dialing') \in Nat /\ Cardinality(dialing') <= Cardinality(dialing) + 1
      BY <1>1, <1>4, FS_AddElement
    <2>2. QED
      BY <1>1, <1>4, <2>1 DEF FewDials
  <1>5. ASSUME NEW a, dialing' = dialing \ {a}, check' = check PROVE FewDials'
    <2>1. IsFiniteSet(dialing') /\ Cardinality(dialing') \in Nat /\ Cardinality(dialing') <= Cardinality(dialing)
      <3>1. CASE a \in dialing
        <4>1. IsFiniteSet(dialing') /\ Cardinality(dialing') = Cardinality(dialing) - 1
          BY <1>1, <1>5, <3>1, FS_RemoveElement
        <4>2. Cardinality(dialing') \in Nat
          BY <4>1, FS_CardinalityType
        <4>3. QED
          BY <1>1, <4>1, <4>2
      <3>2. CASE a \notin dialing
        <4>1. dialing' = dialing
          BY <1>5, <3>2
        <4>2. QED
          BY <1>1, <4>1
      <3>3. QED
        BY <3>1, <3>2
    <2>2. QED
      BY <1>1, <1>5, <2>1 DEF FewDials
  <1>6. ASSUME NEW a \in Addr, check[a], dialing' = dialing \ {a} PROVE FewDials'
    <2>1. a \in dialing
      BY <1>3, <1>6
    <2>2. IsFiniteSet(dialing') /\ Cardinality(dialing') = Cardinality(dialing) - 1
      BY <1>1, <1>6, <2>1, FS_RemoveElement
    <2>3. QED
      BY <1>1, <1>2, <2>2 DEF FewDials
  <1>7. ASSUME NEW a \in Addr, CheckGray(a) PROVE FewDials'
    <2>1. Cardinality(dialing) <= MaxDialing /\ dialing' = dialing \cup {a} /\ check' = [check EXCEPT ![a] = TRUE]
      BY <1>7 DEF CheckGray, FewDials
    <2>2. IsFiniteSet(dialing') /\ Cardinality(dialing') \in Nat /\ Cardinality(dialing') <= Cardinality(dialing) + 1
      BY <1>1, <2>1, FS_AddElement
    <2>3. check'[a]
      BY <1>3, <2>1
    <2>4. QED
      BY <1>1, <2>1, <2>2, <2>3 DEF FewDials
  <1>8. ASSUME UNCHANGED << dialing, check >> PROVE FewDials'
    BY <1>8 DEF FewDials
  <1>9. ASSUME NEW file, StartFrom(file) PROVE FewDials'
    <2>1. dialing' = {} /\ IsFiniteSet({}) /\ Cardinality({}) = 0
      BY <1>9, FS_EmptySet DEF StartFrom
    <2>2. QED
      BY <1>1, <2>1 DEF FewDials
  <1>10. CASE MakeConnections
    <2>1. Cardinality(dialing) < MaxDialing /\ check' = check
      BY <1>10 DEF MakeConnections
    <2>2. (\E a \in Candidates : dialing' = dialing \cup {a}) \/ dialing' = dialing
      BY <1>10 DEF MakeConnections
    <2>3. QED
      BY <1>4, <1>8, <2>1, <2>2
  <1>11. CASE \E a \in Addr : DialFails(a) \/ DialAnswered(a)
    BY <1>5, <1>11 DEF DialFails, DialAnswered
  <1>12. CASE \E a \in Addr : CheckAnswered(a) \/ CheckFails(a)
    BY <1>6, <1>12 DEF CheckAnswered, CheckFails
  <1>13. CASE Stop \/ Crash
    BY <1>9, <1>13 DEF Stop, Crash
  <1>14. CASE (\E a \in Addr : DialRegisters(a)) \/ (\E c \in conns : TimedSynced(c) \/ Ends(c))
    BY <1>8, <1>14 DEF DialRegisters, TimedSynced, Ends
  <1>15. CASE \E a \in Callers : Accept(a) \/ Malformed(a) \/ Handshake(a) \/ InRegisters(a)
                                   \/ PingBack(a)
    BY <1>8, <1>15 DEF Accept, Malformed, Handshake, InRegisters, PingBack
  <1>16. CASE (\E h \in Host : Ban(h) \/ BanEnds(h)) \/ (\E a \in Addr : RetryAfter(a))
               \/ ForgetFailures \/ Save
                \/ UNCHANGED vars
    BY <1>8, <1>16 DEF Ban, BanEnds, RetryAfter, ForgetFailures, Save, vars
  <1>17. QED
    BY <1>7, <1>10, <1>11, <1>12, <1>13, <1>14, <1>15, <1>16 DEF Next

RestTyped ==
    /\ tried \subseteq Addr /\ failed \subseteq Host /\ pings \subseteq Addr
    /\ fails \in [Host -> 0..(FailsBeforeBlock - 1)]
    /\ in \in [Addr -> {"none", "accepted", "answered"}]
    /\ reached \subseteq Addr
    /\ events \in 0..MaxEvents

LEMMA NoFails == [h \in Host |-> 0] \in [Host -> 0..(FailsBeforeBlock - 1)]
  <1>1. FailsBeforeBlock \in Nat \ {0}
    BY PeersAssumption
  <1>2. 0 \in 0..(FailsBeforeBlock - 1)
    BY <1>1
  <1>3. QED
    BY <1>2

LEMMA RestInit == Init => RestTyped
  <1>1. MaxEvents \in Nat
    BY PeersAssumption
  <1>2. QED
    BY <1>1, NoFails DEF Init, RestTyped

LEMMA RestNext == RestTyped /\ [Next]_vars => RestTyped'
  <1> SUFFICES ASSUME RestTyped, [Next]_vars PROVE RestTyped'
    OBVIOUS
  <1>1. MaxEvents \in Nat /\ FailsBeforeBlock \in Nat \ {0} /\ Callers \subseteq Addr
    BY PeersAssumption
  <1>2. \A a \in Addr : HostOf[a] \in Host
    BY DEF Host
  <1>3. ASSUME Happens PROVE events' \in 0..MaxEvents
    BY <1>1, <1>3 DEF Happens, RestTyped
  <1>4. CASE MakeConnections
    <2>1. PICK a \in Candidates : tried' = tried \cup {a}
      BY <1>4 DEF MakeConnections
    <2>2. a \in Addr
      BY CandidatesFree
    <2>3. events' \in 0..MaxEvents
      <3>1. Happens \/ events' = events
        BY <1>4 DEF MakeConnections
      <3>2. QED
        BY <1>3, <3>1 DEF RestTyped
    <2>4. QED
      BY <1>4, <2>1, <2>2, <2>3 DEF MakeConnections, RestTyped
  <1>5. ASSUME NEW a \in Addr, DialFails(a) \/ CheckFails(a) PROVE RestTyped'
    BY <1>2, <1>5 DEF DialFails, CheckFails, RestTyped
  <1>6. ASSUME NEW a \in Addr, DialAnswered(a) \/ CheckAnswered(a) PROVE RestTyped'
    BY <1>6 DEF DialAnswered, CheckAnswered, RestTyped
  <1>7. ASSUME NEW a \in Addr, DialRegisters(a) \/ CheckGray(a) PROVE RestTyped'
    BY <1>7 DEF DialRegisters, CheckGray, RestTyped
  <1>8. ASSUME NEW c \in conns, TimedSynced(c) PROVE RestTyped'
    BY <1>3, <1>8 DEF TimedSynced, RestTyped
  <1>9. ASSUME NEW a \in Callers, Accept(a) PROVE RestTyped'
    BY <1>1, <1>3, <1>9 DEF Accept, RestTyped
  <1>10. ASSUME NEW a \in Callers, Malformed(a) PROVE RestTyped'
    <2>1. PICK h \in Host : h = HostOf[a]
      BY <1>1, <1>2
    <2>2. fails[h] \in 0..(FailsBeforeBlock - 1)
      BY DEF RestTyped
    <2>3. fails' \in [Host -> 0..(FailsBeforeBlock - 1)]
      <3>1. CASE fails[h] + 1 >= FailsBeforeBlock
        <4>1. fails' = [fails EXCEPT ![h] = 0]
          BY <1>10, <2>1, <3>1 DEF Malformed
        <4>2. 0 \in 0..(FailsBeforeBlock - 1)
          BY <1>1
        <4>3. QED
          BY <4>1, <4>2 DEF RestTyped
      <3>2. CASE ~ (fails[h] + 1 >= FailsBeforeBlock)
        <4>1. fails' = [fails EXCEPT ![h] = fails[h] + 1]
          BY <1>10, <2>1, <3>2 DEF Malformed
        <4>2. fails[h] + 1 \in 0..(FailsBeforeBlock - 1)
          BY <1>1, <2>2, <3>2
        <4>3. QED
          BY <4>1, <4>2 DEF RestTyped
      <3>3. QED
        BY <3>1, <3>2
    <2>4. in' \in [Addr -> {"none", "accepted", "answered"}]
      BY <1>1, <1>10 DEF Malformed, RestTyped
    <2>5. UNCHANGED << tried, failed, pings, reached, events >>
      BY <1>10 DEF Malformed
    <2>6. QED
      BY <2>3, <2>4, <2>5 DEF RestTyped
  <1>11. ASSUME NEW a \in Callers, Handshake(a) PROVE RestTyped'
    <2>1. pings' \subseteq Addr /\ in' \in [Addr -> {"none", "accepted", "answered"}]
      BY <1>1, <1>11 DEF Handshake, RestTyped
    <2>2. UNCHANGED << tried, failed, fails, reached, events >>
      BY <1>11 DEF Handshake
    <2>3. QED
      BY <2>1, <2>2 DEF RestTyped
  <1>12. ASSUME NEW a \in Callers, InRegisters(a) PROVE RestTyped'
    BY <1>1, <1>12 DEF InRegisters, RestTyped
  <1>13. ASSUME NEW a \in Callers, PingBack(a) PROVE RestTyped'
    <2>1. a \in Addr
      BY <1>1
    <2>2. pings' \subseteq Addr /\ reached' \subseteq Addr
      BY <1>13, <2>1 DEF PingBack, RestTyped
    <2>3. UNCHANGED << tried, failed, fails, in, events >>
      BY <1>13 DEF PingBack
    <2>4. QED
      BY <2>2, <2>3 DEF RestTyped
  <1>14. ASSUME NEW c \in conns, Ends(c) PROVE RestTyped'
    <2>1. events' \in 0..MaxEvents
      BY <1>3, <1>14 DEF Ends, RestTyped
    <2>2. QED
      BY <1>14, <2>1 DEF Ends, RestTyped
  <1>15. ASSUME NEW h \in Host, Ban(h) PROVE RestTyped'
    BY <1>3, <1>15 DEF Ban, RestTyped
  <1>16. ASSUME NEW h \in Host, BanEnds(h) PROVE RestTyped'
    <2>1. 0 \in 0..(FailsBeforeBlock - 1)
      BY <1>1
    <2>2. fails' \in [Host -> 0..(FailsBeforeBlock - 1)]
      BY <1>16, <2>1 DEF BanEnds, RestTyped
    <2>3. QED
      BY <1>16, <2>2 DEF BanEnds, RestTyped
  <1>17. ASSUME NEW file, StartFrom(file), Happens PROVE RestTyped'
    BY <1>3, <1>17, NoFails DEF StartFrom, RestTyped
  <1>18. CASE Stop \/ Crash
    BY <1>17, <1>18 DEF Stop, Crash
  <1>19. CASE (\E a \in Addr : RetryAfter(a)) \/ ForgetFailures \/ Save \/ UNCHANGED vars
    BY <1>19 DEF RetryAfter, ForgetFailures, Save, vars, RestTyped
  <1>20. QED
    BY <1>4, <1>5, <1>6, <1>7, <1>8, <1>9, <1>10, <1>11, <1>12, <1>13, <1>14, <1>15, <1>16, <1>18,
       <1>19 DEF Next

PeersInv == DialInv /\ OneInv /\ BookInv /\ FewDials /\ RestTyped

LEMMA InvSound == PeersInv => BookSound
  <1> SUFFICES ASSUME PeersInv PROVE BookSound
    OBVIOUS
  <1>1. DialInv /\ OneInv /\ BookInv /\ FewDials /\ RestTyped
    BY DEF PeersInv
  <1>2. BookOK(book) /\ White(book) \subseteq reached
    BY <1>1 DEF BookInv
  <1>3. /\ White(book) = Range(book.white) /\ Gray(book) = AddrsOf(book.gray)
        /\ White(book) \subseteq Addr /\ Gray(book) \subseteq Addr
        /\ book.anchors \subseteq Addr /\ book.bans \subseteq Host
    BY <1>2, BookParts
  <1>4. TypeOK
    <2>1. dialing \subseteq Addr
      BY <1>1 DEF DialInv, DialingExact
    <2>2. Len(book.white) <= WhiteLimit /\ Len(book.gray) <= GrayLimit
      BY <1>2 DEF BookOK
    <2>3. out \in [Addr -> {"none", "dialing", "answered"}] /\ check \in [Addr -> BOOLEAN]
      BY <1>1 DEF DialInv, Threads
    <2>4. Cardinality(dialing) <= MaxDialing + 1 /\ conns \subseteq Conn
      BY <1>1 DEF FewDials, OneInv
    <2>5. QED
      BY <1>1, <1>3, <2>1, <2>2, <2>3, <2>4 DEF TypeOK, RestTyped
  <1>5. ListsApart
    <2>1. White(book) \cap Gray(book) = {}
      BY <1>2, <1>3 DEF BookOK
    <2>2. WhiteGood(book.white) /\ GrayGood(book.gray)
      BY <1>2 DEF BookOK
    <2>3. QED
      BY <2>1, <2>2 DEF ListsApart, WhiteGood, GrayGood
  <1>6. QED
    BY <1>2, <1>4, <1>5 DEF BookSound, WhiteIsVerified

(* Whatever peers mention, however dials, checks and pings end, and whenever
   the process stops or crashes: the address book is within its limits, has
   each address on one list and each host once on the white one, and this
   node has reached every address that is white (add_white, add_gray, trim,
   merge_peerlist, from_bytes, make_connections, gray_housekeeping,
   ping_back). *)
THEOREM BookSoundHolds == Spec => []BookSound
  <1>1. Init => PeersInv
    BY DialInit, OneInit, BookInit, FewInit, RestInit DEF PeersInv
  <1>2. PeersInv /\ [Next]_vars => PeersInv'
    BY DialNext, OneNext, BookNext, FewNext, RestNext DEF PeersInv
  <1>3. PeersInv => BookSound
    BY InvSound
  <1>4. QED
    BY <1>1, <1>2, <1>3, PTL DEF Spec
=============================================================================
