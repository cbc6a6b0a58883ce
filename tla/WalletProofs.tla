---------------------------- MODULE WalletProofs ----------------------------
(***************************************************************************)
(* Proofs about Wallet and the wallet's books (WalletState), for chains,   *)
(* reorganisations, batches and numbers of transactions of any size: the   *)
(* books agree with the blocks held, outputs are held back by what waits   *)
(* for a block and by nothing else, and where no refresh runs while a send *)
(* waits for its confirmation, a record names its own inputs.              *)
(***************************************************************************)
EXTENDS Wallet, TLAPS, SequenceTheorems, FiniteSetTheorems, NaturalsInduction, WellFoundedInduction

-----------------------------------------------------------------------------
(* What holds of a wallet's books, whatever the daemon does. *)

Block == [height : Nat, branch : Nat, tx : Tx \cup {NoTx}]

(* The blocks held and scanned, of any wallet. *)
ScannedFrom(s, h) == {b \in ToSet(s) : b.height >= h /\ b.tx # NoTx}
ScannedBy(v) == ScannedFrom(v.hashes, v.from)

OutsDistinct(s) == \A i, j \in DOMAIN s : s[i].out = s[j].out => i = j

(* Blocks held one after the other, from height h on. *)
HeightsFrom(s, h) == \A i \in DOMAIN s : s[i].height = h + i - 1

RecordsTyped(sent) == DOMAIN sent \subseteq Tx /\ \A t \in DOMAIN sent : sent[t] \in Sent

Shape(v) ==
    /\ v = [start |-> v.start, from |-> v.from, hashes |-> v.hashes, fill |-> v.fill,
            transfers |-> v.transfers, sent |-> v.sent]
    /\ v.start \in Nat /\ v.from \in Nat /\ v.start <= v.from
    /\ v.hashes \in Seq(Block) /\ v.fill \in Seq(Block) /\ v.transfers \in Seq(Transfer)
    /\ OutsDistinct(v.transfers) /\ RecordsTyped(v.sent)
    /\ HeightsFrom(v.hashes, v.start)

(* Transfers and the scanned blocks B agree; so do records and blocks. *)
Paid(s, B) ==
    /\ \A i \in DOMAIN s : \E b \in B : s[i].height = b.height /\ s[i].out \in ToSet(Pays[b.tx])
    /\ \A b \in B : \A o \in ToSet(Pays[b.tx]) :
          \E i \in DOMAIN s : s[i].out = o /\ s[i].height = b.height

Spent(s, B) ==
    /\ \A i \in DOMAIN s : \A b \in B : s[i].out \in Ins[b.tx] <=> s[i].spent = b.height
    /\ \A i \in DOMAIN s : s[i].spent > Waiting => \E b \in B : b.height = s[i].spent

Confirmed(sent, from, B) ==
    \A t \in DOMAIN sent : sent[t].state = "confirmed" /\ sent[t].height >= from =>
        \E b \in B : b.tx = t /\ b.height = sent[t].height

Matched(v) ==
    /\ \A b \in ScannedBy(v) : b.height > 0
    /\ Paid(v.transfers, ScannedBy(v)) /\ Spent(v.transfers, ScannedBy(v))
    /\ Confirmed(v.sent, v.from, ScannedBy(v))

(* Of the records `sent`, one that waits for a block spends o. *)
Awaited(sent, o) == \E t \in DOMAIN sent : sent[t].state = "pending" /\ o \in sent[t].images

HeldBack(s, sent) ==
    \A i \in DOMAIN s : /\ Awaited(sent, s[i].out) => s[i].spent # Unspent
                        /\ s[i].spent = Waiting => Awaited(sent, s[i].out)

ItsInputs(sent) == \A t \in DOMAIN sent : sent[t].images \subseteq Ins[t]

Tied(v) == HeldBack(v.transfers, v.sent) /\ ItsInputs(v.sent)

Books(v) == Shape(v) /\ Matched(v) /\ Tied(v)

(* Hashes gathered below the wallet's own stop short of them. *)
FillOK(v) ==
    v.fill # << >> =>
        /\ Fills(v) /\ HistoryBase(v) + Len(v.fill) < FillTarget(v)
        /\ v.fill[1] = Anchor(HistoryBase(v)) /\ HeightsFrom(v.fill, HistoryBase(v))

-----------------------------------------------------------------------------
(* The daemon's side, and where the wallet's blocks are on its chain. *)

Valid(c) ==
    /\ \A i, j \in DOMAIN c : i # j /\ c[i].tx # NoTx /\ c[j].tx # NoTx =>
          c[i].tx # c[j].tx /\ Ins[c[i].tx] \cap Ins[c[j].tx] = {}
    /\ \A i \in DOMAIN c : c[i].tx # NoTx => \A o \in Ins[c[i].tx] :
          \E k \in DOMAIN c : k < i /\ c[k].tx # NoTx /\ o \in ToSet(Pays[c[k].tx])

ChainOK ==
    /\ chain \in Seq(Block) /\ branch \in Nat /\ Len(chain) > Checkpoint
    /\ chain[1] = Anchor(0) /\ chain[Checkpoint + 1] = Anchor(Checkpoint)
    /\ HeightsFrom(chain, 0) /\ (\A i \in DOMAIN chain : chain[i].branch <= branch)
    /\ Valid(chain)

PoolOK ==
    /\ pool \subseteq relayed /\ relayed \subseteq DOMAIN rings /\ DOMAIN rings \subseteq Tx
    /\ TxsOf(chain) \subseteq relayed
    /\ \A t \in pool : Verifies(t, chain, rings[t])

OnChain(b) == b.height + 1 \in DOMAIN chain /\ chain[b.height + 1] = b

(* A block scanned that is of the branch the chain is at, is on the chain; and
   below one that is on the chain all are. *)
Follows(v) ==
    /\ \A i \in DOMAIN v.hashes : v.hashes[i].height >= v.from =>
          /\ v.hashes[i].branch <= branch
          /\ v.hashes[i].branch = branch => OnChain(v.hashes[i])
    /\ \A i, j \in DOMAIN v.hashes : i < j /\ v.hashes[i].height >= v.from =>
          (OnChain(v.hashes[j]) => OnChain(v.hashes[i]))

(* A send that waits was planned over the transfers as they are. *)
SendOK ==
    prepared # NoSend =>
        /\ Idle /\ prepared.tx \in OwnTx /\ prepared.tx \in DOMAIN rings
        /\ prepared.plan = {i \in DOMAIN w.transfers : w.transfers[i].out \in Ins[prepared.tx]}
        /\ \A i \in prepared.plan : w.transfers[i].spent = Unspent

WalletInv ==
    /\ ChainOK /\ PoolOK /\ SendOK /\ batch \in MinBatch..MaxBatch
    /\ Books(w) /\ FillOK(w) /\ Follows(w)
    /\ Books(saved) /\ FillOK(saved) /\ Follows(saved)

-----------------------------------------------------------------------------
(* Numbers and sequences. *)

(* Every non-empty set of naturals has a least element: what the inductions
   below rest on. *)
LEMMA LeastNumber ==
    ASSUME NEW T \in SUBSET Nat, T # {}
    PROVE  \E x \in T : \A y \in T : x <= y
  <1> DEFINE R == OpToRel(<, Nat)
  <1>1. IsWellFoundedOn(R, Nat)
    BY NatLessThanWellFounded, Zenon
  <1>2. \A x, y \in Nat : x < y => <<x, y>> \in R
    BY DEF OpToRel
  <1> HIDE DEF R
  <1>3. PICK x \in T : \A y \in T : ~ (<<y, x>> \in R)
    BY <1>1, WFMin
  <1>4. \A y \in T : ~ (y < x)
    BY <1>2, <1>3
  <1>5. QED
    BY <1>4

LEMMA PlacesOf ==
    ASSUME NEW T, NEW s \in Seq(T)
    PROVE  Len(s) \in Nat /\ DOMAIN s = 1..Len(s) /\ \A i \in DOMAIN s : s[i] \in T
  OBVIOUS

(* The recursions by which Retained, ScanAll and ListAll are defined have
   solutions. *)

Keeping(s, S, f, m) ==
    f = [k \in 0..m |-> IF k = 0 THEN << >> ELSE IF s[k] \in S THEN Append(f[k - 1], s[k]) ELSE f[k - 1]]

LEMMA KeepingExists ==
    ASSUME NEW s, NEW S, NEW m \in Nat
    PROVE  \E f : Keeping(s, S, f, m)
  <1> DEFINE T == {n \in Nat : ~ \E f : Keeping(s, S, f, n)}
  <1>1. SUFFICES ASSUME T # {} PROVE FALSE
    OBVIOUS
  <1>2. PICK n \in T : \A k \in T : n <= k
    <2>1. T \in SUBSET Nat
      OBVIOUS
    <2> HIDE DEF T
    <2>2. QED
      BY <1>1, <2>1, LeastNumber
  <1>3. n # 0
    <2>1. SUFFICES ASSUME n = 0 PROVE FALSE
      OBVIOUS
    <2>2. PICK f : f = [k \in {0} |-> << >>]
      OBVIOUS
    <2>3. 0..0 = {0}
      OBVIOUS
    <2>4. f = [k \in {0} |-> IF k = 0 THEN << >> ELSE IF s[k] \in S THEN Append(f[k - 1], s[k]) ELSE f[k - 1]]
      BY <2>2
    <2>5. Keeping(s, S, f, 0)
      BY <2>3, <2>4 DEF Keeping
    <2>6. QED
      BY <1>2, <2>1, <2>5
  <1>4. n - 1 \in Nat /\ n - 1 \notin T
    BY <1>2, <1>3
  <1>5. PICK f : Keeping(s, S, f, n - 1)
    BY <1>4
  <1>6. PICK g : g = [k \in 0..n |-> IF k < n THEN f[k] ELSE IF s[n] \in S THEN Append(f[n - 1], s[n]) ELSE f[n - 1]]
    OBVIOUS
  <1>7. \A k \in 0..n : g[k] = IF k = 0 THEN << >> ELSE IF s[k] \in S THEN Append(g[k - 1], s[k]) ELSE g[k - 1]
    <2>1. SUFFICES ASSUME NEW k \in 0..n
                   PROVE  g[k] = IF k = 0 THEN << >> ELSE IF s[k] \in S THEN Append(g[k - 1], s[k]) ELSE g[k - 1]
      OBVIOUS
    <2>2. \A j \in 0..(n - 1) : g[j] = f[j]
      BY <1>2, <1>6
    <2>3. CASE k < n
      <3>1. k \in 0..(n - 1) /\ (k # 0 => k - 1 \in 0..(n - 1))
        BY <1>2, <2>3
      <3>2. f[k] = IF k = 0 THEN << >> ELSE IF s[k] \in S THEN Append(f[k - 1], s[k]) ELSE f[k - 1]
        BY <1>5, <3>1 DEF Keeping
      <3>3. QED
        BY <2>2, <3>1, <3>2
    <2>4. CASE k = n
      <3>1. g[k] = IF s[n] \in S THEN Append(f[n - 1], s[n]) ELSE f[n - 1]
        BY <1>2, <1>6, <2>4
      <3>2. g[n - 1] = f[n - 1]
        BY <1>2, <1>3, <2>2
      <3>3. QED
        BY <1>3, <2>4, <3>1, <3>2
    <2>5. QED
      BY <1>2, <2>3, <2>4
  <1>8. Keeping(s, S, g, n)
    <2>1. g = [k \in 0..n |-> g[k]]
      BY <1>6
    <2>2. [k \in 0..n |-> g[k]] = [k \in 0..n |-> IF k = 0 THEN << >> ELSE IF s[k] \in S THEN Append(g[k - 1], s[k]) ELSE g[k - 1]]
      BY <1>7
    <2>3. QED
      BY <2>1, <2>2 DEF Keeping
  <1>9. QED
    BY <1>2, <1>8

Scanning(v, list, f, m) ==
    f = [k \in 0..m |-> IF k = 0 THEN v ELSE Scan(f[k - 1], list[k])]

LEMMA ScanningExists ==
    ASSUME NEW v, NEW list, NEW m \in Nat
    PROVE  \E f : Scanning(v, list, f, m)
  <1> DEFINE T == {n \in Nat : ~ \E f : Scanning(v, list, f, n)}
  <1>1. SUFFICES ASSUME T # {} PROVE FALSE
    OBVIOUS
  <1>2. PICK n \in T : \A k \in T : n <= k
    <2>1. T \in SUBSET Nat
      OBVIOUS
    <2> HIDE DEF T
    <2>2. QED
      BY <1>1, <2>1, LeastNumber
  <1>3. n # 0
    <2>1. SUFFICES ASSUME n = 0 PROVE FALSE
      OBVIOUS
    <2>2. PICK f : f = [k \in {0} |-> v]
      OBVIOUS
    <2>3. 0..0 = {0}
      OBVIOUS
    <2>4. f = [k \in {0} |-> IF k = 0 THEN v ELSE Scan(f[k - 1], list[k])]
      BY <2>2
    <2>5. Scanning(v, list, f, 0)
      BY <2>3, <2>4 DEF Scanning
    <2>6. QED
      BY <1>2, <2>1, <2>5
  <1>4. n - 1 \in Nat /\ n - 1 \notin T
    BY <1>2, <1>3
  <1>5. PICK f : Scanning(v, list, f, n - 1)
    BY <1>4
  <1>6. PICK g : g = [k \in 0..n |-> IF k < n THEN f[k] ELSE Scan(f[n - 1], list[n])]
    OBVIOUS
  <1>7. \A k \in 0..n : g[k] = IF k = 0 THEN v ELSE Scan(g[k - 1], list[k])
    <2>1. SUFFICES ASSUME NEW k \in 0..n
                   PROVE  g[k] = IF k = 0 THEN v ELSE Scan(g[k - 1], list[k])
      OBVIOUS
    <2>2. \A j \in 0..(n - 1) : g[j] = f[j]
      BY <1>2, <1>6
    <2>3. CASE k < n
      <3>1. k \in 0..(n - 1) /\ (k # 0 => k - 1 \in 0..(n - 1))
        BY <1>2, <2>3
      <3>2. f[k] = IF k = 0 THEN v ELSE Scan(f[k - 1], list[k])
        BY <1>5, <3>1 DEF Scanning
      <3>3. QED
        BY <2>2, <3>1, <3>2
    <2>4. CASE k = n
      <3>1. g[k] = Scan(f[n - 1], list[n])
        BY <1>2, <1>6, <2>4
      <3>2. g[n - 1] = f[n - 1]
        BY <1>2, <1>3, <2>2
      <3>3. QED
        BY <1>3, <2>4, <3>1, <3>2
    <2>5. QED
      BY <1>2, <2>3, <2>4
  <1>8. Scanning(v, list, g, n)
    <2>1. g = [k \in 0..n |-> g[k]]
      BY <1>6
    <2>2. [k \in 0..n |-> g[k]] = [k \in 0..n |-> IF k = 0 THEN v ELSE Scan(g[k - 1], list[k])]
      BY <1>7
    <2>3. QED
      BY <2>1, <2>2 DEF Scanning
  <1>9. QED
    BY <1>2, <1>8

Listing(v, list, f, m) ==
    f = [k \in 0..m |-> IF k = 0 THEN Gathered(v) ELSE IF list[k].height < FillTarget(v) THEN Listed(v, f[k - 1], list[k]) ELSE f[k - 1]]

LEMMA ListingExists ==
    ASSUME NEW v, NEW list, NEW m \in Nat
    PROVE  \E f : Listing(v, list, f, m)
  <1> DEFINE T == {n \in Nat : ~ \E f : Listing(v, list, f, n)}
  <1>1. SUFFICES ASSUME T # {} PROVE FALSE
    OBVIOUS
  <1>2. PICK n \in T : \A k \in T : n <= k
    <2>1. T \in SUBSET Nat
      OBVIOUS
    <2> HIDE DEF T
    <2>2. QED
      BY <1>1, <2>1, LeastNumber
  <1>3. n # 0
    <2>1. SUFFICES ASSUME n = 0 PROVE FALSE
      OBVIOUS
    <2>2. PICK f : f = [k \in {0} |-> Gathered(v)]
      OBVIOUS
    <2>3. 0..0 = {0}
      OBVIOUS
    <2>4. f = [k \in {0} |-> IF k = 0 THEN Gathered(v) ELSE IF list[k].height < FillTarget(v) THEN Listed(v, f[k - 1], list[k]) ELSE f[k - 1]]
      BY <2>2
    <2>5. Listing(v, list, f, 0)
      BY <2>3, <2>4 DEF Listing
    <2>6. QED
      BY <1>2, <2>1, <2>5
  <1>4. n - 1 \in Nat /\ n - 1 \notin T
    BY <1>2, <1>3
  <1>5. PICK f : Listing(v, list, f, n - 1)
    BY <1>4
  <1>6. PICK g : g = [k \in 0..n |-> IF k < n THEN f[k] ELSE IF list[n].height < FillTarget(v) THEN Listed(v, f[n - 1], list[n]) ELSE f[n - 1]]
    OBVIOUS
  <1>7. \A k \in 0..n : g[k] = IF k = 0 THEN Gathered(v) ELSE IF list[k].height < FillTarget(v) THEN Listed(v, g[k - 1], list[k]) ELSE g[k - 1]
    <2>1. SUFFICES ASSUME NEW k \in 0..n
                   PROVE  g[k] = IF k = 0 THEN Gathered(v) ELSE IF list[k].height < FillTarget(v) THEN Listed(v, g[k - 1], list[k]) ELSE g[k - 1]
      OBVIOUS
    <2>2. \A j \in 0..(n - 1) : g[j] = f[j]
      BY <1>2, <1>6
    <2>3. CASE k < n
      <3>1. k \in 0..(n - 1) /\ (k # 0 => k - 1 \in 0..(n - 1))
        BY <1>2, <2>3
      <3>2. f[k] = IF k = 0 THEN Gathered(v) ELSE IF list[k].height < FillTarget(v) THEN Listed(v, f[k - 1], list[k]) ELSE f[k - 1]
        BY <1>5, <3>1 DEF Listing
      <3>3. QED
        BY <2>2, <3>1, <3>2
    <2>4. CASE k = n
      <3>1. g[k] = IF list[n].height < FillTarget(v) THEN Listed(v, f[n - 1], list[n]) ELSE f[n - 1]
        BY <1>2, <1>6, <2>4
      <3>2. g[n - 1] = f[n - 1]
        BY <1>2, <1>3, <2>2
      <3>3. QED
        BY <1>3, <2>4, <3>1, <3>2
    <2>5. QED
      BY <1>2, <2>3, <2>4
  <1>8. Listing(v, list, g, n)
    <2>1. g = [k \in 0..n |-> g[k]]
      BY <1>6
    <2>2. [k \in 0..n |-> g[k]] = [k \in 0..n |-> IF k = 0 THEN Gathered(v) ELSE IF list[k].height < FillTarget(v) THEN Listed(v, g[k - 1], list[k]) ELSE g[k - 1]]
      BY <1>7
    <2>3. QED
      BY <2>1, <2>2 DEF Listing
  <1>9. QED
    BY <1>2, <1>8

(* r is what of the first n elements of s is in S, and m says where each of
   them stood. *)
Picks(m, r, s, n, S) ==
    /\ m \in [1..Len(r) -> 1..n]
    /\ \A j, k \in 1..Len(r) : j < k => m[j] < m[k]
    /\ \A k \in 1..Len(r) : r[k] = s[m[k]] /\ s[m[k]] \in S
    /\ \A i \in 1..n : s[i] \in S => \E k \in 1..Len(r) : m[k] = i

LEMMA PicksNone ==
    ASSUME NEW s, NEW S
    PROVE  \E m : Picks(m, << >>, s, 0, S)
  <1>1. PICK m : m = [k \in 1..0 |-> k]
    OBVIOUS
  <1>2. Len(<< >>) = 0 /\ m \in [1..0 -> 1..0]
    BY <1>1
  <1>3. Picks(m, << >>, s, 0, S)
    BY <1>2 DEF Picks
  <1>4. QED
    BY <1>3

LEMMA PicksOneMore ==
    ASSUME NEW T, NEW s, NEW S, NEW n \in Nat, NEW r \in Seq(T), NEW m, Picks(m, r, s, n, S),
           s[n + 1] \in T, s[n + 1] \in S
    PROVE  \E q : Picks(q, Append(r, s[n + 1]), s, n + 1, S)
  <1>1. PICK l \in Nat : l = Len(r)
    OBVIOUS
  <1>2. PICK t : t = Append(r, s[n + 1])
    OBVIOUS
  <1>3. Len(t) = l + 1 /\ t[l + 1] = s[n + 1] /\ \A k \in 1..l : t[k] = r[k]
    BY <1>1, <1>2
  <1>4. PICK q : q = [k \in 1..(l + 1) |-> IF k = l + 1 THEN n + 1 ELSE m[k]]
    OBVIOUS
  <1>5. \A k \in 1..l : m[k] \in 1..n /\ q[k] = m[k]
    BY <1>1, <1>4 DEF Picks
  <1>6. q[l + 1] = n + 1
    BY <1>4
  <1>7. \A k \in 1..(l + 1) : k = l + 1 \/ k \in 1..l
    OBVIOUS
  <1>8. q \in [1..(l + 1) -> 1..(n + 1)]
    <2>1. \A k \in 1..(l + 1) : q[k] \in 1..(n + 1)
      BY <1>5, <1>6, <1>7
    <2>2. QED
      BY <1>4, <2>1
  <1>9. \A j, k \in 1..(l + 1) : j < k => q[j] < q[k]
    <2>1. SUFFICES ASSUME NEW j \in 1..(l + 1), NEW k \in 1..(l + 1), j < k PROVE q[j] < q[k]
      OBVIOUS
    <2>2. j \in 1..l
      BY <2>1
    <2>3. CASE k = l + 1
      BY <1>5, <1>6, <2>2, <2>3
    <2>4. CASE k \in 1..l
      <3>1. m[j] < m[k]
        BY <1>1, <2>1, <2>2, <2>4 DEF Picks
      <3>2. QED
        BY <1>5, <2>2, <2>4, <3>1
    <2>5. QED
      BY <1>7, <2>3, <2>4
  <1>10. \A k \in 1..(l + 1) : t[k] = s[q[k]] /\ s[q[k]] \in S
    <2>1. \A k \in 1..l : r[k] = s[m[k]] /\ s[m[k]] \in S
      BY <1>1 DEF Picks
    <2>2. QED
      BY <1>3, <1>5, <1>6, <1>7, <2>1
  <1>11. \A i \in 1..(n + 1) : s[i] \in S => \E k \in 1..(l + 1) : q[k] = i
    <2>1. SUFFICES ASSUME NEW i \in 1..(n + 1), s[i] \in S PROVE \E k \in 1..(l + 1) : q[k] = i
      OBVIOUS
    <2>2. CASE i = n + 1
      BY <1>6, <2>2
    <2>3. CASE i \in 1..n
      <3>1. PICK k \in 1..l : m[k] = i
        BY <1>1, <2>1, <2>3 DEF Picks
      <3>2. k \in 1..(l + 1) /\ q[k] = i
        BY <1>5, <3>1
      <3>3. QED
        BY <3>2
    <2>4. QED
      BY <2>2, <2>3
  <1>12. Picks(q, t, s, n + 1, S)
    BY <1>3, <1>8, <1>9, <1>10, <1>11 DEF Picks
  <1>13. QED
    BY <1>2, <1>12

LEMMA PicksNoMore ==
    ASSUME NEW s, NEW S, NEW n \in Nat, NEW r, Len(r) \in Nat, NEW m, Picks(m, r, s, n, S), s[n + 1] \notin S
    PROVE  Picks(m, r, s, n + 1, S)
  <1>1. m \in [1..Len(r) -> 1..(n + 1)]
    BY DEF Picks
  <1>2. \A i \in 1..(n + 1) : s[i] \in S => \E k \in 1..Len(r) : m[k] = i
    <2>1. SUFFICES ASSUME NEW i \in 1..(n + 1), s[i] \in S PROVE \E k \in 1..Len(r) : m[k] = i
      OBVIOUS
    <2>2. i # n + 1
      BY <2>1
    <2>3. i \in 1..n
      BY <2>2
    <2>4. QED
      BY <2>1, <2>3 DEF Picks
  <1>3. QED
    BY <1>1, <1>2 DEF Picks

(* retain keeps what is in S, in its order. *)
LEMMA RetainedPicks ==
    ASSUME NEW T, NEW s \in Seq(T), NEW S
    PROVE  Retained(s, S) \in Seq(T) /\ \E m : Picks(m, Retained(s, S), s, Len(s), S)
  <1>1. PICK n \in Nat : n = Len(s)
    OBVIOUS
  <1>2. \A k \in 1..n : s[k] \in T
    BY <1>1
  <1>3. PICK f : f = CHOOSE g : Keeping(s, S, g, n)
    OBVIOUS
  <1>4. Keeping(s, S, f, n)
    BY <1>3, KeepingExists
  <1>5. Retained(s, S) = f[n]
    BY <1>1, <1>3 DEF Retained, Keeping
  <1>6. f[0] = << >>
    BY <1>4 DEF Keeping
  <1> DEFINE Good(k) == f[k] \in Seq(T) /\ \E m : Picks(m, f[k], s, k, S)
  <1>7. Good(0)
    <2>1. << >> \in Seq(T)
      OBVIOUS
    <2>2. QED
      BY <1>6, <2>1, PicksNone
  <1>8. ASSUME NEW k \in 0..(n - 1), Good(k) PROVE Good(k + 1)
    <2>1. f[k + 1] = IF s[k + 1] \in S THEN Append(f[k], s[k + 1]) ELSE f[k]
      <3>1. k + 1 \in 0..n /\ k + 1 # 0 /\ (k + 1) - 1 = k
        OBVIOUS
      <3>2. QED
        BY <1>4, <3>1 DEF Keeping
    <2>2. PICK r \in Seq(T) : r = f[k]
      BY <1>8
    <2>3. PICK m : Picks(m, r, s, k, S)
      BY <1>8, <2>2
    <2>4. k \in Nat /\ s[k + 1] \in T /\ Len(r) \in Nat
      BY <1>2
    <2>5. CASE s[k + 1] \in S
      <3>1. f[k + 1] = Append(r, s[k + 1])
        BY <2>1, <2>2, <2>5
      <3>2. Append(r, s[k + 1]) \in Seq(T)
        BY <2>4
      <3>3. \E q : Picks(q, Append(r, s[k + 1]), s, k + 1, S)
        BY <2>3, <2>4, <2>5, PicksOneMore
      <3>4. QED
        BY <3>1, <3>2, <3>3
    <2>6. CASE s[k + 1] \notin S
      <3>1. f[k + 1] = r
        BY <2>1, <2>2, <2>6
      <3>2. Picks(m, r, s, k + 1, S)
        BY <2>3, <2>4, <2>6, PicksNoMore
      <3>3. QED
        BY <3>1, <3>2
    <2>7. QED
      BY <2>5, <2>6
  <1>9. Good(n)
    <2> DEFINE Bad == {k \in 0..n : ~ Good(k)}
    <2>1. SUFFICES ASSUME Bad # {} PROVE FALSE
      BY <1>1
    <2>2. PICK k \in Bad : \A j \in Bad : k <= j
      <3>1. Bad \in SUBSET Nat
        BY <1>1
      <3> HIDE DEF Bad
      <3>2. QED
        BY <2>1, <3>1, LeastNumber
    <2>3. k # 0 /\ k \in 0..n
      BY <1>7, <2>2
    <2>4. k - 1 \in 0..(n - 1) /\ k - 1 \in 0..n /\ (k - 1) + 1 = k
      BY <1>1, <2>3
    <2>5. k - 1 \notin Bad
      <3>1. ~ (k <= k - 1)
        BY <2>3
      <3> HIDE DEF Bad
      <3>2. QED
        BY <2>2, <3>1
    <2>6. Good(k - 1)
      BY <2>4, <2>5
    <2>7. Good((k - 1) + 1)
      <3> HIDE DEF Good
      <3>1. QED
        BY <1>8, <2>4, <2>6
    <2>8. QED
      BY <2>2, <2>4, <2>7
  <1>10. QED
    BY <1>1, <1>5, <1>9

(* So its elements are those of s that are in S, and two of them come from two
   places. *)
LEMMA RetainedIs ==
    ASSUME NEW T, NEW s \in Seq(T), NEW S
    PROVE  /\ Retained(s, S) \in Seq(T)
           /\ \A i \in DOMAIN s : s[i] \in S => \E k \in DOMAIN Retained(s, S) : Retained(s, S)[k] = s[i]
           /\ \A j, k \in DOMAIN Retained(s, S) : \E p, q \in DOMAIN s :
                 /\ Retained(s, S)[j] = s[p] /\ Retained(s, S)[k] = s[q] /\ s[p] \in S /\ s[q] \in S
                 /\ p = q => j = k
  <1>1. PICK r \in Seq(T) : r = Retained(s, S)
    BY RetainedPicks
  <1>2. PICK m : Picks(m, r, s, Len(s), S)
    BY <1>1, RetainedPicks
  <1>3. DOMAIN r = 1..Len(r) /\ DOMAIN s = 1..Len(s) /\ Len(r) \in Nat
    BY PlacesOf
  <1>4. \A i \in DOMAIN s : s[i] \in S => \E k \in DOMAIN r : r[k] = s[i]
    <2>1. SUFFICES ASSUME NEW i \in 1..Len(s), s[i] \in S PROVE \E k \in 1..Len(r) : r[k] = s[i]
      BY <1>3
    <2>2. PICK k \in 1..Len(r) : m[k] = i
      BY <1>2, <2>1 DEF Picks
    <2>3. r[k] = s[i]
      BY <1>2, <2>2 DEF Picks
    <2>4. QED
      BY <2>3
  <1>5. ASSUME NEW j \in DOMAIN r, NEW k \in DOMAIN r
        PROVE  \E p, q \in DOMAIN s : r[j] = s[p] /\ r[k] = s[q] /\ s[p] \in S /\ s[q] \in S /\ (p = q => j = k)
    <2>1. /\ m[j] \in DOMAIN s /\ m[k] \in DOMAIN s
          /\ r[j] = s[m[j]] /\ r[k] = s[m[k]] /\ s[m[j]] \in S /\ s[m[k]] \in S
      BY <1>2, <1>3, <1>5 DEF Picks
    <2>2. m[j] = m[k] => j = k
      <3>1. (j < k => m[j] < m[k]) /\ (k < j => m[k] < m[j])
        BY <1>2, <1>3, <1>5 DEF Picks
      <3>2. j \in Nat /\ k \in Nat /\ m[j] \in Nat /\ m[k] \in Nat
        BY <1>3, <1>5, <2>1
      <3>3. QED
        BY <3>1, <3>2
    <2>3. QED
      BY <2>1, <2>2
  <1>6. QED
    BY <1>1, <1>4, <1>5

-----------------------------------------------------------------------------
(* Wallets that differ in their blocks, transfers and records. *)

With(v, H, T, S) ==
    [start |-> v.start, from |-> v.from, hashes |-> H, fill |-> v.fill, transfers |-> T, sent |-> S]

LEMMA BooksOf ==
    ASSUME NEW v, v.start \in Nat, v.from \in Nat, v.start <= v.from, v.fill \in Seq(Block),
           NEW H \in Seq(Block), NEW T \in Seq(Transfer), NEW S,
           HeightsFrom(H, v.start), OutsDistinct(T), RecordsTyped(S),
           \A b \in ScannedFrom(H, v.from) : b.height > 0,
           Paid(T, ScannedFrom(H, v.from)), Spent(T, ScannedFrom(H, v.from)),
           Confirmed(S, v.from, ScannedFrom(H, v.from)), HeldBack(T, S), ItsInputs(S)
    PROVE  Books(With(v, H, T, S))
  <1> DEFINE u == With(v, H, T, S)
  <1>1. /\ u.start = v.start /\ u.from = v.from /\ u.hashes = H /\ u.fill = v.fill /\ u.transfers = T
        /\ u.sent = S
    BY DEF With
  <1>2. u = [start |-> u.start, from |-> u.from, hashes |-> u.hashes, fill |-> u.fill,
             transfers |-> u.transfers, sent |-> u.sent]
    BY <1>1 DEF With
  <1> HIDE DEF u
  <1>3. Shape(u)
    BY <1>1, <1>2 DEF Shape
  <1>4. Matched(u)
    BY <1>1 DEF Matched, ScannedBy
  <1>5. Tied(u)
    BY <1>1 DEF Tied
  <1>6. Books(u)
    BY <1>3, <1>4, <1>5 DEF Books
  <1>7. QED
    BY <1>6 DEF u

LEMMA ShapeWith ==
    ASSUME NEW v, Shape(v)
    PROVE  v = With(v, v.hashes, v.transfers, v.sent)
  BY DEF Shape, With

LEMMA PartsOf ==
    ASSUME NEW v, Books(v)
    PROVE  /\ v.start \in Nat /\ v.from \in Nat /\ v.start <= v.from /\ v.fill \in Seq(Block)
           /\ v.hashes \in Seq(Block) /\ v.transfers \in Seq(Transfer)
           /\ HeightsFrom(v.hashes, v.start) /\ OutsDistinct(v.transfers) /\ RecordsTyped(v.sent)
           /\ \A b \in ScannedFrom(v.hashes, v.from) : b.height > 0
           /\ Paid(v.transfers, ScannedFrom(v.hashes, v.from))
           /\ Spent(v.transfers, ScannedFrom(v.hashes, v.from))
           /\ Confirmed(v.sent, v.from, ScannedFrom(v.hashes, v.from))
           /\ HeldBack(v.transfers, v.sent) /\ ItsInputs(v.sent)
  BY DEF Books, Shape, Matched, Tied, ScannedBy

LEMMA ScannedTyped ==
    ASSUME NEW H \in Seq(Block), NEW h
    PROVE  /\ \A b \in ScannedFrom(H, h) : b \in Block /\ b.height \in Nat /\ b.tx \in Tx
           /\ \A b : b \in ScannedFrom(H, h) <=> \E i \in DOMAIN H : H[i] = b /\ b.height >= h /\ b.tx # NoTx
  <1>1. \A i \in DOMAIN H : H[i] \in Block
    BY PlacesOf
  <1>2. \A b \in Block : b.height \in Nat /\ b.tx \in Tx \cup {NoTx}
    BY DEF Block
  <1>3. QED
    BY <1>1, <1>2 DEF ScannedFrom, ToSet

-----------------------------------------------------------------------------
(* Transfers that differ in what they say is spent. *)

Respent(t, s) ==
    /\ t \in Seq(Transfer) /\ DOMAIN t = DOMAIN s
    /\ \A i \in DOMAIN s : t[i].out = s[i].out /\ t[i].height = s[i].height

Marked(s, O, was, is) ==
    [i \in DOMAIN s |-> IF s[i].out \in O /\ s[i].spent = was THEN [s[i] EXCEPT !.spent = is] ELSE s[i]]

LEMMA TransferParts ==
    ASSUME NEW x \in Transfer
    PROVE  /\ x.out \in Out /\ x.height \in Nat /\ x.spent \in Nat \cup {Unspent}
           /\ x.spent \in Int
           /\ \A n \in Nat \cup {Unspent} :
                 /\ [x EXCEPT !.spent = n] \in Transfer
                 /\ [x EXCEPT !.spent = n].out = x.out /\ [x EXCEPT !.spent = n].height = x.height
                 /\ [x EXCEPT !.spent = n].spent = n
  BY DEF Transfer, Unspent

LEMMA FunctionIsSeq ==
    ASSUME NEW S, NEW T, NEW s \in Seq(S), NEW f, f = [i \in DOMAIN s |-> f[i]], \A i \in DOMAIN s : f[i] \in T
    PROVE  f \in Seq(T) /\ DOMAIN f = DOMAIN s /\ Len(f) = Len(s)
  <1>1. PICK n \in Nat : n = Len(s) /\ DOMAIN s = 1..n
    BY PlacesOf
  <1>2. f = [i \in 1..n |-> f[i]] /\ \A i \in 1..n : f[i] \in T
    BY <1>1
  <1>3. f \in [1..n -> T]
    BY <1>2
  <1>4. f \in Seq(T) /\ Len(f) = n
    BY <1>3
  <1>5. QED
    BY <1>1, <1>3, <1>4

LEMMA MarkedIs ==
    ASSUME NEW s \in Seq(Transfer), NEW O, NEW was, NEW is \in Nat \cup {Unspent}
    PROVE  /\ Respent(Marked(s, O, was, is), s)
           /\ \A i \in DOMAIN s : Marked(s, O, was, is)[i].spent
                 = IF s[i].out \in O /\ s[i].spent = was THEN is ELSE s[i].spent
  <1>1. PICK t : t = Marked(s, O, was, is)
    OBVIOUS
  <1>2. t = [i \in DOMAIN s |-> t[i]]
    BY <1>1 DEF Marked
  <1>3. \A i \in DOMAIN s : s[i] \in Transfer
    BY PlacesOf
  <1>4. \A i \in DOMAIN s : t[i] = IF s[i].out \in O /\ s[i].spent = was THEN [s[i] EXCEPT !.spent = is] ELSE s[i]
    BY <1>1 DEF Marked
  <1>5. \A i \in DOMAIN s : /\ t[i] \in Transfer /\ t[i].out = s[i].out /\ t[i].height = s[i].height
                            /\ t[i].spent = IF s[i].out \in O /\ s[i].spent = was THEN is ELSE s[i].spent
    <2>1. TAKE i \in DOMAIN s
    <2>2. PICK x \in Transfer : x = s[i]
      BY <1>3
    <2>3. PICK y : y = [x EXCEPT !.spent = is]
      OBVIOUS
    <2>4. y \in Transfer /\ y.out = x.out /\ y.height = x.height /\ y.spent = is
      BY <2>3, TransferParts
    <2>5. t[i] = IF x.out \in O /\ x.spent = was THEN y ELSE x
      BY <1>4, <2>2, <2>3
    <2>6. QED
      BY <2>2, <2>4, <2>5
  <1>6. t \in Seq(Transfer) /\ DOMAIN t = DOMAIN s
    BY <1>2, <1>5, FunctionIsSeq
  <1>7. QED
    BY <1>1, <1>5, <1>6 DEF Respent

LEMMA RespentKeeps ==
    ASSUME NEW s, NEW t, Respent(t, s), NEW B
    PROVE  /\ OutsDistinct(s) => OutsDistinct(t)
           /\ Paid(s, B) => Paid(t, B)
  <1>1. DOMAIN t = DOMAIN s /\ \A i \in DOMAIN s : t[i].out = s[i].out /\ t[i].height = s[i].height
    BY DEF Respent
  <1>2. OutsDistinct(s) => OutsDistinct(t)
    BY <1>1 DEF OutsDistinct
  <1>3. ASSUME Paid(s, B) PROVE Paid(t, B)
    <2>1. \A i \in DOMAIN t : \E b \in B : t[i].height = b.height /\ t[i].out \in ToSet(Pays[b.tx])
      BY <1>1, <1>3 DEF Paid
    <2>2. ASSUME NEW b \in B, NEW o \in ToSet(Pays[b.tx])
          PROVE  \E i \in DOMAIN t : t[i].out = o /\ t[i].height = b.height
      <3>1. PICK i \in DOMAIN s : s[i].out = o /\ s[i].height = b.height
        BY <1>3, <2>2 DEF Paid
      <3>2. QED
        BY <1>1, <3>1
    <2>3. QED
      BY <2>1, <2>2 DEF Paid
  <1>4. QED
    BY <1>2, <1>3

LEMMA SpentKeeps ==
    ASSUME NEW s, NEW t, Respent(t, s), NEW B, \A b \in B : b.height \in Nat /\ b.height > 0,
           \A i \in DOMAIN s : \/ t[i].spent = s[i].spent
                               \/ s[i].spent \in {Unspent, Waiting} /\ t[i].spent \in {Unspent, Waiting},
           Spent(s, B)
    PROVE  Spent(t, B)
  <1>1. SUFFICES ASSUME NEW i \in DOMAIN s
                 PROVE  /\ \A b \in B : t[i].out \in Ins[b.tx] <=> t[i].spent = b.height
                        /\ t[i].spent > Waiting => \E b \in B : b.height = t[i].spent
    BY DEF Spent, Respent
  <1>2. /\ t[i].out = s[i].out
        /\ \A b \in B : s[i].out \in Ins[b.tx] <=> s[i].spent = b.height
        /\ s[i].spent > Waiting => \E b \in B : b.height = s[i].spent
    BY DEF Respent, Spent
  <1>3. CASE t[i].spent = s[i].spent
    BY <1>2, <1>3
  <1>4. CASE s[i].spent \in {Unspent, Waiting} /\ t[i].spent \in {Unspent, Waiting}
    <2>1. \A b \in B : s[i].spent # b.height /\ t[i].spent # b.height
      BY <1>4 DEF Unspent, Waiting
    <2>2. ~ (t[i].spent > Waiting)
      BY <1>4 DEF Unspent, Waiting
    <2>3. QED
      BY <1>2, <2>1, <2>2
  <1>5. QED
    BY <1>1, <1>3, <1>4

(* spend_pending_inputs, and what it leaves. *)
LEMMA SpendPendingIs ==
    ASSUME NEW v, NEW H, NEW T, NEW S
    PROVE  SpendPendingInputs(With(v, H, T, S))
             = With(v, H, Marked(T, {o \in Out : Awaited(S, o)}, Unspent, Waiting), S)
  <1>1. \A o : IsPendingInput(With(v, H, T, S), o) <=> Awaited(S, o)
    BY DEF IsPendingInput, Records, Awaited, With
  <1>2. {o \in Out : IsPendingInput(With(v, H, T, S), o)} = {o \in Out : Awaited(S, o)}
    BY <1>1
  <1>3. SpendPendingInputs(With(v, H, T, S))
          = SetInputs(With(v, H, T, S), {o \in Out : Awaited(S, o)}, Unspent, Waiting)
    BY <1>2 DEF SpendPendingInputs
  <1>4. \A O : SetInputs(With(v, H, T, S), O, Unspent, Waiting) = With(v, H, Marked(T, O, Unspent, Waiting), S)
    BY DEF SetInputs, With, Marked
  <1>5. QED
    BY <1>3, <1>4

LEMMA PendingHolds ==
    ASSUME NEW T \in Seq(Transfer), NEW S,
           \A i \in DOMAIN T : T[i].spent = Waiting => Awaited(S, T[i].out)
    PROVE  HeldBack(Marked(T, {o \in Out : Awaited(S, o)}, Unspent, Waiting), S)
  <1>1. PICK t : t = Marked(T, {o \in Out : Awaited(S, o)}, Unspent, Waiting)
    OBVIOUS
  <1>2. Waiting \in Nat \cup {Unspent} /\ Waiting # Unspent
    BY DEF Waiting, Unspent
  <1>3. /\ DOMAIN t = DOMAIN T
        /\ \A i \in DOMAIN T : /\ t[i].out = T[i].out
                               /\ t[i].spent = IF T[i].out \in {o \in Out : Awaited(S, o)} /\ T[i].spent = Unspent
                                               THEN Waiting ELSE T[i].spent
    BY <1>1, <1>2, MarkedIs DEF Respent
  <1>4. \A i \in DOMAIN T : T[i].out \in Out
    BY PlacesOf, TransferParts
  <1>5. \A i \in DOMAIN T : /\ Awaited(S, T[i].out) => t[i].spent # Unspent
                            /\ t[i].spent = Waiting => Awaited(S, T[i].out)
    BY <1>2, <1>3, <1>4
  <1>6. HeldBack(t, S)
    BY <1>3, <1>5 DEF HeldBack
  <1>7. QED
    BY <1>1, <1>6

(* After the records have changed to S, spend_pending_inputs has the books in
   order again, if what waited still has something to wait for. *)
LEMMA SpendPendingBooks ==
    ASSUME NEW v, v.start \in Nat, v.from \in Nat, v.start <= v.from, v.fill \in Seq(Block),
           NEW H \in Seq(Block), NEW T \in Seq(Transfer), NEW S,
           HeightsFrom(H, v.start), OutsDistinct(T), RecordsTyped(S),
           \A b \in ScannedFrom(H, v.from) : b.height > 0,
           Paid(T, ScannedFrom(H, v.from)), Spent(T, ScannedFrom(H, v.from)),
           Confirmed(S, v.from, ScannedFrom(H, v.from)), ItsInputs(S),
           \A i \in DOMAIN T : T[i].spent = Waiting => Awaited(S, T[i].out)
    PROVE  \E t : /\ SpendPendingInputs(With(v, H, T, S)) = With(v, H, t, S)
                  /\ Books(With(v, H, t, S)) /\ Respent(t, T)
                  /\ \A i \in DOMAIN T : T[i].spent # Unspent => t[i].spent = T[i].spent
  <1>1. PICK t : t = Marked(T, {o \in Out : Awaited(S, o)}, Unspent, Waiting)
    OBVIOUS
  <1>2. SpendPendingInputs(With(v, H, T, S)) = With(v, H, t, S)
    BY <1>1, SpendPendingIs
  <1>3. Waiting \in Nat \cup {Unspent}
    BY DEF Waiting
  <1>4. /\ Respent(t, T)
        /\ \A i \in DOMAIN T : \/ t[i].spent = T[i].spent
                               \/ T[i].spent = Unspent /\ t[i].spent = Waiting
    <2>1. \A i \in DOMAIN T : t[i].spent = IF T[i].out \in {o \in Out : Awaited(S, o)} /\ T[i].spent = Unspent
                                           THEN Waiting ELSE T[i].spent
      <3>1. PICK O : O = {o \in Out : Awaited(S, o)}
        OBVIOUS
      <3>2. t = Marked(T, O, Unspent, Waiting)
        BY <1>1, <3>1
      <3>3. \A i \in DOMAIN T : t[i].spent = IF T[i].out \in O /\ T[i].spent = Unspent
                                             THEN Waiting ELSE T[i].spent
        BY <1>3, <3>2, MarkedIs
      <3>4. QED
        BY <3>1, <3>3
    <2>2. Respent(t, T)
      BY <1>1, <1>3, MarkedIs
    <2>3. QED
      BY <2>1, <2>2
  <1>5. PICK B : B = ScannedFrom(H, v.from)
    OBVIOUS
  <1>6. \A b \in B : b.height \in Nat /\ b.height > 0
    BY <1>5, ScannedTyped
  <1>7. Spent(t, B)
    <2>1. \A i \in DOMAIN T : \/ t[i].spent = T[i].spent
                              \/ T[i].spent \in {Unspent, Waiting} /\ t[i].spent \in {Unspent, Waiting}
      BY <1>4
    <2>2. Spent(T, B)
      BY <1>5
    <2>3. QED
      BY <1>4, <1>6, <2>1, <2>2, SpentKeeps
  <1>8. OutsDistinct(t) /\ Paid(t, B) /\ t \in Seq(Transfer)
    <2>1. Paid(T, B)
      BY <1>5
    <2>2. OutsDistinct(t) /\ Paid(t, B)
      BY <1>4, <2>1, RespentKeeps
    <2>3. QED
      BY <1>4, <2>2 DEF Respent
  <1>9. HeldBack(t, S)
    BY <1>1, PendingHolds
  <1>10. Books(With(v, H, t, S))
    BY <1>5, <1>7, <1>8, <1>9, BooksOf
  <1>11. \A i \in DOMAIN T : T[i].spent # Unspent => t[i].spent = T[i].spent
    BY <1>4
  <1>12. QED
    BY <1>2, <1>4, <1>10, <1>11


-----------------------------------------------------------------------------
(* What history.rs does to the records leaves the books in order. *)

(* u is v but for its blocks, its transfers and its records. *)
Beside(u, v, H) == u.start = v.start /\ u.from = v.from /\ u.fill = v.fill /\ u.hashes = H

LEMMA WithParts ==
    ASSUME NEW v, NEW H, NEW T, NEW S
    PROVE  /\ Beside(With(v, H, T, S), v, H)
           /\ With(v, H, T, S).transfers = T /\ With(v, H, T, S).sent = S
  BY DEF With, Beside

LEMMA WithOneSet ==
    ASSUME NEW v, NEW H, NEW T, NEW S, NEW X
    PROVE  /\ [With(v, H, T, S) EXCEPT !.sent = X] = With(v, H, T, X)
           /\ [With(v, H, T, S) EXCEPT !.transfers = X] = With(v, H, X, S)
           /\ [With(v, H, T, S) EXCEPT !.hashes = X] = With(v, X, T, S)
  <1>1. [With(v, H, T, S) EXCEPT !.sent = X] = With(v, H, T, X)
    BY DEF With
  <1>2. [With(v, H, T, S) EXCEPT !.transfers = X] = With(v, H, X, S)
    BY DEF With
  <1>3. [With(v, H, T, S) EXCEPT !.hashes = X] = With(v, X, T, S)
    BY DEF With
  <1>4. QED
    BY <1>1, <1>2, <1>3

LEMMA SentParts ==
    ASSUME NEW r \in Sent
    PROVE  /\ r.state \in {"pending", "failed", "confirmed"} /\ r.height \in Nat
           /\ r.own \in BOOLEAN /\ r.images \in SUBSET Out
  BY DEF Sent

LEMMA PendingParts ==
    ASSUME NEW O \in SUBSET Out, NEW r, r = Pending(O, TRUE)
    PROVE  r \in Sent /\ r.images = O /\ r.state = "pending"
  BY DEF Sent, Pending

LEMMA JudgedParts ==
    ASSUME NEW r \in Sent, NEW x \in {"pending", "failed"}, NEW q, q = [r EXCEPT !.state = x]
    PROVE  q \in Sent /\ q.state = x /\ q.height = r.height /\ q.images = r.images
  BY DEF Sent

(* note_pool_spends *)
LEMMA NotePoolSpendsBooks ==
    ASSUME NEW v, Books(v), NEW P \in SUBSET Tx
    PROVE  /\ Books(NotePoolSpends(v, P)) /\ Beside(NotePoolSpends(v, P), v, v.hashes)
           /\ Respent(NotePoolSpends(v, P).transfers, v.transfers)
  <1>1. PICK N : N = Noted(v, P)
    OBVIOUS
  <1>2. PICK O : O = HeldOuts(v)
    OBVIOUS
  <1>3. PICK R : R = v.sent
    OBVIOUS
  <1>4. PICK S : S = [t \in DOMAIN R \cup N |-> IF t \in DOMAIN R THEN R[t] ELSE Pending(Ins[t] \cap O, TRUE)]
    OBVIOUS
  <1>5. NotePoolSpends(v, P) = SpendPendingInputs(With(v, v.hashes, v.transfers, S))
    <2>1. [v EXCEPT !.sent = S] = With(v, v.hashes, v.transfers, S)
      BY SMTT(30) DEF With, Books, Shape
    <2>2. [v EXCEPT !.sent = [t \in DOMAIN @ \cup Noted(v, P) |->
            IF t \in DOMAIN @ THEN @[t] ELSE Pending(Ins[t] \cap HeldOuts(v), TRUE)]] = [v EXCEPT !.sent = S]
      BY <1>1, <1>2, <1>3, <1>4
    <2>3. QED
      BY <2>1, <2>2 DEF NotePoolSpends
  <1>6. N \subseteq Tx /\ N \cap DOMAIN R = {}
    BY <1>1, <1>3 DEF Noted
  <1>7. RecordsTyped(R) /\ ItsInputs(R)
    BY <1>3, PartsOf
  <1>8. \A t \in DOMAIN R : S[t] = R[t]
    BY <1>4
  <1>9. \A t \in N : S[t] \in Sent /\ S[t].images \subseteq Ins[t] /\ S[t].state = "pending"
    <2>1. TAKE t \in N
    <2>2. PICK I : I = Ins[t] \cap O
      OBVIOUS
    <2>3. I \in SUBSET Out /\ I \subseteq Ins[t]
      BY <1>6, <2>2, TxAssumption
    <2>4. S[t] = Pending(I, TRUE)
      BY <1>4, <1>6, <2>2
    <2>5. QED
      BY <2>3, <2>4, PendingParts, ZenonT(40)
  <1>10. DOMAIN S = DOMAIN R \cup N
    BY <1>4
  <1>11. RecordsTyped(S) /\ ItsInputs(S)
    BY <1>6, <1>7, <1>8, <1>9, <1>10 DEF RecordsTyped, ItsInputs
  <1>12. Confirmed(S, v.from, ScannedFrom(v.hashes, v.from))
    <2>1. Confirmed(R, v.from, ScannedFrom(v.hashes, v.from))
      BY <1>3, PartsOf
    <2>2. \A t \in DOMAIN S : S[t].state = "confirmed" => t \in DOMAIN R
      BY <1>9, <1>10
    <2>3. QED
      BY <1>8, <2>1, <2>2 DEF Confirmed
  <1>13. \A i \in DOMAIN v.transfers : v.transfers[i].spent = Waiting => Awaited(S, v.transfers[i].out)
    <2>1. \A i \in DOMAIN v.transfers : v.transfers[i].spent = Waiting => Awaited(R, v.transfers[i].out)
      BY <1>3, PartsOf DEF HeldBack
    <2>2. \A o : Awaited(R, o) => Awaited(S, o)
      BY <1>8, <1>10 DEF Awaited
    <2>3. QED
      BY <2>1, <2>2
  <1>14. PICK t : /\ SpendPendingInputs(With(v, v.hashes, v.transfers, S)) = With(v, v.hashes, t, S)
                  /\ Books(With(v, v.hashes, t, S)) /\ Respent(t, v.transfers)
    BY <1>11, <1>12, <1>13, PartsOf, SpendPendingBooks
  <1>15. QED
    BY <1>5, <1>14, WithParts

(* update_pending *)
LEMMA UpdatePendingBooks ==
    ASSUME NEW v, Books(v), NEW P, NEW old
    PROVE  Books(UpdatePending(v, P, old)) /\ Beside(UpdatePending(v, P, old), v, v.hashes)
  <1>1. PICK F : F = GivenUp(v, P, old)
    OBVIOUS
  <1>2. PICK G : G = P \cap Records(v, "failed")
    OBVIOUS
  <1>3. PICK R : R = v.sent
    OBVIOUS
  <1>4. PICK S : S = [t \in DOMAIN R |-> IF t \in F THEN [R[t] EXCEPT !.state = "failed"]
                                         ELSE IF t \in G THEN [R[t] EXCEPT !.state = "pending"] ELSE R[t]]
    OBVIOUS
  <1>5. PICK O : O = UNION {R[t].images : t \in F}
    OBVIOUS
  <1>6. PICK T : T = Marked(v.transfers, O, Waiting, Unspent)
    OBVIOUS
  <1>7. UpdatePending(v, P, old) = SpendPendingInputs(With(v, v.hashes, T, S))
    <2>1. [v EXCEPT !.sent = S] = With(v, v.hashes, v.transfers, S)
      BY DEF With, Books, Shape
    <2>2. SetInputs(With(v, v.hashes, v.transfers, S), O, Waiting, Unspent) = With(v, v.hashes, T, S)
      BY <1>6 DEF SetInputs, With, Marked
    <2>3. [v EXCEPT !.sent = [t \in DOMAIN @ |->
            IF t \in GivenUp(v, P, old) THEN [@[t] EXCEPT !.state = "failed"]
            ELSE IF t \in P \cap Records(v, "failed") THEN [@[t] EXCEPT !.state = "pending"] ELSE @[t]]]
            = [v EXCEPT !.sent = S]
      BY <1>1, <1>2, <1>3, <1>4
    <2>4. UNION {v.sent[t].images : t \in GivenUp(v, P, old)} = O
      BY <1>1, <1>3, <1>5
    <2>5. QED
      BY <2>1, <2>2, <2>3, <2>4 DEF UpdatePending
  <1>8. F \subseteq DOMAIN R /\ \A t \in F : R[t].state = "pending"
    BY <1>1, <1>3 DEF GivenUp, Records
  <1>9. G \subseteq DOMAIN R /\ \A t \in G : R[t].state = "failed"
    BY <1>2, <1>3 DEF Records
  <1>10. RecordsTyped(R) /\ ItsInputs(R)
    BY <1>3, PartsOf
  <1>11. \A t \in DOMAIN R : R[t] \in Sent
    BY <1>10 DEF RecordsTyped
  <1>12. \A t \in DOMAIN R : /\ S[t] \in Sent /\ S[t].images = R[t].images
                             /\ S[t].state = "confirmed" => S[t] = R[t]
                             /\ R[t].state = "pending" /\ t \notin F => S[t].state = "pending"
    <2>1. TAKE t \in DOMAIN R
    <2>2. CASE t \in F
      <3>1. S[t] = [R[t] EXCEPT !.state = "failed"]
        BY <1>4, <2>2
      <3>2. QED
        <4>1. /\ S[t] \in Sent /\ S[t].state = "failed" /\ S[t].images = R[t].images
          BY <1>11, <3>1, JudgedParts
        <4>2. QED
          BY <1>9, <2>2, <4>1
    <2>3. CASE t \in G /\ t \notin F
      <3>1. S[t] = [R[t] EXCEPT !.state = "pending"]
        BY <1>4, <2>3
      <3>2. QED
        <4>1. /\ S[t] \in Sent /\ S[t].state = "pending" /\ S[t].images = R[t].images
          BY <1>11, <3>1, JudgedParts
        <4>2. QED
          BY <1>9, <2>3, <4>1
    <2>4. CASE t \notin G /\ t \notin F
      BY <1>4, <1>11, <2>4
    <2>5. QED
      BY <2>2, <2>3, <2>4
  <1>13. DOMAIN S = DOMAIN R
    BY <1>4
  <1>14. RecordsTyped(S) /\ ItsInputs(S)
    BY <1>10, <1>12, <1>13 DEF RecordsTyped, ItsInputs
  <1>15. PICK B : B = ScannedFrom(v.hashes, v.from)
    OBVIOUS
  <1>16. Confirmed(S, v.from, B)
    <2>1. Confirmed(R, v.from, B)
      BY <1>3, <1>15, PartsOf
    <2>2. QED
      BY <1>12, <1>13, <2>1 DEF Confirmed
  <1>17. /\ Respent(T, v.transfers)
         /\ \A i \in DOMAIN v.transfers :
               T[i].spent = IF v.transfers[i].out \in O /\ v.transfers[i].spent = Waiting
                            THEN Unspent ELSE v.transfers[i].spent
    <2>1. Unspent \in Nat \cup {Unspent} /\ v.transfers \in Seq(Transfer)
      BY PartsOf
    <2>2. QED
      BY <1>6, <2>1, MarkedIs
  <1>18. DOMAIN T = DOMAIN v.transfers /\ T \in Seq(Transfer)
    BY <1>17 DEF Respent
  <1>19. \A i \in DOMAIN T : T[i].spent = Waiting => Awaited(S, T[i].out)
    <2>1. SUFFICES ASSUME NEW i \in DOMAIN v.transfers, T[i].spent = Waiting PROVE Awaited(S, T[i].out)
      BY <1>18
    <2>2. v.transfers[i].spent = Waiting /\ v.transfers[i].out \notin O
      BY <1>17, <2>1 DEF Waiting, Unspent
    <2>3. T[i].out = v.transfers[i].out
      BY <1>17 DEF Respent
    <2>4. Awaited(R, v.transfers[i].out)
      BY <1>3, <2>2, PartsOf DEF HeldBack
    <2>5. PICK t \in DOMAIN R : R[t].state = "pending" /\ v.transfers[i].out \in R[t].images
      BY <2>4 DEF Awaited
    <2>6. t \notin F
      BY <1>5, <2>2, <2>5
    <2>7. QED
      BY <1>12, <1>13, <2>3, <2>5, <2>6 DEF Awaited
  <1>20. Spent(T, B)
    <2>1. \A b \in B : b.height \in Nat /\ b.height > 0
      BY <1>15, PartsOf, ScannedTyped
    <2>2. \A i \in DOMAIN v.transfers :
             \/ T[i].spent = v.transfers[i].spent
             \/ v.transfers[i].spent \in {Unspent, Waiting} /\ T[i].spent \in {Unspent, Waiting}
      <3>1. TAKE i \in DOMAIN v.transfers
      <3>2. CASE v.transfers[i].out \in O /\ v.transfers[i].spent = Waiting
        BY <1>17, <3>2
      <3>3. CASE ~ (v.transfers[i].out \in O /\ v.transfers[i].spent = Waiting)
        BY <1>17, <3>3
      <3>4. QED
        BY <3>2, <3>3
    <2>3. Spent(v.transfers, B)
      BY <1>15, PartsOf
    <2>4. QED
      BY <1>17, <2>1, <2>2, <2>3, SpentKeeps
  <1>21. OutsDistinct(T) /\ Paid(T, B)
    <2>1. OutsDistinct(v.transfers) /\ Paid(v.transfers, B)
      BY <1>15, PartsOf
    <2>2. QED
      BY <1>17, <2>1, RespentKeeps
  <1>22. PICK t : /\ SpendPendingInputs(With(v, v.hashes, T, S)) = With(v, v.hashes, t, S)
                  /\ Books(With(v, v.hashes, t, S))
    <2>1. /\ v.start \in Nat /\ v.from \in Nat /\ v.start <= v.from /\ v.fill \in Seq(Block)
          /\ v.hashes \in Seq(Block) /\ HeightsFrom(v.hashes, v.start)
          /\ \A b \in ScannedFrom(v.hashes, v.from) : b.height > 0
      BY PartsOf
    <2>2. QED
      BY <1>14, <1>15, <1>16, <1>18, <1>19, <1>20, <1>21, <2>1, SpendPendingBooks
  <1>23. QED
    BY <1>7, <1>22, WithParts

(* record_sent, of a plan made over the transfers as they are. *)
LEMMA RecordSentBooks ==
    ASSUME NEW v, Books(v), NEW t \in Tx, NEW plan,
           plan = {i \in DOMAIN v.transfers : v.transfers[i].out \in Ins[t]},
           \A i \in plan : v.transfers[i].spent = Unspent
    PROVE  Books(RecordSent(v, t, plan)) /\ Beside(RecordSent(v, t, plan), v, v.hashes)
  <1>1. PICK s : s = v.transfers
    OBVIOUS
  <1>2. PICK R : R = v.sent
    OBVIOUS
  <1>3. PICK O : O = {s[i].out : i \in plan}
    OBVIOUS
  <1>4. PICK r : r = Pending(O, TRUE)
    OBVIOUS
  <1>5. PICK S : S = Recorded(R, t, r)
    OBVIOUS
  <1>6. PICK T : T = [i \in DOMAIN s |-> IF i \in plan THEN [s[i] EXCEPT !.spent = Waiting] ELSE s[i]]
    OBVIOUS
  <1>7. RecordSent(v, t, plan) = With(v, v.hashes, T, S)
    <2>1. PICK u : u = With(v, v.hashes, s, R)
      OBVIOUS
    <2>2. u = v
      BY <1>1, <1>2, <2>1, ShapeWith DEF Books
    <2>3. [u EXCEPT !.transfers = T, !.sent = S] = With(v, v.hashes, T, S)
      <3>1. PICK x : x = With(v, v.hashes, T, R)
        OBVIOUS
      <3>2. [u EXCEPT !.transfers = T] = x
        BY <2>1, <3>1, WithOneSet
      <3>3. [x EXCEPT !.sent = S] = With(v, v.hashes, T, S)
        BY <3>1, WithOneSet
      <3>4. [u EXCEPT !.transfers = T, !.sent = S] = [[u EXCEPT !.transfers = T] EXCEPT !.sent = S]
        OBVIOUS
      <3>5. QED
        BY <3>2, <3>3, <3>4
    <2>4. RecordSent(v, t, plan) = [v EXCEPT !.transfers = T, !.sent = S]
      BY <1>1, <1>2, <1>3, <1>4, <1>5, <1>6 DEF RecordSent
    <2>5. QED
      BY <2>2, <2>3, <2>4
  <1>8. s \in Seq(Transfer) /\ \A i \in DOMAIN s : s[i] \in Transfer
    BY <1>1, PartsOf, PlacesOf
  <1>9. Waiting \in Nat \cup {Unspent} /\ Waiting # Unspent
    BY DEF Waiting, Unspent
  <1>10. \A i \in DOMAIN s : /\ T[i] \in Transfer /\ T[i].out = s[i].out /\ T[i].height = s[i].height
                             /\ T[i].spent = IF i \in plan THEN Waiting ELSE s[i].spent
    <2>1. TAKE i \in DOMAIN s
    <2>2. PICK x \in Transfer : x = s[i]
      BY <1>8
    <2>3. PICK y : y = [x EXCEPT !.spent = Waiting]
      OBVIOUS
    <2>4. y \in Transfer /\ y.out = x.out /\ y.height = x.height /\ y.spent = Waiting
      BY <1>9, <2>3, TransferParts
    <2>5. T[i] = IF i \in plan THEN y ELSE x
      BY <1>6, <2>2, <2>3
    <2>6. QED
      BY <2>2, <2>4, <2>5
  <1>11. T \in Seq(Transfer) /\ DOMAIN T = DOMAIN s
    <2>1. T = [i \in DOMAIN s |-> T[i]]
      BY <1>6
    <2>2. QED
      BY <1>8, <1>10, <2>1, FunctionIsSeq
  <1>12. Respent(T, s)
    BY <1>10, <1>11 DEF Respent
  <1>13. PICK B : B = ScannedFrom(v.hashes, v.from)
    OBVIOUS
  <1>14. OutsDistinct(T) /\ Paid(T, B) /\ Spent(T, B)
    <2>1. OutsDistinct(s) /\ Paid(s, B) /\ Spent(s, B)
      BY <1>1, <1>13, PartsOf
    <2>2. \A b \in B : b.height \in Nat /\ b.height > 0
      BY <1>13, PartsOf, ScannedTyped
    <2>3. \A i \in DOMAIN s :
             \/ T[i].spent = s[i].spent
             \/ s[i].spent \in {Unspent, Waiting} /\ T[i].spent \in {Unspent, Waiting}
      BY <1>1, <1>10
    <2>4. QED
      BY <1>12, <2>1, <2>2, <2>3, RespentKeeps, SpentKeeps
  <1>15. O \in SUBSET Out /\ O \subseteq Ins[t]
    <2>1. \A i \in plan : s[i].out \in Out /\ s[i].out \in Ins[t]
      BY <1>1, <1>8, TransferParts
    <2>2. QED
      BY <1>3, <2>1
  <1>16. r \in Sent /\ r.images = O /\ r.state = "pending"
    BY <1>4, <1>15, PendingParts
  <1>17. DOMAIN S = DOMAIN R \cup {t} /\ S[t] = r /\ \A u \in DOMAIN R : u # t => S[u] = R[u]
    BY <1>5 DEF Recorded
  <1>18. RecordsTyped(R) /\ ItsInputs(R) /\ Confirmed(R, v.from, B) /\ HeldBack(s, R)
    BY <1>1, <1>2, <1>13, PartsOf
  <1>19. RecordsTyped(S) /\ ItsInputs(S)
    BY <1>15, <1>16, <1>17, <1>18 DEF RecordsTyped, ItsInputs
  <1>20. Confirmed(S, v.from, B)
    BY <1>16, <1>17, <1>18 DEF Confirmed
  <1>21. HeldBack(T, S)
    <2>1. SUFFICES ASSUME NEW i \in DOMAIN s
                   PROVE  /\ Awaited(S, T[i].out) => T[i].spent # Unspent
                          /\ T[i].spent = Waiting => Awaited(S, T[i].out)
      BY <1>11 DEF HeldBack
    <2>2. PICK o : o = s[i].out /\ o = T[i].out
      BY <1>10
    <2>3. CASE i \in plan
      <3>1. o \in O
        BY <1>3, <2>2, <2>3
      <3>2. Awaited(S, o)
        BY <1>16, <1>17, <3>1 DEF Awaited
      <3>3. T[i].spent = Waiting
        BY <1>10, <2>3
      <3>4. QED
        BY <1>9, <2>2, <3>2, <3>3
    <2>4. CASE i \notin plan
      <3>1. o \notin Ins[t] /\ T[i].spent = s[i].spent
        BY <1>1, <1>10, <2>2, <2>4
      <3>2. Awaited(S, o) => Awaited(R, o)
        BY <1>15, <1>16, <1>17, <3>1 DEF Awaited
      <3>3. Awaited(R, o) => Awaited(S, o)
        BY <1>17, <1>18, <3>1 DEF Awaited, ItsInputs
      <3>4. QED
        BY <1>18, <2>2, <3>1, <3>2, <3>3 DEF HeldBack
    <2>5. QED
      BY <2>3, <2>4
  <1>22. Books(With(v, v.hashes, T, S))
    <2>1. /\ v.start \in Nat /\ v.from \in Nat /\ v.start <= v.from /\ v.fill \in Seq(Block)
          /\ v.hashes \in Seq(Block) /\ HeightsFrom(v.hashes, v.start)
          /\ \A b \in ScannedFrom(v.hashes, v.from) : b.height > 0
      BY PartsOf
    <2>2. QED
      BY <1>11, <1>13, <1>14, <1>19, <1>20, <1>21, <2>1, BooksOf
  <1>23. QED
    BY <1>7, <1>22, WithParts

(* The records left when the blocks from h on are gone. *)
Loosened(S, h) ==
    LET gone(t) == S[t].state = "confirmed" /\ S[t].height >= h
        keep == {t \in DOMAIN S : gone(t) => S[t].own}
    IN  [t \in keep |-> IF gone(t) THEN Pending(S[t].images, TRUE) ELSE S[t]]

LEMMA LoosenedIs ==
    ASSUME NEW S, RecordsTyped(S), ItsInputs(S), NEW h \in Nat, NEW L, L = Loosened(S, h)
    PROVE  /\ RecordsTyped(L) /\ ItsInputs(L) /\ (\A o : Awaited(S, o) => Awaited(L, o))
           /\ \A t \in DOMAIN L : L[t].state = "confirmed" =>
                 t \in DOMAIN S /\ S[t] = L[t] /\ S[t].height < h
  <1>2. /\ DOMAIN L \subseteq DOMAIN S
        /\ \A t \in DOMAIN S : S[t].state = "pending" => t \in DOMAIN L
        /\ \A t \in DOMAIN L : L[t] = IF S[t].state = "confirmed" /\ S[t].height >= h
                                      THEN Pending(S[t].images, TRUE) ELSE S[t]
    BY DEF Loosened
  <1>3. \A t \in DOMAIN S : S[t] \in Sent /\ S[t].images \in SUBSET Out /\ S[t].height \in Nat
    BY SentParts DEF RecordsTyped
  <1>4. ASSUME NEW t \in DOMAIN L
        PROVE  /\ L[t] \in Sent /\ L[t].images = S[t].images
               /\ L[t].state = "confirmed" => S[t] = L[t] /\ S[t].height < h
    <2>1. t \in DOMAIN S
      BY <1>2
    <2>2. CASE S[t].state = "confirmed" /\ S[t].height >= h
      <3>1. L[t] = Pending(S[t].images, TRUE)
        BY <1>2, <2>2
      <3>2. L[t] \in Sent /\ L[t].images = S[t].images /\ L[t].state = "pending"
        BY <1>3, <2>1, <3>1, PendingParts
      <3>3. QED
        BY <3>2
    <2>3. CASE ~ (S[t].state = "confirmed" /\ S[t].height >= h)
      <3>1. L[t] = S[t]
        BY <1>2, <2>3
      <3>2. QED
        BY <1>3, <2>1, <2>3, <3>1
    <2>4. QED
      BY <2>2, <2>3
  <1>5. RecordsTyped(L) /\ ItsInputs(L)
    BY <1>2, <1>4 DEF RecordsTyped, ItsInputs
  <1>6. ASSUME NEW o, Awaited(S, o) PROVE Awaited(L, o)
    <2>1. PICK t \in DOMAIN S : S[t].state = "pending" /\ o \in S[t].images
      BY <1>6 DEF Awaited
    <2>2. t \in DOMAIN L /\ L[t] = S[t]
      BY <1>2, <2>1
    <2>3. QED
      BY <2>1, <2>2 DEF Awaited
  <1>7. QED
    BY <1>2, <1>4, <1>5, <1>6

(* detach_sent *)
LEMMA DetachSentBooks ==
    ASSUME NEW v, v.start \in Nat, v.from \in Nat, v.start <= v.from, v.fill \in Seq(Block),
           NEW H \in Seq(Block), NEW T \in Seq(Transfer), NEW S, NEW h \in Nat,
           HeightsFrom(H, v.start), OutsDistinct(T), RecordsTyped(S),
           \A b \in ScannedFrom(H, v.from) : b.height > 0,
           Paid(T, ScannedFrom(H, v.from)), Spent(T, ScannedFrom(H, v.from)), ItsInputs(S),
           \A t \in DOMAIN S : S[t].state = "confirmed" /\ S[t].height >= v.from /\ S[t].height < h =>
               \E b \in ScannedFrom(H, v.from) : b.tx = t /\ b.height = S[t].height,
           \A i \in DOMAIN T : T[i].spent = Waiting => Awaited(S, T[i].out)
    PROVE  /\ Books(DetachSent(With(v, H, T, S), h)) /\ Beside(DetachSent(With(v, H, T, S), h), v, H)
           /\ Respent(DetachSent(With(v, H, T, S), h).transfers, T)
  <1>1. PICK L : L = Loosened(S, h)
    OBVIOUS
  <1>2. DetachSent(With(v, H, T, S), h) = SpendPendingInputs(With(v, H, T, L))
    <2>1. PICK u : u = With(v, H, T, S)
      OBVIOUS
    <2>2. u.sent = S
      BY <2>1, WithParts
    <2>3. [u EXCEPT !.sent = L] = With(v, H, T, L)
      BY <2>1, WithOneSet
    <2>4. DetachSent(u, h) = SpendPendingInputs([u EXCEPT !.sent = L])
      BY <1>1, <2>2 DEF DetachSent, Loosened
    <2>5. QED
      BY <2>1, <2>3, <2>4
  <1>3. /\ RecordsTyped(L) /\ ItsInputs(L) /\ (\A o : Awaited(S, o) => Awaited(L, o))
        /\ \A t \in DOMAIN L : L[t].state = "confirmed" => t \in DOMAIN S /\ S[t] = L[t] /\ S[t].height < h
    <2>1. RecordsTyped(S) /\ ItsInputs(S) /\ h \in Nat
      OBVIOUS
    <2>2. QED
      BY ONLY <1>1, <2>1, LoosenedIs
  <1>4. Confirmed(L, v.from, ScannedFrom(H, v.from))
    <2>1. SUFFICES ASSUME NEW t \in DOMAIN L, L[t].state = "confirmed", L[t].height >= v.from
                   PROVE  \E b \in ScannedFrom(H, v.from) : b.tx = t /\ b.height = L[t].height
      BY DEF Confirmed
    <2>2. t \in DOMAIN S /\ S[t] = L[t] /\ S[t].height < h
      BY <1>3, <2>1
    <2>3. QED
      BY <2>1, <2>2
  <1>5. \A i \in DOMAIN T : T[i].spent = Waiting => Awaited(L, T[i].out)
    BY <1>3
  <1>6. PICK t : /\ SpendPendingInputs(With(v, H, T, L)) = With(v, H, t, L)
                 /\ Books(With(v, H, t, L)) /\ Respent(t, T)
    BY <1>3, <1>4, <1>5, SpendPendingBooks
  <1>7. QED
    BY <1>2, <1>6, WithParts

-----------------------------------------------------------------------------
(* detach, and the wallets that begin empty. *)

LEMMA PrefixOf ==
    ASSUME NEW T, NEW s \in Seq(T), NEW n \in 0..Len(s), NEW p, p = SubSeq(s, 1, n)
    PROVE  p \in Seq(T) /\ Len(p) = n /\ DOMAIN p = 1..n /\ \A i \in 1..n : p[i] = s[i]
  OBVIOUS

(* The transfers the blocks below h leave. *)
Left(s, h) ==
    LET kept == Retained(s, {x \in ToSet(s) : x.height < h})
    IN  [i \in DOMAIN kept |-> IF kept[i].spent >= h THEN [kept[i] EXCEPT !.spent = Unspent] ELSE kept[i]]

LeftBy(T, s, h) ==
    /\ \A i \in DOMAIN s : s[i].height < h =>
          \E k \in DOMAIN T : T[k].out = s[i].out /\ T[k].height = s[i].height
    /\ \A k \in DOMAIN T : \E i \in DOMAIN s :
          /\ T[k].out = s[i].out /\ T[k].height = s[i].height /\ s[i].height < h
          /\ T[k].spent = IF s[i].spent >= h THEN Unspent ELSE s[i].spent

LEMMA LeftIs ==
    ASSUME NEW s \in Seq(Transfer), OutsDistinct(s), NEW h \in Nat, NEW T, T = Left(s, h)
    PROVE  T \in Seq(Transfer) /\ OutsDistinct(T) /\ LeftBy(T, s, h)
  <1>1. PICK Q : Q = {x \in ToSet(s) : x.height < h}
    OBVIOUS
  <1>2. PICK kept : kept = Retained(s, Q)
    OBVIOUS
  <1>3. T = [i \in DOMAIN kept |-> IF kept[i].spent >= h THEN [kept[i] EXCEPT !.spent = Unspent] ELSE kept[i]]
    BY <1>1, <1>2 DEF Left
  <1>4. /\ kept \in Seq(Transfer)
        /\ \A i \in DOMAIN s : s[i] \in Q => \E k \in DOMAIN kept : kept[k] = s[i]
        /\ \A j, k \in DOMAIN kept : \E p, q \in DOMAIN s :
              kept[j] = s[p] /\ kept[k] = s[q] /\ s[p] \in Q /\ s[q] \in Q /\ (p = q => j = k)
    BY <1>2, RetainedIs
  <1>5. \A k \in DOMAIN kept : kept[k] \in Transfer
    BY <1>4, PlacesOf
  <1>6. Unspent \in Nat \cup {Unspent}
    OBVIOUS
  <1>7. \A k \in DOMAIN kept : /\ T[k] \in Transfer /\ T[k].out = kept[k].out /\ T[k].height = kept[k].height
                               /\ T[k].spent = IF kept[k].spent >= h THEN Unspent ELSE kept[k].spent
    <2>1. TAKE k \in DOMAIN kept
    <2>2. PICK x \in Transfer : x = kept[k]
      BY <1>5
    <2>3. PICK y : y = [x EXCEPT !.spent = Unspent]
      OBVIOUS
    <2>4. y \in Transfer /\ y.out = x.out /\ y.height = x.height /\ y.spent = Unspent
      BY <1>6, <2>3, TransferParts
    <2>5. T[k] = IF x.spent >= h THEN y ELSE x
      BY <1>3, <2>2, <2>3
    <2>6. QED
      BY <2>2, <2>4, <2>5
  <1>8. T \in Seq(Transfer) /\ DOMAIN T = DOMAIN kept
    <2>1. T = [i \in DOMAIN kept |-> T[i]]
      BY <1>3
    <2>2. QED
      BY <1>4, <1>7, <2>1, FunctionIsSeq, ZenonT(40)
  <1>9. OutsDistinct(T)
    <2>1. SUFFICES ASSUME NEW j \in DOMAIN kept, NEW k \in DOMAIN kept, T[j].out = T[k].out PROVE j = k
      BY <1>8 DEF OutsDistinct
    <2>2. kept[j].out = kept[k].out
      BY <1>7, <2>1
    <2>3. PICK p \in DOMAIN s, q \in DOMAIN s : kept[j] = s[p] /\ kept[k] = s[q] /\ (p = q => j = k)
      BY <1>4
    <2>4. QED
      BY <2>2, <2>3 DEF OutsDistinct
  <1>10. ASSUME NEW i \in DOMAIN s, s[i].height < h
         PROVE  \E k \in DOMAIN T : T[k].out = s[i].out /\ T[k].height = s[i].height
    <2>1. s[i] \in Q
      BY <1>1, <1>10 DEF ToSet
    <2>2. PICK k \in DOMAIN kept : kept[k] = s[i]
      BY <1>4, <2>1
    <2>3. QED
      BY <1>7, <1>8, <2>2
  <1>11. ASSUME NEW k \in DOMAIN T
         PROVE  \E i \in DOMAIN s :
                  /\ T[k].out = s[i].out /\ T[k].height = s[i].height /\ s[i].height < h
                  /\ T[k].spent = IF s[i].spent >= h THEN Unspent ELSE s[i].spent
    <2>1. k \in DOMAIN kept
      BY <1>8
    <2>2. PICK i \in DOMAIN s : kept[k] = s[i] /\ s[i] \in Q
      BY <1>4, <2>1
    <2>3. s[i].height < h
      BY <1>1, <2>2
    <2>4. QED
      BY <1>7, <2>1, <2>2, <2>3
  <1>12. QED
    BY <1>8, <1>9, <1>10, <1>11 DEF LeftBy

(* p is what of the blocks H, the first of height start, is below h. *)
CutAt(p, H, start, h) == p = SubSeq(H, 1, h - start) /\ h - start \in 0..Len(H)

LEMMA ScannedBelow ==
    ASSUME NEW H \in Seq(Block), NEW start \in Nat, HeightsFrom(H, start), NEW from \in Nat,
           NEW h \in Nat, NEW p, CutAt(p, H, start, h)
    PROVE  /\ p \in Seq(Block) /\ HeightsFrom(p, start)
           /\ \A b : b \in ScannedFrom(p, from) <=> b \in ScannedFrom(H, from) /\ b.height < h
  <1>0. PICK n \in 0..Len(H) : n = h - start /\ p = SubSeq(H, 1, n)
    BY DEF CutAt
  <1>1. p \in Seq(Block) /\ DOMAIN p = 1..n /\ \A i \in 1..n : p[i] = H[i]
    BY <1>0, PrefixOf
  <1>2. DOMAIN H = 1..Len(H) /\ Len(H) \in Nat /\ n \in Nat
    BY PlacesOf
  <1>3. \A i \in 1..n : i \in DOMAIN H
    BY <1>2
  <1>4. HeightsFrom(p, start)
    BY <1>1, <1>3 DEF HeightsFrom
  <1>5. ASSUME NEW b \in ScannedFrom(p, from) PROVE b \in ScannedFrom(H, from) /\ b.height < h
    <2>1. PICK i \in DOMAIN p : p[i] = b /\ b.height >= from /\ b.tx # NoTx
      BY <1>5 DEF ScannedFrom, ToSet
    <2>2. i \in 1..n /\ i \in DOMAIN H /\ H[i] = b
      BY <1>1, <1>3, <2>1
    <2>3. b.height = start + i - 1
      BY <2>2 DEF HeightsFrom
    <2>4. b.height < h
      BY <1>0, <1>2, <2>2, <2>3
    <2>5. QED
      BY <2>1, <2>2, <2>4, ScannedTyped
  <1>6. ASSUME NEW b \in ScannedFrom(H, from), b.height < h PROVE b \in ScannedFrom(p, from)
    <2>1. PICK i \in DOMAIN H : H[i] = b /\ b.height >= from /\ b.tx # NoTx
      BY ScannedTyped
    <2>2. b.height = start + i - 1 /\ i \in 1..Len(H)
      BY <1>2, <2>1 DEF HeightsFrom
    <2>3. i \in 1..n
      BY <1>0, <1>2, <1>6, <2>2
    <2>4. i \in DOMAIN p /\ p[i] = b
      BY <1>1, <2>1, <2>3
    <2>5. QED
      BY <1>1, <2>1, <2>4, ScannedTyped
  <1>7. QED
    BY <1>1, <1>4, <1>5, <1>6

(* What the transfers left say agrees with the blocks left. *)
LEMMA LeftMatches ==
    ASSUME NEW s \in Seq(Transfer), NEW h \in Nat, NEW T, LeftBy(T, s, h),
           NEW B, \A b \in B : b.height \in Nat /\ b.height > 0,
           NEW C, \A b : b \in C <=> b \in B /\ b.height < h,
           Paid(s, B), Spent(s, B)
    PROVE  Paid(T, C) /\ Spent(T, C)
  <1>1. /\ \A i \in DOMAIN s : s[i].height < h =>
                 \E k \in DOMAIN T : T[k].out = s[i].out /\ T[k].height = s[i].height
        /\ \A k \in DOMAIN T : \E i \in DOMAIN s :
                 /\ T[k].out = s[i].out /\ T[k].height = s[i].height /\ s[i].height < h
                 /\ T[k].spent = IF s[i].spent >= h THEN Unspent ELSE s[i].spent
    BY DEF LeftBy
  <1>2. ASSUME NEW k \in DOMAIN T
        PROVE  \E b \in C : T[k].height = b.height /\ T[k].out \in ToSet(Pays[b.tx])
    <2>1. PICK i \in DOMAIN s : T[k].out = s[i].out /\ T[k].height = s[i].height /\ s[i].height < h
      BY <1>1, <1>2
    <2>2. PICK b \in B : s[i].height = b.height /\ s[i].out \in ToSet(Pays[b.tx])
      BY DEF Paid
    <2>3. QED
      BY <2>1, <2>2
  <1>3. ASSUME NEW b \in C, NEW o \in ToSet(Pays[b.tx])
        PROVE  \E k \in DOMAIN T : T[k].out = o /\ T[k].height = b.height
    <2>1. b \in B /\ b.height < h
      OBVIOUS
    <2>2. PICK i \in DOMAIN s : s[i].out = o /\ s[i].height = b.height
      BY <2>1 DEF Paid
    <2>3. s[i].height < h
      BY <2>1, <2>2
    <2>4. PICK k \in DOMAIN T : T[k].out = s[i].out /\ T[k].height = s[i].height
      BY <1>1, <2>3
    <2>5. QED
      BY <2>2, <2>4
  <1>4. Paid(T, C)
    BY <1>2, <1>3 DEF Paid
  <1>5. ASSUME NEW k \in DOMAIN T
        PROVE  /\ \A b \in C : T[k].out \in Ins[b.tx] <=> T[k].spent = b.height
               /\ T[k].spent > Waiting => \E b \in C : b.height = T[k].spent
    <2>1. PICK i \in DOMAIN s : /\ T[k].out = s[i].out
                                /\ T[k].spent = IF s[i].spent >= h THEN Unspent ELSE s[i].spent
      BY <1>1, <1>5
    <2>2. s[i].spent \in Int
      BY PlacesOf, TransferParts
    <2>3. \A b \in B : s[i].out \in Ins[b.tx] <=> s[i].spent = b.height
      BY DEF Spent
    <2>4. CASE s[i].spent >= h
      <3>1. T[k].spent = Unspent
        BY <2>1, <2>4
      <3>2. ~ (T[k].spent > Waiting)
        BY <3>1 DEF Unspent, Waiting
      <3>3. \A b \in C : T[k].spent # b.height /\ s[i].spent # b.height
        BY <2>2, <2>4, <3>1 DEF Unspent
      <3>4. QED
        BY <2>1, <2>3, <3>2, <3>3
    <2>5. CASE s[i].spent < h
      <3>1. T[k].spent = s[i].spent
        BY <2>1, <2>2, <2>5
      <3>2. \A b \in C : T[k].out \in Ins[b.tx] <=> T[k].spent = b.height
        BY <2>1, <2>3, <3>1
      <3>3. ASSUME T[k].spent > Waiting PROVE \E b \in C : b.height = T[k].spent
        <4>1. PICK b \in B : b.height = s[i].spent
          BY <3>1, <3>3 DEF Spent
        <4>2. QED
          BY <2>5, <3>1, <4>1
      <3>4. QED
        BY <3>2, <3>3
    <2>6. QED
      BY <2>2, <2>4, <2>5
  <1>6. Spent(T, C)
    BY <1>5 DEF Spent
  <1>7. QED
    BY <1>4, <1>6

(* detach *)
LEMMA DetachBooks ==
    ASSUME NEW v, Books(v), NEW h \in Nat, v.start <= h, h <= ScanHeight(v)
    PROVE  Books(Detach(v, h)) /\ Beside(Detach(v, h), v, SubSeq(v.hashes, 1, h - v.start))
  <1>1. PICK n : n = h - v.start
    OBVIOUS
  <1>2. /\ v.start \in Nat /\ v.from \in Nat /\ v.start <= v.from /\ v.fill \in Seq(Block)
        /\ v.hashes \in Seq(Block) /\ v.transfers \in Seq(Transfer)
        /\ HeightsFrom(v.hashes, v.start) /\ OutsDistinct(v.transfers) /\ RecordsTyped(v.sent)
        /\ ItsInputs(v.sent) /\ HeldBack(v.transfers, v.sent)
    BY PartsOf
  <1>3. n \in 0..Len(v.hashes) /\ v.start + n = h
    <2>1. Len(v.hashes) \in Nat
      BY <1>2, PlacesOf
    <2>2. QED
      BY <1>1, <1>2, <2>1, SMTT(30) DEF ScanHeight
  <1>4. PICK H : H = SubSeq(v.hashes, 1, n)
    OBVIOUS
  <1>5. PICK T : T = Left(v.transfers, h)
    OBVIOUS
  <1>12. T \in Seq(Transfer) /\ OutsDistinct(T) /\ LeftBy(T, v.transfers, h)
    BY <1>2, <1>5, LeftIs
  <1>6. PICK B : B = ScannedFrom(v.hashes, v.from)
    OBVIOUS
  <1>7. PICK C : C = ScannedFrom(H, v.from)
    OBVIOUS
  <1>8. H \in Seq(Block)
    BY <1>2, <1>3, <1>4, PrefixOf
  <1>9. HeightsFrom(H, v.start) /\ \A b : b \in C <=> b \in B /\ b.height < h
    <2>1. CutAt(H, v.hashes, v.start, h)
      BY <1>1, <1>3, <1>4 DEF CutAt
    <2>2. QED
      BY <1>2, <1>6, <1>7, <2>1, ScannedBelow
  <1>10. \A b \in B : b.height \in Nat /\ b.height > 0
    BY <1>2, <1>6, PartsOf, ScannedTyped
  <1>11. Paid(T, C) /\ Spent(T, C)
    <2>1. Paid(v.transfers, B) /\ Spent(v.transfers, B)
      BY <1>6, PartsOf
    <2>2. QED
      BY <1>2, <1>9, <1>10, <1>12, <2>1, LeftMatches
  <1>13. \A k \in DOMAIN T : T[k].spent = Waiting => Awaited(v.sent, T[k].out)
    <2>1. SUFFICES ASSUME NEW k \in DOMAIN T, T[k].spent = Waiting PROVE Awaited(v.sent, T[k].out)
      OBVIOUS
    <2>2. PICK i \in DOMAIN v.transfers :
             /\ T[k].out = v.transfers[i].out
             /\ T[k].spent = IF v.transfers[i].spent >= h THEN Unspent ELSE v.transfers[i].spent
      BY <1>12 DEF LeftBy
    <2>3. v.transfers[i].spent = Waiting
      BY <2>1, <2>2 DEF Waiting, Unspent
    <2>4. QED
      BY <1>2, <2>2, <2>3 DEF HeldBack
  <1>14. \A t \in DOMAIN v.sent : v.sent[t].state = "confirmed" /\ v.sent[t].height >= v.from /\ v.sent[t].height < h =>
               \E b \in C : b.tx = t /\ b.height = v.sent[t].height
    <2>1. Confirmed(v.sent, v.from, B)
      BY <1>6, PartsOf
    <2>2. QED
      BY <1>9, <2>1 DEF Confirmed
  <1>15. PICK x : x = DetachSent(With(v, H, T, v.sent), h)
    OBVIOUS
  <1>16. Books(x) /\ Beside(x, v, H)
    <2>1. \A b \in C : b.height > 0
      BY <1>9, <1>10
    <2>2. QED
      BY <1>2, <1>7, <1>8, <1>9, <1>11, <1>12, <1>13, <1>14, <1>15, <2>1, DetachSentBooks
  <1>17. Detach(v, h) = x
    <2>1. PICK u : u = With(v, v.hashes, v.transfers, v.sent)
      OBVIOUS
    <2>2. u = v
      BY <2>1, ShapeWith DEF Books
    <2>3. PICK y : y = With(v, H, v.transfers, v.sent)
      OBVIOUS
    <2>4. [u EXCEPT !.hashes = H] = y
      BY <2>1, <2>3 DEF With
    <2>5. [y EXCEPT !.transfers = T] = With(v, H, T, v.sent)
      BY <2>3 DEF With
    <2>6. [u EXCEPT !.hashes = H, !.transfers = T] = [[u EXCEPT !.hashes = H] EXCEPT !.transfers = T]
      OBVIOUS
    <2>7. Detach(v, h) = DetachSent([v EXCEPT !.hashes = H, !.transfers = T], h)
      BY <1>1, <1>4, <1>5 DEF Detach, Left
    <2>8. QED
      BY <1>15, <2>2, <2>4, <2>5, <2>6, <2>7
  <1>18. QED
    BY <1>1, <1>4, <1>16, <1>17

(* A new wallet, and rescan_from. *)
LEMMA RescanBooks ==
    ASSUME NEW S, RecordsTyped(S), ItsInputs(S), NEW h \in Nat, NEW x, x = DetachSent([NewWallet(h) EXCEPT !.sent = S], h)
    PROVE  /\ Books(x) /\ x.start = h /\ x.from = h /\ x.fill = << >>
           /\ x.hashes = NewWallet(h).hashes
  <1>1. PICK v : v = NewWallet(h)
    OBVIOUS
  <1>2. PICK H : H = IF h = 0 THEN <<Anchor(0)>> ELSE << >>
    OBVIOUS
  <1>3. v = [start |-> h, from |-> h, hashes |-> H, fill |-> << >>, transfers |-> << >>, sent |-> << >>]
    BY <1>1, <1>2 DEF NewWallet
  <1>4. Anchor(0) \in Block /\ Anchor(0).tx = NoTx /\ Anchor(0).height = 0
    BY DEF Anchor, BlockOf, Block
  <1>5. H \in Seq(Block) /\ HeightsFrom(H, h) /\ \A i \in DOMAIN H : H[i].tx = NoTx
    <2>1. CASE h = 0
      <3>1. PICK a \in Block : a = Anchor(0)
        BY <1>4
      <3>2. H = <<a>>
        BY <1>2, <2>1, <3>1
      <3>3. H \in Seq(Block) /\ DOMAIN H = {1} /\ H[1] = a
        BY <3>2
      <3>4. QED
        BY <1>4, <2>1, <3>1, <3>3 DEF HeightsFrom
    <2>2. CASE h # 0
      <3>1. H = << >>
        BY <1>2, <2>2
      <3>2. QED
        BY <3>1 DEF HeightsFrom
    <2>3. QED
      BY <2>1, <2>2
  <1>6. PICK T : T = << >>
    OBVIOUS
  <1>7. T \in Seq(Transfer) /\ DOMAIN T = {}
    BY <1>6
  <1>8. v.start = h /\ v.from = h /\ v.fill = << >> /\ v.fill \in Seq(Block) /\ v.hashes = H
    BY <1>3
  <1>9. ScannedFrom(H, h) = {}
    BY <1>5, ScannedTyped
  <1>10. Paid(T, {}) /\ Spent(T, {}) /\ OutsDistinct(T)
    BY <1>7 DEF Paid, Spent, OutsDistinct
  <1>11. [v EXCEPT !.sent = S] = With(v, H, T, S)
    BY <1>3, <1>6 DEF With
  <1>12. \A t \in DOMAIN S : S[t].state = "confirmed" /\ S[t].height >= v.from /\ S[t].height < h =>
               \E b \in ScannedFrom(H, v.from) : b.tx = t /\ b.height = S[t].height
    <2>1. \A t \in DOMAIN S : S[t].height \in Nat
      BY SentParts DEF RecordsTyped
    <2>2. QED
      BY <1>8, <2>1
  <1>13. x = DetachSent(With(v, H, T, S), h)
    BY <1>1, <1>11
  <1>14. Books(x) /\ Beside(x, v, H)
    <2>1. v.start \in Nat /\ v.from \in Nat /\ v.start <= v.from /\ v.fill \in Seq(Block)
      BY <1>8
    <2>2. /\ H \in Seq(Block) /\ T \in Seq(Transfer) /\ HeightsFrom(H, v.start)
          /\ OutsDistinct(T) /\ RecordsTyped(S) /\ ItsInputs(S)
      BY <1>5, <1>7, <1>8, <1>10
    <2>3. /\ \A b \in ScannedFrom(H, v.from) : b.height > 0
          /\ Paid(T, ScannedFrom(H, v.from)) /\ Spent(T, ScannedFrom(H, v.from))
      BY <1>8, <1>9, <1>10
    <2>4. \A i \in DOMAIN T : T[i].spent = Waiting => Awaited(S, T[i].out)
      BY <1>7
    <2>5. QED
      BY <1>12, <1>13, <2>1, <2>2, <2>3, <2>4, DetachSentBooks
  <1>15. QED
    BY <1>1, <1>8, <1>14 DEF Beside

-----------------------------------------------------------------------------
(* process_transaction *)

Joined(r, s, t) ==
    /\ \A k \in DOMAIN r : \/ k \in DOMAIN s /\ r[k] = s[k]
                           \/ \E j \in DOMAIN t : k = Len(s) + j /\ r[k] = t[j]
    /\ \A k \in DOMAIN s : k \in DOMAIN r /\ r[k] = s[k]
    /\ \A j \in DOMAIN t : Len(s) + j \in DOMAIN r /\ r[Len(s) + j] = t[j]

LEMMA JoinedIs ==
    ASSUME NEW X, NEW s \in Seq(X), NEW t \in Seq(X), NEW r, r = s \o t
    PROVE  r \in Seq(X) /\ Joined(r, s, t)
  <1>1. PICK m \in Nat, n \in Nat : m = Len(s) /\ n = Len(t) /\ DOMAIN s = 1..m /\ DOMAIN t = 1..n
    BY PlacesOf
  <1>2. r \in Seq(X) /\ DOMAIN r = 1..(m + n)
    BY <1>1
  <1>3. \A k \in 1..m : r[k] = s[k]
    BY <1>1
  <1>4. \A j \in 1..n : r[m + j] = t[j]
    BY <1>1
  <1>5. \A k \in 1..(m + n) : k \in 1..m \/ \E j \in 1..n : k = m + j
    <2>1. TAKE k \in 1..(m + n)
    <2>2. CASE k > m
      <3>1. k - m \in 1..n /\ k = m + (k - m)
        BY <2>2
      <3>2. QED
        BY <3>1
    <2>3. CASE k <= m
      BY <2>3
    <2>4. QED
      BY <2>2, <2>3
  <1>6. \A k \in 1..m : k \in 1..(m + n)
    OBVIOUS
  <1>7. \A j \in 1..n : m + j \in 1..(m + n)
    OBVIOUS
  <1>8. QED
    <2>1. \A k \in DOMAIN r : \/ k \in DOMAIN s /\ r[k] = s[k]
                             \/ \E j \in DOMAIN t : k = Len(s) + j /\ r[k] = t[j]
      <3>1. TAKE k \in DOMAIN r
      <3>2. CASE k \in 1..m
        BY <1>1, <1>3, <3>2
      <3>3. CASE \E j \in 1..n : k = m + j
        <4>1. PICK j \in 1..n : k = m + j
          BY <3>3
        <4>2. r[k] = t[j]
          BY <1>4, <4>1
        <4>3. QED
          BY <1>1, <4>1, <4>2
      <3>4. QED
        BY <1>2, <1>5, <3>2, <3>3
    <2>2. \A k \in DOMAIN s : k \in DOMAIN r /\ r[k] = s[k]
      BY <1>1, <1>2, <1>3, <1>6
    <2>3. \A j \in DOMAIN t : Len(s) + j \in DOMAIN r /\ r[Len(s) + j] = t[j]
      BY <1>1, <1>2, <1>4, <1>7
    <2>4. QED
      BY <1>2, <2>1, <2>2, <2>3 DEF Joined

(* r is what the transfers s are after transaction t of the block at h, and S
   says what waits. *)
Received(r, s, S, t, h) ==
    /\ \A i \in DOMAIN s : \E k \in DOMAIN r : r[k].out = s[i].out /\ r[k].height = s[i].height
    /\ \A o \in ToSet(Pays[t]) : \E k \in DOMAIN r : r[k].out = o /\ r[k].height = h
    /\ \A k \in DOMAIN r :
          \/ \E i \in DOMAIN s :
                /\ r[k].out = s[i].out /\ r[k].height = s[i].height
                /\ r[k].spent = IF s[i].out \in Ins[t] /\ s[i].spent <= Waiting THEN h ELSE s[i].spent
          \/ /\ r[k].out \in ToSet(Pays[t]) /\ r[k].height = h
             /\ r[k].spent = IF Awaited(S, r[k].out) THEN Waiting ELSE Unspent

SpentAt(s, I, h) ==
    [i \in DOMAIN s |-> IF s[i].out \in I /\ s[i].spent <= Waiting THEN [s[i] EXCEPT !.spent = h] ELSE s[i]]

FoundAt(fresh, S, h) ==
    [i \in DOMAIN fresh |->
        [out |-> fresh[i], height |-> h, spent |-> IF Awaited(S, fresh[i]) THEN Waiting ELSE Unspent]]

LEMMA SpentAtIs ==
    ASSUME NEW s \in Seq(Transfer), NEW I, NEW h \in Nat, NEW m, m = SpentAt(s, I, h)
    PROVE  /\ m \in Seq(Transfer) /\ DOMAIN m = DOMAIN s /\ Len(m) = Len(s)
           /\ \A i \in DOMAIN s : /\ m[i].out = s[i].out /\ m[i].height = s[i].height
                                  /\ m[i].spent = IF s[i].out \in I /\ s[i].spent <= Waiting
                                                  THEN h ELSE s[i].spent
  <1>1. \A i \in DOMAIN s : s[i] \in Transfer
    BY PlacesOf
  <1>2. h \in Nat \cup {Unspent}
    OBVIOUS
  <1>3. \A i \in DOMAIN s : /\ m[i] \in Transfer /\ m[i].out = s[i].out /\ m[i].height = s[i].height
                            /\ m[i].spent = IF s[i].out \in I /\ s[i].spent <= Waiting
                                            THEN h ELSE s[i].spent
    <2>1. TAKE i \in DOMAIN s
    <2>2. PICK x \in Transfer : x = s[i]
      BY <1>1
    <2>3. PICK y : y = [x EXCEPT !.spent = h]
      OBVIOUS
    <2>4. y \in Transfer /\ y.out = x.out /\ y.height = x.height /\ y.spent = h
      BY <1>2, <2>3, TransferParts
    <2>5. m[i] = IF x.out \in I /\ x.spent <= Waiting THEN y ELSE x
      BY <2>2, <2>3 DEF SpentAt
    <2>6. QED
      BY <2>2, <2>4, <2>5
  <1>4. m = [i \in DOMAIN s |-> m[i]]
    BY DEF SpentAt
  <1>5. m \in Seq(Transfer) /\ DOMAIN m = DOMAIN s /\ Len(m) = Len(s)
    BY <1>3, <1>4, FunctionIsSeq
  <1>6. QED
    BY <1>3, <1>5

LEMMA FoundAtIs ==
    ASSUME NEW fresh \in Seq(Out), NEW S, NEW h \in Nat, NEW f, f = FoundAt(fresh, S, h)
    PROVE  /\ f \in Seq(Transfer) /\ DOMAIN f = DOMAIN fresh
           /\ \A i \in DOMAIN fresh : /\ f[i].out = fresh[i] /\ f[i].height = h
                                      /\ f[i].spent = IF Awaited(S, fresh[i]) THEN Waiting ELSE Unspent
  <1>1. \A i \in DOMAIN fresh : fresh[i] \in Out
    BY PlacesOf
  <1>2. \A i \in DOMAIN fresh : /\ f[i] \in Transfer /\ f[i].out = fresh[i] /\ f[i].height = h
                                /\ f[i].spent = IF Awaited(S, fresh[i]) THEN Waiting ELSE Unspent
    BY <1>1 DEF FoundAt, Transfer, Waiting
  <1>3. f = [i \in DOMAIN fresh |-> f[i]]
    BY DEF FoundAt
  <1>4. f \in Seq(Transfer) /\ DOMAIN f = DOMAIN fresh
    BY <1>2, <1>3, FunctionIsSeq
  <1>5. QED
    BY <1>2, <1>4

LEMMA ReceivedIs ==
    ASSUME NEW s \in Seq(Transfer), OutsDistinct(s), NEW S, NEW t \in Tx, NEW h \in Nat,
           \A i \in DOMAIN s : s[i].out \notin ToSet(Pays[t]),
           NEW O, O = {s[i].out : i \in DOMAIN s}, NEW r,
           r = SpentAt(s, Ins[t] \cap O, h) \o FoundAt(Retained(Pays[t], Out \ O), S, h)
    PROVE  r \in Seq(Transfer) /\ OutsDistinct(r) /\ Received(r, s, S, t, h)
  <1>1. PICK p : p = Pays[t]
    OBVIOUS
  <1>2. p \in Seq(Out) /\ \A i \in DOMAIN p : p[i] \in Out
    BY <1>1, TxAssumption, PlacesOf
  <1>3. PICK fresh : fresh = Retained(p, Out \ O)
    OBVIOUS
  <1>4. PICK m : m = SpentAt(s, Ins[t] \cap O, h)
    OBVIOUS
  <1>5. PICK f : f = FoundAt(fresh, S, h)
    OBVIOUS
  <1>6. r = m \o f
    BY <1>1, <1>3, <1>4, <1>5
  <1>7. /\ fresh \in Seq(Out)
        /\ \A i \in DOMAIN p : p[i] \in Out \ O => \E k \in DOMAIN fresh : fresh[k] = p[i]
        /\ \A j, k \in DOMAIN fresh : \E a, b \in DOMAIN p :
              fresh[j] = p[a] /\ fresh[k] = p[b] /\ p[a] \in Out \ O /\ p[b] \in Out \ O /\ (a = b => j = k)
    <2>1. PICK Q : Q = Out \ O
      OBVIOUS
    <2>2. fresh = Retained(p, Q)
      BY <1>3, <2>1
    <2>3. /\ fresh \in Seq(Out)
          /\ \A i \in DOMAIN p : p[i] \in Q => \E k \in DOMAIN fresh : fresh[k] = p[i]
          /\ \A j, k \in DOMAIN fresh : \E a, b \in DOMAIN p :
                fresh[j] = p[a] /\ fresh[k] = p[b] /\ p[a] \in Q /\ p[b] \in Q /\ (a = b => j = k)
      BY <1>2, <2>2, RetainedIs
    <2>4. QED
      BY <2>1, <2>3
  <1>8. /\ m \in Seq(Transfer) /\ DOMAIN m = DOMAIN s
        /\ \A i \in DOMAIN s : /\ m[i].out = s[i].out /\ m[i].height = s[i].height
                               /\ m[i].spent = IF s[i].out \in Ins[t] \cap O /\ s[i].spent <= Waiting
                                               THEN h ELSE s[i].spent
    BY <1>4, SpentAtIs
  <1>9. /\ f \in Seq(Transfer) /\ DOMAIN f = DOMAIN fresh
        /\ \A i \in DOMAIN fresh : /\ f[i].out = fresh[i] /\ f[i].height = h
                                   /\ f[i].spent = IF Awaited(S, fresh[i]) THEN Waiting ELSE Unspent
    BY <1>5, <1>7, FoundAtIs
  <1>10. /\ r \in Seq(Transfer)
         /\ \A k \in DOMAIN r : \/ k \in DOMAIN m /\ r[k] = m[k]
                                \/ \E j \in DOMAIN f : k = Len(m) + j /\ r[k] = f[j]
         /\ \A k \in DOMAIN m : k \in DOMAIN r /\ r[k] = m[k]
         /\ \A j \in DOMAIN f : Len(m) + j \in DOMAIN r /\ r[Len(m) + j] = f[j]
    <2>1. r \in Seq(Transfer) /\ Joined(r, m, f)
      BY <1>6, <1>8, <1>9, JoinedIs
    <2>2. QED
      BY <2>1 DEF Joined
  <1>11. \A j \in DOMAIN f : f[j].out \in ToSet(p) /\ \A i \in DOMAIN s : s[i].out # f[j].out
    <2>1. TAKE j \in DOMAIN f
    <2>2. PICK a \in DOMAIN p : fresh[j] = p[a] /\ p[a] \in Out \ O
      BY <1>7, <1>9
    <2>3. QED
      BY <1>9, <2>2 DEF ToSet
  <1>12. \A j, k \in DOMAIN f : f[j].out = f[k].out => j = k
    <2>1. SUFFICES ASSUME NEW j \in DOMAIN f, NEW k \in DOMAIN f, f[j].out = f[k].out PROVE j = k
      OBVIOUS
    <2>2. PICK a \in DOMAIN p, b \in DOMAIN p : fresh[j] = p[a] /\ fresh[k] = p[b] /\ (a = b => j = k)
      BY <1>7, <1>9
    <2>3. p[a] = p[b]
      BY <1>9, <2>1, <2>2
    <2>4. a = b
      BY <1>1, <2>3, TxAssumption
    <2>5. QED
      BY <2>2, <2>4
  <1>13. OutsDistinct(r)
    <2>1. SUFFICES ASSUME NEW j \in DOMAIN r, NEW k \in DOMAIN r, r[j].out = r[k].out PROVE j = k
      BY DEF OutsDistinct
    <2>2. CASE j \in DOMAIN m /\ r[j] = m[j] /\ k \in DOMAIN m /\ r[k] = m[k]
      BY <1>8, <2>1, <2>2 DEF OutsDistinct
    <2>3. CASE j \in DOMAIN m /\ r[j] = m[j] /\ \E a \in DOMAIN f : k = Len(m) + a /\ r[k] = f[a]
      BY <1>8, <1>11, <2>1, <2>3
    <2>4. CASE k \in DOMAIN m /\ r[k] = m[k] /\ \E a \in DOMAIN f : j = Len(m) + a /\ r[j] = f[a]
      BY <1>8, <1>11, <2>1, <2>4
    <2>5. CASE /\ \E a \in DOMAIN f : j = Len(m) + a /\ r[j] = f[a]
               /\ \E b \in DOMAIN f : k = Len(m) + b /\ r[k] = f[b]
      <3>1. PICK a \in DOMAIN f, b \in DOMAIN f : /\ j = Len(m) + a /\ r[j] = f[a]
                                                  /\ k = Len(m) + b /\ r[k] = f[b]
        BY <2>5
      <3>2. a = b
        BY <1>12, <2>1, <3>1
      <3>3. QED
        BY <3>1, <3>2
    <2>6. QED
      BY <1>10, <2>2, <2>3, <2>4, <2>5
  <1>14. \A i \in DOMAIN s : \E k \in DOMAIN r : r[k].out = s[i].out /\ r[k].height = s[i].height
    <2>1. TAKE i \in DOMAIN s
    <2>2. i \in DOMAIN r /\ r[i] = m[i]
      BY <1>8, <1>10
    <2>3. r[i].out = s[i].out /\ r[i].height = s[i].height
      BY <1>8, <2>2
    <2>4. QED
      BY <2>2, <2>3
  <1>15. ASSUME NEW o \in ToSet(Pays[t])
         PROVE  \E k \in DOMAIN r : r[k].out = o /\ r[k].height = h
    <2>1. PICK i \in DOMAIN p : p[i] = o
      BY <1>1 DEF ToSet
    <2>2. o \in Out \ O
      BY <1>2, <2>1
    <2>3. PICK j \in DOMAIN fresh : fresh[j] = o
      BY <1>7, <2>1, <2>2
    <2>4. PICK k \in DOMAIN r : r[k] = f[j]
      BY <1>9, <1>10, <2>3
    <2>5. QED
      BY <1>9, <2>3, <2>4
  <1>16. ASSUME NEW k \in DOMAIN r
         PROVE  \/ \E i \in DOMAIN s :
                      /\ r[k].out = s[i].out /\ r[k].height = s[i].height
                      /\ r[k].spent = IF s[i].out \in Ins[t] /\ s[i].spent <= Waiting THEN h ELSE s[i].spent
                \/ /\ r[k].out \in ToSet(Pays[t]) /\ r[k].height = h
                   /\ r[k].spent = IF Awaited(S, r[k].out) THEN Waiting ELSE Unspent
    <2>1. CASE k \in DOMAIN m /\ r[k] = m[k]
      <3>1. k \in DOMAIN s /\ (s[k].out \in Ins[t] \cap O <=> s[k].out \in Ins[t])
        BY <1>8, <2>1
      <3>2. /\ r[k].out = s[k].out /\ r[k].height = s[k].height
            /\ r[k].spent = IF s[k].out \in Ins[t] /\ s[k].spent <= Waiting THEN h ELSE s[k].spent
        BY <1>8, <2>1, <3>1
      <3>3. QED
        BY <3>1, <3>2
    <2>2. CASE \E j \in DOMAIN f : k = Len(m) + j /\ r[k] = f[j]
      <3>1. PICK j \in DOMAIN f : r[k] = f[j]
        BY <2>2
      <3>2. r[k].out \in ToSet(Pays[t]) /\ r[k].height = h
        BY <1>1, <1>9, <1>11, <3>1
      <3>3. r[k].spent = IF Awaited(S, r[k].out) THEN Waiting ELSE Unspent
        BY <1>9, <3>1
      <3>4. QED
        BY <3>2, <3>3
    <2>3. QED
      BY <1>10, <2>1, <2>2
  <1>17. QED
    BY <1>10, <1>13, <1>14, <1>15, <1>16 DEF Received

(* The scanned blocks B and one more, b at height h with transaction t: none
   spends what another does, or what t pays. *)
NextScanned(C, B, b, t, h) ==
    /\ C = B \cup {b} /\ b.height = h /\ b.tx = t /\ h > 0
    /\ \A a \in B : a.height \in Nat /\ a.height > 0 /\ a.height < h /\ Ins[a.tx] \cap Ins[t] = {}
    /\ \A a \in C : \A o \in ToSet(Pays[t]) : o \notin Ins[a.tx]

(* What the records R and S say waits is the same, but for what t spends. *)
SameWaits(R, S, t) == \A o : o \notin Ins[t] => (Awaited(R, o) <=> Awaited(S, o))

(* What the transfers say after a transaction agrees with the blocks. *)
LEMMA ReceivedMatches ==
    ASSUME NEW s \in Seq(Transfer), NEW t \in Tx, NEW h \in Nat, NEW r, NEW S, NEW R,
           Received(r, s, S, t, h), NEW B, NEW b, NEW C, NextScanned(C, B, b, t, h),
           Paid(s, B), Spent(s, B), HeldBack(s, S), SameWaits(R, S, t)
    PROVE  Paid(r, C) /\ Spent(r, C) /\ HeldBack(r, R)
  <1>0. /\ C = B \cup {b} /\ b.height = h /\ b.tx = t /\ h > 0
        /\ \A a \in B : a.height \in Nat /\ a.height > 0 /\ a.height < h /\ Ins[a.tx] \cap Ins[t] = {}
        /\ \A a \in C : \A o \in ToSet(Pays[t]) : o \notin Ins[a.tx]
        /\ \A o : o \notin Ins[t] => (Awaited(R, o) <=> Awaited(S, o))
    BY DEF NextScanned, SameWaits
  <1> USE <1>0
  <1>1. ASSUME NEW k \in DOMAIN r
        PROVE  \E a \in C : r[k].height = a.height /\ r[k].out \in ToSet(Pays[a.tx])
    <2>1. CASE r[k].out \in ToSet(Pays[t]) /\ r[k].height = h
      BY <2>1
    <2>2. CASE \E i \in DOMAIN s : r[k].out = s[i].out /\ r[k].height = s[i].height
      <3>1. PICK i \in DOMAIN s : r[k].out = s[i].out /\ r[k].height = s[i].height
        BY <2>2
      <3>2. PICK a \in B : s[i].height = a.height /\ s[i].out \in ToSet(Pays[a.tx])
        BY DEF Paid
      <3>3. QED
        BY <3>1, <3>2
    <2>3. QED
      BY <1>1, <2>1, <2>2 DEF Received
  <1>2. ASSUME NEW a \in C, NEW o \in ToSet(Pays[a.tx])
        PROVE  \E k \in DOMAIN r : r[k].out = o /\ r[k].height = a.height
    <2>1. CASE a = b
      BY <2>1 DEF Received
    <2>2. CASE a \in B
      <3>1. PICK i \in DOMAIN s : s[i].out = o /\ s[i].height = a.height
        BY <2>2 DEF Paid
      <3>2. PICK k \in DOMAIN r : r[k].out = s[i].out /\ r[k].height = s[i].height
        BY DEF Received
      <3>3. QED
        BY <3>1, <3>2
    <2>3. QED
      BY <2>1, <2>2
  <1>3. Paid(r, C)
    BY <1>1, <1>2 DEF Paid
  <1>4. ASSUME NEW k \in DOMAIN r
        PROVE  /\ \A a \in C : r[k].out \in Ins[a.tx] <=> r[k].spent = a.height
               /\ r[k].spent > Waiting => \E a \in C : a.height = r[k].spent
               /\ Awaited(R, r[k].out) => r[k].spent # Unspent
               /\ r[k].spent = Waiting => Awaited(R, r[k].out)
    <2> DEFINE Agrees == /\ \A a \in C : r[k].out \in Ins[a.tx] <=> r[k].spent = a.height
                         /\ r[k].spent > Waiting => \E a \in C : a.height = r[k].spent
                         /\ Awaited(R, r[k].out) => r[k].spent # Unspent
                         /\ r[k].spent = Waiting => Awaited(R, r[k].out)
    <2>1. ASSUME r[k].out \in ToSet(Pays[t]), r[k].spent = IF Awaited(S, r[k].out) THEN Waiting ELSE Unspent
          PROVE  Agrees
      <3>1. \A a \in C : r[k].out \notin Ins[a.tx] /\ r[k].spent # a.height
        BY <2>1 DEF Waiting, Unspent
      <3>2. ~ (r[k].spent > Waiting)
        BY <2>1 DEF Waiting, Unspent
      <3>3. b \in C /\ r[k].out \notin Ins[t]
        BY <3>1
      <3>4. Awaited(R, r[k].out) <=> Awaited(S, r[k].out)
        BY <3>3
      <3>5. /\ Awaited(R, r[k].out) => r[k].spent # Unspent
            /\ r[k].spent = Waiting => Awaited(R, r[k].out)
        BY <2>1, <3>4 DEF Waiting, Unspent
      <3>6. QED
        BY <3>1, <3>2, <3>5
    <2>2. ASSUME NEW i \in DOMAIN s, r[k].out = s[i].out,
                 r[k].spent = IF s[i].out \in Ins[t] /\ s[i].spent <= Waiting THEN h ELSE s[i].spent
          PROVE  Agrees
      <3>1. s[i].spent \in Int
        BY PlacesOf, TransferParts
      <3>2. \A a \in B : s[i].out \in Ins[a.tx] <=> s[i].spent = a.height
        BY DEF Spent
      <3>3. s[i].spent > Waiting => \E a \in B : a.height = s[i].spent
        BY DEF Spent
      <3>4. CASE s[i].out \in Ins[t]
        <4>1. \A a \in B : s[i].out \notin Ins[a.tx]
          BY <3>4
        <4>2. s[i].spent <= Waiting
          BY <3>1, <3>2, <3>3, <4>1 DEF Waiting
        <4>3. r[k].spent = h
          BY <2>2, <3>4, <4>2
        <4>4. \A a \in C : r[k].out \in Ins[a.tx] <=> r[k].spent = a.height
          BY <2>2, <3>4, <4>1, <4>3
        <4>5. r[k].spent # Unspent /\ r[k].spent # Waiting
          BY <4>3 DEF Unspent, Waiting
        <4>6. \E a \in C : a.height = r[k].spent
          BY <4>3
        <4>7. QED
          BY <4>4, <4>5, <4>6
      <3>5. CASE s[i].out \notin Ins[t]
        <4>1. r[k].spent = s[i].spent
          BY <2>2, <3>5
        <4>2. s[i].spent # h
          BY <3>3 DEF Waiting
        <4>3. \A a \in C : r[k].out \in Ins[a.tx] <=> r[k].spent = a.height
          BY <2>2, <3>2, <3>5, <4>1, <4>2
        <4>4. r[k].spent > Waiting => \E a \in C : a.height = r[k].spent
          BY <3>3, <4>1
        <4>5. Awaited(R, s[i].out) <=> Awaited(S, s[i].out)
          BY <3>5
        <4>6. /\ Awaited(R, r[k].out) => r[k].spent # Unspent
              /\ r[k].spent = Waiting => Awaited(R, r[k].out)
          BY <2>2, <4>1, <4>5 DEF HeldBack
        <4>7. QED
          BY <4>3, <4>4, <4>6
      <3>6. QED
        BY <3>4, <3>5
    <2> HIDE DEF Agrees
    <2>3. Agrees
      BY <1>4, <2>1, <2>2 DEF Received
    <2>4. QED
      BY <2>3 DEF Agrees
  <1>5. Spent(r, C)
    BY <1>4 DEF Spent
  <1>6. HeldBack(r, R)
    BY <1>4 DEF HeldBack
  <1>7. QED
    BY <1>3, <1>5, <1>6

(* The records S with t confirmed at height h. *)
ConfirmedAt(S, t, h, O) ==
    Recorded(S, t, IF t \in DOMAIN S THEN [S[t] EXCEPT !.state = "confirmed", !.height = h]
                   ELSE [state |-> "confirmed", height |-> h, own |-> FALSE, images |-> O])

(* spend_seen: a transaction found in a block waits no longer, and whatever
   else waits still does. *)
LEMMA SpendSeenIs ==
    ASSUME NEW S, RecordsTyped(S), ItsInputs(S), NEW t \in Tx, NEW h \in Nat, NEW O \in SUBSET Ins[t],
           NEW from, NEW B, Confirmed(S, from, B), NEW b, b.tx = t, b.height = h, NEW R, R = ConfirmedAt(S, t, h, O)
    PROVE  /\ RecordsTyped(R) /\ ItsInputs(R) /\ Confirmed(R, from, B \cup {b})
           /\ SameWaits(R, S, t)
  <1>1. /\ DOMAIN R = DOMAIN S \cup {t}
        /\ \A u \in DOMAIN S : u # t => R[u] = S[u]
        /\ R[t] = IF t \in DOMAIN S THEN [S[t] EXCEPT !.state = "confirmed", !.height = h]
                  ELSE [state |-> "confirmed", height |-> h, own |-> FALSE, images |-> O]
    BY DEF Recorded, ConfirmedAt
  <1>2. R[t] \in Sent /\ R[t].state = "confirmed" /\ R[t].height = h /\ R[t].images \subseteq Ins[t]
    <2>1. CASE t \in DOMAIN S
      <3>1. R[t] = [S[t] EXCEPT !.state = "confirmed", !.height = h]
        BY <1>1, <2>1
      <3>2. S[t] \in Sent /\ S[t].images \subseteq Ins[t]
        BY <2>1 DEF RecordsTyped, ItsInputs
      <3>3. QED
        <4>1. PICK x \in Sent : x = S[t]
          BY <3>2
        <4>2. PICK y : y = [x EXCEPT !.state = "confirmed", !.height = h]
          OBVIOUS
        <4>3. y \in Sent /\ y.state = "confirmed" /\ y.height = h /\ y.images = x.images
          BY ONLY x \in Sent, h \in Nat, <4>2 DEF Sent
        <4>4. R[t] = y
          BY <3>1, <4>1, <4>2
        <4>5. QED
          BY <3>2, <4>1, <4>3, <4>4
    <2>2. CASE t \notin DOMAIN S
      <3>1. R[t] = [state |-> "confirmed", height |-> h, own |-> FALSE, images |-> O]
        BY <1>1, <2>2
      <3>2. O \in SUBSET Out
        BY TxAssumption
      <3>3. QED
        <4>1. PICK y : y = [state |-> "confirmed", height |-> h, own |-> FALSE, images |-> O]
          OBVIOUS
        <4>2. y \in Sent
          BY <3>2, <4>1 DEF Sent
        <4>3. y.state = "confirmed" /\ y.height = h /\ y.images = O
          BY <4>1
        <4>4. R[t] = y
          BY <3>1, <4>1
        <4>5. QED
          BY <4>2, <4>3, <4>4
    <2>3. QED
      BY <2>1, <2>2
  <1>3. RecordsTyped(R) /\ ItsInputs(R)
    BY <1>1, <1>2 DEF RecordsTyped, ItsInputs
  <1>4. Confirmed(R, from, B \cup {b})
    <2>1. SUFFICES ASSUME NEW u \in DOMAIN R, R[u].state = "confirmed", R[u].height >= from
                   PROVE  \E a \in B \cup {b} : a.tx = u /\ a.height = R[u].height
      BY DEF Confirmed
    <2>2. CASE u = t
      BY <1>2, <2>2
    <2>3. CASE u # t
      <3>1. u \in DOMAIN S /\ R[u] = S[u]
        BY <1>1, <2>3
      <3>2. QED
        BY <2>1, <3>1 DEF Confirmed
    <2>4. QED
      BY <2>2, <2>3
  <1>5. ASSUME NEW o, o \notin Ins[t] PROVE Awaited(R, o) <=> Awaited(S, o)
    <2>1. Awaited(R, o) => Awaited(S, o)
      <3>1. SUFFICES ASSUME NEW u \in DOMAIN R, R[u].state = "pending", o \in R[u].images PROVE Awaited(S, o)
        BY DEF Awaited
      <3>2. u # t
        BY <1>2, <3>1
      <3>3. u \in DOMAIN S /\ R[u] = S[u]
        BY <1>1, <3>2
      <3>4. QED
        BY <3>1, <3>3 DEF Awaited
    <2>2. Awaited(S, o) => Awaited(R, o)
      BY <1>1, <1>5 DEF Awaited, ItsInputs
    <2>3. QED
      BY <2>1, <2>2
  <1>6. QED
    BY <1>3, <1>4, <1>5 DEF SameWaits

-----------------------------------------------------------------------------
(* Blocks of the daemon's chain. *)

LEMMA OnChainIs ==
    ASSUME ChainOK
    PROVE  /\ \A i \in DOMAIN chain : OnChain(chain[i]) /\ chain[i].height = i - 1 /\ chain[i] \in Block
           /\ \A b : OnChain(b) => b \in Block /\ b.height \in Nat /\ b.height < Len(chain)
           /\ \A b : OnChain(b) /\ b.tx # NoTx => b.tx \in Tx /\ b.height > 0
  <1>1. chain \in Seq(Block) /\ HeightsFrom(chain, 0) /\ chain[1] = Anchor(0)
    BY DEF ChainOK
  <1>2. DOMAIN chain = 1..Len(chain) /\ Len(chain) \in Nat /\ \A i \in DOMAIN chain : chain[i] \in Block
    BY <1>1, PlacesOf
  <1>3. \A b \in Block : b.height \in Nat /\ b.tx \in Tx \cup {NoTx}
    BY DEF Block
  <1>4. ASSUME NEW i \in DOMAIN chain
        PROVE  OnChain(chain[i]) /\ chain[i].height = i - 1 /\ chain[i] \in Block
    <2>1. i \in Nat /\ chain[i].height = 0 + i - 1
      BY <1>1, <1>2 DEF HeightsFrom
    <2>2. chain[i].height + 1 = i /\ chain[i].height = i - 1
      BY <2>1
    <2>3. QED
      BY <1>2, <2>2 DEF OnChain
  <1>5. ASSUME NEW b, OnChain(b) PROVE b \in Block /\ b.height \in Nat /\ b.height < Len(chain)
    <2>1. b.height + 1 \in DOMAIN chain /\ b \in Block
      BY <1>2, <1>5 DEF OnChain
    <2>2. QED
      BY <1>2, <1>3, <2>1
  <1>6. ASSUME NEW b, OnChain(b), b.tx # NoTx PROVE b.tx \in Tx /\ b.height > 0
    <2>1. b.tx \in Tx /\ b.height \in Nat
      BY <1>3, <1>5, <1>6
    <2>2. b.height # 0
      <3>1. SUFFICES ASSUME b.height = 0 PROVE FALSE
        OBVIOUS
      <3>2. b.height + 1 = 1
        BY <3>1
      <3>3. b = Anchor(0)
        BY <1>1, <1>6, <3>2 DEF OnChain
      <3>4. QED
        BY <1>6, <3>3 DEF Anchor, BlockOf
    <2>3. QED
      BY <2>1, <2>2
  <1>7. QED
    BY <1>4, <1>5, <1>6

LEMMA OnChainOnce ==
    ASSUME ChainOK, NEW a, NEW b, OnChain(a), OnChain(b)
    PROVE  /\ a.height = b.height => a = b
           /\ a.tx # NoTx /\ b.tx # NoTx /\ a # b => a.tx # b.tx /\ Ins[a.tx] \cap Ins[b.tx] = {}
           /\ a.tx # NoTx /\ b.tx # NoTx => \A o \in ToSet(Pays[a.tx]) : o \in ToSet(Pays[b.tx]) => a = b
           /\ a.tx # NoTx => \A o \in Ins[a.tx] :
                 \E c : OnChain(c) /\ c.tx # NoTx /\ c.height < a.height /\ o \in ToSet(Pays[c.tx])
  <1>1. PICK i : i = a.height + 1
    OBVIOUS
  <1>2. PICK j : j = b.height + 1
    OBVIOUS
  <1>3. i \in DOMAIN chain /\ j \in DOMAIN chain /\ chain[i] = a /\ chain[j] = b
    BY <1>1, <1>2 DEF OnChain
  <1>4. a.height \in Nat /\ b.height \in Nat
    BY OnChainIs
  <1>5. a.height = b.height => a = b
    BY <1>1, <1>2, <1>3
  <1>6. ASSUME a.tx # NoTx, b.tx # NoTx, a # b PROVE a.tx # b.tx /\ Ins[a.tx] \cap Ins[b.tx] = {}
    <2>1. i # j
      BY <1>3, <1>6
    <2>2. QED
      BY <1>3, <1>6, <2>1 DEF ChainOK, Valid
  <1>7. ASSUME a.tx # NoTx, b.tx # NoTx, NEW o \in ToSet(Pays[a.tx]), o \in ToSet(Pays[b.tx]) PROVE a = b
    <2>1. a.tx \in Tx /\ b.tx \in Tx
      BY <1>7, OnChainIs
    <2>2. PICK k \in DOMAIN Pays[a.tx] : Pays[a.tx][k] = o
      BY <1>7 DEF ToSet
    <2>3. PICK l \in DOMAIN Pays[b.tx] : Pays[b.tx][l] = o
      BY <1>7 DEF ToSet
    <2>4. a.tx = b.tx
      BY <2>1, <2>2, <2>3, TxAssumption
    <2>5. QED
      BY <1>6, <1>7, <2>4
  <1>8. ASSUME a.tx # NoTx, NEW o \in Ins[a.tx]
        PROVE  \E c : OnChain(c) /\ c.tx # NoTx /\ c.height < a.height /\ o \in ToSet(Pays[c.tx])
    <2>1. PICK k \in DOMAIN chain : k < i /\ chain[k].tx # NoTx /\ o \in ToSet(Pays[chain[k].tx])
      BY <1>3, <1>8 DEF ChainOK, Valid
    <2>2. OnChain(chain[k]) /\ chain[k].height = k - 1 /\ k \in Nat
      <3>1. DOMAIN chain = 1..Len(chain)
        BY PlacesOf DEF ChainOK
      <3>2. QED
        BY <3>1, OnChainIs
    <2>3. chain[k].height < a.height
      BY <1>1, <1>4, <2>1, <2>2
    <2>4. QED
      BY <2>1, <2>2, <2>3
  <1>9. QED
    BY <1>5, <1>6, <1>7, <1>8

-----------------------------------------------------------------------------
(* process_block *)

AllOn(v) == \A i \in DOMAIN v.hashes : v.hashes[i].height >= v.from => OnChain(v.hashes[i])

LEMMA HeldBelow ==
    ASSUME NEW v, Books(v)
    PROVE  /\ ScanHeight(v) \in Nat /\ v.start <= ScanHeight(v) /\ Len(v.hashes) \in Nat
           /\ DOMAIN v.hashes = 1..Len(v.hashes)
           /\ \A i \in DOMAIN v.hashes : /\ v.hashes[i] \in Block /\ v.hashes[i].height = v.start + i - 1
                                         /\ v.hashes[i].height \in Nat /\ v.hashes[i].height < ScanHeight(v)
  <1>1. v.start \in Nat /\ v.hashes \in Seq(Block) /\ HeightsFrom(v.hashes, v.start)
    BY PartsOf
  <1>2. /\ Len(v.hashes) \in Nat /\ DOMAIN v.hashes = 1..Len(v.hashes)
        /\ \A i \in DOMAIN v.hashes : v.hashes[i] \in Block
    BY <1>1, PlacesOf
  <1>3. \A i \in DOMAIN v.hashes : v.hashes[i].height = v.start + i - 1
    BY <1>1 DEF HeightsFrom
  <1>4. QED
    BY <1>1, <1>2, <1>3 DEF ScanHeight

LEMMA AppendedIs ==
    ASSUME NEW X, NEW s \in Seq(X), NEW x \in X, NEW r, r = Append(s, x)
    PROVE  /\ r \in Seq(X) /\ Len(r) = Len(s) + 1 /\ DOMAIN r = 1..(Len(s) + 1)
           /\ r[Len(s) + 1] = x /\ \A i \in DOMAIN s : r[i] = s[i]
  OBVIOUS

(* The blocks held, one block later. *)
NextHeld(H, v, b) ==
    /\ HeightsFrom(H, v.start)
    /\ \A a : a \in ScannedFrom(H, v.from) <=>
                 a \in ScannedFrom(v.hashes, v.from) \/ (a = b /\ b.height >= v.from /\ b.tx # NoTx)
    /\ \A i \in DOMAIN H : H[i] = b \/ (i \in DOMAIN v.hashes /\ H[i] = v.hashes[i])
    /\ \A i \in DOMAIN v.hashes : i \in DOMAIN H /\ H[i] = v.hashes[i]

LEMMA HeldAfter ==
    ASSUME NEW v, Books(v), NEW b \in Block, b.height = ScanHeight(v), NEW H, H = Append(v.hashes, b)
    PROVE  H \in Seq(Block) /\ NextHeld(H, v, b)
  <1>1. PICK s \in Seq(Block) : s = v.hashes
    BY PartsOf
  <1>2. PICK n \in Nat : n = Len(s) /\ DOMAIN s = 1..n
    BY PlacesOf
  <1>3. /\ H \in Seq(Block) /\ DOMAIN H = 1..(n + 1) /\ H[n + 1] = b
        /\ \A i \in 1..n : H[i] = s[i]
    BY <1>1, <1>2, AppendedIs
  <1>4. v.start \in Nat /\ HeightsFrom(s, v.start) /\ b.height = v.start + n
    BY <1>1, <1>2, PartsOf DEF ScanHeight
  <1>5. \A i \in 1..(n + 1) : i = n + 1 \/ i \in 1..n
    OBVIOUS
  <1>6. \A i \in 1..n : i \in 1..(n + 1)
    OBVIOUS
  <1>7. HeightsFrom(H, v.start)
    <2>1. \A i \in 1..n : H[i].height = v.start + i - 1
      BY <1>2, <1>3, <1>4 DEF HeightsFrom
    <2>2. H[n + 1].height = v.start + (n + 1) - 1
      BY <1>3, <1>4
    <2>3. QED
      BY <1>3, <1>5, <2>1, <2>2 DEF HeightsFrom
  <1>8. \A i \in DOMAIN H : H[i] = b \/ (i \in DOMAIN s /\ H[i] = s[i])
    BY <1>2, <1>3, <1>5
  <1>9. \A i \in DOMAIN s : i \in DOMAIN H /\ H[i] = s[i]
    BY <1>2, <1>3, <1>6
  <1>10. n + 1 \in DOMAIN H /\ H[n + 1] = b
    BY <1>3
  <1>11. ASSUME NEW a
         PROVE  a \in ScannedFrom(H, v.from) <=>
                        \/ a \in ScannedFrom(s, v.from)
                        \/ a = b /\ b.height >= v.from /\ b.tx # NoTx
    <2>1. a \in ScannedFrom(H, v.from) <=> \E i \in DOMAIN H : H[i] = a /\ a.height >= v.from /\ a.tx # NoTx
      BY DEF ScannedFrom, ToSet
    <2>2. a \in ScannedFrom(s, v.from) <=> \E i \in DOMAIN s : s[i] = a /\ a.height >= v.from /\ a.tx # NoTx
      BY ScannedTyped
    <2>3. QED
      BY <1>8, <1>9, <1>10, <2>1, <2>2
  <1>12. QED
    BY <1>1, <1>3, <1>7, <1>8, <1>9, <1>11 DEF NextHeld

(* The transfers and the records after transaction t of the block at h. *)
TransfersAfter(s, S, t, h) ==
    LET O == {s[i].out : i \in DOMAIN s}
    IN  SpentAt(s, Ins[t] \cap O, h) \o FoundAt(Retained(Pays[t], Out \ O), S, h)

RecordsAfter(s, S, t, h) ==
    LET I == Ins[t] \cap {s[i].out : i \in DOMAIN s}
    IN  IF I = {} THEN S ELSE ConfirmedAt(S, t, h, I)

LEMMA ProcessTransactionIs ==
    ASSUME NEW v, Books(v), NEW t \in Tx, NEW h \in Nat
    PROVE  ProcessTransaction(v, t, h)
             = With(v, v.hashes, TransfersAfter(v.transfers, v.sent, t, h), RecordsAfter(v.transfers, v.sent, t, h))
  <1>0. PICK O : O = {v.transfers[i].out : i \in DOMAIN v.transfers}
    OBVIOUS
  <1>1. PICK I : I = Ins[t] \cap O
    OBVIOUS
  <1>2. HeldOuts(v) = O
    BY <1>0 DEF HeldOuts
  <1>3. \A o : IsPendingInput(v, o) <=> Awaited(v.sent, o)
    BY DEF IsPendingInput, Records, Awaited
  <1>4. PICK fresh : fresh = Retained(Pays[t], Out \ O)
    OBVIOUS
  <1>5. PICK T : T = SpentAt(v.transfers, I, h) \o FoundAt(fresh, v.sent, h)
    OBVIOUS
  <1>6. [i \in DOMAIN fresh |->
            [out |-> fresh[i], height |-> h,
             spent |-> IF IsPendingInput(v, fresh[i]) THEN Waiting ELSE Unspent]] = FoundAt(fresh, v.sent, h)
    BY <1>3 DEF FoundAt
  <1>7. [i \in DOMAIN v.transfers |->
            IF v.transfers[i].out \in I /\ v.transfers[i].spent <= Waiting
            THEN [v.transfers[i] EXCEPT !.spent = h] ELSE v.transfers[i]] = SpentAt(v.transfers, I, h)
    BY DEF SpentAt
  <1>8. ProcessTransaction(v, t, h)
          = IF I = {} THEN [v EXCEPT !.transfers = T] ELSE SpendSeen([v EXCEPT !.transfers = T], t, h, I)
    BY <1>1, <1>2, <1>4, <1>5, <1>6, <1>7 DEF ProcessTransaction
  <1>9. PICK x : x = With(v, v.hashes, T, v.sent)
    OBVIOUS
  <1>10. [v EXCEPT !.transfers = T] = x
    <2>1. PICK u : u = With(v, v.hashes, v.transfers, v.sent)
      OBVIOUS
    <2>2. u = v
      BY <2>1, ShapeWith DEF Books
    <2>3. [u EXCEPT !.transfers = T] = x
      BY <1>9, <2>1 DEF With
    <2>4. QED
      BY <2>2, <2>3
  <1>11. PICK R : R = ConfirmedAt(v.sent, t, h, I)
    OBVIOUS
  <1>12. SpendSeen(x, t, h, I) = With(v, v.hashes, T, R)
    <2>1. x.sent = v.sent
      BY <1>9, WithParts
    <2>2. SpendSeen(x, t, h, I) = [x EXCEPT !.sent = R]
      BY <1>11, <2>1 DEF SpendSeen, ConfirmedAt
    <2>3. [x EXCEPT !.sent = R] = With(v, v.hashes, T, R)
      BY <1>9, WithOneSet
    <2>4. QED
      BY <2>2, <2>3
  <1>13. ProcessTransaction(v, t, h) = With(v, v.hashes, T, IF I = {} THEN v.sent ELSE R)
    BY <1>8, <1>9, <1>10, <1>12
  <1>14. QED
    BY <1>0, <1>1, <1>4, <1>5, <1>11, <1>13 DEF TransfersAfter, RecordsAfter

(* A transaction of the next block of the chain. *)
LEMMA ProcessTransactionBooks ==
    ASSUME ChainOK, NEW v, Books(v), AllOn(v), NEW b, OnChain(b), b.height = ScanHeight(v),
           b.tx # NoTx, b.height >= v.from
    PROVE  \E T, R : /\ ProcessTransaction(v, b.tx, b.height) = With(v, v.hashes, T, R)
                     /\ Books(With(v, Append(v.hashes, b), T, R))
  <1>1. PICK t, h : t = b.tx /\ h = b.height
    OBVIOUS
  <1>2. t \in Tx /\ h \in Nat /\ h > 0 /\ b \in Block
    BY <1>1, OnChainIs
  <1>3. PICK s \in Seq(Transfer) : s = v.transfers
    BY PartsOf
  <1>4. PICK O : O = {s[i].out : i \in DOMAIN s}
    OBVIOUS
  <1>5. PICK S : S = v.sent
    OBVIOUS
  <1>6. PICK T : T = SpentAt(s, Ins[t] \cap O, h) \o FoundAt(Retained(Pays[t], Out \ O), S, h)
    OBVIOUS
  <1>7. PICK R : R = ConfirmedAt(S, t, h, Ins[t] \cap O)
    OBVIOUS
  <1>8. PICK N : N = IF Ins[t] \cap O = {} THEN S ELSE R
    OBVIOUS
  <1>9. ProcessTransaction(v, t, h) = With(v, v.hashes, T, N)
    <2>1. T = TransfersAfter(v.transfers, v.sent, t, h)
      BY <1>3, <1>4, <1>5, <1>6 DEF TransfersAfter
    <2>2. N = RecordsAfter(v.transfers, v.sent, t, h)
      BY <1>3, <1>4, <1>5, <1>7, <1>8 DEF RecordsAfter
    <2>3. QED
      BY <1>2, <2>1, <2>2, ProcessTransactionIs
  <1>10. PICK B : B = ScannedFrom(v.hashes, v.from)
    OBVIOUS
  <1>11. PICK C : C = B \cup {b}
    OBVIOUS
  <1>12. PICK H : H = Append(v.hashes, b)
    OBVIOUS
  <1>13. H \in Seq(Block) /\ HeightsFrom(H, v.start) /\ ScannedFrom(H, v.from) = C
    <2>1. H \in Seq(Block) /\ NextHeld(H, v, b)
      BY <1>2, <1>12, HeldAfter
    <2>2. QED
      BY <1>10, <1>11, <2>1 DEF NextHeld
  <1>14. \A a \in B : /\ OnChain(a) /\ a.tx # NoTx /\ a.tx \in Tx /\ a.height \in Nat /\ a.height > 0
                      /\ a.height < h /\ a # b
    <2>1. TAKE a \in B
    <2>2. PICK i \in DOMAIN v.hashes : v.hashes[i] = a /\ a.height >= v.from /\ a.tx # NoTx
      BY <1>10 DEF ScannedFrom, ToSet
    <2>3. OnChain(a) /\ a.height < h
      BY <1>1, <2>2, HeldBelow DEF AllOn
    <2>4. a.tx \in Tx /\ a.height \in Nat /\ a.height > 0
      BY <2>2, <2>3, OnChainIs
    <2>5. a # b
      BY <1>1, <2>3, <2>4
    <2>6. QED
      BY <2>2, <2>3, <2>4, <2>5
  <1>15. \A a \in B : Ins[a.tx] \cap Ins[t] = {}
    BY <1>1, <1>14, OnChainOnce
  <1>16. ASSUME NEW a \in C, NEW o \in ToSet(Pays[t]) PROVE o \notin Ins[a.tx]
    <2>1. SUFFICES ASSUME o \in Ins[a.tx] PROVE FALSE
      OBVIOUS
    <2>2. OnChain(a) /\ a.tx # NoTx /\ a.height \in Nat /\ a.height <= h
      BY <1>1, <1>2, <1>11, <1>14
    <2>3. PICK c : OnChain(c) /\ c.tx # NoTx /\ c.height < a.height /\ o \in ToSet(Pays[c.tx])
      BY <2>1, <2>2, OnChainOnce
    <2>4. c = b
      BY <1>1, <2>3, OnChainOnce
    <2>5. QED
      BY <1>1, <1>2, <2>2, <2>3, <2>4
  <1>17. Paid(s, B) /\ Spent(s, B) /\ HeldBack(s, S) /\ OutsDistinct(s)
    BY <1>3, <1>5, <1>10, PartsOf
  <1>18. \A i \in DOMAIN s : s[i].out \notin ToSet(Pays[t])
    <2>1. SUFFICES ASSUME NEW i \in DOMAIN s, s[i].out \in ToSet(Pays[t]) PROVE FALSE
      OBVIOUS
    <2>2. PICK a \in B : s[i].out \in ToSet(Pays[a.tx])
      BY <1>17 DEF Paid
    <2>3. a = b
      BY <1>1, <1>14, <2>1, <2>2, OnChainOnce
    <2>4. QED
      BY <1>14, <2>3
  <1>19. T \in Seq(Transfer) /\ OutsDistinct(T) /\ Received(T, s, S, t, h)
    BY <1>2, <1>4, <1>6, <1>17, <1>18, ReceivedIs
  <1>20. /\ RecordsTyped(N) /\ ItsInputs(N) /\ Confirmed(N, v.from, C)
         /\ SameWaits(N, S, t)
    <2>1. RecordsTyped(S) /\ ItsInputs(S) /\ Confirmed(S, v.from, B)
      BY <1>5, <1>10, PartsOf
    <2>2. CASE Ins[t] \cap O = {}
      <3>1. N = S
        BY <1>8, <2>2
      <3>2. Confirmed(S, v.from, C)
        BY <1>11, <2>1 DEF Confirmed
      <3>3. QED
        BY <2>1, <3>1, <3>2 DEF SameWaits
    <2>3. CASE Ins[t] \cap O # {}
      <3>1. N = R
        BY <1>8, <2>3
      <3>2. PICK I \in SUBSET Ins[t] : I = Ins[t] \cap O
        OBVIOUS
      <3>3. R = ConfirmedAt(S, t, h, I)
        BY <1>7, <3>2
      <3>4. /\ RecordsTyped(R) /\ ItsInputs(R) /\ Confirmed(R, v.from, B \cup {b})
            /\ SameWaits(R, S, t)
        BY <1>1, <1>2, <2>1, <3>3, SpendSeenIs
      <3>5. QED
        BY <1>11, <3>1, <3>4
    <2>4. QED
      BY <2>2, <2>3
  <1>21. Paid(T, C) /\ Spent(T, C) /\ HeldBack(T, N)
    <2>1. \A a \in B : a.height \in Nat /\ a.height > 0 /\ a.height < h /\ Ins[a.tx] \cap Ins[t] = {}
      BY <1>14, <1>15
    <2>2. \A a \in C : \A o \in ToSet(Pays[t]) : o \notin Ins[a.tx]
      BY <1>16
    <2>3. b.height = h /\ b.tx = t /\ t \in Tx /\ h \in Nat /\ h > 0 /\ s \in Seq(Transfer)
      BY <1>1, <1>2
    <2>4. NextScanned(C, B, b, t, h)
      BY <1>11, <2>1, <2>2, <2>3 DEF NextScanned
    <2>5. QED
      BY ONLY <1>17, <1>19, <1>20, <2>3, <2>4, ReceivedMatches
  <1>22. Books(With(v, H, T, N))
    <2>1. v.start \in Nat /\ v.from \in Nat /\ v.start <= v.from /\ v.fill \in Seq(Block)
      BY PartsOf
    <2>2. \A a \in C : a.height > 0
      BY <1>1, <1>2, <1>11, <1>14
    <2>3. QED
      BY <1>13, <1>19, <1>20, <1>21, <2>1, <2>2, BooksOf
  <1>23. QED
    BY <1>1, <1>9, <1>12, <1>22

(* process_block, of the next block of the chain. *)
LEMMA ProcessBlockBooks ==
    ASSUME ChainOK, NEW v, Books(v), AllOn(v), NEW b, OnChain(b), b.height = ScanHeight(v)
    PROVE  Books(ProcessBlock(v, b)) /\ Beside(ProcessBlock(v, b), v, Append(v.hashes, b))
  <1>1. PICK H : H = Append(v.hashes, b)
    OBVIOUS
  <1>2. b \in Block
    BY OnChainIs
  <1>3. PICK T, R : /\ (IF b.height < v.from \/ b.tx = NoTx THEN v ELSE ProcessTransaction(v, b.tx, b.height))
                         = With(v, v.hashes, T, R)
                    /\ Books(With(v, H, T, R))
    <2>1. CASE b.height < v.from \/ b.tx = NoTx
      <3>1. v = With(v, v.hashes, v.transfers, v.sent)
        BY ShapeWith DEF Books
      <3>2. /\ v.start \in Nat /\ v.from \in Nat /\ v.start <= v.from /\ v.fill \in Seq(Block)
            /\ v.transfers \in Seq(Transfer) /\ OutsDistinct(v.transfers) /\ RecordsTyped(v.sent)
            /\ \A a \in ScannedFrom(v.hashes, v.from) : a.height > 0
            /\ Paid(v.transfers, ScannedFrom(v.hashes, v.from))
            /\ Spent(v.transfers, ScannedFrom(v.hashes, v.from))
            /\ Confirmed(v.sent, v.from, ScannedFrom(v.hashes, v.from))
            /\ HeldBack(v.transfers, v.sent) /\ ItsInputs(v.sent)
        BY PartsOf
      <3>3. H \in Seq(Block) /\ HeightsFrom(H, v.start)
        BY <1>1, <1>2, HeldAfter DEF NextHeld
      <3>4. ScannedFrom(H, v.from) = ScannedFrom(v.hashes, v.from)
        <4>1. b.height \in Nat
          BY OnChainIs
        <4>2. ~ (b.height >= v.from /\ b.tx # NoTx)
          BY <2>1, <3>2, <4>1
        <4>3. \A a : a \in ScannedFrom(H, v.from) <=> a \in ScannedFrom(v.hashes, v.from)
          BY <1>1, <1>2, <4>2, HeldAfter DEF NextHeld
        <4>4. QED
          BY <4>3
      <3>5. Books(With(v, H, v.transfers, v.sent))
        BY <3>2, <3>3, <3>4, BooksOf
      <3>6. QED
        BY <2>1, <3>1, <3>5
    <2>2. CASE ~ (b.height < v.from \/ b.tx = NoTx)
      <3>1. b.height >= v.from /\ b.tx # NoTx
        <4>1. b.height \in Nat /\ v.from \in Nat
          BY OnChainIs, PartsOf
        <4>2. QED
          BY <2>2, <4>1
      <3>2. QED
        BY <1>1, <2>2, <3>1, ProcessTransactionBooks
    <2>3. QED
      BY <2>1, <2>2
  <1>4. PICK x : x = With(v, v.hashes, T, R)
    OBVIOUS
  <1>5. x.hashes = v.hashes
    BY <1>4, WithParts DEF Beside
  <1>6. ProcessBlock(v, b) = [x EXCEPT !.hashes = H]
    BY <1>1, <1>3, <1>4, <1>5 DEF ProcessBlock
  <1>7. [x EXCEPT !.hashes = H] = With(v, H, T, R)
    BY <1>4 DEF With
  <1>8. QED
    BY <1>1, <1>3, <1>6, <1>7, WithParts

-----------------------------------------------------------------------------
(* refresh_once: the blocks of a reply, one after the other. *)

BelowOn(v, h) ==
    \A i \in DOMAIN v.hashes :
        v.hashes[i].height >= v.from /\ v.hashes[i].height < h => OnChain(v.hashes[i])

(* u is what v has become by the blocks of the chain below m. *)
Tracks(u, v, m) ==
    /\ Books(u) /\ u.fill = v.fill /\ u.start = v.start /\ u.from = v.from
    /\ m <= ScanHeight(u) /\ BelowOn(u, m) /\ (u = v \/ AllOn(u))

(* The next block of the chain, where all of the blocks held are on it. *)
LEMMA ProcessTracks ==
    ASSUME ChainOK, NEW v, NEW u, Books(u), AllOn(u), u.fill = v.fill, u.start = v.start, u.from = v.from,
           NEW b, OnChain(b), b.height = ScanHeight(u)
    PROVE  Tracks(ProcessBlock(u, b), v, b.height + 1)
  <1>1. PICK x : x = ProcessBlock(u, b)
    OBVIOUS
  <1>2. PICK H : H = Append(u.hashes, b)
    OBVIOUS
  <1>3. Books(x) /\ Beside(x, u, H)
    BY <1>1, <1>2, ProcessBlockBooks
  <1>4. b \in Block /\ b.height \in Nat
    BY OnChainIs
  <1>5. H \in Seq(Block) /\ NextHeld(H, u, b)
    BY <1>2, <1>4, HeldAfter
  <1>6. x.fill = v.fill /\ x.start = v.start /\ x.from = v.from /\ x.from = u.from /\ x.hashes = H /\ x.start = u.start
    BY <1>3 DEF Beside
  <1>7. b.height + 1 <= ScanHeight(x)
    <2>1. u.hashes \in Seq(Block) /\ u.start \in Nat
      BY PartsOf
    <2>2. Len(H) = Len(u.hashes) + 1
      BY <1>2, <1>4, <2>1, AppendedIs
    <2>3. Len(u.hashes) \in Nat
      BY <2>1, PlacesOf
    <2>4. ScanHeight(x) = u.start + Len(H)
      BY <1>6 DEF ScanHeight
    <2>5. QED
      BY <2>1, <2>2, <2>3, <2>4 DEF ScanHeight
  <1>8. \A i \in DOMAIN H : H[i].height >= u.from => OnChain(H[i])
    BY <1>5 DEF NextHeld, AllOn
  <1>9. AllOn(x)
    BY <1>6, <1>8 DEF AllOn
  <1>10. BelowOn(x, b.height + 1)
    BY <1>6, <1>8 DEF BelowOn
  <1>11. QED
    BY <1>1, <1>3, <1>6, <1>7, <1>9, <1>10 DEF Tracks

LEMMA ScanOne ==
    ASSUME ChainOK, NEW v, NEW u, NEW m \in Nat, v.start <= m, Tracks(u, v, m),
           NEW b, OnChain(b), b.height = m
    PROVE  Tracks(Scan(u, b), v, m + 1)
  <1>1. /\ Books(u) /\ u.fill = v.fill /\ u.start = v.start /\ u.from = v.from
        /\ m <= ScanHeight(u) /\ BelowOn(u, m) /\ (u = v \/ AllOn(u))
    BY DEF Tracks
  <1>2. /\ u.start \in Nat /\ ScanHeight(u) \in Nat /\ Len(u.hashes) \in Nat
        /\ DOMAIN u.hashes = 1..Len(u.hashes) /\ ScanHeight(u) = u.start + Len(u.hashes)
        /\ \A i \in DOMAIN u.hashes : /\ u.hashes[i].height = u.start + i - 1 /\ u.hashes[i].height \in Nat
                                      /\ u.hashes[i].height < ScanHeight(u)
    BY <1>1, PartsOf, HeldBelow DEF ScanHeight
  <1>3. ~ (b.height < u.start)
    BY <1>1, <1>2
  <1>4. CASE Passed(u, b)
    <2>1. m < ScanHeight(u) /\ u.hashes[m - u.start + 1] = b
      BY <1>3, <1>4 DEF Passed, HashAt
    <2>2. BelowOn(u, m + 1)
      <3>1. SUFFICES ASSUME NEW i \in DOMAIN u.hashes, u.hashes[i].height >= u.from, u.hashes[i].height < m + 1
                     PROVE  OnChain(u.hashes[i])
        BY DEF BelowOn
      <3>2. CASE u.hashes[i].height < m
        BY <1>1, <3>1, <3>2 DEF BelowOn
      <3>3. CASE u.hashes[i].height = m
        <4>1. i = m - u.start + 1
          BY <1>2, <3>3
        <4>2. QED
          BY <2>1, <4>1
      <3>4. QED
        BY <1>2, <3>1, <3>2, <3>3
    <2>3. m + 1 <= ScanHeight(u)
      BY <1>2, <2>1
    <2>4. Scan(u, b) = u
      BY <1>4 DEF Scan
    <2>5. QED
      BY <1>1, <2>2, <2>3, <2>4 DEF Tracks
  <1>5. CASE ~ Passed(u, b)
    <2>1. PICK x : x = Split(u, b)
      OBVIOUS
    <2>2. /\ Books(x) /\ AllOn(x) /\ x.fill = v.fill /\ x.start = v.start /\ x.from = v.from
          /\ b.height = ScanHeight(x)
      <3>1. CASE b.height < ScanHeight(u)
        <4>1. x = Detach(u, m)
          BY <2>1, <3>1 DEF Split
        <4>2. u.start <= m
          BY <1>1
        <4>3. Books(Detach(u, m)) /\ Beside(Detach(u, m), u, SubSeq(u.hashes, 1, m - u.start))
          BY <1>1, <4>2, DetachBooks
        <4>4. PICK n : n = m - u.start
          OBVIOUS
        <4>5. n \in 0..Len(u.hashes)
          BY <1>1, <1>2, <4>2, <4>4
        <4>6. PICK H : H = SubSeq(u.hashes, 1, n)
          OBVIOUS
        <4>7. Len(H) = n /\ DOMAIN H = 1..n /\ \A i \in 1..n : H[i] = u.hashes[i]
          <5>1. u.hashes \in Seq(Block)
            BY <1>1, PartsOf
          <5>2. QED
            BY <4>5, <4>6, <5>1, PrefixOf
        <4>8. Books(x) /\ x.fill = v.fill /\ x.start = u.start /\ x.start = v.start /\ x.from = v.from /\ x.hashes = H
              /\ x.from = u.from
          BY <1>1, <4>1, <4>3, <4>4, <4>6 DEF Beside
        <4>9. ScanHeight(x) = u.start + n
          BY <4>7, <4>8 DEF ScanHeight
        <4>10. b.height = ScanHeight(x)
          BY <1>2, <4>4, <4>9
        <4>11. AllOn(x)
          <5>1. SUFFICES ASSUME NEW i \in 1..n, H[i].height >= u.from PROVE OnChain(H[i])
            BY <4>7, <4>8 DEF AllOn
          <5>2. i \in DOMAIN u.hashes /\ H[i] = u.hashes[i]
            BY <1>2, <4>5, <4>7
          <5>3. u.hashes[i].height = u.start + i - 1
            BY <1>2, <5>2
          <5>4. u.hashes[i].height < m
            BY <1>2, <4>4, <4>5, <5>3
          <5>5. QED
            BY <1>1, <5>1, <5>2, <5>4 DEF BelowOn
        <4>12. QED
          BY <4>8, <4>10, <4>11
      <3>2. CASE ~ (b.height < ScanHeight(u))
        <4>1. x = u
          BY <2>1, <3>2 DEF Split
        <4>2. b.height = ScanHeight(u)
          BY <1>1, <1>2, <3>2
        <4>3. AllOn(u)
          BY <1>1, <1>2, <4>2 DEF AllOn, BelowOn
        <4>4. QED
          BY <1>1, <4>1, <4>2, <4>3
      <3>3. QED
        BY <3>1, <3>2
    <2>3. Tracks(ProcessBlock(x, b), v, b.height + 1)
      BY <2>2, ProcessTracks
    <2>4. QED
      BY <1>5, <2>1, <2>3 DEF Scan
  <1>6. QED
    BY <1>4, <1>5

(* A list of blocks of the chain, from height a on. *)
Serves(list, a) ==
    /\ list \in Seq(Block)
    /\ \A k \in DOMAIN list : OnChain(list[k]) /\ list[k].height = a + k - 1

LEMMA ScanAllTracks ==
    ASSUME ChainOK, NEW v, Books(v), NEW a \in Nat, v.start <= a, a <= ScanHeight(v), BelowOn(v, a),
           NEW list, Serves(list, a)
    PROVE  Tracks(ScanAll(v, list), v, a + Len(list))
  <1>1. PICK n \in Nat : n = Len(list) /\ DOMAIN list = 1..n
    BY PlacesOf DEF Serves
  <1>2. PICK f : f = CHOOSE g : Scanning(v, list, g, n)
    OBVIOUS
  <1>3. Scanning(v, list, f, n)
    BY <1>2, ScanningExists
  <1>4. ScanAll(v, list) = f[n]
    BY <1>1, <1>2 DEF ScanAll, Scanning
  <1> DEFINE Good(k) == Tracks(f[k], v, a + k)
  <1>5. Good(0)
    <2>1. f[0] = v
      BY <1>3 DEF Scanning
    <2>2. Tracks(v, v, a)
      BY DEF Tracks
    <2>3. a + 0 = a
      OBVIOUS
    <2>4. QED
      BY <2>1, <2>2, <2>3
  <1>6. ASSUME NEW k \in 0..(n - 1), Good(k) PROVE Good(k + 1)
    <2>1. f[k + 1] = Scan(f[k], list[k + 1])
      <3>1. k + 1 \in 0..n /\ k + 1 # 0 /\ (k + 1) - 1 = k
        OBVIOUS
      <3>2. QED
        BY <1>3, <3>1 DEF Scanning
    <2>2. PICK b : b = list[k + 1]
      OBVIOUS
    <2>3. OnChain(b) /\ b.height = a + (k + 1) - 1
      <3>1. k + 1 \in 1..n
        OBVIOUS
      <3>2. QED
        BY <1>1, <2>2, <3>1 DEF Serves
    <2>4. PICK m \in Nat : m = a + k
      OBVIOUS
    <2>5. v.start \in Nat
      BY PartsOf
    <2>6. b.height = m /\ v.start <= m /\ m + 1 = a + (k + 1)
      BY <2>3, <2>4, <2>5
    <2>7. PICK u : u = f[k]
      OBVIOUS
    <2>8. Tracks(u, v, m)
      BY <1>6, <2>4, <2>7
    <2>9. Tracks(Scan(u, b), v, m + 1)
      BY <2>3, <2>6, <2>8, ScanOne
    <2>10. QED
      BY <2>1, <2>2, <2>6, <2>7, <2>9
  <1> HIDE DEF Good
  <1>7. Good(n)
    <2> DEFINE Bad == {k \in 0..n : ~ Good(k)}
    <2>1. SUFFICES ASSUME Bad # {} PROVE FALSE
      BY <1>1
    <2>2. PICK k \in Bad : \A j \in Bad : k <= j
      <3>1. Bad \in SUBSET Nat
        BY <1>1
      <3> HIDE DEF Bad
      <3>2. QED
        BY <2>1, <3>1, LeastNumber
    <2>3. k # 0 /\ k \in 0..n
      BY <1>5, <2>2
    <2>4. k - 1 \in 0..(n - 1) /\ k - 1 \in 0..n /\ (k - 1) + 1 = k
      BY <1>1, <2>3
    <2>5. k - 1 \notin Bad
      <3>1. ~ (k <= k - 1)
        BY <2>3
      <3> HIDE DEF Bad
      <3>2. QED
        BY <2>2, <3>1
    <2>6. Good(k - 1)
      BY <2>4, <2>5
    <2>7. Good((k - 1) + 1)
      BY <1>6, <2>4, <2>6
    <2>8. QED
      BY <2>2, <2>4, <2>7
  <1>8. QED
    BY <1>1, <1>4, <1>7 DEF Good

(* What is on the chain follows it. *)
LEMMA TracksFollows ==
    ASSUME ChainOK, NEW v, Follows(v), NEW u, NEW m, Tracks(u, v, m)
    PROVE  Follows(u)
  <1>1. CASE u = v
    BY <1>1
  <1>2. CASE AllOn(u)
    <2>1. \A b : OnChain(b) => b.branch <= branch
      BY DEF OnChain, ChainOK
    <2>2. QED
      BY <1>2, <2>1 DEF Follows, AllOn
  <1>3. QED
    BY <1>1, <1>2 DEF Tracks

-----------------------------------------------------------------------------
(* What the daemon answers. *)

LEMMA GreatestNumber ==
    ASSUME NEW n \in Nat, NEW T \in SUBSET (0..n), T # {}
    PROVE  Max(T) \in T /\ \A y \in T : Max(T) >= y
  <1> DEFINE R == {n - x : x \in T}
  <1>1. R \in SUBSET Nat /\ R # {}
    <2>1. \A x \in T : n - x \in Nat /\ n - x \in R
      OBVIOUS
    <2>2. PICK x \in T : TRUE
      OBVIOUS
    <2>3. QED
      BY <2>1, <2>2
  <1>2. PICK r \in R : \A y \in R : r <= y
    <2> HIDE DEF R
    <2>1. QED
      BY <1>1, LeastNumber
  <1>3. PICK m \in T : r = n - m
    BY <1>2
  <1>4. \A y \in T : m >= y
    <2>1. TAKE y \in T
    <2>2. n - y \in R
      OBVIOUS
    <2>3. r <= n - y
      BY <1>2, <2>2
    <2>4. QED
      BY <1>3, <2>3
  <1>5. QED
    BY <1>3, <1>4 DEF Max

LEMMA PairOf ==
    ASSUME NEW a \in Int, NEW b \in Int
    PROVE  /\ Min({a, b}) = IF a <= b THEN a ELSE b
           /\ Max({a, b}) = IF a <= b THEN b ELSE a
  BY DEF Min, Max

LEMMA AnchorParts ==
    ASSUME NEW h \in Nat
    PROVE  Anchor(h) \in Block /\ Anchor(h).height = h /\ Anchor(h).tx = NoTx
  BY DEF Anchor, BlockOf, Block

LEMMA AnchorsOn == ChainOK => OnChain(Anchor(0)) /\ OnChain(Anchor(Checkpoint))
  <1>1. SUFFICES ASSUME ChainOK PROVE OnChain(Anchor(0)) /\ OnChain(Anchor(Checkpoint))
    OBVIOUS
  <1>2. /\ chain \in Seq(Block) /\ Len(chain) > Checkpoint
        /\ chain[1] = Anchor(0) /\ chain[Checkpoint + 1] = Anchor(Checkpoint)
    BY <1>1, Zenon DEF ChainOK
  <1>3. Checkpoint \in Nat /\ DOMAIN chain = 1..Len(chain) /\ Len(chain) \in Nat
    BY <1>2, PlacesOf, HistoryAssumption
  <1>4. Anchor(0).height = 0 /\ Anchor(Checkpoint).height = Checkpoint
    BY <1>3, AnchorParts
  <1>5. Anchor(0).height + 1 = 1 /\ 1 \in DOMAIN chain /\ Checkpoint + 1 \in DOMAIN chain
    BY <1>2, <1>3, <1>4
  <1>6. QED
    BY <1>2, <1>4, <1>5 DEF OnChain

(* The newest block of a history that is on the chain. *)
LEMMA SupplementIs ==
    ASSUME ChainOK, NEW history, Anchor(0) \in history
    PROVE  /\ \E b \in history : OnChain(b) /\ b.height = Supplement(history)
           /\ \A b \in history : OnChain(b) => b.height <= Supplement(history)
           /\ Supplement(history) \in Nat
  <1>1. PICK T : T = {b.height : b \in history \cap ToSet(chain)}
    OBVIOUS
  <1>2. Supplement(history) = Max(T)
    BY <1>1 DEF Supplement
  <1>3. PICK n \in Nat : n = Len(chain)
    BY PlacesOf DEF ChainOK
  <1>4. \A b : b \in ToSet(chain) <=> OnChain(b)
    <2>1. \A i \in DOMAIN chain : OnChain(chain[i])
      BY OnChainIs
    <2>2. QED
      BY <2>1 DEF ToSet, OnChain
  <1>5. \A x \in T : \E b \in history : OnChain(b) /\ b.height = x
    BY <1>1, <1>4
  <1>6. \A b \in history : OnChain(b) => b.height \in T
    BY <1>1, <1>4
  <1>7. T \in SUBSET (0..n) /\ T # {}
    <2>1. \A x \in T : x \in 0..n
      BY <1>3, <1>5, OnChainIs
    <2>2. Anchor(0).height \in T
      BY <1>6, AnchorsOn
    <2>3. QED
      BY <2>1, <2>2
  <1>8. Max(T) \in T /\ \A y \in T : Max(T) >= y
    BY <1>7, GreatestNumber
  <1>9. \A y \in T : y \in Nat
    BY <1>7
  <1>10. QED
    BY <1>2, <1>5, <1>6, <1>8, <1>9

LEMMA ServedIs ==
    ASSUME ChainOK, NEW a \in Nat, NEW n \in Nat, NEW list, list = Served(a, n)
    PROVE  Serves(list, a)
  <1>1. PICK l \in Nat : l = Len(chain) /\ DOMAIN chain = 1..l
    BY PlacesOf DEF ChainOK
  <1>2. PICK e \in Int : e = Min({a + n, l}) /\ e <= l
    BY PairOf
  <1>3. list = SubSeq(chain, a + 1, e)
    BY <1>1, <1>2 DEF Served
  <1>4. chain \in Seq(Block)
    BY DEF ChainOK
  <1>5. CASE e <= a
    <2>1. list = << >>
      BY <1>2, <1>3, <1>4, <1>5
    <2>2. QED
      BY <2>1 DEF Serves
  <1>6. CASE e > a
    <2>1. /\ list \in Seq(Block) /\ DOMAIN list = 1..(e - a)
          /\ \A k \in 1..(e - a) : list[k] = chain[a + k]
      <3>1. a + 1 \in 1..(l + 1) /\ e \in a..l
        BY <1>1, <1>2, <1>6
      <3>2. /\ SubSeq(chain, a + 1, e) \in Seq(Block) /\ Len(SubSeq(chain, a + 1, e)) = e - a
        BY <1>1, <1>4, <3>1
      <3>3. \A k \in 1..(e - a) : SubSeq(chain, a + 1, e)[k] = chain[a + k]
        BY <1>1, <1>4, <3>1
      <3>4. DOMAIN list = 1..(e - a)
        BY <1>3, <3>2, PlacesOf
      <3>5. QED
        BY <1>3, <3>2, <3>3, <3>4
    <2>2. \A k \in 1..(e - a) : a + k \in DOMAIN chain /\ a + k \in Nat
      BY <1>1, <1>2
    <2>3. ASSUME NEW k \in 1..(e - a) PROVE OnChain(list[k]) /\ list[k].height = a + k - 1
      <3>1. OnChain(chain[a + k]) /\ chain[a + k].height = (a + k) - 1
        BY <2>2, OnChainIs
      <3>2. QED
        BY <2>1, <3>1
    <2>4. QED
      BY <2>1, <2>3 DEF Serves
  <1>7. QED
    BY <1>2, <1>5, <1>6

(* history_at names blocks held, and genesis. *)
LEMMA HistoryIs ==
    ASSUME NEW v, Books(v), NEW g \in Nat \ {0}
    PROVE  /\ Anchor(0) \in HistoryAt(v, g)
           /\ \A b \in HistoryAt(v, g) : b = Anchor(0) \/ \E i \in DOMAIN v.hashes : v.hashes[i] = b
  <1>1. CASE v.hashes = << >>
    BY <1>1 DEF HistoryAt
  <1>2. CASE v.hashes # << >>
    <2>1. PICK n \in Nat : n = Len(v.hashes) /\ DOMAIN v.hashes = 1..n /\ n > 0
      <3>1. v.hashes \in Seq(Block)
        BY PartsOf
      <3>2. Len(v.hashes) \in Nat /\ DOMAIN v.hashes = 1..Len(v.hashes)
        BY <3>1, PlacesOf
      <3>3. Len(v.hashes) # 0
        BY <1>2, <3>1
      <3>4. QED
        BY <3>2, <3>3
    <2>2. PICK m : m = ((ScanHeight(v) \div g) * g) - v.start
      OBVIOUS
    <2>3. m \in Int
      <3>1. PICK q \in Int : q = ScanHeight(v) \div g
        BY HeldBelow
      <3>2. q * g \in Int /\ v.start \in Nat
        BY PartsOf
      <3>3. QED
        BY <2>2, <3>1, <3>2
    <2>4. PICK len \in Int : len = Min({m, n}) /\ len <= n
      BY <2>1, <2>3, PairOf
    <2>5. PICK back : back = (0..Dense) \cup {Dense + 2^k - 2 : k \in 1..n}
      OBVIOUS
    <2>6. HistoryAt(v, g) = {v.hashes[len - i] : i \in back \cap (0..(len - 1))} \cup {v.hashes[1], Anchor(0)}
      BY <1>2, <2>1, <2>2, <2>4, <2>5 DEF HistoryAt
    <2>7. \A i \in back \cap (0..(len - 1)) : len - i \in DOMAIN v.hashes
      BY <2>1, <2>4
    <2>8. 1 \in DOMAIN v.hashes
      BY <2>1
    <2>9. QED
      BY <2>6, <2>7, <2>8
  <1>3. QED
    BY <1>1, <1>2

(* What a refresh leaves a wallet in. *)
Sound(v) == Books(v) /\ FillOK(v) /\ Follows(v)

LEMMA SameBlocksSound ==
    ASSUME NEW v, Sound(v), NEW u, Books(u), Beside(u, v, v.hashes)
    PROVE  Sound(u)
  <1>1. u.start = v.start /\ u.from = v.from /\ u.fill = v.fill /\ u.hashes = v.hashes
    BY DEF Beside
  <1>2. HistoryBase(u) = HistoryBase(v) /\ FillTarget(u) = FillTarget(v)
    BY <1>1 DEF HistoryBase, FillTarget
  <1>3. FillOK(u)
    BY <1>1, <1>2 DEF Sound, FillOK, Fills
  <1>4. Follows(u)
    BY <1>1 DEF Sound, Follows
  <1>5. QED
    BY <1>3, <1>4 DEF Sound

(* Detached at its first block, a wallet holds none. *)
LEMMA EmptiedSound ==
    ASSUME NEW v, Books(v), v.fill = << >>, NEW x, x = Detach(v, v.start)
    PROVE  Sound(x) /\ x.hashes = << >> /\ x.start = v.start /\ x.from = v.from /\ x.fill = << >>
  <1>1. v.start \in Nat /\ v.start <= v.start /\ v.start <= ScanHeight(v) /\ v.start - v.start = 0
    BY PartsOf, HeldBelow
  <1>2. Books(x) /\ Beside(x, v, SubSeq(v.hashes, 1, v.start - v.start))
    BY <1>1, DetachBooks
  <1>3. SubSeq(v.hashes, 1, 0) = << >>
    OBVIOUS
  <1>4. x.hashes = << >> /\ x.start = v.start /\ x.from = v.from /\ x.fill = << >>
    BY <1>1, <1>2, <1>3 DEF Beside
  <1>5. Follows(x)
    BY <1>4 DEF Follows
  <1>6. QED
    BY <1>2, <1>4, <1>5 DEF Sound, FillOK

(* refresh_once *)
LEMMA TakeBlocksSound ==
    ASSUME ChainOK, NEW v, Sound(v), v.fill = << >>, NEW n \in Nat, NEW g \in Nat \ {0}, NEW current,
           NEW list, list = GetBlocks(HistoryAt(v, g), IF v.hashes = << >> THEN v.start ELSE 0, n)
    PROVE  Sound(TakeBlocks(v, list, current, g).w)
  <1>1. Books(v) /\ FillOK(v) /\ Follows(v) /\ v.start \in Nat
    BY PartsOf DEF Sound
  <1>2. CASE list = << >>
    <2>1. TakeBlocks(v, list, current, g).w = v
      BY <1>2 DEF TakeBlocks
    <2>2. QED
      BY <2>1
  <1>3. CASE list # << >>
    <2>1. PICK history : history = HistoryAt(v, g)
      OBVIOUS
    <2>2. PICK s : s = IF v.hashes = << >> THEN v.start ELSE 0
      OBVIOUS
    <2>3. PICK a : a = IF s > 0 THEN s ELSE Supplement(history)
      OBVIOUS
    <2>4. list = Served(a, n)
      BY <1>3, <2>1, <2>2, <2>3 DEF GetBlocks
    <2>5. /\ Anchor(0) \in history
          /\ \A b \in history : b = Anchor(0) \/ \E i \in DOMAIN v.hashes : v.hashes[i] = b
      BY <1>1, <2>1, HistoryIs
    <2>6. /\ Supplement(history) \in Nat
          /\ \E b \in history : OnChain(b) /\ b.height = Supplement(history)
      BY <2>5, SupplementIs
    <2>7. s \in Nat /\ a \in Nat
      BY <1>1, <2>2, <2>3, <2>6
    <2>8. Serves(list, a)
      BY <2>4, <2>7, ServedIs
    <2>9. list[1].height = a
      <3>1. 1 \in DOMAIN list
        BY <1>3, <2>8 DEF Serves
      <3>2. list[1].height = a + 1 - 1
        BY <2>8, <3>1 DEF Serves
      <3>3. QED
        BY <2>7, <3>2
    <2>10. CASE a > ScanHeight(v)
      <3>1. TakeBlocks(v, list, current, g).w = v
        BY <1>3, <2>9, <2>10 DEF TakeBlocks
      <3>2. QED
        BY <3>1
    <2>11. CASE ~ (a > ScanHeight(v)) /\ a < v.start /\ v.hashes # << >>
      <3>1. TakeBlocks(v, list, current, g).w = Detach(v, v.start)
        BY <1>3, <2>9, <2>11 DEF TakeBlocks
      <3>2. QED
        BY <1>1, <3>1, EmptiedSound
    <2>12. CASE ~ (a > ScanHeight(v)) /\ ~ (a < v.start /\ v.hashes # << >>)
      <3>1. TakeBlocks(v, list, current, g).w = ScanAll(v, list)
        BY <1>3, <2>9, <2>12 DEF TakeBlocks
      <3>2. v.start <= a /\ a <= ScanHeight(v)
        <4>1. ScanHeight(v) \in Nat
          BY <1>1, HeldBelow
        <4>2. v.hashes = << >> => v.start <= a
          BY <1>1, <2>2, <2>3, <2>7
        <4>3. QED
          BY <1>1, <2>7, <2>12, <4>1, <4>2
      <3>3. BelowOn(v, a)
        <4>1. SUFFICES ASSUME NEW i \in DOMAIN v.hashes, v.hashes[i].height >= v.from, v.hashes[i].height < a
                       PROVE  OnChain(v.hashes[i])
          BY DEF BelowOn
        <4>2. v.hashes # << >>
          OBVIOUS
        <4>3. a = Supplement(history)
          BY <2>2, <2>3, <4>2
        <4>4. PICK b \in history : OnChain(b) /\ b.height = a
          BY <2>6, <4>3
        <4>5. /\ DOMAIN v.hashes = 1..Len(v.hashes) /\ Len(v.hashes) \in Nat
              /\ \A j \in DOMAIN v.hashes : v.hashes[j].height = v.start + j - 1 /\ v.hashes[j].height \in Nat
          BY <1>1, HeldBelow
        <4>6. b # Anchor(0)
          <5>1. Anchor(0).height = 0
            BY AnchorParts
          <5>2. QED
            BY <2>7, <4>1, <4>4, <4>5, <5>1
        <4>7. PICK j \in DOMAIN v.hashes : v.hashes[j] = b
          BY <2>5, <4>6
        <4>8. i < j
          <5>1. v.hashes[i].height = v.start + i - 1 /\ v.hashes[j].height = v.start + j - 1
            BY <4>5
          <5>2. i \in Nat /\ j \in Nat
            BY <4>5
          <5>3. v.start + i - 1 < v.start + j - 1
            BY <4>1, <4>4, <4>7, <5>1
          <5>4. QED
            BY <1>1, <5>2, <5>3
        <4>9. QED
          BY <1>1, <4>1, <4>4, <4>7, <4>8 DEF Follows
      <3>4. PICK u : u = ScanAll(v, list)
        OBVIOUS
      <3>5. Tracks(u, v, a + Len(list))
        BY <1>1, <2>7, <2>8, <3>2, <3>3, <3>4, ScanAllTracks
      <3>6. Follows(u)
        BY <1>1, <3>5, TracksFollows
      <3>7. Books(u) /\ FillOK(u)
        BY <3>5 DEF Tracks, FillOK
      <3>8. QED
        BY <3>1, <3>4, <3>6, <3>7 DEF Sound
    <2>13. QED
      BY <2>10, <2>11, <2>12
  <1>4. QED
    BY <1>2, <1>3

-----------------------------------------------------------------------------
(* fill_below *)

(* Hashes from the base on, none of them at the target or above. *)
Below(F, base, target) ==
    /\ F \in Seq(Block) /\ F # << >> /\ F[1] = Anchor(base) /\ HeightsFrom(F, base)
    /\ base + Len(F) <= target

LEMMA BaseIs ==
    ASSUME NEW v, Books(v), Fills(v)
    PROVE  /\ HistoryBase(v) \in Nat /\ HistoryBase(v) <= v.from /\ FillTarget(v) \in Nat
           /\ HistoryBase(v) < FillTarget(v) /\ HistoryBase(v) \in {0, Checkpoint}
           /\ v.hashes = << >> => FillTarget(v) = v.from
           /\ v.hashes # << >> => FillTarget(v) = v.start
           /\ FillTarget(v) <= v.from
  <1>1. v.start \in Nat /\ v.from \in Nat /\ v.start <= v.from
    BY PartsOf
  <1>2. Checkpoint \in Nat
    BY HistoryAssumption
  <1>3. HistoryBase(v) \in Nat /\ HistoryBase(v) <= v.from /\ HistoryBase(v) \in {0, Checkpoint}
    BY <1>1, <1>2 DEF HistoryBase
  <1>4. Max({v.from, v.start}) = v.from
    <2>1. PICK a \in Nat, b \in Nat : a = v.from /\ b = v.start
      BY <1>1
    <2>2. Max({a, b}) = IF a <= b THEN b ELSE a
      BY PairOf
    <2>3. QED
      BY <1>1, <2>1, <2>2
  <1>5. FillTarget(v) = IF v.hashes = << >> THEN v.from ELSE v.start
    BY <1>4 DEF FillTarget
  <1>6. HistoryBase(v) < FillTarget(v)
    BY <1>1, <1>3, <1>5 DEF Fills
  <1>7. QED
    BY <1>1, <1>3, <1>5, <1>6

LEMMA GatheredBelow ==
    ASSUME NEW v, Books(v), FillOK(v), Fills(v), NEW G, G = Gathered(v)
    PROVE  Below(G, HistoryBase(v), FillTarget(v))
  <1>1. PICK base \in Nat, target \in Nat : base = HistoryBase(v) /\ target = FillTarget(v) /\ base < target
    BY BaseIs
  <1>2. CASE v.fill = << >>
    <2>1. PICK a \in Block : a = Anchor(base) /\ a.height = base
      BY AnchorParts
    <2>2. G = <<a>>
      BY <1>1, <1>2, <2>1 DEF Gathered
    <2>3. G \in Seq(Block) /\ Len(G) = 1 /\ DOMAIN G = {1} /\ G[1] = a /\ G # << >>
      BY <2>2
    <2>4. HeightsFrom(G, base)
      BY <2>1, <2>3 DEF HeightsFrom
    <2>5. base + Len(G) <= target
      BY <1>1, <2>3
    <2>6. QED
      BY <1>1, <2>1, <2>3, <2>4, <2>5 DEF Below
  <1>3. CASE v.fill # << >>
    <2>1. G = v.fill
      BY <1>3 DEF Gathered
    <2>2. G \in Seq(Block)
      BY <2>1, PartsOf
    <2>3. base + Len(G) < target /\ G[1] = Anchor(base) /\ HeightsFrom(G, base)
      BY <1>1, <1>3, <2>1 DEF FillOK
    <2>4. base + Len(G) <= target
      BY <1>1, <2>2, <2>3, PlacesOf
    <2>5. QED
      BY <1>1, <1>3, <2>1, <2>2, <2>3, <2>4 DEF Below
  <1>4. QED
    BY <1>2, <1>3

LEMMA BelowIs ==
    ASSUME NEW base \in Nat, NEW target \in Nat, NEW F, Below(F, base, target)
    PROVE  /\ Len(F) \in Nat /\ Len(F) > 0 /\ DOMAIN F = 1..Len(F)
           /\ \A i \in DOMAIN F : F[i] \in Block /\ F[i].height = base + i - 1 /\ F[i].height < target
  <1>1. F \in Seq(Block) /\ F # << >> /\ HeightsFrom(F, base) /\ base + Len(F) <= target
    BY DEF Below
  <1>2. Len(F) \in Nat /\ DOMAIN F = 1..Len(F) /\ \A i \in DOMAIN F : F[i] \in Block
    BY <1>1, PlacesOf
  <1>3. Len(F) # 0
    BY <1>1
  <1>4. \A i \in DOMAIN F : F[i].height = base + i - 1
    BY <1>1 DEF HeightsFrom
  <1>5. QED
    BY <1>1, <1>2, <1>3, <1>4

(* The daemon lists on from a hash gathered. *)
LEMMA FillListIs ==
    ASSUME ChainOK, NEW v, Books(v), FillOK(v), Fills(v), NEW list, list = GetHashes(FillHistory(v))
    PROVE  \E a \in Nat : /\ Serves(list, a) /\ HistoryBase(v) <= a
                          /\ a < HistoryBase(v) + Len(Gathered(v))
  <1>1. PICK base \in Nat, target \in Nat : base = HistoryBase(v) /\ target = FillTarget(v) /\ base \in {0, Checkpoint}
    BY BaseIs
  <1>2. PICK G : G = Gathered(v)
    OBVIOUS
  <1>3. Below(G, base, target)
    BY <1>1, <1>2, GatheredBelow
  <1>4. PICK n \in Nat : n = Len(G) /\ n > 0 /\ DOMAIN G = 1..n
    BY <1>3, BelowIs
  <1>5. \A i \in 1..n : G[i].height = base + i - 1
    BY <1>3, <1>4, BelowIs
  <1>6. PICK history : history = FillHistory(v)
    OBVIOUS
  <1>7. PICK l \in Nat : l = Max({1, n - 2}) /\ l >= 1
    <2>1. PICK a \in Int, b \in Int : a = 1 /\ b = n - 2
      OBVIOUS
    <2>2. Max({a, b}) = IF a <= b THEN b ELSE a
      BY PairOf
    <2>3. QED
      BY <2>1, <2>2
  <1>8. history = {G[i] : i \in l..n} \cup {G[1], Anchor(0)}
    BY <1>2, <1>4, <1>6, <1>7 DEF FillHistory
  <1>9. Anchor(0) \in history /\ Anchor(base) \in history
    BY <1>3, <1>8 DEF Below
  <1>10. OnChain(Anchor(base)) /\ Anchor(base).height = base /\ Anchor(0).height = 0
    BY <1>1, AnchorsOn, AnchorParts
  <1>11. PICK a \in Nat : a = Supplement(history)
    BY <1>9, SupplementIs
  <1>12. base <= a
    BY <1>9, <1>10, <1>11, SupplementIs
  <1>13. a < base + n
    <2>1. PICK b \in history : b.height = a
      BY <1>9, <1>11, SupplementIs
    <2>2. CASE b = Anchor(0)
      BY <1>4, <1>10, <2>1, <2>2
    <2>3. CASE b # Anchor(0)
      <3>1. PICK i \in 1..n : b = G[i]
        <4>1. 1 \in 1..n /\ \A i \in l..n : i \in 1..n
          BY <1>4, <1>7
        <4>2. QED
          BY <1>8, <2>3, <4>1
      <3>2. QED
        BY <1>5, <2>1, <3>1
    <2>4. QED
      BY <2>2, <2>3
  <1>14. list = Served(a, ListMax)
    BY <1>6, <1>11 DEF GetHashes
  <1>15. Serves(list, a)
    BY <1>14, WalletAssumption, ServedIs
  <1>16. QED
    BY <1>1, <1>2, <1>4, <1>12, <1>13, <1>15

(* One hash listed. *)
LEMMA ListedBelow ==
    ASSUME ChainOK, NEW v, NEW base \in Nat, NEW target \in Nat, base = HistoryBase(v), base \in {0, Checkpoint},
           NEW F, Below(F, base, target), NEW b, OnChain(b), base <= b.height, b.height < target,
           b.height <= base + Len(F), NEW L, L = Listed(v, F, b)
    PROVE  Below(L, base, target) /\ b.height < base + Len(L)
  <1>1. PICK n \in Nat : n = Len(F) /\ n > 0 /\ DOMAIN F = 1..n
    BY BelowIs
  <1>2. b \in Block /\ b.height \in Nat
    BY OnChainIs
  <1>3. PICK m \in Nat : m = b.height - base /\ m <= n /\ base + m < target
    BY <1>1, <1>2
  <1>4. L = IF m < n /\ F[m + 1] = b THEN F ELSE Append(SubSeq(F, 1, m), b)
    BY <1>1, <1>3 DEF Listed
  <1>5. CASE m < n /\ F[m + 1] = b
    <2>1. L = F
      BY <1>4, <1>5
    <2>2. QED
      BY <1>1, <1>2, <1>3, <1>5, <2>1
  <1>6. CASE ~ (m < n /\ F[m + 1] = b)
    <2>1. F \in Seq(Block) /\ F[1] = Anchor(base) /\ HeightsFrom(F, base)
      BY DEF Below
    <2>2. m # 0
      <3>1. SUFFICES ASSUME m = 0 PROVE FALSE
        OBVIOUS
      <3>2. b.height = base
        BY <1>2, <1>3, <3>1
      <3>3. OnChain(Anchor(base)) /\ Anchor(base).height = base
        BY AnchorsOn, AnchorParts
      <3>4. b = Anchor(base)
        BY <3>2, <3>3, OnChainOnce
      <3>5. QED
        BY <1>1, <1>6, <2>1, <3>1, <3>4
    <2>3. PICK p : p = SubSeq(F, 1, m)
      OBVIOUS
    <2>4. p \in Seq(Block) /\ Len(p) = m /\ DOMAIN p = 1..m /\ \A i \in 1..m : p[i] = F[i]
      <3>1. m \in 0..Len(F)
        BY <1>1, <1>3
      <3>2. QED
        BY <2>1, <2>3, <3>1, PrefixOf
    <2>5. L = Append(p, b)
      BY <1>4, <1>6, <2>3
    <2>6. /\ L \in Seq(Block) /\ Len(L) = m + 1 /\ DOMAIN L = 1..(m + 1)
          /\ L[m + 1] = b /\ \A i \in 1..m : L[i] = F[i]
      <3>1. /\ L \in Seq(Block) /\ Len(L) = Len(p) + 1 /\ DOMAIN L = 1..(Len(p) + 1)
            /\ L[Len(p) + 1] = b /\ \A i \in DOMAIN p : L[i] = p[i]
        BY <1>2, <2>4, <2>5, AppendedIs
      <3>2. QED
        BY <2>4, <3>1
    <2>7. L[1] = Anchor(base) /\ L # << >>
      <3>1. 1 \in 1..m
        BY <2>2
      <3>2. QED
        BY <2>1, <2>6, <3>1
    <2>0. b.height = base + m
      BY <1>2, <1>3
    <2>8. HeightsFrom(L, base)
      <3>1. \A i \in 1..m : i \in DOMAIN F
        BY <1>1, <1>3
      <3>2. \A i \in 1..m : L[i].height = base + i - 1
        BY <2>1, <2>6, <3>1 DEF HeightsFrom
      <3>3. L[m + 1].height = base + (m + 1) - 1
        <4>1. base + (m + 1) - 1 = base + m
          OBVIOUS
        <4>2. QED
          BY <2>0, <2>6, <4>1
      <3>4. \A i \in 1..(m + 1) : i \in 1..m \/ i = m + 1
        OBVIOUS
      <3>5. QED
        BY <2>6, <3>2, <3>3, <3>4 DEF HeightsFrom
    <2>9. base + Len(L) <= target /\ b.height < base + Len(L)
      <3>1. PICK k \in Nat : k = Len(L) /\ k = m + 1
        BY <2>6
      <3>2. base + k <= target /\ base + m < base + k
        BY <1>3, <3>1
      <3>3. QED
        BY <2>0, <3>1, <3>2
    <2>10. QED
      BY <2>6, <2>7, <2>8, <2>9 DEF Below
  <1>7. QED
    BY <1>5, <1>6

(* The hashes gathered, after a list that goes on from one of them. *)
LEMMA ListAllBelow ==
    ASSUME ChainOK, NEW v, Books(v), FillOK(v), Fills(v), NEW a \in Nat, NEW list, Serves(list, a),
           HistoryBase(v) <= a, a < HistoryBase(v) + Len(Gathered(v)), NEW F, F = ListAll(v, list)
    PROVE  /\ Below(F, HistoryBase(v), FillTarget(v))
           /\ \/ a + Len(list) <= HistoryBase(v) + Len(F)
              \/ FillTarget(v) <= HistoryBase(v) + Len(F)
  <1>1. PICK base \in Nat, target \in Nat : base = HistoryBase(v) /\ target = FillTarget(v) /\ base \in {0, Checkpoint}
    BY BaseIs
  <1>2. PICK n \in Nat : n = Len(list) /\ DOMAIN list = 1..n
    BY PlacesOf DEF Serves
  <1>3. PICK f : f = CHOOSE g : Listing(v, list, g, n)
    OBVIOUS
  <1>4. Listing(v, list, f, n)
    BY <1>3, ListingExists
  <1>5. F = f[n]
    BY <1>2, <1>3 DEF ListAll, Listing
  <1> DEFINE Good(k) == /\ Below(f[k], base, target)
                        /\ a + k <= base + Len(f[k]) \/ target <= base + Len(f[k])
  <1>6. Good(0)
    <2>1. PICK G : G = Gathered(v)
      OBVIOUS
    <2>2. f[0] = G
      BY <1>4, <2>1 DEF Listing
    <2>3. Below(G, base, target)
      BY <1>1, <2>1, GatheredBelow
    <2>4. Len(G) \in Nat
      BY <2>3, BelowIs
    <2>5. a + 0 <= base + Len(G)
      BY <1>1, <2>1, <2>4
    <2>6. QED
      BY <2>2, <2>3, <2>5
  <1>7. ASSUME NEW k \in 0..(n - 1), Good(k) PROVE Good(k + 1)
    <2>1. PICK b : b = list[k + 1]
      OBVIOUS
    <2>2. PICK G : G = f[k]
      OBVIOUS
    <2>3. f[k + 1] = IF b.height < target THEN Listed(v, G, b) ELSE G
      <3>1. k + 1 \in 0..n /\ k + 1 # 0 /\ (k + 1) - 1 = k
        OBVIOUS
      <3>2. QED
        BY <1>1, <1>4, <2>1, <2>2, <3>1 DEF Listing
    <2>4. OnChain(b) /\ b.height = a + k
      <3>1. k + 1 \in DOMAIN list
        BY <1>2
      <3>2. OnChain(b) /\ b.height = a + (k + 1) - 1
        BY <2>1, <3>1 DEF Serves
      <3>3. QED
        BY <3>2
    <2>5. Below(G, base, target) /\ (a + k <= base + Len(G) \/ target <= base + Len(G))
      BY <1>7, <2>2
    <2>6. PICK l \in Nat : l = Len(G)
      BY <2>5, BelowIs
    <2>7. CASE b.height < target
      <3>1. PICK L : L = Listed(v, G, b)
        OBVIOUS
      <3>2. base <= b.height /\ b.height <= base + Len(G)
        BY <1>1, <2>4, <2>5, <2>6, <2>7
      <3>3. Below(L, base, target) /\ b.height < base + Len(L)
        BY <1>1, <2>4, <2>5, <2>7, <3>1, <3>2, ListedBelow
      <3>4. PICK m \in Nat : m = Len(L)
        BY <3>3, BelowIs
      <3>5. a + (k + 1) <= base + m
        BY <2>4, <3>3, <3>4
      <3>6. f[k + 1] = L
        BY <2>3, <2>7, <3>1
      <3>7. QED
        BY <3>3, <3>4, <3>5, <3>6
    <2>8. CASE ~ (b.height < target)
      <3>1. f[k + 1] = G
        BY <2>3, <2>8
      <3>2. target <= base + l
        BY <2>4, <2>5, <2>6, <2>8
      <3>3. QED
        BY <2>5, <2>6, <3>1, <3>2
    <2>9. QED
      BY <2>7, <2>8
  <1> HIDE DEF Good
  <1>8. Good(n)
    <2> DEFINE Bad == {k \in 0..n : ~ Good(k)}
    <2>1. SUFFICES ASSUME Bad # {} PROVE FALSE
      BY <1>2
    <2>2. PICK k \in Bad : \A j \in Bad : k <= j
      <3>1. Bad \in SUBSET Nat
        BY <1>2
      <3> HIDE DEF Bad
      <3>2. QED
        BY <2>1, <3>1, LeastNumber
    <2>3. k # 0 /\ k \in 0..n
      BY <1>6, <2>2
    <2>4. k - 1 \in 0..(n - 1) /\ k - 1 \in 0..n /\ (k - 1) + 1 = k
      BY <1>2, <2>3
    <2>5. k - 1 \notin Bad
      <3>1. ~ (k <= k - 1)
        BY <2>3
      <3> HIDE DEF Bad
      <3>2. QED
        BY <2>2, <3>1
    <2>6. Good(k - 1)
      BY <2>4, <2>5
    <2>7. Good((k - 1) + 1)
      BY <1>7, <2>4, <2>6
    <2>8. QED
      BY <2>2, <2>4, <2>7
  <1>9. QED
    BY <1>1, <1>2, <1>5, <1>8 DEF Good

(* Hashes put below the blocks of a wallet that holds none below them. *)
LEMMA FilledSound ==
    ASSUME NEW v, Books(v), Follows(v), NEW base \in Nat, base <= v.from, NEW F,
           Below(F, base, FillTarget(v)), FillTarget(v) <= v.from, FillTarget(v) \in Nat,
           v.hashes # << >> => base + Len(F) = v.start,
           NEW x, x = [v EXCEPT !.fill = << >>, !.hashes = F \o @, !.start = base]
    PROVE  Sound(x)
  <1>1. PICK H : H = F \o v.hashes
    OBVIOUS
  <1>2. PICK target \in Nat : target = FillTarget(v)
    OBVIOUS
  <1>3. Below(F, base, target)
    BY <1>2
  <1>4. PICK n \in Nat : n = Len(F) /\ n > 0 /\ DOMAIN F = 1..n
    BY <1>3, BelowIs
  <1>5. F \in Seq(Block) /\ v.hashes \in Seq(Block) /\ v.start \in Nat /\ v.from \in Nat
    BY PartsOf DEF Below
  <1>6. \A i \in DOMAIN F : F[i] \in Block /\ F[i].height \in Nat /\ F[i].height = base + i - 1 /\ F[i].height < v.from
    <2>1. \A i \in DOMAIN F : F[i] \in Block /\ F[i].height = base + i - 1 /\ F[i].height < target
      BY <1>3, BelowIs
    <2>2. \A b \in Block : b.height \in Nat
      BY DEF Block
    <2>3. QED
      BY <1>2, <1>5, <2>1, <2>2
  <1>7. H \in Seq(Block) /\ Joined(H, F, v.hashes)
    BY <1>1, <1>5, JoinedIs
  <1>8. \A j \in DOMAIN v.hashes : v.hashes[j].height = v.start + j - 1 /\ j \in Nat
    BY HeldBelow
  <1>9. \A k \in DOMAIN H : \/ k \in DOMAIN F /\ H[k] = F[k]
                            \/ \E j \in DOMAIN v.hashes : k = n + j /\ H[k] = v.hashes[j]
    BY <1>4, <1>7 DEF Joined
  <1>10. \A j \in DOMAIN v.hashes : n + j \in DOMAIN H /\ H[n + j] = v.hashes[j]
    BY <1>4, <1>7 DEF Joined
  <1>11. HeightsFrom(H, base)
    <2>1. SUFFICES ASSUME NEW k \in DOMAIN H PROVE H[k].height = base + k - 1
      BY DEF HeightsFrom
    <2>2. CASE k \in DOMAIN F /\ H[k] = F[k]
      BY <1>6, <2>2
    <2>3. CASE \E j \in DOMAIN v.hashes : k = n + j /\ H[k] = v.hashes[j]
      <3>1. PICK j \in DOMAIN v.hashes : k = n + j /\ H[k] = v.hashes[j]
        BY <2>3
      <3>2. v.start = base + n
        BY <1>4, <3>1
      <3>3. H[k].height = v.start + j - 1 /\ j \in Nat
        BY <1>8, <3>1
      <3>4. QED
        BY <3>1, <3>2, <3>3
    <2>4. QED
      BY <1>9, <2>2, <2>3
  <1>12. ScannedFrom(H, v.from) = ScannedFrom(v.hashes, v.from)
    <2>1. ASSUME NEW b \in ScannedFrom(H, v.from) PROVE b \in ScannedFrom(v.hashes, v.from)
      <3>1. PICK k \in DOMAIN H : H[k] = b /\ b.height >= v.from /\ b.tx # NoTx
        BY <2>1 DEF ScannedFrom, ToSet
      <3>2. ~ (k \in DOMAIN F /\ H[k] = F[k])
        BY <1>5, <1>6, <3>1
      <3>3. PICK j \in DOMAIN v.hashes : H[k] = v.hashes[j]
        BY <1>9, <3>2
      <3>4. QED
        BY <3>1, <3>3 DEF ScannedFrom, ToSet
    <2>2. ASSUME NEW b \in ScannedFrom(v.hashes, v.from) PROVE b \in ScannedFrom(H, v.from)
      <3>1. PICK j \in DOMAIN v.hashes : v.hashes[j] = b /\ b.height >= v.from /\ b.tx # NoTx
        BY <2>2 DEF ScannedFrom, ToSet
      <3>2. n + j \in DOMAIN H /\ H[n + j] = b
        BY <1>10, <3>1
      <3>3. QED
        BY <3>1, <3>2 DEF ScannedFrom, ToSet
    <2>3. QED
      BY <2>1, <2>2
  <1>13. PICK z : z = [start |-> base, from |-> v.from, hashes |-> H, fill |-> << >>,
                       transfers |-> v.transfers, sent |-> v.sent]
    OBVIOUS
  <1>14. /\ z.start = base /\ z.from = v.from /\ z.hashes = H /\ z.fill = << >>
         /\ z.transfers = v.transfers /\ z.sent = v.sent
    BY <1>13
  <1>15. z = With(z, H, v.transfers, v.sent)
    BY <1>13, <1>14 DEF With
  <1>16. Books(With(z, H, v.transfers, v.sent))
    <2>1. /\ v.transfers \in Seq(Transfer) /\ OutsDistinct(v.transfers) /\ RecordsTyped(v.sent)
          /\ \A a \in ScannedFrom(v.hashes, v.from) : a.height > 0
          /\ Paid(v.transfers, ScannedFrom(v.hashes, v.from))
          /\ Spent(v.transfers, ScannedFrom(v.hashes, v.from))
          /\ Confirmed(v.sent, v.from, ScannedFrom(v.hashes, v.from))
          /\ HeldBack(v.transfers, v.sent) /\ ItsInputs(v.sent)
      BY PartsOf
    <2>2. z.start \in Nat /\ z.from \in Nat /\ z.start <= z.from /\ z.fill \in Seq(Block)
      BY <1>5, <1>14
    <2>3. HeightsFrom(H, z.start) /\ ScannedFrom(H, z.from) = ScannedFrom(v.hashes, v.from)
      BY <1>11, <1>12, <1>14
    <2>4. QED
      BY <1>7, <1>14, <2>1, <2>2, <2>3, BooksOf
  <1>17. Follows(z)
    <2>1. \A i \in DOMAIN H : H[i].height >= v.from =>
             \E j \in DOMAIN v.hashes : i = n + j /\ H[i] = v.hashes[j]
      <3>1. SUFFICES ASSUME NEW i \in DOMAIN H, H[i].height >= v.from
                     PROVE  \E j \in DOMAIN v.hashes : i = n + j /\ H[i] = v.hashes[j]
        OBVIOUS
      <3>2. ~ (i \in DOMAIN F /\ H[i] = F[i])
        BY <1>5, <1>6, <3>1
      <3>3. QED
        BY <1>9, <3>2
    <2>2. ASSUME NEW i \in DOMAIN H, H[i].height >= v.from
          PROVE  H[i].branch <= branch /\ (H[i].branch = branch => OnChain(H[i]))
      BY <2>1, <2>2 DEF Follows
    <2>3. ASSUME NEW i \in DOMAIN H, NEW k \in DOMAIN H, i < k, H[i].height >= v.from, OnChain(H[k])
          PROVE  OnChain(H[i])
      <3>1. PICK j \in DOMAIN v.hashes : i = n + j /\ H[i] = v.hashes[j]
        BY <2>1, <2>3
      <3>2. j \in Nat
        BY <1>8
      <3>3. ~ (k \in DOMAIN F)
        BY <1>4, <2>3, <3>1, <3>2
      <3>4. PICK m \in DOMAIN v.hashes : k = n + m /\ H[k] = v.hashes[m]
        BY <1>9, <3>3
      <3>5. j < m
        <4>1. m \in Nat
          BY <1>8
        <4>2. QED
          BY <2>3, <3>1, <3>2, <3>4, <4>1
      <3>6. QED
        BY <2>3, <3>1, <3>4, <3>5 DEF Follows
    <2>4. QED
      BY <1>14, <2>2, <2>3 DEF Follows
  <1>18. x = z
    <2>1. PICK u : u = With(v, v.hashes, v.transfers, v.sent)
      OBVIOUS
    <2>2. u = v
      BY <2>1, ShapeWith DEF Books
    <2>3. x = [[[u EXCEPT !.fill = << >>] EXCEPT !.hashes = H] EXCEPT !.start = base]
      <3>1. x = [v EXCEPT !.fill = << >>, !.hashes = H, !.start = base]
        BY <1>1
      <3>2. QED
        BY <2>2, <3>1
    <2>4. QED
      BY <1>13, <2>1, <2>3 DEF With
  <1>19. FillOK(z)
    BY <1>14 DEF FillOK
  <1>20. QED
    BY <1>15, <1>16, <1>17, <1>18, <1>19 DEF Sound

(* Only the hashes gathered change. *)
LEMMA FillSet ==
    ASSUME NEW v, Books(v), Follows(v), NEW X \in Seq(Block), NEW x, x = [v EXCEPT !.fill = X]
    PROVE  /\ Books(x) /\ Follows(x) /\ x.fill = X /\ HistoryBase(x) = HistoryBase(v)
           /\ FillTarget(x) = FillTarget(v) /\ (Fills(x) <=> Fills(v))
  <1>1. PICK u : u = With(v, v.hashes, v.transfers, v.sent)
    OBVIOUS
  <1>2. u = v
    BY <1>1, ShapeWith DEF Books
  <1>3. x = [start |-> v.start, from |-> v.from, hashes |-> v.hashes, fill |-> X,
             transfers |-> v.transfers, sent |-> v.sent]
    BY <1>1, <1>2 DEF With
  <1>4. /\ x.start = v.start /\ x.from = v.from /\ x.hashes = v.hashes /\ x.fill = X
        /\ x.transfers = v.transfers /\ x.sent = v.sent
    BY <1>3
  <1>5. Shape(x)
    BY <1>3, <1>4 DEF Shape, Books
  <1>6. Matched(x) /\ Tied(x)
    BY <1>4 DEF Books, Matched, Tied, ScannedBy
  <1>7. Follows(x)
    BY <1>4 DEF Follows
  <1>8. HistoryBase(x) = HistoryBase(v) /\ FillTarget(x) = FillTarget(v)
    BY <1>4 DEF HistoryBase, FillTarget
  <1>9. QED
    BY <1>4, <1>5, <1>6, <1>7, <1>8 DEF Books, Fills

LEMMA UnfilledSound ==
    ASSUME NEW v, Sound(v), NEW x, x = [v EXCEPT !.fill = << >>]
    PROVE  Sound(x)
  <1>1. Books(v) /\ Follows(v)
    BY DEF Sound
  <1>2. PICK X : X = << >>
    OBVIOUS
  <1>6. X \in Seq(Block)
    BY <1>2
  <1>3. x = [v EXCEPT !.fill = X]
    BY <1>2
  <1>4. Books(x) /\ Follows(x) /\ x.fill = X
    BY <1>1, <1>3, <1>6, FillSet
  <1>5. QED
    BY <1>2, <1>4 DEF Sound, FillOK

(* fill_below, of the hashes the daemon lists. *)
LEMMA FillBelowSound ==
    ASSUME ChainOK, NEW v, Sound(v), Fills(v), NEW list, list = GetHashes(FillHistory(v))
    PROVE  Sound(FillBelow(v, list).w)
  <1>1. Books(v) /\ FillOK(v) /\ Follows(v)
    BY DEF Sound
  <1>2. PICK base \in Nat, target \in Nat : /\ base = HistoryBase(v) /\ target = FillTarget(v)
                                            /\ base <= v.from /\ base < target /\ target <= v.from
    BY <1>1, BaseIs
  <1>3. /\ v.hashes = << >> => target = v.from
        /\ v.hashes # << >> => target = v.start
    BY <1>1, <1>2, BaseIs
  <1>4. PICK a \in Nat : Serves(list, a) /\ base <= a /\ a < base + Len(Gathered(v))
    BY <1>1, <1>2, FillListIs
  <1>5. PICK F : F = ListAll(v, list)
    OBVIOUS
  <1>6. Below(F, base, target) /\ (a + Len(list) <= base + Len(F) \/ target <= base + Len(F))
    BY <1>1, <1>2, <1>4, <1>5, ListAllBelow
  <1>7. PICK n \in Nat : n = Len(F) /\ base + n <= target
    BY <1>6, BelowIs DEF Below
  <1>8. PICK at : at = {b \in ToSet(list) : b.height = target}
    OBVIOUS
  <1>9. at # {} => base + n = target
    <2>1. SUFFICES ASSUME NEW b \in at PROVE base + n = target
      OBVIOUS
    <2>2. PICK k \in DOMAIN list : list[k] = b /\ b.height = target
      BY <1>8, <2>1 DEF ToSet
    <2>3. k \in Nat /\ k <= Len(list) /\ Len(list) \in Nat
      BY <1>4, PlacesOf DEF Serves
    <2>4. target = a + k - 1
      BY <1>4, <2>2 DEF Serves
    <2>5. QED
      BY <1>6, <1>7, <2>3, <2>4
  <1>10. PICK reached \in BOOLEAN : reached <=> (at # {} \/ base + n >= target)
    OBVIOUS
  <1>11. reached => base + n = target
    BY <1>7, <1>9, <1>10
  <1>12. PICK stale \in BOOLEAN : stale <=> (v.hashes # << >> /\ at # {} /\ v.hashes[1] \notin at)
    OBVIOUS
  <1>13. PICK under : under = IF stale THEN Detach(v, v.start) ELSE v
    OBVIOUS
  <1>14. FillBelow(v, list).w
           = IF ~reached /\ n > Len(Gathered(v)) THEN [v EXCEPT !.fill = F]
             ELSE IF ~reached /\ v.hashes # << >> THEN [v EXCEPT !.fill = << >>]
             ELSE [under EXCEPT !.fill = << >>, !.hashes = F \o @, !.start = base]
    <2>1. /\ HistoryBase(v) = base /\ FillTarget(v) = target /\ ListAll(v, list) = F
          /\ {b \in ToSet(list) : b.height = target} = at /\ Len(F) = n
      BY <1>2, <1>5, <1>7, <1>8
    <2>2. QED
      BY <1>10, <1>12, <1>13, <2>1 DEF FillBelow
  <1>15. CASE ~reached /\ n > Len(Gathered(v))
    <2>1. PICK x : x = [v EXCEPT !.fill = F]
      OBVIOUS
    <2>4. F \in Seq(Block) /\ F[1] = Anchor(base) /\ HeightsFrom(F, base)
      BY <1>6 DEF Below
    <2>2. /\ Books(x) /\ Follows(x) /\ x.fill = F
          /\ HistoryBase(x) = base /\ FillTarget(x) = target /\ Fills(x)
      BY <1>1, <1>2, <2>1, <2>4, FillSet
    <2>3. base + Len(F) < target
      BY <1>2, <1>7, <1>10, <1>15
    <2>5. FillOK(x)
      BY <2>2, <2>3, <2>4 DEF FillOK
    <2>6. FillBelow(v, list).w = x
      BY <1>14, <1>15, <2>1
    <2>7. QED
      BY <2>2, <2>5, <2>6 DEF Sound
  <1>16. CASE ~ (~reached /\ n > Len(Gathered(v))) /\ (~reached /\ v.hashes # << >>)
    <2>1. PICK x : x = [v EXCEPT !.fill = << >>]
      OBVIOUS
    <2>2. FillBelow(v, list).w = x
      BY <1>14, <1>16, <2>1
    <2>3. QED
      BY <2>1, <2>2, UnfilledSound
  <1>17. CASE ~ (~reached /\ n > Len(Gathered(v))) /\ ~ (~reached /\ v.hashes # << >>)
    <2>1. PICK x : x = [under EXCEPT !.fill = << >>, !.hashes = F \o @, !.start = base]
      OBVIOUS
    <2>2. FillBelow(v, list).w = x
      BY <1>14, <1>17, <2>1
    <2>3. Books(under) /\ Follows(under) /\ under.from = v.from /\ under.start = v.start
          /\ (under.hashes # << >> => v.hashes # << >>)
      <3>1. CASE stale
        <4>1. v.start \in Nat /\ v.start <= v.start /\ v.start <= ScanHeight(v) /\ v.start - v.start = 0
          BY <1>1, PartsOf, HeldBelow
        <4>2. PICK d : d = Detach(v, v.start)
          OBVIOUS
        <4>3. Books(d) /\ Beside(d, v, SubSeq(v.hashes, 1, v.start - v.start))
          BY <1>1, <4>1, <4>2, DetachBooks
        <4>4. SubSeq(v.hashes, 1, 0) = << >>
          OBVIOUS
        <4>5. d.hashes = << >> /\ d.from = v.from /\ d.start = v.start
          BY <4>1, <4>3, <4>4 DEF Beside
        <4>6. Follows(d)
          BY <4>5 DEF Follows
        <4>7. QED
          BY <1>13, <3>1, <4>2, <4>3, <4>5, <4>6
      <3>2. CASE ~ stale
        BY <1>1, <1>13, <3>2
      <3>3. QED
        BY <3>1, <3>2
    <2>4. FillTarget(under) = target \/ (FillTarget(under) = v.from /\ under.hashes = << >>)
      <3>1. v.start \in Nat /\ v.from \in Nat /\ v.start <= v.from
        BY <1>1, PartsOf
      <3>2. PICK c \in Nat, d \in Nat : c = v.from /\ d = v.start
        BY <3>1
      <3>3. Max({c, d}) = IF c <= d THEN d ELSE c
        BY PairOf
      <3>4. Max({under.from, under.start}) = v.from
        BY <2>3, <3>1, <3>2, <3>3
      <3>5. under.hashes = << >> => FillTarget(under) = v.from
        BY <3>4 DEF FillTarget
      <3>6. under.hashes # << >> => FillTarget(under) = target
        BY <1>3, <2>3 DEF FillTarget
      <3>7. QED
        BY <3>5, <3>6
    <2>5. v.from \in Nat
      BY <1>1, PartsOf
    <2>6. FillTarget(under) \in Nat /\ FillTarget(under) <= under.from /\ target <= FillTarget(under)
      BY <1>2, <2>3, <2>4, <2>5
    <2>7. Below(F, base, FillTarget(under))
      BY <1>6, <1>7, <2>6 DEF Below
    <2>8. under.hashes # << >> => base + Len(F) = under.start
      BY <1>3, <1>7, <1>11, <1>17, <2>3
    <2>9. Sound(x)
      BY <1>2, <2>1, <2>3, <2>6, <2>7, <2>8, FilledSound
    <2>10. QED
      BY <2>2, <2>9
  <1>18. QED
    BY <1>15, <1>16, <1>17

-----------------------------------------------------------------------------
(* The daemon's chain and pool. *)

(* OnChain and Follows, of any chain. *)
OnIn(b, c) == b.height + 1 \in DOMAIN c /\ c[b.height + 1] = b

FollowsOn(v, c, br) ==
    /\ \A i \in DOMAIN v.hashes : v.hashes[i].height >= v.from =>
          /\ v.hashes[i].branch <= br
          /\ v.hashes[i].branch = br => OnIn(v.hashes[i], c)
    /\ \A i, j \in DOMAIN v.hashes : i < j /\ v.hashes[i].height >= v.from =>
          (OnIn(v.hashes[j], c) => OnIn(v.hashes[i], c))

LEMMA FollowsIs ==
    ASSUME NEW v
    PROVE  /\ Follows(v) <=> FollowsOn(v, chain, branch)
           /\ \A b : OnChain(b) <=> OnIn(b, chain)
  <1>1. \A b : OnChain(b) <=> OnIn(b, chain)
    BY DEF OnChain, OnIn
  <1>2. QED
    BY <1>1 DEF Follows, FollowsOn

(* From a chain c of branch br to a chain d: what c had below l stays, and what
   is new is of the branch then current. *)
Advances(c, br, d, brd, l) ==
    /\ br \in Nat /\ brd \in Nat /\ br <= brd
    /\ \A b : b.height < l => (OnIn(b, c) <=> OnIn(b, d))
    /\ \A b : OnIn(b, d) /\ ~ (b.height < l) => b.branch = brd
    /\ brd = br => \A b : OnIn(b, c) => OnIn(b, d)

LEMMA FollowsStep ==
    ASSUME NEW v, Books(v), NEW c, NEW br, NEW d, NEW brd, NEW l \in Nat,
           FollowsOn(v, c, br), Advances(c, br, d, brd, l)
    PROVE  FollowsOn(v, d, brd)
  <1>1. \A i \in DOMAIN v.hashes : /\ v.hashes[i] \in Block /\ v.hashes[i].height = v.start + i - 1
                                   /\ v.hashes[i].height \in Nat /\ i \in Nat
    BY HeldBelow
  <1>2. v.start \in Nat /\ v.from \in Nat /\ br \in Nat /\ brd \in Nat /\ br <= brd
    BY PartsOf DEF Advances
  <1>3. \A b \in Block : b.branch \in Nat
    BY DEF Block
  <1>4. ASSUME NEW i \in DOMAIN v.hashes, v.hashes[i].height >= v.from
        PROVE  /\ v.hashes[i].branch <= brd
               /\ v.hashes[i].branch = brd => OnIn(v.hashes[i], d)
    <2>1. v.hashes[i].branch <= br /\ (v.hashes[i].branch = br => OnIn(v.hashes[i], c))
      BY <1>4 DEF FollowsOn
    <2>2. v.hashes[i].branch \in Nat
      BY <1>1, <1>3
    <2>3. v.hashes[i].branch <= brd
      BY <1>2, <2>1, <2>2
    <2>4. ASSUME v.hashes[i].branch = brd PROVE OnIn(v.hashes[i], d)
      <3>1. brd = br
        BY <1>2, <2>1, <2>2, <2>4
      <3>2. OnIn(v.hashes[i], c)
        BY <2>1, <2>4, <3>1
      <3>3. QED
        BY <3>1, <3>2 DEF Advances
    <2>5. QED
      BY <2>3, <2>4
  <1>5. ASSUME NEW i \in DOMAIN v.hashes, NEW j \in DOMAIN v.hashes, i < j, v.hashes[i].height >= v.from,
               OnIn(v.hashes[j], d)
        PROVE  OnIn(v.hashes[i], d)
    <2>1. v.hashes[j].height > v.hashes[i].height
      <3>1. v.hashes[j].height = v.start + j - 1 /\ v.hashes[i].height = v.start + i - 1 /\ i \in Nat /\ j \in Nat
        BY <1>1
      <3>2. v.start + j - 1 > v.start + i - 1
        BY <1>2, <1>5, <3>1
      <3>3. QED
        BY <3>1, <3>2
    <2>2. v.hashes[i].height \in Nat /\ v.hashes[j].height \in Nat
      BY <1>1
    <2>3. CASE v.hashes[j].height < l
      <3>1. OnIn(v.hashes[j], c)
        BY <1>5, <2>3 DEF Advances
      <3>2. OnIn(v.hashes[i], c)
        BY <1>5, <3>1 DEF FollowsOn
      <3>3. v.hashes[i].height < l
        BY <2>1, <2>2, <2>3
      <3>4. QED
        BY <3>2, <3>3 DEF Advances
    <2>4. CASE ~ (v.hashes[j].height < l)
      <3>1. v.hashes[j].branch = brd
        BY <1>5, <2>4 DEF Advances
      <3>2. v.hashes[j].height >= v.from
        BY <1>2, <1>5, <2>1, <2>2
      <3>3. v.hashes[j].branch <= br /\ (v.hashes[j].branch = br => OnIn(v.hashes[j], c))
        BY <3>2 DEF FollowsOn
      <3>4. v.hashes[j].branch \in Nat
        BY <1>1, <1>3
      <3>5. brd = br
        BY <1>2, <3>1, <3>3, <3>4
      <3>6. OnIn(v.hashes[j], c)
        BY <3>1, <3>3, <3>5
      <3>7. OnIn(v.hashes[i], c)
        BY <1>5, <3>6 DEF FollowsOn
      <3>8. QED
        BY <3>5, <3>7 DEF Advances
    <2>5. QED
      BY <2>3, <2>4
  <1>6. QED
    BY <1>4, <1>5 DEF FollowsOn

(* A chain d, its first l blocks valid, each later transaction good on the
   blocks before it. *)
ClearAt(d, j) ==
    /\ \A i \in 1..(j - 1) : d[i].tx # NoTx => d[i].tx # d[j].tx /\ Ins[d[i].tx] \cap Ins[d[j].tx] = {}
    /\ \A o \in Ins[d[j].tx] : \E k \in 1..(j - 1) : d[k].tx # NoTx /\ o \in ToSet(Pays[d[k].tx])

LEMMA ClearIs ==
    ASSUME NEW p \in Seq(Block), NEW t \in Tx, NEW ring, Verifies(t, p, ring)
    PROVE  /\ \A i \in DOMAIN p : p[i].tx # NoTx => p[i].tx # t /\ Ins[p[i].tx] \cap Ins[t] = {}
           /\ \A o \in Ins[t] : \E k \in DOMAIN p : p[k].tx # NoTx /\ o \in ToSet(Pays[p[k].tx])
  <1>1. t \notin TxsOf(p) /\ Ins[t] \subseteq PaidIn(p) \ SpentIn(TxsOf(p))
    BY DEF Verifies
  <1>2. ASSUME NEW i \in DOMAIN p, p[i].tx # NoTx PROVE p[i].tx # t /\ Ins[p[i].tx] \cap Ins[t] = {}
    <2>1. p[i].tx \in TxsOf(p)
      BY <1>2 DEF TxsOf
    <2>2. Ins[p[i].tx] \subseteq SpentIn(TxsOf(p))
      BY <2>1 DEF SpentIn
    <2>3. QED
      BY <1>1, <2>1, <2>2
  <1>3. ASSUME NEW o \in Ins[t] PROVE \E k \in DOMAIN p : p[k].tx # NoTx /\ o \in ToSet(Pays[p[k].tx])
    <2>1. o \in PaidIn(p)
      BY <1>1
    <2>2. PICK u \in TxsOf(p) : o \in ToSet(Pays[u])
      BY <2>1 DEF PaidIn
    <2>3. PICK k \in DOMAIN p : p[k].tx = u /\ u # NoTx
      BY <2>2 DEF TxsOf
    <2>4. QED
      BY <2>2, <2>3
  <1>4. QED
    BY <1>2, <1>3

LEMMA ValidGrown ==
    ASSUME NEW c \in Seq(Block), Valid(c), NEW d \in Seq(Block), NEW l \in Nat, l <= Len(c), l <= Len(d),
           \A i \in 1..l : d[i] = c[i],
           \A j \in DOMAIN d : j > l /\ d[j].tx # NoTx => ClearAt(d, j)
    PROVE  Valid(d)
  <1>1. DOMAIN c = 1..Len(c) /\ DOMAIN d = 1..Len(d) /\ Len(c) \in Nat /\ Len(d) \in Nat
    BY PlacesOf
  <1>2. \A i \in 1..l : i \in DOMAIN c /\ i \in DOMAIN d
    BY <1>1
  <1>3. ASSUME NEW i \in DOMAIN d, NEW j \in DOMAIN d, i < j, d[i].tx # NoTx, d[j].tx # NoTx
        PROVE  d[i].tx # d[j].tx /\ Ins[d[i].tx] \cap Ins[d[j].tx] = {}
    <2>1. CASE j > l
      <3>1. i \in 1..(j - 1)
        BY <1>1, <1>3
      <3>2. QED
        BY <1>3, <2>1, <3>1 DEF ClearAt
    <2>2. CASE ~ (j > l)
      <3>1. i \in 1..l /\ j \in 1..l /\ i # j
        BY <1>1, <1>3, <2>2
      <3>2. d[i] = c[i] /\ d[j] = c[j] /\ i \in DOMAIN c /\ j \in DOMAIN c
        BY <1>2, <3>1
      <3>3. QED
        BY <1>3, <3>1, <3>2 DEF Valid
    <2>3. QED
      BY <2>1, <2>2
  <1>4. ASSUME NEW i \in DOMAIN d, NEW j \in DOMAIN d, i # j, d[i].tx # NoTx, d[j].tx # NoTx
        PROVE  d[i].tx # d[j].tx /\ Ins[d[i].tx] \cap Ins[d[j].tx] = {}
    <2>1. i < j \/ j < i
      BY <1>1, <1>4
    <2>2. CASE i < j
      BY <1>3, <1>4, <2>2
    <2>3. CASE j < i
      <3>1. d[j].tx # d[i].tx /\ Ins[d[j].tx] \cap Ins[d[i].tx] = {}
        BY <1>3, <1>4, <2>3
      <3>2. QED
        BY <3>1
    <2>4. QED
      BY <2>1, <2>2, <2>3
  <1>5. ASSUME NEW j \in DOMAIN d, d[j].tx # NoTx, NEW o \in Ins[d[j].tx]
        PROVE  \E k \in DOMAIN d : k < j /\ d[k].tx # NoTx /\ o \in ToSet(Pays[d[k].tx])
    <2>1. CASE j > l
      <3>1. PICK k \in 1..(j - 1) : d[k].tx # NoTx /\ o \in ToSet(Pays[d[k].tx])
        BY <1>5, <2>1 DEF ClearAt
      <3>2. k \in DOMAIN d /\ k < j
        BY <1>1, <1>5, <3>1
      <3>3. QED
        BY <3>1, <3>2
    <2>2. CASE ~ (j > l)
      <3>1. j \in 1..l
        BY <1>1, <1>5, <2>2
      <3>2. d[j] = c[j] /\ j \in DOMAIN c
        BY <1>2, <3>1
      <3>3. PICK k \in DOMAIN c : k < j /\ c[k].tx # NoTx /\ o \in ToSet(Pays[c[k].tx])
        BY <1>5, <3>2 DEF Valid
      <3>4. k \in 1..l
        BY <1>1, <3>1, <3>3
      <3>5. d[k] = c[k] /\ k \in DOMAIN d
        BY <1>2, <3>4
      <3>6. QED
        BY <3>3, <3>5
    <2>3. QED
      BY <2>1, <2>2
  <1>6. QED
    BY <1>4, <1>5 DEF Valid

(* ChainOK and PoolOK, of any chain and pool. *)
ChainIs(c, br) ==
    /\ c \in Seq(Block) /\ br \in Nat /\ Len(c) > Checkpoint
    /\ c[1] = Anchor(0) /\ c[Checkpoint + 1] = Anchor(Checkpoint)
    /\ HeightsFrom(c, 0) /\ (\A i \in DOMAIN c : c[i].branch <= br)
    /\ Valid(c)

PoolIs(p, R, rg, c) ==
    /\ p \subseteq R /\ R \subseteq DOMAIN rg /\ DOMAIN rg \subseteq Tx
    /\ TxsOf(c) \subseteq R
    /\ \A t \in p : Verifies(t, c, rg[t])

(* The chain d keeps the first l blocks, and the later ones are of branch brd. *)
Grows(d, brd, l) ==
    /\ d \in Seq(Block) /\ brd \in Nat /\ branch <= brd
    /\ l \in Nat /\ l > Checkpoint /\ l <= Len(chain) /\ l <= Len(d)
    /\ \A i \in 1..l : d[i] = chain[i]
    /\ HeightsFrom(d, 0)
    /\ \A j \in DOMAIN d : j > l => d[j].branch = brd /\ (d[j].tx # NoTx => ClearAt(d, j))
    /\ brd = branch => l = Len(chain)

LEMMA Grown ==
    ASSUME ChainOK, NEW d, NEW brd, NEW l, Grows(d, brd, l)
    PROVE  ChainIs(d, brd) /\ Advances(chain, branch, d, brd, l)
  <1>1. /\ chain \in Seq(Block) /\ branch \in Nat /\ Len(chain) > Checkpoint
        /\ chain[1] = Anchor(0) /\ chain[Checkpoint + 1] = Anchor(Checkpoint)
        /\ HeightsFrom(chain, 0) /\ (\A i \in DOMAIN chain : chain[i].branch <= branch)
        /\ Valid(chain)
    BY DEF ChainOK
  <1>2. /\ d \in Seq(Block) /\ brd \in Nat /\ branch <= brd
        /\ l \in Nat /\ l > Checkpoint /\ l <= Len(chain) /\ l <= Len(d)
        /\ \A i \in 1..l : d[i] = chain[i]
        /\ HeightsFrom(d, 0)
        /\ \A j \in DOMAIN d : j > l => d[j].branch = brd /\ (d[j].tx # NoTx => ClearAt(d, j))
        /\ brd = branch => l = Len(chain)
    BY DEF Grows
  <1>3. PICK n \in Nat : n = Len(chain) /\ DOMAIN chain = 1..n
    BY <1>1, PlacesOf
  <1>4. PICK m \in Nat : m = Len(d) /\ DOMAIN d = 1..m /\ \A i \in DOMAIN d : d[i] \in Block
    BY <1>2, PlacesOf
  <1>5. Checkpoint \in Nat /\ Checkpoint < l /\ l <= n /\ l <= m
    BY <1>2, <1>3, <1>4, HistoryAssumption
  <1>6. \A i \in 1..l : i \in DOMAIN chain /\ i \in DOMAIN d
    BY <1>2, <1>3, <1>4, <1>5
  <1>7. Valid(d)
    BY <1>1, <1>2, ValidGrown
  <1>8. d[1] = Anchor(0) /\ d[Checkpoint + 1] = Anchor(Checkpoint)
    <2>1. 1 \in 1..l /\ Checkpoint + 1 \in 1..l
      BY <1>2, <1>5
    <2>2. QED
      BY <1>1, <1>2, <2>1
  <1>9. \A b \in Block : b.branch \in Nat /\ b.height \in Nat
    BY DEF Block
  <1>10. ASSUME NEW i \in DOMAIN d PROVE d[i].branch <= brd
    <2>1. CASE i > l
      BY <1>2, <2>1
    <2>2. CASE ~ (i > l)
      <3>1. i \in 1..l
        BY <1>2, <1>4, <2>2
      <3>2. d[i] = chain[i] /\ i \in DOMAIN chain
        BY <1>2, <1>6, <3>1
      <3>3. d[i].branch <= branch /\ d[i].branch \in Nat
        BY <1>1, <1>4, <1>9, <3>2
      <3>4. QED
        BY <1>1, <1>2, <3>3
    <2>3. QED
      BY <2>1, <2>2
  <1>11. Len(d) > Checkpoint
    BY <1>2, <1>4, <1>5
  <1>12. ChainIs(d, brd)
    BY <1>2, <1>7, <1>8, <1>10, <1>11 DEF ChainIs
  <1>13. ASSUME NEW b, NEW c, c = chain \/ c = d, OnIn(b, c)
         PROVE  b \in Block /\ b.height \in Nat /\ b.height + 1 \in DOMAIN c /\ c[b.height + 1] = b
    <2>1. b.height + 1 \in DOMAIN c /\ c[b.height + 1] = b
      BY <1>13 DEF OnIn
    <2>2. c \in Seq(Block)
      BY <1>1, <1>2, <1>13
    <2>3. b \in Block
      BY <2>1, <2>2, PlacesOf
    <2>4. QED
      BY <1>9, <2>1, <2>3
  <1>14. ASSUME NEW b, NEW c, c = chain \/ c = d, NEW e, e = chain \/ e = d, b.height < l, OnIn(b, c)
         PROVE  OnIn(b, e)
    <2>1. b.height \in Nat /\ b.height + 1 \in DOMAIN c /\ c[b.height + 1] = b
      BY <1>13, <1>14
    <2>2. PICK i : i = b.height + 1
      OBVIOUS
    <2>3. i \in 1..l
      BY <1>2, <1>14, <2>1, <2>2
    <2>4. i \in DOMAIN e /\ e[i] = c[i]
      BY <1>2, <1>6, <1>14, <2>3
    <2>5. QED
      BY <2>1, <2>2, <2>4 DEF OnIn
  <1>15. \A b : b.height < l => (OnIn(b, chain) <=> OnIn(b, d))
    BY <1>14
  <1>16. ASSUME NEW b, OnIn(b, d), ~ (b.height < l) PROVE b.branch = brd
    <2>1. b.height \in Nat /\ b.height + 1 \in DOMAIN d /\ d[b.height + 1] = b
      BY <1>13, <1>16
    <2>2. PICK i : i = b.height + 1
      OBVIOUS
    <2>3. i > l
      BY <1>2, <1>16, <2>1, <2>2
    <2>4. QED
      BY <1>2, <2>1, <2>2, <2>3
  <1>17. ASSUME brd = branch, NEW b, OnIn(b, chain) PROVE OnIn(b, d)
    <2>1. b.height \in Nat /\ b.height + 1 \in DOMAIN chain /\ l = n
      BY <1>2, <1>3, <1>13, <1>17
    <2>2. b.height < l
      BY <1>3, <2>1
    <2>3. QED
      BY <1>14, <1>17, <2>2
  <1>18. QED
    BY <1>1, <1>2, <1>12, <1>15, <1>16, <1>17 DEF Advances

(* A transaction that is good on the blocks before it, at its place. *)
LEMMA ClearThere ==
    ASSUME NEW d \in Seq(Block), NEW j \in DOMAIN d, d[j].tx \in Tx, NEW p \in Seq(Block),
           Len(p) = j - 1, \A i \in 1..(j - 1) : p[i] = d[i], NEW ring, Verifies(d[j].tx, p, ring)
    PROVE  ClearAt(d, j)
  <1>1. PICK t \in Tx : t = d[j].tx
    OBVIOUS
  <1>2. DOMAIN p = 1..(j - 1)
    BY PlacesOf
  <1>3. /\ \A i \in DOMAIN p : p[i].tx # NoTx => p[i].tx # t /\ Ins[p[i].tx] \cap Ins[t] = {}
        /\ \A o \in Ins[t] : \E k \in DOMAIN p : p[k].tx # NoTx /\ o \in ToSet(Pays[p[k].tx])
    BY <1>1, ClearIs
  <1>4. \A i \in 1..(j - 1) : d[i].tx # NoTx => d[i].tx # d[j].tx /\ Ins[d[i].tx] \cap Ins[d[j].tx] = {}
    BY <1>1, <1>2, <1>3
  <1>5. ASSUME NEW o \in Ins[d[j].tx]
        PROVE  \E k \in 1..(j - 1) : d[k].tx # NoTx /\ o \in ToSet(Pays[d[k].tx])
    <2>1. PICK k \in 1..(j - 1) : p[k].tx # NoTx /\ o \in ToSet(Pays[p[k].tx])
      BY <1>1, <1>2, <1>3, <1>5
    <2>2. p[k] = d[k]
      OBVIOUS
    <2>3. QED
      BY <2>1, <2>2
  <1>6. QED
    BY <1>4, <1>5 DEF ClearAt

(* A block more. *)
LEMMA MinedIs ==
    ASSUME ChainOK, PoolOK, NEW t \in pool \cup {NoTx}, NEW d, d = Append(chain, BlockOf(Len(chain), branch, t))
    PROVE  Grows(d, branch, Len(chain)) /\ TxsOf(d) \subseteq relayed
  <1>1. /\ chain \in Seq(Block) /\ branch \in Nat /\ Len(chain) > Checkpoint
        /\ HeightsFrom(chain, 0)
    BY DEF ChainOK
  <1>2. PICK n \in Nat : n = Len(chain) /\ DOMAIN chain = 1..n
    BY <1>1, PlacesOf
  <1>3. PICK b : b = BlockOf(n, branch, t)
    OBVIOUS
  <1>4. t \in Tx \cup {NoTx} /\ pool \subseteq relayed /\ TxsOf(chain) \subseteq relayed
    BY DEF PoolOK
  <1>5. b \in Block /\ b.height = n /\ b.branch = branch /\ b.tx = t
    BY <1>1, <1>3, <1>4 DEF Block, BlockOf
  <1>6. d = Append(chain, b)
    BY <1>2, <1>3
  <1>7. /\ d \in Seq(Block) /\ Len(d) = n + 1 /\ DOMAIN d = 1..(n + 1)
        /\ d[n + 1] = b /\ \A i \in 1..n : d[i] = chain[i]
    BY <1>1, <1>2, <1>5, <1>6, AppendedIs
  <1>8. HeightsFrom(d, 0)
    <2>1. ASSUME NEW i \in 1..(n + 1) PROVE d[i].height = 0 + i - 1
      <3>1. CASE i = n + 1
        BY <1>5, <1>7, <3>1
      <3>2. CASE i # n + 1
        <4>1. i \in 1..n
          BY <3>2
        <4>2. QED
          BY <1>1, <1>2, <1>7, <4>1 DEF HeightsFrom
      <3>3. QED
        BY <3>1, <3>2
    <2>2. QED
      BY <1>7, <2>1 DEF HeightsFrom
  <1>9. ASSUME NEW j \in DOMAIN d, j > n PROVE d[j].branch = branch /\ (d[j].tx # NoTx => ClearAt(d, j))
    <2>1. j = n + 1 /\ j - 1 = n
      BY <1>7, <1>9
    <2>2. d[j].branch = branch
      BY <1>5, <1>7, <2>1
    <2>3. ASSUME d[j].tx # NoTx PROVE ClearAt(d, j)
      <3>1. t \in pool /\ t \in Tx /\ d[j].tx = t
        BY <1>4, <1>5, <1>7, <2>1, <2>3
      <3>2. Verifies(t, chain, rings[t])
        BY <3>1 DEF PoolOK
      <3>3. QED
        BY <1>1, <1>2, <1>7, <2>1, <3>1, <3>2, ClearThere
    <2>4. QED
      BY <2>2, <2>3
  <1>10. Checkpoint \in Nat /\ n > Checkpoint
    BY <1>1, <1>2, HistoryAssumption
  <1>11. Grows(d, branch, n)
    <2>1. branch <= branch /\ n <= n /\ n <= Len(d)
      BY <1>1, <1>7
    <2>2. QED
      BY <1>1, <1>2, <1>7, <1>8, <1>9, <1>10, <2>1 DEF Grows
  <1>12. ASSUME NEW i \in DOMAIN d, d[i].tx # NoTx PROVE d[i].tx \in relayed
    <2>1. CASE i = n + 1
      BY <1>4, <1>5, <1>7, <1>12, <2>1
    <2>2. CASE i # n + 1
      <3>1. i \in 1..n
        BY <1>7, <2>2
      <3>2. d[i].tx \in TxsOf(chain)
        BY <1>2, <1>7, <1>12, <3>1 DEF TxsOf
      <3>3. QED
        BY <1>4, <3>2
    <2>3. QED
      BY <2>1, <2>2
  <1>13. TxsOf(d) \subseteq relayed
    BY <1>12 DEF TxsOf
  <1>14. QED
    BY <1>2, <1>11, <1>13

(* A chain and blocks that follow it. *)
Lengthened(r, X, s, m, f, n) ==
    /\ r \in Seq(X) /\ Len(r) = m + n /\ DOMAIN r = 1..(m + n)
    /\ \A i \in 1..m : r[i] = s[i]
    /\ \A i \in 1..n : r[m + i] = f[i]

LEMMA LengthenedIs ==
    ASSUME NEW X, NEW s \in Seq(X), NEW m \in Nat, m = Len(s), NEW n \in Nat, NEW f \in [1..n -> X],
           NEW r, r = s \o f
    PROVE  Lengthened(r, X, s, m, f, n)
  <1>1. f \in Seq(X) /\ Len(f) = n /\ DOMAIN f = 1..n
    OBVIOUS
  <1>2. r \in Seq(X) /\ Len(r) = m + n
    BY <1>1, SMTT(30)
  <1>3. DOMAIN r = 1..(m + n)
    BY <1>1
  <1>4. \A i \in 1..m : r[i] = s[i]
    BY <1>1
  <1>5. \A i \in 1..n : r[m + i] = f[i]
    BY <1>1
  <1>6. QED
    BY <1>2, <1>3, <1>4, <1>5 DEF Lengthened

(* The blocks that take the place of others. *)
Replaces(f, n, l, txs) ==
    /\ f = [i \in 1..n |-> BlockOf(l + i - 1, branch + 1, txs[i])]
    /\ f \in [1..n -> Block]
    /\ \A i \in 1..n : f[i].height = l + i - 1 /\ f[i].branch = branch + 1 /\ f[i].tx = txs[i]

LEMMA ReplacesIs ==
    ASSUME branch \in Nat, NEW n \in Nat, NEW l \in Nat, NEW loose \in SUBSET Tx,
           NEW txs \in [1..n -> loose \cup {NoTx}], NEW f,
           f = [i \in 1..n |-> BlockOf(l + i - 1, branch + 1, txs[i])]
    PROVE  Replaces(f, n, l, txs)
  <1>1. ASSUME NEW i \in 1..n
        PROVE  /\ f[i].height = l + i - 1 /\ f[i].branch = branch + 1 /\ f[i].tx = txs[i]
               /\ f[i] \in Block
    <2>1. f[i] = BlockOf(l + i - 1, branch + 1, txs[i])
      OBVIOUS
    <2>2. l + i - 1 \in Nat /\ branch + 1 \in Nat /\ txs[i] \in Tx \cup {NoTx}
      OBVIOUS
    <2>3. QED
      BY <2>1, <2>2 DEF BlockOf, Block
  <1>2. f \in [1..n -> Block]
    BY <1>1
  <1>3. QED
    BY <1>1, <1>2 DEF Replaces

(* The chain d, of the blocks kept and the ones that replace others. *)
Rebuilt(d, kept, l, n, txs) ==
    /\ d = kept \o [i \in 1..n |-> BlockOf(l + i - 1, branch + 1, txs[i])]
    /\ \A i \in 1..n : txs[i] # NoTx => Verifies(txs[i], SubSeq(d, 1, l + i - 1), rings[txs[i]])

LEMMA ReplacedIs ==
    ASSUME ChainOK, PoolOK, NEW k \in Nat, NEW l \in Nat, l = Len(chain) - k, l > Checkpoint,
           NEW kept, kept = SubSeq(chain, 1, l), NEW loose, loose = pool \cup (TxsOf(chain) \ TxsOf(kept)),
           NEW n, n = k + 1, NEW txs \in [1..n -> loose \cup {NoTx}], NEW d, Rebuilt(d, kept, l, n, txs)
    PROVE  Grows(d, branch + 1, l) /\ loose \subseteq relayed /\ TxsOf(d) \subseteq relayed
  <1>1. chain \in Seq(Block) /\ branch \in Nat /\ HeightsFrom(chain, 0)
    BY DEF ChainOK
  <1>2. PICK c \in Nat : c = Len(chain) /\ DOMAIN chain = 1..c
    BY <1>1, PlacesOf
  <1>3. l \in 0..Len(chain) /\ l <= c
    BY <1>2
  <1>4. kept \in Seq(Block) /\ Len(kept) = l /\ DOMAIN kept = 1..l /\ \A i \in 1..l : kept[i] = chain[i]
    BY <1>1, <1>3, PrefixOf
  <1>5. /\ pool \subseteq relayed /\ TxsOf(chain) \subseteq relayed /\ relayed \subseteq Tx
    BY DEF PoolOK
  <1>6. loose \subseteq relayed /\ loose \in SUBSET Tx
    BY <1>5
  <1>7. n \in Nat
    OBVIOUS
  <1>8. PICK f : f = [i \in 1..n |-> BlockOf(l + i - 1, branch + 1, txs[i])]
    OBVIOUS
  <1>9. Replaces(f, n, l, txs)
    BY <1>1, <1>6, <1>7, <1>8, ReplacesIs
  <1>10. /\ f \in [1..n -> Block]
         /\ \A i \in 1..n : f[i].height = l + i - 1 /\ f[i].branch = branch + 1 /\ f[i].tx = txs[i]
    BY <1>9 DEF Replaces
  <1>11. d = kept \o f
    BY <1>8 DEF Rebuilt
  <1>12. /\ d \in Seq(Block) /\ Len(d) = l + n /\ DOMAIN d = 1..(l + n)
         /\ \A i \in 1..l : d[i] = kept[i]
         /\ \A i \in 1..n : d[l + i] = f[i]
    <2>1. kept \in Seq(Block) /\ l = Len(kept) /\ f \in [1..n -> Block] /\ l \in Nat /\ n \in Nat
      BY <1>4, <1>10
    <2>2. Lengthened(d, Block, kept, l, f, n)
      BY ONLY <1>11, <2>1, LengthenedIs
    <2>3. QED
      BY ONLY <2>2 DEF Lengthened
  <1>13. \A j \in DOMAIN d : j > l => \E i \in 1..n : j = l + i
    <2>1. SUFFICES ASSUME NEW j \in DOMAIN d, j > l PROVE \E i \in 1..n : j = l + i
      OBVIOUS
    <2>2. j - l \in 1..n /\ j = l + (j - l)
      BY <1>12, <2>1
    <2>3. QED
      BY <2>2
  <1>14. \A j \in DOMAIN d : ~ (j > l) => j \in 1..l
    BY <1>12
  <1>15. HeightsFrom(d, 0)
    <2>1. ASSUME NEW j \in DOMAIN d PROVE d[j].height = 0 + j - 1
      <3>1. CASE j > l
        <4>1. PICK i \in 1..n : j = l + i
          BY <1>13, <3>1
        <4>2. d[j].height = l + i - 1
          BY <1>10, <1>12, <4>1
        <4>3. l + i - 1 = 0 + j - 1
          BY <4>1
        <4>4. QED
          BY <4>2, <4>3
      <3>2. CASE ~ (j > l)
        <4>1. j \in 1..l
          BY <1>14, <3>2
        <4>2. j \in DOMAIN chain
          BY <1>2, <1>3, <4>1
        <4>3. d[j] = chain[j] /\ chain[j].height = 0 + j - 1
          BY <1>1, <1>4, <1>12, <4>1, <4>2 DEF HeightsFrom
        <4>4. QED
          BY <4>3
      <3>3. QED
        BY <3>1, <3>2
    <2>2. QED
      BY <2>1 DEF HeightsFrom
  <1>16. ASSUME NEW j \in DOMAIN d, j > l
         PROVE  d[j].branch = branch + 1 /\ (d[j].tx # NoTx => ClearAt(d, j))
    <2>1. PICK i \in 1..n : j = l + i
      BY <1>13, <1>16
    <2>2. d[j].branch = branch + 1 /\ d[j].tx = txs[i]
      BY <1>10, <1>12, <2>1
    <2>3. ASSUME d[j].tx # NoTx PROVE ClearAt(d, j)
      <3>7. l + i - 1 \in Nat /\ l + i - 1 = j - 1 /\ l + i - 1 <= l + n
        BY <2>1
      <3>1. PICK q \in Nat : q = l + i - 1 /\ q = j - 1 /\ q <= l + n
        BY <3>7
      <3>2. PICK p : p = SubSeq(d, 1, q)
        OBVIOUS
      <3>8. q \in 0..Len(d) /\ d \in Seq(Block)
        <4>1. d \in Seq(Block) /\ Len(d) = l + n
          BY ONLY <1>12
        <4>2. q \in 0..(l + n)
          BY ONLY <3>1, q \in Nat, l \in Nat, n \in Nat
        <4>3. QED
          BY ONLY <4>1, <4>2
      <3>3. p \in Seq(Block) /\ Len(p) = q /\ \A a \in 1..q : p[a] = d[a]
        BY ONLY <3>2, <3>8, PrefixOf
      <3>4. Verifies(d[j].tx, p, rings[txs[i]])
        BY <2>2, <2>3, <3>1, <3>2 DEF Rebuilt
      <3>5. d[j].tx \in Tx
        BY <1>6, <1>7, <2>2, <2>3
      <3>6. QED
        <4>1. Len(p) = j - 1 /\ \A a \in 1..(j - 1) : p[a] = d[a]
          BY <3>1, <3>3
        <4>2. d \in Seq(Block) /\ j \in DOMAIN d
          BY <1>12
        <4>3. QED
          BY ONLY <3>3, <3>4, <3>5, <4>1, <4>2, ClearThere
    <2>4. QED
      BY <2>2, <2>3
  <1>17. Grows(d, branch + 1, l)
    <2>1. branch + 1 \in Nat /\ branch <= branch + 1 /\ branch + 1 # branch /\ l <= Len(chain) /\ l <= Len(d)
      BY <1>1, <1>2, <1>3, <1>12
    <2>2. \A i \in 1..l : d[i] = chain[i]
      BY <1>4, <1>12
    <2>3. QED
      BY <1>12, <1>15, <1>16, <2>1, <2>2 DEF Grows
  <1>18. ASSUME NEW j \in DOMAIN d, d[j].tx # NoTx PROVE d[j].tx \in relayed
    <2>1. CASE j > l
      <3>1. PICK i \in 1..n : j = l + i
        BY <1>13, <2>1
      <3>2. d[j].tx = txs[i]
        BY <1>10, <1>12, <3>1
      <3>3. QED
        BY <1>6, <1>7, <1>18, <3>2
    <2>2. CASE ~ (j > l)
      <3>1. j \in 1..l
        BY <1>14, <2>2
      <3>2. d[j] = chain[j] /\ j \in DOMAIN chain
        BY <1>2, <1>3, <1>4, <1>12, <3>1
      <3>3. d[j].tx \in TxsOf(chain)
        BY <1>18, <3>2 DEF TxsOf
      <3>4. QED
        BY <1>5, <3>3
    <2>3. QED
      BY <2>1, <2>2
  <1>19. TxsOf(d) \subseteq relayed
    BY ONLY <1>18 DEF TxsOf
  <1>20. QED
    BY <1>6, <1>17, <1>19

-----------------------------------------------------------------------------
(* The invariant, of any state. *)

Held(v, c, br) == Books(v) /\ FillOK(v) /\ FollowsOn(v, c, br)

SendIs(p, idle, rg, v) ==
    p # NoSend =>
        /\ idle /\ p.tx \in OwnTx /\ p.tx \in DOMAIN rg
        /\ p.plan = {i \in DOMAIN v.transfers : v.transfers[i].out \in Ins[p.tx]}
        /\ \A i \in p.plan : v.transfers[i].spent = Unspent

LEMMA InvParts ==
    ASSUME WalletInv
    PROVE  /\ ChainOK /\ PoolOK /\ Sound(w) /\ Sound(saved) /\ batch \in MinBatch..MaxBatch
           /\ ChainIs(chain, branch) /\ PoolIs(pool, relayed, rings, chain)
           /\ SendIs(prepared, Idle, rings, w)
           /\ Held(w, chain, branch) /\ Held(saved, chain, branch)
  <1>1. ChainOK /\ PoolOK /\ Sound(w) /\ Sound(saved) /\ batch \in MinBatch..MaxBatch /\ SendOK
    BY DEF WalletInv, Sound
  <1>2. Follows(w) <=> FollowsOn(w, chain, branch)
    BY FollowsIs
  <1>3. Follows(saved) <=> FollowsOn(saved, chain, branch)
    BY FollowsIs
  <1>4. Held(w, chain, branch) /\ Held(saved, chain, branch)
    BY <1>1, <1>2, <1>3 DEF Sound, Held
  <1>5. ChainIs(chain, branch) /\ PoolIs(pool, relayed, rings, chain) /\ SendIs(prepared, Idle, rings, w)
    BY <1>1 DEF ChainOK, PoolOK, SendOK, ChainIs, PoolIs, SendIs
  <1>6. QED
    BY <1>1, <1>4, <1>5

LEMMA InvFrom ==
    ASSUME ChainIs(chain, branch), PoolIs(pool, relayed, rings, chain), SendIs(prepared, Idle, rings, w),
           Held(w, chain, branch), Held(saved, chain, branch), batch \in MinBatch..MaxBatch
    PROVE  WalletInv
  <1>1. Follows(w) <=> FollowsOn(w, chain, branch)
    BY FollowsIs
  <1>2. Follows(saved) <=> FollowsOn(saved, chain, branch)
    BY FollowsIs
  <1>3. Books(w) /\ FillOK(w) /\ Follows(w) /\ Books(saved) /\ FillOK(saved) /\ Follows(saved)
    BY <1>1, <1>2 DEF Held
  <1>4. ChainOK /\ PoolOK /\ SendOK
    BY DEF ChainOK, PoolOK, SendOK, ChainIs, PoolIs, SendIs
  <1>5. QED
    BY <1>3, <1>4 DEF WalletInv

LEMMA InvNext ==
    ASSUME ChainIs(chain', branch'), PoolIs(pool', relayed', rings', chain'),
           SendIs(prepared', Idle', rings', w'),
           Held(w', chain', branch'), Held(saved', chain', branch'), batch' \in MinBatch..MaxBatch
    PROVE  WalletInv'
  <1>1. Books(w)' /\ FillOK(w)' /\ Follows(w)'
    BY DEF Held, FollowsOn, Follows, OnChain, OnIn
  <1>2. Books(saved)' /\ FillOK(saved)' /\ Follows(saved)'
    BY DEF Held, FollowsOn, Follows, OnChain, OnIn
  <1>3. ChainOK' /\ PoolOK' /\ SendOK'
    BY DEF ChainOK, PoolOK, SendOK, ChainIs, PoolIs, SendIs
  <1>4. QED
    BY <1>1, <1>2, <1>3 DEF WalletInv

LEMMA SoundHeld ==
    ASSUME NEW v, Sound(v)
    PROVE  Held(v, chain, branch)
  <1>1. Follows(v) <=> FollowsOn(v, chain, branch)
    BY FollowsIs
  <1>2. QED
    BY <1>1 DEF Sound, Held

(* A step that leaves the daemon's chain and pool alone. *)
LEMMA WalletStep ==
    ASSUME WalletInv, chain' = chain, branch' = branch, pool' = pool, relayed' = relayed, rings' = rings,
           Sound(w'), Sound(saved'), SendIs(prepared', Idle', rings', w'), batch' \in MinBatch..MaxBatch
    PROVE  WalletInv'
  <1>1. ChainIs(chain, branch) /\ PoolIs(pool, relayed, rings, chain)
    BY InvParts
  <1>2. Held(w', chain, branch) /\ Held(saved', chain, branch)
    BY SoundHeld
  <1>3. QED
    BY <1>1, <1>2, InvNext

(* One that leaves the wallet alone. *)
LEMMA DaemonStep ==
    ASSUME WalletInv, w' = w, saved' = saved, prepared' = prepared, ended' = ended, batch' = batch,
           DOMAIN rings \subseteq DOMAIN rings',
           ChainIs(chain', branch'), PoolIs(pool', relayed', rings', chain'),
           Held(w, chain', branch'), Held(saved, chain', branch')
    PROVE  WalletInv'
  <1>1. SendIs(prepared, Idle, rings, w) /\ batch \in MinBatch..MaxBatch
    BY InvParts
  <1>2. Idle' <=> Idle
    BY DEF Idle
  <1>3. SendIs(prepared', Idle', rings', w')
    BY <1>1, <1>2 DEF SendIs
  <1>4. QED
    BY <1>1, <1>3, InvNext

-----------------------------------------------------------------------------
(* What happens outside the wallet. *)

LEMMA ChainStep ==
    ASSUME WalletInv, w' = w, saved' = saved, prepared' = prepared, ended' = ended, batch' = batch,
           rings' = rings, relayed' = relayed, NEW T \in SUBSET relayed, pool' = Staying(T, chain'),
           NEW l, Grows(chain', branch', l), TxsOf(chain') \subseteq relayed
    PROVE  WalletInv'
  <1>1. /\ ChainOK /\ PoolIs(pool, relayed, rings, chain)
        /\ Held(w, chain, branch) /\ Held(saved, chain, branch)
    BY InvParts
  <1>2. PICK d, brd : d = chain' /\ brd = branch'
    OBVIOUS
  <1>3. Grows(d, brd, l)
    BY <1>2
  <1>4. ChainIs(d, brd) /\ Advances(chain, branch, d, brd, l) /\ l \in Nat
    BY ONLY <1>1, <1>3, Grown DEF Grows
  <1>5. Books(w) /\ FollowsOn(w, chain, branch) /\ Books(saved) /\ FollowsOn(saved, chain, branch)
        /\ FillOK(w) /\ FillOK(saved)
    BY <1>1 DEF Held
  <1>6. FollowsOn(w, d, brd)
    BY ONLY <1>4, <1>5, FollowsStep
  <1>7. FollowsOn(saved, d, brd)
    BY ONLY <1>4, <1>5, FollowsStep
  <1>8. Held(w, d, brd) /\ Held(saved, d, brd)
    BY <1>5, <1>6, <1>7 DEF Held
  <1>9. PoolIs(pool', relayed, rings, d)
    BY <1>1, <1>2 DEF PoolIs, Staying
  <1>10. QED
    BY <1>2, <1>4, <1>8, <1>9, DaemonStep

LEMMA MineStep ==
    ASSUME WalletInv, NEW t \in pool \cup {NoTx}, Mine(t)
    PROVE  WalletInv'
  <1>1. ChainOK /\ PoolOK
    BY InvParts
  <1>2. PICK d : d = chain'
    OBVIOUS
  <1>3. /\ d = Append(chain, BlockOf(Len(chain), branch, t)) /\ branch' = branch
        /\ pool' = Staying(pool, chain')
        /\ rings' = rings /\ relayed' = relayed /\ w' = w /\ saved' = saved /\ prepared' = prepared
        /\ ended' = ended /\ batch' = batch
    BY <1>2 DEF Mine, Daemon, session
  <1>4. Grows(d, branch, Len(chain)) /\ TxsOf(d) \subseteq relayed
    BY ONLY <1>1, <1>3, MinedIs, t \in pool \cup {NoTx}
  <1>5. pool \in SUBSET relayed
    BY <1>1 DEF PoolOK
  <1>6. PICK l : l = Len(chain)
    OBVIOUS
  <1>7. Grows(chain', branch', l) /\ TxsOf(chain') \subseteq relayed
    BY <1>2, <1>3, <1>4, <1>6
  <1>8. QED
    BY ONLY <1>3, <1>5, <1>7, WalletInv, ChainStep

LEMMA ReorgStep ==
    ASSUME WalletInv, NEW k \in Reorgs, Reorg(k)
    PROVE  WalletInv'
  <1>1. ChainOK /\ PoolOK /\ chain \in Seq(Block) /\ k \in Nat /\ Checkpoint \in Nat
    BY InvParts, WalletAssumption, HistoryAssumption DEF ChainOK
  <1>2. PICK d : d = chain'
    OBVIOUS
  <1>3. /\ Len(chain) - k > Checkpoint /\ branch' = branch + 1
        /\ rings' = rings /\ relayed' = relayed /\ w' = w /\ saved' = saved /\ prepared' = prepared
        /\ ended' = ended /\ batch' = batch
    BY DEF Reorg, Daemon, session
  <1>4. PICK l : l = Len(chain) - k
    OBVIOUS
  <1>5. Len(chain) \in Nat /\ l \in Nat /\ l > Checkpoint /\ l \in 0..Len(chain)
    BY <1>1, <1>3, <1>4, PlacesOf
  <1>6. PICK kept : kept = SubSeq(chain, 1, l)
    OBVIOUS
  <1>7. Len(kept) = l
    BY ONLY <1>1, <1>5, <1>6, PrefixOf
  <1>8. PICK loose : loose = pool \cup (TxsOf(chain) \ TxsOf(kept))
    OBVIOUS
  <1>9. PICK txs \in [1..(k + 1) -> loose \cup {NoTx}] :
          /\ chain' = kept \o [i \in 1..(k + 1) |-> BlockOf(Len(kept) + i - 1, branch + 1, txs[i])]
          /\ \A i \in 1..(k + 1) :
                txs[i] # NoTx =>
                   Verifies(txs[i], SubSeq(chain', 1, Len(kept) + i - 1), rings[txs[i]])
          /\ pool' = Staying(loose, chain')
    BY <1>4, <1>6, <1>8 DEF Reorg
  <1>14. PICK n : n = k + 1
    OBVIOUS
  <1>10. Rebuilt(d, kept, l, n, txs) /\ txs \in [1..n -> loose \cup {NoTx}]
    BY <1>2, <1>7, <1>9, <1>14 DEF Rebuilt
  <1>11. Grows(d, branch + 1, l) /\ loose \subseteq relayed /\ TxsOf(d) \subseteq relayed
    BY ONLY <1>1, <1>4, <1>5, <1>6, <1>8, <1>10, <1>14, ReplacedIs
  <1>12. Grows(chain', branch', l) /\ TxsOf(chain') \subseteq relayed /\ loose \in SUBSET relayed
    BY <1>2, <1>3, <1>11
  <1>13. QED
    BY ONLY <1>3, <1>9, <1>12, WalletInv, ChainStep

LEMMA RecordedIs ==
    ASSUME NEW rg, NEW t, t \notin DOMAIN rg, NEW r, NEW x, x = Recorded(rg, t, r)
    PROVE  DOMAIN x = DOMAIN rg \cup {t} /\ x[t] = r /\ \A u \in DOMAIN rg : u # t /\ x[u] = rg[u]
  BY DEF Recorded

LEMMA ArriveStep ==
    ASSUME WalletInv, NEW t \in Tx \ OwnTx, Arrive(t)
    PROVE  WalletInv'
  <1>1. /\ ChainIs(chain, branch) /\ PoolIs(pool, relayed, rings, chain)
        /\ Held(w, chain, branch) /\ Held(saved, chain, branch)
    BY InvParts
  <1>2. /\ chain' = chain /\ branch' = branch /\ w' = w /\ saved' = saved /\ prepared' = prepared
        /\ ended' = ended /\ batch' = batch /\ t \notin DOMAIN rings
        /\ pool' = pool \cup {t} /\ relayed' = relayed \cup {t}
        /\ Verifies(t, chain, rings'[t])
    BY DEF Arrive, Daemon, session
  <1>3. PICK r : rings' = Recorded(rings, t, r)
    BY DEF Arrive
  <1>4. DOMAIN rings' = DOMAIN rings \cup {t} /\ \A u \in DOMAIN rings : u # t /\ rings'[u] = rings[u]
    BY <1>2, <1>3, RecordedIs
  <1>5. PoolIs(pool', relayed', rings', chain)
    <2>1. /\ pool \subseteq relayed /\ relayed \subseteq DOMAIN rings /\ DOMAIN rings \subseteq Tx
          /\ TxsOf(chain) \subseteq relayed /\ \A u \in pool : Verifies(u, chain, rings[u])
      BY <1>1 DEF PoolIs
    <2>2. \A u \in pool' : Verifies(u, chain, rings'[u])
      BY <1>2, <1>4, <2>1
    <2>3. pool' \subseteq relayed' /\ relayed' \subseteq DOMAIN rings' /\ DOMAIN rings' \subseteq Tx
          /\ TxsOf(chain) \subseteq relayed'
      BY <1>2, <1>4, <2>1
    <2>4. QED
      BY <2>2, <2>3 DEF PoolIs
  <1>6. QED
    BY <1>1, <1>2, <1>4, <1>5, DaemonStep

LEMMA PoolStep ==
    ASSUME WalletInv, NEW t, Drop(t) \/ (t \in relayed /\ Return(t))
    PROVE  WalletInv'
  <1>1. /\ ChainIs(chain, branch) /\ PoolIs(pool, relayed, rings, chain)
        /\ Held(w, chain, branch) /\ Held(saved, chain, branch)
    BY InvParts
  <1>2. /\ chain' = chain /\ branch' = branch /\ w' = w /\ saved' = saved /\ prepared' = prepared
        /\ ended' = ended /\ batch' = batch /\ rings' = rings /\ relayed' = relayed
    BY DEF Drop, Return, Daemon, session
  <1>3. \/ pool' = pool \ {t}
        \/ t \in relayed /\ Verifies(t, chain, rings[t]) /\ pool' = pool \cup {t}
    BY DEF Drop, Return, Takes
  <1>4. PoolIs(pool', relayed, rings, chain)
    BY <1>1, <1>3 DEF PoolIs
  <1>5. QED
    BY <1>1, <1>2, <1>4, DaemonStep

LEMMA EnvironmentStep ==
    ASSUME WalletInv, Environment
    PROVE  WalletInv'
  <1>1. CASE \E t \in pool \cup {NoTx} : Mine(t)
    BY <1>1, MineStep
  <1>2. CASE \E k \in Reorgs : Reorg(k)
    BY <1>2, ReorgStep
  <1>3. CASE \E t \in Tx \ OwnTx : Arrive(t)
    BY <1>3, ArriveStep
  <1>4. CASE \E t \in pool : Drop(t)
    BY <1>4, PoolStep
  <1>5. CASE \E t \in relayed : Return(t)
    BY <1>5, PoolStep
  <1>6. CASE TimePasses
    <2>1. /\ chain' = chain /\ branch' = branch /\ w' = w /\ saved' = saved /\ prepared' = prepared
          /\ ended' = ended /\ batch' = batch /\ rings' = rings /\ relayed' = relayed /\ pool' = pool
      BY <1>6 DEF TimePasses, Step, netVars, session
    <2>2. /\ ChainIs(chain, branch) /\ PoolIs(pool, relayed, rings, chain)
          /\ Held(w, chain, branch) /\ Held(saved, chain, branch)
      BY InvParts
    <2>3. QED
      BY <2>1, <2>2, DaemonStep
  <1>7. QED
    BY <1>1, <1>2, <1>3, <1>4, <1>5, <1>6 DEF Environment

-----------------------------------------------------------------------------
(* What the wallet does. *)

LEMMA SpendStep ==
    ASSUME WalletInv, chain' = chain, branch' = branch, saved' = saved, batch' = batch,
           PoolIs(pool', relayed', rings', chain), Sound(w'), SendIs(prepared', Idle', rings', w')
    PROVE  WalletInv'
  <1>1. ChainIs(chain, branch) /\ Held(saved, chain, branch) /\ batch \in MinBatch..MaxBatch
    BY InvParts
  <1>2. Held(w', chain, branch)
    BY SoundHeld
  <1>3. QED
    BY <1>1, <1>2, InvNext

LEMMA NoSendIs ==
    ASSUME NEW idle, NEW rg, NEW v
    PROVE  SendIs(NoSend, idle, rg, v)
  BY DEF SendIs

LEMMA NotedSound ==
    ASSUME NEW v, Sound(v), NEW P \in SUBSET Tx, NEW x, x = NotePoolSpends(v, P)
    PROVE  Sound(x)
  <1>1. Books(v)
    BY DEF Sound
  <1>2. Books(x) /\ Beside(x, v, v.hashes)
    BY <1>1, NotePoolSpendsBooks
  <1>3. QED
    BY <1>2, SameBlocksSound

LEMMA CheckPendingStep ==
    ASSUME WalletInv, CheckPending
    PROVE  WalletInv'
  <1>1. Sound(w) /\ Sound(saved) /\ pool \in SUBSET Tx /\ SendIs(prepared, Idle, rings, w)
        /\ batch \in MinBatch..MaxBatch
    BY InvParts DEF PoolIs
  <1>2. /\ chain' = chain /\ branch' = branch /\ saved' = saved /\ batch' = batch /\ pool' = pool
        /\ relayed' = relayed /\ rings' = rings /\ prepared' = prepared
    BY DEF CheckPending, Step, netVars, session
  <1>3. PICK old, noted : noted = NotePoolSpends(w, pool) /\ w' = UpdatePending(noted, pool, old)
    BY DEF CheckPending
  <1>4. PICK x : x = w'
    OBVIOUS
  <1>5. Sound(noted)
    BY <1>1, <1>3, NotedSound
  <1>6. Books(noted)
    BY <1>5 DEF Sound
  <1>7. Books(x) /\ Beside(x, noted, noted.hashes)
    BY <1>3, <1>4, <1>6, UpdatePendingBooks
  <1>8. Sound(x)
    BY <1>5, <1>7, SameBlocksSound
  <1>9. prepared = NoSend
    BY <1>1 DEF SendIs, CheckPending, Idle
  <1>10. SendIs(prepared', Idle', rings', w')
    BY <1>2, <1>9, NoSendIs
  <1>11. QED
    BY <1>1, <1>2, <1>4, <1>8, <1>10, WalletStep

(* Steps that leave the wallet's books alone. *)
LEMMA QuietStep ==
    ASSUME WalletInv, PoolUnread \/ Cancel \/ (prepared = NoSend /\ Ask)
    PROVE  WalletInv'
  <1>1. Sound(w) /\ Sound(saved) /\ SendIs(prepared, Idle, rings, w) /\ batch \in MinBatch..MaxBatch
    BY InvParts
  <1>2. /\ chain' = chain /\ branch' = branch /\ saved' = saved /\ batch' = batch /\ pool' = pool
        /\ relayed' = relayed /\ rings' = rings /\ w' = w
    BY DEF PoolUnread, Cancel, Ask, Step, netVars, session
  <1>3. prepared' = NoSend
    BY <1>1 DEF SendIs, PoolUnread, Cancel, Ask, Idle
  <1>4. SendIs(prepared', Idle', rings', w')
    BY <1>3, NoSendIs
  <1>5. QED
    BY <1>1, <1>2, <1>4, WalletStep

LEMMA PrepareStep ==
    ASSUME WalletInv, NEW t \in OwnTx, Prepare(t)
    PROVE  WalletInv'
  <1>1. Sound(w) /\ PoolIs(pool, relayed, rings, chain) /\ pool \in SUBSET Tx /\ t \in Tx
    BY InvParts, WalletAssumption DEF PoolIs
  <1>2. /\ chain' = chain /\ branch' = branch /\ saved' = saved /\ batch' = batch /\ pool' = pool
        /\ relayed' = relayed /\ t \notin DOMAIN rings /\ ended' = "idle"
    BY DEF Prepare, session
  <1>3. PICK noted : /\ noted = NotePoolSpends(w, pool) /\ w' = noted
                     /\ \E plan \in {{i \in DOMAIN noted.transfers : noted.transfers[i].out \in Ins[t]}} :
                           /\ \A i \in plan : noted.transfers[i].spent = Unspent
                           /\ prepared' = [tx |-> t, plan |-> plan]
    BY DEF Prepare
  <1>4. PICK plan : /\ plan = {i \in DOMAIN noted.transfers : noted.transfers[i].out \in Ins[t]}
                    /\ \A i \in plan : noted.transfers[i].spent = Unspent
                    /\ prepared' = [tx |-> t, plan |-> plan]
    BY <1>3
  <1>5. PICK r : rings' = Recorded(rings, t, r)
    BY DEF Prepare
  <1>6. DOMAIN rings' = DOMAIN rings \cup {t} /\ \A u \in DOMAIN rings : u # t /\ rings'[u] = rings[u]
    <2>1. t \notin DOMAIN rings
      BY <1>2
    <2>2. PICK x : x = rings'
      OBVIOUS
    <2>3. x = Recorded(rings, t, r)
      BY <1>5, <2>2
    <2>4. DOMAIN x = DOMAIN rings \cup {t} /\ \A u \in DOMAIN rings : u # t /\ x[u] = rings[u]
      BY ONLY <2>1, <2>3 DEF Recorded
    <2>5. QED
      BY ONLY <2>2, <2>4
  <1>7. Sound(w')
    BY <1>1, <1>3, NotedSound
  <1>8. PoolIs(pool', relayed', rings', chain)
    BY <1>1, <1>2, <1>6 DEF PoolIs
  <1>9. Idle'
    BY <1>2 DEF Idle
  <1>10. SendIs(prepared', Idle', rings', w')
    <2>1. prepared'.tx = t /\ prepared'.plan = plan
      BY <1>4
    <2>2. QED
      BY <1>3, <1>4, <1>6, <1>9, <2>1 DEF SendIs
  <1>11. QED
    BY <1>2, <1>7, <1>8, <1>10, SpendStep

(* A transaction some daemon takes. *)
LEMMA RelayedIs ==
    ASSUME WalletInv, NEW t \in DOMAIN rings, Takes(t), Relay(t)
    PROVE  chain' = chain /\ branch' = branch /\ PoolIs(pool', relayed', rings', chain)
  <1>1. PoolIs(pool, relayed, rings, chain)
    BY InvParts
  <1>2. /\ chain' = chain /\ branch' = branch /\ rings' = rings
        /\ pool' = pool \cup {t} /\ relayed' = relayed \cup {t}
    BY DEF Relay
  <1>3. Verifies(t, chain, rings[t])
    BY DEF Takes
  <1>4. PoolIs(pool', relayed', rings, chain)
    BY <1>1, <1>2, <1>3 DEF PoolIs
  <1>5. QED
    BY <1>2, <1>4

LEMMA CommitStep ==
    ASSUME WalletInv, Commit
    PROVE  WalletInv'
  <1>1. /\ Sound(w) /\ PoolIs(pool, relayed, rings, chain) /\ pool \in SUBSET Tx
        /\ SendIs(prepared, Idle, rings, w)
    BY InvParts DEF PoolIs
  <1>2. prepared # NoSend /\ prepared' = NoSend /\ saved' = saved /\ batch' = batch
    BY DEF Commit, session
  <1>3. PICK t \in OwnTx, plan \in SUBSET DOMAIN w.transfers :
            /\ t = prepared.tx /\ plan = prepared.plan /\ t \in DOMAIN rings
            /\ plan = {i \in DOMAIN w.transfers : w.transfers[i].out \in Ins[t]}
            /\ \A i \in plan : w.transfers[i].spent = Unspent
    BY <1>1, <1>2 DEF SendIs
  <1>4. t \in Tx
    BY WalletAssumption
  <1>5. SendIs(prepared', Idle', rings', w')
    BY <1>2, NoSendIs
  <1>6. \/ /\ Takes(t) /\ Relay(t)
           /\ w' = RecordSent(w, t, plan) \/ w' = w
        \/ /\ UNCHANGED netVars
           /\ w' = NotePoolSpends(w, pool) \/ w' = w
    BY <1>3 DEF Commit, Step
  <1>7. CASE Takes(t) /\ Relay(t) /\ (w' = RecordSent(w, t, plan) \/ w' = w)
    <2>1. chain' = chain /\ branch' = branch /\ PoolIs(pool', relayed', rings', chain)
      BY <1>3, <1>7, RelayedIs
    <2>2. Sound(w')
      <3>1. CASE w' = w
        BY <1>1, <3>1
      <3>2. CASE w' = RecordSent(w, t, plan)
        <4>1. PICK x : x = RecordSent(w, t, plan)
          OBVIOUS
        <4>2. Books(w)
          BY <1>1 DEF Sound
        <4>3. Books(x) /\ Beside(x, w, w.hashes)
          BY ONLY <1>3, <1>4, <4>1, <4>2, RecordSentBooks
        <4>4. Sound(x)
          BY <1>1, <4>3, SameBlocksSound
        <4>5. QED
          BY <3>2, <4>1, <4>4
      <3>3. QED
        BY <1>7, <3>1, <3>2
    <2>3. QED
      BY <1>2, <1>5, <2>1, <2>2, SpendStep
  <1>8. CASE UNCHANGED netVars /\ (w' = NotePoolSpends(w, pool) \/ w' = w)
    <2>1. chain' = chain /\ branch' = branch /\ PoolIs(pool', relayed', rings', chain)
      BY <1>1, <1>8 DEF netVars
    <2>2. Sound(w')
      BY <1>1, <1>8, NotedSound
    <2>3. QED
      BY <1>2, <1>5, <2>1, <2>2, SpendStep
  <1>9. QED
    BY <1>6, <1>7, <1>8

LEMMA RelayTxStep ==
    ASSUME WalletInv, NEW t \in OwnTx, RelayTx(t)
    PROVE  WalletInv'
  <1>1. Sound(w) /\ {t} \in SUBSET Tx
    BY InvParts, WalletAssumption
  <1>2. /\ t \in DOMAIN rings /\ Takes(t) /\ Relay(t) /\ saved' = saved /\ batch' = batch
        /\ w' = NotePoolSpends(w, {t}) /\ prepared' = NoSend
    BY DEF RelayTx, Free, session
  <1>3. chain' = chain /\ branch' = branch /\ PoolIs(pool', relayed', rings', chain)
    BY <1>2, RelayedIs
  <1>4. Sound(w')
    BY <1>1, <1>2, NotedSound
  <1>5. SendIs(prepared', Idle', rings', w')
    BY <1>2, NoSendIs
  <1>6. QED
    BY <1>2, <1>3, <1>4, <1>5, SpendStep

LEMMA SaveStep ==
    ASSUME WalletInv, Save
    PROVE  WalletInv'
  <1>1. Sound(w) /\ SendIs(prepared, Idle, rings, w) /\ batch \in MinBatch..MaxBatch
    BY InvParts
  <1>2. /\ chain' = chain /\ branch' = branch /\ batch' = batch /\ pool' = pool
        /\ relayed' = relayed /\ rings' = rings /\ w' = w /\ prepared' = NoSend
    BY DEF Save, Free, Step, netVars, session
  <1>3. PICK x : x = saved'
    OBVIOUS
  <1>4. x = [w EXCEPT !.fill = << >>]
    BY <1>3 DEF Save
  <1>5. Sound(x)
    BY <1>1, <1>4, UnfilledSound
  <1>6. SendIs(prepared', Idle', rings', w')
    BY <1>2, NoSendIs
  <1>7. QED
    BY <1>1, <1>2, <1>3, <1>5, <1>6, WalletStep

LEMMA ReopenStep ==
    ASSUME WalletInv, Reopen
    PROVE  WalletInv'
  <1>1. Sound(saved)
    BY InvParts
  <1>2. /\ chain' = chain /\ branch' = branch /\ batch' = MaxBatch /\ pool' = pool
        /\ relayed' = relayed /\ rings' = rings /\ w' = saved /\ saved' = saved /\ prepared' = NoSend
    BY DEF Reopen
  <1>3. SendIs(prepared', Idle', rings', w')
    BY <1>2, NoSendIs
  <1>4. MaxBatch \in MinBatch..MaxBatch
    BY WalletAssumption
  <1>5. QED
    BY <1>1, <1>2, <1>3, <1>4, WalletStep

(* A wallet of no blocks, or of the first alone. *)
LEMMA NewSound ==
    ASSUME ChainOK, NEW h \in Nat, NEW x, Books(x), x.start = h, x.from = h, x.fill = << >>,
           x.hashes = NewWallet(h).hashes
    PROVE  Sound(x)
  <1>1. x.hashes = IF h = 0 THEN <<Anchor(0)>> ELSE << >>
    BY DEF NewWallet
  <1>2. OnChain(Anchor(0)) /\ Anchor(0).branch = 0 /\ branch \in Nat
    BY AnchorsOn DEF ChainOK, Anchor, BlockOf
  <1>3. Follows(x)
    <2>1. CASE h = 0
      <3>1. x.hashes = <<Anchor(0)>>
        BY <1>1, <2>1
      <3>2. DOMAIN x.hashes = {1} /\ x.hashes[1] = Anchor(0)
        BY <3>1
      <3>3. QED
        BY <1>2, <3>2 DEF Follows
    <2>2. CASE h # 0
      BY <1>1, <2>2 DEF Follows
    <2>3. QED
      BY <2>1, <2>2
  <1>4. FillOK(x)
    BY DEF FillOK
  <1>5. QED
    BY <1>3, <1>4 DEF Sound

LEMMA RescanStep ==
    ASSUME WalletInv, NEW h \in RestoreHeights, Rescan(h)
    PROVE  WalletInv'
  <1>1. ChainOK /\ Sound(w) /\ Sound(saved) /\ batch \in MinBatch..MaxBatch
    BY InvParts
  <1>2. /\ chain' = chain /\ branch' = branch /\ batch' = batch /\ pool' = pool
        /\ relayed' = relayed /\ rings' = rings /\ saved' = saved /\ prepared' = NoSend
    BY DEF Rescan, Free, session
  <1>3. PICK x : x = w'
    OBVIOUS
  <1>4. PICK S : S = w.sent
    OBVIOUS
  <1>5. x = DetachSent([NewWallet(h) EXCEPT !.sent = S], h)
    BY <1>3, <1>4 DEF Rescan, RescanFrom
  <1>6. h \in Nat
    BY WalletAssumption
  <1>7. RecordsTyped(S) /\ ItsInputs(S)
    BY <1>1, <1>4, PartsOf DEF Sound
  <1>8. Books(x) /\ x.start = h /\ x.from = h /\ x.fill = << >> /\ x.hashes = NewWallet(h).hashes
    BY ONLY <1>5, <1>6, <1>7, RescanBooks
  <1>9. Sound(x)
    BY <1>1, <1>6, <1>8, NewSound
  <1>10. SendIs(prepared', Idle', rings', w')
    BY <1>2, NoSendIs
  <1>11. QED
    BY <1>1, <1>2, <1>3, <1>9, <1>10, WalletStep

LEMMA SessionStep ==
    ASSUME WalletInv, Session
    PROVE  WalletInv'
  BY CheckPendingStep, QuietStep, PrepareStep, CommitStep, RelayTxStep, SaveStep, ReopenStep, RescanStep
     DEF Session

(* The number of blocks asked for stays between its bounds. *)
LEMMA BatchStep ==
    ASSUME NEW b \in MinBatch..MaxBatch, NEW n \in MinBatch..b
    PROVE  Min({2 * n, MaxBatch}) \in MinBatch..MaxBatch /\ n \in Nat
  <1>1. MinBatch \in Nat \ {0} /\ MaxBatch \in Nat
    BY WalletAssumption
  <1>2. n \in Nat /\ n >= MinBatch /\ 2 * n \in Int /\ MaxBatch \in Int
    BY <1>1
  <1>3. PICK a \in Int : a = 2 * n /\ a >= MinBatch
    BY <1>1, <1>2
  <1>4. /\ Min({a, MaxBatch}) = a \/ Min({a, MaxBatch}) = MaxBatch
        /\ Min({a, MaxBatch}) <= MaxBatch
    BY <1>2, <1>3, PairOf
  <1>5. QED
    BY <1>1, <1>2, <1>3, <1>4

LEMMA RefreshOnceStep ==
    ASSUME WalletInv, RefreshOnce
    PROVE  WalletInv'
  <1>1. /\ ChainOK /\ Sound(w) /\ Sound(saved) /\ SendIs(prepared, Idle, rings, w)
        /\ batch \in MinBatch..MaxBatch
    BY InvParts
  <1>2. /\ chain' = chain /\ branch' = branch /\ saved' = saved /\ pool' = pool
        /\ relayed' = relayed /\ rings' = rings /\ prepared' = prepared /\ ~ Idle
    BY DEF RefreshOnce, Idle
  <1>3. prepared = NoSend
    BY <1>1, <1>2 DEF SendIs
  <1>4. SendIs(prepared', Idle', rings', w')
    BY <1>2, <1>3, NoSendIs
  <1>5. CASE Fills(w)
    <2>1. PICK list : list = GetHashes(FillHistory(w))
      OBVIOUS
    <2>2. w' = FillBelow(w, list).w /\ batch' = batch
      BY <1>5, <2>1 DEF RefreshOnce
    <2>3. Sound(FillBelow(w, list).w)
      BY <1>1, <1>5, <2>1, FillBelowSound
    <2>4. QED
      BY <1>1, <1>2, <1>4, <2>2, <2>3, WalletStep
  <1>6. CASE ~ Fills(w)
    <2>1. PICK n \in Asked, g \in {IF coarse THEN Granularity ELSE 1} :
            /\ w' = TakeBlocks(w, GetBlocks(HistoryAt(w, g),
                          IF w.hashes = << >> THEN w.start ELSE 0, n), Len(chain), g).w
            /\ batch' = Min({2 * n, MaxBatch})
      BY <1>6 DEF RefreshOnce
    <2>2. PICK list, current : /\ list = GetBlocks(HistoryAt(w, g), IF w.hashes = << >> THEN w.start ELSE 0, n)
                               /\ current = Len(chain)
      OBVIOUS
    <2>3. w.fill = << >>
      BY <1>1, <1>6 DEF Sound, FillOK
    <2>4. g \in Nat \ {0} /\ n \in MinBatch..batch
      BY <2>1, HistoryAssumption DEF Asked
    <2>5. n \in Nat /\ batch' \in MinBatch..MaxBatch
      BY <1>1, <2>1, <2>4, BatchStep
    <2>6. Sound(TakeBlocks(w, list, current, g).w)
      BY <1>1, <2>2, <2>3, <2>4, <2>5, TakeBlocksSound
    <2>7. Sound(w')
      BY <2>1, <2>2, <2>6
    <2>8. QED
      BY <1>1, <1>2, <1>4, <2>5, <2>7, WalletStep
  <1>7. QED
    BY <1>5, <1>6

-----------------------------------------------------------------------------
(* The initial states. *)

LEMMA StartChain ==
    ASSUME Init
    PROVE  /\ ChainIs(chain, branch) /\ ChainOK /\ PoolIs(pool, relayed, rings, chain)
           /\ Len(chain) = Len(StartTxs)
  <1>1. /\ StartTxs \in Seq(Tx \cup {NoTx}) /\ Checkpoint \in 0..(Len(StartTxs) - 1)
        /\ StartTxs[1] = NoTx /\ StartTxs[Checkpoint + 1] = NoTx
        /\ \A i \in DOMAIN StartTxs : StartTxs[i] # NoTx => Ins[StartTxs[i]] = {}
        /\ \A i, j \in DOMAIN StartTxs : StartTxs[i] = StartTxs[j] => i = j \/ StartTxs[i] = NoTx
    BY WalletAssumption
  <1>2. PICK n \in Nat : n = Len(StartTxs) /\ DOMAIN StartTxs = 1..n
    BY <1>1, PlacesOf
  <1>3. \A i \in 1..n : StartTxs[i] \in Tx \cup {NoTx}
    BY <1>1, <1>2, PlacesOf
  <1>4. chain = [i \in 1..n |-> BlockOf(i - 1, 0, StartTxs[i])] /\ branch = 0
    BY <1>2 DEF Init
  <1>5. ASSUME NEW i \in 1..n
        PROVE  chain[i] \in Block /\ chain[i].height = i - 1 /\ chain[i].branch = 0 /\ chain[i].tx = StartTxs[i]
    <2>1. chain[i] = BlockOf(i - 1, 0, StartTxs[i]) /\ i - 1 \in Nat
      BY <1>4
    <2>2. QED
      BY <1>3, <2>1 DEF BlockOf, Block
  <1>6. chain \in [1..n -> Block]
    BY <1>4, <1>5
  <1>7. chain \in Seq(Block) /\ Len(chain) = n /\ DOMAIN chain = 1..n
    BY <1>6
  <1>8. Checkpoint \in Nat /\ Checkpoint < n /\ 1 \in 1..n /\ Checkpoint + 1 \in 1..n
    BY <1>1, <1>2
  <1>9. chain[1] = Anchor(0) /\ chain[Checkpoint + 1] = Anchor(Checkpoint)
    <2>1. chain[1] = BlockOf(1 - 1, 0, StartTxs[1])
      BY ONLY <1>4, <1>8
    <2>2. chain[Checkpoint + 1] = BlockOf((Checkpoint + 1) - 1, 0, StartTxs[Checkpoint + 1])
      BY ONLY <1>4, <1>8
    <2>3. 1 - 1 = 0 /\ (Checkpoint + 1) - 1 = Checkpoint
      BY <1>8
    <2>4. QED
      BY <1>1, <2>1, <2>2, <2>3 DEF Anchor
  <1>10. HeightsFrom(chain, 0) /\ \A i \in DOMAIN chain : chain[i].branch <= branch
    BY <1>4, <1>5, <1>7 DEF HeightsFrom
  <1>11. Valid(chain)
    <2>1. \A i \in 1..n : chain[i].tx # NoTx => Ins[chain[i].tx] = {}
      BY <1>1, <1>2, <1>5
    <2>2. ASSUME NEW i \in 1..n, NEW j \in 1..n, i # j, chain[i].tx # NoTx, chain[j].tx # NoTx
          PROVE  chain[i].tx # chain[j].tx /\ Ins[chain[i].tx] \cap Ins[chain[j].tx] = {}
      <3>1. chain[i].tx # chain[j].tx
        BY <1>1, <1>2, <1>5, <2>2
      <3>2. QED
        BY <2>1, <2>2, <3>1
    <2>3. QED
      BY <1>7, <2>1, <2>2 DEF Valid
  <1>12. ChainIs(chain, branch) /\ ChainOK
    BY <1>4, <1>7, <1>8, <1>9, <1>10, <1>11 DEF ChainIs, ChainOK
  <1>13. TxsOf(chain) \subseteq Tx
    <2>1. \A i \in DOMAIN chain : chain[i].tx \in Tx \cup {NoTx}
      BY <1>3, <1>5, <1>7
    <2>2. QED
      BY <2>1 DEF TxsOf
  <1>14. PoolIs(pool, relayed, rings, chain)
    <2>1. /\ pool = {} /\ relayed = TxsOf(chain) /\ rings = [t \in TxsOf(chain) |-> << >>]
      BY DEF Init
    <2>2. DOMAIN rings = TxsOf(chain)
      BY <2>1
    <2>3. QED
      BY <1>13, <2>1, <2>2 DEF PoolIs
  <1>15. QED
    BY <1>2, <1>7, <1>12, <1>14

(* A wallet just created. *)
LEMMA NewBooks ==
    ASSUME NEW h \in Nat, NEW x, x = NewWallet(h)
    PROVE  /\ Books(x) /\ x.start = h /\ x.from = h /\ x.fill = << >>
           /\ x.hashes = NewWallet(h).hashes /\ (h # 0 => x.hashes = << >>)
  <1>1. PICK S : S = << >>
    OBVIOUS
  <1>2. DOMAIN S = {}
    BY <1>1
  <1>3. RecordsTyped(S) /\ ItsInputs(S)
    BY <1>2 DEF RecordsTyped, ItsInputs
  <1>4. PICK H : H = IF h = 0 THEN <<Anchor(0)>> ELSE << >>
    OBVIOUS
  <1>5. x = [start |-> h, from |-> h, hashes |-> H, fill |-> << >>, transfers |-> << >>, sent |-> << >>]
    BY <1>4 DEF NewWallet
  <1>6. x.start = h /\ x.from = h /\ x.fill = << >> /\ x.hashes = H /\ x.transfers = << >> /\ x.sent = S
    BY <1>1, <1>5
  <1>7. Anchor(0) \in Block /\ Anchor(0).height = 0 /\ Anchor(0).tx = NoTx
    BY AnchorParts
  <1>8. H \in Seq(Block) /\ HeightsFrom(H, h) /\ ScannedFrom(H, h) = {}
    <2>1. CASE h = 0
      <3>1. H = <<Anchor(0)>>
        BY <1>4, <2>1
      <3>2. DOMAIN H = {1} /\ H[1] = Anchor(0) /\ H \in Seq(Block)
        BY <1>7, <3>1
      <3>3. HeightsFrom(H, h)
        BY <1>7, <2>1, <3>2 DEF HeightsFrom
      <3>4. ScannedFrom(H, h) = {}
        BY <1>7, <3>2 DEF ScannedFrom, ToSet
      <3>5. QED
        BY <3>2, <3>3, <3>4
    <2>2. CASE h # 0
      <3>1. H = << >>
        BY <1>4, <2>2
      <3>2. DOMAIN H = {} /\ H \in Seq(Block)
        BY <3>1
      <3>3. QED
        BY <3>2 DEF HeightsFrom, ScannedFrom, ToSet
    <2>3. QED
      BY <2>1, <2>2
  <1>9. PICK T : T = << >>
    OBVIOUS
  <1>10. DOMAIN T = {} /\ T \in Seq(Transfer)
    BY <1>9
  <1>11. x.transfers = T
    BY <1>6, <1>9
  <1>12. Shape(x)
    <2>1. x = [start |-> x.start, from |-> x.from, hashes |-> x.hashes, fill |-> x.fill,
               transfers |-> x.transfers, sent |-> x.sent]
      BY ONLY <1>5
    <2>2. x.fill \in Seq(Block)
      BY <1>6
    <2>3. OutsDistinct(x.transfers) /\ RecordsTyped(x.sent)
      BY <1>3, <1>6, <1>10, <1>11 DEF OutsDistinct
    <2>4. QED
      BY <1>6, <1>8, <1>10, <1>11, <2>1, <2>2, <2>3 DEF Shape
  <1>13. Matched(x)
    <2>1. ScannedBy(x) = {}
      BY <1>6, <1>8 DEF ScannedBy
    <2>2. DOMAIN x.transfers = {} /\ DOMAIN x.sent = {}
      BY <1>2, <1>6, <1>10, <1>11
    <2>3. QED
      BY <2>1, <2>2 DEF Matched, Paid, Spent, Confirmed
  <1>14. Tied(x)
    <2>1. DOMAIN x.transfers = {} /\ DOMAIN x.sent = {}
      BY <1>2, <1>6, <1>10, <1>11
    <2>2. QED
      BY <2>1 DEF Tied, HeldBack, ItsInputs
  <1>15. QED
    BY <1>4, <1>6, <1>12, <1>13, <1>14 DEF Books

(* The blocks of the chain from height h on. *)
LEMMA RestServes ==
    ASSUME ChainOK, NEW h \in Nat, h < Len(chain), NEW list, list = SubSeq(chain, h + 1, Len(chain))
    PROVE  Serves(list, h) /\ Len(list) = Len(chain) - h
  <1>1. chain \in Seq(Block)
    BY DEF ChainOK
  <1>2. PICK n \in Nat : n = Len(chain) /\ DOMAIN chain = 1..n
    BY <1>1, PlacesOf
  <1>7. n - h \in Nat
    BY <1>2
  <1>3. PICK m \in Nat : m = n - h
    BY <1>7
  <1>4. /\ list \in Seq(Block) /\ Len(list) = m /\ DOMAIN list = 1..m
        /\ \A k \in 1..m : list[k] = chain[h + k]
    <2>1. list \in Seq(Block) /\ Len(list) = m
      BY <1>1, <1>2, <1>3
    <2>2. DOMAIN list = 1..m
      BY <2>1
    <2>3. \A k \in 1..m : list[k] = chain[k + (h + 1) - 1]
      BY <1>1, <1>2, <1>3
    <2>4. \A k \in 1..m : k + (h + 1) - 1 = h + k
      OBVIOUS
    <2>5. QED
      BY <2>1, <2>2, <2>3, <2>4
  <1>5. ASSUME NEW k \in 1..m PROVE OnChain(list[k]) /\ list[k].height = h + k - 1
    <2>1. h + k \in DOMAIN chain /\ list[k] = chain[h + k]
      BY <1>2, <1>3, <1>4
    <2>2. OnChain(chain[h + k]) /\ chain[h + k].height = h + k - 1
      BY <2>1, OnChainIs
    <2>3. QED
      BY <2>1, <2>2
  <1>6. QED
    BY <1>2, <1>3, <1>4, <1>5 DEF Serves

LEMMA StartWallet ==
    ASSUME Init
    PROVE  Sound(w)
  <1>1. ChainOK /\ Len(chain) = Len(StartTxs) /\ chain \in Seq(Block) /\ Len(chain) \in Nat
    BY StartChain, PlacesOf DEF ChainOK
  <1>2. \A h \in RestoreHeights \cup OldCaches : h \in Nat /\ h < Len(chain)
    BY <1>1, WalletAssumption
  <1>3. CASE w \in {NewWallet(h) : h \in RestoreHeights}
    <2>1. PICK h \in RestoreHeights : w = NewWallet(h)
      BY <1>3
    <2>2. h \in Nat
      BY <1>2
    <2>3. QED
      BY <1>1, <2>1, <2>2, NewBooks, NewSound
  <1>4. CASE \E h \in OldCaches : w = ScanAll(NewWallet(h), SubSeq(chain, h + 1, Len(chain)))
    <2>1. PICK h \in OldCaches : w = ScanAll(NewWallet(h), SubSeq(chain, h + 1, Len(chain)))
      BY <1>4
    <2>2. PICK list, v : list = SubSeq(chain, h + 1, Len(chain)) /\ v = NewWallet(h)
      OBVIOUS
    <2>3. h \in Nat /\ h < Len(chain)
      BY <1>2
    <2>4. Serves(list, h)
      BY <1>1, <2>2, <2>3, RestServes
    <2>5. Books(v) /\ v.start = h /\ v.from = h /\ v.fill = << >>
      BY <2>2, <2>3, NewBooks
    <2>6. Sound(v)
      BY <1>1, <2>2, <2>3, NewBooks, NewSound
    <2>7. v.start <= h /\ h <= ScanHeight(v) /\ BelowOn(v, h)
      <3>1. h <= ScanHeight(v) /\ v.start <= h
        BY <2>3, <2>5, HeldBelow
      <3>2. \A i \in DOMAIN v.hashes : ~ (v.hashes[i].height >= v.from /\ v.hashes[i].height < h)
        BY <2>3, <2>5, HeldBelow
      <3>3. QED
        BY <3>1, <3>2 DEF BelowOn
    <2>8. PICK u, m : u = ScanAll(v, list) /\ m = h + Len(list)
      OBVIOUS
    <2>9. Tracks(u, v, m)
      BY <1>1, <2>3, <2>4, <2>5, <2>7, <2>8, ScanAllTracks
    <2>10. Books(u) /\ u.fill = << >>
      BY <2>5, <2>9 DEF Tracks
    <2>11. Follows(u)
      BY <1>1, <2>6, <2>9, TracksFollows DEF Sound
    <2>12. w = u
      BY <2>1, <2>2, <2>8
    <2>13. QED
      BY <2>10, <2>11, <2>12 DEF Sound, FillOK
  <1>5. QED
    BY <1>3, <1>4 DEF Init

LEMMA InitInv ==
    ASSUME Init
    PROVE  WalletInv
  <1>1. ChainIs(chain, branch) /\ PoolIs(pool, relayed, rings, chain)
    BY StartChain
  <1>2. Sound(w) /\ saved = w
    BY StartWallet DEF Init
  <1>3. Held(w, chain, branch) /\ Held(saved, chain, branch)
    BY <1>2, SoundHeld
  <1>4. SendIs(prepared, Idle, rings, w)
    BY NoSendIs DEF Init
  <1>5. batch \in MinBatch..MaxBatch
    BY WalletAssumption DEF Init
  <1>6. QED
    BY <1>1, <1>3, <1>4, <1>5, InvFrom

-----------------------------------------------------------------------------
(* The theorems. *)

LEMMA StutterInv ==
    ASSUME WalletInv, UNCHANGED vars
    PROVE  WalletInv'
  <1>1. /\ chain' = chain /\ branch' = branch /\ pool' = pool /\ rings' = rings /\ relayed' = relayed
        /\ w' = w /\ batch' = batch /\ prepared' = prepared /\ ended' = ended /\ saved' = saved
    BY DEF vars, netVars, session
  <1>2. /\ ChainIs(chain, branch) /\ PoolIs(pool, relayed, rings, chain)
        /\ Held(w, chain, branch) /\ Held(saved, chain, branch)
    BY InvParts
  <1>3. QED
    BY <1>1, <1>2, DaemonStep

(* The blocks the wallet holds are blocks of the daemon's, then or before; the
   books, in memory and in the file, agree with the blocks they hold; a send
   that waits was planned over the transfers there are.  Every step of
   wallet-cli and wallet-rpc, and of the daemon, keeps this so. *)
THEOREM WalletInvHolds == Spec => []WalletInv
  <1>1. Init => WalletInv
    BY InitInv
  <1>2. WalletInv /\ [Next]_vars => WalletInv'
    <2>1. SUFFICES ASSUME WalletInv, [Next]_vars PROVE WalletInv'
      OBVIOUS
    <2>2. CASE Environment
      BY <2>1, <2>2, EnvironmentStep
    <2>3. CASE Session
      BY <2>1, <2>3, SessionStep
    <2>4. CASE Refresh
      BY <2>1, <2>4, QuietStep, RefreshOnceStep DEF Refresh
    <2>5. CASE UNCHANGED vars
      BY <2>1, <2>5, StutterInv
    <2>6. QED
      BY <2>1, <2>2, <2>3, <2>4, <2>5 DEF Next
  <1>3. QED
    BY <1>1, <1>2, PTL DEF Spec

LEMMA BooksAreSound == WalletInv => BooksSound
  <1>1. SUFFICES ASSUME WalletInv PROVE BooksSound
    OBVIOUS
  <1>2. Books(w) /\ PoolIs(pool, relayed, rings, chain) /\ batch \in MinBatch..MaxBatch
    BY <1>1, InvParts DEF Held
  <1>3. PICK s, H, R, B : s = w.transfers /\ H = w.hashes /\ R = w.sent /\ B = ScannedFrom(H, w.from)
    OBVIOUS
  <1>4. /\ w.start \in Nat /\ w.from \in Nat
        /\ H \in Seq(Block) /\ s \in Seq(Transfer)
        /\ HeightsFrom(H, w.start) /\ OutsDistinct(s) /\ RecordsTyped(R)
        /\ Paid(s, B) /\ Spent(s, B) /\ Confirmed(R, w.from, B)
    BY <1>2, <1>3, PartsOf
  <1>5. \A x \in ToSet(s) : \E i \in DOMAIN s : x = s[i] /\ x \in Transfer
    BY <1>4, PlacesOf DEF ToSet
  <1>6. TypeOK
    <2>1. ToSet(s) \subseteq Transfer
      BY <1>5
    <2>2. \A i, j \in DOMAIN s : s[i].out = s[j].out => i = j
      BY <1>4 DEF OutsDistinct
    <2>3. DOMAIN R \subseteq Tx /\ \A t \in DOMAIN R : R[t] \in Sent
      BY <1>4 DEF RecordsTyped
    <2>4. \A i \in DOMAIN H : H[i].height = w.start + i - 1
      BY <1>4 DEF HeightsFrom
    <2>5. pool \subseteq relayed /\ relayed \subseteq DOMAIN rings
      BY <1>2 DEF PoolIs
    <2>6. QED
      BY <1>2, <1>3, <2>1, <2>2, <2>3, <2>4, <2>5 DEF TypeOK
  <1>7. Scanned = B
    BY <1>3 DEF Scanned, ScannedFrom
  <1>8. {[out |-> x.out, height |-> x.height] : x \in ToSet(s)}
           = UNION {{[out |-> o, height |-> b.height] : o \in ToSet(Pays[b.tx])} : b \in B}
    <2>1. ASSUME NEW x \in ToSet(s)
          PROVE  \E b \in B : \E o \in ToSet(Pays[b.tx]) :
                    [out |-> x.out, height |-> x.height] = [out |-> o, height |-> b.height]
      <3>1. PICK i \in DOMAIN s : x = s[i]
        BY <1>5
      <3>2. PICK b \in B : s[i].height = b.height /\ s[i].out \in ToSet(Pays[b.tx])
        BY <1>4 DEF Paid
      <3>3. QED
        BY <3>1, <3>2
    <2>2. ASSUME NEW b \in B, NEW o \in ToSet(Pays[b.tx])
          PROVE  \E x \in ToSet(s) :
                    [out |-> x.out, height |-> x.height] = [out |-> o, height |-> b.height]
      <3>1. PICK i \in DOMAIN s : s[i].out = o /\ s[i].height = b.height
        BY <1>4 DEF Paid
      <3>2. s[i] \in ToSet(s)
        BY DEF ToSet
      <3>3. QED
        BY <3>1, <3>2
    <2>3. PICK P : P = {[out |-> x.out, height |-> x.height] : x \in ToSet(s)}
      OBVIOUS
    <2>4. PICK Q : Q = UNION {{[out |-> o, height |-> b.height] : o \in ToSet(Pays[b.tx])} : b \in B}
      OBVIOUS
    <2>5. \A z : z \in Q <=> \E b \in B : \E o \in ToSet(Pays[b.tx]) : z = [out |-> o, height |-> b.height]
      BY ONLY <2>4
    <2>6. \A z : z \in P <=> \E x \in ToSet(s) : z = [out |-> x.out, height |-> x.height]
      BY ONLY <2>3
    <2>7. \A z : z \in P => z \in Q
      BY ONLY <2>1, <2>5, <2>6
    <2>8. ASSUME NEW z \in Q PROVE z \in P
      <3>5. PICK b \in B : \E o \in ToSet(Pays[b.tx]) : z = [out |-> o, height |-> b.height]
        BY <2>5
      <3>1. PICK o \in ToSet(Pays[b.tx]) : z = [out |-> o, height |-> b.height]
        BY <3>5
      <3>2. PICK x \in ToSet(s) : [out |-> x.out, height |-> x.height] = [out |-> o, height |-> b.height]
        BY <2>2
      <3>3. z = [out |-> x.out, height |-> x.height]
        BY <3>1, <3>2
      <3>4. QED
        BY <2>6, <3>3
    <2>9. P = Q
      BY ONLY <2>7, <2>8
    <2>10. QED
      BY ONLY <2>3, <2>4, <2>9
  <1>9. \A x \in ToSet(s) : \A b \in B : x.out \in Ins[b.tx] <=> x.spent = b.height
    BY <1>4, <1>5 DEF Spent
  <1>10. \A x \in ToSet(s) : x.spent > Waiting => \E b \in B : b.height = x.spent
    BY <1>4, <1>5 DEF Spent
  <1>11. \A t \in Records(w, "confirmed") :
            w.sent[t].height >= w.from => \E b \in B : b.tx = t /\ b.height = w.sent[t].height
    BY <1>3, <1>4 DEF Confirmed, Records
  <1>12. BooksMatchBlocks
    BY <1>3, <1>7, <1>8, <1>9, <1>10, <1>11 DEF BooksMatchBlocks
  <1>13. QED
    BY <1>6, <1>12 DEF BooksSound

(* The wallet's books agree with the blocks it holds at every moment, in the
   middle of a refresh, across reorganisations of any depth, rescans and
   reopened caches: `process_transaction`, `detach` and `fill_below` neither
   miss an output or a spend nor keep one of a block that was given up. *)
THEOREM BooksSoundHolds == Spec => []BooksSound
  <1>1. QED
    BY WalletInvHolds, BooksAreSound, PTL

(* What waits for a block holds its inputs, and an output is held back only by
   something that waits for a block, whatever `check_pending`, `detach_sent`,
   `note_pool_spends` and `record_sent` did in whichever order. *)
THEOREM HeldBackByPendingHolds == Spec => []HeldBackByPending
  <1>1. WalletInv => HeldBackByPending
    <2>1. SUFFICES ASSUME WalletInv PROVE HeldBackByPending
      OBVIOUS
    <2>2. HeldBack(w.transfers, w.sent)
      BY <2>1, InvParts, PartsOf DEF Held
    <2>3. \A o : IsPendingInput(w, o) <=> Awaited(w.sent, o)
      BY DEF IsPendingInput, Awaited, Records
    <2>4. \A x \in ToSet(w.transfers) : \E i \in DOMAIN w.transfers : x = w.transfers[i]
      BY DEF ToSet
    <2>5. QED
      BY <2>2, <2>3, <2>4 DEF HeldBackByPending, HeldBack
  <1>2. QED
    BY <1>1, WalletInvHolds, PTL

(* Where no refresh begins while a send waits for its confirmation, as in
   wallet-cli and wallet-rpc, `record_sent` writes down the inputs of its own
   transaction and no others.  (wallet-gui does refresh meanwhile: under GuiSpec
   this is refuted.) *)
THEOREM RecordsItsInputsHolds == Spec => []RecordsItsInputs
  <1>1. WalletInv => RecordsItsInputs
    <2>1. SUFFICES ASSUME WalletInv PROVE RecordsItsInputs
      OBVIOUS
    <2>2. ItsInputs(w.sent)
      BY <2>1, InvParts, PartsOf DEF Held
    <2>3. QED
      BY <2>2 DEF ItsInputs, RecordsItsInputs
  <1>2. QED
    BY <1>1, WalletInvHolds, PTL
=============================================================================
