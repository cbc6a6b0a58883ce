----------------------------- MODULE SyncProofs -----------------------------
(***************************************************************************)
(* Proofs about Sync and the queue's operators (BlockQueue), for any       *)
(* number of peers, any tree of blocks and any sizes and thresholds: the   *)
(* queue's tables agree between any two calls, and only a peer that        *)
(* follows other rules is banned.                                          *)
(***************************************************************************)
EXTENDS Sync, TLAPS, SequenceTheorems, FiniteSetTheorems, NaturalsInduction, WellFoundedInduction

-----------------------------------------------------------------------------
(* Least and greatest elements. *)

LEMMA LeastOf ==
    ASSUME NEW T \in SUBSET Nat, T # {}
    PROVE  \E x \in T : \A y \in T : x <= y
  <1> DEFINE R == OpToRel(<, Nat)
  <1>1. IsWellFoundedOn(R, Nat)
    BY NatLessThanWellFounded, Zenon
  <1>2. \A x, y \in Nat : x < y => <<x, y>> \in R
    BY DEF OpToRel
  <1> HIDE DEF R
  <1>3. PICK x \in T : \A y \in T : ~ (<<y, x>> \in R)
    BY <1>1, WFMin
  <1>4. \A y \in T : ~ (y < x)
    BY <1>2, <1>3
  <1>5. QED
    BY <1>4

LEMMA MinIsLeast ==
    ASSUME NEW T \in SUBSET Nat, T # {}
    PROVE  Min(T) \in T /\ \A y \in T : Min(T) <= y
  <1>1. \E x \in T : \A y \in T : x <= y
    BY LeastOf
  <1>2. QED
    BY <1>1 DEF Min

(* Of finitely many, one is greatest by f: a smallest set without a greatest
   would have one more element than a set with one. *)
LEMMA GreatestBy ==
    ASSUME NEW S, IsFiniteSet(S), S # {}, NEW f, \A x \in S : f[x] \in Nat
    PROVE  \E m \in S : \A x \in S : f[x] <= f[m]
  <1> DEFINE Topped(s) == \E m \in s : \A x \in s : f[x] <= f[m]
             Sizes == {Cardinality(s) : s \in {r \in SUBSET S : r # {} /\ ~ Topped(r)}}
  <1>1. SUFFICES ASSUME ~ Topped(S) PROVE FALSE
    OBVIOUS
  <1>2. \A s \in SUBSET S : IsFiniteSet(s) /\ Cardinality(s) \in Nat
    BY FS_Subset, FS_CardinalityType
  <1>3. Sizes \in SUBSET Nat /\ Sizes # {}
    BY <1>1, <1>2
  <1>4. PICK n \in Sizes : \A k \in Sizes : n <= k
    <2> HIDE DEF Sizes
    <2>1. QED
      BY <1>3, LeastOf
  <1>5. PICK s \in SUBSET S : s # {} /\ ~ Topped(s) /\ Cardinality(s) = n
    BY <1>4
  <1>6. PICK x \in s : TRUE
    BY <1>5
  <1>7. Cardinality(s \ {x}) = n - 1 /\ n \in Nat
    BY <1>2, <1>5, <1>6, FS_RemoveElement
  <1>8. s \ {x} = {} \/ Topped(s \ {x})
    <2>1. SUFFICES ASSUME s \ {x} # {}, ~ Topped(s \ {x}) PROVE FALSE
      OBVIOUS
    <2>2. Cardinality(s \ {x}) \in Sizes
      BY <1>5, <2>1
    <2>3. n <= n - 1
      BY <1>4, <1>7, <2>2
    <2>4. QED
      BY <1>7, <2>3
  <1>9. CASE s \ {x} = {}
    <2>1. s = {x}
      BY <1>6, <1>9
    <2>2. Topped(s)
      BY <2>1
    <2>3. QED
      BY <1>5, <2>2
  <1>10. CASE Topped(s \ {x})
    <2>1. PICK m \in s \ {x} : \A y \in s \ {x} : f[y] <= f[m]
      BY <1>10
    <2>2. f[x] \in Nat /\ f[m] \in Nat /\ \A y \in s : f[y] \in Nat
      BY <1>5, <1>6, <2>1
    <2>3. Topped(s)
      <3>1. CASE f[x] <= f[m]
        BY <2>1, <2>2, <3>1
      <3>2. CASE f[m] <= f[x]
        BY <1>6, <2>1, <2>2, <3>2
      <3>3. QED
        BY <2>2, <3>1, <3>2
    <2>4. QED
      BY <1>5, <2>3
  <1>11. QED
    BY <1>8, <1>9, <1>10

LEMMA MaxIsGreatest ==
    ASSUME NEW T \in SUBSET Nat, T # {}, IsFiniteSet(T)
    PROVE  Max(T) \in T /\ \A y \in T : Max(T) >= y
  <1> DEFINE f == [x \in T |-> x]
  <1>1. \A x \in T : f[x] \in Nat
    OBVIOUS
  <1>2. \E m \in T : \A x \in T : f[x] <= f[m]
    <2> HIDE DEF f
    <2>1. QED
      BY <1>1, GreatestBy
  <1>3. \E m \in T : \A x \in T : m >= x
    BY <1>2
  <1>4. QED
    BY <1>3 DEF Max

(* Of the first n of a sequence of naturals. *)
LEMMA MaxUpTo ==
    ASSUME NEW n \in Nat, NEW T \in SUBSET (0..n), 0 \in T
    PROVE  Max(T) \in 0..n /\ Max(T) \in T /\ \A y \in T : Max(T) >= y
  <1>1. IsFiniteSet(T)
    <2>1. IsFiniteSet(0..n)
      BY FS_Interval
    <2>2. QED
      BY <2>1, FS_Subset
  <1>2. T \in SUBSET Nat /\ T # {}
    OBVIOUS
  <1>3. QED
    BY <1>1, <1>2, MaxIsGreatest

LEMMA Pairs ==
    ASSUME NEW a \in Nat, NEW b \in Nat
    PROVE  /\ Min({a, b}) = IF a <= b THEN a ELSE b
           /\ Max({a, b}) = IF a <= b THEN b ELSE a
  BY DEF Min, Max

-----------------------------------------------------------------------------
(* The tree: element k of a chain is the tip of a chain of k blocks. *)

LEMMA PathTypes ==
    ASSUME NEW b \in Block
    PROVE  /\ Path[b] \in Seq(Block) /\ TipHeight(b) \in Nat \ {0}
           /\ DOMAIN Path[b] = 1..TipHeight(b)
           /\ b # Genesis => /\ Parent(b) \in Block /\ TipHeight(Parent(b)) = TipHeight(b) - 1
                             /\ Path[b] = Append(Path[Parent(b)], b)
  <1>1. Path[b] \in Seq(Block) /\ TipHeight(b) \in Nat /\ DOMAIN Path[b] = 1..TipHeight(b)
    BY TreeAssumption DEF TipHeight
  <1>2. CASE b = Genesis
    BY <1>1, <1>2, TreeAssumption DEF TipHeight
  <1>3. CASE b # Genesis
    <2>1. TipHeight(b) > 1 /\ Path[b] = Append(Path[Parent(b)], b)
      BY <1>3, TreeAssumption
    <2>2. Parent(b) \in Block
      BY <1>1, <2>1 DEF Parent
    <2>3. Path[Parent(b)] \in Seq(Block)
      BY <2>2, TreeAssumption
    <2>4. Len(Path[b]) = Len(Path[Parent(b)]) + 1 /\ Len(Path[Parent(b)]) \in Nat
      BY <2>1, <2>3
    <2>5. TipHeight(Parent(b)) = TipHeight(b) - 1
      BY <2>4 DEF TipHeight
    <2>6. QED
      BY <1>1, <2>1, <2>2, <2>5
  <1>4. QED
    BY <1>2, <1>3

InPlace(b) ==
    /\ \A k \in 1..TipHeight(b) : Path[b][k] \in Block /\ TipHeight(Path[b][k]) = k
    /\ Path[b][1] = Genesis /\ Path[b][TipHeight(b)] = b

LEMMA PathInPlace == \A b \in Block : InPlace(b)
  <1> DEFINE Off == {TipHeight(b) : b \in {c \in Block : ~ InPlace(c)}}
  <1>1. SUFFICES ASSUME Off # {} PROVE FALSE
    OBVIOUS
  <1>2. Off \in SUBSET Nat
    BY PathTypes
  <1>3. PICK n \in Off : \A k \in Off : n <= k
    <2> HIDE DEF Off
    <2>1. QED
      BY <1>1, <1>2, LeastOf
  <1>4. PICK b \in Block : ~ InPlace(b) /\ TipHeight(b) = n
    BY <1>3
  <1>5. b # Genesis
    <2>1. SUFFICES ASSUME b = Genesis PROVE FALSE
      OBVIOUS
    <2>2. Path[b] = <<b>> /\ TipHeight(b) = 1
      BY <2>1, TreeAssumption DEF TipHeight
    <2>3. QED
      BY <1>4, <2>1, <2>2 DEF InPlace
  <1> DEFINE p == Parent(b)
  <1>6. p \in Block /\ TipHeight(p) = n - 1 /\ Path[b] = Append(Path[p], b) /\ n \in Nat \ {0}
        /\ Path[p] \in Seq(Block) /\ TipHeight(p) \in Nat \ {0} /\ Len(Path[p]) = n - 1
    BY <1>4, <1>5, PathTypes DEF TipHeight
  <1> HIDE DEF p
  <1>7. InPlace(p)
    <2>1. SUFFICES ASSUME ~ InPlace(p) PROVE FALSE
      OBVIOUS
    <2>2. TipHeight(p) \in Off
      BY <1>6, <2>1
    <2>3. QED
      BY <1>3, <1>6, <2>2
  <1>8. ASSUME NEW k \in 1..n PROVE Path[b][k] \in Block /\ TipHeight(Path[b][k]) = k
    <2>1. CASE k = n
      <3>1. Path[b][k] = b
        BY <1>6, <2>1
      <3>2. QED
        BY <1>4, <2>1, <3>1
    <2>2. CASE k # n
      <3>1. k \in 1..(n - 1)
        BY <1>6, <2>2
      <3>2. Path[b][k] = Path[p][k]
        BY <1>6, <3>1
      <3>3. QED
        BY <1>6, <1>7, <3>1, <3>2 DEF InPlace
    <2>3. QED
      BY <2>1, <2>2
  <1>9. Path[b][n] = b /\ Path[b][1] = Path[p][1]
    BY <1>6
  <1>10. InPlace(b)
    BY <1>4, <1>7, <1>8, <1>9 DEF InPlace
  <1>11. QED
    BY <1>4, <1>10

-----------------------------------------------------------------------------
(* The queue. *)

ConnId == Peer \X {"current", "earlier"}

(* Blocks asked for from `start` on are at those heights of some chain. *)
Segment(start, ids) ==
    /\ start \in Nat /\ ids \in Seq(Block)
    /\ \A k \in DOMAIN ids : TipHeight(ids[k]) = start + k

(* A peer that follows the same rules knows no bad block. *)
Clean(p, ids) == p \notin Other => \A k \in DOMAIN ids : ids[k] \notin Bad

SpanRecord == [ids : Seq(Block), filled : BOOLEAN, conn : ConnId, age : Nat]

SpanOK(start, span) ==
    /\ span \in SpanRecord /\ span.ids # << >>
    /\ Segment(start, span.ids)
    /\ span.filled => Clean(span.conn[1], span.ids)

Indexed(q) ==
    /\ \A s, r \in DOMAIN q.spans : s # r =>
          ToSet(q.spans[s].ids) \cap ToSet(q.spans[r].ids) = {}
    /\ DOMAIN q.heights = UNION {ToSet(q.spans[s].ids) : s \in DOMAIN q.spans}
    /\ \A s \in DOMAIN q.spans : \A k \in DOMAIN q.spans[s].ids :
          q.heights[q.spans[s].ids[k]] = s + k - 1
    /\ DOMAIN q.heights \cap DOMAIN q.applying = {}

QueueOK(q) ==
    /\ DOMAIN q = {"spans", "heights", "applying"}
    /\ IsFiniteSet(DOMAIN q.spans)
    /\ \A s \in DOMAIN q.spans : s \in Nat /\ SpanOK(s, q.spans[s])
    /\ Indexed(q)

(* The ids of a segment are different, so each is filed at its own height. *)
LEMMA FilingHeights ==
    ASSUME NEW start, NEW ids, Segment(start, ids)
    PROVE  /\ DOMAIN Filing(start, ids) = ToSet(ids)
           /\ \A k \in DOMAIN ids : Filing(start, ids)[ids[k]] = start + k - 1
  <1>1. DOMAIN Filing(start, ids) = ToSet(ids)
    BY DEF Filing
  <1>2. ASSUME NEW k \in DOMAIN ids PROVE Filing(start, ids)[ids[k]] = start + k - 1
    <2> DEFINE j == CHOOSE i \in DOMAIN ids : ids[i] = ids[k]
    <2>1. j \in DOMAIN ids /\ ids[j] = ids[k]
      OBVIOUS
    <2>2. DOMAIN ids = 1..Len(ids) /\ Len(ids) \in Nat /\ start \in Nat
      BY DEF Segment
    <2>3. start + j = start + k
      BY <2>1 DEF Segment
    <2>4. j = k
      <3> HIDE DEF j
      <3>1. QED
        BY <2>1, <2>2, <2>3
    <2>5. ids[k] \in ToSet(ids)
      BY DEF ToSet
    <2>6. Filing(start, ids)[ids[k]] = start + j - 1
      BY <2>5 DEF Filing
    <2>7. QED
      BY <2>4, <2>6
  <1>3. QED
    BY <1>1, <1>2

(* `insert`, of ids that nobody has asked for. *)
LEMMA InsertSound ==
    ASSUME NEW q, QueueOK(q), NEW start, NEW span, SpanOK(start, span),
           start \notin DOMAIN q.spans,
           \A k \in DOMAIN span.ids : ~ Requested(q, span.ids[k])
    PROVE  QueueOK(InsertSpan(q, start, span))
  <1> DEFINE i == InsertSpan(q, start, span)
  <1>1. /\ DOMAIN i = {"spans", "heights", "applying"}
        /\ i.applying = q.applying
        /\ i.heights = Override(q.heights, Filing(start, span.ids))
        /\ i.spans = Override(q.spans, [s \in {start} |-> span])
    BY DEF InsertSpan, QueueOK
  <1>2. Segment(start, span.ids)
    BY DEF SpanOK
  <1>3. /\ DOMAIN i.spans = DOMAIN q.spans \cup {start}
        /\ i.spans[start] = span
        /\ \A s \in DOMAIN q.spans : i.spans[s] = q.spans[s]
    BY <1>1 DEF Override
  <1>4. DOMAIN i.heights = DOMAIN q.heights \cup ToSet(span.ids)
    BY <1>1, <1>2, FilingHeights DEF Override
  <1>5. ToSet(span.ids) \cap (DOMAIN q.heights \cup DOMAIN q.applying) = {}
    BY DEF Requested, ToSet
  <1>6. \A id \in DOMAIN q.heights : i.heights[id] = q.heights[id]
    BY <1>1, <1>2, <1>5, FilingHeights DEF Override
  <1>7. \A k \in DOMAIN span.ids : i.heights[span.ids[k]] = start + k - 1
    <2>1. \A k \in DOMAIN span.ids : span.ids[k] \in ToSet(span.ids)
      BY DEF ToSet
    <2>2. QED
      BY <1>1, <1>2, <2>1, FilingHeights DEF Override
  <1> HIDE DEF i
  <1>8. IsFiniteSet(DOMAIN i.spans)
    BY <1>3, FS_AddElement DEF QueueOK
  <1>9. \A s \in DOMAIN i.spans : s \in Nat /\ SpanOK(s, i.spans[s])
    BY <1>3 DEF QueueOK, SpanOK, Segment
  <1>10. \A s \in DOMAIN q.spans : ToSet(q.spans[s].ids) \subseteq DOMAIN q.heights
    BY DEF QueueOK, Indexed
  <1>11. \A s, r \in DOMAIN i.spans : s # r =>
            ToSet(i.spans[s].ids) \cap ToSet(i.spans[r].ids) = {}
    BY <1>3, <1>5, <1>10 DEF QueueOK, Indexed
  <1>12. DOMAIN i.heights = UNION {ToSet(i.spans[s].ids) : s \in DOMAIN i.spans}
    <2>1. DOMAIN q.heights = UNION {ToSet(q.spans[s].ids) : s \in DOMAIN q.spans}
      BY DEF QueueOK, Indexed
    <2>2. QED
      BY <1>3, <1>4, <2>1
  <1>13. \A s \in DOMAIN i.spans : \A k \in DOMAIN i.spans[s].ids :
            i.heights[i.spans[s].ids[k]] = s + k - 1
    <2>1. ASSUME NEW s \in DOMAIN q.spans, NEW k \in DOMAIN q.spans[s].ids
          PROVE  i.heights[q.spans[s].ids[k]] = s + k - 1
      <3>1. q.spans[s].ids[k] \in DOMAIN q.heights
        BY <1>10 DEF ToSet
      <3>2. QED
        BY <1>6, <3>1 DEF QueueOK, Indexed
    <2>2. QED
      BY <1>3, <1>7, <2>1
  <1>14. DOMAIN i.heights \cap DOMAIN i.applying = {}
    BY <1>1, <1>4, <1>5 DEF QueueOK, Indexed
  <1>15. QED
    BY <1>1, <1>8, <1>9, <1>11, <1>12, <1>13, <1>14 DEF QueueOK, Indexed, i

(* `remove`, of any spans. *)
LEMMA RemoveSound ==
    ASSUME NEW q, QueueOK(q), NEW starts \in SUBSET DOMAIN q.spans
    PROVE  /\ QueueOK(RemoveAll(q, starts))
           /\ DOMAIN RemoveAll(q, starts).spans = DOMAIN q.spans \ starts
           /\ \A s \in DOMAIN q.spans \ starts : RemoveAll(q, starts).spans[s] = q.spans[s]
           /\ RemoveAll(q, starts).applying = q.applying
           /\ DOMAIN RemoveAll(q, starts).heights =
                 DOMAIN q.heights \ UNION {ToSet(q.spans[s].ids) : s \in starts}
  <1> DEFINE i == RemoveAll(q, starts)
             gone == UNION {ToSet(q.spans[s].ids) : s \in starts}
  <1>1. /\ DOMAIN i = {"spans", "heights", "applying"}
        /\ i.applying = q.applying
        /\ i.heights = Without(q.heights, gone)
        /\ i.spans = Without(q.spans, starts)
    BY DEF RemoveAll, QueueOK
  <1>2. /\ DOMAIN i.spans = DOMAIN q.spans \ starts
        /\ \A s \in DOMAIN i.spans : i.spans[s] = q.spans[s]
    BY <1>1 DEF Without
  <1>3. /\ DOMAIN i.heights = DOMAIN q.heights \ gone
        /\ \A id \in DOMAIN i.heights : i.heights[id] = q.heights[id]
    BY <1>1 DEF Without
  <1> HIDE DEF i
  <1>4. IsFiniteSet(DOMAIN i.spans)
    <2>1. IsFiniteSet(DOMAIN q.spans)
      BY DEF QueueOK
    <2>2. DOMAIN i.spans \in SUBSET DOMAIN q.spans
      BY <1>2
    <2>3. QED
      BY <2>1, <2>2, FS_Subset
  <1>5. \A s \in DOMAIN i.spans : s \in Nat /\ SpanOK(s, i.spans[s])
    BY <1>2 DEF QueueOK
  <1>6. \A s, r \in DOMAIN i.spans : s # r =>
            ToSet(i.spans[s].ids) \cap ToSet(i.spans[r].ids) = {}
    BY <1>2 DEF QueueOK, Indexed
  <1>7. \A s \in DOMAIN i.spans : ToSet(q.spans[s].ids) \cap gone = {}
    BY <1>2 DEF QueueOK, Indexed
  <1>8. DOMAIN i.heights = UNION {ToSet(i.spans[s].ids) : s \in DOMAIN i.spans}
    <2>1. DOMAIN q.heights = UNION {ToSet(q.spans[s].ids) : s \in DOMAIN q.spans}
      BY DEF QueueOK, Indexed
    <2>2. ASSUME NEW id
          PROVE  id \in DOMAIN i.heights <=> \E s \in DOMAIN i.spans : id \in ToSet(i.spans[s].ids)
      <3>1. id \in DOMAIN q.heights <=> \E s \in DOMAIN q.spans : id \in ToSet(q.spans[s].ids)
        BY <2>1
      <3>2. id \in gone <=> \E s \in starts : id \in ToSet(q.spans[s].ids)
        OBVIOUS
      <3>3. id \in DOMAIN i.heights <=> id \in DOMAIN q.heights /\ id \notin gone
        BY <1>3
      <3> HIDE DEF gone
      <3>4. QED
        BY <1>2, <1>7, <3>1, <3>2, <3>3
    <2>3. QED
      BY <2>2
  <1>9. \A s \in DOMAIN i.spans : \A k \in DOMAIN i.spans[s].ids :
            i.heights[i.spans[s].ids[k]] = s + k - 1
    <2>1. ASSUME NEW s \in DOMAIN i.spans, NEW k \in DOMAIN i.spans[s].ids
          PROVE  i.heights[i.spans[s].ids[k]] = s + k - 1
      <3>1. i.spans[s].ids[k] \in DOMAIN i.heights
        BY <1>8 DEF ToSet
      <3>2. QED
        BY <1>2, <1>3, <3>1 DEF QueueOK, Indexed
    <2>2. QED
      BY <2>1
  <1>10. DOMAIN i.heights \cap DOMAIN i.applying = {}
    BY <1>1, <1>3 DEF QueueOK, Indexed
  <1>11. QueueOK(i)
    BY <1>1, <1>4, <1>5, <1>6, <1>8, <1>9, <1>10 DEF QueueOK, Indexed
  <1>12. QED
    BY <1>1, <1>2, <1>3, <1>11 DEF i

LEMMA RemoveOneIsRemove ==
    ASSUME NEW q, NEW start
    PROVE  RemoveSpan(q, start) = RemoveAll(q, {start})
  <1>1. UNION {ToSet(q.spans[s].ids) : s \in {start}} = ToSet(q.spans[start].ids)
    OBVIOUS
  <1>2. QED
    BY <1>1 DEF RemoveSpan, RemoveAll

(* Spans that change hands or grow older stay what they are. *)
LEMMA RelabelSound ==
    ASSUME NEW q, QueueOK(q), NEW i, DOMAIN i = {"spans", "heights", "applying"},
           i.heights = q.heights, i.applying = q.applying, DOMAIN i.spans = DOMAIN q.spans,
           \A s \in DOMAIN q.spans :
              /\ i.spans[s] \in SpanRecord /\ i.spans[s].ids = q.spans[s].ids
              /\ i.spans[s].filled = q.spans[s].filled /\ i.spans[s].conn[1] = q.spans[s].conn[1]
    PROVE  QueueOK(i)
  <1>1. \A s \in DOMAIN i.spans : s \in Nat /\ SpanOK(s, i.spans[s])
    BY DEF QueueOK, SpanOK
  <1>2. Indexed(q) /\ \A s \in DOMAIN q.spans : i.spans[s].ids = q.spans[s].ids
    BY DEF QueueOK
  <1>3. \A s, r \in DOMAIN i.spans : s # r =>
            ToSet(i.spans[s].ids) \cap ToSet(i.spans[r].ids) = {}
    BY <1>2 DEF Indexed
  <1>4. DOMAIN i.heights = UNION {ToSet(i.spans[s].ids) : s \in DOMAIN i.spans}
    BY <1>2 DEF Indexed
  <1>5. \A s \in DOMAIN i.spans : \A k \in DOMAIN i.spans[s].ids :
            i.heights[i.spans[s].ids[k]] = s + k - 1
    BY <1>2 DEF Indexed
  <1>6. DOMAIN i.heights \cap DOMAIN i.applying = {}
    BY <1>2 DEF Indexed
  <1>7. IsFiniteSet(DOMAIN i.spans)
    BY DEF QueueOK
  <1>8. QED
    BY <1>1, <1>3, <1>4, <1>5, <1>6, <1>7 DEF QueueOK, Indexed

(* The applier's table may lose ids, or gain ids the index has lost. *)
LEMMA ApplyingSound ==
    ASSUME NEW q, QueueOK(q), NEW f, DOMAIN f \cap DOMAIN q.heights = {}
    PROVE  QueueOK([q EXCEPT !.applying = f])
  <1> DEFINE i == [q EXCEPT !.applying = f]
  <1>1. /\ DOMAIN i = {"spans", "heights", "applying"}
        /\ i.spans = q.spans /\ i.heights = q.heights /\ i.applying = f
    BY DEF QueueOK
  <1> HIDE DEF i
  <1>2. Indexed(q)
    BY DEF QueueOK
  <1>3. DOMAIN i.heights \cap DOMAIN i.applying = {}
    BY <1>1
  <1>4. Indexed(i)
    <2>1. DOMAIN i.heights = UNION {ToSet(i.spans[s].ids) : s \in DOMAIN i.spans}
      BY <1>1, <1>2 DEF Indexed
    <2>2. \A s, r \in DOMAIN i.spans : s # r =>
             ToSet(i.spans[s].ids) \cap ToSet(i.spans[r].ids) = {}
      BY <1>1, <1>2, Zenon DEF Indexed
    <2>3. \A s \in DOMAIN i.spans : \A k \in DOMAIN i.spans[s].ids :
             i.heights[i.spans[s].ids[k]] = s + k - 1
      BY <1>1, <1>2, Zenon DEF Indexed
    <2>4. QED
      BY <1>3, <2>1, <2>2, <2>3, Zenon DEF Indexed
  <1>5. QueueOK(i)
    BY <1>1, <1>4 DEF QueueOK
  <1>6. QED
    BY <1>5 DEF i

LEMMA AppliedSound ==
    ASSUME NEW q, QueueOK(q), NEW ids
    PROVE  QueueOK(Applied(q, ids))
  <1>1. DOMAIN Without(q.applying, ToSet(ids)) \cap DOMAIN q.heights = {}
    BY DEF QueueOK, Indexed, Without
  <1>2. QueueOK([q EXCEPT !.applying = Without(q.applying, ToSet(ids))])
    BY <1>1, ApplyingSound
  <1>3. QED
    BY <1>2 DEF Applied

LEMMA ClearSound ==
    ASSUME NEW q, QueueOK(q)
    PROVE  QueueOK(Clear(q))
  <1> DEFINE i == Clear(q)
  <1>1. /\ DOMAIN i = {"spans", "heights", "applying"}
        /\ DOMAIN i.spans = {} /\ DOMAIN i.heights = {}
    BY DEF QueueOK, Clear
  <1> HIDE DEF i
  <1>2. QueueOK(i)
    BY <1>1, FS_EmptySet DEF QueueOK, Indexed
  <1>3. QED
    BY <1>2 DEF i

LEMMA FlushSound ==
    ASSUME NEW q, QueueOK(q), NEW c, NEW all
    PROVE  QueueOK(Flush(q, c, all))
  <1>1. {s \in DOMAIN q.spans : q.spans[s].conn = c /\ (all \/ ~q.spans[s].filled)}
           \in SUBSET DOMAIN q.spans
    OBVIOUS
  <1>2. QED
    BY <1>1, RemoveSound, Zenon DEF Flush

LEMMA TrimmedSound ==
    ASSUME NEW q, QueueOK(q), NEW S
    PROVE  QueueOK(Trimmed(q, S))
  <1>1. Passed(q, S) \in SUBSET DOMAIN q.spans
    BY DEF Passed
  <1>2. QED
    BY <1>1, RemoveSound DEF Trimmed

(* What is taken passes from the index to the applier's table. *)
LEMMA TakeSound ==
    ASSUME NEW q, QueueOK(q), NEW height, Takes(q, height)
    PROVE  /\ QueueOK(Take(q))
           /\ Min(DOMAIN q.spans) \in DOMAIN q.spans
           /\ q.spans[Min(DOMAIN q.spans)].filled
  <1>1. DOMAIN q.spans \in SUBSET Nat /\ DOMAIN q.spans # {}
    BY DEF QueueOK, Takes
  <1>2. Min(DOMAIN q.spans) \in DOMAIN q.spans
    BY <1>1, MinIsLeast
  <1>3. PICK start \in DOMAIN q.spans : start = Min(DOMAIN q.spans)
    BY <1>2
  <1>4. Segment(start, q.spans[start].ids)
    BY DEF QueueOK, SpanOK
  <1> DEFINE r == RemoveAll(q, {start})
             f == Override(r.applying, Filing(start, q.spans[start].ids))
  <1>5. /\ QueueOK(r) /\ r.applying = q.applying
        /\ DOMAIN r.heights = DOMAIN q.heights \ ToSet(q.spans[start].ids)
    <2>1. {start} \in SUBSET DOMAIN q.spans
      OBVIOUS
    <2>2. UNION {ToSet(q.spans[s].ids) : s \in {start}} = ToSet(q.spans[start].ids)
      OBVIOUS
    <2>3. QED
      BY <2>1, <2>2, RemoveSound
  <1>6. DOMAIN f = DOMAIN q.applying \cup ToSet(q.spans[start].ids)
    BY <1>4, <1>5, FilingHeights DEF Override
  <1>7. DOMAIN f \cap DOMAIN r.heights = {}
    BY <1>5, <1>6 DEF QueueOK, Indexed
  <1>8. Take(q) = [r EXCEPT !.applying = f]
    BY <1>3, RemoveOneIsRemove DEF Take
  <1> HIDE DEF r, f
  <1>9. QueueOK(Take(q))
    BY <1>5, <1>7, <1>8, ApplyingSound
  <1>10. QED
    BY <1>2, <1>9 DEF Takes

-----------------------------------------------------------------------------
(* Reserving and filling. *)

LEMMA SubSegment ==
    ASSUME NEW start, NEW ids, Segment(start, ids),
           NEW m \in Nat \ {0}, NEW n \in Nat, n <= Len(ids), m <= n + 1
    PROVE  /\ Segment(start + m - 1, SubSeq(ids, m, n))
           /\ Len(SubSeq(ids, m, n)) = n - m + 1
           /\ DOMAIN SubSeq(ids, m, n) = 1..(n - m + 1)
           /\ \A k \in 1..(n - m + 1) : /\ m + k - 1 \in DOMAIN ids
                                        /\ SubSeq(ids, m, n)[k] = ids[m + k - 1]
  <1>1. ids \in Seq(Block) /\ start \in Nat /\ DOMAIN ids = 1..Len(ids) /\ Len(ids) \in Nat
    BY DEF Segment
  <1>2. \A i \in m..n : ids[i] \in Block
    BY <1>1
  <1> DEFINE t == SubSeq(ids, m, n)
  <1>3. /\ t \in Seq(Block) /\ Len(t) = n - m + 1
        /\ \A k \in 1..(n - m + 1) : t[k] = ids[m + k - 1]
    <2>1. /\ t \in Seq(Block) /\ Len(t) = IF m <= n THEN n - m + 1 ELSE 0
          /\ \A k \in 1..(n - m + 1) : t[k] = ids[m + k - 1]
      BY <1>2, SubSeqProperties
    <2>2. QED
      BY <2>1
  <1> HIDE DEF t
  <1>4. DOMAIN t = 1..(n - m + 1)
    BY <1>3
  <1>5. \A k \in 1..(n - m + 1) : m + k - 1 \in DOMAIN ids
    BY <1>1
  <1>6. ASSUME NEW k \in DOMAIN t PROVE TipHeight(t[k]) = (start + m - 1) + k
    <2>1. k \in 1..(n - m + 1)
      BY <1>4
    <2>2. t[k] = ids[m + k - 1] /\ m + k - 1 \in DOMAIN ids
      BY <1>3, <1>5, <2>1
    <2>3. TipHeight(t[k]) = start + (m + k - 1)
      BY <2>2 DEF Segment
    <2>4. QED
      BY <1>1, <2>1, <2>3
  <1>7. Segment(start + m - 1, t)
    BY <1>1, <1>3, <1>6 DEF Segment
  <1>8. QED
    BY <1>3, <1>4, <1>5, <1>7 DEF t

LEMMA BatchPositive ==
    ASSUME NEW batch \in Nat, NEW start \in Nat, NEW free \in Nat
    PROVE  NextBatch(batch, start, free) \in Nat \ {0}
  <1> DEFINE T == {batch, free, Epoch - (start % Epoch)}
  <1>1. Epoch \in Nat \ {0}
    BY QueueAssumption
  <1>2. Epoch - (start % Epoch) \in Nat
    BY <1>1
  <1>3. T \in SUBSET Nat /\ T # {}
    BY <1>2
  <1>4. Min(T) \in Nat
    <2> HIDE DEF T
    <2>1. QED
      BY <1>3, MinIsLeast
  <1>5. NextBatch(batch, start, free) = Max({1, Min(T)})
    BY DEF NextBatch
  <1>6. QED
    <2> HIDE DEF T
    <2>1. Max({1, Min(T)}) = IF 1 <= Min(T) THEN Min(T) ELSE 1
      BY <1>4, Pairs
    <2>2. QED
      BY <1>4, <1>5, <2>1

(* A span of `ids` that nobody has asked for, where no span begins. *)
Unasked(q, ids, r) ==
    /\ r.start \notin DOMAIN q.spans
    /\ Segment(r.start, r.ids) /\ r.ids # << >>
    /\ \A k \in DOMAIN r.ids : ~ Requested(q, r.ids[k])
    /\ \A k \in DOMAIN r.ids : \E j \in DOMAIN ids : r.ids[k] = ids[j]

(* `reserve` finds such a span. *)
LEMMA ReservationSound ==
    ASSUME NEW q, NEW first, NEW ids, Segment(first, ids), NEW batch \in Nat,
           Reservation(q, first, ids, batch) # << >>
    PROVE  \E r : Reservation(q, first, ids, batch) = <<r>> /\ Unasked(q, ids, r)
  <1> DEFINE free == {k \in DOMAIN ids : ~Requested(q, ids[k])}
             skip == Min(free)
             ends == {k \in skip..Len(ids) + 1 : k \notin free}
             stop == Min(ends)
             n == NextBatch(batch, first + skip - 1, stop - skip)
             len == Min({n, stop - skip})
             cut == SubSeq(ids, skip, skip + len - 1)
             r == [start |-> first + skip - 1, ids |-> cut]
  <1>1. /\ Reservation(q, first, ids, batch) = <<r>>
        /\ first + skip - 1 \notin DOMAIN q.spans
        /\ free # {}
    BY DEF Reservation
  <1>2. DOMAIN ids = 1..Len(ids) /\ Len(ids) \in Nat /\ first \in Nat
    BY DEF Segment
  <1>3. free \in SUBSET Nat
    BY <1>2
  <1>4. skip \in free
    <2> HIDE DEF free
    <2>1. QED
      BY <1>1, <1>3, MinIsLeast
  <1>5. skip \in 1..Len(ids)
    <2> HIDE DEF skip
    <2>1. QED
      BY <1>2, <1>4
  <1>6. ends \in SUBSET Nat /\ Len(ids) + 1 \in ends
    <2> HIDE DEF skip
    <2>1. QED
      BY <1>2, <1>5
  <1>7. stop \in ends /\ \A k \in ends : stop <= k
    <2> HIDE DEF ends
    <2>1. QED
      BY <1>6, MinIsLeast
  <1>8. stop \in Nat /\ stop > skip /\ stop <= Len(ids) + 1
        /\ \A k \in skip..(stop - 1) : k \in free
    <2> HIDE DEF skip, stop, free
    <2>1. stop \in skip..Len(ids) + 1 /\ stop \notin free
      BY <1>7
    <2>2. stop # skip
      BY <1>4, <2>1
    <2>3. ASSUME NEW k \in skip..(stop - 1), k \notin free PROVE FALSE
      <3>1. k \in ends
        BY <1>2, <1>5, <2>1, <2>3
      <3>2. QED
        BY <1>2, <1>5, <1>7, <2>1, <2>3, <3>1
    <2>4. QED
      BY <1>2, <1>5, <2>1, <2>2, <2>3
  <1> HIDE DEF skip, stop
  <1>9. n \in Nat \ {0}
    <2>1. first + skip - 1 \in Nat /\ stop - skip \in Nat
      BY <1>2, <1>5, <1>8
    <2>2. QED
      BY <2>1, BatchPositive
  <1>10. len \in Nat /\ 1 <= len /\ len <= stop - skip
    <2> HIDE DEF n
    <2>1. stop - skip \in Nat /\ stop - skip >= 1
      BY <1>5, <1>8
    <2>2. len = IF n <= stop - skip THEN n ELSE stop - skip
      BY <1>9, <2>1, Pairs
    <2>3. QED
      BY <1>9, <2>1, <2>2
  <1> HIDE DEF len, free
  <1>11. /\ Segment(first + skip - 1, cut)
         /\ Len(cut) = len /\ DOMAIN cut = 1..len
         /\ \A k \in 1..len : skip + k - 1 \in DOMAIN ids /\ cut[k] = ids[skip + k - 1]
    <2>1. skip \in Nat \ {0} /\ skip + len - 1 \in Nat /\ skip + len - 1 <= Len(ids)
          /\ skip <= (skip + len - 1) + 1 /\ (skip + len - 1) - skip + 1 = len
      BY <1>2, <1>5, <1>8, <1>10
    <2>2. QED
      BY <2>1, SubSegment
  <1> HIDE DEF cut
  <1>12. \A k \in DOMAIN cut : ~ Requested(q, cut[k])
    <2>1. ASSUME NEW k \in 1..len PROVE ~ Requested(q, cut[k])
      <3>1. skip + k - 1 \in skip..(stop - 1)
        BY <1>5, <1>8, <1>10
      <3>2. skip + k - 1 \in free
        BY <1>8, <3>1
      <3>3. QED
        BY <1>11, <3>2 DEF free
    <2>2. QED
      BY <1>11, <2>1
  <1>13. cut # << >>
    BY <1>10, <1>11
  <1>14. \A k \in DOMAIN cut : \E j \in DOMAIN ids : cut[k] = ids[j]
    BY <1>11
  <1>15. QED
    <2>1. r.start = first + skip - 1 /\ r.ids = cut
      OBVIOUS
    <2> HIDE DEF r
    <2>2. QED
      BY <1>1, <1>11, <1>12, <1>13, <1>14, <2>1 DEF Unasked

LEMMA CleanPart ==
    ASSUME NEW p, NEW ids, Clean(p, ids), NEW t,
           \A k \in DOMAIN t : \E j \in DOMAIN ids : t[k] = ids[j]
    PROVE  Clean(p, t)
  BY DEF Clean

LEMMA ConnOfType ==
    ASSUME NEW p \in Peer
    PROVE  /\ ConnOf(p) \in ConnId /\ ConnOf(p)[1] = p
           /\ Earlier(p) \in ConnId /\ Earlier(p)[1] = p
  BY DEF ConnOf, Earlier, ConnId

LEMMA ReserveSound ==
    ASSUME NEW q, QueueOK(q), NEW p \in Peer, NEW r,
           r.start \notin DOMAIN q.spans, Segment(r.start, r.ids), r.ids # << >>,
           \A k \in DOMAIN r.ids : ~ Requested(q, r.ids[k])
    PROVE  QueueOK(Reserve(q, ConnOf(p), r))
  <1> DEFINE span == [ids |-> r.ids, filled |-> FALSE, conn |-> ConnOf(p), age |-> 0]
  <1>1. span.ids = r.ids /\ ~ span.filled
    OBVIOUS
  <1>2. span \in SpanRecord
    BY ConnOfType DEF SpanRecord, Segment
  <1>3. Reserve(q, ConnOf(p), r) = InsertSpan(q, r.start, span)
    BY DEF Reserve
  <1> HIDE DEF span
  <1>4. SpanOK(r.start, span)
    BY <1>1, <1>2 DEF SpanOK
  <1>5. QED
    BY <1>1, <1>3, <1>4, InsertSound

(* `fill` puts the blocks delivered where they were asked for, or, if nobody
   asks for them any more and nobody has, where they would have been. *)
LEMMA FillSound ==
    ASSUME NEW q, QueueOK(q), NEW start, NEW ids, Segment(start, ids), NEW n,
           Wanted(q, start, ids, n), NEW p \in Peer, Clean(p, ids)
    PROVE  QueueOK(Fill(q, start, ids, n, ConnOf(p)))
  <1> DEFINE cut == SubSeq(ids, 1, n)
             span == [ids |-> cut, filled |-> TRUE, conn |-> ConnOf(p), age |-> 0]
             rest == IF start \in DOMAIN q.spans THEN RemoveSpan(q, start) ELSE q
  <1>1. n \in 1..Len(ids) /\ Len(ids) \in Nat /\ start \in Nat
    BY DEF Wanted, Segment
  <1>2. /\ Segment(start, cut) /\ DOMAIN cut = 1..n
        /\ \A k \in 1..n : k \in DOMAIN ids /\ cut[k] = ids[k]
    <2>1. /\ Segment(start + 1 - 1, cut) /\ Len(cut) = n - 1 + 1
          /\ DOMAIN cut = 1..(n - 1 + 1)
          /\ \A k \in 1..(n - 1 + 1) : 1 + k - 1 \in DOMAIN ids /\ cut[k] = ids[1 + k - 1]
      BY <1>1, SubSegment
    <2>2. start + 1 - 1 = start /\ n - 1 + 1 = n /\ \A k \in 1..n : 1 + k - 1 = k
      BY <1>1
    <2> HIDE DEF cut
    <2>3. QED
      BY <2>1, <2>2
  <1>3. Fill(q, start, ids, n, ConnOf(p)) = InsertSpan(rest, start, span)
    BY DEF Fill
  <1>4. span.ids = cut /\ span.filled /\ span.conn[1] = p
    BY ConnOfType
  <1>5. span \in SpanRecord
    BY <1>2, ConnOfType DEF SpanRecord, Segment
  <1> HIDE DEF span
  <1>6. SpanOK(start, span)
    <2>1. cut # << >>
      <3> HIDE DEF cut
      <3>1. QED
        BY <1>1, <1>2
    <2>2. Clean(p, cut)
      BY <1>2 DEF Clean
    <2> HIDE DEF cut
    <2>3. QED
      BY <1>2, <1>4, <1>5, <2>1, <2>2 DEF SpanOK
  <1>7. CASE start \in DOMAIN q.spans
    <2>1. rest = RemoveAll(q, {start})
      BY <1>7, RemoveOneIsRemove
    <2>2. {start} \in SUBSET DOMAIN q.spans
      BY <1>7
    <2>3. /\ QueueOK(rest) /\ start \notin DOMAIN rest.spans
          /\ rest.applying = q.applying
          /\ DOMAIN rest.heights = DOMAIN q.heights \ ToSet(q.spans[start].ids)
      <3>1. UNION {ToSet(q.spans[s].ids) : s \in {start}} = ToSet(q.spans[start].ids)
        OBVIOUS
      <3> HIDE DEF rest
      <3>2. QED
        BY <2>1, <2>2, <3>1, RemoveSound
    <2>4. ASSUME NEW k \in 1..n PROVE cut[k] \in ToSet(q.spans[start].ids)
      <3>1. /\ n <= Len(q.spans[start].ids)
            /\ SubSeq(q.spans[start].ids, 1, n) = cut
        BY <1>7 DEF Wanted
      <3>2. Segment(start, q.spans[start].ids)
        BY <1>7 DEF QueueOK, SpanOK
      <3>3. DOMAIN q.spans[start].ids = 1..Len(q.spans[start].ids)
            /\ Len(q.spans[start].ids) \in Nat
        BY <3>2 DEF Segment
      <3>4. /\ k \in DOMAIN q.spans[start].ids
            /\ SubSeq(q.spans[start].ids, 1, n)[k] = q.spans[start].ids[k]
        BY <1>1, <3>1, <3>3, SubSegment, <3>2
      <3>5. QED
        BY <3>1, <3>4 DEF ToSet
    <2>5. \A k \in DOMAIN span.ids : ~ Requested(rest, span.ids[k])
      <3>1. ToSet(q.spans[start].ids) \subseteq DOMAIN q.heights
        BY <1>7 DEF QueueOK, Indexed
      <3>2. DOMAIN q.heights \cap DOMAIN q.applying = {}
        BY DEF QueueOK, Indexed
      <3> HIDE DEF cut, rest
      <3>3. QED
        BY <1>2, <1>4, <2>3, <2>4, <3>1, <3>2 DEF Requested
    <2>6. QED
      <3> HIDE DEF rest
      <3>1. QED
        BY <1>3, <1>6, <2>3, <2>5, InsertSound
  <1>8. CASE start \notin DOMAIN q.spans
    <2>1. rest = q
      BY <1>8
    <2>2. \A k \in 1..n : ~ Requested(q, ids[k])
      BY <1>8 DEF Wanted
    <2>3. \A k \in DOMAIN span.ids : ~ Requested(q, span.ids[k])
      <3> HIDE DEF cut
      <3>1. QED
        BY <1>2, <1>4, <2>2
    <2>4. QED
      <3> HIDE DEF rest
      <3>1. QED
        BY <1>3, <1>6, <1>8, <2>1, <2>3, InsertSound
  <1>9. QED
    BY <1>7, <1>8

-----------------------------------------------------------------------------
(* Connections and the applier. *)

Request ==
    {NoRequest} \cup [kind : {"chain"}, history : Seq(Block)]
                \cup [kind : {"objects"}, start : Nat, ids : Seq(Block)]

ConnRecord ==
    [connected : BOOLEAN, closed : BOOLEAN,
     state : {"handshake", "synchronizing", "standby", "normal"},
     pending : Request, chain : Seq(Block), start : Nat, outdated : BOOLEAN,
     batch : DefaultBatch..MaxBatch, mayAsk : BOOLEAN, sync : Block, height : Nat]

(* What is known of a peer's chain is a segment of it; a history asked with
   goes back to the genesis block; blocks asked for are a segment too. *)
PendingOK(p, r) ==
    /\ r.kind = "chain" => \E k \in DOMAIN r.history : r.history[k] = Genesis
    /\ r.kind = "objects" => Segment(r.start, r.ids) /\ Clean(p, r.ids)

ConnOK(p, c) ==
    /\ c \in ConnRecord
    /\ Segment(c.start, c.chain) /\ Clean(p, c.chain)
    /\ PendingOK(p, c.pending)

ConnsOK == DOMAIN conn = Peer /\ \A p \in Peer : ConnOK(p, conn[p])

Verdicts == {"none", "taken", "orphan", "ban", "refused"}

ApplierOK ==
    /\ applier \in [at : {"wait", "apply", "done", "bump"}, start : Nat, ids : Seq(Block),
                    conn : {<< >>} \cup ConnId, verdict : Verdicts]
    /\ applier.at \in {"apply", "done"} =>
          applier.conn \in ConnId /\ Clean(applier.conn[1], applier.ids)
    /\ applier.verdict = "ban" => applier.conn \in ConnId /\ applier.conn[1] \in Other

(* Where a peer's chain can be. *)
TipsOK == peerTip \in [Peer -> Block] /\ \A p \in Peer : peerTip[p] \in MovesTo[p] \cup {StartTip[p]}

ChainOK == have \subseteq Block /\ tip \in have

SyncInv ==
    /\ ChainOK /\ QueueOK(queue) /\ ConnsOK /\ ApplierOK /\ TipsOK
    /\ banned \subseteq Peer \cap Other /\ news \subseteq Up /\ faults \in 0..MaxFaults

LEMMA InvImplies == SyncInv => QueueSound /\ BansDeserved
  <1> SUFFICES ASSUME SyncInv PROVE QueueSound /\ BansDeserved
    OBVIOUS
  <1>1. QueueIndexed
    BY Zenon DEF SyncInv, QueueOK, Indexed, QueueIndexed
  <1>2. ASSUME NEW p \in Peer
        PROVE  /\ conn[p].state \in {"handshake", "synchronizing", "standby", "normal"}
               /\ conn[p].pending.kind \in {"none", "chain", "objects"}
               /\ conn[p].chain \in Seq(Block)
               /\ conn[p].batch \in DefaultBatch..MaxBatch
    BY DEF SyncInv, ConnsOK, ConnOK, ConnRecord, Request, NoRequest
  <1>3. TypeOK
    BY <1>2 DEF SyncInv, TypeOK, ChainOK, ApplierOK, TipsOK
  <1>4. QED
    BY <1>1, <1>3 DEF QueueSound, BansDeserved, SyncInv

-----------------------------------------------------------------------------
(* The chain. *)

LEMMA HeaviestOf ==
    ASSUME NEW S \in SUBSET Block, IsFiniteSet(S), S # {}
    PROVE  (CHOOSE b \in S : \A c \in S : Work[c] <= Work[b]) \in S
  <1>1. \A x \in S : Work[x] \in Nat
    BY TreeAssumption
  <1>2. \E m \in S : \A x \in S : Work[x] <= Work[m]
    BY <1>1, GreatestBy
  <1>3. QED
    BY <1>2

LEMMA TakenSome ==
    ASSUME NEW ids \in Seq(Block)
    PROVE  /\ TakenOf(ids) \in 0..Len(ids)
           /\ {ids[k] : k \in 1..TakenOf(ids)} \in SUBSET Block
           /\ IsFiniteSet({ids[k] : k \in 1..TakenOf(ids)})
  <1> DEFINE T == {n \in 0..Len(ids) : \A k \in 1..n : Accepts(ids, k)}
  <1>1. T \in SUBSET (0..Len(ids)) /\ 0 \in T /\ Len(ids) \in Nat
    OBVIOUS
  <1>2. TakenOf(ids) \in 0..Len(ids)
    <2>1. TakenOf(ids) = Max(T)
      BY DEF TakenOf
    <2> HIDE DEF T
    <2>2. QED
      BY <1>1, <2>1, MaxUpTo
  <1>3. PICK n \in 0..Len(ids) : n = TakenOf(ids)
    BY <1>2
  <1> DEFINE S == {ids[k] : k \in 1..n}
             f == [k \in 1..n |-> ids[k]]
  <1>4. S \in SUBSET Block
    OBVIOUS
  <1>5. IsFiniteSet(1..n)
    BY FS_Interval
  <1>6. f \in Surjection(1..n, S)
    BY DEF Surjection
  <1>7. IsFiniteSet(S)
    BY <1>5, <1>6, FS_Surjection
  <1>8. QED
    BY <1>2, <1>3, <1>4, <1>7

LEMMA GrownSound ==
    ASSUME ChainOK, NEW S \in SUBSET Block, IsFiniteSet(S), Grown(S)
    PROVE  ChainOK'
  <1> DEFINE T == S \cup {tip}
             best == CHOOSE b \in T : \A c \in T : Work[c] <= Work[b]
  <1>1. T \in SUBSET Block /\ T # {}
    BY DEF ChainOK
  <1>2. IsFiniteSet(T)
    BY FS_AddElement
  <1>3. best \in T
    <2> HIDE DEF T
    <2>1. QED
      BY <1>1, <1>2, HeaviestOf
  <1>4. have' = have \cup S /\ tip' \in {best, tip}
    BY DEF Grown
  <1> HIDE DEF best
  <1>5. QED
    BY <1>1, <1>3, <1>4 DEF ChainOK

(* A span is held against its sender only for a bad block in it. *)
LEMMA BanForBad ==
    ASSUME NEW ids \in Seq(Block), VerdictOf(ids) = "ban"
    PROVE  \E k \in DOMAIN ids : ids[k] \in Bad
  <1>1. PICK n \in 0..Len(ids) : n = TakenOf(ids)
    BY TakenSome
  <1>2. n # Len(ids) /\ ids[n + 1] \in Bad
    BY <1>1 DEF VerdictOf
  <1>3. n + 1 \in DOMAIN ids
    BY <1>2
  <1>4. QED
    BY <1>2, <1>3

LEMMA VerdictType ==
    ASSUME NEW ids
    PROVE  VerdictOf(ids) \in Verdicts
  BY DEF VerdictOf, Verdicts

LEMMA InitInv == Init => SyncInv
  <1> SUFFICES ASSUME Init PROVE SyncInv
    OBVIOUS
  <1>1. ChainOK
    <2>1. Known \in SUBSET Block /\ IsFiniteSet(Known) /\ Known # {}
      BY TreeAssumption
    <2>2. (CHOOSE b \in Known : \A c \in Known : Work[c] <= Work[b]) \in Known
      BY <2>1, HeaviestOf
    <2>3. QED
      BY <2>1, <2>2 DEF Init, ChainOK
  <1>2. QueueOK(queue)
    <2>1. /\ DOMAIN EmptyQueue = {"spans", "heights", "applying"}
          /\ DOMAIN EmptyQueue.spans = {} /\ DOMAIN EmptyQueue.heights = {}
      BY DEF EmptyQueue
    <2>2. QueueOK(EmptyQueue)
      BY <2>1, FS_EmptySet DEF QueueOK, Indexed
    <2>3. QED
      BY <2>2 DEF Init
  <1>3. ConnsOK
    <2>1. Down \in ConnRecord
      BY TreeAssumption, SizeAssumption DEF Down, ConnRecord, Request
    <2>2. /\ Down.start = 0 /\ Down.chain = << >> /\ Down.pending = NoRequest
      BY DEF Down
    <2>3. \A p \in Peer : ConnOK(p, Down)
      BY <2>1, <2>2 DEF ConnOK, Segment, Clean, PendingOK, NoRequest
    <2>4. QED
      BY <2>3 DEF Init, ConnsOK
  <1>4. ApplierOK
    BY DEF Init, Idle, ApplierOK, Verdicts
  <1>5. TipsOK
    BY TreeAssumption DEF Init, TipsOK
  <1>6. banned \subseteq Peer \cap Other /\ news \subseteq Up /\ faults \in 0..MaxFaults
    BY SizeAssumption DEF Init
  <1>7. QED
    BY <1>1, <1>2, <1>3, <1>4, <1>5, <1>6 DEF SyncInv

-----------------------------------------------------------------------------
(* A reader thread. *)

LEMMA SetConn ==
    ASSUME ConnsOK, NEW p \in Peer, NEW c, ConnOK(p, c), c.connected,
           conn' = [conn EXCEPT ![p] = c]
    PROVE  ConnsOK' /\ Up \subseteq Up'
  BY DEF ConnsOK, Up

LEMMA StateChanges ==
    ASSUME NEW p, NEW c, ConnOK(p, c), c.connected,
           NEW s \in {"handshake", "synchronizing", "standby", "normal"}
    PROVE  ConnOK(p, [c EXCEPT !.state = s]) /\ [c EXCEPT !.state = s].connected
  <1> DEFINE d == [c EXCEPT !.state = s]
  <1>1. /\ d \in ConnRecord /\ d.connected
        /\ d.start = c.start /\ d.chain = c.chain /\ d.pending = c.pending
    BY DEF ConnOK, ConnRecord
  <1> HIDE DEF d
  <1>2. ConnOK(p, d) /\ d.connected
    BY <1>1 DEF ConnOK
  <1>3. QED
    BY <1>2 DEF d

(* What this node has is dropped from the front of what is known. *)
LEMMA DropSound ==
    ASSUME NEW p, NEW c, ConnOK(p, c), c.connected
    PROVE  /\ ConnOK(p, DropKnown(c)) /\ DropKnown(c).connected
           /\ DropKnown(c).pending = c.pending
  <1> DEFINE T == {n \in 0..Len(c.chain) : \A k \in 1..n : c.chain[k] \in have}
             d == DropKnown(c)
  <1>1. /\ c.chain \in Seq(Block) /\ Len(c.chain) \in Nat /\ c.start \in Nat
        /\ DOMAIN c.chain = 1..Len(c.chain)
    BY DEF ConnOK, Segment
  <1>2. T \in SUBSET (0..Len(c.chain)) /\ 0 \in T
    BY <1>1
  <1>3. Max(T) \in 0..Len(c.chain)
    <2> HIDE DEF T
    <2>1. QED
      BY <1>1, <1>2, MaxUpTo
  <1>4. PICK n \in 0..Len(c.chain) : n = Max(T)
    BY <1>3
  <1> DEFINE rest == SubSeq(c.chain, n + 1, Len(c.chain))
  <1>5. d = [c EXCEPT !.chain = rest, !.start = c.start + n]
    <2> HIDE DEF T
    <2>1. d = [c EXCEPT !.chain = SubSeq(@, Max(T) + 1, Len(@)), !.start = @ + Max(T)]
      BY DEF DropKnown, T
    <2>2. QED
      BY <1>4, <2>1
  <1>6. /\ Segment(c.start + n, rest)
        /\ \A k \in DOMAIN rest : \E j \in DOMAIN c.chain : rest[k] = c.chain[j]
    <2>1. Segment(c.start, c.chain)
      BY DEF ConnOK
    <2>2. n + 1 \in Nat \ {0} /\ Len(c.chain) <= Len(c.chain) /\ n + 1 <= Len(c.chain) + 1
          /\ c.start + (n + 1) - 1 = c.start + n
      BY <1>1
    <2>3. /\ Segment(c.start + (n + 1) - 1, rest)
          /\ DOMAIN rest = 1..(Len(c.chain) - (n + 1) + 1)
          /\ \A k \in 1..(Len(c.chain) - (n + 1) + 1) :
                /\ (n + 1) + k - 1 \in DOMAIN c.chain
                /\ rest[k] = c.chain[(n + 1) + k - 1]
      BY <1>1, <2>1, <2>2, SubSegment
    <2> HIDE DEF rest
    <2>4. QED
      BY <2>2, <2>3
  <1>7. Clean(p, rest)
    <2>1. Clean(p, c.chain)
      BY DEF ConnOK
    <2> HIDE DEF rest
    <2>2. QED
      BY <1>6, <2>1, CleanPart
  <1> HIDE DEF rest
  <1>8. rest \in Seq(Block) /\ c.start + n \in Nat
    BY <1>6 DEF Segment
  <1>9. /\ d \in ConnRecord /\ d.connected
        /\ d.start = c.start + n /\ d.chain = rest /\ d.pending = c.pending
    BY <1>5, <1>8 DEF ConnOK, ConnRecord
  <1> HIDE DEF d
  <1>10. ConnOK(p, d) /\ d.connected /\ d.pending = c.pending
    BY <1>6, <1>7, <1>9 DEF ConnOK
  <1>11. QED
    BY <1>10 DEF d

LEMMA ForgetSound ==
    ASSUME NEW p, NEW c, ConnOK(p, c), c.connected
    PROVE  /\ ConnOK(p, [c EXCEPT !.outdated = FALSE, !.chain = << >>])
           /\ [c EXCEPT !.outdated = FALSE, !.chain = << >>].connected
  <1> DEFINE none == << >>
             d == [c EXCEPT !.outdated = FALSE, !.chain = none]
  <1>0. none \in Seq(Block)
    OBVIOUS
  <1>1. /\ d \in ConnRecord /\ d.connected
        /\ d.start = c.start /\ d.chain = none /\ d.pending = c.pending
    <2> HIDE DEF none
    <2>1. QED
      BY <1>0 DEF ConnOK, ConnRecord
  <1>2. Segment(d.start, d.chain) /\ Clean(p, d.chain)
    BY <1>1 DEF ConnOK, Segment, Clean
  <1> HIDE DEF d
  <1>3. ConnOK(p, d) /\ d.connected
    BY <1>1, <1>2 DEF ConnOK
  <1>4. QED
    BY <1>3 DEF d

(* A history: the last block reserved from the peer, if any, and this node's
   chain back to the genesis block. *)
LEMMA HistorySound ==
    ASSUME ChainOK, NEW q, QueueOK(q), NEW c
    PROVE  /\ LastKnown(q, c) \o Reverse(Path[tip]) \in Seq(Block)
           /\ \E k \in DOMAIN (LastKnown(q, c) \o Reverse(Path[tip])) :
                 (LastKnown(q, c) \o Reverse(Path[tip]))[k] = Genesis
  <1>1. LastKnown(q, c) \in Seq(Block)
    <2> DEFINE mine == {s \in DOMAIN q.spans : q.spans[s].conn = c}
    <2>1. CASE mine = {}
      <3>1. LastKnown(q, c) = << >>
        BY <2>1 DEF LastKnown
      <3>2. QED
        BY <3>1
    <2>2. CASE mine # {}
      <3>1. mine \in SUBSET Nat
        BY DEF QueueOK
      <3>2. IsFiniteSet(mine)
        <4>1. IsFiniteSet(DOMAIN q.spans)
          BY DEF QueueOK
        <4>2. mine \in SUBSET DOMAIN q.spans
          OBVIOUS
        <4>3. QED
          BY <4>1, <4>2, FS_Subset
      <3>3. Max(mine) \in mine
        <4> HIDE DEF mine
        <4>1. QED
          BY <2>2, <3>1, <3>2, MaxIsGreatest
      <3>4. PICK s \in DOMAIN q.spans : s = Max(mine)
        BY <3>3
      <3>5. q.spans[s].ids \in Seq(Block) /\ q.spans[s].ids # << >>
        BY <3>4 DEF QueueOK, SpanOK, Segment
      <3>6. q.spans[s].ids[Len(q.spans[s].ids)] \in Block
        BY <3>5
      <3>7. LastKnown(q, c) = <<q.spans[s].ids[Len(q.spans[s].ids)]>>
        BY <2>2, <3>4 DEF LastKnown, Last
      <3>8. QED
        BY <3>6, <3>7
    <2>3. QED
      BY <2>1, <2>2
  <1>2. /\ Path[tip] \in Seq(Block) /\ Len(Path[tip]) \in Nat \ {0} /\ Path[tip][1] = Genesis
    BY PathTypes, PathInPlace DEF ChainOK, InPlace, TipHeight
  <1> DEFINE back == Reverse(Path[tip])
             n == Len(Path[tip])
  <1>3. back \in Seq(Block) /\ Len(back) = n /\ back[n] = Genesis
    <2>1. back = [i \in 1..n |-> Path[tip][(n - i) + 1]]
      BY DEF Reverse
    <2>2. \A i \in 1..n : Path[tip][(n - i) + 1] \in Block
      BY <1>2
    <2>3. back \in [1..n -> Block]
      BY <2>1, <2>2
    <2>4. back \in Seq(Block) /\ Len(back) = n
      <3> HIDE DEF back
      <3>1. QED
        BY <1>2, <2>3
    <2>5. back[n] = Path[tip][(n - n) + 1]
      BY <1>2, <2>1
    <2>6. QED
      BY <1>2, <2>4, <2>5
  <1> DEFINE last == LastKnown(q, c)
  <1> HIDE DEF back, last
  <1>4. last \in Seq(Block)
    BY <1>1 DEF last
  <1>5. /\ last \o back \in Seq(Block)
        /\ Len(last) + n \in DOMAIN (last \o back)
        /\ (last \o back)[Len(last) + n] = Genesis
    <2> HIDE DEF n
    <2>1. n \in Nat \ {0} /\ Len(last) \in Nat
      BY <1>2, <1>4 DEF n
    <2>2. last \o back \in Seq(Block) /\ Len(last \o back) = Len(last) + n
          /\ (last \o back)[Len(last) + n] = back[n]
      BY <1>3, <1>4, <2>1
    <2>3. DOMAIN (last \o back) = 1..(Len(last) + n)
      BY <2>2
    <2>4. QED
      BY <1>3, <2>1, <2>2, <2>3
  <1>6. QED
    BY <1>5 DEF last, back

LEMMA RequestChainSound ==
    ASSUME ChainOK, ConnsOK, NEW p \in Peer, NEW c, ConnOK(p, c), c.connected,
           NEW q, QueueOK(q), RequestChain(p, c, q)
    PROVE  ConnsOK' /\ Up \subseteq Up' /\ QueueOK(queue')
  <1> DEFINE hist == LastKnown(q, ConnOf(p)) \o Reverse(Path[tip])
             ask == [kind |-> "chain", history |-> hist]
             none == << >>
             d == [c EXCEPT !.pending = ask, !.chain = none, !.state = "synchronizing"]
  <1>1. conn' = [conn EXCEPT ![p] = d] /\ queue' = q
    BY DEF RequestChain
  <1>2. hist \in Seq(Block) /\ \E k \in DOMAIN hist : hist[k] = Genesis
    BY HistorySound
  <1>3. ask \in Request /\ PendingOK(p, ask)
    <2> HIDE DEF hist
    <2>1. QED
      BY <1>2 DEF Request, PendingOK
  <1>4. none \in Seq(Block) /\ Segment(c.start, none) /\ Clean(p, none)
    BY DEF ConnOK, Segment, Clean
  <1> HIDE DEF ask, none
  <1>5. /\ d \in ConnRecord /\ d.connected
        /\ d.start = c.start /\ d.chain = none /\ d.pending = ask
    BY <1>3, <1>4 DEF ConnOK, ConnRecord
  <1> HIDE DEF d
  <1>6. ConnOK(p, d)
    BY <1>3, <1>4, <1>5 DEF ConnOK
  <1>7. QED
    BY <1>1, <1>5, <1>6, SetConn

LEMMA RequestObjectsSound ==
    ASSUME ConnsOK, NEW p \in Peer, NEW c, ConnOK(p, c), c.connected,
           NEW q, NEW span, Segment(span.start, span.ids), Clean(p, span.ids),
           RequestObjects(p, c, q, span)
    PROVE  ConnsOK' /\ Up \subseteq Up' /\ queue' = q
  <1> DEFINE ask == [kind |-> "objects", start |-> span.start, ids |-> span.ids]
             d == [c EXCEPT !.pending = ask, !.state = "synchronizing"]
  <1>1. conn' = [conn EXCEPT ![p] = d] /\ queue' = q
    BY DEF RequestObjects
  <1>2. ask \in Request /\ PendingOK(p, ask)
    BY DEF Request, PendingOK, Segment
  <1> HIDE DEF ask
  <1>3. /\ d \in ConnRecord /\ d.connected
        /\ d.start = c.start /\ d.chain = c.chain /\ d.pending = ask
    BY <1>2 DEF ConnOK, ConnRecord
  <1> HIDE DEF d
  <1>4. ConnOK(p, d)
    BY <1>2, <1>3 DEF ConnOK
  <1>5. QED
    BY <1>1, <1>3, <1>4, SetConn

LEMMA TouchSound ==
    ASSUME NEW q, QueueOK(q), NEW start \in DOMAIN q.spans
    PROVE  QueueOK(Touch(q, start))
  <1> DEFINE i == Touch(q, start)
  <1>1. /\ DOMAIN i = {"spans", "heights", "applying"}
        /\ i.heights = q.heights /\ i.applying = q.applying
        /\ i.spans = [q.spans EXCEPT ![start].age = 0]
    BY DEF Touch, QueueOK
  <1>2. DOMAIN i.spans = DOMAIN q.spans
    BY <1>1
  <1>3. \A s \in DOMAIN q.spans : q.spans[s] \in SpanRecord
    BY DEF QueueOK, SpanOK
  <1>4. ASSUME NEW s \in DOMAIN q.spans
        PROVE  /\ i.spans[s] \in SpanRecord /\ i.spans[s].ids = q.spans[s].ids
               /\ i.spans[s].filled = q.spans[s].filled /\ i.spans[s].conn = q.spans[s].conn
    <2>1. CASE s = start
      <3>1. i.spans[s] = [q.spans[s] EXCEPT !.age = 0]
        BY <1>1, <2>1
      <3>2. QED
        BY <1>3, <3>1 DEF SpanRecord
    <2>2. CASE s # start
      <3>1. i.spans[s] = q.spans[s]
        BY <1>1, <2>2
      <3>2. QED
        BY <1>3, <3>1
    <2>3. QED
      BY <2>1, <2>2
  <1> HIDE DEF i
  <1>5. QueueOK(i)
    BY <1>1, <1>2, <1>4, RelabelSound
  <1>6. QED
    BY <1>5 DEF i

(* The overdue span is one of the queue's, and within what is known of the
   peer's chain. *)
LEMMA SecondSound ==
    ASSUME NEW p \in Peer, NEW c, ConnOK(p, c), NEW q, QueueOK(q),
           SecondRequest(p, c, q) # << >>
    PROVE  \E r : /\ SecondRequest(p, c, q)[1] = r
                  /\ r.start \in DOMAIN q.spans
                  /\ Segment(r.start, r.ids) /\ Clean(p, r.ids)
  <1> DEFINE overdue == {s \in OverdueNext(q, TipHeight(tip), OverdueAfter(c)) :
                            /\ q.spans[s].conn # ConnOf(p)
                            /\ Offers(c, s, q.spans[s].ids)}
             S == {[start |-> s, ids |-> q.spans[s].ids] : s \in overdue}
  <1>1. SecondRequest(p, c, q) = SetToSeq(S)
    BY DEF SecondRequest
  <1>2. S # {}
    <2>1. SUFFICES ASSUME S = {} PROVE FALSE
      OBVIOUS
    <2>2. SetToSeq(S) = CHOOSE f \in [1..Cardinality({}) -> {}] : IsInjective(f)
      BY <2>1 DEF SetToSeq
    <2>3. Cardinality({}) = 0
      BY FS_EmptySet
    <2>4. << >> \in [1..0 -> {}] /\ IsInjective(<< >>)
      BY DEF IsInjective
    <2>5. \A f \in [1..0 -> {}] : f = << >>
      OBVIOUS
    <2>6. QED
      BY <1>1, <2>2, <2>3, <2>4, <2>5
  <1>3. PICK s \in overdue : TRUE
    BY <1>2
  <1>4. /\ \A t \in overdue : t = Min(DOMAIN q.spans)
        /\ s \in DOMAIN q.spans /\ Offers(c, s, q.spans[s].ids)
    BY <1>3 DEF OverdueNext
  <1> DEFINE r == [start |-> s, ids |-> q.spans[s].ids]
  <1>5. S = {r}
    BY <1>3, <1>4
  <1>6. SetToSeq(S)[1] = r
    <2> HIDE DEF r
    <2>1. SetToSeq(S) = CHOOSE f \in [1..Cardinality({r}) -> {r}] : IsInjective(f)
      BY <1>5 DEF SetToSeq
    <2>2. Cardinality({r}) = 1
      BY FS_Singleton
    <2> DEFINE g == [i \in 1..1 |-> r]
    <2>3. g \in [1..1 -> {r}] /\ IsInjective(g)
      BY DEF IsInjective
    <2>4. \A f \in [1..1 -> {r}] : f[1] = r
      OBVIOUS
    <2> HIDE DEF g
    <2>5. QED
      BY <2>1, <2>2, <2>3, <2>4
  <1>7. Segment(s, q.spans[s].ids)
    BY <1>4 DEF QueueOK, SpanOK
  <1>8. Clean(p, q.spans[s].ids)
    <2> DEFINE ids == q.spans[s].ids
               m == s - c.start
    <2>1. /\ Segment(c.start, c.chain) /\ Clean(p, c.chain)
      BY DEF ConnOK
    <2>2. /\ s \in Nat /\ c.start \in Nat /\ ids \in Seq(Block) /\ Len(ids) \in Nat
          /\ DOMAIN ids = 1..Len(ids) /\ Len(c.chain) \in Nat
      BY <1>7, <2>1 DEF Segment
    <2>3. /\ s >= c.start /\ m + Len(ids) <= Len(c.chain)
          /\ SubSeq(c.chain, m + 1, m + Len(ids)) = ids
      BY <1>4 DEF Offers
    <2> HIDE DEF ids
    <2>4. m \in Nat
      BY <2>2, <2>3
    <2> HIDE DEF m
    <2>5. \A k \in 1..((m + Len(ids)) - (m + 1) + 1) :
              /\ (m + 1) + k - 1 \in DOMAIN c.chain
              /\ SubSeq(c.chain, m + 1, m + Len(ids))[k] = c.chain[(m + 1) + k - 1]
      <3>1. m + 1 \in Nat \ {0} /\ m + Len(ids) \in Nat /\ m + 1 <= (m + Len(ids)) + 1
        BY <2>2, <2>4
      <3>2. QED
        BY <2>1, <2>3, <3>1, SubSegment
    <2>6. (m + Len(ids)) - (m + 1) + 1 = Len(ids)
      BY <2>2, <2>4
    <2>7. \A k \in DOMAIN ids : \E j \in DOMAIN c.chain : ids[k] = c.chain[j]
      BY <2>2, <2>3, <2>5, <2>6
    <2>8. QED
      BY <2>1, <2>7, CleanPart DEF ids
  <1>9. r.start = s /\ r.ids = q.spans[s].ids
    OBVIOUS
  <1> HIDE DEF r
  <1>10. QED
    BY <1>1, <1>4, <1>6, <1>7, <1>8, <1>9

LEMMA DownloadSound ==
    ASSUME ConnsOK, NEW p \in Peer, NEW c, ConnOK(p, c), c.connected,
           NEW q, QueueOK(q), Download(p, c, q)
    PROVE  ConnsOK' /\ Up \subseteq Up' /\ QueueOK(queue')
  <1> DEFINE again == SecondRequest(p, c, q)
             first == FirstRequest(c, q)
  <1>1. CASE again # << >> /\ RequestObjects(p, c, Touch(q, again[1].start), again[1])
    <2>1. PICK r : /\ again[1] = r /\ r.start \in DOMAIN q.spans
                   /\ Segment(r.start, r.ids) /\ Clean(p, r.ids)
      BY <1>1, SecondSound
    <2> HIDE DEF again
    <2>2. RequestObjects(p, c, Touch(q, r.start), r)
      BY <1>1, <2>1
    <2>3. ConnsOK' /\ Up \subseteq Up' /\ queue' = Touch(q, r.start)
      BY <2>1, <2>2, RequestObjectsSound
    <2>4. QED
      BY <2>1, <2>3, TouchSound
  <1>2. CASE first # << >> /\ RequestObjects(p, c, Reserve(q, ConnOf(p), first[1]), first[1])
    <2>1. Segment(c.start, c.chain) /\ c.batch \in Nat /\ Clean(p, c.chain)
      BY SizeAssumption DEF ConnOK, ConnRecord
    <2>2. first = Reservation(q, c.start, c.chain, c.batch)
      BY <1>2 DEF FirstRequest
    <2>3. PICK r : first = <<r>> /\ Unasked(q, c.chain, r)
      <3> HIDE DEF first
      <3>1. QED
        BY <1>2, <2>1, <2>2, ReservationSound
    <2> HIDE DEF first
    <2>4. Clean(p, r.ids)
      BY <2>1, <2>3, CleanPart DEF Unasked
    <2>5. RequestObjects(p, c, Reserve(q, ConnOf(p), r), r)
      BY <1>2, <2>3
    <2>6. ConnsOK' /\ Up \subseteq Up' /\ queue' = Reserve(q, ConnOf(p), r)
      BY <2>3, <2>4, <2>5, RequestObjectsSound DEF Unasked
    <2>7. QED
      BY <2>3, <2>6, ReserveSound DEF Unasked
  <1>3. CASE conn' = [conn EXCEPT ![p] = [c EXCEPT !.state = "standby"]] /\ queue' = q
    <2>1. ConnOK(p, [c EXCEPT !.state = "standby"]) /\ [c EXCEPT !.state = "standby"].connected
      BY StateChanges
    <2>2. PICK d : d = [c EXCEPT !.state = "standby"]
      OBVIOUS
    <2>3. QED
      BY <1>3, <2>1, <2>2, SetConn
  <1>4. QED
    BY <1>1, <1>2, <1>3 DEF Download

(* `advance` keeps the queue and every connection sound. *)
LEMMA AdvanceSound ==
    ASSUME ChainOK, ConnsOK, NEW p \in Peer, NEW c, ConnOK(p, c), c.connected,
           NEW q, QueueOK(q), Advance(p, c, q)
    PROVE  ConnsOK' /\ Up \subseteq Up' /\ QueueOK(queue')
  <1>1. CASE conn' = [conn EXCEPT ![p] = c] /\ queue' = q
    BY <1>1, SetConn
  <1> DEFINE c0 == IF c.outdated THEN [c EXCEPT !.outdated = FALSE, !.chain = << >>] ELSE c
             d == DropKnown(c0)
  <1>2. ConnOK(p, c0) /\ c0.connected
    <2>1. CASE c.outdated
      <3>1. c0 = [c EXCEPT !.outdated = FALSE, !.chain = << >>]
        BY <2>1
      <3>2. QED
        BY <3>1, ForgetSound
    <2>2. CASE ~ c.outdated
      BY <2>2
    <2>3. QED
      BY <2>1, <2>2
  <1>3. ConnOK(p, d) /\ d.connected
    <2> HIDE DEF c0
    <2>1. QED
      BY <1>2, DropSound
  <1>4. \/ conn' = [conn EXCEPT ![p] = c] /\ queue' = q
        \/ Download(p, d, q) \/ Settle(p, d, q) \/ RequestChain(p, d, q)
        \/ conn' = [conn EXCEPT ![p] = [d EXCEPT !.state = "standby"]] /\ queue' = q
    BY DEF Advance
  <1> HIDE DEF d
  <1>5. CASE Download(p, d, q)
    BY <1>3, <1>5, DownloadSound
  <1>6. CASE RequestChain(p, d, q)
    BY <1>3, <1>6, RequestChainSound
  <1>7. ASSUME NEW s \in {"handshake", "synchronizing", "standby", "normal"},
               conn' = [conn EXCEPT ![p] = [d EXCEPT !.state = s]], queue' = q
        PROVE  ConnsOK' /\ Up \subseteq Up' /\ QueueOK(queue')
    <2>1. ConnOK(p, [d EXCEPT !.state = s]) /\ [d EXCEPT !.state = s].connected
      BY <1>3, StateChanges
    <2>2. PICK e : e = [d EXCEPT !.state = s]
      OBVIOUS
    <2>3. QED
      BY <1>7, <2>1, <2>2, SetConn
  <1>8. CASE Settle(p, d, q)
    BY <1>7, <1>8 DEF Settle
  <1>9. QED
    BY <1>1, <1>4, <1>5, <1>6, <1>7, <1>8

(* The end of a connection: what it delivered stays queued, under its id. *)
LEMMA EndSound ==
    ASSUME SyncInv, NEW p \in Peer, EndConnection(p),
           banned' \subseteq Peer \cap Other, faults' \in 0..MaxFaults
    PROVE  SyncInv'
  <1>1. ChainOK' /\ TipsOK'
    BY DEF SyncInv, ChainOK, TipsOK, EndConnection
  <1>2. ConnsOK' /\ news' \subseteq Up'
    <2>1. Down \in ConnRecord
      BY TreeAssumption, SizeAssumption DEF Down, ConnRecord, Request
    <2>2. Down.start = 0 /\ Down.chain = << >> /\ Down.pending = NoRequest
      BY DEF Down
    <2>3. ConnOK(p, Down)
      BY <2>1, <2>2 DEF ConnOK, Segment, Clean, PendingOK, NoRequest
    <2>4. conn' = [conn EXCEPT ![p] = Down] /\ news' = news \ {p}
      BY DEF EndConnection
    <2>5. QED
      BY <2>3, <2>4 DEF SyncInv, ConnsOK, Up
  <1>3. QueueOK(queue')
    <2> DEFINE q == Flush(queue, ConnOf(p), FALSE)
               Passes(span) == IF span.conn = ConnOf(p)
                               THEN [span EXCEPT !.conn = Earlier(p)] ELSE span
    <2>1. QueueOK(q)
      BY FlushSound DEF SyncInv
    <2>2. queue' = [q EXCEPT !.spans = [s \in DOMAIN q.spans |-> Passes(q.spans[s])]]
      BY DEF EndConnection
    <2> HIDE DEF q
    <2>3. /\ DOMAIN queue' = {"spans", "heights", "applying"}
          /\ queue'.heights = q.heights /\ queue'.applying = q.applying
          /\ queue'.spans = [s \in DOMAIN q.spans |-> Passes(q.spans[s])]
      BY <2>1, <2>2 DEF QueueOK
    <2>4. ASSUME NEW span \in SpanRecord
          PROVE  /\ Passes(span) \in SpanRecord /\ Passes(span).ids = span.ids
                 /\ Passes(span).filled = span.filled /\ Passes(span).conn[1] = span.conn[1]
      BY ConnOfType DEF SpanRecord
    <2> HIDE DEF Passes
    <2>5. DOMAIN queue'.spans = DOMAIN q.spans
      BY <2>3
    <2>6. ASSUME NEW s \in DOMAIN q.spans
          PROVE  /\ queue'.spans[s] \in SpanRecord /\ queue'.spans[s].ids = q.spans[s].ids
                 /\ queue'.spans[s].filled = q.spans[s].filled
                 /\ queue'.spans[s].conn[1] = q.spans[s].conn[1]
      <3>1. q.spans[s] \in SpanRecord
        BY <2>1 DEF QueueOK, SpanOK
      <3>2. queue'.spans[s] = Passes(q.spans[s])
        BY <2>3
      <3>3. QED
        BY <2>4, <3>1, <3>2
    <2>7. QED
      BY <2>1, <2>3, <2>5, <2>6, RelabelSound
  <1>4. ApplierOK'
    <2>1. applier' = IF applier.conn = ConnOf(p)
                       THEN [applier EXCEPT !.conn = Earlier(p)] ELSE applier
      BY DEF EndConnection
    <2>2. CASE applier.conn = ConnOf(p)
      <3>1. applier' = [applier EXCEPT !.conn = Earlier(p)]
        BY <2>1, <2>2
      <3>2. /\ applier' \in [at : {"wait", "apply", "done", "bump"}, start : Nat, ids : Seq(Block),
                    conn : {<< >>} \cup ConnId, verdict : Verdicts]
            /\ applier'.at = applier.at /\ applier'.ids = applier.ids
            /\ applier'.verdict = applier.verdict /\ applier'.conn = Earlier(p)
        BY <3>1, ConnOfType DEF SyncInv, ApplierOK
      <3>3. applier'.conn \in ConnId /\ applier'.conn[1] = applier.conn[1]
        BY <2>2, <3>2, ConnOfType
      <3>4. QED
        BY <3>2, <3>3 DEF SyncInv, ApplierOK
    <2>3. CASE applier.conn # ConnOf(p)
      BY <2>1, <2>3 DEF SyncInv, ApplierOK
    <2>4. QED
      BY <2>2, <2>3
  <1>5. QED
    BY <1>1, <1>2, <1>3, <1>4 DEF SyncInv

(* A step of a reader that ends in `advance`. *)
LEMMA ReaderStep ==
    ASSUME SyncInv, NEW p \in Peer, NEW c, ConnOK(p, c), c.connected, NEW q, QueueOK(q),
           Advance(p, c, q),
           UNCHANGED <<have, tip, applier, stalled, banned, peerTip, news, trouble, faults>>
    PROVE  SyncInv'
  <1>1. ConnsOK' /\ Up \subseteq Up' /\ QueueOK(queue')
    BY AdvanceSound DEF SyncInv
  <1>2. ChainOK' /\ ApplierOK' /\ TipsOK'
    BY DEF SyncInv, ChainOK, ApplierOK, TipsOK
  <1>3. QED
    BY <1>1, <1>2 DEF SyncInv

-----------------------------------------------------------------------------
(* What peers send. *)

LEMMA PeerChain ==
    ASSUME TipsOK, NEW p \in Peer
    PROVE  /\ Segment(0, Path[peerTip[p]]) /\ Clean(p, Path[peerTip[p]])
           /\ Len(Path[peerTip[p]]) \in Nat \ {0}
           /\ DOMAIN Path[peerTip[p]] = 1..Len(Path[peerTip[p]])
           /\ Path[peerTip[p]][1] = Genesis
           /\ Path[peerTip[p]][Len(Path[peerTip[p]])] = peerTip[p]
  <1>1. peerTip[p] \in Block /\ peerTip[p] \in MovesTo[p] \cup {StartTip[p]}
    BY DEF TipsOK
  <1>2. PICK b \in Block : b = peerTip[p]
    BY <1>1
  <1>3. /\ Path[b] \in Seq(Block) /\ Len(Path[b]) \in Nat \ {0} /\ InPlace(b)
        /\ DOMAIN Path[b] = 1..Len(Path[b])
    BY PathTypes, PathInPlace DEF TipHeight
  <1>4. \A k \in DOMAIN Path[b] : TipHeight(Path[b][k]) = 0 + k
    BY <1>3 DEF InPlace, TipHeight
  <1>5. Segment(0, Path[b])
    BY <1>3, <1>4 DEF Segment
  <1>6. Clean(p, Path[b])
    BY <1>1, <1>2, TreeAssumption DEF Clean, ToSet
  <1>7. Path[b][1] = Genesis /\ Path[b][Len(Path[b])] = b
    BY <1>3 DEF InPlace, TipHeight
  <1>8. QED
    BY <1>2, <1>3, <1>5, <1>6, <1>7

LEMMA ReplySound ==
    ASSUME SyncInv, NEW p \in Peer, conn[p].pending.kind = "chain"
    PROVE  /\ Segment(ChainReply(p).start, ChainReply(p).ids) /\ Clean(p, ChainReply(p).ids)
           /\ ChainReply(p).total \in Nat
  <1> DEFINE history == conn[p].pending.history
             chain == Path[peerTip[p]]
             T == {j \in DOMAIN history : history[j] \in ToSet(chain)}
             k == Min(T)
             from == CHOOSE i \in DOMAIN chain : chain[i] = history[k]
             end == Min({Len(chain), from + ReplyMax - 1})
             ids == SubSeq(chain, from, end)
  <1>1. ChainReply(p) = [start |-> from - 1, total |-> Len(chain), ids |-> ids]
    BY DEF ChainReply
  <1>2. /\ Segment(0, chain) /\ Clean(p, chain) /\ Len(chain) \in Nat \ {0}
        /\ DOMAIN chain = 1..Len(chain) /\ chain[1] = Genesis
    BY PeerChain DEF SyncInv
  <1>3. /\ history \in Seq(Block) /\ \E j \in DOMAIN history : history[j] = Genesis
    BY DEF SyncInv, ConnsOK, ConnOK, ConnRecord, Request, NoRequest, PendingOK
  <1> HIDE DEF history, chain
  <1>4. T \in SUBSET Nat /\ T # {}
    BY <1>2, <1>3 DEF ToSet
  <1>5. k \in T
    <2> HIDE DEF T
    <2>1. QED
      BY <1>4, MinIsLeast
  <1>6. \E i \in DOMAIN chain : chain[i] = history[k]
    <2> HIDE DEF k
    <2>1. QED
      BY <1>5 DEF ToSet
  <1> HIDE DEF k
  <1>7. from \in 1..Len(chain)
    BY <1>2, <1>6
  <1> HIDE DEF from
  <1>8. end \in Nat /\ from <= end /\ end <= Len(chain)
    <2>1. from + ReplyMax - 1 \in Nat /\ from + ReplyMax - 1 >= from /\ Len(chain) \in Nat
          /\ from <= Len(chain) /\ from \in Nat
      BY <1>2, <1>7, SizeAssumption
    <2>2. end = IF Len(chain) <= from + ReplyMax - 1 THEN Len(chain) ELSE from + ReplyMax - 1
      BY <2>1, Pairs
    <2>3. QED
      BY <2>1, <2>2
  <1> HIDE DEF end
  <1>9. /\ Segment(0 + from - 1, ids)
        /\ DOMAIN ids = 1..(end - from + 1)
        /\ \A j \in 1..(end - from + 1) : /\ from + j - 1 \in DOMAIN chain
                                          /\ ids[j] = chain[from + j - 1]
    <2>1. from \in Nat \ {0} /\ from <= end + 1
      BY <1>7, <1>8
    <2>2. QED
      BY <1>2, <1>8, <2>1, SubSegment
  <1> HIDE DEF ids
  <1>10. Clean(p, ids)
    <2>1. \A j \in DOMAIN ids : \E i \in DOMAIN chain : ids[j] = chain[i]
      BY <1>9
    <2>2. QED
      BY <1>2, <2>1, CleanPart
  <1>11. 0 + from - 1 = from - 1
    BY <1>7
  <1>12. QED
    BY <1>1, <1>2, <1>9, <1>10, <1>11

LEMMA ConnectSound ==
    ASSUME SyncInv, NEW p \in Peer, Connect(p)
    PROVE  SyncInv'
  <1> DEFINE c == [Down EXCEPT !.connected = TRUE, !.sync = peerTip[p],
                               !.height = TipHeight(peerTip[p])]
  <1>1. peerTip[p] \in Block /\ TipHeight(peerTip[p]) \in Nat
    BY PathTypes DEF SyncInv, TipsOK
  <1>2. c \in ConnRecord /\ c.connected /\ c.start = 0 /\ c.chain = << >> /\ c.pending = NoRequest
    <2>1. Down \in ConnRecord
      BY TreeAssumption, SizeAssumption DEF Down, ConnRecord, Request
    <2>2. Down.start = 0 /\ Down.chain = << >> /\ Down.pending = NoRequest
      BY DEF Down
    <2>3. QED
      BY <1>1, <2>1, <2>2 DEF ConnRecord
  <1>3. Advance(p, c, queue)
    BY DEF Connect
  <1> HIDE DEF c
  <1>4. ConnOK(p, c)
    BY <1>2 DEF ConnOK, Segment, Clean, PendingOK, NoRequest
  <1>5. UNCHANGED <<have, tip, applier, stalled, banned, peerTip, news, trouble, faults>>
    BY DEF Connect
  <1>6. QueueOK(queue)
    BY DEF SyncInv
  <1>7. QED
    BY <1>2, <1>3, <1>4, <1>5, <1>6, ReaderStep

LEMMA HousekeepingSound ==
    ASSUME SyncInv, NEW p \in Peer, Housekeeping(p)
    PROVE  SyncInv'
  <1>1. PICK c : c = conn[p]
    OBVIOUS
  <1>2. ConnOK(p, c) /\ c.connected /\ QueueOK(queue) /\ Advance(p, c, queue)
    BY <1>1 DEF SyncInv, ConnsOK, Housekeeping, Live
  <1>3. UNCHANGED <<have, tip, applier, stalled, banned, peerTip, news, trouble, faults>>
    BY DEF Housekeeping
  <1>4. QED
    BY <1>2, <1>3, ReaderStep

LEMMA ChainEntrySound ==
    ASSUME SyncInv, NEW p \in Peer, OnChainEntry(p)
    PROVE  SyncInv'
  <1>1. conn[p].connected /\ conn[p].pending.kind = "chain"
    BY DEF OnChainEntry, Live
  <1>2. PICK r : r = ChainReply(p)
    OBVIOUS
  <1>3. Segment(r.start, r.ids) /\ Clean(p, r.ids) /\ r.total \in Nat
    BY <1>1, <1>2, ReplySound
  <1>4. CASE EndConnection(p) /\ UNCHANGED <<banned, faults>>
    BY <1>4, EndSound DEF SyncInv
  <1> DEFINE c == [conn[p] EXCEPT
                      !.pending = NoRequest, !.height = Max({@, r.total}),
                      !.outdated = FALSE, !.chain = r.ids, !.start = r.start,
                      !.mayAsk = ~(ToSet(r.ids) \subseteq have)]
  <1>5. CASE /\ Advance(p, c, queue)
             /\ UNCHANGED <<have, tip, applier, stalled, banned, peerTip, news, trouble, faults>>
    <2>1. conn[p] \in ConnRecord
      BY DEF SyncInv, ConnsOK, ConnOK
    <2>2. conn[p].height \in Nat
      BY <2>1 DEF ConnRecord
    <2>3. PICK h \in Nat : h = Max({conn[p].height, r.total})
      BY <1>3, <2>2, Pairs
    <2>4. PICK may \in BOOLEAN : may = ~(ToSet(r.ids) \subseteq have)
      OBVIOUS
    <2>5. c = [conn[p] EXCEPT !.pending = NoRequest, !.height = h, !.outdated = FALSE,
                              !.chain = r.ids, !.start = r.start, !.mayAsk = may]
      BY <2>3, <2>4
    <2>6. r.ids \in Seq(Block) /\ r.start \in Nat /\ NoRequest \in Request
      BY <1>3 DEF Segment, Request
    <2> HIDE DEF c
    <2>7. /\ c \in ConnRecord /\ c.connected = conn[p].connected
          /\ c.start = r.start /\ c.chain = r.ids /\ c.pending = NoRequest
      BY <2>1, <2>5, <2>6 DEF ConnRecord
    <2>8. ConnOK(p, c)
      BY <1>3, <2>7 DEF ConnOK, PendingOK, NoRequest
    <2>9. QueueOK(queue) /\ c.connected
      BY <1>1, <2>7 DEF SyncInv
    <2>10. QED
      BY <1>5, <2>8, <2>9, ReaderStep
  <1>6. QED
    BY <1>2, <1>4, <1>5 DEF OnChainEntry

LEMMA FilledSound ==
    ASSUME SyncInv, NEW p \in Peer, conn[p].pending.kind = "objects", NEW n
    PROVE  QueueOK(FilledBy(p, n))
  <1>1. PICK asked : asked = conn[p].pending
    OBVIOUS
  <1>2. Segment(asked.start, asked.ids) /\ Clean(p, asked.ids) /\ QueueOK(queue)
    BY <1>1 DEF SyncInv, ConnsOK, ConnOK, PendingOK
  <1>3. CASE Wanted(queue, asked.start, asked.ids, n)
    <2>1. FilledBy(p, n) = Fill(queue, asked.start, asked.ids, n, ConnOf(p))
      BY <1>1, <1>3 DEF FilledBy
    <2>2. PICK start, ids, q : start = asked.start /\ ids = asked.ids /\ q = queue
      OBVIOUS
    <2>3. QueueOK(Fill(q, start, ids, n, ConnOf(p)))
      BY <1>2, <1>3, <2>2, FillSound
    <2>4. QED
      BY <2>1, <2>2, <2>3
  <1>4. CASE ~ Wanted(queue, asked.start, asked.ids, n)
    BY <1>1, <1>2, <1>4 DEF FilledBy
  <1>5. QED
    BY <1>3, <1>4

LEMMA ObjectsSound ==
    ASSUME SyncInv, NEW p \in Peer, NEW n, OnObjects(p, n)
    PROVE  SyncInv'
  <1>1. conn[p].connected /\ conn[p].pending.kind = "objects"
    BY DEF OnObjects, Live
  <1>2. CASE EndConnection(p) /\ UNCHANGED <<banned, faults>>
    BY <1>2, EndSound DEF SyncInv
  <1>3. CASE /\ Advance(p, AfterObjects(p, n), FilledBy(p, n))
             /\ UNCHANGED <<have, tip, applier, stalled, banned, peerTip, news, trouble, faults>>
    <2> DEFINE c == AfterObjects(p, n)
    <2>1. conn[p] \in ConnRecord /\ Segment(conn[p].start, conn[p].chain) /\ Clean(p, conn[p].chain)
      BY DEF SyncInv, ConnsOK, ConnOK
    <2>2. conn[p].height \in Nat /\ conn[p].batch \in DefaultBatch..MaxBatch
      BY <2>1 DEF ConnRecord
    <2>3. TipHeight(peerTip[p]) \in Nat
      BY PathTypes DEF SyncInv, TipsOK
    <2>4. PICK h \in Nat : h = Max({conn[p].height, TipHeight(peerTip[p])})
      BY <2>2, <2>3, Pairs
    <2>5. PICK b \in DefaultBatch..MaxBatch :
             b = IF n = Len(conn[p].pending.ids) THEN Min({2 * conn[p].batch, MaxBatch})
                 ELSE Max({conn[p].batch \div 2, DefaultBatch})
      <3>1. PICK x \in DefaultBatch..MaxBatch : x = conn[p].batch
        BY <2>2
      <3>2. /\ x \in Nat /\ 2 * x \in Nat /\ x \div 2 \in Nat /\ 2 * x >= x /\ x \div 2 <= x
            /\ DefaultBatch \in Nat /\ MaxBatch \in Nat /\ DefaultBatch <= MaxBatch
        BY SizeAssumption
      <3>3. Min({2 * x, MaxBatch}) \in DefaultBatch..MaxBatch
        <4>1. Min({2 * x, MaxBatch}) = IF 2 * x <= MaxBatch THEN 2 * x ELSE MaxBatch
          BY <3>2, Pairs
        <4>2. QED
          BY <3>2, <4>1
      <3>4. Max({x \div 2, DefaultBatch}) \in DefaultBatch..MaxBatch
        <4>1. Max({x \div 2, DefaultBatch}) = IF x \div 2 <= DefaultBatch THEN DefaultBatch ELSE x \div 2
          BY <3>2, Pairs
        <4>2. QED
          BY <3>2, <4>1
      <3>5. QED
        BY <3>1, <3>3, <3>4
    <2>6. c = [conn[p] EXCEPT !.pending = NoRequest, !.height = h, !.batch = b]
      BY <2>4, <2>5 DEF AfterObjects
    <2> HIDE DEF c
    <2>7. /\ c \in ConnRecord /\ c.connected = conn[p].connected
          /\ c.start = conn[p].start /\ c.chain = conn[p].chain /\ c.pending = NoRequest
      BY <2>1, <2>6 DEF ConnRecord, Request
    <2>8. ConnOK(p, c)
      BY <2>1, <2>7 DEF ConnOK, PendingOK, NoRequest
    <2>9. QueueOK(FilledBy(p, n)) /\ c.connected
      BY <1>1, <2>7, FilledSound
    <2>10. Advance(p, c, FilledBy(p, n))
      BY <1>3 DEF c
    <2>11. QED
      BY <1>3, <2>8, <2>9, <2>10, ReaderStep
  <1>4. QED
    BY <1>2, <1>3 DEF OnObjects

(* A connection whose chain and request stay what they are. *)
LEMMA ConnsKept ==
    ASSUME ConnsOK, DOMAIN conn' = Peer,
           \A p \in Peer :
              /\ conn'[p] \in ConnRecord /\ conn'[p].connected = conn[p].connected
              /\ conn'[p].start = conn[p].start /\ conn'[p].chain = conn[p].chain
              /\ conn'[p].pending = conn[p].pending
    PROVE  ConnsOK' /\ Up' = Up
  <1>1. \A p \in Peer : ConnOK(p, conn'[p])
    BY DEF ConnsOK, ConnOK
  <1>2. ConnsOK'
    BY <1>1 DEF ConnsOK
  <1>3. Up' = Up
    BY DEF Up
  <1>4. QED
    BY <1>2, <1>3

LEMMA RecordsTyped ==
    ASSUME ConnsOK
    PROVE  DOMAIN conn = Peer /\ \A p \in Peer : conn[p] \in ConnRecord
  BY DEF ConnsOK, ConnOK

LEMMA TimedSyncSound ==
    ASSUME SyncInv, NEW p \in Peer, TimedSync(p)
    PROVE  SyncInv'
  <1>1. peerTip[p] \in Block /\ TipHeight(peerTip[p]) \in Nat
    BY PathTypes DEF SyncInv, TipsOK
  <1>2. PICK b \in Block, h \in Nat : b = peerTip[p] /\ h = TipHeight(peerTip[p])
    BY <1>1
  <1>3. conn' = [conn EXCEPT ![p].sync = b, ![p].height = h]
    BY <1>2 DEF TimedSync
  <1>4. DOMAIN conn = Peer /\ \A r \in Peer : conn[r] \in ConnRecord
    BY RecordsTyped DEF SyncInv
  <1>5. ConnsOK' /\ Up' = Up
    <2>1. DOMAIN conn' = Peer
      BY <1>3, <1>4
    <2>2. conn'[p] = [conn[p] EXCEPT !.sync = b, !.height = h]
      BY <1>3, <1>4
    <2>3. \A r \in Peer \ {p} : conn'[r] = conn[r]
      BY <1>3, <1>4
    <2>4. /\ conn'[p] \in ConnRecord /\ conn'[p].connected = conn[p].connected
          /\ conn'[p].start = conn[p].start /\ conn'[p].chain = conn[p].chain
          /\ conn'[p].pending = conn[p].pending
      BY <1>4, <2>2 DEF ConnRecord
    <2>5. QED
      BY <1>4, <2>1, <2>3, <2>4, ConnsKept DEF SyncInv
  <1>6. UNCHANGED <<have, tip, queue, applier, banned, peerTip, news, faults>>
    BY DEF TimedSync
  <1>7. QED
    BY <1>5, <1>6 DEF SyncInv, ChainOK, ApplierOK, TipsOK

LEMMA NewBlockSound ==
    ASSUME SyncInv, NEW p \in Peer, OnNewBlock(p)
    PROVE  SyncInv'
  <1> DEFINE ids == <<peerTip[p]>>
  <1>1. peerTip[p] \in Block /\ TipHeight(peerTip[p]) \in Nat
    BY PathTypes DEF SyncInv, TipsOK
  <1>2. ids \in Seq(Block)
    BY <1>1
  <1>3. conn[p] \in ConnRecord /\ conn[p].connected
    BY RecordsTyped DEF SyncInv, OnNewBlock, Live
  <1>4. PICK h \in Nat : h = Max({conn[p].height, TipHeight(peerTip[p])})
    BY <1>1, <1>3, Pairs DEF ConnRecord
  <1>5. PICK c : c = [conn[p] EXCEPT !.height = h]
    OBVIOUS
  <1>6. c = [conn[p] EXCEPT !.height = Max({@, TipHeight(peerTip[p])})]
    BY <1>4, <1>5
  <1>7. /\ c \in ConnRecord /\ c.connected
        /\ c.start = conn[p].start /\ c.chain = conn[p].chain /\ c.pending = conn[p].pending
    BY <1>3, <1>5 DEF ConnRecord
  <1>8. ConnOK(p, c)
    BY <1>7 DEF SyncInv, ConnsOK, ConnOK
  <1>9. UNCHANGED peerTip
    BY DEF OnNewBlock
  <1>10. TipsOK'
    BY <1>9 DEF SyncInv, TipsOK
  <1>11. CASE /\ UNCHANGED <<have, tip, conn, queue>> /\ news' = news \ {p}
              /\ UNCHANGED <<applier, askComplement, banned, faults>>
    BY <1>10, <1>11 DEF SyncInv, ChainOK, ApplierOK, ConnsOK, Up
  <1>12. CASE /\ Grown({ids[k] : k \in 1..TakenOf(ids)})
              /\ conn' = [conn EXCEPT ![p] = c] /\ news' = news \ {p}
              /\ UNCHANGED <<queue, applier, askComplement, banned, faults>>
    <2>1. ChainOK'
      BY <1>2, <1>12, TakenSome, GrownSound DEF SyncInv
    <2>2. ConnsOK' /\ Up \subseteq Up'
      BY <1>7, <1>8, <1>12, SetConn DEF SyncInv
    <2>3. QED
      BY <1>10, <1>12, <2>1, <2>2 DEF SyncInv, ApplierOK
  <1>13. CASE /\ RequestChain(p, c, queue) /\ news' = news \ {p}
              /\ UNCHANGED <<have, tip, applier, askComplement, banned, faults>>
    <2>1. ConnsOK' /\ Up \subseteq Up' /\ QueueOK(queue')
      BY <1>7, <1>8, <1>13, RequestChainSound DEF SyncInv
    <2>2. ChainOK' /\ ApplierOK'
      BY <1>13 DEF SyncInv, ChainOK, ApplierOK
    <2>3. QED
      BY <1>10, <1>13, <2>1, <2>2 DEF SyncInv
  <1>14. CASE /\ VerdictOf(ids) = "ban" /\ EndConnection(p)
              /\ banned' = banned \cup {p} /\ UNCHANGED faults
    <2>1. peerTip[p] \in Bad
      <3>1. PICK k \in DOMAIN ids : ids[k] \in Bad
        BY <1>2, <1>14, BanForBad
      <3>2. k = 1
        OBVIOUS
      <3>3. QED
        BY <3>1, <3>2
    <2>2. p \in Other
      <3>1. Clean(p, Path[peerTip[p]])
        BY PeerChain DEF SyncInv
      <3>2. \E k \in DOMAIN Path[peerTip[p]] : Path[peerTip[p]][k] = peerTip[p]
        BY PeerChain DEF SyncInv
      <3>3. QED
        BY <2>1, <3>1, <3>2 DEF Clean
    <2>3. banned' \subseteq Peer \cap Other /\ faults' \in 0..MaxFaults
      BY <1>14, <2>2 DEF SyncInv
    <2>4. QED
      BY <1>14, <2>3, EndSound
  <1>15. QED
    BY <1>6, <1>11, <1>12, <1>13, <1>14 DEF OnNewBlock

LEMMA PeerMovesSound ==
    ASSUME SyncInv, NEW p \in Peer, NEW b \in MovesTo[p], PeerMoves(p, b)
    PROVE  SyncInv'
  <1>1. TipsOK'
    BY TreeAssumption DEF SyncInv, TipsOK, PeerMoves
  <1>2. ChainOK' /\ ApplierOK' /\ ConnsOK' /\ QueueOK(queue') /\ Up' = Up
    BY DEF SyncInv, ChainOK, ApplierOK, ConnsOK, Up, PeerMoves
  <1>3. banned' \subseteq Peer \cap Other /\ news' \subseteq Up' /\ faults' \in 0..MaxFaults
    <2>1. news' \subseteq Up
      BY DEF SyncInv, PeerMoves, Up
    <2>2. QED
      BY <1>2, <2>1 DEF SyncInv, PeerMoves
  <1>4. QED
    BY <1>1, <1>2, <1>3 DEF SyncInv

-----------------------------------------------------------------------------
(* The applier. *)

LEMMA TakeNextSound ==
    ASSUME SyncInv, TakeNext
    PROVE  SyncInv'
  <1>1. PICK q : q = Trimmed(queue, have)
    OBVIOUS
  <1>2. QueueOK(q)
    BY <1>1, TrimmedSound DEF SyncInv
  <1>3. UNCHANGED <<have, tip, conn, banned, peerTip, news, faults>>
    BY DEF TakeNext
  <1>4. ChainOK' /\ ConnsOK' /\ TipsOK' /\ Up' = Up
    BY <1>3 DEF SyncInv, ChainOK, ConnsOK, TipsOK, Up
  <1>5. QueueOK(queue') /\ ApplierOK'
    <2>1. CASE /\ Takes(q, TipHeight(tip)) /\ queue' = Take(q)
               /\ applier' = [at |-> "apply", start |-> Min(DOMAIN q.spans),
                              ids |-> q.spans[Min(DOMAIN q.spans)].ids,
                              conn |-> q.spans[Min(DOMAIN q.spans)].conn, verdict |-> "none"]
      <3>1. /\ QueueOK(Take(q)) /\ Min(DOMAIN q.spans) \in DOMAIN q.spans
            /\ q.spans[Min(DOMAIN q.spans)].filled
        BY <1>2, <2>1, TakeSound
      <3>2. PICK s \in DOMAIN q.spans : s = Min(DOMAIN q.spans)
        BY <3>1
      <3>3. s \in Nat /\ SpanOK(s, q.spans[s]) /\ q.spans[s].filled
        BY <1>2, <3>1, <3>2 DEF QueueOK
      <3>4. /\ q.spans[s].ids \in Seq(Block) /\ q.spans[s].conn \in ConnId
            /\ Clean(q.spans[s].conn[1], q.spans[s].ids)
        BY <3>3 DEF SpanOK, SpanRecord
      <3>5. applier' = [at |-> "apply", start |-> s, ids |-> q.spans[s].ids,
                        conn |-> q.spans[s].conn, verdict |-> "none"]
        BY <2>1, <3>2
      <3>6. ApplierOK'
        BY <3>3, <3>4, <3>5 DEF ApplierOK, Verdicts
      <3>7. QED
        BY <2>1, <3>1, <3>6
    <2>2. CASE queue' = q /\ UNCHANGED applier
      BY <1>2, <2>2 DEF SyncInv, ApplierOK
    <2>3. QED
      BY <1>1, <2>1, <2>2 DEF TakeNext
  <1>6. QED
    BY <1>3, <1>4, <1>5 DEF SyncInv

LEMMA ApplyBlocksSound ==
    ASSUME SyncInv, ApplyBlocks
    PROVE  SyncInv'
  <1>1. PICK ids \in Seq(Block) : ids = applier.ids
    BY DEF SyncInv, ApplierOK
  <1>2. ChainOK'
    BY <1>1, TakenSome, GrownSound DEF SyncInv, ApplyBlocks
  <1>3. applier.conn \in ConnId /\ Clean(applier.conn[1], ids)
    BY <1>1 DEF SyncInv, ApplierOK, ApplyBlocks
  <1>4. PICK v \in Verdicts : v = VerdictOf(ids)
    BY VerdictType
  <1>5. v = "ban" => applier.conn[1] \in Other
    BY <1>3, <1>4, BanForBad DEF Clean
  <1>6. applier' = [applier EXCEPT !.at = "done", !.verdict = v]
    BY <1>1, <1>4 DEF ApplyBlocks
  <1>7. ApplierOK'
    <2>1. /\ applier' \in [at : {"wait", "apply", "done", "bump"}, start : Nat, ids : Seq(Block),
                           conn : {<< >>} \cup ConnId, verdict : Verdicts]
          /\ applier'.ids = applier.ids /\ applier'.conn = applier.conn /\ applier'.verdict = v
      BY <1>6 DEF SyncInv, ApplierOK
    <2>2. QED
      BY <1>1, <1>3, <1>5, <2>1 DEF ApplierOK
  <1>8. UNCHANGED <<queue, conn, banned, peerTip, news, faults>>
    BY DEF ApplyBlocks
  <1>9. ConnsOK' /\ TipsOK' /\ Up' = Up
    BY <1>8 DEF SyncInv, ConnsOK, TipsOK, Up
  <1>10. QED
    BY <1>2, <1>7, <1>8, <1>9 DEF SyncInv

LEMMA OutdateSound ==
    ASSUME ConnsOK, Outdate
    PROVE  ConnsOK' /\ Up' = Up
  <1>1. DOMAIN conn = Peer /\ \A p \in Peer : conn[p] \in ConnRecord
    BY RecordsTyped
  <1>2. DOMAIN conn' = Peer
    BY DEF Outdate
  <1>3. ASSUME NEW p \in Peer
        PROVE  /\ conn'[p] \in ConnRecord /\ conn'[p].connected = conn[p].connected
               /\ conn'[p].start = conn[p].start /\ conn'[p].chain = conn[p].chain
               /\ conn'[p].pending = conn[p].pending
    <2>1. conn'[p] = [conn[p] EXCEPT !.outdated = conn[p].connected]
      BY DEF Outdate
    <2>2. QED
      BY <1>1, <2>1 DEF ConnRecord
  <1>4. QED
    BY <1>2, <1>3, ConnsKept

LEMMA CloseSound ==
    ASSUME ConnsOK, NEW p \in Peer, NEW closed \in BOOLEAN,
           conn' = [conn EXCEPT ![p].closed = closed]
    PROVE  ConnsOK' /\ Up' = Up
  <1>1. DOMAIN conn = Peer /\ \A r \in Peer : conn[r] \in ConnRecord
    BY RecordsTyped
  <1>2. DOMAIN conn' = Peer
    BY <1>1
  <1>3. conn'[p] = [conn[p] EXCEPT !.closed = closed]
    BY <1>1
  <1>4. \A r \in Peer \ {p} : conn'[r] = conn[r]
    BY <1>1
  <1>5. /\ conn'[p] \in ConnRecord /\ conn'[p].connected = conn[p].connected
        /\ conn'[p].start = conn[p].start /\ conn'[p].chain = conn[p].chain
        /\ conn'[p].pending = conn[p].pending
    BY <1>1, <1>3 DEF ConnRecord
  <1>6. QED
    BY <1>1, <1>2, <1>4, <1>5, ConnsKept

LEMMA IdleSound ==
    ASSUME applier' = Idle \/ applier' = [Idle EXCEPT !.at = "bump"]
    PROVE  ApplierOK'
  <1>1. PICK at \in {"wait", "bump"} :
           applier' = [at |-> at, start |-> 0, ids |-> << >>, conn |-> << >>, verdict |-> "none"]
    BY DEF Idle
  <1>2. /\ DOMAIN applier' = {"at", "start", "ids", "conn", "verdict"}
        /\ applier'.at = at /\ applier'.start = 0 /\ applier'.ids = << >>
        /\ applier'.conn = << >> /\ applier'.verdict = "none"
    BY <1>1
  <1>3. << >> \in Seq(Block)
    OBVIOUS
  <1>4. applier' \in [at : {"wait", "apply", "done", "bump"}, start : Nat, ids : Seq(Block),
                      conn : {<< >>} \cup ConnId, verdict : Verdicts]
    BY <1>1, <1>3, Zenon DEF Verdicts
  <1>5. QED
    BY <1>2, <1>4 DEF ApplierOK

LEMMA DoneSound ==
    ASSUME SyncInv, Done
    PROVE  SyncInv'
  <1>1. applier.at = "done"
    BY DEF Done
  <1>2. UNCHANGED <<have, tip, peerTip, news>>
    BY DEF Done
  <1>3. ChainOK' /\ TipsOK'
    BY <1>2 DEF SyncInv, ChainOK, TipsOK
  <1>4. PICK sender \in Peer : sender = applier.conn[1]
    BY <1>1 DEF SyncInv, ApplierOK, ConnId
  <1>5. PICK q : q = Applied(queue, applier.ids)
    OBVIOUS
  <1>6. QueueOK(q) /\ QueueOK(Clear(q)) /\ QueueOK(Flush(q, applier.conn, TRUE))
    BY <1>5, AppliedSound, ClearSound, FlushSound DEF SyncInv
  <1>8. ASSUME applier' = Idle PROVE ApplierOK'
    BY <1>8, IdleSound
  <1>9. CASE /\ queue' = q /\ applier' = Idle /\ UNCHANGED <<conn, banned, faults>>
    <2>1. ConnsOK' /\ Up' = Up
      BY <1>9 DEF SyncInv, ConnsOK, Up
    <2>2. QED
      BY <1>2, <1>3, <1>6, <1>8, <1>9, <2>1 DEF SyncInv
  <1>10. CASE queue' = Clear(q) /\ applier' = Idle /\ Outdate /\ UNCHANGED <<faults, banned>>
    <2>1. ConnsOK' /\ Up' = Up
      BY <1>10, OutdateSound DEF SyncInv
    <2>2. QED
      BY <1>2, <1>3, <1>6, <1>8, <1>10, <2>1 DEF SyncInv
  <1>11. CASE /\ queue' = Clear(q) /\ faults < MaxFaults /\ faults' = faults + 1
              /\ applier' = [Idle EXCEPT !.at = "bump"] /\ UNCHANGED <<conn, banned>>
    <2>1. ConnsOK' /\ Up' = Up
      BY <1>11 DEF SyncInv, ConnsOK, Up
    <2>2. ApplierOK'
      BY <1>11, IdleSound
    <2>3. faults' \in 0..MaxFaults
      BY <1>11, SizeAssumption DEF SyncInv
    <2>4. QED
      BY <1>2, <1>3, <1>6, <1>11, <2>1, <2>2, <2>3 DEF SyncInv
  <1>12. CASE /\ applier.verdict = "ban" /\ queue' = Flush(q, applier.conn, TRUE)
              /\ applier' = Idle /\ banned' = banned \cup {sender}
              /\ conn' = [conn EXCEPT ![sender].closed = conn[sender].connected]
              /\ UNCHANGED faults
    <2>1. sender \in Other
      BY <1>4, <1>12 DEF SyncInv, ApplierOK
    <2>2. conn[sender].connected \in BOOLEAN
      BY RecordsTyped DEF SyncInv, ConnRecord
    <2>3. ConnsOK' /\ Up' = Up
      BY <1>12, <2>2, CloseSound DEF SyncInv
    <2>4. banned' \subseteq Peer \cap Other
      BY <1>12, <2>1 DEF SyncInv
    <2>5. QED
      BY <1>2, <1>3, <1>6, <1>8, <1>12, <2>3, <2>4 DEF SyncInv
  <1>13. CASE /\ queue' = Flush(q, applier.conn, TRUE) /\ applier' = Idle
              /\ conn' = [conn EXCEPT ![sender].closed = @ \/ applier.conn = ConnOf(sender)]
              /\ UNCHANGED <<banned, faults>>
    <2>1. conn[sender].closed \in BOOLEAN
      BY RecordsTyped DEF SyncInv, ConnRecord
    <2>2. PICK closed \in BOOLEAN :
             closed = (conn[sender].closed \/ applier.conn = ConnOf(sender))
      BY <2>1
    <2>3. conn' = [conn EXCEPT ![sender].closed = closed]
      BY <1>13, <2>2
    <2>4. ConnsOK' /\ Up' = Up
      BY <2>3, CloseSound DEF SyncInv
    <2>5. QED
      BY <1>2, <1>3, <1>6, <1>8, <1>13, <2>4 DEF SyncInv
  <1>14. QED
    BY <1>4, <1>5, <1>9, <1>10, <1>11, <1>12, <1>13 DEF Done

LEMMA BumpSound ==
    ASSUME SyncInv, Bump
    PROVE  SyncInv'
  <1>1. ConnsOK' /\ Up' = Up
    BY OutdateSound DEF SyncInv, Bump
  <1>3. ApplierOK'
    BY IdleSound DEF Bump
  <1>4. UNCHANGED <<have, tip, queue, banned, peerTip, news, faults>>
    BY DEF Bump
  <1>5. QED
    BY <1>1, <1>3, <1>4 DEF SyncInv, ChainOK, TipsOK

(* Time passes: requests grow older, peers may be asked again. *)
LEMMA TickSound ==
    ASSUME SyncInv, Tick
    PROVE  SyncInv'
  <1>1. queue' = [queue EXCEPT !.spans = [s \in DOMAIN queue.spans |-> Older(queue.spans[s])]]
    BY DEF Tick
  <1>2. ASSUME NEW span \in SpanRecord
        PROVE  /\ Older(span) \in SpanRecord /\ Older(span).ids = span.ids
               /\ Older(span).filled = span.filled /\ Older(span).conn = span.conn
    <2>1. span.age \in Nat /\ NextAfter \in Nat
      BY SizeAssumption DEF SpanRecord
    <2>2. PICK a \in Nat : a = Min({NextAfter, span.age + 1})
      BY <2>1, Pairs
    <2>3. Older(span) = IF span.filled THEN span ELSE [span EXCEPT !.age = a]
      BY <2>2 DEF Older
    <2>4. QED
      BY <2>3 DEF SpanRecord
  <1>3. QueueOK(queue')
    <2>1. QueueOK(queue)
      BY DEF SyncInv
    <2>2. /\ DOMAIN queue' = {"spans", "heights", "applying"}
          /\ queue'.heights = queue.heights /\ queue'.applying = queue.applying
          /\ queue'.spans = [s \in DOMAIN queue.spans |-> Older(queue.spans[s])]
      BY <1>1, <2>1 DEF QueueOK
    <2>3. DOMAIN queue'.spans = DOMAIN queue.spans
      BY <2>2
    <2>4. ASSUME NEW s \in DOMAIN queue.spans
          PROVE  /\ queue'.spans[s] \in SpanRecord /\ queue'.spans[s].ids = queue.spans[s].ids
                 /\ queue'.spans[s].filled = queue.spans[s].filled
                 /\ queue'.spans[s].conn[1] = queue.spans[s].conn[1]
      <3>1. queue.spans[s] \in SpanRecord
        BY <2>1 DEF QueueOK, SpanOK
      <3>2. queue'.spans[s] = Older(queue.spans[s])
        BY <2>2
      <3>3. QED
        BY <1>2, <3>1, <3>2
    <2>5. QED
      BY <2>1, <2>2, <2>3, <2>4, RelabelSound
  <1>4. ConnsOK' /\ Up' = Up
    <2>1. DOMAIN conn = Peer /\ \A p \in Peer : conn[p] \in ConnRecord
      BY RecordsTyped DEF SyncInv
    <2>2. DOMAIN conn' = Peer
      BY DEF Tick
    <2>3. ASSUME NEW p \in Peer
          PROVE  /\ conn'[p] \in ConnRecord /\ conn'[p].connected = conn[p].connected
                 /\ conn'[p].start = conn[p].start /\ conn'[p].chain = conn[p].chain
                 /\ conn'[p].pending = conn[p].pending
      <3>1. conn'[p] = [conn[p] EXCEPT !.mayAsk = TRUE]
        BY DEF Tick
      <3>2. QED
        BY <2>1, <3>1 DEF ConnRecord
    <2>4. QED
      BY <2>2, <2>3, ConnsKept DEF SyncInv
  <1>5. UNCHANGED <<have, tip, applier, banned, peerTip, news, faults>>
    BY DEF Tick
  <1>6. QED
    BY <1>3, <1>4, <1>5 DEF SyncInv, ChainOK, ApplierOK, TipsOK

-----------------------------------------------------------------------------
LEMMA NextInv == SyncInv /\ [Next]_vars => SyncInv'
  <1> SUFFICES ASSUME SyncInv, [Next]_vars PROVE SyncInv'
    OBVIOUS
  <1>1. ASSUME NEW p \in Peer, Connect(p) \/ Reader(p) \/ Answer(p) \/ TimedSync(p)
                                 \/ OnNewBlock(p) \/ Lose(p) \/ \E b \in MovesTo[p] : PeerMoves(p, b)
        PROVE  SyncInv'
    <2>1. CASE Connect(p)
      BY <2>1, ConnectSound
    <2>2. CASE Housekeeping(p)
      BY <2>2, HousekeepingSound
    <2>3. CASE NoticeClosed(p)
      BY <2>3, EndSound DEF NoticeClosed, SyncInv
    <2>4. CASE OnChainEntry(p)
      BY <2>4, ChainEntrySound
    <2>5. CASE \E n \in 1..MaxBatch : OnObjects(p, n)
      BY <2>5, ObjectsSound
    <2>6. CASE TimedSync(p)
      BY <2>6, TimedSyncSound
    <2>7. CASE OnNewBlock(p)
      BY <2>7, NewBlockSound
    <2>8. CASE Lose(p)
      <3>1. banned' \subseteq Peer \cap Other /\ faults' \in 0..MaxFaults
        BY <2>8, SizeAssumption DEF Lose, SyncInv
      <3>2. QED
        BY <2>8, <3>1, EndSound DEF Lose
    <2>9. CASE \E b \in MovesTo[p] : PeerMoves(p, b)
      BY <2>9, PeerMovesSound
    <2>10. QED
      BY <1>1, <2>1, <2>2, <2>3, <2>4, <2>5, <2>6, <2>7, <2>8, <2>9 DEF Reader, Answer
  <1>2. CASE Applier
    BY <1>2, TakeNextSound, ApplyBlocksSound, DoneSound, BumpSound DEF Applier
  <1>3. CASE Tick
    BY <1>3, TickSound
  <1>4. CASE Retry \/ TroubleStarts \/ TroubleEnds \/ UNCHANGED vars
    <2>1. UNCHANGED <<have, tip, queue, conn, applier, banned, peerTip, news>>
      BY <1>4 DEF Retry, TroubleStarts, TroubleEnds, vars
    <2>2. faults' \in 0..MaxFaults
      BY <1>4, SizeAssumption DEF Retry, TroubleStarts, TroubleEnds, vars, SyncInv
    <2>3. QED
      BY <2>1, <2>2 DEF SyncInv, ChainOK, ConnsOK, ApplierOK, TipsOK, Up
  <1>5. QED
    BY <1>1, <1>2, <1>3, <1>4 DEF Next

LEMMA SyncAlways == Spec => []SyncInv
  BY InitInv, NextInv, PTL DEF Spec

(* Between any two calls of any thread the tables of the BlockQueue agree:
   every id asked for is in one span, at the height the index gives, and not
   with the applier as well; and every part of the state has its type. *)
THEOREM QueueSoundHolds == Spec => []QueueSound
  <1>1. SyncInv => QueueSound
    BY InvImplies
  <1>2. QED
    BY <1>1, SyncAlways, PTL

(* Whatever is asked of two peers, delivered late or twice, or overtaken by a
   flush, `drain_queue` and on_new_block ban only peers that have sent a block
   the chain refuses, never one that follows this node's rules. *)
THEOREM BansDeservedHolds == Spec => []BansDeserved
  <1>1. SyncInv => BansDeserved
    BY InvImplies
  <1>2. QED
    BY <1>1, SyncAlways, PTL
=============================================================================
