----------------------------- MODULE NodeProofs -----------------------------
(***************************************************************************)
(* Proofs about Node and the pool's operators (TxPool), for every block    *)
(* tree and every set of transactions.                                     *)
(***************************************************************************)
EXTENDS Node, ChainRefinement, FiniteSetTheorems

-----------------------------------------------------------------------------
(* The weight of a set of transactions. *)

(* The recursion by which WeightOf(S) is defined, and what solves it. *)
Summed(g, s) == IF s = {} THEN 0 ELSE Weight[CHOOSE x \in s : TRUE] + g[s \ {CHOOSE x \in s : TRUE}]

Sums(S) == {g \in [SUBSET S -> Nat] : \A s \in SUBSET S : g[s] = Summed(g, s)}

LEMMA WeightOfChoice ==
    ASSUME NEW S
    PROVE  WeightOf(S) = (CHOOSE g : g = [s \in SUBSET S |-> Summed(g, s)])[S]
  BY DEF WeightOf, MapThenSumSet, MapThenFoldSet, Summed

LEMMA Sizes ==
    ASSUME NEW s \in SUBSET Tx
    PROVE  /\ IsFiniteSet(s) /\ Cardinality(s) \in Nat /\ Cardinality(s) <= Cardinality(Tx)
           /\ \A x \in s : Cardinality(s \ {x}) = Cardinality(s) - 1 /\ Cardinality(s \ {x}) \in Nat
           /\ Cardinality(s) = 0 <=> s = {}
  <1>1. IsFiniteSet(s) /\ Cardinality(s) \in Nat /\ Cardinality(s) <= Cardinality(Tx)
    BY InputAssumption, FS_Subset, FS_CardinalityType
  <1>2. ASSUME NEW x \in s PROVE Cardinality(s \ {x}) = Cardinality(s) - 1 /\ Cardinality(s \ {x}) \in Nat
    <2>1. IsFiniteSet(s \ {x}) /\ Cardinality(s \ {x}) = Cardinality(s) - 1
      BY <1>1, FS_RemoveElement
    <2>2. QED
      BY <2>1, FS_CardinalityType
  <1>3. Cardinality(s) = 0 <=> s = {}
    BY <1>1, FS_EmptySet
  <1>4. QED
    BY <1>1, <1>2, <1>3

(* Among some sets of transactions there is a smallest: what the inductions
   over sets rest on. *)
LEMMA SmallestSet ==
    ASSUME NEW C \in SUBSET (SUBSET Tx), C # {}
    PROVE  \E s \in C : \A t \in C : Cardinality(s) <= Cardinality(t)
  <1> DEFINE T == {Cardinality(s) : s \in C}
  <1>1. T \in SUBSET Nat /\ T # {}
    BY Sizes
  <1>2. PICK n \in T : \A y \in T : n <= y
    <2> HIDE DEF T
    <2>1. QED
      BY <1>1, LeastNatural
  <1>3. QED
    BY <1>2

UpToSize(n) == {s \in SUBSET Tx : Cardinality(s) <= n}

SumsTo(n) == {g \in [UpToSize(n) -> Nat] : \A s \in UpToSize(n) : g[s] = Summed(g, s)}

LEMMA Chosen == \A s : s # {} => (CHOOSE x \in s : TRUE) \in s
  OBVIOUS

LEMMA SumsExist == \A n \in Nat : SumsTo(n) # {}
  <1> SUFFICES ASSUME NEW k \in Nat, SumsTo(k) = {} PROVE FALSE
    OBVIOUS
  <1>1. PICK n \in Nat : SumsTo(n) = {} /\ \A m \in Nat : SumsTo(m) = {} => n <= m
    <2> DEFINE T == {n \in Nat : SumsTo(n) = {}}
    <2>1. T \in SUBSET Nat /\ T # {}
      OBVIOUS
    <2> HIDE DEF T
    <2>2. PICK n \in T : \A m \in T : n <= m
      BY <2>1, LeastNatural
    <2>3. QED
      BY <2>2 DEF T
  <1>2. CASE n = 0
    <2> DEFINE g == [s \in UpToSize(0) |-> 0]
    <2>1. \A s \in UpToSize(0) : s = {}
      <3> SUFFICES ASSUME NEW s \in SUBSET Tx, Cardinality(s) <= 0 PROVE s = {}
        BY DEF UpToSize
      <3>1. QED
        BY Sizes
    <2>2. g \in [UpToSize(0) -> Nat] /\ \A s \in UpToSize(0) : g[s] = Summed(g, s)
      BY <2>1 DEF Summed
    <2>3. g \in SumsTo(0)
      BY <2>2 DEF SumsTo
    <2>4. QED
      BY <1>1, <1>2, <2>3
  <1>3. CASE n # 0
    <2>1. n - 1 \in Nat /\ ~ (n <= n - 1)
      BY <1>3
    <2>2. PICK h \in SumsTo(n - 1) : TRUE
      BY <1>1, <2>1
    <2>3. /\ h \in [UpToSize(n - 1) -> Nat] /\ \A s \in UpToSize(n - 1) : h[s] = Summed(h, s)
      BY DEF SumsTo
    <2> DEFINE c(s) == CHOOSE x \in s : TRUE
               g == [s \in UpToSize(n) |-> IF s \in UpToSize(n - 1) THEN h[s]
                                           ELSE Weight[c(s)] + h[s \ {c(s)}]]
    <2>4. ASSUME NEW s \in UpToSize(n), s # {} PROVE s \ {c(s)} \in UpToSize(n - 1) /\ c(s) \in Tx
      <3>1. c(s) \in s /\ s \in SUBSET Tx /\ Cardinality(s) <= n
        BY <2>4, Chosen DEF UpToSize
      <3> HIDE DEF c
      <3>2. Cardinality(s \ {c(s)}) = Cardinality(s) - 1 /\ Cardinality(s) \in Nat
        BY <3>1, Sizes
      <3>3. QED
        BY <3>1, <3>2 DEF UpToSize
    <2>5. {} \in UpToSize(n - 1) /\ UpToSize(n - 1) \subseteq UpToSize(n)
      <3>1. Cardinality({}) = 0
        BY FS_EmptySet
      <3>2. \A s \in SUBSET Tx : Cardinality(s) \in Nat
        BY Sizes
      <3>3. QED
        BY <2>1, <3>1, <3>2 DEF UpToSize
    <2>6. \A s \in UpToSize(n) : g[s] \in Nat /\ g[s] = Summed(g, s)
      <3> SUFFICES ASSUME NEW s \in UpToSize(n) PROVE g[s] \in Nat /\ g[s] = Summed(g, s)
        OBVIOUS
      <3>1. CASE s = {}
        <4>1. g[s] = h[s] /\ h[s] = 0
          BY <2>3, <2>5, <3>1 DEF Summed
        <4>2. QED
          BY <3>1, <4>1 DEF Summed
      <3>2. CASE s # {}
        <4>1. s \ {c(s)} \in UpToSize(n - 1) /\ c(s) \in Tx
          BY <2>4, <3>2
        <4>2. g[s \ {c(s)}] = h[s \ {c(s)}] /\ h[s \ {c(s)}] \in Nat
          BY <2>3, <2>5, <4>1
        <4>3. Weight[c(s)] \in Nat
          BY <4>1, PoolAssumption
        <4>4. g[s] = Weight[c(s)] + h[s \ {c(s)}]
          <5>1. CASE s \in UpToSize(n - 1)
            BY <2>3, <3>2, <5>1 DEF Summed
          <5>2. CASE s \notin UpToSize(n - 1)
            BY <5>2
          <5>3. QED
            BY <5>1, <5>2
        <4>5. Summed(g, s) = Weight[c(s)] + g[s \ {c(s)}]
          BY <3>2 DEF Summed
        <4> HIDE DEF g, c
        <4>6. QED
          BY <4>2, <4>3, <4>4, <4>5
      <3>3. QED
        BY <3>1, <3>2
    <2>7. g \in [UpToSize(n) -> Nat]
      BY <2>6
    <2>8. g \in SumsTo(n)
      <3> HIDE DEF g
      <3>1. QED
        BY <2>6, <2>7 DEF SumsTo
    <2>9. QED
      BY <1>1, <2>8
  <1>4. QED
    BY <1>2, <1>3

(* There is a function that sums the weights of any set, and WeightOf is it. *)
LEMMA WeighingFunction ==
    \E w \in [SUBSET Tx -> Nat] : /\ \A s \in SUBSET Tx : w[s] = Summed(w, s)
                                  /\ \A s \in SUBSET Tx : WeightOf(s) = w[s]
  <1>1. Cardinality(Tx) \in Nat /\ UpToSize(Cardinality(Tx)) = SUBSET Tx
    <2>1. Tx \in SUBSET Tx /\ \A s \in SUBSET Tx : Cardinality(s) <= Cardinality(Tx)
      BY Sizes
    <2>2. Cardinality(Tx) \in Nat
      BY <2>1, Sizes
    <2>3. QED
      BY <2>1, <2>2 DEF UpToSize
  <1>2. PICK w \in SumsTo(Cardinality(Tx)) : TRUE
    BY <1>1, SumsExist
  <1>3. w \in [SUBSET Tx -> Nat] /\ \A s \in SUBSET Tx : w[s] = Summed(w, s)
    BY <1>1 DEF SumsTo
  <1>4. ASSUME NEW S \in SUBSET Tx PROVE WeightOf(S) = w[S]
    <2> DEFINE v == [s \in SUBSET S |-> w[s]]
               P(g) == g = [s \in SUBSET S |-> Summed(g, s)]
    <2>1. P(v)
      <3>1. \A s \in SUBSET S : s \in SUBSET Tx /\ s \ {CHOOSE x \in s : TRUE} \in SUBSET S
        OBVIOUS
      <3>2. \A s \in SUBSET S : v[s] = Summed(v, s)
        BY <1>3, <3>1 DEF Summed
      <3>3. QED
        BY <3>2
    <2> DEFINE g == CHOOSE f : P(f)
    <2>2. P(g)
      BY <2>1
    <2>3. \A s \in SUBSET S : g[s] = Summed(g, s)
      BY <2>2
    <2> HIDE DEF g, v
    <2>4. \A s \in SUBSET S : g[s] = w[s]
      <3> SUFFICES ASSUME NEW r \in SUBSET S, g[r] # w[r] PROVE FALSE
        OBVIOUS
      <3> DEFINE C == {s \in SUBSET S : g[s] # w[s]}
      <3>1. C \in SUBSET (SUBSET Tx) /\ C # {}
        OBVIOUS
      <3>2. PICK s \in C : \A t \in C : Cardinality(s) <= Cardinality(t)
        <4> HIDE DEF C
        <4>1. QED
          BY <3>1, SmallestSet
      <3>3. CASE s = {}
        BY <1>3, <2>3, <3>2, <3>3 DEF Summed
      <3>4. CASE s # {}
        <4> DEFINE c == CHOOSE x \in s : TRUE
        <4>1. c \in s /\ s \in SUBSET Tx /\ s \in SUBSET S
          BY <3>4, Chosen
        <4>2. g[s] = Weight[c] + g[s \ {c}] /\ w[s] = Weight[c] + w[s \ {c}]
          BY <1>3, <2>3, <3>4, <4>1 DEF Summed
        <4> HIDE DEF c
        <4>3. s \ {c} \notin C
          <5>1. Cardinality(s \ {c}) = Cardinality(s) - 1 /\ Cardinality(s) \in Nat
            BY <4>1, Sizes
          <5>2. ~ (Cardinality(s) <= Cardinality(s \ {c}))
            BY <5>1
          <5>3. QED
            BY <3>2, <5>2
        <4>4. QED
          BY <3>2, <4>1, <4>2, <4>3
      <3>5. QED
        BY <3>3, <3>4
    <2>5. WeightOf(S) = g[S]
      BY WeightOfChoice DEF g
    <2>6. QED
      BY <2>4, <2>5
  <1>5. QED
    BY <1>3, <1>4

LEMMA WeightOne ==
    ASSUME NEW S \in SUBSET Tx
    PROVE  /\ WeightOf(S) \in Nat
           /\ S = {} => WeightOf(S) = 0
           /\ \A x \in S : WeightOf(S) = Weight[x] + WeightOf(S \ {x})
  <1>1. PICK w \in [SUBSET Tx -> Nat] : /\ \A s \in SUBSET Tx : w[s] = Summed(w, s)
                                        /\ \A s \in SUBSET Tx : WeightOf(s) = w[s]
    BY WeighingFunction, Zenon
  <1>2. \A s \in SUBSET Tx : \A x \in s : w[s] = Weight[x] + w[s \ {x}]
    <2> SUFFICES ASSUME NEW r \in SUBSET Tx, NEW q \in r, w[r] # Weight[q] + w[r \ {q}] PROVE FALSE
      OBVIOUS
    <2> DEFINE C == {s \in SUBSET Tx : \E x \in s : w[s] # Weight[x] + w[s \ {x}]}
    <2>1. C \in SUBSET (SUBSET Tx) /\ C # {}
      OBVIOUS
    <2>2. PICK s \in C : \A t \in C : Cardinality(s) <= Cardinality(t)
      <3> HIDE DEF C
      <3>1. QED
        BY <2>1, SmallestSet
    <2>3. PICK x \in s : w[s] # Weight[x] + w[s \ {x}]
      BY <2>2
    <2> DEFINE c == CHOOSE y \in s : TRUE
    <2>4. c \in s /\ s \in SUBSET Tx /\ w[s] = Weight[c] + w[s \ {c}]
      BY <1>1, <2>3, Chosen DEF Summed
    <2> HIDE DEF c
    <2>5. c # x
      BY <2>3, <2>4
    <2>6. \A y \in s : s \ {y} \notin C
      <3>1. \A y \in s : Cardinality(s \ {y}) = Cardinality(s) - 1 /\ Cardinality(s) \in Nat
        BY <2>4, Sizes
      <3>2. \A y \in s : ~ (Cardinality(s) <= Cardinality(s \ {y}))
        BY <3>1
      <3>3. QED
        BY <2>2, <3>2
    <2>7. w[s \ {c}] = Weight[x] + w[(s \ {c}) \ {x}]
      BY <2>3, <2>4, <2>5, <2>6
    <2>8. w[s \ {x}] = Weight[c] + w[(s \ {x}) \ {c}]
      BY <2>3, <2>4, <2>5, <2>6
    <2>9. (s \ {x}) \ {c} = (s \ {c}) \ {x} /\ (s \ {x}) \ {c} \in SUBSET Tx
      BY <2>4
    <2>10. Weight[x] \in Nat /\ Weight[c] \in Nat /\ w[(s \ {x}) \ {c}] \in Nat
      BY <2>3, <2>4, <2>9, PoolAssumption
    <2>11. w[s \ {x}] = Weight[c] + w[(s \ {c}) \ {x}] /\ w[(s \ {c}) \ {x}] \in Nat
      BY <2>8, <2>9, <2>10
    <2>12. w[s] = Weight[c] + (Weight[x] + w[(s \ {c}) \ {x}])
      BY <2>4, <2>7
    <2>13. QED
      BY <2>3, <2>10, <2>11, <2>12
  <1>3. w[{}] = 0
    BY <1>1 DEF Summed
  <1>4. QED
    BY <1>1, <1>2, <1>3

(* Disjoint sets weigh what they weigh together. *)
LEMMA WeightSum ==
    ASSUME NEW A \in SUBSET Tx, NEW B \in SUBSET Tx, A \cap B = {}
    PROVE  WeightOf(A \cup B) = WeightOf(A) + WeightOf(B)
  <1> DEFINE C == {s \in SUBSET B : WeightOf(A \cup s) # WeightOf(A) + WeightOf(s)}
  <1> SUFFICES ASSUME C # {} PROVE FALSE
    OBVIOUS
  <1>1. C \in SUBSET (SUBSET Tx)
    OBVIOUS
  <1>2. PICK s \in C : \A t \in C : Cardinality(s) <= Cardinality(t)
    <2> HIDE DEF C
    <2>1. QED
      BY <1>1, SmallestSet
  <1>3. s # {}
    <2>1. WeightOf(A) \in Nat /\ WeightOf({}) = 0 /\ A \cup {} = A
      BY WeightOne
    <2>2. QED
      BY <1>2, <2>1
  <1>4. PICK x \in s : TRUE
    BY <1>3
  <1>5. s \in SUBSET Tx /\ A \cup s \in SUBSET Tx /\ x \in A \cup s /\ (A \cup s) \ {x} = A \cup (s \ {x})
    BY <1>4
  <1>6. s \ {x} \notin C
    <2>1. Cardinality(s \ {x}) = Cardinality(s) - 1 /\ Cardinality(s) \in Nat
      BY <1>4, <1>5, Sizes
    <2>2. ~ (Cardinality(s) <= Cardinality(s \ {x}))
      BY <2>1
    <2>3. QED
      BY <1>2, <2>2
  <1>7. WeightOf(A \cup (s \ {x})) = WeightOf(A) + WeightOf(s \ {x})
    BY <1>2, <1>6
  <1>8. /\ WeightOf(A \cup s) = Weight[x] + WeightOf(A \cup (s \ {x}))
        /\ WeightOf(s) = Weight[x] + WeightOf(s \ {x})
    BY <1>4, <1>5, WeightOne
  <1>9. WeightOf(A) \in Nat /\ WeightOf(s \ {x}) \in Nat /\ Weight[x] \in Nat
    BY <1>4, <1>5, WeightOne, PoolAssumption
  <1>10. QED
    BY <1>2, <1>7, <1>8, <1>9

-----------------------------------------------------------------------------
(* The operators on the pool: each turns a sound pool into sound pools. *)

PoolOK(p) ==
    /\ p = [entries |-> p.entries, spent |-> p.spent, weight |-> p.weight]
    /\ Held(p) \subseteq Tx /\ p.entries \in [Held(p) -> Entry]
    /\ p.spent \in [DOMAIN p.spent -> Held(p)]
    /\ p.weight \in Nat
    /\ IndexesAgree(p)

LEMMA EmptyPoolOK == PoolOK(EmptyPool)
  <1>1. Held(EmptyPool) = {} /\ DOMAIN EmptyPool.spent = {} /\ EmptyPool.weight = 0
    BY DEF EmptyPool, Held
  <1>2. WeightOf({}) = 0
    BY WeightOne
  <1>3. EmptyPool.entries \in [{} -> Entry] /\ EmptyPool.spent \in [{} -> {}]
    BY DEF EmptyPool
  <1>4. EmptyPool = [entries |-> EmptyPool.entries, spent |-> EmptyPool.spent, weight |-> EmptyPool.weight]
    BY DEF EmptyPool
  <1>5. QED
    BY <1>1, <1>2, <1>3, <1>4 DEF PoolOK, IndexesAgree

(* `remove` takes out each transaction with its images and its weight. *)
LEMMA RemoveOK ==
    ASSUME NEW p, PoolOK(p), NEW T
    PROVE  /\ PoolOK(Remove(p, T))
           /\ Held(Remove(p, T)) = Held(p) \ T
           /\ \A t \in Held(p) \ T : Remove(p, T).entries[t] = p.entries[t]
           /\ DOMAIN Remove(p, T).spent \subseteq DOMAIN p.spent
           /\ \A k \in DOMAIN p.spent : p.spent[k] \in T => k \notin DOMAIN Remove(p, T).spent
  <1> DEFINE q == Remove(p, T)
             e == [t \in Held(p) \ T |-> p.entries[t]]
             K == {k \in DOMAIN p.spent : p.spent[k] \notin T}
             s == [k \in K |-> p.spent[k]]
             w == p.weight - WeightOf(T \cap Held(p))
  <1>1. q = [entries |-> e, spent |-> s, weight |-> w]
    BY DEF Remove, Restrict
  <1>2. q.entries = e /\ q.spent = s /\ q.weight = w
    BY <1>1
  <1>3. Held(q) = Held(p) \ T /\ DOMAIN q.spent = K
    BY <1>2 DEF Held
  <1> HIDE DEF q
  <1>p. /\ Held(p) \subseteq Tx /\ p.entries \in [Held(p) -> Entry]
        /\ p.spent \in [DOMAIN p.spent -> Held(p)] /\ p.weight \in Nat
        /\ DOMAIN p.spent = UNION {ImagesOf[t] : t \in Held(p)}
        /\ \A t \in Held(p) : \A k \in ImagesOf[t] : p.spent[k] = t
        /\ p.weight = WeightOf(Held(p))
    BY DEF PoolOK, IndexesAgree
  <1>4. q.entries \in [Held(q) -> Entry] /\ \A t \in Held(p) \ T : q.entries[t] = p.entries[t]
    BY <1>2, <1>3, <1>p
  <1>5. q.spent \in [K -> Held(q)]
    BY <1>2, <1>3, <1>p
  <1>6. K = UNION {ImagesOf[t] : t \in Held(p) \ T}
    BY <1>p
  <1>7. \A t \in Held(p) \ T : \A k \in ImagesOf[t] : q.spent[k] = t
    <2> SUFFICES ASSUME NEW t \in Held(p) \ T, NEW k \in ImagesOf[t] PROVE q.spent[k] = t
      OBVIOUS
    <2>1. p.spent[k] = t /\ k \in DOMAIN p.spent
      BY <1>p
    <2>2. QED
      BY <1>2, <2>1
  <1>8. q.weight = WeightOf(Held(q)) /\ q.weight \in Nat
    <2> DEFINE A == Held(p) \ T
               B == T \cap Held(p)
    <2>1. A \in SUBSET Tx /\ B \in SUBSET Tx /\ A \cap B = {} /\ A \cup B = Held(p)
      BY <1>p
    <2> HIDE DEF A, B
    <2>2. WeightOf(A \cup B) = WeightOf(A) + WeightOf(B)
      BY <2>1, WeightSum
    <2>3. WeightOf(A) \in Nat /\ WeightOf(B) \in Nat
      BY <2>1, WeightOne
    <2>4. q.weight = p.weight - WeightOf(B) /\ Held(q) = A
      BY <1>2, <1>3 DEF A, B
    <2>5. p.weight = WeightOf(A) + WeightOf(B)
      BY <1>p, <2>1, <2>2
    <2>6. QED
      BY <2>3, <2>4, <2>5
  <1>9. q = [entries |-> q.entries, spent |-> q.spent, weight |-> q.weight]
    BY <1>1, <1>2
  <1>10. PoolOK(q)
    BY <1>3, <1>4, <1>5, <1>6, <1>7, <1>8, <1>9, <1>p DEF PoolOK, IndexesAgree
  <1>11. QED
    BY <1>3, <1>4, <1>10 DEF q

(* `insert` of transactions that spend nothing spent in the pool, nor the same
   as each other. *)
LEMMA InsertOK ==
    ASSUME NEW p, PoolOK(p), NEW new, DOMAIN new \subseteq Tx, new \in [DOMAIN new -> Entry],
           DOMAIN new \cap Held(p) = {}, ImagesIn(DOMAIN new) \cap DOMAIN p.spent = {},
           \A t, u \in DOMAIN new : t # u => ImagesOf[t] \cap ImagesOf[u] = {}
    PROVE  /\ PoolOK(InsertAll(p, new))
           /\ Held(InsertAll(p, new)) = Held(p) \cup DOMAIN new
           /\ \A t \in Held(p) : InsertAll(p, new).entries[t] = p.entries[t]
           /\ \A t \in DOMAIN new : InsertAll(p, new).entries[t] = new[t]
  <1> DEFINE q == InsertAll(p, new)
             D == DOMAIN new
             e == Over(new, p.entries)
             n == [k \in ImagesIn(D) |-> CHOOSE t \in D : k \in ImagesOf[t]]
             s == Over(n, p.spent)
             w == p.weight + WeightOf(D)
  <1>1. q = [entries |-> e, spent |-> s, weight |-> w]
    BY DEF InsertAll
  <1>2. q.entries = e /\ q.spent = s /\ q.weight = w
    BY <1>1
  <1>e. e = [t \in D \cup Held(p) |-> IF t \in D THEN new[t] ELSE p.entries[t]]
    BY DEF Over, Held
  <1>s. s = [k \in ImagesIn(D) \cup DOMAIN p.spent |-> IF k \in ImagesIn(D) THEN n[k] ELSE p.spent[k]]
    BY DEF Over
  <1>3. Held(q) = D \cup Held(p) /\ DOMAIN q.spent = ImagesIn(D) \cup DOMAIN p.spent
    BY <1>2, <1>e, <1>s DEF Held
  <1> HIDE DEF q, e, s
  <1>p. /\ Held(p) \subseteq Tx /\ p.entries \in [Held(p) -> Entry]
        /\ p.spent \in [DOMAIN p.spent -> Held(p)] /\ p.weight \in Nat
        /\ DOMAIN p.spent = UNION {ImagesOf[t] : t \in Held(p)}
        /\ \A t \in Held(p) : \A k \in ImagesOf[t] : p.spent[k] = t
        /\ p.weight = WeightOf(Held(p))
    BY DEF PoolOK, IndexesAgree
  <1>n. ASSUME NEW t \in D, NEW k \in ImagesOf[t] PROVE k \in ImagesIn(D) /\ n[k] = t
    <2>1. k \in ImagesIn(D)
      BY DEF ImagesIn
    <2>2. \A u \in D : k \in ImagesOf[u] => u = t
      OBVIOUS
    <2>3. (CHOOSE u \in D : k \in ImagesOf[u]) = t
      BY <2>2
    <2>4. QED
      BY <2>1, <2>3
  <1>m. \A k \in ImagesIn(D) : n[k] \in D
    <2> SUFFICES ASSUME NEW k \in ImagesIn(D) PROVE n[k] \in D
      OBVIOUS
    <2>1. PICK t \in D : k \in ImagesOf[t]
      BY DEF ImagesIn
    <2>2. QED
      BY <1>n, <2>1
  <1> HIDE DEF n
  <1>4. /\ q.entries \in [Held(q) -> Entry] /\ \A t \in Held(p) : q.entries[t] = p.entries[t]
        /\ \A t \in D : q.entries[t] = new[t]
    BY <1>2, <1>3, <1>e, <1>p
  <1>5. q.spent \in [DOMAIN q.spent -> Held(q)]
    BY <1>2, <1>3, <1>s, <1>m, <1>p
  <1>6. DOMAIN q.spent = UNION {ImagesOf[t] : t \in Held(q)}
    BY <1>3, <1>p DEF ImagesIn
  <1>7. \A t \in Held(q) : \A k \in ImagesOf[t] : q.spent[k] = t
    <2> SUFFICES ASSUME NEW t \in Held(q), NEW k \in ImagesOf[t] PROVE q.spent[k] = t
      OBVIOUS
    <2>1. CASE t \in D
      BY <1>2, <1>3, <1>s, <1>n, <2>1
    <2>2. CASE t \in Held(p)
      <3>1. k \in DOMAIN p.spent /\ p.spent[k] = t
        BY <1>p, <2>2
      <3>2. QED
        BY <1>2, <1>s, <3>1
    <2>3. QED
      BY <1>3, <2>1, <2>2
  <1>8. q.weight = WeightOf(Held(q)) /\ q.weight \in Nat
    <2>1. Held(p) \in SUBSET Tx /\ D \in SUBSET Tx /\ Held(p) \cap D = {}
      BY <1>p
    <2>2. WeightOf(Held(p) \cup D) = WeightOf(Held(p)) + WeightOf(D)
      BY <2>1, WeightSum
    <2>3. WeightOf(D) \in Nat
      BY <2>1, WeightOne
    <2>4. Held(q) = Held(p) \cup D
      BY <1>3
    <2>5. QED
      BY <1>2, <1>p, <2>2, <2>3, <2>4
  <1>9. q = [entries |-> q.entries, spent |-> q.spent, weight |-> q.weight]
    BY <1>1, <1>2
  <1>h. Held(q) \subseteq Tx
    BY <1>3, <1>p
  <1>10. PoolOK(q)
    BY <1>h, <1>4, <1>5, <1>6, <1>7, <1>8, <1>9 DEF PoolOK, IndexesAgree
  <1>11. QED
    BY <1>3, <1>4, <1>10 DEF q

(* A transaction moves up to another relay method; nothing else changes. *)
WithEntry(p, t, e) == [p EXCEPT !.entries[t] = e]

LEMMA EntryMoves ==
    ASSUME NEW p, PoolOK(p), NEW t \in Held(p), NEW e \in Entry
    PROVE  /\ PoolOK(WithEntry(p, t, e))
           /\ Held(WithEntry(p, t, e)) = Held(p) /\ WithEntry(p, t, e).spent = p.spent
           /\ WithEntry(p, t, e).entries[t] = e
           /\ \A u \in Held(p) \ {t} : WithEntry(p, t, e).entries[u] = p.entries[u]
  <1> DEFINE q == WithEntry(p, t, e)
  <1>p. /\ p = [entries |-> p.entries, spent |-> p.spent, weight |-> p.weight]
        /\ Held(p) \subseteq Tx /\ p.entries \in [Held(p) -> Entry]
        /\ p.spent \in [DOMAIN p.spent -> Held(p)] /\ p.weight \in Nat
        /\ IndexesAgree(p)
    BY DEF PoolOK
  <1>1. q = [entries |-> [p.entries EXCEPT ![t] = e], spent |-> p.spent, weight |-> p.weight]
    BY <1>p DEF WithEntry
  <1> HIDE DEF q
  <1>2. q.entries = [p.entries EXCEPT ![t] = e] /\ q.spent = p.spent /\ q.weight = p.weight
    BY <1>1
  <1>3. Held(q) = Held(p) /\ q.entries \in [Held(q) -> Entry] /\ q.entries[t] = e
        /\ \A u \in Held(p) \ {t} : q.entries[u] = p.entries[u]
    BY <1>2, <1>p DEF Held
  <1>4. q = [entries |-> q.entries, spent |-> q.spent, weight |-> q.weight]
    BY <1>1, <1>2
  <1>5. IndexesAgree(q)
    BY <1>2, <1>3, <1>p DEF IndexesAgree
  <1>6. PoolOK(q)
    BY <1>2, <1>3, <1>4, <1>5, <1>p DEF PoolOK
  <1>7. QED
    BY <1>2, <1>3, <1>6 DEF q

LEMMA RankType ==
    /\ DOMAIN Rank = {"None", "Local", "Forward", "Stem", "Fluff", "Block"}
    /\ Rank["None"] = 0 /\ Rank["Local"] = 1 /\ Rank["Forward"] = 2
    /\ Rank["Stem"] = 3 /\ Rank["Fluff"] = 4 /\ Rank["Block"] = 5
  BY DEF Rank

(* Moving up never takes a public transaction back. *)
LEMMA MovesUp ==
    ASSUME NEW m \in DOMAIN Rank, NEW n \in DOMAIN Rank, Rank[m] < Rank[n],
           m \in {"Fluff", "Block"}
    PROVE  n \in {"Fluff", "Block"}
  <1>1. CASE m = "Fluff"
    BY <1>1, RankType
  <1>2. CASE m = "Block"
    BY <1>2, RankType
  <1>3. QED
    BY <1>1, <1>2

LEMMA SetRelayedOK ==
    ASSUME NEW p, PoolOK(p), NEW t \in Held(p), NEW m \in DOMAIN Rank
    PROVE  /\ PoolOK(SetRelayed(p, t, m))
           /\ Held(SetRelayed(p, t, m)) = Held(p) /\ SetRelayed(p, t, m).spent = p.spent
           /\ \A u \in Held(p) : Public(p.entries[u]) => Public(SetRelayed(p, t, m).entries[u])
  <1> DEFINE q == SetRelayed(p, t, m)
             e == [p.entries[t] EXCEPT !.relay = m]
  <1>1. p.entries[t] \in Entry /\ p.entries[t].relay \in DOMAIN Rank
    BY DEF PoolOK, Entry
  <1>2. CASE Rank[p.entries[t].relay] < Rank[m]
    <2>1. e \in Entry /\ e.relay = m
      BY <1>1 DEF Entry
    <2>2. q = WithEntry(p, t, e)
      <3>1. q = [p EXCEPT !.entries[t].relay = m]
        BY <1>2 DEF SetRelayed
      <3>2. QED
        BY <3>1 DEF WithEntry
    <2> HIDE DEF q, e
    <2>3. /\ PoolOK(q) /\ Held(q) = Held(p) /\ q.spent = p.spent /\ q.entries[t] = e
          /\ \A u \in Held(p) \ {t} : q.entries[u] = p.entries[u]
      BY <2>1, <2>2, EntryMoves
    <2>4. Public(p.entries[t]) => Public(e)
      BY <1>1, <1>2, <2>1, MovesUp DEF Public
    <2>5. QED
      BY <2>3, <2>4 DEF q
  <1>3. CASE ~ (Rank[p.entries[t].relay] < Rank[m])
    BY <1>3 DEF SetRelayed
  <1>4. QED
    BY <1>2, <1>3

LEMMA UpgradeOK ==
    ASSUME NEW p, PoolOK(p), NEW t \in Held(p), NEW m \in DOMAIN Rank, NEW now \in Nat
    PROVE  /\ PoolOK(Upgrade(p, t, m, now))
           /\ Held(Upgrade(p, t, m, now)) = Held(p)
           /\ \A u \in Held(p) : Public(p.entries[u]) => Public(Upgrade(p, t, m, now).entries[u])
  <1> DEFINE q == Upgrade(p, t, m, now)
             m2 == IF m = "Stem" /\ p.entries[t].relay = "Stem" THEN "Fluff" ELSE m
             e == [relay |-> m2, received |-> now]
  <1>1. p.entries[t] \in Entry /\ p.entries[t].relay \in DOMAIN Rank /\ m2 \in DOMAIN Rank
    BY RankType DEF PoolOK, Entry
  <1>2. CASE Rank[p.entries[t].relay] < Rank[m2]
    <2>1. e \in Entry /\ e.relay = m2
      BY <1>1 DEF Entry
    <2>2. q = WithEntry(p, t, e)
      BY <1>2 DEF Upgrade, WithEntry
    <2> HIDE DEF q, e, m2
    <2>3. /\ PoolOK(q) /\ Held(q) = Held(p) /\ q.entries[t] = e
          /\ \A u \in Held(p) \ {t} : q.entries[u] = p.entries[u]
      BY <2>1, <2>2, EntryMoves
    <2>4. Public(p.entries[t]) => Public(e)
      BY <1>1, <1>2, <2>1, MovesUp DEF Public
    <2>5. QED
      BY <2>3, <2>4 DEF q
  <1>3. CASE ~ (Rank[p.entries[t].relay] < Rank[m2])
    BY <1>3 DEF Upgrade
  <1>4. QED
    BY <1>2, <1>3

(* `add` of a transaction that spends nothing the pool spends, unless the
   pool holds it already. *)
LEMMA AddOK ==
    ASSUME NEW p, PoolOK(p), NEW t \in Tx, NEW m \in DOMAIN Rank, NEW now \in Nat,
           t \notin Held(p) => ImagesOf[t] \cap DOMAIN p.spent = {}, NEW q \in Add(p, t, m, now)
    PROVE  /\ PoolOK(q) /\ Held(q) \subseteq Held(p) \cup {t}
           /\ \A u \in Held(p) \cap Held(q) : Public(p.entries[u]) => Public(q.entries[u])
  <1>1. CASE t \in Held(p)
    <2>1. q = Upgrade(p, t, m, now)
      BY <1>1 DEF Add
    <2>2. QED
      BY <1>1, <2>1, UpgradeOK
  <1>2. CASE t \notin Held(p)
    <2> DEFINE r == Expire(p, now)
               new == [u \in {t} |-> [relay |-> m, received |-> now]]
               i == InsertAll(r, new)
    <2>1. PICK T : r = Remove(p, T)
      BY DEF Expire
    <2>2. PICK R : q = Remove(i, R)
      BY <1>2 DEF Add, EvictToFit, Insert
    <2> HIDE DEF r, i
    <2>3. /\ PoolOK(r) /\ Held(r) = Held(p) \ T /\ DOMAIN r.spent \subseteq DOMAIN p.spent
          /\ \A u \in Held(r) : r.entries[u] = p.entries[u]
      BY <2>1, RemoveOK
    <2>4. /\ DOMAIN new = {t} /\ new \in [DOMAIN new -> Entry]
          /\ ImagesIn(DOMAIN new) \cap DOMAIN r.spent = {}
      BY <1>2, <2>3 DEF Entry, ImagesIn
    <2>5. DOMAIN new \subseteq Tx /\ DOMAIN new \cap Held(r) = {}
      BY <1>2, <2>3, <2>4
    <2> HIDE DEF new
    <2>a. \A u, v \in DOMAIN new : u # v => ImagesOf[u] \cap ImagesOf[v] = {}
      BY <2>4
    <2>6. /\ PoolOK(i) /\ Held(i) = Held(r) \cup DOMAIN new
          /\ \A u \in Held(r) : i.entries[u] = r.entries[u]
      BY <2>3, <2>4, <2>5, <2>a, InsertOK DEF i
    <2>b. Held(i) = Held(r) \cup {t}
      BY <2>4, <2>6
    <2>7. /\ PoolOK(q) /\ Held(q) = Held(i) \ R
          /\ \A u \in Held(q) : q.entries[u] = i.entries[u]
      BY <2>2, <2>6, RemoveOK
    <2>8. ASSUME NEW u \in Held(p) \cap Held(q) PROVE q.entries[u] = p.entries[u]
      <3>1. u \in Held(i) /\ u # t
        BY <1>2, <2>7
      <3>2. u \in Held(r)
        BY <3>1, <2>b
      <3>3. QED
        BY <2>3, <2>6, <2>7, <3>2
    <2>9. QED
      BY <2>3, <2>b, <2>7, <2>8
  <1>3. QED
    BY <1>1, <1>2

(* Whoever comes first: what is taken spends nothing twice. *)
LEMMA FirstComeOK ==
    ASSUME NEW T, NEW taken, NEW S \in FirstCome(T, taken)
    PROVE  /\ S \subseteq T /\ ImagesIn(S) \cap taken = {}
           /\ \A s, t \in S : s # t => ImagesOf[s] \cap ImagesOf[t] = {}
  BY DEF FirstCome

LEMMA AddKeptOK ==
    ASSUME NEW p, PoolOK(p), NEW T \in SUBSET Tx, NEW taken, NEW now \in Nat,
           NEW q \in AddKept(p, T, taken, now)
    PROVE  /\ PoolOK(q) /\ Held(p) \subseteq Held(q)
           /\ Held(q) \subseteq Held(p) \cup T
           /\ ImagesIn(Held(q) \ Held(p)) \cap taken = {}
           /\ \A u \in Held(p) : q.entries[u] = p.entries[u]
  <1>1. PICK S \in FirstCome(T \ Held(p), taken \cup DOMAIN p.spent) :
            q = InsertAll(p, [t \in S |-> [relay |-> "Block", received |-> now]])
    BY DEF AddKept
  <1>2. /\ S \subseteq T \ Held(p) /\ ImagesIn(S) \cap (taken \cup DOMAIN p.spent) = {}
        /\ \A s, t \in S : s # t => ImagesOf[s] \cap ImagesOf[t] = {}
    BY <1>1, FirstComeOK
  <1> DEFINE new == [t \in S |-> [relay |-> "Block", received |-> now]]
  <1>3. DOMAIN new = S /\ new \in [S -> Entry]
    BY RankType DEF Entry
  <1>4. q = InsertAll(p, new)
    BY <1>1
  <1> HIDE DEF new
  <1>5. DOMAIN new \subseteq Tx /\ DOMAIN new \cap Held(p) = {} /\ new \in [DOMAIN new -> Entry]
    BY <1>2, <1>3
  <1>6. /\ ImagesIn(DOMAIN new) \cap DOMAIN p.spent = {}
        /\ \A s, t \in DOMAIN new : s # t => ImagesOf[s] \cap ImagesOf[t] = {}
    BY <1>2, <1>3
  <1>7. /\ PoolOK(q) /\ Held(q) = Held(p) \cup S
        /\ \A u \in Held(p) : q.entries[u] = p.entries[u]
    BY <1>3, <1>4, <1>5, <1>6, InsertOK
  <1>8. Held(q) \ Held(p) = S
    BY <1>2, <1>7
  <1>9. QED
    BY <1>2, <1>7, <1>8

LEMMA LoadOK ==
    ASSUME NEW stored, DOMAIN stored \subseteq Tx, stored \in [DOMAIN stored -> Entry],
           NEW onChain, NEW taken, NEW now, NEW q \in Load(stored, onChain, taken, now)
    PROVE  /\ PoolOK(q) /\ Held(q) \cap onChain = {} /\ ImagesIn(Held(q)) \cap taken = {}
  <1>1. PICK S \in FirstCome(DOMAIN stored \ onChain, taken) :
            q = Expire(InsertAll(EmptyPool, Restrict(stored, S)), now)
    BY DEF Load
  <1>2. /\ S \subseteq DOMAIN stored \ onChain /\ ImagesIn(S) \cap taken = {}
        /\ \A s, t \in S : s # t => ImagesOf[s] \cap ImagesOf[t] = {}
    BY <1>1, FirstComeOK
  <1> DEFINE new == Restrict(stored, S)
             i == InsertAll(EmptyPool, new)
  <1>3. DOMAIN new = S /\ new \in [S -> Entry]
    BY <1>2 DEF Restrict
  <1>4. PICK T : q = Remove(i, T)
    BY <1>1 DEF Expire
  <1> HIDE DEF new, i
  <1>5. PoolOK(EmptyPool) /\ Held(EmptyPool) = {} /\ DOMAIN EmptyPool.spent = {}
    BY EmptyPoolOK DEF EmptyPool, Held
  <1>6. /\ DOMAIN new \subseteq Tx /\ new \in [DOMAIN new -> Entry]
        /\ DOMAIN new \cap Held(EmptyPool) = {} /\ ImagesIn(DOMAIN new) \cap DOMAIN EmptyPool.spent = {}
        /\ \A s, t \in DOMAIN new : s # t => ImagesOf[s] \cap ImagesOf[t] = {}
    BY <1>2, <1>3, <1>5
  <1>7. PoolOK(i) /\ Held(i) = S
    BY <1>3, <1>5, <1>6, InsertOK DEF i
  <1>8. PoolOK(q) /\ Held(q) = S \ T
    BY <1>4, <1>7, RemoveOK
  <1>9. QED
    BY <1>2, <1>8 DEF ImagesIn

LEMMA SavedOK ==
    ASSUME NEW stored, DOMAIN stored \subseteq Tx, stored \in [DOMAIN stored -> Entry],
           NEW p, PoolOK(p), NEW d \in Saved(stored, p)
    PROVE  DOMAIN d \subseteq Tx /\ d \in [DOMAIN d -> Entry]
  <1>p. Held(p) \subseteq Tx /\ p.entries \in [Held(p) -> Entry]
    BY DEF PoolOK
  <1>1. ASSUME NEW S \in SUBSET (DOMAIN stored \ Held(p)), d = Restrict(stored, DOMAIN stored \ S)
        PROVE  DOMAIN d \subseteq Tx /\ d \in [DOMAIN d -> Entry]
    BY <1>1 DEF Restrict
  <1>2. ASSUME NEW S \in SUBSET Held(p),
               d = Over(Restrict(p.entries, S), Restrict(stored, DOMAIN stored \cap Held(p)))
        PROVE  DOMAIN d \subseteq Tx /\ d \in [DOMAIN d -> Entry]
    <2> DEFINE D == S \cup (DOMAIN stored \cap Held(p))
    <2>1. d = [x \in D |-> IF x \in S THEN p.entries[x] ELSE stored[x]]
      BY <1>2 DEF Over, Restrict
    <2>2. \A x \in D : d[x] \in Entry
      BY <2>1, <1>p
    <2>3. QED
      BY <2>1, <2>2, <1>p
  <1>3. QED
    BY <1>1, <1>2 DEF Saved

-----------------------------------------------------------------------------
(* Every step of the node is a step of the chain, or none of its business:
   saving the pool only counts as an intervention. *)

LEMMA NodeSteps ==
    ASSUME [NodeNext]_nodeVars
    PROVE  [Next]_vars \/ Save
  <1>1. ASSUME NEW b \in Block, Submit(b) PROVE Next
    <2>1. HandleBlock(b)
      BY <1>1 DEF Submit, HandleBlock
    <2>2. QED
      BY <2>1 DEF Next
  <1>2. ASSUME ChainRuns PROVE Next
    BY <1>2 DEF ChainRuns, Next
  <1>3. ASSUME Settle PROVE Next
    BY <1>3 DEF Settle, Next
  <1>4. ASSUME NEW n \in 1..Len(main), Pop(n) PROVE Next
    BY <1>4 DEF Pop, Next
  <1>5. ASSUME NodeRestart \/ NodeStorageError \/ Time PROVE Next
    BY <1>5 DEF NodeRestart, NodeStorageError, Time, Next
  <1>6. ASSUME \/ ClearMined \/ ClearConfirmed \/ Admitted \/ ExpirePool
               \/ \E t, m : Admit(t, m) \/ TxRelayed(t, m)
               \/ \E T : Flush(T)
        PROVE  UNCHANGED vars
    BY <1>6 DEF ClearMined, ClearConfirmed, Admitted, ExpirePool, Admit, TxRelayed, Flush
  <1>7. ASSUME UNCHANGED nodeVars PROVE UNCHANGED vars
    BY <1>7 DEF nodeVars
  <1>8. ASSUME Maintain PROVE UNCHANGED vars \/ Save
    BY <1>8, <1>6 DEF Maintain
  <1>9. QED
    BY <1>1, <1>2, <1>3, <1>4, <1>5, <1>6, <1>7, <1>8 DEF NodeNext

LEMMA ChainTypes ==
    ASSUME TypeInv, [NodeNext]_nodeVars
    PROVE  TypeInv'
  <1>1. CASE [Next]_vars
    BY <1>1, TypeInvStep
  <1>2. CASE Save
    <2>1. /\ UNCHANGED <<main, alts, altTxs, orphaned, cache, phase, sw, clock, before>>
          /\ used' = used + 1
      BY <1>2 DEF Save, Intervene
    <2>2. used' \in Nat
      BY <2>1 DEF TypeInv, TypeOK
    <2>3. QED
      BY <2>1, <2>2 DEF TypeInv, TypeOK, LoopBounds
  <1>3. QED
    BY <1>1, <1>2, NodeSteps

(* While an admission holds the pool lock, what it checked of the pool stands. *)
AdmissionClear ==
    admission # Nobody =>
        (admission.tx \notin Held(pool) => ImagesOf[admission.tx] \cap DOMAIN pool.spent = {})

PoolInv ==
    /\ TypeInv /\ NodeTypeOK
    /\ PoolOK(pool)
    /\ AdmissionClear

(* What a step does to the pool and the admission. *)
LEMMA PoolSteps ==
    ASSUME [NodeNext]_nodeVars
    PROVE  \/ UNCHANGED poolVars /\ (stage' = stage \/ stage' \in {"free", "mined", "reorged", "settle"})
           \/ ClearMined \/ ClearConfirmed \/ Settle
           \/ \E t \in Arriving, m \in Methods : Admit(t, m)
           \/ Admitted
           \/ \E t \in Tx, m \in {"Local", "Forward", "Stem", "Fluff"} : TxRelayed(t, m)
           \/ ExpirePool \/ (\E T : Flush(T)) \/ Save
           \/ NodeRestart
  <1>1. ASSUME NEW b \in Block, Submit(b)
        PROVE  UNCHANGED poolVars /\ (stage' = stage \/ stage' \in {"free", "mined", "reorged", "settle"})
    BY <1>1 DEF Submit
  <1>2. ASSUME ChainRuns
        PROVE  UNCHANGED poolVars /\ (stage' = stage \/ stage' \in {"free", "mined", "reorged", "settle"})
    <2>1. SettleOr(orphaned') \in {"free", "settle"}
      BY DEF SettleOr
    <2>2. stage' \in {"free", "mined", "reorged", "settle"}
      BY <1>2, <2>1 DEF ChainRuns
    <2>3. QED
      BY <1>2, <2>2 DEF ChainRuns
  <1>3. ASSUME NEW n, Pop(n) PROVE UNCHANGED poolVars /\ stage' = stage
    BY <1>3 DEF Pop
  <1>4. ASSUME NodeStorageError \/ Time \/ UNCHANGED nodeVars PROVE UNCHANGED poolVars /\ stage' = stage
    BY <1>4 DEF NodeStorageError, Time, nodeVars
  <1>5. QED
    BY <1>1, <1>2, <1>3, <1>4 DEF NodeNext, Maintain

LEMMA PoolInvInit == NodeInit => PoolInv
  <1> SUFFICES ASSUME NodeInit PROVE PoolInv
    OBVIOUS
  <1>1. TypeInv
    BY TypeInvInit DEF NodeInit
  <1>2. PoolOK(pool)
    BY EmptyPoolOK DEF NodeInit
  <1>3. DOMAIN saved = {} /\ saved \in [{} -> Entry]
    BY DEF NodeInit, EmptyPool
  <1>4. NodeTypeOK
    BY <1>2, <1>3 DEF NodeTypeOK, PoolOK, NodeInit
  <1>5. QED
    BY <1>1, <1>2, <1>4 DEF PoolInv, AdmissionClear, NodeInit

LEMMA PoolInvStep ==
    ASSUME PoolInv, [NodeNext]_nodeVars
    PROVE  PoolInv'
  <1>t. /\ TypeInv /\ NodeTypeOK /\ PoolOK(pool) /\ AdmissionClear
        /\ stage \in {"free", "mined", "reorged", "settle"}
        /\ admission = Nobody \/ admission \in [tx : Arriving, method : Methods, now : Nat]
        /\ DOMAIN saved \subseteq Tx /\ saved \in [DOMAIN saved -> Entry]
        /\ clock \in Nat /\ orphaned \subseteq Tx
    BY DEF PoolInv, NodeTypeOK, TypeInv, TypeOK
  <1>1. TypeInv'
    BY ChainTypes DEF PoolInv
  <1>2. ASSUME PoolOK(pool'), stage' \in {"free", "mined", "reorged", "settle"},
               admission' = Nobody \/ admission' \in [tx : Arriving, method : Methods, now : Nat],
               DOMAIN saved' \subseteq Tx, saved' \in [DOMAIN saved' -> Entry],
               AdmissionClear'
        PROVE  PoolInv'
    <2>1. NodeTypeOK'
      BY <1>2 DEF NodeTypeOK, PoolOK
    <2>2. PoolOK(pool)'
      BY <1>2
    <2>3. QED
      BY <1>1, <1>2, <2>1, <2>2 DEF PoolInv
  <1>3. ASSUME PoolOK(pool'), stage' \in {"free", "mined", "reorged", "settle"},
               admission' = Nobody, DOMAIN saved' \subseteq Tx, saved' \in [DOMAIN saved' -> Entry]
        PROVE  PoolInv'
    <2>1. AdmissionClear'
      BY <1>3 DEF AdmissionClear
    <2>2. QED
      BY <1>2, <1>3, <2>1
  <1>s. \A x : SettleOr(x) \in {"free", "mined", "reorged", "settle"}
    BY DEF SettleOr
  <1>4. CASE UNCHANGED poolVars /\ (stage' = stage \/ stage' \in {"free", "mined", "reorged", "settle"})
    <2>1. pool' = pool /\ admission' = admission /\ saved' = saved
      BY <1>4 DEF poolVars
    <2>2. AdmissionClear'
      BY <1>t, <2>1 DEF AdmissionClear
    <2>3. PoolOK(pool')
      BY <1>t, <2>1
    <2>4. QED
      BY <1>t, <1>2, <1>4, <2>1, <2>2, <2>3
  <1>5. CASE ClearMined
    <2>1. admission' = Nobody /\ saved' = saved /\ stage' = SettleOr(orphaned)
      BY <1>5 DEF ClearMined, PoolLockFree
    <2>2. PICK T : pool' = Remove(pool, T)
      BY <1>5 DEF ClearMined, RemoveMined
    <2>3. PoolOK(pool')
      BY <1>t, <2>2, RemoveOK
    <2>4. QED
      BY <1>t, <1>s, <1>3, <2>1, <2>3
  <1>6. CASE ClearConfirmed
    <2>1. admission' = Nobody /\ saved' = saved /\ stage' = SettleOr(orphaned)
      BY <1>6 DEF ClearConfirmed, PoolLockFree
    <2>2. PICK T : pool' = Remove(pool, T)
      BY <1>6 DEF ClearConfirmed, RemoveConfirmed, RemoveMined
    <2>3. PoolOK(pool')
      BY <1>t, <2>2, RemoveOK
    <2>4. QED
      BY <1>t, <1>s, <1>3, <2>1, <2>3
  <1>7. CASE Settle
    <2>1. admission' = Nobody /\ saved' = saved /\ stage' = "free"
      BY <1>7 DEF Settle, PoolLockFree
    <2> DEFINE T == {t \in orphaned : Verifies(t, main)}
               taken == SpentIn(main)
    <2>2. T \in SUBSET Tx /\ pool' \in AddKept(pool, T, taken, clock)
      BY <1>7, <1>t DEF Settle
    <2> HIDE DEF T, taken
    <2>3. PoolOK(pool')
      BY <1>t, <2>2, AddKeptOK, ZenonT(40)
    <2>4. QED
      BY <1>t, <1>3, <2>1, <2>3
  <1>8. ASSUME NEW t \in Arriving, NEW m \in Methods, Admit(t, m) PROVE PoolInv'
    <2>1. /\ admission' = [tx |-> t, method |-> m, now |-> clock] /\ pool' = pool /\ saved' = saved
          /\ stage' = stage /\ Unspent(pool, t, SpentIn(main))
      BY <1>8 DEF Admit, Admissible
    <2>2. t \notin Held(pool) => ImagesOf[t] \cap DOMAIN pool.spent = {}
      BY <1>t, <2>1 DEF Unspent, SpentInPool, PoolOK
    <2>3. AdmissionClear'
      BY <2>1, <2>2 DEF AdmissionClear
    <2>4. admission' \in [tx : Arriving, method : Methods, now : Nat]
      BY <1>t, <2>1
    <2>5. PoolOK(pool')
      BY <1>t, <2>1
    <2>6. QED
      BY <1>t, <1>2, <2>1, <2>3, <2>4, <2>5
  <1>9. CASE Admitted
    <2>1. /\ admission # Nobody /\ admission' = Nobody /\ saved' = saved /\ stage' = stage
          /\ pool' \in Add(pool, admission.tx, admission.method, admission.now)
      BY <1>9 DEF Admitted
    <2>2. admission.tx \in Tx /\ admission.method \in DOMAIN Rank /\ admission.now \in Nat
      BY <1>t, <2>1, ArrivalAssumption, RankType
    <2>3. admission.tx \notin Held(pool) => ImagesOf[admission.tx] \cap DOMAIN pool.spent = {}
      BY <1>t, <2>1 DEF AdmissionClear
    <2>4. PoolOK(pool')
      BY <1>t, <2>1, <2>2, <2>3, AddOK
    <2>5. QED
      BY <1>t, <1>3, <2>1, <2>4
  <1>10. ASSUME NEW t \in Tx, NEW m \in {"Local", "Forward", "Stem", "Fluff"}, TxRelayed(t, m)
         PROVE  PoolInv'
    <2>1. /\ admission' = Nobody /\ saved' = saved /\ stage' = stage
          /\ t \in Held(pool) /\ pool' = SetRelayed(pool, t, m)
      BY <1>10 DEF TxRelayed, PoolLockFree
    <2>2. m \in DOMAIN Rank
      BY RankType
    <2>3. PoolOK(pool')
      BY <1>t, <2>1, <2>2, SetRelayedOK
    <2>4. QED
      BY <1>t, <1>3, <2>1, <2>3
  <1>11. CASE ExpirePool \/ \E T : Flush(T)
    <2>1. admission' = Nobody /\ saved' = saved /\ stage' = stage
      BY <1>11 DEF ExpirePool, Flush, PoolLockFree
    <2>2. PICK T : pool' = Remove(pool, T)
      BY <1>11 DEF ExpirePool, Flush, Expire
    <2>3. PoolOK(pool')
      BY <1>t, <2>2, RemoveOK
    <2>4. QED
      BY <1>t, <1>3, <2>1, <2>3
  <1>12. CASE Save
    <2>1. admission' = Nobody /\ saved' \in Saved(saved, pool) /\ stage' = stage /\ pool' = pool
      BY <1>12 DEF Save, PoolLockFree
    <2>2. DOMAIN saved' \subseteq Tx /\ saved' \in [DOMAIN saved' -> Entry]
      BY <1>t, <2>1, SavedOK
    <2>3. PoolOK(pool')
      BY <1>t, <2>1
    <2>4. QED
      BY <1>t, <1>3, <2>1, <2>2, <2>3
  <1>13. CASE NodeRestart
    <2>1. /\ admission' = Nobody /\ saved' = saved /\ stage' = "free"
          /\ pool' \in Load(saved, TxsIn(main), SpentIn(main), clock)
      BY <1>13 DEF NodeRestart
    <2>2. PoolOK(pool')
      BY <1>t, <2>1, LoadOK
    <2>3. QED
      BY <1>t, <1>3, <2>1, <2>2
  <1>14. QED
    BY <1>4, <1>5, <1>6, <1>7, <1>8, <1>9, <1>10, <1>11, <1>12, <1>13, PoolSteps

LEMMA PoolInvHolds == NodeSpec => []PoolInv
  <1>1. NodeInit => PoolInv
    BY PoolInvInit
  <1>2. PoolInv /\ [NodeNext]_nodeVars => PoolInv'
    BY PoolInvStep
  <1>3. QED
    BY <1>1, <1>2, PTL DEF NodeSpec

(* TxPool under every caller: whatever the interleaving of admissions, blocks,
   reorganisations, evictions and restarts, the image index and the weight are
   those of the entries, and no two entries spend the same output. *)
THEOREM PoolSoundHolds == NodeSpec => []PoolSound
  <1>1. PoolInv => PoolSound
    BY DEF PoolInv, PoolSound, PoolIndexes, PoolOK
  <1>2. QED
    BY <1>1, PoolInvHolds, PTL

-----------------------------------------------------------------------------
(* upgrade and set_relayed, in whatever order the copies of a transaction
   come: while the process lives, one the network knows of stays public. *)
THEOREM StaysPublicHolds == NodeSpec => StaysPublic
  <1>1. ASSUME PoolInv, [NodeNext]_nodeVars, used' = used,
               NEW t \in Held(pool) \cap Held(pool'), Public(pool.entries[t])
        PROVE  Public(pool'.entries[t])
    <2>t. /\ PoolOK(pool) /\ AdmissionClear /\ used \in Nat
          /\ admission = Nobody \/ admission \in [tx : Arriving, method : Methods, now : Nat]
          /\ clock \in Nat /\ orphaned \subseteq Tx
      BY <1>1 DEF PoolInv, NodeTypeOK, TypeInv, TypeOK
    <2>1. CASE pool' = pool
      BY <1>1, <2>1
    <2>2. CASE ClearMined \/ ClearConfirmed \/ ExpirePool \/ \E T : Flush(T)
      <3>1. PICK T : pool' = Remove(pool, T)
        BY <2>2 DEF ClearMined, ClearConfirmed, RemoveConfirmed, RemoveMined, ExpirePool, Expire, Flush
      <3>2. pool'.entries[t] = pool.entries[t]
        BY <1>1, <2>t, <3>1, RemoveOK
      <3>3. QED
        BY <1>1, <3>2
    <2>3. CASE Settle
      <3> DEFINE T == {u \in orphaned : Verifies(u, main)}
                 taken == SpentIn(main)
      <3>1. T \in SUBSET Tx /\ pool' \in AddKept(pool, T, taken, clock)
        BY <2>3, <2>t DEF Settle
      <3> HIDE DEF T, taken
      <3>2. \A u \in Held(pool) : pool'.entries[u] = pool.entries[u]
        <4>1. PoolOK(pool) /\ clock \in Nat
          BY <2>t
        <4>2. QED
          BY <3>1, <4>1, AddKeptOK, ZenonT(30)
      <3>3. QED
        BY <1>1, <3>2
    <2>4. CASE Admitted
      <3>1. admission # Nobody /\ pool' \in Add(pool, admission.tx, admission.method, admission.now)
        BY <2>4 DEF Admitted
      <3>2. admission.tx \in Tx /\ admission.method \in DOMAIN Rank /\ admission.now \in Nat
        BY <2>t, <3>1, ArrivalAssumption, RankType
      <3>3. admission.tx \notin Held(pool) => ImagesOf[admission.tx] \cap DOMAIN pool.spent = {}
        BY <2>t, <3>1 DEF AdmissionClear
      <3>4. \A u \in Held(pool) \cap Held(pool') : Public(pool.entries[u]) => Public(pool'.entries[u])
        BY <2>t, <3>1, <3>2, <3>3, AddOK
      <3>5. QED
        BY <1>1, <3>4
    <2>5. ASSUME NEW u \in Tx, NEW m \in {"Local", "Forward", "Stem", "Fluff"}, TxRelayed(u, m)
          PROVE  Public(pool'.entries[t])
      <3>1. u \in Held(pool) /\ pool' = SetRelayed(pool, u, m) /\ m \in DOMAIN Rank
        BY <2>5, RankType DEF TxRelayed
      <3>2. \A v \in Held(pool) : Public(pool.entries[v]) => Public(pool'.entries[v])
        BY <2>t, <3>1, SetRelayedOK
      <3>3. QED
        BY <1>1, <3>2
    <2>6. ~ NodeRestart
      BY <1>1, <2>t DEF NodeRestart, Restart, Intervene
    <2>7. ASSUME UNCHANGED poolVars \/ Save \/ \E u, m : Admit(u, m) PROVE pool' = pool
      BY <2>7 DEF poolVars, Save, Admit
    <2>8. QED
      BY <1>1, <2>1, <2>2, <2>3, <2>4, <2>5, <2>6, <2>7, PoolSteps
  <1>2. PoolInv /\ [NodeNext]_nodeVars =>
            [\A t \in Held(pool) \cap Held(pool') :
                (Public(pool.entries[t]) /\ used' = used) => Public(pool'.entries[t])]_nodeVars
    BY <1>1
  <1>3. QED
    BY <1>2, PoolInvHolds, PTL DEF NodeSpec, StaysPublic

-----------------------------------------------------------------------------
(* The pool follows the chain. *)

(* No switch ever has to be undone.  One that fails leaves the pool behind:
   `apply` returns its error without a sweep, and what was admitted while the
   old chain was off is not compared with it again. *)
SwitchesSucceed == phase # "unapply"

Clear(T, s) == ImagesIn(T) \cap SpentIn(s) = {}

(* What the pool holds, or is about to: an admission that has passed its
   checks goes in whatever the chain does meanwhile. *)
Checked == IF admission = Nobody THEN Held(pool) ELSE Held(pool) \cup {admission.tx}

(* The pool is compared with the chain it was checked against: the main chain
   while nothing or only pops happened to it, the chain below the tip until a
   new block has been settled with it, and none while links are applied and
   until ClearConfirmed. *)
FollowInv ==
    /\ phase \notin {"unapply", "restore", "purge"}
    /\ phase # "idle" => stage = "free"
    /\ (phase = "idle" /\ stage \in {"free", "settle"}) \/ phase \in {"pop", "popblocks"} =>
           Clear(Checked, main)
    /\ stage = "mined" => Clear(Checked, Drop(main))

LEMMA ClearFewer ==
    ASSUME NEW T, NEW U, U \subseteq T, NEW s, Clear(T, s)
    PROVE  Clear(U, s)
  BY DEF Clear, ImagesIn

LEMMA SpentByRows ==
    ASSUME NEW s \in Seq(Info), s # << >>
    PROVE  SpentIn(s) = SpentIn(Drop(s)) \cup BlockImages(Tip(s).id)
  <1>1. /\ Len(s) \in Nat /\ Len(s) >= 1 /\ DOMAIN s = 1..Len(s)
        /\ DOMAIN Drop(s) = 1..(Len(s) - 1) /\ \A k \in 1..(Len(s) - 1) : Drop(s)[k] = s[k]
    BY TipRow, DropRows
  <1>2. \A k \in DOMAIN s : k \in DOMAIN Drop(s) \/ k = Len(s)
    BY <1>1
  <1>3. \A k \in DOMAIN Drop(s) : k \in DOMAIN s /\ Drop(s)[k] = s[k]
    BY <1>1
  <1>4. Len(s) \in DOMAIN s
    BY <1>1
  <1>5. QED
    BY <1>2, <1>3, <1>4 DEF SpentIn, Tip

LEMMA ClearDrop ==
    ASSUME NEW T, NEW s \in Seq(Info), s # << >>, Clear(T, s)
    PROVE  Clear(T, Drop(s))
  BY SpentByRows DEF Clear

LEMMA DropAppend ==
    ASSUME NEW s \in Seq(Info), NEW r \in Info
    PROVE  Drop(Append(s, r)) = s
  <1> DEFINE a == Append(s, r)
  <1>1. /\ a \in Seq(Info) /\ a # << >> /\ Len(s) \in Nat /\ Len(a) = Len(s) + 1
        /\ \A k \in 1..Len(s) : a[k] = s[k]
    BY AppendRow
  <1> HIDE DEF a
  <1>2. Drop(a) \in Seq(Info) /\ Len(Drop(a)) = Len(s) /\ \A k \in 1..Len(s) : Drop(a)[k] = s[k]
    BY <1>1, DropRows
  <1>3. QED
    BY <1>2, SeqEqual DEF a

(* remove_mined and remove_confirmed leave nothing that spends one of the
   given images. *)
LEMMA RemovedClear ==
    ASSUME NEW p, PoolOK(p), NEW included, NEW images
    PROVE  ImagesIn(Held(RemoveMined(p, included, images))) \cap images = {}
  <1> DEFINE T == included \cup {p.spent[k] : k \in images \cap DOMAIN p.spent}
             q == RemoveMined(p, included, images)
  <1>1. q = Remove(p, T)
    BY DEF RemoveMined
  <1>2. Held(q) = Held(p) \ T
    BY <1>1, RemoveOK
  <1>3. ASSUME NEW k \in images, NEW t \in Held(p) \ T, k \in ImagesOf[t] PROVE FALSE
    <2>1. k \in DOMAIN p.spent /\ p.spent[k] = t
      BY <1>3 DEF PoolOK, IndexesAgree
    <2>2. QED
      BY <1>3, <2>1
  <1>4. QED
    BY <1>2, <1>3 DEF ImagesIn

(* Where the chain call goes, as long as no link is rejected. *)
LEMMA ChainGoesOn ==
    ASSUME Continue, phase \notin {"unapply", "restore", "purge"}, phase' # "unapply"
    PROVE  \/ phase = "pop" /\ phase' = "pop" /\ main' = Drop(main)
           \/ phase = "pop" /\ phase' = "apply"
           \/ phase \in {"apply", "demote", "promote"} /\ phase' \in {"apply", "demote", "promote"}
           \/ phase = "promote" /\ phase' = "idle"
           \/ phase = "popblocks" /\ phase' = "popblocks" /\ main' = Drop(main)
           \/ phase = "popblocks" /\ phase' = "idle" /\ main' = main
  <1>1. CASE PopToSplit \/ PopDone
    BY <1>1 DEF PopToSplit, PopDone
  <1>2. CASE ApplyLink \/ ApplyDone
    BY <1>2 DEF ApplyLink, ApplyDone
  <1>3. CASE RejectLink \/ UnapplyLink \/ UnapplyDone \/ RestoreBlock \/ RestoreFails \/ RestoreDone
             \/ PurgeLink \/ PurgeDone
    BY <1>3 DEF RejectLink, UnapplyLink, UnapplyDone, RestoreBlock, RestoreFails, RestoreDone,
                PurgeLink, PurgeDone
  <1>4. CASE DemoteBlock \/ DemoteDone \/ PromoteLink \/ SwitchDone
    BY <1>4 DEF DemoteBlock, DemoteDone, PromoteLink, SwitchDone
  <1>5. CASE PopOne \/ PopBlocksDone
    BY <1>5 DEF PopOne, PopBlocksDone
  <1>6. QED
    BY <1>1, <1>2, <1>3, <1>4, <1>5 DEF Continue, Switch

(* A step that leaves the chain alone and adds nothing unchecked to the pool. *)
LEMMA PoolOnly ==
    ASSUME FollowInv, UNCHANGED <<main, phase, stage>>, Checked' \subseteq Checked
    PROVE  FollowInv'
  <1>1. ASSUME NEW s, Clear(Checked, s) PROVE Clear(Checked', s)
    BY <1>1, ClearFewer
  <1>2. QED
    BY <1>1 DEF FollowInv

LEMMA SettleStages == \A x : SettleOr(x) \in {"free", "settle"}
  BY DEF SettleOr

LEMMA FollowInvStep ==
    ASSUME "storage" \notin Allowed, PoolInv, FollowInv, [NodeNext]_nodeVars, SwitchesSucceed'
    PROVE  FollowInv'
  <1>t. /\ PoolOK(pool) /\ TypeInv /\ main \in Seq(Info) /\ main # << >> /\ cache \in Info
        /\ orphaned \subseteq Tx /\ clock \in Nat
        /\ DOMAIN saved \subseteq Tx /\ saved \in [DOMAIN saved -> Entry]
        /\ admission = Nobody \/ admission \in [tx : Arriving, method : Methods, now : Nat]
        /\ stage \in {"free", "mined", "reorged", "settle"}
        /\ AdmissionClear
    BY DEF PoolInv, NodeTypeOK, TypeInv, TypeOK
  <1>0. phase' # "unapply"
    BY DEF SwitchesSucceed
  <1>same. ASSUME UNCHANGED poolVars PROVE Checked' = Checked
    BY <1>same DEF poolVars, Checked
  <1>1. ASSUME NEW b \in Block, Submit(b) PROVE FollowInv'
    <2>1. Checked' = Checked /\ stage = "free" /\ phase = "idle" /\ Clear(Checked, main)
      BY <1>1, <1>same DEF Submit, FollowInv, AddToMain, HandleAlternative, AddAlt, RefuseSwitch, BeginSwitch
    <2>2. CASE AddToMain(b) /\ stage' = "mined"
      <3>1. main' = Append(main, RowFor(b, main, cache)) /\ phase' = "idle"
        BY <2>2, <2>1 DEF AddToMain, Commit
      <3>2. RowFor(b, main, cache) \in Info
        BY <1>t, RowForType
      <3>3. Drop(main') = main
        BY <1>t, <3>1, <3>2, DropAppend
      <3>4. Clear(Checked', Drop(main'))
        BY <2>1, <3>3
      <3>5. QED
        BY <2>2, <3>1, <3>4 DEF FollowInv
    <2>3. CASE HandleAlternative(b) /\ UNCHANGED stage
      <3>1. main' = main /\ phase' \in {"idle", "pop"}
        BY <2>1, <2>3 DEF HandleAlternative, AddAlt, RefuseSwitch, BeginSwitch
      <3>2. Clear(Checked', main')
        BY <2>1, <3>1
      <3>3. QED
        BY <2>1, <2>3, <3>1, <3>2 DEF FollowInv
    <2>4. QED
      BY <1>1, <2>2, <2>3 DEF Submit
  <1>2. CASE ChainRuns
    <2>1. Continue /\ Checked' = Checked /\ phase # "idle" /\ stage = "free"
      <3>1. Continue /\ UNCHANGED poolVars
        BY <1>2 DEF ChainRuns
      <3>2. phase # "idle"
        BY <3>1, <1>0, ChainGoesOn DEF FollowInv
      <3>3. QED
        BY <3>1, <3>2, <1>same DEF FollowInv
    <2>2. CASE phase \in {"pop", "popblocks"} /\ phase' = phase /\ main' = Drop(main)
      <3>1. stage' = "free" /\ Clear(Checked, main)
        BY <1>2, <2>1, <2>2 DEF ChainRuns, FollowInv
      <3>2. Clear(Checked', main')
        BY <1>t, <2>1, <2>2, <3>1, ClearDrop
      <3>3. QED
        BY <2>2, <3>1, <3>2 DEF FollowInv
    <2>3. CASE phase' \in {"apply", "demote", "promote"}
      <3>1. stage' = "free"
        BY <1>2, <2>3 DEF ChainRuns
      <3>2. QED
        BY <2>3, <3>1 DEF FollowInv
    <2>4. CASE phase = "promote" /\ phase' = "idle"
      <3>1. stage' = "reorged"
        BY <1>2, <2>4 DEF ChainRuns
      <3>2. QED
        BY <2>4, <3>1 DEF FollowInv
    <2>5. CASE phase = "popblocks" /\ phase' = "idle" /\ main' = main
      <3>1. stage' = SettleOr(orphaned')
        BY <1>2, <2>5 DEF ChainRuns
      <3>2. Clear(Checked', main') /\ stage' \in {"free", "settle"}
        BY <2>1, <2>5, <3>1, SettleStages DEF FollowInv
      <3>3. QED
        BY <2>5, <3>2 DEF FollowInv
    <2>6. QED
      BY <2>1, <2>2, <2>3, <2>4, <2>5, <1>0, ChainGoesOn DEF FollowInv
  <1>3. CASE ClearMined
    <2> DEFINE b == Tip(main).id
    <2>1. /\ stage = "mined" /\ pool' = RemoveMined(pool, TxSet(b), BlockImages(b))
          /\ stage' \in {"free", "settle"} /\ main' = main /\ phase' = phase
          /\ admission = Nobody /\ admission' = Nobody
      BY <1>3, SettleStages DEF ClearMined, PoolLockFree, vars
    <2>2. Checked = Held(pool) /\ Checked' = Held(pool') /\ phase = "idle" /\ Clear(Held(pool), Drop(main))
      BY <2>1 DEF Checked, FollowInv
    <2>3. ImagesIn(Held(pool')) \cap BlockImages(b) = {}
      BY <1>t, <2>1, RemovedClear
    <2>4. PICK T : pool' = Remove(pool, T)
      BY <2>1 DEF RemoveMined
    <2>5. Held(pool') \subseteq Held(pool)
      BY <1>t, <2>4, RemoveOK
    <2>6. Clear(Held(pool'), Drop(main))
      BY <2>2, <2>5, ClearFewer
    <2>7. Clear(Held(pool'), main)
      BY <1>t, <2>3, <2>6, SpentByRows DEF Clear
    <2>8. Clear(Checked', main')
      BY <2>1, <2>2, <2>7
    <2>9. QED
      BY <2>1, <2>2, <2>8 DEF FollowInv
  <1>4. CASE ClearConfirmed
    <2>1. /\ stage = "reorged" /\ pool' = RemoveMined(pool, TxsIn(main), SpentIn(main))
          /\ stage' \in {"free", "settle"} /\ main' = main /\ phase' = phase
          /\ admission' = Nobody
      BY <1>4, SettleStages DEF ClearConfirmed, RemoveConfirmed, PoolLockFree, vars
    <2>2. Checked' = Held(pool') /\ phase = "idle"
      BY <2>1 DEF Checked, FollowInv
    <2>3. Clear(Held(pool'), main)
      BY <1>t, <2>1, RemovedClear DEF Clear
    <2>4. Clear(Checked', main')
      BY <2>1, <2>2, <2>3
    <2>5. QED
      BY <2>1, <2>2, <2>4 DEF FollowInv
  <1>5. CASE Settle
    <2> DEFINE T == {t \in orphaned : Verifies(t, main)}
               taken == SpentIn(main)
    <2>1. /\ stage = "settle" /\ stage' = "free" /\ main' = main /\ phase' = phase
          /\ admission = Nobody /\ admission' = Nobody
          /\ T \in SUBSET Tx /\ pool' \in AddKept(pool, T, taken, clock)
      BY <1>5, <1>t DEF Settle, TakeOrphaned, PoolLockFree
    <2>2. /\ Checked = Held(pool) /\ Checked' = Held(pool') /\ phase = "idle"
          /\ Clear(Held(pool), main)
      BY <2>1 DEF Checked, FollowInv
    <2> HIDE DEF T
    <2>3. ImagesIn(Held(pool') \ Held(pool)) \cap taken = {}
      <3> HIDE DEF taken
      <3>1. PoolOK(pool) /\ clock \in Nat
        BY <1>t
      <3>2. QED
        BY <2>1, <3>1, AddKeptOK, ZenonT(30)
    <2>4. ImagesIn(Held(pool')) \subseteq ImagesIn(Held(pool)) \cup ImagesIn(Held(pool') \ Held(pool))
      BY DEF ImagesIn
    <2>5. Clear(Held(pool'), main)
      BY <2>2, <2>3, <2>4 DEF Clear
    <2>6. Clear(Checked', main')
      BY <2>1, <2>2, <2>5
    <2>7. QED
      BY <2>1, <2>2, <2>6 DEF FollowInv
  <1>6. ASSUME NEW n, Pop(n) PROVE FollowInv'
    <2>1. /\ Checked' = Checked /\ stage = "free" /\ stage' = "free" /\ phase = "idle"
          /\ phase' = "popblocks" /\ main' = main
      BY <1>6, <1>same DEF Pop, PopBlocks
    <2>2. Clear(Checked', main')
      BY <2>1 DEF FollowInv
    <2>3. QED
      BY <2>1, <2>2 DEF FollowInv
  <1>7. ASSUME NEW t \in Arriving, NEW m \in Methods, Admit(t, m) PROVE FollowInv'
    <2>1. /\ UNCHANGED <<main, phase, stage, pool>> /\ admission = Nobody
          /\ admission' = [tx |-> t, method |-> m, now |-> clock]
          /\ Unspent(pool, t, SpentIn(main))
      BY <1>7 DEF Admit, Admissible, PoolLockFree, vars
    <2>2. Checked' \subseteq Checked \cup {t}
      BY <2>1 DEF Checked
    <2>3. Clear({t}, main)
      BY <2>1 DEF Unspent, Clear, ImagesIn
    <2>4. Clear({t}, Drop(main))
      BY <1>t, <2>3, ClearDrop
    <2>5. ASSUME NEW s, Clear(Checked, s), Clear({t}, s) PROVE Clear(Checked', s)
      <3>1. Clear(Checked \cup {t}, s)
        BY <2>5 DEF Clear, ImagesIn
      <3>2. QED
        BY <2>2, <3>1, ClearFewer
    <2>6. QED
      BY <2>1, <2>3, <2>4, <2>5 DEF FollowInv
  <1>8. CASE Admitted
    <2>1. /\ admission # Nobody /\ admission' = Nobody /\ UNCHANGED <<main, phase, stage>>
          /\ pool' \in Add(pool, admission.tx, admission.method, admission.now)
      BY <1>8 DEF Admitted, vars
    <2>2. admission.tx \in Tx /\ admission.method \in DOMAIN Rank /\ admission.now \in Nat
      BY <1>t, <2>1, ArrivalAssumption, RankType
    <2>3. admission.tx \notin Held(pool) => ImagesOf[admission.tx] \cap DOMAIN pool.spent = {}
      BY <1>t, <2>1 DEF AdmissionClear
    <2>4. Held(pool') \subseteq Held(pool) \cup {admission.tx}
      BY <1>t, <2>1, <2>2, <2>3, AddOK
    <2>5. Checked' \subseteq Checked
      BY <2>1, <2>4 DEF Checked
    <2>6. QED
      BY <2>1, <2>5, PoolOnly
  <1>9. ASSUME NEW t \in Tx, NEW m \in {"Local", "Forward", "Stem", "Fluff"}, TxRelayed(t, m)
        PROVE  FollowInv'
    <2>1. /\ admission = Nobody /\ admission' = Nobody /\ UNCHANGED <<main, phase, stage>>
          /\ t \in Held(pool) /\ pool' = SetRelayed(pool, t, m) /\ m \in DOMAIN Rank
      BY <1>9, RankType DEF TxRelayed, PoolLockFree, vars
    <2>2. Held(pool') = Held(pool)
      BY <1>t, <2>1, SetRelayedOK
    <2>3. Checked' \subseteq Checked
      BY <2>1, <2>2 DEF Checked
    <2>4. QED
      BY <2>1, <2>3, PoolOnly
  <1>10. CASE ExpirePool \/ \E T : Flush(T)
    <2>1. admission = Nobody /\ admission' = Nobody /\ UNCHANGED <<main, phase, stage>>
      BY <1>10 DEF ExpirePool, Flush, PoolLockFree, vars
    <2>2. PICK T : pool' = Remove(pool, T)
      BY <1>10 DEF ExpirePool, Flush, Expire
    <2>3. Held(pool') \subseteq Held(pool)
      BY <1>t, <2>2, RemoveOK
    <2>4. Checked' \subseteq Checked
      BY <2>1, <2>3 DEF Checked
    <2>5. QED
      BY <2>1, <2>4, PoolOnly
  <1>11. CASE Save \/ Time \/ UNCHANGED nodeVars
    <2>1. UNCHANGED <<main, phase, stage, pool, admission>>
      BY <1>11 DEF Save, Time, Tick, SetClockBack, nodeVars, vars, poolVars
    <2>2. Checked' = Checked
      BY <2>1 DEF Checked
    <2>3. QED
      BY <2>1, <2>2, PoolOnly
  <1>12. CASE NodeRestart
    <2>1. /\ admission' = Nobody /\ stage' = "free" /\ phase' = "idle" /\ main' = main
          /\ pool' \in Load(saved, TxsIn(main), SpentIn(main), clock)
      BY <1>12 DEF NodeRestart, Restart
    <2>2. Checked' = Held(pool')
      BY <2>1 DEF Checked
    <2>3. Clear(Held(pool'), main)
      BY <1>t, <2>1, LoadOK DEF Clear
    <2>4. Clear(Checked', main')
      BY <2>1, <2>2, <2>3
    <2>5. QED
      BY <2>1, <2>4 DEF FollowInv
  <1>13. ~ NodeStorageError
    BY DEF NodeStorageError, StorageError, Intervene
  <1>14. QED
    BY <1>1, <1>2, <1>3, <1>4, <1>5, <1>6, <1>7, <1>8, <1>9, <1>10, <1>11, <1>12, <1>13
    DEF NodeNext, Maintain

(* What spends nothing the chain spends is not on the chain: every transaction
   spends something. *)
LEMMA ClearNotOnChain ==
    ASSUME NEW T \in SUBSET Tx, NEW s, Clear(T, s)
    PROVE  T \cap TxsIn(s) = {}
  <1> SUFFICES ASSUME NEW t \in T, t \in TxsIn(s) PROVE FALSE
    OBVIOUS
  <1>1. PICK k \in DOMAIN s : t \in TxSet(s[k].id)
    BY DEF TxsIn
  <1>2. ImagesOf[t] \subseteq BlockImages(s[k].id)
    BY <1>1 DEF BlockImages
  <1>3. BlockImages(s[k].id) \subseteq SpentIn(s)
    BY DEF SpentIn
  <1>4. ImagesOf[t] # {} /\ ImagesOf[t] \subseteq ImagesIn(T)
    BY InputAssumption DEF ImagesIn
  <1>5. QED
    BY <1>2, <1>3, <1>4 DEF Clear

(* The order of the locks and what `after` does: as long as no switch fails,
   whoever finds both locks free finds nothing in the pool that the chain has
   or conflicts with, although an admission checks and inserts at two moments
   between which the chain moves. *)
THEOREM PoolFollowsChainHolds ==
    ASSUME "storage" \notin Allowed
    PROVE  NodeSpec /\ []SwitchesSucceed => []PoolFollowsChain
  <1>1. NodeInit => FollowInv
    <2> SUFFICES ASSUME NodeInit PROVE FollowInv
      OBVIOUS
    <2>1. Checked = {}
      BY DEF NodeInit, Checked, EmptyPool, Held
    <2>2. phase = "idle" /\ stage = "free"
      BY DEF NodeInit, Init
    <2>3. \A s : Clear({}, s)
      BY DEF Clear, ImagesIn
    <2>4. QED
      BY <2>1, <2>2, <2>3 DEF FollowInv
  <1>2. PoolInv /\ FollowInv /\ [NodeNext]_nodeVars /\ SwitchesSucceed' => FollowInv'
    BY FollowInvStep
  <1>3. PoolInv /\ FollowInv => PoolFollowsChain
    <2> SUFFICES ASSUME PoolInv, FollowInv, ChainLockFree, PoolLockFree
                 PROVE  Held(pool) \cap TxsIn(main) = {} /\ ImagesIn(Held(pool)) \cap SpentIn(main) = {}
      BY DEF PoolFollowsChain
    <2>1. Clear(Held(pool), main) /\ Held(pool) \in SUBSET Tx
      BY DEF FollowInv, ChainLockFree, PoolLockFree, Checked, PoolInv, PoolOK
    <2>2. QED
      BY <2>1, ClearNotOnChain DEF Clear
  <1>4. QED
    BY <1>1, <1>2, <1>3, PoolInvHolds, PTL DEF NodeSpec

-----------------------------------------------------------------------------
(* What came off the chain goes back to the pool. *)

(* Transactions wait in orphaned_txs only from the pop that took them off
   until Settle; and what a call took off is on the chain again or waits. *)
HandOver ==
    /\ stage # "free" => phase = "idle"
    /\ stage \in {"reorged", "settle"} => TxsIn(before) \subseteq TxsIn(main) \cup orphaned
    /\ phase = "idle" /\ stage \in {"free", "mined"} => orphaned = {}
    /\ phase \notin {"idle", "popblocks"} => orphaned = {}

DisplacedInv == PoolInv /\ SoundInv /\ SwitchTrace /\ PopTrace /\ HandOver

LEMMA ChainInvStep ==
    ASSUME Reliable, SoundInv, SwitchTrace, PopTrace, [NodeNext]_nodeVars
    PROVE  SoundInv' /\ SwitchTrace' /\ PopTrace'
  <1>1. CASE [Next]_vars
    BY <1>1, SoundInvStep, SwitchTraceStep, PopTraceStep DEF SoundInv
  <1>2. CASE Save
    <2>1. UNCHANGED <<main, alts, altTxs, orphaned, cache, phase, sw, clock, before>>
      BY <1>2 DEF Save
    <2>2. SoundInv'
      <3>1. TypeInv'
        BY ChainTypes DEF SoundInv
      <3>2. CacheCoherent'
        BY <2>1 DEF SoundInv, CacheCoherent
      <3>3. MainValid' /\ sw'.now <= clock'
        BY <2>1 DEF SoundInv, MainValid
      <3>4. QED
        BY <3>1, <3>2, <3>3 DEF SoundInv
    <2>3. SwitchTrace'
      BY <2>1 DEF SwitchTrace, OldRows, PoppedAbove, BelowSplit, LinksOn
    <2>4. PopTrace'
      BY <2>1 DEF PopTrace, OldRows
    <2>5. QED
      BY <2>2, <2>3, <2>4
  <1>3. QED
    BY <1>1, <1>2, NodeSteps

LEMMA NoRestart ==
    ASSUME TypeInv, used' = used
    PROVE  ~ Restart
  BY DEF TypeInv, TypeOK, Restart, Intervene

LEMMA RunsNotRestart ==
    ASSUME TypeInv, Continue
    PROVE  ~ Restart
  <1>1. used' = used
    BY DEF Continue, Switch, PopToSplit, PopDone, ApplyLink, RejectLink, ApplyDone, UnapplyLink,
           UnapplyDone, RestoreBlock, RestoreFails, RestoreDone, PurgeLink, PurgeDone,
           DemoteBlock, DemoteDone, PromoteLink, SwitchDone, PopOne, PopBlocksDone
  <1>2. QED
    BY <1>1, NoRestart

LEMMA HandOverStep ==
    ASSUME Reliable, DisplacedInv, [NodeNext]_nodeVars
    PROVE  HandOver'
  <1>i. PoolInv /\ SoundInv /\ SwitchTrace /\ PopTrace /\ HandOver /\ TypeInv
    BY DEF DisplacedInv, PoolInv
  <1>s. stage \in {"free", "mined", "reorged", "settle"}
    BY <1>i DEF PoolInv, NodeTypeOK
  <1>1. ASSUME NEW b \in Block, Submit(b) PROVE HandOver'
    <2>1. stage = "free" /\ phase = "idle" /\ orphaned' = orphaned /\ orphaned = {}
      BY <1>1, <1>i DEF Submit, AddToMain, HandleAlternative, AddAlt, RefuseSwitch, BeginSwitch, HandOver
    <2>2. \/ stage' = "mined" /\ phase' = "idle"
          \/ stage' = "free" /\ phase' \in {"idle", "pop"}
      BY <1>1, <2>1 DEF Submit, AddToMain, HandleAlternative, AddAlt, RefuseSwitch, BeginSwitch
    <2>3. QED
      BY <2>1, <2>2 DEF HandOver
  <1>2. CASE ChainRuns
    <2>1. Continue /\ [Next]_vars /\ ~ Restart
      BY <1>2, <1>i, RunsNotRestart DEF ChainRuns, Next
    <2>2. phase # "idle"
      BY <2>1 DEF Continue, Switch, PopToSplit, PopDone, ApplyLink, RejectLink, ApplyDone, UnapplyLink,
           UnapplyDone, RestoreBlock, RestoreFails, RestoreDone, PurgeLink, PurgeDone,
           DemoteBlock, DemoteDone, PromoteLink, SwitchDone, PopOne, PopBlocksDone
    <2>3. CASE phase' # "idle"
      <3>1. stage' = "free"
        BY <1>2, <2>3 DEF ChainRuns
      <3>2. phase' # "popblocks" => orphaned' = orphaned /\ phase # "popblocks"
        BY <2>1, <2>3 DEF Continue, Switch, PopToSplit, PopDone, ApplyLink, RejectLink, ApplyDone,
           UnapplyLink, UnapplyDone, RestoreBlock, RestoreFails, RestoreDone, PurgeLink, PurgeDone,
           DemoteBlock, DemoteDone, PromoteLink, SwitchDone, PopOne, PopBlocksDone
      <3>3. QED
        BY <1>i, <2>2, <2>3, <3>1, <3>2 DEF HandOver
    <2>4. CASE phase' = "idle"
      <3>1. TxsIn(before) \subseteq TxsIn(main') \cup orphaned'
        BY <1>i, <2>1, <2>2, <2>4, CallKeepsTxs
      <3>2. before' = before
        BY <2>1 DEF Continue, Switch, PopToSplit, PopDone, ApplyLink, RejectLink, ApplyDone,
           UnapplyLink, UnapplyDone, RestoreBlock, RestoreFails, RestoreDone, PurgeLink, PurgeDone,
           DemoteBlock, DemoteDone, PromoteLink, SwitchDone, PopOne, PopBlocksDone
      <3>3. PurgeDone \/ SwitchDone \/ PopBlocksDone
        BY <1>i, <2>1, <2>2, <2>4, CallEnds
      <3>4. CASE PurgeDone
        <4>1. stage' = "free" /\ orphaned' = {}
          BY <1>2, <1>i, <3>4 DEF PurgeDone, ChainRuns, HandOver
        <4>2. QED
          BY <2>4, <4>1 DEF HandOver
      <3>5. CASE SwitchDone
        <4>1. stage' = "reorged"
          BY <1>2, <2>4, <3>5 DEF SwitchDone, ChainRuns
        <4>2. QED
          BY <2>4, <3>1, <3>2, <4>1 DEF HandOver
      <3>6. CASE PopBlocksDone
        <4>1. stage' = SettleOr(orphaned')
          BY <1>2, <2>4, <3>6 DEF PopBlocksDone, ChainRuns
        <4>2. QED
          BY <2>4, <3>1, <3>2, <4>1 DEF HandOver, SettleOr
      <3>7. QED
        BY <3>3, <3>4, <3>5, <3>6
    <2>5. QED
      BY <2>3, <2>4
  <1>3. CASE ClearMined \/ ClearConfirmed
    <2>1. /\ stage \in {"mined", "reorged"} /\ phase = "idle" /\ stage' = SettleOr(orphaned)
          /\ UNCHANGED <<main, before, orphaned, phase>>
      BY <1>3, <1>i DEF ClearMined, ClearConfirmed, HandOver, vars
    <2>2. QED
      BY <1>i, <2>1 DEF HandOver, SettleOr
  <1>4. CASE Settle
    BY <1>4 DEF Settle, TakeOrphaned, HandOver
  <1>5. ASSUME NEW n, Pop(n) PROVE HandOver'
    BY <1>5 DEF Pop, PopBlocks, HandOver
  <1>6. ASSUME NodeRestart PROVE HandOver'
    BY <1>6 DEF NodeRestart, Restart, HandOver
  <1>7. ASSUME \/ Admitted \/ ExpirePool \/ Save \/ Time \/ UNCHANGED nodeVars
               \/ \E t, m : Admit(t, m) \/ TxRelayed(t, m)
               \/ \E T : Flush(T)
        PROVE  HandOver'
    <2>1. UNCHANGED <<main, before, orphaned, phase, stage>>
      BY <1>7 DEF Admitted, ExpirePool, Save, Time, Tick, SetClockBack, nodeVars, Admit, TxRelayed,
           Flush, vars
    <2>2. QED
      BY <1>i, <2>1 DEF HandOver
  <1>8. ~ NodeStorageError
    BY DEF NodeStorageError, StorageError, Intervene, Reliable
  <1>9. QED
    BY <1>1, <1>2, <1>3, <1>4, <1>5, <1>6, <1>7, <1>8 DEF NodeNext, Maintain

(* add_kept_by_block turns away only what spends something spent already. *)
LEMMA KeptOrSpent ==
    ASSUME NEW p, PoolOK(p), NEW T \in SUBSET Tx, NEW spentOnChain, NEW now \in Nat,
           NEW q \in AddKept(p, T, spentOnChain, now), NEW t \in T
    PROVE  t \in Held(q) \/ ImagesOf[t] \cap (spentOnChain \cup DOMAIN q.spent) # {}
  <1> DEFINE taken == spentOnChain \cup DOMAIN p.spent
             disjoint(S) == /\ ImagesIn(S) \cap taken = {}
                            /\ \A u, v \in S : u # v => ImagesOf[u] \cap ImagesOf[v] = {}
  <1>1. PICK S \in FirstCome(T \ Held(p), taken) :
            q = InsertAll(p, [u \in S |-> [relay |-> "Block", received |-> now]])
    BY DEF AddKept
  <1>2. S \subseteq T \ Held(p) /\ disjoint(S) /\ \A u \in (T \ Held(p)) \ S : ~ disjoint(S \cup {u})
    BY <1>1 DEF FirstCome
  <1>3. /\ Held(q) = Held(p) \cup S
        /\ DOMAIN q.spent = ImagesIn(S) \cup DOMAIN p.spent
    BY <1>1 DEF InsertAll, Over, Held
  <1>4. CASE t \in Held(p) \cup S
    BY <1>3, <1>4
  <1>5. CASE t \notin Held(p) \cup S
    <2>1. ~ disjoint(S \cup {t})
      BY <1>2, <1>5
    <2>2. CASE ~ (ImagesIn(S \cup {t}) \cap taken = {})
      <3>1. ImagesIn(S \cup {t}) = ImagesIn(S) \cup ImagesOf[t]
        BY DEF ImagesIn
      <3>2. ImagesOf[t] \cap taken # {}
        BY <1>2, <2>2, <3>1
      <3>3. QED
        BY <1>3, <3>2
    <2>3. CASE \E u, v \in S \cup {t} : u # v /\ ImagesOf[u] \cap ImagesOf[v] # {}
      <3>1. PICK u, v \in S \cup {t} : u # v /\ ImagesOf[u] \cap ImagesOf[v] # {}
        BY <2>3
      <3>2. \E w \in S : ImagesOf[t] \cap ImagesOf[w] # {}
        <4>1. CASE u \in S /\ v \in S
          BY <1>2, <3>1, <4>1
        <4>2. CASE u = t
          BY <3>1, <4>2
        <4>3. CASE v = t
          BY <3>1, <4>3
        <4>4. QED
          BY <4>1, <4>2, <4>3
      <3>3. ImagesOf[t] \cap ImagesIn(S) # {}
        BY <3>2 DEF ImagesIn
      <3>4. QED
        BY <1>3, <3>3
    <2>4. QED
      BY <2>1, <2>2, <2>3
  <1>6. QED
    BY <1>4, <1>5

(* settle: over a store that works and a clock that runs forwards, when a
   reorganisation or pop_blocks lets go of the chain, each transaction it took
   off is in the pool, unless another spends what it spends or its rings name
   outputs that went with the old blocks. *)
THEOREM DisplacedReturnHolds ==
    ASSUME Reliable
    PROVE  NodeSpec => DisplacedReturn
  <1> DEFINE Back(t) == \/ t \in Held(pool')
                        \/ ImagesOf[t] \cap (SpentIn(main') \cup DOMAIN pool'.spent) # {}
                        \/ ~ Verifies(t, main')
  <1>1. NodeInit => SoundInv /\ SwitchTrace /\ PopTrace /\ HandOver
    <2> SUFFICES ASSUME NodeInit PROVE SoundInv /\ SwitchTrace /\ PopTrace /\ HandOver
      OBVIOUS
    <2>1. SoundInv
      BY SoundInvInit DEF NodeInit
    <2>2. SwitchTrace /\ PopTrace
      BY DEF NodeInit, Init, SwitchTrace, SwitchPhases, PopTrace
    <2>3. HandOver
      BY DEF NodeInit, Init, HandOver
    <2>4. QED
      BY <2>1, <2>2, <2>3
  <1>2. DisplacedInv /\ [NodeNext]_nodeVars => SoundInv' /\ SwitchTrace' /\ PopTrace' /\ HandOver'
    BY ChainInvStep, HandOverStep DEF DisplacedInv
  <1>3. ASSUME DisplacedInv, HandOver', [NodeNext]_nodeVars,
               ~ ChainLockFree, stage # "mined", ChainLockFree', used' = used,
               NEW t \in TxsIn(before) \ TxsIn(main')
        PROVE  Back(t)
    <2>i. /\ PoolInv /\ SoundInv /\ SwitchTrace /\ PopTrace /\ HandOver /\ TypeInv /\ PoolOK(pool)
          /\ clock \in Nat /\ orphaned \subseteq Tx
          /\ stage \in {"free", "mined", "reorged", "settle"}
      BY <1>3 DEF DisplacedInv, PoolInv, TypeInv, TypeOK, NodeTypeOK
    <2>f. phase' = "idle" /\ stage' = "free" /\ orphaned' = {}
      BY <1>3 DEF ChainLockFree, HandOver
    <2>1. CASE phase # "idle"
      <3>1. [Next]_vars
        <4>1. ~ Save
          BY <2>1, <2>f DEF Save
        <4>2. QED
          BY <1>3, <4>1, NodeSteps
      <3>2. ~ Restart
        BY <1>3, <2>i, NoRestart
      <3>3. TxsIn(before) \subseteq TxsIn(main') \cup orphaned'
        BY <2>i, <2>1, <2>f, <3>1, <3>2, CallKeepsTxs
      <3>4. QED
        BY <1>3, <2>f, <3>3
    <2>2. CASE phase = "idle"
      <3>1. stage \in {"reorged", "settle"} /\ TxsIn(before) \subseteq TxsIn(main) \cup orphaned
        BY <1>3, <2>2, <2>i DEF ChainLockFree, HandOver
      <3>2. stage' # stage
        BY <2>f, <3>1
      <3>3. ClearConfirmed \/ Settle
        <4>1. ~ (\E b \in Block : Submit(b)) /\ ~ (\E n \in 1..Len(main) : Pop(n)) /\ ~ ClearMined
          BY <3>1 DEF Submit, Pop, ClearMined
        <4>2. ~ ChainRuns
          BY <2>2 DEF ChainRuns, Continue, Switch, PopToSplit, PopDone, ApplyLink, RejectLink,
               ApplyDone, UnapplyLink, UnapplyDone, RestoreBlock, RestoreFails, RestoreDone,
               PurgeLink, PurgeDone, DemoteBlock, DemoteDone, PromoteLink, SwitchDone, PopOne,
               PopBlocksDone
        <4>3. ~ NodeRestart
          BY <1>3, <2>i, NoRestart DEF NodeRestart
        <4>4. ASSUME \/ Admitted \/ ExpirePool \/ Save \/ Time \/ UNCHANGED nodeVars
                     \/ NodeStorageError
                     \/ \E u, m : Admit(u, m) \/ TxRelayed(u, m)
                     \/ \E T : Flush(T)
              PROVE  stage' = stage
          BY <4>4 DEF Admitted, ExpirePool, Save, Time, nodeVars, NodeStorageError, Admit, TxRelayed, Flush
        <4>5. QED
          BY <1>3, <3>2, <4>1, <4>2, <4>3, <4>4 DEF NodeNext, Maintain
      <3>4. CASE ClearConfirmed
        <4>1. main' = main /\ orphaned' = orphaned
          BY <3>4 DEF ClearConfirmed, vars
        <4>2. QED
          BY <1>3, <2>f, <3>1, <4>1
      <3>5. CASE Settle
        <4> DEFINE T == {u \in orphaned : Verifies(u, main)}
                   taken == SpentIn(main)
        <4>1. main' = main /\ T \in SUBSET Tx /\ pool' \in AddKept(pool, T, taken, clock)
          BY <3>5, <2>i DEF Settle, TakeOrphaned
        <4>2. t \in orphaned
          BY <1>3, <3>1, <4>1
        <4>3. CASE ~ Verifies(t, main)
          BY <4>1, <4>3 DEF Verifies
        <4>4. CASE Verifies(t, main)
          <5>1. t \in T
            BY <4>2, <4>4
          <5> HIDE DEF T, taken
          <5>2. PoolOK(pool) /\ clock \in Nat
            BY <2>i
          <5>3. t \in Held(pool') \/ ImagesOf[t] \cap (taken \cup DOMAIN pool'.spent) # {}
            BY <4>1, <5>1, <5>2, KeptOrSpent, ZenonT(30)
          <5>4. taken = SpentIn(main')
            BY <4>1 DEF taken
          <5>5. QED
            BY <5>3, <5>4
        <4>5. QED
          BY <4>3, <4>4
      <3>6. QED
        BY <3>3, <3>4, <3>5
    <2>3. QED
      BY <2>1, <2>2
  <1>4. DisplacedInv /\ HandOver' /\ [NodeNext]_nodeVars =>
          [(~ ChainLockFree /\ stage # "mined" /\ ChainLockFree' /\ used' = used) =>
              \A t \in TxsIn(before) \ TxsIn(main') : Back(t)]_nodeVars
    BY <1>3
  <1>5. DisplacedInv <=> PoolInv /\ SoundInv /\ SwitchTrace /\ PopTrace /\ HandOver
    BY DEF DisplacedInv
  <1>6. QED
    BY <1>1, <1>2, <1>4, <1>5, PoolInvHolds, PTL DEF NodeSpec, DisplacedReturn
=============================================================================
