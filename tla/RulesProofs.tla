---------------------------- MODULE RulesProofs ----------------------------
(***************************************************************************)
(* Proofs about Rules and the arithmetic below it, for windows, chains and *)
(* fork tables of any size: the rolling median is the median, the carried  *)
(* state is the one read back, an alternative chain is asked for the same  *)
(* difficulty, median time does not go back, no block earns by being       *)
(* heavier, and the fee a wallet is told to pay is enough.                 *)
(***************************************************************************)
EXTENDS Rules, TLAPS, FiniteSetTheorems, FunctionTheorems, SequenceTheorems, NaturalsInduction,
        WellFoundedInduction

-----------------------------------------------------------------------------
(* Least and greatest elements. *)

LEMMA LeastNumber ==
    ASSUME NEW T \in SUBSET Nat, T # {}
    PROVE  \E x \in T : \A y \in T : x <= y
  <1> DEFINE R == OpToRel(<, Nat)
  <1>1. IsWellFoundedOn(R, Nat)
    BY NatLessThanWellFounded, Zenon
  <1>2. \A x, y \in Nat : x < y => <<x, y>> \in R
    BY DEF OpToRel
  <1> HIDE DEF R
  <1>3. PICK x \in T : \A y \in T : ~ (<<y, x>> \in R)
    BY <1>1, WFMin
  <1>4. \A y \in T : ~ (y < x)
    BY <1>2, <1>3
  <1>5. QED
    BY <1>4

(* Numbers below a bound have a greatest: the least of what they leave to it. *)
LEMMA GreatestNumber ==
    ASSUME NEW T \in SUBSET Nat, T # {}, NEW n \in Nat, \A x \in T : x <= n
    PROVE  \E x \in T : \A y \in T : y <= x
  <1> DEFINE R == {n - x : x \in T}
  <1>1. R \in SUBSET Nat /\ R # {}
    <2>1. PICK x \in T : TRUE
      OBVIOUS
    <2>2. n - x \in R /\ \A y \in T : n - y \in Nat
      OBVIOUS
    <2>3. QED
      BY <2>2
  <1>2. PICK r \in R : \A q \in R : r <= q
    <2> HIDE DEF R
    <2>1. QED
      BY <1>1, LeastNumber
  <1>3. PICK x \in T : r = n - x
    BY <1>2
  <1>4. \A y \in T : n - x <= n - y
    BY <1>2, <1>3
  <1>5. QED
    BY <1>3, <1>4

(* The places of a sequence of naturals among which its values are bounded. *)
LEMMA ValuesBounded ==
    ASSUME NEW s \in Seq(Nat)
    PROVE  \E n \in Nat : \A k \in DOMAIN s : s[k] <= n
  <1> DEFINE Bad == {k \in 0..Len(s) : ~ \E n \in Nat : \A j \in 1..k : s[j] <= n}
  <1>1. SUFFICES ASSUME Bad # {} PROVE FALSE
    <2>1. Len(s) \in 0..Len(s) /\ DOMAIN s = 1..Len(s)
      OBVIOUS
    <2>2. QED
      BY <2>1
  <1>2. PICK k \in Bad : \A j \in Bad : k <= j
    <2>1. Bad \in SUBSET Nat
      OBVIOUS
    <2> HIDE DEF Bad
    <2>2. QED
      BY <1>1, <2>1, LeastNumber
  <1>t. k \in 0..Len(s) /\ Len(s) \in Nat
    BY <1>2
  <1>3. k # 0
    <2>1. \A j \in 1..0 : s[j] <= 0
      OBVIOUS
    <2>2. QED
      BY <2>1
  <1>4. k - 1 \in 0..Len(s) /\ k - 1 \notin Bad /\ k \in 1..Len(s)
    <2>1. k - 1 \in 0..Len(s) /\ k \in 1..Len(s) /\ ~ (k <= k - 1)
      BY <1>3, <1>t
    <2>2. QED
      BY <1>2, <2>1
  <1>5. PICK n \in Nat : \A j \in 1..(k - 1) : s[j] <= n
    BY <1>4
  <1>6. s[k] \in Nat /\ n + s[k] \in Nat /\ \A j \in 1..k : s[j] \in Nat /\ (j = k \/ j \in 1..(k - 1))
    <2> HIDE DEF Bad
    <2>1. \A j \in 1..k : j \in 1..Len(s) /\ (j = k \/ j \in 1..(k - 1))
      BY <1>4, <1>t
    <2>2. \A j \in 1..Len(s) : s[j] \in Nat
      OBVIOUS
    <2>3. QED
      BY <1>4, <2>1, <2>2
  <1>7. \A j \in 1..k : s[j] <= n + s[k]
    <2> HIDE DEF Bad
    <2>1. SUFFICES ASSUME NEW j \in 1..k PROVE s[j] <= n + s[k]
      OBVIOUS
    <2>2. s[j] \in Nat /\ s[k] \in Nat /\ (j = k \/ s[j] <= n)
      BY <1>5, <1>6
    <2>3. QED
      BY <2>2
  <1>8. QED
    BY <1>2, <1>6, <1>7

(* Of some places of a sequence, one has the greatest value and one the least. *)
LEMMA ExtremePlaces ==
    ASSUME NEW s \in Seq(Nat), NEW S \in SUBSET DOMAIN s, S # {}
    PROVE  /\ \E m \in S : \A k \in S : s[k] <= s[m]
           /\ \E m \in S : \A k \in S : s[m] <= s[k]
  <1> DEFINE T == {s[k] : k \in S}
  <1>1. PICK n \in Nat : \A k \in DOMAIN s : s[k] <= n
    BY ValuesBounded
  <1>2. T \in SUBSET Nat /\ T # {} /\ \A x \in T : x <= n
    BY <1>1
  <1>3. (\E x \in T : \A y \in T : y <= x) /\ \E x \in T : \A y \in T : x <= y
    <2> HIDE DEF T
    <2>1. QED
      BY <1>2, LeastNumber, GreatestNumber
  <1>4. QED
    BY <1>3

-----------------------------------------------------------------------------
(* Counting places. *)

LEMMA PlacesFinite ==
    ASSUME NEW s \in Seq(Nat)
    PROVE  /\ IsFiniteSet(DOMAIN s) /\ Cardinality(DOMAIN s) = Len(s)
           /\ \A S \in SUBSET DOMAIN s : IsFiniteSet(S) /\ Cardinality(S) \in Nat
  <1>1. IsFiniteSet(1..Len(s)) /\ Cardinality(1..Len(s)) = Len(s)
    <2>1. Len(s) \in Nat /\ 1 \in Int /\ Len(s) \in Int
      OBVIOUS
    <2>2. /\ IsFiniteSet(1..Len(s))
          /\ Cardinality(1..Len(s)) = IF 1 > Len(s) THEN 0 ELSE Len(s) - 1 + 1
      BY <2>1, FS_Interval, Zenon
    <2>3. QED
      BY <2>1, <2>2
  <1>2. QED
    BY <1>1, FS_Subset, FS_CardinalityType

(* Sets of places, counted one by one and against each other. *)
LEMMA CountPlaces ==
    ASSUME NEW s \in Seq(Nat), NEW S \in SUBSET DOMAIN s, NEW T \in SUBSET DOMAIN s
    PROVE  /\ S \subseteq T => Cardinality(S) <= Cardinality(T)
           /\ S \subseteq T /\ S # T => Cardinality(S) < Cardinality(T)
           /\ S \cap T = {} => Cardinality(S \cup T) = Cardinality(S) + Cardinality(T)
           /\ \A k \in DOMAIN s : k \notin S => Cardinality(S \cup {k}) = Cardinality(S) + 1
           /\ \A k \in S : Cardinality(S \ {k}) = Cardinality(S) - 1
           /\ Cardinality(S) = 0 <=> S = {}
  <1>1. /\ IsFiniteSet(S) /\ IsFiniteSet(T) /\ IsFiniteSet(S \cap T) /\ Cardinality(S) \in Nat
        /\ Cardinality(T) \in Nat /\ Cardinality(S \cap T) \in Nat
    <2>1. S \cap T \in SUBSET DOMAIN s
      OBVIOUS
    <2>2. QED
      BY <2>1, PlacesFinite
  <1>2. S \subseteq T => Cardinality(S) <= Cardinality(T) /\ (Cardinality(T) = Cardinality(S) => T = S)
    BY <1>1, FS_Subset
  <1>3. S \cap T = {} => Cardinality(S \cup T) = Cardinality(S) + Cardinality(T)
    <2>1. Cardinality(S \cup T) = Cardinality(S) + Cardinality(T) - Cardinality(S \cap T)
      BY <1>1, FS_Union
    <2>2. Cardinality({}) = 0
      BY FS_EmptySet
    <2>3. S \cap T = {} => Cardinality(S \cap T) = 0
      BY <2>2
    <2>4. QED
      BY <1>1, <2>1, <2>3
  <1>4. \A k : k \notin S => Cardinality(S \cup {k}) = Cardinality(S) + 1
    BY <1>1, FS_AddElement
  <1>5. \A k \in S : Cardinality(S \ {k}) = Cardinality(S) - 1
    BY <1>1, FS_RemoveElement
  <1>6. Cardinality(S) = 0 <=> S = {}
    BY <1>1, FS_EmptySet
  <1>7. QED
    BY <1>1, <1>2, <1>3, <1>4, <1>5, <1>6

(* The same, of two sets apart. *)
LEMMA CountApart ==
    ASSUME NEW s \in Seq(Nat), NEW S \in SUBSET DOMAIN s, NEW T \in SUBSET DOMAIN s, S \cap T = {}
    PROVE  Cardinality(S \cup T) = Cardinality(S) + Cardinality(T)
  BY CountPlaces, SMTT(30)

(* And of one place more. *)
LEMMA CountOneMore ==
    ASSUME NEW s \in Seq(Nat), NEW S \in SUBSET DOMAIN s, NEW k \in DOMAIN s, k \notin S
    PROVE  Cardinality(S \cup {k}) = Cardinality(S) + 1
  BY CountPlaces, SMTT(30)

(* Places are counted the same after all move by one. *)
LEMMA CountShifted ==
    ASSUME NEW S \in SUBSET Int, IsFiniteSet(S)
    PROVE  LET T == {k - 1 : k \in S} IN IsFiniteSet(T) /\ Cardinality(T) = Cardinality(S)
  <1> DEFINE T == {k - 1 : k \in S}
             f == [k \in S |-> k - 1]
  <1>1. f \in Bijection(S, T)
    <2>1. f \in [S -> T]
      OBVIOUS
    <2>2. \A a, b \in S : f[a] = f[b] => a = b
      OBVIOUS
    <2>3. \A t \in T : \E a \in S : f[a] = t
      OBVIOUS
    <2> HIDE DEF f, T
    <2>4. QED
      BY <2>1, <2>2, <2>3, Zenon DEF Bijection, Injection, Surjection, IsInjective
  <1>2. ExistsBijection(S, T)
    <2> HIDE DEF f, T
    <2>1. QED
      BY <1>1 DEF ExistsBijection
  <1>3. IsFiniteSet(T) /\ Cardinality(T) = Cardinality(S)
    <2> HIDE DEF T
    <2>1. QED
      BY <1>2, FS_Bijection
  <1>4. QED
    BY <1>3

-----------------------------------------------------------------------------
(* The n-th smallest value. *)

AtMost(s, x) == {k \in DOMAIN s : s[k] <= x}
Under(s, x) == {k \in DOMAIN s : s[k] < x}

StandsAt(s, n, x) == /\ x \in Range(s)
                     /\ Cardinality(Under(s, x)) < n /\ Cardinality(AtMost(s, x)) >= n

(* It is there: the least of the values with n places at or below them. *)
LEMMA NthExists ==
    ASSUME NEW s \in Seq(Nat), NEW n \in 1..Len(s)
    PROVE  \E x \in Nat : StandsAt(s, n, x)
  <1> DEFINE T == {k \in DOMAIN s : Cardinality(AtMost(s, s[k])) >= n}
  <1>1. /\ DOMAIN s = 1..Len(s) /\ Len(s) \in Nat /\ n \in Nat /\ n >= 1 /\ n <= Len(s)
        /\ \A k \in DOMAIN s : s[k] \in Nat
    OBVIOUS
  <1>2. \A x : /\ AtMost(s, x) \in SUBSET DOMAIN s /\ Under(s, x) \in SUBSET DOMAIN s
               /\ Cardinality(AtMost(s, x)) \in Nat /\ Cardinality(Under(s, x)) \in Nat
    <2>1. \A x : AtMost(s, x) \in SUBSET DOMAIN s /\ Under(s, x) \in SUBSET DOMAIN s
      BY DEF AtMost, Under
    <2>2. QED
      BY <2>1, PlacesFinite
  <1>3. T \in SUBSET DOMAIN s /\ T # {}
    <2>1. DOMAIN s \in SUBSET DOMAIN s /\ DOMAIN s # {}
      BY <1>1
    <2>2. PICK m \in DOMAIN s : \A k \in DOMAIN s : s[k] <= s[m]
      BY <2>1, ExtremePlaces
    <2>3. AtMost(s, s[m]) = DOMAIN s
      BY <2>2 DEF AtMost
    <2>4. m \in T
      BY <1>1, <2>3, PlacesFinite
    <2>5. QED
      BY <2>4
  <1>4. PICK p \in T : \A k \in T : s[p] <= s[k]
    <2> HIDE DEF T
    <2>1. QED
      BY <1>3, ExtremePlaces
  <1>5. p \in DOMAIN s /\ s[p] \in Nat /\ Cardinality(AtMost(s, s[p])) >= n
    BY <1>1, <1>4
  <1>6. Cardinality(Under(s, s[p])) < n
    <2>1. SUFFICES ASSUME Cardinality(Under(s, s[p])) >= n PROVE FALSE
      BY <1>1, <1>2
    <2>2. Under(s, s[p]) # {}
      BY <1>1, <1>2, <2>1, CountPlaces
    <2>3. PICK q \in Under(s, s[p]) : \A k \in Under(s, s[p]) : s[k] <= s[q]
      BY <1>2, <2>2, ExtremePlaces
    <2>4. Under(s, s[p]) \subseteq AtMost(s, s[q])
      BY <2>3 DEF Under, AtMost
    <2>5. Cardinality(Under(s, s[p])) <= Cardinality(AtMost(s, s[q]))
      BY <1>2, <2>4, CountPlaces
    <2>6. q \in T
      <3>1. q \in DOMAIN s
        BY <2>3 DEF Under
      <3>2. Cardinality(AtMost(s, s[q])) >= n
        BY <1>1, <1>2, <2>1, <2>5
      <3>3. QED
        BY <3>1, <3>2
    <2>7. s[q] < s[p] /\ s[q] \in Nat
      BY <1>1, <2>3 DEF Under
    <2>8. s[p] <= s[q]
      BY <1>4, <2>6
    <2>9. QED
      BY <1>5, <2>7, <2>8
  <1>7. s[p] \in Range(s)
    BY <1>5 DEF Range
  <1>8. QED
    BY <1>5, <1>6, <1>7 DEF StandsAt

LEMMA NthUnique ==
    ASSUME NEW s \in Seq(Nat), NEW n \in Nat, NEW x, NEW y, StandsAt(s, n, x), StandsAt(s, n, y)
    PROVE  x = y
  <1>1. x \in Nat /\ y \in Nat
    BY DEF StandsAt, Range
  <1>2. \A z : /\ AtMost(s, z) \in SUBSET DOMAIN s /\ Under(s, z) \in SUBSET DOMAIN s
               /\ Cardinality(AtMost(s, z)) \in Nat /\ Cardinality(Under(s, z)) \in Nat
    <2>1. \A z : AtMost(s, z) \in SUBSET DOMAIN s /\ Under(s, z) \in SUBSET DOMAIN s
      BY DEF AtMost, Under
    <2>2. QED
      BY <2>1, PlacesFinite
  <1>3. ASSUME NEW a \in Nat, NEW b \in Nat, StandsAt(s, n, a), StandsAt(s, n, b), a < b
        PROVE  FALSE
    <2>1. AtMost(s, a) \subseteq Under(s, b)
      <3>1. \A k \in DOMAIN s : s[k] \in Nat
        OBVIOUS
      <3>2. QED
        BY <1>3, <3>1 DEF AtMost, Under
    <2>2. Cardinality(AtMost(s, a)) <= Cardinality(Under(s, b))
      BY <1>2, <2>1, CountPlaces
    <2>3. QED
      BY <1>2, <1>3, <2>2 DEF StandsAt
  <1>4. ~ (x < y) /\ ~ (y < x)
    BY <1>1, <1>3
  <1>5. QED
    BY <1>1, <1>4

(* Nth is what stands there once the sequence is sorted. *)
LEMMA NthStands ==
    ASSUME NEW s \in Seq(Nat), NEW n \in 1..Len(s)
    PROVE  /\ Nth(s, n) \in Nat /\ StandsAt(s, n, Nth(s, n))
           /\ \A x : StandsAt(s, n, x) => Nth(s, n) = x
  <1>1. PICK x \in Nat : StandsAt(s, n, x)
    BY NthExists
  <1>2. Nth(s, n) = CHOOSE y \in Range(s) : Cardinality(Under(s, y)) < n /\ Cardinality(AtMost(s, y)) >= n
    BY DEF Nth, Under, AtMost
  <1>3. StandsAt(s, n, Nth(s, n))
    BY <1>1, <1>2 DEF StandsAt
  <1>4. Nth(s, n) \in Nat
    BY <1>3 DEF StandsAt, Range
  <1>5. n \in Nat
    OBVIOUS
  <1>6. \A y : StandsAt(s, n, y) => Nth(s, n) = y
    BY <1>3, <1>5, NthUnique
  <1>7. QED
    BY <1>3, <1>4, <1>6

LEMMA MedianIsNumber ==
    ASSUME NEW s \in Seq(Nat)
    PROVE  Median(s) \in Nat
  <1>1. Len(s) \in Nat /\ (s # << >> => Len(s) >= 1)
    OBVIOUS
  <1>2. CASE s = << >>
    BY <1>2 DEF Median
  <1>3. CASE s # << >> /\ Len(s) % 2 = 1
    <2>1. Len(s) \div 2 + 1 \in 1..Len(s)
      BY <1>1, <1>3
    <2>2. Nth(s, Len(s) \div 2 + 1) \in Nat
      BY <2>1, NthStands
    <2>3. QED
      BY <1>3, <2>2 DEF Median
  <1>4. CASE s # << >> /\ Len(s) % 2 # 1
    <2>1. Len(s) \div 2 \in 1..Len(s) /\ Len(s) \div 2 + 1 \in 1..Len(s)
      BY <1>1, <1>4
    <2>2. PICK a \in Nat, b \in Nat : Nth(s, Len(s) \div 2) = a /\ Nth(s, Len(s) \div 2 + 1) = b
      BY <2>1, NthStands
    <2>3. Median(s) = GetMid(a, b)
      BY <1>4, <2>2 DEF Median
    <2>4. GetMid(a, b) \in Nat
      BY DEF GetMid
    <2>5. QED
      BY <2>3, <2>4
  <1>5. QED
    BY <1>2, <1>3, <1>4

-----------------------------------------------------------------------------
(* The halves of a window.  `lower` is described by the places L of the       *)
(* weights it holds: how often a weight is in it is how many places of L have *)
(* that weight.                                                               *)

Having(s, S, v) == {k \in S : s[k] = v}

Tally(s, S) == [v \in {s[k] : k \in S} |-> Cardinality(Having(s, S, v))]

LEMMA HavingPlaces ==
    ASSUME NEW s \in Seq(Nat), NEW S \in SUBSET DOMAIN s, NEW v
    PROVE  /\ Having(s, S, v) \in SUBSET DOMAIN s /\ Cardinality(Having(s, S, v)) \in Nat
           /\ Cardinality(Having(s, S, v)) = 0 <=> v \notin {s[k] : k \in S}
  <1>1. Having(s, S, v) \in SUBSET DOMAIN s
    BY DEF Having
  <1>2. Having(s, S, v) = {} <=> v \notin {s[k] : k \in S}
    BY DEF Having
  <1>3. QED
    BY <1>1, <1>2, PlacesFinite, CountPlaces

(* A tally is known by how often each weight is in it. *)
LEMMA TallyIs ==
    ASSUME NEW s \in Seq(Nat), NEW S \in SUBSET DOMAIN s, NEW f, f = [x \in DOMAIN f |-> f[x]],
           \A v : v \in DOMAIN f <=> Having(s, S, v) # {},
           \A v \in DOMAIN f : f[v] = Cardinality(Having(s, S, v))
    PROVE  f = Tally(s, S)
  <1>1. \A v : v \in {s[k] : k \in S} <=> Having(s, S, v) # {}
    BY DEF Having
  <1>2. DOMAIN f = {s[k] : k \in S}
    BY <1>1
  <1>3. QED
    BY <1>2 DEF Tally

(* One place more. *)
LEMMA PutTally ==
    ASSUME NEW s \in Seq(Nat), NEW S \in SUBSET DOMAIN s, NEW k \in DOMAIN s, k \notin S
    PROVE  Put(Tally(s, S), s[k]) = Tally(s, S \cup {k})
  <1> DEFINE f == Put(Tally(s, S), s[k])
  <1>1. DOMAIN Tally(s, S) = {s[j] : j \in S} /\ \A v \in {s[j] : j \in S} : Tally(s, S)[v] = Cardinality(Having(s, S, v))
    BY DEF Tally
  <1>2. \A v : v # s[k] => Having(s, S \cup {k}, v) = Having(s, S, v)
    BY DEF Having
  <1>3. Having(s, S \cup {k}, s[k]) = Having(s, S, s[k]) \cup {k} /\ k \notin Having(s, S, s[k])
    BY DEF Having
  <1>4. Cardinality(Having(s, S \cup {k}, s[k])) = Cardinality(Having(s, S, s[k])) + 1
    <2>1. PICK H \in SUBSET DOMAIN s : H = Having(s, S, s[k])
      BY HavingPlaces
    <2>2. Cardinality(H \cup {k}) = Cardinality(H) + 1
      BY <1>3, <2>1, CountPlaces
    <2>3. QED
      BY <1>3, <2>1, <2>2
  <1>5. Cardinality(Having(s, S, s[k])) = 0 <=> s[k] \notin {s[j] : j \in S}
    BY HavingPlaces
  <1>6. /\ DOMAIN f = {s[j] : j \in S} \cup {s[k]} /\ f = [x \in DOMAIN f |-> f[x]]
        /\ f[s[k]] = IF s[k] \in {s[j] : j \in S} THEN Cardinality(Having(s, S, s[k])) + 1 ELSE 1
        /\ \A v \in DOMAIN f : v # s[k] => f[v] = Cardinality(Having(s, S, v))
    <2> HIDE DEF f
    <2>1. f = [x \in {s[j] : j \in S} \cup {s[k]} |->
                  IF x = s[k] THEN IF s[k] \in {s[j] : j \in S} THEN Tally(s, S)[s[k]] + 1 ELSE 1
                              ELSE Tally(s, S)[x]]
      BY <1>1 DEF Put, f
    <2>2. QED
      BY <1>1, <2>1
  <1>7. f[s[k]] = Cardinality(Having(s, S \cup {k}, s[k]))
    BY <1>4, <1>5, <1>6
  <1>8. \A v : v \in DOMAIN f <=> Having(s, S \cup {k}, v) # {}
    BY <1>6 DEF Having
  <1>9. \A v \in DOMAIN f : f[v] = Cardinality(Having(s, S \cup {k}, v))
    BY <1>2, <1>6, <1>7
  <1>10. S \cup {k} \in SUBSET DOMAIN s /\ f = [x \in DOMAIN f |-> f[x]]
    BY <1>6
  <1>11. QED
    <2> HIDE DEF f
    <2>1. f = Tally(s, S \cup {k})
      BY <1>8, <1>9, <1>10, TallyIs
    <2>2. QED
      BY <2>1 DEF f

(* One place fewer. *)
LEMMA TakeTally ==
    ASSUME NEW s \in Seq(Nat), NEW S \in SUBSET DOMAIN s, NEW k \in S
    PROVE  Take(Tally(s, S), s[k]) = Tally(s, S \ {k})
  <1> DEFINE f == Take(Tally(s, S), s[k])
             c == Cardinality(Having(s, S, s[k]))
  <1>1. /\ DOMAIN Tally(s, S) = {s[j] : j \in S} /\ s[k] \in {s[j] : j \in S}
        /\ \A v \in {s[j] : j \in S} : Tally(s, S)[v] = Cardinality(Having(s, S, v))
    BY DEF Tally
  <1>2. \A v : v # s[k] => Having(s, S \ {k}, v) = Having(s, S, v)
    BY DEF Having
  <1>3. Having(s, S \ {k}, s[k]) = Having(s, S, s[k]) \ {k} /\ k \in Having(s, S, s[k])
    BY DEF Having
  <1>4. Cardinality(Having(s, S \ {k}, s[k])) = c - 1 /\ c \in Nat
    <2>1. PICK H \in SUBSET DOMAIN s : H = Having(s, S, s[k])
      BY HavingPlaces
    <2>2. Cardinality(H \ {k}) = Cardinality(H) - 1
      BY <1>3, <2>1, CountPlaces
    <2>3. Cardinality(H) \in Nat
      BY PlacesFinite
    <2>4. QED
      BY <1>3, <2>1, <2>2, <2>3
  <1>5. c # 0 /\ (c - 1 = 0 <=> Having(s, S \ {k}, s[k]) = {})
    <2>1. S \ {k} \in SUBSET DOMAIN s
      OBVIOUS
    <2>2. Having(s, S \ {k}, s[k]) \in SUBSET DOMAIN s
      BY <2>1, HavingPlaces
    <2>3. Cardinality(Having(s, S \ {k}, s[k])) = 0 <=> Having(s, S \ {k}, s[k]) = {}
      BY <2>2, CountPlaces
    <2>4. c # 0
      BY <1>1, HavingPlaces
    <2>5. QED
      BY <1>4, <2>3, <2>4
  <1>6. f = [x \in IF c > 1 THEN {s[j] : j \in S} ELSE {s[j] : j \in S} \ {s[k]} |->
                IF x = s[k] THEN c - 1 ELSE Tally(s, S)[x]]
    <2>1. Tally(s, S)[s[k]] = c
      BY <1>1
    <2> HIDE DEF c, f
    <2>2. QED
      BY <1>1, <2>1 DEF Take, f
  <1>7. /\ DOMAIN f = IF c > 1 THEN {s[j] : j \in S} ELSE {s[j] : j \in S} \ {s[k]}
        /\ f = [x \in DOMAIN f |-> f[x]]
        /\ \A v \in DOMAIN f : f[v] = IF v = s[k] THEN c - 1 ELSE Cardinality(Having(s, S, v))
    <2> HIDE DEF c, f
    <2>1. QED
      BY <1>1, <1>6
  <1> HIDE DEF f
  <1>8. \A v : v \in DOMAIN f <=> Having(s, S \ {k}, v) # {}
    <2>1. SUFFICES ASSUME NEW v PROVE v \in DOMAIN f <=> Having(s, S \ {k}, v) # {}
      OBVIOUS
    <2>2. CASE v = s[k]
      <3>1. v \in DOMAIN f <=> c > 1
        BY <1>1, <1>7, <2>2
      <3>2. Having(s, S \ {k}, v) = {} <=> c - 1 = 0
        BY <1>5, <2>2
      <3>3. c \in Nat /\ c # 0
        BY <1>4, <1>5
      <3> HIDE DEF c
      <3>4. c > 1 <=> ~ (c - 1 = 0)
        BY <3>3
      <3>5. QED
        BY <3>1, <3>2, <3>4
    <2>3. CASE v # s[k]
      <3>1. v \in DOMAIN f <=> v \in {s[j] : j \in S}
        BY <1>7, <2>3
      <3>2. QED
        BY <1>2, <2>3, <3>1 DEF Having
    <2>4. QED
      BY <2>2, <2>3
  <1>9. \A v \in DOMAIN f : f[v] = Cardinality(Having(s, S \ {k}, v))
    BY <1>2, <1>4, <1>7
  <1>10. S \ {k} \in SUBSET DOMAIN s
    OBVIOUS
  <1>11. f = Tally(s, S \ {k})
    <2>1. PICK R \in SUBSET DOMAIN s : R = S \ {k}
      BY <1>10
    <2>2. f = [x \in DOMAIN f |-> f[x]]
      BY <1>7
    <2>3. \A v : v \in DOMAIN f <=> Having(s, R, v) # {}
      BY <1>8, <2>1
    <2>4. \A v \in DOMAIN f : f[v] = Cardinality(Having(s, R, v))
      BY <1>9, <2>1
    <2>5. f = Tally(s, R)
      BY <2>2, <2>3, <2>4, TallyIs
    <2>6. QED
      BY <2>1, <2>5
  <1>12. QED
    BY <1>11 DEF f

(* A place may stand for another with the same weight. *)
LEMMA SwapTally ==
    ASSUME NEW s \in Seq(Nat), NEW S \in SUBSET DOMAIN s, NEW i \in S, NEW k \in DOMAIN s, k \notin S,
           s[i] = s[k]
    PROVE  Tally(s, S) = Tally(s, (S \ {i}) \cup {k}) /\ Cardinality(S) = Cardinality((S \ {i}) \cup {k})
  <1> DEFINE R == (S \ {i}) \cup {k}
  <1>1. \A v : v # s[i] => Having(s, R, v) = Having(s, S, v)
    BY DEF Having
  <1>2. Having(s, R, s[i]) = (Having(s, S, s[i]) \ {i}) \cup {k}
    BY DEF Having
  <1>3. \A H \in SUBSET DOMAIN s : i \in H /\ k \notin H => Cardinality(H) = Cardinality((H \ {i}) \cup {k})
    <2>1. SUFFICES ASSUME NEW H \in SUBSET DOMAIN s, i \in H, k \notin H
                   PROVE  Cardinality(H) = Cardinality((H \ {i}) \cup {k})
      OBVIOUS
    <2>2. PICK G \in SUBSET DOMAIN s : G = H \ {i}
      OBVIOUS
    <2>3. Cardinality(G) = Cardinality(H) - 1
      BY <2>1, <2>2, CountPlaces
    <2>4. Cardinality(G \cup {k}) = Cardinality(G) + 1
      BY <2>1, <2>2, CountPlaces
    <2>5. Cardinality(H) \in Nat /\ Cardinality(G) \in Nat
      BY PlacesFinite
    <2>6. QED
      BY <2>2, <2>3, <2>4, <2>5
  <1>4. Cardinality(Having(s, R, s[i])) = Cardinality(Having(s, S, s[i]))
    <2>1. i \in Having(s, S, s[i]) /\ k \notin Having(s, S, s[i])
      BY DEF Having
    <2>2. Having(s, S, s[i]) \in SUBSET DOMAIN s
      BY HavingPlaces
    <2>3. QED
      BY <1>2, <1>3, <2>1, <2>2
  <1>5. {s[j] : j \in R} = {s[j] : j \in S}
    OBVIOUS
  <1>6. Tally(s, S) = Tally(s, R)
    BY <1>1, <1>4, <1>5 DEF Tally
  <1>7. QED
    BY <1>3, <1>6

(* Places of the rest of a sequence. *)
Back(S) == {k - 1 : k \in S}

LEMMA TailTally ==
    ASSUME NEW s \in Seq(Nat), s # << >>, NEW S \in SUBSET (2..Len(s))
    PROVE  /\ Back(S) \in SUBSET DOMAIN Tail(s)
           /\ \A k \in S : Tail(s)[k - 1] = s[k]
           /\ Tally(Tail(s), Back(S)) = Tally(s, S) /\ Cardinality(Back(S)) = Cardinality(S)
  <1>1. Len(s) \in Nat /\ Len(s) >= 1 /\ S \in SUBSET DOMAIN s /\ DOMAIN s = 1..Len(s)
    OBVIOUS
  <1>2. DOMAIN Tail(s) = 1..(Len(s) - 1) /\ \A k \in 2..Len(s) : Tail(s)[k - 1] = s[k]
    BY <1>1
  <1>3. S \in SUBSET Int /\ \A R \in SUBSET S : R \in SUBSET Int
    BY <1>1
  <1>4. \A R \in SUBSET S : Cardinality(Back(R)) = Cardinality(R)
    <2>1. SUFFICES ASSUME NEW R \in SUBSET S PROVE Cardinality(Back(R)) = Cardinality(R)
      OBVIOUS
    <2>2. IsFiniteSet(R) /\ R \in SUBSET Int
      BY <1>1, <1>3, PlacesFinite
    <2>3. QED
      BY <2>2, CountShifted DEF Back
  <1>5. \A v : Having(Tail(s), Back(S), v) = Back(Having(s, S, v))
    <2>1. SUFFICES ASSUME NEW v PROVE Having(Tail(s), Back(S), v) = Back(Having(s, S, v))
      OBVIOUS
    <2>2. Having(Tail(s), Back(S), v) \subseteq Back(Having(s, S, v))
      BY <1>2 DEF Having, Back
    <2>3. Back(Having(s, S, v)) \subseteq Having(Tail(s), Back(S), v)
      BY <1>2 DEF Having, Back
    <2>4. QED
      BY <2>2, <2>3
  <1>6. \A v : Having(s, S, v) \in SUBSET S
    BY DEF Having
  <1>7. {Tail(s)[j] : j \in Back(S)} = {s[k] : k \in S}
    BY <1>2 DEF Back
  <1>8. Tally(Tail(s), Back(S)) = Tally(s, S)
    BY <1>4, <1>5, <1>6, <1>7 DEF Tally
  <1>9. Back(S) \in SUBSET DOMAIN Tail(s)
    BY <1>1, <1>2 DEF Back
  <1>10. QED
    BY <1>2, <1>4, <1>8, <1>9

LEMMA AppendTally ==
    ASSUME NEW s \in Seq(Nat), NEW v \in Nat, NEW S \in SUBSET DOMAIN s
    PROVE  Tally(Append(s, v), S) = Tally(s, S) /\ \A k \in DOMAIN s : Append(s, v)[k] = s[k]
  <1>1. \A k \in DOMAIN s : Append(s, v)[k] = s[k]
    OBVIOUS
  <1>2. \A x : Having(Append(s, v), S, x) = Having(s, S, x)
    BY <1>1 DEF Having
  <1>3. {Append(s, v)[k] : k \in S} = {s[k] : k \in S}
    BY <1>1
  <1>4. QED
    BY <1>1, <1>2, <1>3 DEF Tally

LEMMA EmptyTally ==
    ASSUME NEW s \in Seq(Nat), NEW S \in SUBSET DOMAIN s
    PROVE  Tally(s, S) = << >> <=> S = {}
  <1>1. DOMAIN Tally(s, S) = {s[k] : k \in S}
    BY DEF Tally
  <1>2. ASSUME S # {} PROVE Tally(s, S) # << >>
    <2>1. PICK k \in S : TRUE
      BY <1>2
    <2>2. s[k] \in DOMAIN Tally(s, S)
      BY <1>1
    <2>3. DOMAIN << >> = {}
      OBVIOUS
    <2>4. QED
      BY <2>2, <2>3
  <1>3. ASSUME S = {} PROVE Tally(s, S) = << >>
    BY <1>3 DEF Tally
  <1>4. QED
    BY <1>2, <1>3

-----------------------------------------------------------------------------
(* The window over weights s whose lower half has the places L. *)

WindowOf(s, L) ==
    [order |-> s, lower |-> Tally(s, L), upper |-> Tally(s, DOMAIN s \ L),
     lowerLen |-> Cardinality(L), upperLen |-> Cardinality(DOMAIN s \ L)]

Sorted(s, L) == \A i \in L, j \in DOMAIN s \ L : s[i] <= s[j]

Halved(w, s) ==
    \E L \in SUBSET DOMAIN s :
        w = WindowOf(s, L) /\ Sorted(s, L) /\ Cardinality(L) - Cardinality(DOMAIN s \ L) \in {0, 1}

LEMMA HalfSizes ==
    ASSUME NEW s \in Seq(Nat), NEW L \in SUBSET DOMAIN s
    PROVE  /\ Cardinality(L) \in Nat /\ Cardinality(DOMAIN s \ L) \in Nat
           /\ Cardinality(L) + Cardinality(DOMAIN s \ L) = Len(s)
           /\ Cardinality(L) = 0 <=> L = {}
           /\ Cardinality(DOMAIN s \ L) = 0 <=> DOMAIN s \ L = {}
  <1>1. PICK U \in SUBSET DOMAIN s : U = DOMAIN s \ L
    OBVIOUS
  <1>2. Cardinality(L) \in Nat /\ Cardinality(U) \in Nat /\ Cardinality(DOMAIN s) = Len(s)
    BY PlacesFinite
  <1>3. Cardinality(L \cup U) = Cardinality(L) + Cardinality(U)
    BY <1>1, CountPlaces
  <1>4. L \cup U = DOMAIN s
    BY <1>1
  <1>5. (Cardinality(L) = 0 <=> L = {}) /\ (Cardinality(U) = 0 <=> U = {})
    BY CountPlaces
  <1>6. QED
    BY <1>1, <1>2, <1>3, <1>4, <1>5

(* The keys at which the halves meet. *)
LEMMA MeetingKeys ==
    ASSUME NEW s \in Seq(Nat), NEW L \in SUBSET DOMAIN s
    PROVE  /\ L # {} => \E m \in L : /\ MaxLower(WindowOf(s, L)) = s[m]
                                     /\ \A k \in L : s[k] <= s[m]
           /\ DOMAIN s \ L # {} => \E m \in DOMAIN s \ L :
                                     /\ MinUpper(WindowOf(s, L)) = s[m]
                                     /\ \A k \in DOMAIN s \ L : s[m] <= s[k]
  <1>1. \A k \in DOMAIN s : s[k] \in Nat
    OBVIOUS
  <1>2. \A S : DOMAIN Tally(s, S) = {s[k] : k \in S}
    BY DEF Tally
  <1>3. ASSUME L # {}
        PROVE  \E m \in L : MaxLower(WindowOf(s, L)) = s[m] /\ \A k \in L : s[k] <= s[m]
    <2>1. PICK m \in L : \A k \in L : s[k] <= s[m]
      BY <1>3, ExtremePlaces
    <2>2. MaxLower(WindowOf(s, L)) = Max({s[k] : k \in L})
      BY <1>2 DEF MaxLower, WindowOf
    <2>3. Max({s[k] : k \in L}) = s[m]
      <3>1. \A x \in {s[k] : k \in L} : (\A y \in {s[k] : k \in L} : x >= y) => x = s[m]
        <4>1. SUFFICES ASSUME NEW j \in L, \A y \in {s[k] : k \in L} : s[j] >= y PROVE s[j] = s[m]
          OBVIOUS
        <4>2. s[j] >= s[m] /\ s[j] <= s[m] /\ s[j] \in Nat /\ s[m] \in Nat
          BY <1>1, <2>1, <4>1
        <4>3. QED
          BY <4>2
      <3>2. s[m] \in {s[k] : k \in L} /\ \A y \in {s[k] : k \in L} : s[m] >= y
        BY <1>1, <2>1
      <3>3. QED
        BY <3>1, <3>2 DEF Max
    <2>4. QED
      BY <2>1, <2>2, <2>3
  <1>4. ASSUME DOMAIN s \ L # {}
        PROVE  \E m \in DOMAIN s \ L : /\ MinUpper(WindowOf(s, L)) = s[m]
                                       /\ \A k \in DOMAIN s \ L : s[m] <= s[k]
    <2>1. PICK U \in SUBSET DOMAIN s : U = DOMAIN s \ L
      OBVIOUS
    <2>2. PICK m \in U : \A k \in U : s[m] <= s[k]
      BY <1>4, <2>1, ExtremePlaces
    <2>3. MinUpper(WindowOf(s, L)) = Min({s[k] : k \in U})
      BY <1>2, <2>1 DEF MinUpper, WindowOf
    <2>4. Min({s[k] : k \in U}) = s[m]
      <3>1. \A x \in {s[k] : k \in U} : (\A y \in {s[k] : k \in U} : x <= y) => x = s[m]
        <4>1. SUFFICES ASSUME NEW j \in U, \A y \in {s[k] : k \in U} : s[j] <= y PROVE s[j] = s[m]
          OBVIOUS
        <4>2. s[j] >= s[m] /\ s[j] <= s[m] /\ s[j] \in Nat /\ s[m] \in Nat
          BY <1>1, <2>1, <2>2, <4>1
        <4>3. QED
          BY <4>2
      <3>2. s[m] \in {s[k] : k \in U} /\ \A y \in {s[k] : k \in U} : s[m] <= y
        BY <1>1, <2>2
      <3>3. QED
        BY <3>1, <3>2 DEF Min
    <2>5. QED
      BY <2>1, <2>2, <2>3, <2>4
  <1>5. QED
    BY <1>3, <1>4

Parts(o, a, b, c, d) == [order |-> o, lower |-> a, upper |-> b, lowerLen |-> c, upperLen |-> d]

LEMMA Edits ==
    ASSUME NEW o, NEW a, NEW b, NEW c, NEW d, NEW v
    PROVE  /\ AddLower(Parts(o, a, b, c, d), v) = Parts(o, Put(a, v), b, c + 1, d)
           /\ AddUpper(Parts(o, a, b, c, d), v) = Parts(o, a, Put(b, v), c, d + 1)
           /\ TakeLower(Parts(o, a, b, c, d), v) = Parts(o, Take(a, v), b, c - 1, d)
           /\ TakeUpper(Parts(o, a, b, c, d), v) = Parts(o, a, Take(b, v), c, d - 1)
  <1> DEFINE w == Parts(o, a, b, c, d)
  <1>1. w.lower = a /\ w.upper = b /\ w.lowerLen = c /\ w.upperLen = d
    BY DEF Parts
  <1>2. ASSUME NEW x, NEW y
        PROVE  /\ [w EXCEPT !.lower = x, !.lowerLen = y] = Parts(o, x, b, y, d)
               /\ [w EXCEPT !.upper = x, !.upperLen = y] = Parts(o, a, x, c, y)
    <2>1. [w EXCEPT !.lower = x] = Parts(o, x, b, c, d) /\ [w EXCEPT !.upper = x] = Parts(o, a, x, c, d)
      BY DEF Parts
    <2>2. /\ [Parts(o, x, b, c, d) EXCEPT !.lowerLen = y] = Parts(o, x, b, y, d)
          /\ [Parts(o, a, x, c, d) EXCEPT !.upperLen = y] = Parts(o, a, x, c, y)
      BY DEF Parts
    <2>3. /\ [w EXCEPT !.lower = x, !.lowerLen = y] = [[w EXCEPT !.lower = x] EXCEPT !.lowerLen = y]
          /\ [w EXCEPT !.upper = x, !.upperLen = y] = [[w EXCEPT !.upper = x] EXCEPT !.upperLen = y]
      OBVIOUS
    <2>4. QED
      BY <2>1, <2>2, <2>3
  <1> HIDE DEF w
  <1>3. /\ AddLower(w, v) = Parts(o, Put(a, v), b, c + 1, d)
        /\ AddUpper(w, v) = Parts(o, a, Put(b, v), c, d + 1)
        /\ TakeLower(w, v) = Parts(o, Take(a, v), b, c - 1, d)
        /\ TakeUpper(w, v) = Parts(o, a, Take(b, v), c, d - 1)
    <2>1. /\ AddLower(w, v) = [w EXCEPT !.lower = Put(a, v), !.lowerLen = c + 1]
          /\ AddUpper(w, v) = [w EXCEPT !.upper = Put(b, v), !.upperLen = d + 1]
          /\ TakeLower(w, v) = [w EXCEPT !.lower = Take(a, v), !.lowerLen = c - 1]
          /\ TakeUpper(w, v) = [w EXCEPT !.upper = Take(b, v), !.upperLen = d - 1]
      BY <1>1 DEF AddLower, AddUpper, TakeLower, TakeUpper
    <2>2. QED
      BY <1>2, <2>1
  <1>4. QED
    BY <1>3 DEF w

LEMMA Reordered ==
    ASSUME NEW s, NEW L, NEW p
    PROVE  /\ WindowOf(s, L).order = s
           /\ [WindowOf(s, L) EXCEPT !.order = p]
                = Parts(p, Tally(s, L), Tally(s, DOMAIN s \ L), Cardinality(L), Cardinality(DOMAIN s \ L))
  <1>1. PICK a, b, c, d : /\ a = Tally(s, L) /\ b = Tally(s, DOMAIN s \ L)
                          /\ c = Cardinality(L) /\ d = Cardinality(DOMAIN s \ L)
    OBVIOUS
  <1>2. WindowOf(s, L) = Parts(s, a, b, c, d)
    BY <1>1 DEF WindowOf, Parts
  <1>3. [WindowOf(s, L) EXCEPT !.order = p] = Parts(p, a, b, c, d) /\ WindowOf(s, L).order = s
    BY <1>2 DEF Parts
  <1>4. QED
    BY <1>1, <1>3

(* A place leaves the lower half, or joins it. *)
LEMMA MoveUp ==
    ASSUME NEW s \in Seq(Nat), NEW L \in SUBSET DOMAIN s, NEW m \in L
    PROVE  AddUpper(TakeLower(WindowOf(s, L), s[m]), s[m]) = WindowOf(s, L \ {m})
  <1>1. PICK U \in SUBSET DOMAIN s : U = DOMAIN s \ L
    OBVIOUS
  <1>2. DOMAIN s \ (L \ {m}) = U \cup {m} /\ m \notin U /\ m \in DOMAIN s
    BY <1>1
  <1>3. Take(Tally(s, L), s[m]) = Tally(s, L \ {m}) /\ Cardinality(L \ {m}) = Cardinality(L) - 1
    BY TakeTally, CountPlaces
  <1>4. Put(Tally(s, U), s[m]) = Tally(s, U \cup {m}) /\ Cardinality(U \cup {m}) = Cardinality(U) + 1
    BY <1>2, PutTally, CountPlaces
  <1>5. AddUpper(TakeLower(WindowOf(s, L), s[m]), s[m])
          = Parts(s, Take(Tally(s, L), s[m]), Put(Tally(s, U), s[m]), Cardinality(L) - 1, Cardinality(U) + 1)
    <2>1. WindowOf(s, L) = Parts(s, Tally(s, L), Tally(s, U), Cardinality(L), Cardinality(U))
      BY <1>1 DEF WindowOf, Parts
    <2>2. QED
      BY <2>1, Edits
  <1>6. QED
    BY <1>2, <1>3, <1>4, <1>5 DEF WindowOf, Parts

LEMMA MoveDown ==
    ASSUME NEW s \in Seq(Nat), NEW L \in SUBSET DOMAIN s, NEW m \in DOMAIN s \ L
    PROVE  AddLower(TakeUpper(WindowOf(s, L), s[m]), s[m]) = WindowOf(s, L \cup {m})
  <1>1. PICK U \in SUBSET DOMAIN s : U = DOMAIN s \ L
    OBVIOUS
  <1>2. DOMAIN s \ (L \cup {m}) = U \ {m} /\ m \in U /\ m \in DOMAIN s /\ m \notin L
    BY <1>1
  <1>3. Take(Tally(s, U), s[m]) = Tally(s, U \ {m}) /\ Cardinality(U \ {m}) = Cardinality(U) - 1
    BY <1>2, TakeTally, CountPlaces
  <1>4. Put(Tally(s, L), s[m]) = Tally(s, L \cup {m}) /\ Cardinality(L \cup {m}) = Cardinality(L) + 1
    BY <1>2, PutTally, CountPlaces
  <1>5. AddLower(TakeUpper(WindowOf(s, L), s[m]), s[m])
          = Parts(s, Put(Tally(s, L), s[m]), Take(Tally(s, U), s[m]), Cardinality(L) + 1, Cardinality(U) - 1)
    <2>1. WindowOf(s, L) = Parts(s, Tally(s, L), Tally(s, U), Cardinality(L), Cardinality(U))
      BY <1>1 DEF WindowOf, Parts
    <2>2. QED
      BY <2>1, Edits
  <1>6. QED
    BY <1>2, <1>3, <1>4, <1>5 DEF WindowOf, Parts

(* rebalance: a sorted window whose halves are off by one more is halved. *)
LEMMA RebalanceHalves ==
    ASSUME NEW s \in Seq(Nat), NEW L \in SUBSET DOMAIN s, Sorted(s, L),
           Cardinality(L) - Cardinality(DOMAIN s \ L) \in {-1, 0, 1, 2}
    PROVE  Halved(Rebalance(WindowOf(s, L)), s)
  <1> DEFINE l == Cardinality(L)
             u == Cardinality(DOMAIN s \ L)
             w == WindowOf(s, L)
  <1>1. l \in Nat /\ u \in Nat /\ (l = 0 <=> L = {}) /\ (u = 0 <=> DOMAIN s \ L = {})
    BY HalfSizes
  <1>2. w.lowerLen = l /\ w.upperLen = u
    BY DEF WindowOf
  <1>3. \A k \in DOMAIN s : s[k] \in Nat
    OBVIOUS
  <1>d. l - u \in {-1, 0, 1, 2}
    OBVIOUS
  <1>4. CASE l > u + 1
    <2>1. L # {}
      <3> HIDE DEF l, u, w
      <3>1. QED
        BY <1>1, <1>4
    <2>2. PICK m \in L : MaxLower(w) = s[m] /\ \A k \in L : s[k] <= s[m]
      BY <2>1, MeetingKeys
    <2>3. Rebalance(w) = ToUpper(w)
      <3> HIDE DEF l, u, w
      <3>1. QED
        BY <1>2, <1>4 DEF Rebalance
    <2>4. ToUpper(w) = WindowOf(s, L \ {m})
      BY <2>2, MoveUp DEF ToUpper
    <2>5. PICK M \in SUBSET DOMAIN s : M = L \ {m}
      OBVIOUS
    <2>6. Sorted(s, M)
      BY <1>3, <2>2, <2>5 DEF Sorted
    <2>7. Cardinality(M) = l - 1 /\ Cardinality(M) + Cardinality(DOMAIN s \ M) = Len(s) /\ l + u = Len(s)
      BY <2>5, CountPlaces, HalfSizes
    <2>8. Cardinality(DOMAIN s \ M) \in Nat /\ Len(s) \in Nat
      <3>1. Cardinality(DOMAIN s \ M) \in Nat
        BY HalfSizes
      <3>2. Len(s) \in Nat
        OBVIOUS
      <3>3. QED
        BY <3>1, <3>2
    <2>9. Cardinality(M) - Cardinality(DOMAIN s \ M) \in {0, 1}
      <3> HIDE DEF l, u, w
      <3>1. QED
        BY <1>1, <1>4, <1>d, <2>7, <2>8
    <2>10. QED
      BY <2>3, <2>4, <2>5, <2>6, <2>9 DEF Halved
  <1>5. CASE ~ (l > u + 1) /\ u > l
    <2>1. DOMAIN s \ L # {}
      <3> HIDE DEF l, u, w
      <3>1. QED
        BY <1>1, <1>5
    <2>2. PICK m \in DOMAIN s \ L : MinUpper(w) = s[m] /\ \A k \in DOMAIN s \ L : s[m] <= s[k]
      BY <2>1, MeetingKeys
    <2>3. Rebalance(w) = ToLower(w)
      <3> HIDE DEF l, u, w
      <3>1. QED
        BY <1>2, <1>5 DEF Rebalance
    <2>4. ToLower(w) = WindowOf(s, L \cup {m})
      BY <2>2, MoveDown DEF ToLower
    <2>5. PICK M \in SUBSET DOMAIN s : M = L \cup {m}
      OBVIOUS
    <2>6. Sorted(s, M)
      BY <1>3, <2>2, <2>5 DEF Sorted
    <2>7. Cardinality(M) = l + 1 /\ Cardinality(M) + Cardinality(DOMAIN s \ M) = Len(s) /\ l + u = Len(s)
      BY <2>5, CountPlaces, HalfSizes, ZenonT(40)
    <2>8. Cardinality(DOMAIN s \ M) \in Nat /\ Len(s) \in Nat
      <3>1. Cardinality(DOMAIN s \ M) \in Nat
        BY HalfSizes
      <3>2. Len(s) \in Nat
        OBVIOUS
      <3>3. QED
        BY <3>1, <3>2
    <2>9. Cardinality(M) - Cardinality(DOMAIN s \ M) \in {0, 1}
      <3> HIDE DEF l, u, w
      <3>1. QED
        <4>1. u = l + 1
          BY <1>1, <1>5, <1>d
        <4>2. QED
          BY <1>1, <4>1, <2>7, <2>8
    <2>10. QED
      BY <2>3, <2>4, <2>5, <2>6, <2>9 DEF Halved
  <1>6. CASE ~ (l > u + 1) /\ ~ (u > l)
    <2>1. Rebalance(w) = w /\ l - u \in {0, 1}
      <3> HIDE DEF l, u, w
      <3>1. QED
        BY <1>1, <1>2, <1>6, <1>d DEF Rebalance
    <2>2. QED
      BY <2>1 DEF Halved
  <1>7. QED
    BY <1>4, <1>5, <1>6

(* insert, of a weight just put at the end of the order. *)
LEMMA InsertHalves ==
    ASSUME NEW s \in Seq(Nat), NEW w, Halved(w, s), NEW v \in Nat
    PROVE  Halved(InsertWeight([w EXCEPT !.order = Append(@, v)], v), Append(s, v))
  <1>1. PICK L \in SUBSET DOMAIN s :
            w = WindowOf(s, L) /\ Sorted(s, L) /\ Cardinality(L) - Cardinality(DOMAIN s \ L) \in {0, 1}
    BY DEF Halved
  <1>2. PICK U \in SUBSET DOMAIN s : U = DOMAIN s \ L
    OBVIOUS
  <1>3. PICK t \in Seq(Nat) : t = Append(s, v)
    <2>1. Append(s, v) \in Seq(Nat)
      OBVIOUS
    <2>2. QED
      BY <2>1
  <1>4. PICK n \in Nat : n = Len(s) + 1
    OBVIOUS
  <1>5. /\ DOMAIN t = DOMAIN s \cup {n} /\ n \notin DOMAIN s /\ t[n] = v
        /\ \A k \in DOMAIN s : t[k] = s[k] /\ s[k] \in Nat
    <2>1. DOMAIN s = 1..Len(s) /\ Len(s) \in Nat
      OBVIOUS
    <2>2. QED
      BY <1>3, <1>4, <2>1
  <1>6. L \in SUBSET DOMAIN t /\ U \in SUBSET DOMAIN t /\ n \in DOMAIN t /\ n \notin L /\ n \notin U
    BY <1>5
  <1>7. /\ Tally(t, L) = Tally(s, L) /\ Tally(t, U) = Tally(s, U)
    BY <1>3, AppendTally
  <1>8. PICK x : x = [w EXCEPT !.order = Append(@, v)]
    OBVIOUS
  <1>9. x = Parts(t, Tally(t, L), Tally(t, U), Cardinality(L), Cardinality(U))
    <2>1. w.order = s /\ [w EXCEPT !.order = t] = Parts(t, Tally(s, L), Tally(s, U), Cardinality(L), Cardinality(U))
      BY <1>1, <1>2, Reordered
    <2>2. QED
      BY <1>3, <1>7, <1>8, <2>1
  <1>10. /\ Cardinality(L) \in Nat /\ Cardinality(U) \in Nat /\ Cardinality(L) - Cardinality(U) \in {0, 1}
         /\ (Cardinality(L) = 0 <=> L = {}) /\ (Cardinality(U) = 0 <=> U = {})
    BY <1>1, <1>2, HalfSizes
  <1>11. x.lower = Tally(s, L) /\ MaxLower(x) = MaxLower(w)
    BY <1>1, <1>7, <1>9 DEF Parts, MaxLower, WindowOf
  <1>12. x.lower # << >> <=> L # {}
    BY <1>11, EmptyTally
  <1>13. CASE x.lower # << >> /\ v > MaxLower(x)
    <2>1. PICK m \in L : MaxLower(w) = s[m] /\ \A k \in L : s[k] <= s[m]
      BY <1>1, <1>12, <1>13, MeetingKeys
    <2>2. AddUpper(x, v) = Parts(t, Tally(t, L), Put(Tally(t, U), t[n]), Cardinality(L), Cardinality(U) + 1)
      BY <1>5, <1>9, Edits
    <2>3. Put(Tally(t, U), t[n]) = Tally(t, U \cup {n}) /\ Cardinality(U \cup {n}) = Cardinality(U) + 1
      <3>1. Put(Tally(t, U), t[n]) = Tally(t, U \cup {n})
        BY <1>6, PutTally
      <3>2. Cardinality(U \cup {n}) = Cardinality(U) + 1
        BY <1>6, CountOneMore
      <3>3. QED
        BY <3>1, <3>2
    <2>4. DOMAIN t \ L = U \cup {n}
      BY <1>2, <1>5, <1>6
    <2>5. AddUpper(x, v) = WindowOf(t, L)
      BY <2>2, <2>3, <2>4 DEF WindowOf, Parts
    <2>6. Sorted(t, L)
      <3>1. SUFFICES ASSUME NEW i \in L, NEW j \in DOMAIN t \ L PROVE t[i] <= t[j]
        BY DEF Sorted
      <3>2. CASE j \in U
        BY <1>1, <1>2, <1>5, <3>2 DEF Sorted
      <3>3. CASE j = n
        <4>1. t[i] = s[i] /\ s[i] <= s[m] /\ s[m] < v /\ t[j] = v /\ s[i] \in Nat /\ s[m] \in Nat
          BY <1>5, <1>11, <1>13, <2>1, <3>3
        <4>2. QED
          BY <4>1
      <3>4. QED
        BY <2>4, <3>2, <3>3
    <2>7. Cardinality(L) - Cardinality(DOMAIN t \ L) \in {-1, 0, 1, 2}
      <3>1. Cardinality(DOMAIN t \ L) = Cardinality(U) + 1
        BY <2>3, <2>4
      <3>2. QED
        BY <1>10, <3>1
    <2>8. Halved(Rebalance(WindowOf(t, L)), t)
      BY <1>6, <2>6, <2>7, RebalanceHalves
    <2>9. QED
      BY <1>3, <1>8, <1>13, <2>5, <2>8 DEF InsertWeight
  <1>14. CASE ~ (x.lower # << >> /\ v > MaxLower(x))
    <2>1. PICK M \in SUBSET DOMAIN t : M = L \cup {n}
      BY <1>6
    <2>2. AddLower(x, v) = Parts(t, Put(Tally(t, L), t[n]), Tally(t, U), Cardinality(L) + 1, Cardinality(U))
      BY <1>5, <1>9, Edits
    <2>3. Put(Tally(t, L), t[n]) = Tally(t, M) /\ Cardinality(M) = Cardinality(L) + 1
      <3>1. Put(Tally(t, L), t[n]) = Tally(t, L \cup {n})
        BY <1>6, PutTally
      <3>2. Cardinality(L \cup {n}) = Cardinality(L) + 1
        BY <1>6, CountOneMore
      <3>3. QED
        BY <2>1, <3>1, <3>2
    <2>4. DOMAIN t \ M = U
      BY <1>2, <1>5, <1>6, <2>1
    <2>5. AddLower(x, v) = WindowOf(t, M)
      BY <2>2, <2>3, <2>4 DEF WindowOf, Parts
    <2>6. Sorted(t, M)
      <3>1. SUFFICES ASSUME NEW i \in M, NEW j \in U PROVE t[i] <= t[j]
        BY <2>4 DEF Sorted
      <3>2. CASE i \in L
        BY <1>1, <1>2, <1>5, <3>2 DEF Sorted
      <3>3. CASE i = n
        <4>1. L # {}
          BY <1>10, <3>1, SMTT(30)
        <4>2. PICK m \in L : MaxLower(w) = s[m]
          BY <1>1, <4>1, MeetingKeys
        <4>3. t[i] = v /\ ~ (v > s[m]) /\ s[m] \in Nat
          BY <1>5, <1>11, <1>12, <1>14, <3>3, <4>1, <4>2
        <4>4. s[m] <= s[j] /\ t[j] = s[j] /\ s[j] \in Nat
          BY <1>1, <1>2, <1>5 DEF Sorted
        <4>5. QED
          BY <4>3, <4>4
      <3>4. QED
        BY <2>1, <3>2, <3>3
    <2>7. Cardinality(M) - Cardinality(DOMAIN t \ M) \in {-1, 0, 1, 2}
      <3>1. Cardinality(DOMAIN t \ M) = Cardinality(U) /\ Cardinality(M) = Cardinality(L) + 1
        BY <2>3, <2>4
      <3>2. PICK l \in Nat, u \in Nat : l = Cardinality(L) /\ u = Cardinality(U)
        BY <1>10
      <3>3. l - u = 0 \/ l - u = 1
        BY <1>10, <3>2
      <3>4. (l + 1) - u = 1 \/ (l + 1) - u = 2
        BY <3>3
      <3>5. QED
        BY <3>1, <3>2, <3>4
    <2>8. Halved(Rebalance(WindowOf(t, M)), t)
      BY <2>6, <2>7, RebalanceHalves
    <2>9. InsertWeight(x, v) = Rebalance(AddLower(x, v))
      BY <1>14 DEF InsertWeight
    <2>10. QED
      BY <1>3, <1>8, <2>5, <2>8, <2>9
  <1>15. QED
    BY <1>13, <1>14

(* Which of the places with one weight are in the lower half does not matter. *)
LEMMA Holding ==
    ASSUME NEW s \in Seq(Nat), NEW L \in SUBSET DOMAIN s, Sorted(s, L), NEW i \in L, NEW k \in DOMAIN s,
           s[i] = s[k]
    PROVE  \E M \in SUBSET DOMAIN s : k \in M /\ WindowOf(s, M) = WindowOf(s, L) /\ Sorted(s, M)
  <1>1. CASE k \in L
    BY <1>1
  <1>2. CASE k \notin L
    <2>1. PICK U \in SUBSET DOMAIN s : U = DOMAIN s \ L
      OBVIOUS
    <2>2. PICK M \in SUBSET DOMAIN s : M = (L \ {i}) \cup {k}
      OBVIOUS
    <2>3. DOMAIN s \ M = (U \ {k}) \cup {i} /\ k \in U /\ i \notin U /\ i \in DOMAIN s
      BY <1>2, <2>1, <2>2
    <2>4. Tally(s, L) = Tally(s, M) /\ Cardinality(L) = Cardinality(M)
      BY <1>2, <2>2, SwapTally
    <2>5. Tally(s, U) = Tally(s, DOMAIN s \ M) /\ Cardinality(U) = Cardinality(DOMAIN s \ M)
      BY <2>3, SwapTally
    <2>6. WindowOf(s, M) = WindowOf(s, L)
      BY <2>1, <2>4, <2>5 DEF WindowOf
    <2>7. Sorted(s, M)
      <3>1. SUFFICES ASSUME NEW a \in M, NEW b \in DOMAIN s \ M PROVE s[a] <= s[b]
        BY DEF Sorted
      <3>2. \A x \in L, y \in U : s[x] <= s[y]
        BY <2>1 DEF Sorted
      <3>3. PICK x \in L : s[x] = s[a]
        BY <2>2
      <3>4. PICK y \in U : s[y] = s[b]
        BY <2>3
      <3>5. QED
        BY <3>2, <3>3, <3>4
    <2>8. QED
      BY <2>2, <2>6, <2>7
  <1>3. QED
    BY <1>1, <1>2

(* The window over all but the oldest weight. *)
Divided(s, P, Q) ==
    P \cup Q = 2..Len(s) /\ P \cap Q = {} /\ \A i \in P, j \in Q : s[i] <= s[j]

Kept(s, P, Q, L) ==
    /\ Parts(Tail(s), Tally(s, P), Tally(s, Q), Cardinality(P), Cardinality(Q)) = WindowOf(Tail(s), L)
    /\ Sorted(Tail(s), L)
    /\ Cardinality(L) = Cardinality(P) /\ Cardinality(DOMAIN Tail(s) \ L) = Cardinality(Q)

LEMMA Shortened ==
    ASSUME NEW s \in Seq(Nat), s # << >>, NEW P \in SUBSET (2..Len(s)), NEW Q \in SUBSET (2..Len(s)),
           Divided(s, P, Q)
    PROVE  \E L \in SUBSET DOMAIN Tail(s) : Kept(s, P, Q, L)
  <1>0. P \cup Q = 2..Len(s) /\ P \cap Q = {} /\ \A i \in P, j \in Q : s[i] <= s[j]
    BY DEF Divided
  <1>1. /\ Back(P) \in SUBSET DOMAIN Tail(s) /\ \A k \in P : Tail(s)[k - 1] = s[k]
        /\ Tally(Tail(s), Back(P)) = Tally(s, P) /\ Cardinality(Back(P)) = Cardinality(P)
    BY TailTally
  <1>2. /\ Back(Q) \in SUBSET DOMAIN Tail(s) /\ \A k \in Q : Tail(s)[k - 1] = s[k]
        /\ Tally(Tail(s), Back(Q)) = Tally(s, Q) /\ Cardinality(Back(Q)) = Cardinality(Q)
    BY TailTally
  <1>3. DOMAIN Tail(s) \ Back(P) = Back(Q)
    <2>1. DOMAIN Tail(s) = 1..(Len(s) - 1) /\ Len(s) \in Nat /\ Len(s) >= 1
      OBVIOUS
    <2>2. \A k \in DOMAIN Tail(s) : k + 1 \in 2..Len(s) /\ (k + 1) - 1 = k
      BY <2>1
    <2>3. \A k \in DOMAIN Tail(s) : k \in Back(P) \/ k \in Back(Q)
      <3>1. SUFFICES ASSUME NEW k \in DOMAIN Tail(s) PROVE k \in Back(P) \/ k \in Back(Q)
        OBVIOUS
      <3>2. k + 1 \in P \/ k + 1 \in Q
        BY <1>0, <2>2
      <3>3. (k + 1) - 1 = k
        BY <2>2
      <3>4. QED
        BY <3>2, <3>3 DEF Back
    <2>4. \A k : ~ (k \in Back(P) /\ k \in Back(Q))
      <3>1. SUFFICES ASSUME NEW i \in P, NEW j \in Q, i - 1 = j - 1 PROVE FALSE
        BY DEF Back
      <3>2. i \in Int /\ j \in Int
        BY <2>1
      <3>3. i = j
        BY <3>1, <3>2
      <3>4. QED
        BY <1>0, <3>3
    <2>5. QED
      BY <1>2, <2>3, <2>4
  <1>4. Sorted(Tail(s), Back(P))
    <2>1. SUFFICES ASSUME NEW i \in P, NEW j \in Q PROVE Tail(s)[i - 1] <= Tail(s)[j - 1]
      BY <1>3 DEF Sorted, Back
    <2>2. QED
      BY <1>0, <1>1, <1>2
  <1>5. Parts(Tail(s), Tally(s, P), Tally(s, Q), Cardinality(P), Cardinality(Q)) = WindowOf(Tail(s), Back(P))
    BY <1>1, <1>2, <1>3 DEF WindowOf, Parts
  <1>6. Kept(s, P, Q, Back(P))
    BY <1>1, <1>2, <1>3, <1>4, <1>5 DEF Kept
  <1>7. QED
    BY <1>1, <1>6

(* remove, of the oldest weight, just taken off the order. *)
LEMMA RemoveHalves ==
    ASSUME NEW s \in Seq(Nat), s # << >>, NEW w, Halved(w, s)
    PROVE  Halved(RemoveWeight([w EXCEPT !.order = Tail(@)], Head(s)), Tail(s))
  <1>1. PICK K \in SUBSET DOMAIN s :
            w = WindowOf(s, K) /\ Sorted(s, K) /\ Cardinality(K) - Cardinality(DOMAIN s \ K) \in {0, 1}
    BY DEF Halved
  <1>2. Len(s) \in Nat /\ Len(s) >= 1 /\ DOMAIN s = 1..Len(s) /\ Head(s) = s[1] /\ 1 \in DOMAIN s
    OBVIOUS
  <1>t. Tail(s) \in Seq(Nat)
    OBVIOUS
  <1>3. PICK x : x = [w EXCEPT !.order = Tail(@)]
    OBVIOUS
  <1>4. /\ x = Parts(Tail(s), Tally(s, K), Tally(s, DOMAIN s \ K), Cardinality(K), Cardinality(DOMAIN s \ K))
    BY <1>1, <1>3, Reordered
  <1>5. DOMAIN x.lower = {s[k] : k \in K}
    BY <1>4 DEF Parts, Tally
  <1>6. CASE s[1] \in DOMAIN x.lower
    <2>1. PICK one \in K : s[one] = s[1]
      BY <1>5, <1>6
    <2>2. PICK L \in SUBSET DOMAIN s : 1 \in L /\ WindowOf(s, L) = WindowOf(s, K) /\ Sorted(s, L)
      BY <1>1, <1>2, <2>1, Holding
    <2>3. PICK U \in SUBSET DOMAIN s : U = DOMAIN s \ L
      OBVIOUS
    <2>4. PICK P \in SUBSET (2..Len(s)) : P = L \ {1}
      <3>1. \A k \in 1..Len(s) : k # 1 => k \in 2..Len(s)
        BY <1>2
      <3>2. L \ {1} \in SUBSET (2..Len(s))
        BY <1>2, <3>1
      <3>3. QED
        BY <3>2
    <2>5. U \in SUBSET (2..Len(s)) /\ P \cup U = 2..Len(s) /\ P \cap U = {}
      BY <1>2, <2>2, <2>3, <2>4
    <2>6. \A a \in P, b \in U : s[a] <= s[b]
      BY <2>2, <2>3, <2>4 DEF Sorted
    <2>7. Take(Tally(s, L), s[1]) = Tally(s, P) /\ Cardinality(P) = Cardinality(L) - 1
      BY <2>2, <2>4, TakeTally, CountPlaces
    <2>8. x = Parts(Tail(s), Tally(s, L), Tally(s, U), Cardinality(L), Cardinality(U))
      <3>1. w = WindowOf(s, L)
        BY <1>1, <2>2
      <3>2. WindowOf(s, L).order = s
        BY Reordered
      <3>3. x = [WindowOf(s, L) EXCEPT !.order = Tail(s)]
        BY <1>3, <3>1, <3>2
      <3>4. QED
        BY <2>3, <3>3, Reordered
    <2>9. TakeLower(x, s[1]) = Parts(Tail(s), Tally(s, P), Tally(s, U), Cardinality(P), Cardinality(U))
      BY <2>7, <2>8, Edits
    <2>10. PICK M \in SUBSET DOMAIN Tail(s) :
              /\ TakeLower(x, s[1]) = WindowOf(Tail(s), M) /\ Sorted(Tail(s), M)
              /\ Cardinality(M) = Cardinality(P) /\ Cardinality(DOMAIN Tail(s) \ M) = Cardinality(U)
      <3>1. Divided(s, P, U)
        BY <2>5, <2>6 DEF Divided
      <3>2. U \in SUBSET (2..Len(s))
        BY <2>5
      <3>3. PICK M \in SUBSET DOMAIN Tail(s) : Kept(s, P, U, M)
        BY <3>1, <3>2, Shortened
      <3>4. QED
        BY <2>9, <3>3 DEF Kept
    <2>11. Cardinality(L) \in Nat /\ Cardinality(U) \in Nat /\ Cardinality(L) - Cardinality(U) \in {0, 1}
      <3>1. Cardinality(L) = w.lowerLen /\ Cardinality(U) = w.upperLen
        BY <1>1, <2>2, <2>3 DEF WindowOf
      <3>2. Cardinality(K) = w.lowerLen /\ Cardinality(DOMAIN s \ K) = w.upperLen
        BY <1>1 DEF WindowOf
      <3>3. QED
        BY <1>1, <2>3, <3>1, <3>2, HalfSizes
    <2>12. Cardinality(M) - Cardinality(DOMAIN Tail(s) \ M) \in {-1, 0, 1, 2}
      <3>1. PICK l \in Nat, u \in Nat : l = Cardinality(L) /\ u = Cardinality(U)
        BY <2>11
      <3>2. l - u = 0 \/ l - u = 1
        BY <2>11, <3>1
      <3>3. (l - 1) - u = -1 \/ (l - 1) - u = 0
        BY <3>2
      <3>4. QED
        BY <2>7, <2>10, <3>1, <3>3
    <2>13. RemoveWeight(x, s[1]) = Rebalance(WindowOf(Tail(s), M))
      BY <1>6, <2>10 DEF RemoveWeight
    <2>14. Halved(RemoveWeight(x, s[1]), Tail(s))
      BY <1>t, <2>10, <2>12, <2>13, RebalanceHalves
    <2>15. QED
      BY <1>2, <1>3, <2>14
  <1>7. CASE s[1] \notin DOMAIN x.lower
    <2>1. PICK U \in SUBSET DOMAIN s : U = DOMAIN s \ K
      OBVIOUS
    <2>2. 1 \notin K /\ 1 \in U
      BY <1>2, <1>5, <1>7, <2>1
    <2>3. PICK P \in SUBSET (2..Len(s)) : P = U \ {1}
      <3>1. \A k \in 1..Len(s) : k # 1 => k \in 2..Len(s)
        BY <1>2
      <3>2. U \ {1} \in SUBSET (2..Len(s))
        BY <1>2, <3>1
      <3>3. QED
        BY <3>2
    <2>4. K \in SUBSET (2..Len(s)) /\ K \cup P = 2..Len(s) /\ K \cap P = {}
      BY <1>2, <2>1, <2>2, <2>3
    <2>5. \A a \in K, b \in P : s[a] <= s[b]
      BY <1>1, <2>1, <2>3 DEF Sorted
    <2>6. Take(Tally(s, U), s[1]) = Tally(s, P) /\ Cardinality(P) = Cardinality(U) - 1
      BY <2>2, <2>3, TakeTally, CountPlaces
    <2>7. TakeUpper(x, s[1]) = Parts(Tail(s), Tally(s, K), Tally(s, P), Cardinality(K), Cardinality(P))
      BY <1>4, <2>1, <2>6, Edits
    <2>8. PICK M \in SUBSET DOMAIN Tail(s) :
              /\ TakeUpper(x, s[1]) = WindowOf(Tail(s), M) /\ Sorted(Tail(s), M)
              /\ Cardinality(M) = Cardinality(K) /\ Cardinality(DOMAIN Tail(s) \ M) = Cardinality(P)
      <3>1. Divided(s, K, P) /\ K \in SUBSET (2..Len(s))
        BY <2>4, <2>5 DEF Divided
      <3>2. PICK M \in SUBSET DOMAIN Tail(s) : Kept(s, K, P, M)
        BY <3>1, Shortened
      <3>3. QED
        BY <2>7, <3>2 DEF Kept
    <2>9. Cardinality(M) - Cardinality(DOMAIN Tail(s) \ M) \in {-1, 0, 1, 2}
      <3>1. PICK l \in Nat, u \in Nat : l = Cardinality(K) /\ u = Cardinality(U)
        BY <2>1, HalfSizes
      <3>2. l - u = 0 \/ l - u = 1
        BY <1>1, <2>1, <3>1
      <3>3. l - (u - 1) = 1 \/ l - (u - 1) = 2
        BY <3>2
      <3>4. QED
        BY <2>6, <2>8, <3>1, <3>3
    <2>10. RemoveWeight(x, s[1]) = Rebalance(WindowOf(Tail(s), M))
      BY <1>7, <2>8 DEF RemoveWeight
    <2>11. Halved(RemoveWeight(x, s[1]), Tail(s))
      BY <1>t, <2>8, <2>9, <2>10, RebalanceHalves
    <2>12. QED
      BY <1>2, <1>3, <2>11
  <1>8. QED
    BY <1>6, <1>7

(* push: the order of the window after it, and its halves. *)
Pushed(s, v) == Append(IF Len(s) = Capacity THEN Tail(s) ELSE s, v)

LEMMA PushHalves ==
    ASSUME NEW s \in Seq(Nat), NEW w, Halved(w, s), NEW v \in Nat
    PROVE  Halved(Push(w, v), Pushed(s, v)) /\ Pushed(s, v) \in Seq(Nat)
  <1>1. w.order = s
    BY Reordered DEF Halved
  <1>2. Capacity \in Nat /\ Capacity # 0
    BY CapacityAssumption
  <1>3. CASE Len(s) = Capacity
    <2>1. s # << >> /\ Tail(s) \in Seq(Nat)
      BY <1>2, <1>3
    <2>2. PICK x : x = RemoveWeight([w EXCEPT !.order = Tail(@)], Head(s))
      OBVIOUS
    <2>3. Halved(x, Tail(s))
      BY <2>1, <2>2, RemoveHalves
    <2>4. Halved(InsertWeight([x EXCEPT !.order = Append(@, v)], v), Append(Tail(s), v))
      BY <2>1, <2>3, InsertHalves
    <2>5. Push(w, v) = InsertWeight([x EXCEPT !.order = Append(@, v)], v)
      BY <1>1, <1>3, <2>2 DEF Push
    <2>6. Pushed(s, v) = Append(Tail(s), v)
      BY <1>3 DEF Pushed
    <2>7. QED
      BY <2>1, <2>4, <2>5, <2>6
  <1>4. CASE Len(s) # Capacity
    <2>1. Halved(InsertWeight([w EXCEPT !.order = Append(@, v)], v), Append(s, v))
      BY InsertHalves
    <2>2. Push(w, v) = InsertWeight([w EXCEPT !.order = Append(@, v)], v)
      BY <1>1, <1>4 DEF Push
    <2>3. Pushed(s, v) = Append(s, v)
      BY <1>4 DEF Pushed
    <2>4. QED
      BY <2>1, <2>2, <2>3
  <1>5. QED
    BY <1>3, <1>4

(* Two halves that differ only in places of one weight, as many on either side. *)
LEMMA SameTally ==
    ASSUME NEW s \in Seq(Nat), NEW S \in SUBSET DOMAIN s, NEW T \in SUBSET DOMAIN s,
           Cardinality(S \ T) = Cardinality(T \ S),
           \A i \in S \ T, j \in T \ S : s[i] = s[j]
    PROVE  Tally(s, S) = Tally(s, T)
  <1>1. PICK A \in SUBSET DOMAIN s : A = S \ T
    OBVIOUS
  <1>2. PICK B \in SUBSET DOMAIN s : B = T \ S
    OBVIOUS
  <1>3. PICK C \in SUBSET DOMAIN s : C = S \cap T
    OBVIOUS
  <1>4. S = C \cup A /\ T = C \cup B
    BY <1>1, <1>2, <1>3
  <1>5. (A = {} <=> Cardinality(A) = 0) /\ (B = {} <=> Cardinality(B) = 0)
    BY CountPlaces
  <1>6. CASE A = {}
    <2>1. S = T
      BY <1>1, <1>2, <1>4, <1>5, <1>6
    <2>2. QED
      BY <2>1
  <1>7. CASE A # {}
    <2>1. B # {}
      BY <1>1, <1>2, <1>5, <1>7
    <2>2. PICK a \in A, b \in B : TRUE
      BY <1>7, <2>1
    <2>3. (\A i \in A : s[i] = s[b]) /\ (\A j \in B : s[j] = s[a]) /\ s[a] = s[b]
      BY <1>1, <1>2, <2>2
    <2>4. {s[k] : k \in S} = {s[k] : k \in T}
      BY <1>4, <2>2, <2>3
    <2>5. ASSUME NEW v PROVE Cardinality(Having(s, S, v)) = Cardinality(Having(s, T, v))
      <3>1. PICK H \in SUBSET DOMAIN s : H = Having(s, C, v)
        BY HavingPlaces
      <3>2. CASE v = s[a]
        <4>1. Having(s, S, v) = H \cup A /\ Having(s, T, v) = H \cup B
          BY <1>4, <2>3, <3>1, <3>2 DEF Having
        <4>2. H \cap A = {} /\ H \cap B = {}
          BY <1>1, <1>2, <1>3, <3>1 DEF Having
        <4>3. /\ Cardinality(H \cup A) = Cardinality(H) + Cardinality(A)
              /\ Cardinality(H \cup B) = Cardinality(H) + Cardinality(B)
          <5>1. Cardinality(H \cup A) = Cardinality(H) + Cardinality(A)
            BY <4>2, CountApart
          <5>2. Cardinality(H \cup B) = Cardinality(H) + Cardinality(B)
            BY <4>2, CountApart
          <5>3. QED
            BY <5>1, <5>2
        <4>4. QED
          BY <1>1, <1>2, <4>1, <4>3
      <3>3. CASE v # s[a]
        <4>1. Having(s, S, v) = H /\ Having(s, T, v) = H
          BY <1>4, <2>3, <3>1, <3>3 DEF Having
        <4>2. QED
          BY <4>1
      <3>4. QED
        BY <3>2, <3>3
    <2>6. QED
      BY <2>4, <2>5 DEF Tally
  <1>8. QED
    BY <1>6, <1>7

(* The order determines the window: reading the rows again gives the halves
   that pushing and evicting left. *)
LEMMA HalvedUnique ==
    ASSUME NEW s \in Seq(Nat), NEW w, NEW x, Halved(w, s), Halved(x, s)
    PROVE  w = x
  <1>1. PICK L \in SUBSET DOMAIN s :
            w = WindowOf(s, L) /\ Sorted(s, L) /\ Cardinality(L) - Cardinality(DOMAIN s \ L) \in {0, 1}
    BY DEF Halved
  <1>2. PICK M \in SUBSET DOMAIN s :
            x = WindowOf(s, M) /\ Sorted(s, M) /\ Cardinality(M) - Cardinality(DOMAIN s \ M) \in {0, 1}
    BY DEF Halved
  <1>3. PICK U \in SUBSET DOMAIN s : U = DOMAIN s \ L
    OBVIOUS
  <1>4. PICK V \in SUBSET DOMAIN s : V = DOMAIN s \ M
    OBVIOUS
  <1>5. PICK A \in SUBSET DOMAIN s : A = L \ M
    OBVIOUS
  <1>6. PICK B \in SUBSET DOMAIN s : B = M \ L
    OBVIOUS
  <1>7. PICK C \in SUBSET DOMAIN s : C = L \cap M
    OBVIOUS
  <1>8. Cardinality(L) = Cardinality(M) /\ Cardinality(U) = Cardinality(V)
    <2>1. PICK l \in Nat, m \in Nat, u \in Nat, v \in Nat, n \in Nat :
             /\ l = Cardinality(L) /\ m = Cardinality(M) /\ u = Cardinality(U) /\ v = Cardinality(V)
             /\ n = Len(s)
      BY PlacesFinite
    <2>2. l + u = n /\ m + v = n
      BY <1>3, <1>4, <2>1, HalfSizes
    <2>3. l - u \in {0, 1} /\ m - v \in {0, 1}
      BY <1>1, <1>2, <1>3, <1>4, <2>1
    <2>4. l = m /\ u = v
      BY <2>2, <2>3
    <2>5. QED
      BY <2>1, <2>4
  <1>9. Cardinality(A) = Cardinality(B)
    <2>1. L = C \cup A /\ M = C \cup B /\ C \cap A = {} /\ C \cap B = {}
      BY <1>5, <1>6, <1>7
    <2>2. /\ Cardinality(C \cup A) = Cardinality(C) + Cardinality(A)
          /\ Cardinality(C \cup B) = Cardinality(C) + Cardinality(B)
      BY <2>1, CountPlaces
    <2>3. Cardinality(A) \in Nat /\ Cardinality(B) \in Nat /\ Cardinality(C) \in Nat
      BY PlacesFinite
    <2>4. Cardinality(C) + Cardinality(A) = Cardinality(C) + Cardinality(B)
      BY <1>8, <2>1, <2>2
    <2>5. \A a, b, c \in Nat : c + a = c + b => a = b
      OBVIOUS
    <2>6. QED
      BY <2>3, <2>4, <2>5
  <1>10. \A i \in A, j \in B : s[i] = s[j]
    <2>1. SUFFICES ASSUME NEW i \in A, NEW j \in B PROVE s[i] = s[j]
      OBVIOUS
    <2>2. s[i] <= s[j] /\ s[j] <= s[i]
      BY <1>1, <1>2, <1>5, <1>6 DEF Sorted
    <2>3. s[i] \in Nat /\ s[j] \in Nat
      OBVIOUS
    <2>4. QED
      BY <2>2, <2>3
  <1>11. Tally(s, L) = Tally(s, M)
    BY <1>5, <1>6, <1>9, <1>10, SameTally
  <1>12. Tally(s, U) = Tally(s, V)
    <2>1. U \ V = B /\ V \ U = A
      BY <1>3, <1>4, <1>5, <1>6
    <2>2. QED
      BY <1>9, <1>10, <2>1, SameTally
  <1>13. QED
    BY <1>1, <1>2, <1>3, <1>4, <1>8, <1>11, <1>12 DEF WindowOf

(* The median of the window is that of its weights. *)
Middle(s) == (Nth(s, (Len(s) + 1) \div 2) + Nth(s, Len(s) \div 2 + 1)) \div 2

LEMMA HalvedMedian ==
    ASSUME NEW s \in Seq(Nat), s # << >>, NEW w, Halved(w, s)
    PROVE  WindowMedian(w) = Middle(s) /\ WindowMedian(w) \in Nat
  <1>1. PICK L \in SUBSET DOMAIN s :
            w = WindowOf(s, L) /\ Sorted(s, L) /\ Cardinality(L) - Cardinality(DOMAIN s \ L) \in {0, 1}
    BY DEF Halved
  <1>2. PICK U \in SUBSET DOMAIN s : U = DOMAIN s \ L
    OBVIOUS
  <1>3. PICK l \in Nat, u \in Nat, n \in Nat : l = Cardinality(L) /\ u = Cardinality(U) /\ n = Len(s)
    BY PlacesFinite
  <1>4. l + u = n /\ l - u \in {0, 1} /\ n >= 1 /\ (l = 0 <=> L = {}) /\ (u = 0 <=> U = {})
    <2>1. Len(s) >= 1
      OBVIOUS
    <2>2. QED
      BY <1>1, <1>2, <1>3, <2>1, HalfSizes
  <1>5. l >= 1 /\ (n + 1) \div 2 = l /\ n \div 2 + 1 = u + 1 /\ (n % 2 = 1 <=> l = u + 1) /\ l \in 1..n
    BY <1>4
  <1>6. \A k \in DOMAIN s : s[k] \in Nat
    OBVIOUS
  <1>7. PICK m \in L : MaxLower(w) = s[m] /\ \A k \in L : s[k] <= s[m]
    BY <1>1, <1>4, <1>5, MeetingKeys
  <1>8. Nth(s, l) = s[m]
    <2>1. Under(s, s[m]) \subseteq L \ {m}
      BY <1>1, <1>6 DEF Under, Sorted
    <2>2. L \subseteq AtMost(s, s[m])
      BY <1>7 DEF AtMost
    <2>3. PICK A \in SUBSET DOMAIN s, B \in SUBSET DOMAIN s, C \in SUBSET DOMAIN s :
             A = Under(s, s[m]) /\ B = AtMost(s, s[m]) /\ C = L \ {m}
      BY DEF Under, AtMost
    <2>4. Cardinality(A) <= Cardinality(C) /\ l <= Cardinality(B) /\ Cardinality(C) = l - 1
      BY <1>3, <2>1, <2>2, <2>3, CountPlaces
    <2>5. Cardinality(A) \in Nat /\ Cardinality(B) \in Nat
      BY PlacesFinite
    <2>6. s[m] \in Range(s)
      BY DEF Range
    <2>7. StandsAt(s, l, s[m])
      BY <1>5, <2>3, <2>4, <2>5, <2>6 DEF StandsAt
    <2>8. QED
      BY <1>3, <1>5, <2>7, NthStands
  <1>9. w.lowerLen = l /\ w.upperLen = u /\ w.lower # << >> /\ (w.upper = << >> <=> U = {})
    <2>1. w.lowerLen = l /\ w.upperLen = u /\ w.lower = Tally(s, L) /\ w.upper = Tally(s, U)
      BY <1>1, <1>2, <1>3 DEF WindowOf
    <2>2. QED
      BY <1>4, <1>5, <2>1, EmptyTally
  <1>10. CASE l = u + 1
    <2>1. WindowMedian(w) = s[m]
      BY <1>4, <1>5, <1>7, <1>9, <1>10 DEF WindowMedian
    <2>2. Middle(s) = (s[m] + s[m]) \div 2
      BY <1>3, <1>5, <1>8, <1>10 DEF Middle
    <2>3. s[m] \in Nat
      OBVIOUS
    <2>4. QED
      BY <2>1, <2>2, <2>3
  <1>11. CASE l = u
    <2>1. U # {}
      BY <1>4, <1>5, <1>11
    <2>2. PICK p \in U : MinUpper(w) = s[p] /\ \A k \in U : s[p] <= s[k]
      BY <1>1, <1>2, <2>1, MeetingKeys
    <2>3. Nth(s, l + 1) = s[p]
      <3>1. Under(s, s[p]) \subseteq L
        BY <1>2, <1>6, <2>2 DEF Under
      <3>2. L \cup {p} \subseteq AtMost(s, s[p])
        BY <1>1, <1>2, <1>6, <2>2 DEF AtMost, Sorted
      <3>3. PICK A \in SUBSET DOMAIN s, B \in SUBSET DOMAIN s, C \in SUBSET DOMAIN s :
               A = Under(s, s[p]) /\ B = AtMost(s, s[p]) /\ C = L \cup {p}
        BY DEF Under, AtMost
      <3>4. p \in DOMAIN s /\ p \notin L
        BY <1>2
      <3>5. Cardinality(A) <= l /\ Cardinality(C) <= Cardinality(B) /\ Cardinality(C) = l + 1
        BY <1>3, <3>1, <3>2, <3>3, <3>4, CountPlaces
      <3>6. Cardinality(A) \in Nat /\ Cardinality(B) \in Nat
        BY PlacesFinite
      <3>7. s[p] \in Range(s)
        BY <3>4 DEF Range
      <3>8. StandsAt(s, l + 1, s[p])
        BY <3>3, <3>5, <3>6, <3>7 DEF StandsAt
      <3>9. l + 1 \in 1..Len(s)
        <4>1. l + 1 <= n
          BY <1>4, <1>5, <1>11
        <4>2. l + 1 \in 1..n
          BY <4>1
        <4>3. QED
          BY <1>3, <4>2
      <3>10. QED
        BY <3>8, <3>9, NthStands
    <2>4. PICK a \in Nat, b \in Nat : a = s[m] /\ b = s[p]
      BY <1>6, <1>2
    <2>5. (l + u) % 2 # 1
      BY <1>4, <1>11
    <2>6. WindowMedian(w) = GetMid(a, b)
      BY <1>7, <1>9, <2>1, <2>2, <2>4, <2>5 DEF WindowMedian
    <2>7. Middle(s) = (a + b) \div 2
      BY <1>3, <1>5, <1>8, <1>11, <2>3, <2>4 DEF Middle
    <2>8. GetMid(a, b) = (a + b) \div 2 /\ GetMid(a, b) \in Nat
      BY DEF GetMid
    <2>9. QED
      BY <2>6, <2>7, <2>8
  <1>12. QED
    BY <1>4, <1>10, <1>11

-----------------------------------------------------------------------------
(* The last n of a sequence. *)

LEMMA LastOfIs ==
    ASSUME NEW S, NEW s \in Seq(S), NEW n \in Nat, n # 0
    PROVE  /\ LastOf(s, n) \in Seq(S) /\ Len(LastOf(s, n)) = Smaller(Len(s), n)
           /\ \A k \in 1..Smaller(Len(s), n) :
                 LastOf(s, n)[k] = s[Len(s) - Smaller(Len(s), n) + k]
  <1>1. PICK l \in Nat : l = Len(s)
    OBVIOUS
  <1>2. PICK a \in Nat : a = Larger(l - n + 1, 1) /\ a >= 1
    <2>1. Larger(l - n + 1, 1) \in Nat /\ Larger(l - n + 1, 1) >= 1
      BY DEF Larger
    <2>2. QED
      BY <2>1
  <1>3. PICK m \in Nat : m = Smaller(l, n)
    BY DEF Smaller
  <1>4. a = l - m + 1 /\ m <= l
    BY <1>2, <1>3 DEF Larger, Smaller
  <1>5. LastOf(s, n) = SubSeq(s, a, l)
    BY <1>1, <1>2 DEF LastOf
  <1>6. SubSeq(s, a, l) \in Seq(S)
    <2>1. \A k \in a..l : s[k] \in S
      BY <1>1, <1>2
    <2>2. QED
      BY <1>1, <1>2, <2>1
  <1>7. Len(SubSeq(s, a, l)) = m
    <2>1. l >= a => Len(SubSeq(s, a, l)) = l - a + 1
      BY <1>1, <1>2
    <2>2. ~ (l >= a) => Len(SubSeq(s, a, l)) = 0
      BY <1>1, <1>2
    <2>3. QED
      BY <1>4, <2>1, <2>2
  <1>8. \A k \in 1..m : SubSeq(s, a, l)[k] = s[l - m + k]
    <2>1. SUFFICES ASSUME NEW k \in 1..m PROVE SubSeq(s, a, l)[k] = s[l - m + k]
      OBVIOUS
    <2>2. SubSeq(s, a, l)[k] = s[a + k - 1]
      BY <1>1, <1>2, <1>4, SMTT(30)
    <2>3. a + k - 1 = l - m + k
      BY <1>4
    <2>4. QED
      BY <2>2, <2>3
  <1>9. QED
    BY <1>1, <1>3, <1>5, <1>6, <1>7, <1>8

(* Sequences are equal when their elements are. *)
LEMMA SameElements ==
    ASSUME NEW S, NEW s \in Seq(S), NEW T, NEW t \in Seq(T), Len(s) = Len(t), \A k \in 1..Len(s) : s[k] = t[k]
    PROVE  s = t
  <1>1. DOMAIN s = 1..Len(s) /\ DOMAIN t = 1..Len(t)
    OBVIOUS
  <1>2. s = [k \in DOMAIN s |-> s[k]] /\ t = [k \in DOMAIN t |-> t[k]]
    OBVIOUS
  <1>3. QED
    BY <1>1, <1>2

(* One column of the rows: c gives a row's entry. *)
Column(c, s) == [k \in DOMAIN s |-> c[s[k]]]

Elementwise(c, s, t) == Len(t) = Len(s) /\ \A k \in 1..Len(s) : t[k] = c[s[k]]

LEMMA ColumnIs ==
    ASSUME NEW S, NEW T, NEW c \in [S -> T], NEW s \in Seq(S)
    PROVE  Column(c, s) \in Seq(T) /\ Elementwise(c, s, Column(c, s))
  <1>1. DOMAIN s = 1..Len(s) /\ Len(s) \in Nat /\ \A k \in 1..Len(s) : s[k] \in S
    OBVIOUS
  <1>2. Column(c, s) = [k \in 1..Len(s) |-> c[s[k]]]
    BY <1>1 DEF Column
  <1>3. QED
    BY <1>1, <1>2 DEF Elementwise

(* A window of a column that is carried along is the window of the column:
   the new entry goes to its end, and the oldest off a full window. *)
Carries(c, s, x, n) ==
    LastOf(Append(Column(c, LastOf(s, n)), c[x]), n) = Column(c, LastOf(Append(s, x), n))

LEMMA ColumnCarried ==
    ASSUME NEW S, NEW T, NEW c \in [S -> T], NEW s \in Seq(S), NEW x \in S, NEW n \in Nat, n # 0
    PROVE  Carries(c, s, x, n)
  <1>1. PICK l \in Nat, m \in Nat, p \in Nat :
           l = Len(s) /\ m = Smaller(l, n) /\ p = Smaller(l + 1, n) /\ p # 0 /\ p = Smaller(m + 1, n)
    BY DEF Smaller
  <1>m. m <= l /\ p <= l + 1 /\ p <= m + 1
    BY <1>1 DEF Smaller
  <1>2. PICK a \in Seq(S) : a = LastOf(s, n)
    BY LastOfIs
  <1>3. Len(a) = m /\ \A k \in 1..m : a[k] = s[l - m + k]
    BY <1>1, <1>2, LastOfIs
  <1>4. PICK b \in Seq(T) : b = Column(c, a)
    BY ColumnIs
  <1>5. Len(b) = m /\ \A k \in 1..m : b[k] = c[s[l - m + k]]
    <2>1. Elementwise(c, a, b)
      BY <1>4, ColumnIs
    <2>2. QED
      BY <1>3, <2>1 DEF Elementwise
  <1>6. PICK d \in Seq(T) : d = Append(b, c[x])
    <2>1. c[x] \in T
      OBVIOUS
    <2>2. Append(b, c[x]) \in Seq(T)
      BY <2>1
    <2>3. QED
      BY <2>2
  <1>7. Len(d) = m + 1 /\ d[m + 1] = c[x] /\ \A k \in 1..m : d[k] = c[s[l - m + k]]
    BY <1>5, <1>6
  <1>8. PICK e \in Seq(S) : e = Append(s, x)
    <2>1. Append(s, x) \in Seq(S)
      OBVIOUS
    <2>2. QED
      BY <2>1
  <1>9. Len(e) = l + 1 /\ e[l + 1] = x /\ \A k \in 1..l : e[k] = s[k]
    BY <1>1, <1>8
  <1>10. PICK f \in Seq(S) : f = LastOf(e, n)
    BY LastOfIs
  <1>11. Len(f) = p /\ \A k \in 1..p : f[k] = e[l + 1 - p + k]
    <2>1. Smaller(Len(e), n) = p
      BY <1>1, <1>9
    <2>2. Len(LastOf(e, n)) = p /\ \A k \in 1..p : LastOf(e, n)[k] = e[Len(e) - p + k]
      BY <2>1, LastOfIs
    <2>3. QED
      BY <1>9, <1>10, <2>2
  <1>12. PICK g \in Seq(T) : g = Column(c, f)
    BY ColumnIs
  <1>13. Len(g) = p /\ \A k \in 1..p : g[k] = c[e[l + 1 - p + k]]
    <2>1. Elementwise(c, f, g)
      BY <1>12, ColumnIs
    <2>2. QED
      BY <1>11, <2>1 DEF Elementwise
  <1>14. PICK h \in Seq(T) : h = LastOf(d, n)
    BY LastOfIs
  <1>15. Len(h) = p /\ \A k \in 1..p : h[k] = d[m + 1 - p + k]
    <2>1. Smaller(Len(d), n) = p
      BY <1>1, <1>7
    <2>2. Len(LastOf(d, n)) = p /\ \A k \in 1..p : LastOf(d, n)[k] = d[Len(d) - p + k]
      BY <2>1, LastOfIs
    <2>3. QED
      BY <1>7, <1>14, <2>2
  <1>16. \A k \in 1..p : g[k] = h[k]
    <2>1. SUFFICES ASSUME NEW k \in 1..p PROVE g[k] = h[k]
      OBVIOUS
    <2>2. CASE k = p
      <3>1. l + 1 - p + k = l + 1 /\ m + 1 - p + k = m + 1
        BY <2>2
      <3>2. QED
        BY <1>7, <1>9, <1>13, <1>15, <3>1
    <2>3. CASE k # p
      <3>1. /\ l + 1 - p + k \in 1..l /\ m + 1 - p + k \in 1..m
            /\ l - m + (m + 1 - p + k) = l + 1 - p + k
        BY <1>m, <2>3
      <3>2. g[k] = c[s[l + 1 - p + k]] /\ h[k] = c[s[l - m + (m + 1 - p + k)]]
        BY <1>7, <1>9, <1>13, <1>15, <3>1
      <3>3. QED
        BY <3>1, <3>2
    <2>4. QED
      BY <2>2, <2>3
  <1>17. g = h
    BY <1>13, <1>15, <1>16, SameElements
  <1>18. QED
    BY <1>2, <1>4, <1>6, <1>8, <1>10, <1>12, <1>14, <1>17 DEF Carries

(* The order of the window after a push, when it was no longer than it may be. *)
LEMMA PushedIs ==
    ASSUME NEW s \in Seq(Nat), NEW v \in Nat, Len(s) <= Capacity
    PROVE  Pushed(s, v) = LastOf(Append(s, v), Capacity)
  <1>1. Capacity \in Nat /\ Capacity # 0
    BY CapacityAssumption
  <1>2. PICK t \in Seq(Nat) : t = Append(s, v)
    <2>1. Append(s, v) \in Seq(Nat)
      OBVIOUS
    <2>2. QED
      BY <2>1
  <1>3. PICK n \in Nat : n = Len(s) /\ n <= Capacity
    OBVIOUS
  <1>4. Len(t) = n + 1 /\ t[n + 1] = v /\ \A k \in 1..n : t[k] = s[k]
    BY <1>2, <1>3
  <1>5. PICK p \in Nat : p = Smaller(n + 1, Capacity) /\ p = IF n = Capacity THEN n ELSE n + 1
    BY <1>1, <1>3 DEF Smaller
  <1>6. PICK a \in Seq(Nat) : a = LastOf(t, Capacity)
    BY <1>1, LastOfIs
  <1>7. Len(a) = p /\ \A k \in 1..p : a[k] = t[n + 1 - p + k]
    <2>1. Smaller(Len(t), Capacity) = p
      BY <1>4, <1>5
    <2>2. Len(LastOf(t, Capacity)) = p /\ \A k \in 1..p : LastOf(t, Capacity)[k] = t[Len(t) - p + k]
      BY <1>1, <2>1, LastOfIs
    <2>3. QED
      BY <1>4, <1>6, <2>2
  <1>8. CASE n = Capacity
    <2>1. Pushed(s, v) = Append(Tail(s), v)
      BY <1>3, <1>8 DEF Pushed
    <2>2. PICK b \in Seq(Nat) : b = Append(Tail(s), v)
      <3>1. Len(s) # 0
        BY <1>1, <1>3, <1>8
      <3>2. s # << >>
        BY <3>1
      <3>3. Tail(s) \in Seq(Nat)
        BY <3>2
      <3>4. Append(Tail(s), v) \in Seq(Nat)
        BY <3>3
      <3>5. QED
        BY <3>4
    <2>3. Len(b) = n /\ b[n] = v /\ \A k \in 1..(n - 1) : b[k] = s[k + 1]
      <3>1. n >= 1 /\ s # << >>
        <4>1. n # 0 /\ Len(s) # 0
          BY <1>1, <1>3, <1>8
        <4>2. QED
          BY <4>1
      <3>2. PICK d \in Seq(Nat) : d = Tail(s)
        <4>1. Tail(s) \in Seq(Nat)
          BY <3>1
        <4>2. QED
          BY <4>1
      <3>3. Len(d) = n - 1 /\ \A k \in 1..(n - 1) : d[k] = s[k + 1]
        BY <1>3, <3>1, <3>2
      <3>4. QED
        BY <2>2, <3>1, <3>2, <3>3
    <2>4. \A k \in 1..n : b[k] = a[k]
      <3>1. SUFFICES ASSUME NEW k \in 1..n PROVE b[k] = a[k]
        OBVIOUS
      <3>2. a[k] = t[k + 1]
        BY <1>5, <1>7, <1>8
      <3>3. QED
        BY <1>4, <2>3, <3>2
    <2>5. QED
      BY <1>2, <1>5, <1>6, <1>7, <1>8, <2>1, <2>2, <2>3, <2>4, SameElements, SMTT(30)
  <1>9. CASE n # Capacity
    <2>1. Pushed(s, v) = t
      BY <1>2, <1>3, <1>9 DEF Pushed
    <2>2. \A k \in 1..p : a[k] = t[k]
      BY <1>5, <1>7, <1>9
    <2>3. t = a
      BY <1>4, <1>5, <1>7, <1>9, <2>2, SameElements
    <2>4. QED
      BY <1>2, <1>6, <2>1, <2>3
  <1>10. QED
    BY <1>8, <1>9

-----------------------------------------------------------------------------
(* The long-term window read from the rows. *)

Row == [ts : Nat, weight : Nat, long : Nat, cd : 1..(U128 - 1), coins : 0..MoneySupply]

LongOf == [r \in Row |-> r.long]

PushesUpTo(r, f, m) ==
    f = [k \in 0..m |-> IF k = 0 THEN EmptyWindow ELSE Push(f[k - 1], r[k].long)]

LEMMA PushesExist ==
    ASSUME NEW r, NEW m \in Nat
    PROVE  \E f : PushesUpTo(r, f, m)
  <1> DEFINE T == {n \in Nat : ~ \E f : PushesUpTo(r, f, n)}
  <1>1. SUFFICES ASSUME T # {} PROVE FALSE
    OBVIOUS
  <1>2. PICK n \in T : \A k \in T : n <= k
    <2>1. T \in SUBSET Nat
      OBVIOUS
    <2> HIDE DEF T
    <2>2. QED
      BY <1>1, <2>1, LeastNumber
  <1>3. n # 0
    <2>1. SUFFICES ASSUME n = 0 PROVE FALSE
      OBVIOUS
    <2>2. PICK f : f = [k \in {0} |-> EmptyWindow]
      OBVIOUS
    <2>3. 0..0 = {0}
      OBVIOUS
    <2>4. f = [k \in {0} |-> IF k = 0 THEN EmptyWindow ELSE Push(f[k - 1], r[k].long)]
      BY <2>2
    <2>5. PushesUpTo(r, f, 0)
      BY <2>3, <2>4 DEF PushesUpTo
    <2>6. QED
      BY <1>2, <2>1, <2>5
  <1>4. n - 1 \in Nat /\ n - 1 \notin T
    BY <1>2, <1>3
  <1>5. PICK f : PushesUpTo(r, f, n - 1)
    BY <1>4
  <1>6. PICK g : g = [k \in 0..n |-> IF k < n THEN f[k] ELSE Push(f[n - 1], r[n].long)]
    OBVIOUS
  <1>7. \A k \in 0..n : g[k] = IF k = 0 THEN EmptyWindow ELSE Push(g[k - 1], r[k].long)
    <2>1. SUFFICES ASSUME NEW k \in 0..n
                   PROVE  g[k] = IF k = 0 THEN EmptyWindow ELSE Push(g[k - 1], r[k].long)
      OBVIOUS
    <2>2. \A j \in 0..(n - 1) : g[j] = f[j]
      BY <1>2, <1>6
    <2>3. CASE k < n
      <3>1. k \in 0..(n - 1) /\ (k # 0 => k - 1 \in 0..(n - 1))
        BY <1>2, <2>3
      <3>2. f[k] = IF k = 0 THEN EmptyWindow ELSE Push(f[k - 1], r[k].long)
        BY <1>5, <3>1 DEF PushesUpTo
      <3>3. QED
        BY <2>2, <3>1, <3>2
    <2>4. CASE k = n
      <3>1. g[k] = Push(f[n - 1], r[n].long)
        BY <1>2, <1>6, <2>4
      <3>2. g[n - 1] = f[n - 1]
        BY <1>2, <1>3, <2>2
      <3>3. QED
        BY <1>3, <2>4, <3>1, <3>2
    <2>5. QED
      BY <1>2, <2>3, <2>4
  <1>8. PushesUpTo(r, g, n)
    <2>1. g = [k \in 0..n |-> g[k]]
      BY <1>6
    <2>2. [k \in 0..n |-> g[k]] = [k \in 0..n |-> IF k = 0 THEN EmptyWindow ELSE Push(g[k - 1], r[k].long)]
      BY <1>7
    <2>3. QED
      BY <2>1, <2>2 DEF PushesUpTo
  <1>9. QED
    BY <1>2, <1>8

LEMMA EmptyHalved == Halved(EmptyWindow, << >>)
  <1>1. << >> \in Seq(Nat) /\ DOMAIN << >> = {} /\ {} \in SUBSET DOMAIN << >>
    OBVIOUS
  <1>2. Tally(<< >>, {}) = << >>
    BY <1>1, EmptyTally
  <1>3. Cardinality({}) = 0
    BY FS_EmptySet
  <1>4. DOMAIN << >> \ {} = {}
    BY <1>1
  <1>5. EmptyWindow = WindowOf(<< >>, {})
    BY <1>2, <1>3, <1>4 DEF EmptyWindow, WindowOf
  <1>6. Sorted(<< >>, {})
    BY DEF Sorted
  <1>7. Cardinality({}) - Cardinality(DOMAIN << >> \ {}) \in {0, 1}
    BY <1>3, <1>4
  <1>8. QED
    BY <1>1, <1>5, <1>6, <1>7 DEF Halved

(* The rows read one by one leave a halved window over their long-term weights. *)
LEMMA LongHalves ==
    ASSUME NEW r \in Seq(Row), Len(r) <= Capacity
    PROVE  Halved(LongWindow(r), Column(LongOf, r))
  <1> DEFINE Upto(k) == [j \in 1..k |-> r[j].long]
  <1>1. PICK n \in Nat : n = Len(r) /\ n <= Capacity
    OBVIOUS
  <1>2. Capacity \in Nat
    BY CapacityAssumption
  <1>3. \A k \in 1..n : r[k] \in Row /\ r[k].long \in Nat
    <2>1. \A k \in 1..n : r[k] \in Row
      BY <1>1
    <2>2. \A x \in Row : x.long \in Nat
      BY DEF Row
    <2>3. QED
      BY <2>1, <2>2
  <1>4. PICK f : f = CHOOSE g : PushesUpTo(r, g, n)
    OBVIOUS
  <1>5. PushesUpTo(r, f, n)
    BY <1>4, PushesExist
  <1>6. LongWindow(r) = f[n]
    BY <1>1, <1>4 DEF LongWindow, PushesUpTo
  <1>7. \A k \in 0..n : Upto(k) \in Seq(Nat) /\ Len(Upto(k)) = k
    BY <1>1, <1>3
  <1>8. ASSUME NEW k \in 1..n, Halved(f[k - 1], Upto(k - 1))
        PROVE  Halved(f[k], Upto(k))
    <2>0. k \in 0..n /\ k - 1 \in 0..n /\ k # 0
      OBVIOUS
    <2>1. PICK s \in Seq(Nat) : s = Upto(k - 1) /\ Len(s) = k - 1
      <3> HIDE DEF Upto
      <3>1. QED
        BY <1>7, <2>0
    <2>2. PICK v \in Nat : v = r[k].long
      BY <1>3
    <2>3. f[k] = Push(f[k - 1], v)
      BY <1>5, <2>0, <2>2 DEF PushesUpTo
    <2>4. Halved(Push(f[k - 1], v), Pushed(s, v))
      BY <1>8, <2>1, PushHalves
    <2>5. Pushed(s, v) = Append(s, v)
      BY <1>1, <1>2, <2>1 DEF Pushed
    <2>6. Append(s, v) = Upto(k)
      <3>1. PICK a \in Seq(Nat) : a = Append(s, v)
        <4>1. Append(s, v) \in Seq(Nat)
          OBVIOUS
        <4>2. QED
          BY <4>1
      <3>2. PICK b \in Seq(Nat) : b = Upto(k) /\ Len(b) = k
        <4> HIDE DEF Upto
        <4>1. QED
          BY <1>7, <2>0
      <3>3. Len(a) = k /\ a[k] = v /\ \A j \in 1..(k - 1) : a[j] = s[j]
        BY <2>1, <3>1
      <3>4. \A j \in 1..k : a[j] = b[j]
        <4>1. SUFFICES ASSUME NEW j \in 1..k PROVE a[j] = b[j]
          OBVIOUS
        <4>2. b[j] = r[j].long
          BY <3>2
        <4>3. CASE j = k
          BY <2>2, <3>3, <4>2, <4>3
        <4>4. CASE j # k
          <5>1. j \in 1..(k - 1)
            BY <4>4
          <5>2. s[j] = r[j].long
            BY <2>1, <5>1
          <5>3. QED
            BY <3>3, <4>2, <5>1, <5>2
        <4>5. QED
          BY <4>3, <4>4
      <3>5. a = b
        BY <3>2, <3>3, <3>4, SameElements
      <3>6. QED
        BY <3>1, <3>2, <3>5
    <2>7. QED
      BY <2>3, <2>4, <2>5, <2>6
  <1>9. Halved(f[0], Upto(0))
    <2>1. Upto(0) = << >>
      OBVIOUS
    <2>2. f[0] = EmptyWindow
      BY <1>1, <1>5 DEF PushesUpTo
    <2>3. QED
      BY <2>1, <2>2, EmptyHalved
  <1>10. Halved(f[n], Upto(n))
    <2> DEFINE T == {k \in 0..n : ~ Halved(f[k], Upto(k))}
    <2>1. SUFFICES ASSUME T # {} PROVE FALSE
      BY <1>1
    <2>2. PICK k \in T : \A j \in T : k <= j
      <3>1. T \in SUBSET Nat
        OBVIOUS
      <3> HIDE DEF T
      <3>2. QED
        BY <2>1, <3>1, LeastNumber
    <2>3. k \in 1..n
      BY <1>9, <2>2
    <2>4. k - 1 \in 0..n /\ ~ (k <= k - 1)
      BY <2>3
    <2>5. k - 1 \notin T
      <3> HIDE DEF T
      <3>1. QED
        BY <2>2, <2>4
    <2>6. Halved(f[k - 1], Upto(k - 1))
      BY <2>4, <2>5
    <2>7. QED
      BY <1>8, <2>2, <2>3, <2>6
  <1>11. Column(LongOf, r) = Upto(n)
    <2>1. DOMAIN r = 1..n
      BY <1>1
    <2>2. QED
      BY <1>3, <2>1 DEF Column, LongOf
  <1>12. QED
    BY <1>6, <1>10, <1>11

-----------------------------------------------------------------------------
(* The carried state. *)

WeightCol == [r \in Row |-> r.weight]
StampCol == [r \in Row |-> [ts |-> r.ts, cd |-> r.cd]]

LEMMA Sizes ==
    /\ Capacity \in Nat /\ Capacity # 0 /\ RewardWindow \in Nat /\ RewardWindow # 0
    /\ WindowCache \in Nat /\ WindowCache # 0
    /\ StampWindow \in Nat /\ StampWindow # 0 /\ StampWindowV2 \in Nat /\ StampWindowV2 # 0
  <1>1. Window \in Nat /\ Lag \in Nat /\ WindowV3 \in Nat /\ LagV2 \in Nat /\ Cut \in Nat /\ Window > 2 * Cut + 1
    BY DifficultyAssumption
  <1>2. WindowCache \in Nat /\ WindowCache # 0
    BY <1>1 DEF WindowCache, Larger
  <1>3. QED
    BY <1>2, CapacityAssumption, RulesAssumption

LEMMA ReloadedIs ==
    ASSUME NEW r \in Seq(Row), r # << >>
    PROVE  Reloaded(r) = ChainState(LongWindow(LastOf(r, Capacity)), Column(WeightCol, LastOf(r, RewardWindow)),
                                    Column(StampCol, LastOf(r, WindowCache)), r[Len(r)], RequiredVersion(Len(r)))
  <1>1. \A n \in Nat : n # 0 => LastOf(r, n) \in Seq(Row)
    BY LastOfIs
  <1>2. \A s \in Seq(Row) : \A k \in DOMAIN s : s[k] \in Row
    OBVIOUS
  <1>3. [k \in DOMAIN LastOf(r, RewardWindow) |-> LastOf(r, RewardWindow)[k].weight]
          = Column(WeightCol, LastOf(r, RewardWindow))
    BY <1>1, <1>2, Sizes DEF Column, WeightCol
  <1>4. [k \in DOMAIN LastOf(r, WindowCache) |->
            [ts |-> LastOf(r, WindowCache)[k].ts, cd |-> LastOf(r, WindowCache)[k].cd]]
          = Column(StampCol, LastOf(r, WindowCache))
    BY <1>1, <1>2, Sizes DEF Column, StampCol
  <1>5. QED
    BY <1>3, <1>4 DEF Reloaded, Last

LEMMA ColumnTypes ==
    /\ LongOf \in [Row -> Nat] /\ WeightCol \in [Row -> Nat]
    /\ StampCol \in [Row -> [ts : Nat, cd : Nat]]
    /\ \A r \in Row : /\ LongOf[r] = r.long /\ WeightCol[r] = r.weight
                      /\ StampCol[r] = [ts |-> r.ts, cd |-> r.cd]
  <1>1. \A r \in Row : r.long \in Nat /\ r.weight \in Nat /\ r.ts \in Nat /\ r.cd \in Nat
    BY DEF Row
  <1>2. QED
    BY <1>1 DEF LongOf, WeightCol, StampCol

(* The window over the last Capacity rows is halved, and the one pushed on
   from it is the one read from the rows again. *)
LEMMA LongCarried ==
    ASSUME NEW r \in Seq(Row), NEW row \in Row
    PROVE  /\ Halved(LongWindow(LastOf(r, Capacity)), Column(LongOf, LastOf(r, Capacity)))
           /\ Push(LongWindow(LastOf(r, Capacity)), row.long) = LongWindow(LastOf(Append(r, row), Capacity))
  <1>1. ASSUME NEW q \in Seq(Row)
        PROVE  /\ LastOf(q, Capacity) \in Seq(Row) /\ Len(LastOf(q, Capacity)) <= Capacity
               /\ Column(LongOf, LastOf(q, Capacity)) \in Seq(Nat)
               /\ Len(Column(LongOf, LastOf(q, Capacity))) <= Capacity
               /\ Halved(LongWindow(LastOf(q, Capacity)), Column(LongOf, LastOf(q, Capacity)))
    <2>1. PICK s \in Seq(Row) : s = LastOf(q, Capacity)
      BY Sizes, LastOfIs
    <2>2. Len(s) <= Capacity
      <3>1. Len(s) = Smaller(Len(q), Capacity)
        BY <2>1, Sizes, LastOfIs
      <3>2. Len(q) \in Nat
        OBVIOUS
      <3>3. QED
        BY <3>1, <3>2, Sizes DEF Smaller
    <2>3. Column(LongOf, s) \in Seq(Nat) /\ Len(Column(LongOf, s)) = Len(s)
      <3>1. PICK c \in [Row -> Nat] : c = LongOf
        BY ColumnTypes
      <3>2. Column(c, s) \in Seq(Nat) /\ Elementwise(c, s, Column(c, s))
        BY ColumnIs
      <3>3. QED
        BY <3>1, <3>2 DEF Elementwise
    <2>4. Halved(LongWindow(s), Column(LongOf, s))
      BY <2>2, LongHalves
    <2>5. QED
      BY <2>1, <2>2, <2>3, <2>4
  <1>2. PICK q \in Seq(Row) : q = Append(r, row)
    <2>1. Append(r, row) \in Seq(Row)
      OBVIOUS
    <2>2. QED
      BY <2>1
  <1>3. PICK w : w = LongWindow(LastOf(r, Capacity))
    OBVIOUS
  <1>4. PICK s \in Seq(Nat) : s = Column(LongOf, LastOf(r, Capacity))
    BY <1>1
  <1>5. PICK v \in Nat : v = row.long /\ v = LongOf[row]
    BY ColumnTypes
  <1>6. Halved(w, s) /\ Len(s) <= Capacity
    BY <1>1, <1>3, <1>4
  <1>7. Halved(Push(w, v), Pushed(s, v)) /\ Pushed(s, v) \in Seq(Nat)
    BY <1>6, PushHalves
  <1>8. Pushed(s, v) = Column(LongOf, LastOf(q, Capacity))
    <2>1. Pushed(s, v) = LastOf(Append(s, v), Capacity)
      BY <1>6, PushedIs
    <2>2. LastOf(Append(Column(LongOf, LastOf(r, Capacity)), LongOf[row]), Capacity)
            = Column(LongOf, LastOf(Append(r, row), Capacity))
      <3>1. PICK T : T = Nat
        OBVIOUS
      <3>2. PICK c \in [Row -> T] : c = LongOf
        BY <3>1, ColumnTypes
      <3>3. PICK n \in Nat : n = Capacity /\ n # 0
        BY Sizes
      <3>4. Carries(c, r, row, n)
        BY <3>3, ColumnCarried
      <3>5. QED
        BY <3>2, <3>3, <3>4 DEF Carries
    <2>3. QED
      BY <1>2, <1>4, <1>5, <2>1, <2>2
  <1>9. Halved(LongWindow(LastOf(q, Capacity)), Column(LongOf, LastOf(q, Capacity)))
    BY <1>1
  <1>10. Push(w, v) = LongWindow(LastOf(q, Capacity))
    BY <1>7, <1>8, <1>9, HalvedUnique
  <1>11. QED
    BY <1>2, <1>3, <1>4, <1>5, <1>6, <1>10

(* add_block leaves the state that reload_state would read. *)
LEMMA CarriedIsReloaded ==
    ASSUME NEW r \in Seq(Row), r # << >>, NEW row \in Row
    PROVE  Carried(Reloaded(r), row, Len(r)) = Reloaded(Append(r, row))
  <1>1. PICK q \in Seq(Row) : q = Append(r, row)
    <2>1. Append(r, row) \in Seq(Row)
      OBVIOUS
    <2>2. QED
      BY <2>1
  <1>2. q # << >> /\ Len(q) = Len(r) + 1 /\ q[Len(q)] = row
    BY <1>1
  <1>3. PICK s : s = Reloaded(r)
    OBVIOUS
  <1>4. /\ s.long = LongWindow(LastOf(r, Capacity))
        /\ s.recent = Column(WeightCol, LastOf(r, RewardWindow))
        /\ s.window = Column(StampCol, LastOf(r, WindowCache))
    BY <1>3, ReloadedIs DEF ChainState
  <1>5. Push(s.long, row.long) = LongWindow(LastOf(q, Capacity))
    BY <1>1, <1>4, LongCarried
  <1>6. LastOf(Append(s.recent, row.weight), RewardWindow) = Column(WeightCol, LastOf(q, RewardWindow))
    <2>1. LastOf(Append(Column(WeightCol, LastOf(r, RewardWindow)), WeightCol[row]), RewardWindow)
            = Column(WeightCol, LastOf(Append(r, row), RewardWindow))
      <3>1. PICK T : T = Nat
        OBVIOUS
      <3>2. PICK c \in [Row -> T] : c = WeightCol
        BY <3>1, ColumnTypes
      <3>3. PICK n \in Nat : n = RewardWindow /\ n # 0
        BY Sizes
      <3>4. Carries(c, r, row, n)
        BY <3>3, ColumnCarried
      <3>5. QED
        BY <3>2, <3>3, <3>4 DEF Carries
    <2>2. QED
      BY <1>1, <1>4, <2>1, ColumnTypes
  <1>7. LastOf(Append(s.window, [ts |-> row.ts, cd |-> row.cd]), WindowCache) = Column(StampCol, LastOf(q, WindowCache))
    <2>1. LastOf(Append(Column(StampCol, LastOf(r, WindowCache)), StampCol[row]), WindowCache)
            = Column(StampCol, LastOf(Append(r, row), WindowCache))
      <3>1. PICK T : T = [ts : Nat, cd : Nat]
        OBVIOUS
      <3>2. PICK c \in [Row -> T] : c = StampCol
        BY <3>1, ColumnTypes
      <3>3. PICK n \in Nat : n = WindowCache /\ n # 0
        BY Sizes
      <3>4. Carries(c, r, row, n)
        BY <3>3, ColumnCarried
      <3>5. QED
        BY <3>2, <3>3, <3>4 DEF Carries
    <2>2. QED
      BY <1>1, <1>4, <2>1, ColumnTypes
  <1>8. Carried(s, row, Len(r))
          = ChainState(LongWindow(LastOf(q, Capacity)), Column(WeightCol, LastOf(q, RewardWindow)),
                       Column(StampCol, LastOf(q, WindowCache)), q[Len(q)], RequiredVersion(Len(q)))
    BY <1>2, <1>5, <1>6, <1>7 DEF Carried
  <1>9. QED
    BY <1>1, <1>2, <1>3, <1>8, ReloadedIs

-----------------------------------------------------------------------------
(* Whole-number division. *)

LEMMA Division ==
    ASSUME NEW a \in Nat, NEW b \in Nat, b # 0
    PROVE  /\ a \div b \in Nat /\ a % b \in Nat /\ a % b < b
           /\ b * (a \div b) + (a % b) = a
  OBVIOUS

LEMMA Remainder ==
    ASSUME NEW x \in Nat, NEW d \in Nat, d # 0, NEW p \in Nat, NEW r \in Nat, r < d, x = d * p + r
    PROVE  x \div d = p /\ x % d = r
  <1>1. PICK q \in Nat, m \in Nat : q = x \div d /\ m = x % d /\ m < d /\ d * q + m = x
    BY Division
  <1>2. q = p
    <2>1. ASSUME q >= p + 1 PROVE FALSE
      <3>1. d * q >= d * (p + 1) /\ d * (p + 1) = d * p + d
        BY <2>1
      <3>2. d * q \in Nat /\ d * p \in Nat
        OBVIOUS
      <3>3. QED
        BY <1>1, <3>1, <3>2
    <2>2. ASSUME p >= q + 1 PROVE FALSE
      <3>1. d * p >= d * (q + 1) /\ d * (q + 1) = d * q + d
        BY <2>2
      <3>2. d * q \in Nat /\ d * p \in Nat
        OBVIOUS
      <3>3. QED
        BY <1>1, <3>1, <3>2
    <2>3. QED
      BY <2>1, <2>2
  <1>3. m = r
    <2>1. d * q = d * p /\ d * q \in Nat
      BY <1>2
    <2>2. QED
      BY <1>1, <2>1
  <1>4. QED
    BY <1>1, <1>2, <1>3

(* A quotient is known by the two multiples it lies between. *)
LEMMA QuotientBelow ==
    ASSUME NEW a \in Nat, NEW b \in Nat, NEW c \in Nat, c # 0, a <= c * b
    PROVE  a \div c <= b
  <1>1. PICK q \in Nat, m \in Nat : q = a \div c /\ m = a % c /\ c * q + m = a
    BY Division
  <1>2. SUFFICES ASSUME q >= b + 1 PROVE FALSE
    BY <1>1
  <1>3. c * q >= c * (b + 1)
    BY <1>2
  <1>4. c * (b + 1) = c * b + c
    OBVIOUS
  <1>5. c * b \in Nat /\ c * q \in Nat
    OBVIOUS
  <1>6. QED
    BY <1>1, <1>3, <1>4, <1>5

LEMMA QuotientGrows ==
    ASSUME NEW a \in Nat, NEW b \in Nat, NEW c \in Nat, c # 0, a <= b
    PROVE  a \div c <= b \div c
  <1>1. PICK q \in Nat, m \in Nat : q = a \div c /\ m = a % c /\ c * q + m = a
    BY Division
  <1>2. PICK p \in Nat, n \in Nat : p = b \div c /\ n = b % c /\ c * p + n = b /\ n < c
    BY Division
  <1>3. SUFFICES ASSUME q >= p + 1 PROVE FALSE
    BY <1>1, <1>2
  <1>4. c * q >= c * (p + 1)
    BY <1>3
  <1>5. c * (p + 1) = c * p + c
    OBVIOUS
  <1>6. c * p \in Nat /\ c * q \in Nat
    OBVIOUS
  <1>7. QED
    BY <1>1, <1>2, <1>4, <1>5, <1>6

-----------------------------------------------------------------------------
(* The reward. *)

LEMMA BaseRewardIs ==
    ASSUME NEW coins \in 0..MoneySupply
    PROVE  BaseReward(coins) \in Nat /\ BaseReward(coins) <= MoneySupply - coins
  <1>1. PICK d \in Nat : d = 2 ^ EmissionSpeed /\ d # 0
    BY EmissionAssumption
  <1>2. MoneySupply \in Nat
    BY EmissionAssumption
  <1>3. PICK left \in Nat : left = MoneySupply - coins
    BY <1>2
  <1>4. left <= d * left
    BY <1>1
  <1>5. left \div d \in Nat /\ left \div d <= left
    BY <1>1, <1>4, Division, QuotientBelow
  <1>6. QED
    BY <1>1, <1>3, <1>5 DEF BaseReward

(* What is left of the reward b of a block of weight w, at median m. *)
Penalised(b, m, w) == ((b * ((2 * m - w) * w)) \div m) \div m

LEMMA PenaltyFactor ==
    ASSUME NEW m \in Nat, NEW w \in Nat, w <= 2 * m
    PROVE  /\ (2 * m - w) * w \in Nat /\ (2 * m - w) * w <= m * m
           /\ w > m + 1 => (2 * m - w) * w <= (2 * m - (w - 1)) * (w - 1)
  <1>1. PICK e \in Nat : e = 2 * m - w
    <2>1. 2 * m - w \in Nat
      OBVIOUS
    <2>2. QED
      BY <2>1
  <1>2. e * w \in Nat
    OBVIOUS
  <1>3. e * w <= m * m
    <2>1. PICK d \in Int : d = m - w
      OBVIOUS
    <2>2. e = m + d /\ w = m - d
      BY <1>1, <2>1
    <2>3. (m + d) * (m - d) = m * m - d * d
      OBVIOUS
    <2>4. d * d >= 0 /\ d * d \in Int /\ m * m \in Nat
      OBVIOUS
    <2>5. QED
      BY <1>2, <2>2, <2>3, <2>4
  <1>4. ASSUME w > m + 1 PROVE e * w <= (2 * m - (w - 1)) * (w - 1)
    <2>1. 2 * m - (w - 1) = e + 1
      BY <1>1
    <2>2. (e + 1) * (w - 1) = e * w - e + w - 1
      BY <1>4
    <2>3. w - 1 >= e
      BY <1>1, <1>4
    <2>4. QED
      BY <1>2, <2>1, <2>2, <2>3
  <1>5. QED
    BY <1>1, <1>2, <1>3, <1>4

LEMMA PenaltyBounds ==
    ASSUME NEW b \in Nat, NEW m \in Nat, m # 0, NEW w \in Nat, w <= 2 * m
    PROVE  /\ Penalised(b, m, w) \in Nat /\ Penalised(b, m, w) <= b
           /\ w > m + 1 => Penalised(b, m, w) <= Penalised(b, m, w - 1)
  <1>1. PICK x \in Nat : x = (2 * m - w) * w /\ x <= m * m
    BY PenaltyFactor
  <1>2. b * x \in Nat /\ b * x <= m * (m * b)
    <2>1. b * x <= b * (m * m)
      BY <1>1
    <2>2. b * (m * m) = m * (m * b)
      OBVIOUS
    <2>3. QED
      BY <2>1, <2>2
  <1>3. PICK y \in Nat : y = b * x
    BY <1>2
  <1>4. m * b \in Nat /\ y <= m * (m * b)
    BY <1>2, <1>3
  <1>5. y \div m \in Nat /\ y \div m <= m * b
    BY <1>4, Division, QuotientBelow
  <1>6. (y \div m) \div m \in Nat /\ (y \div m) \div m <= b
    BY <1>5, Division, QuotientBelow
  <1>7. Penalised(b, m, w) = (y \div m) \div m
    BY <1>1, <1>3 DEF Penalised
  <1>8. ASSUME w > m + 1 PROVE Penalised(b, m, w) <= Penalised(b, m, w - 1)
    <2>1. PICK v \in Nat : v = w - 1 /\ v <= 2 * m
      BY <1>8
    <2>2. PICK z \in Nat : z = (2 * m - v) * v
      BY <2>1, PenaltyFactor
    <2>3. x <= z
      BY <1>1, <1>8, <2>1, <2>2, PenaltyFactor
    <2>4. PICK u \in Nat : u = b * z
      OBVIOUS
    <2>5. y <= u
      BY <1>3, <2>3, <2>4
    <2>6. y \div m <= u \div m /\ u \div m \in Nat
      BY <2>5, Division, QuotientGrows
    <2>7. (y \div m) \div m <= (u \div m) \div m
      BY <1>5, <2>6, QuotientGrows
    <2>8. Penalised(b, m, v) = (u \div m) \div m
      BY <2>2, <2>4 DEF Penalised
    <2>9. QED
      BY <1>7, <2>1, <2>7, <2>8
  <1>9. QED
    BY <1>6, <1>7, <1>8

(* No block earns more than the base reward, and none by being heavier. *)
LEMMA RewardBounds ==
    ASSUME NEW median \in Nat, NEW weight \in Nat, NEW coins \in 0..MoneySupply, ~ TooBig(median, weight)
    PROVE  /\ BlockReward(median, weight, coins) \in Nat
           /\ BlockReward(median, weight, coins) <= BaseReward(coins)
           /\ weight # 0 => BlockReward(median, weight, coins) <= BlockReward(median, weight - 1, coins)
  <1>1. FullRewardZone \in Nat /\ FullRewardZone # 0
    BY EmissionAssumption
  <1>2. PICK m \in Nat : m = Larger(median, FullRewardZone) /\ m # 0
    BY <1>1 DEF Larger
  <1>3. weight <= 2 * m
    BY <1>2 DEF TooBig
  <1>4. PICK b \in Nat : b = BaseReward(coins)
    BY BaseRewardIs
  <1>5. \A w \in Nat : BlockReward(median, w, coins) = IF w <= m THEN b ELSE Penalised(b, m, w)
    BY <1>2, <1>4 DEF BlockReward, Penalised
  <1>6. /\ Penalised(b, m, weight) \in Nat /\ Penalised(b, m, weight) <= b
        /\ weight > m + 1 => Penalised(b, m, weight) <= Penalised(b, m, weight - 1)
    BY <1>2, <1>3, PenaltyBounds
  <1>7. ASSUME weight # 0 PROVE BlockReward(median, weight, coins) <= BlockReward(median, weight - 1, coins)
    <2>1. weight - 1 \in Nat
      BY <1>7
    <2>2. CASE weight <= m + 1
      BY <1>5, <1>6, <2>1, <2>2
    <2>3. CASE weight > m + 1
      BY <1>5, <1>6, <2>1, <2>3
    <2>4. QED
      BY <2>2, <2>3
  <1>8. QED
    BY <1>4, <1>5, <1>6, <1>7

-----------------------------------------------------------------------------
(* 256-bit arithmetic in limbs: what a pair of a low and a high u128 stands    *)
(* for.                                                                        *)

Stands(n, v) == \E lo, hi \in Nat : n = << lo, hi >> /\ lo < U128 /\ lo + U128 * hi = v

LEMMA LimbFacts == LimbBase \in Nat /\ LimbBase # 0 /\ U128 \in Nat /\ U128 # 0 /\ U128 = LimbBase * LimbBase
  <1>1. LimbBase \in Nat /\ LimbBase # 0
    BY DifficultyAssumption
  <1>2. LimbBase * LimbBase \in Nat /\ LimbBase * LimbBase # 0
    BY <1>1
  <1>3. QED
    BY <1>1, <1>2 DEF U128

LEMMA MulExact ==
    ASSUME NEW a \in Nat, NEW b \in Nat
    PROVE  Stands(MulU128(a, b), a * b)
  <1>1. PICK B \in Nat : B = LimbBase /\ B # 0 /\ U128 = B * B
    BY LimbFacts
  <1>2. PICK aHi \in Nat, aLo \in Nat : aHi = a \div B /\ aLo = a % B /\ B * aHi + aLo = a
    BY <1>1, Division
  <1>3. PICK bHi \in Nat, bLo \in Nat : bHi = b \div B /\ bLo = b % B /\ B * bHi + bLo = b
    BY <1>1, Division
  <1>4. PICK ll \in Nat, lh \in Nat, hl \in Nat, hh \in Nat :
           ll = aLo * bLo /\ lh = aLo * bHi /\ hl = aHi * bLo /\ hh = aHi * bHi
    OBVIOUS
  <1>5. PICK llHi \in Nat, llLo \in Nat : llHi = ll \div B /\ llLo = ll % B /\ B * llHi + llLo = ll /\ llLo < B
    BY <1>1, Division
  <1>6. PICK lhHi \in Nat, lhLo \in Nat : lhHi = lh \div B /\ lhLo = lh % B /\ B * lhHi + lhLo = lh
    BY <1>1, Division
  <1>7. PICK hlHi \in Nat, hlLo \in Nat : hlHi = hl \div B /\ hlLo = hl % B /\ B * hlHi + hlLo = hl
    BY <1>1, Division
  <1>8. PICK mid \in Nat : mid = llHi + lhLo + hlLo
    OBVIOUS
  <1>9. PICK mHi \in Nat, mLo \in Nat : mHi = mid \div B /\ mLo = mid % B /\ B * mHi + mLo = mid /\ mLo < B
    BY <1>1, Division
  <1>10. (mid * B) % (B * B) = mLo * B
    <2>1. PICK x \in Nat, d \in Nat : x = mid * B /\ d = B * B /\ d # 0
      BY <1>1
    <2>2. x = d * mHi + mLo * B
      <3>1. (B * mHi + mLo) * B = (B * B) * mHi + mLo * B
        OBVIOUS
      <3>2. QED
        BY <1>9, <2>1, <3>1
    <2>3. mLo * B \in Nat /\ mLo * B < d
      <3>1. mLo + 1 <= B
        BY <1>9
      <3>2. (mLo + 1) * B <= B * B
        BY <3>1
      <3>3. (mLo + 1) * B = mLo * B + B
        OBVIOUS
      <3>4. mLo * B \in Nat /\ B * B \in Nat
        OBVIOUS
      <3>5. QED
        BY <1>1, <2>1, <3>2, <3>3, <3>4
    <2>4. PICK r \in Nat : r = mLo * B
      BY <2>3
    <2>5. x % d = r
      <3>1. x = d * mHi + r /\ r < d
        BY <2>2, <2>3, <2>4
      <3>2. QED
        BY <2>1, <3>1, Remainder
    <2>6. QED
      BY <2>1, <2>4, <2>5
  <1>11. PICK lo \in Nat, hi \in Nat : lo = llLo + mLo * B /\ hi = hh + lhHi + hlHi + mHi
    <2>1. llLo + mLo * B \in Nat
      OBVIOUS
    <2>2. QED
      BY <2>1
  <1>12. MulU128(a, b) = << lo, hi >>
    BY <1>1, <1>2, <1>3, <1>4, <1>5, <1>6, <1>7, <1>8, <1>9, <1>10, <1>11 DEF MulU128
  <1>13. lo < U128
    <2>1. mLo + 1 <= B
      BY <1>9
    <2>2. (mLo + 1) * B <= B * B
      BY <2>1
    <2>3. (mLo + 1) * B = mLo * B + B
      OBVIOUS
    <2>4. mLo * B \in Nat /\ B * B \in Nat
      OBVIOUS
    <2>5. QED
      BY <1>1, <1>5, <1>11, <2>2, <2>3, <2>4
  <1>14. lo + U128 * hi = a * b
    <2>1. a * b = (B * aHi + aLo) * (B * bHi + bLo)
      BY <1>2, <1>3
    <2>2. (B * aHi + aLo) * (B * bHi + bLo)
             = (B * B) * (aHi * bHi) + B * (aLo * bHi) + B * (aHi * bLo) + aLo * bLo
      OBVIOUS
    <2>3. a * b = (B * B) * hh + B * lh + B * hl + ll
      BY <1>4, <2>1, <2>2
    <2>4. B * lh = (B * B) * lhHi + B * lhLo /\ B * hl = (B * B) * hlHi + B * hlLo
      <3>1. B * (B * lhHi + lhLo) = (B * B) * lhHi + B * lhLo /\ B * (B * hlHi + hlLo) = (B * B) * hlHi + B * hlLo
        OBVIOUS
      <3>2. QED
        BY <1>6, <1>7, <3>1
    <2>5. B * llHi + B * lhLo + B * hlLo = B * mid
      <3>1. B * (llHi + lhLo + hlLo) = B * llHi + B * lhLo + B * hlLo
        OBVIOUS
      <3>2. QED
        BY <1>8, <3>1
    <2>6. B * mid = (B * B) * mHi + B * mLo
      <3>1. B * (B * mHi + mLo) = (B * B) * mHi + B * mLo
        OBVIOUS
      <3>2. QED
        BY <1>9, <3>1
    <2>7. (B * B) * hi = (B * B) * hh + (B * B) * lhHi + (B * B) * hlHi + (B * B) * mHi
      <3>1. (B * B) * (hh + lhHi + hlHi + mHi) = (B * B) * hh + (B * B) * lhHi + (B * B) * hlHi + (B * B) * mHi
        OBVIOUS
      <3>2. QED
        BY <1>11, <3>1
    <2>8. mLo * B = B * mLo
      OBVIOUS
    <2>9. PICK p1 \in Nat, p2 \in Nat, p3 \in Nat, p4 \in Nat, s1 \in Nat, s2 \in Nat, s3 \in Nat, s4 \in Nat :
             /\ p1 = (B * B) * hh /\ p2 = (B * B) * lhHi /\ p3 = (B * B) * hlHi /\ p4 = (B * B) * mHi
             /\ s1 = B * llHi /\ s2 = B * lhLo /\ s3 = B * hlLo /\ s4 = B * mLo
      OBVIOUS
    <2>10. a * b = p1 + p2 + p3 + s1 + s2 + s3 + llLo /\ s1 + s2 + s3 = p4 + s4
      <3>1. B * lh = p2 + s2 /\ B * hl = p3 + s3 /\ ll = s1 + llLo
        BY <1>5, <2>4, <2>9
      <3>2. s1 + s2 + s3 = p4 + s4
        BY <2>5, <2>6, <2>9
      <3>3. a * b = p1 + (p2 + s2) + (p3 + s3) + (s1 + llLo)
        BY <2>3, <2>9, <3>1
      <3>4. QED
        BY <3>2, <3>3
    <2>11. lo + (B * B) * hi = llLo + s4 + p1 + p2 + p3 + p4
      BY <1>11, <2>7, <2>8, <2>9
    <2>12. QED
      BY <1>1, <2>10, <2>11
  <1>15. QED
    BY <1>12, <1>13, <1>14 DEF Stands

LEMMA AddExact ==
    ASSUME NEW n, NEW v \in Nat, Stands(n, v), NEW add \in Nat
    PROVE  Stands(AddU256(n, add), v + add)
  <1>1. PICK lo \in Nat, hi \in Nat : n = << lo, hi >> /\ lo < U128 /\ lo + U128 * hi = v
    BY DEF Stands
  <1>2. PICK D \in Nat : D = U128 /\ D # 0
    BY LimbFacts
  <1>3. PICK s \in Nat : s = lo + add
    OBVIOUS
  <1>4. PICK q \in Nat, m \in Nat : q = s \div D /\ m = s % D /\ m < D /\ D * q + m = s
    BY <1>2, Division
  <1>5. AddU256(n, add) = << m, hi + q >>
    BY <1>1, <1>2, <1>3, <1>4 DEF AddU256
  <1>6. D * (hi + q) = D * hi + D * q
    OBVIOUS
  <1>7. PICK x \in Nat, y \in Nat : x = D * hi /\ y = D * q
    OBVIOUS
  <1>8. m + (x + y) = v + add
    BY <1>1, <1>2, <1>3, <1>4, <1>7
  <1>9. m + D * (hi + q) = v + add
    BY <1>6, <1>7, <1>8
  <1>10. QED
    BY <1>2, <1>4, <1>5, <1>9 DEF Stands

(* One step of the long division: a limb below what is left of those above. *)
Divides(B, d, r, n, q, s) ==
    /\ q = (r * B + n) \div d /\ s = (r * B + n) % d
    /\ s < d /\ d * q + s = r * B + n
    /\ r < d /\ n < B => q < B

LEMMA LimbStep ==
    ASSUME NEW B \in Nat, NEW d \in Nat, d # 0, NEW r \in Nat, NEW n \in Nat
    PROVE  \E q, s \in Nat : Divides(B, d, r, n, q, s)
  <1>1. PICK c \in Nat : c = r * B + n
    <2>1. r * B + n \in Nat
      OBVIOUS
    <2>2. QED
      BY <2>1
  <1>2. PICK q \in Nat, s \in Nat : q = c \div d /\ s = c % d /\ s < d /\ d * q + s = c
    BY Division
  <1>3. ASSUME r < d, n < B PROVE q < B
    <2>1. SUFFICES ASSUME q >= B PROVE FALSE
      OBVIOUS
    <2>2. d * q >= d * B
      BY <2>1
    <2>3. r + 1 <= d
      BY <1>3
    <2>4. (r + 1) * B <= d * B /\ (r + 1) * B = r * B + B
      BY <2>3
    <2>5. PICK x \in Nat, y \in Nat, z \in Nat : x = d * q /\ y = d * B /\ z = r * B
      OBVIOUS
    <2>6. x >= y /\ z + B <= y /\ x + s = z + n /\ n < B
      BY <1>1, <1>2, <1>3, <2>2, <2>4, <2>5
    <2>7. QED
      BY <2>6
  <1>4. QED
    BY <1>1, <1>2, <1>3 DEF Divides

(* Two of them, which make a u128 of the quotient. *)
Together(B, d, r, n, m, p, q, u) == d * (q + p * B) + u = r * (B * B) + (n * B + m)

LEMMA TwoLimbs ==
    ASSUME NEW B \in Nat, NEW d \in Nat, NEW r \in Nat, NEW n \in Nat, NEW m \in Nat,
           NEW p \in Nat, NEW s \in Nat, Divides(B, d, r, n, p, s),
           NEW q \in Nat, NEW u \in Nat, Divides(B, d, s, m, q, u)
    PROVE  Together(B, d, r, n, m, p, q, u)
  <1>1. PICK x \in Nat, y \in Nat, z \in Nat, k \in Nat :
           x = d * p /\ y = d * q /\ z = s * B /\ k = r * B
    OBVIOUS
  <1>2. x + s = k + n /\ y + u = z + m
    BY <1>1 DEF Divides
  <1>3. d * (q + p * B) = d * q + (d * p) * B
    OBVIOUS
  <1>4. (x + s) * B = x * B + s * B /\ (k + n) * B = k * B + n * B
    OBVIOUS
  <1>5. x * B + s * B = k * B + n * B
    BY <1>2, <1>4
  <1>6. k * B = r * (B * B)
    BY <1>1
  <1>7. PICK e \in Nat, f \in Nat, g \in Nat : e = x * B /\ f = k * B /\ g = n * B
    OBVIOUS
  <1>8. e + z = f + g
    BY <1>1, <1>5, <1>7
  <1>9. d * (q + p * B) = y + e
    BY <1>1, <1>3, <1>7
  <1>10. y + e + u = f + g + m
    BY <1>2, <1>8
  <1>11. QED
    BY <1>6, <1>7, <1>9, <1>10 DEF Together

LEMMA DivExact ==
    ASSUME NEW w, NEW v \in Nat, Stands(w, v), NEW d \in Nat, d # 0
    PROVE  Stands(DivU256(w, d), v \div d)
  <1>1. PICK lo \in Nat, hi \in Nat : w = << lo, hi >> /\ lo < U128 /\ lo + U128 * hi = v
    BY DEF Stands
  <1>2. PICK B \in Nat : B = LimbBase /\ B # 0 /\ U128 = B * B
    BY LimbFacts
  <1>3. PICK n2 \in Nat, n1 \in Nat : n2 = lo \div B /\ n1 = lo % B /\ B * n2 + n1 = lo /\ n1 < B
    BY <1>2, Division
  <1>4. n2 < B
    <2>1. SUFFICES ASSUME n2 >= B PROVE FALSE
      OBVIOUS
    <2>2. B * n2 >= B * B /\ B * n2 \in Nat /\ B * B \in Nat
      BY <2>1
    <2>3. QED
      BY <1>1, <1>2, <1>3, <2>2
  <1>5. PICK n4 \in Nat, n3 \in Nat : n4 = hi \div B /\ n3 = hi % B /\ B * n4 + n3 = hi
    BY <1>2, Division
  <1>6. PICK q4 \in Nat, r4 \in Nat : q4 = n4 \div d /\ r4 = n4 % d /\ d * q4 + r4 = n4 /\ r4 < d
    BY Division
  <1>7. PICK q3 \in Nat, r3 \in Nat : Divides(B, d, r4, n3, q3, r3)
    BY LimbStep
  <1>8. PICK q2 \in Nat, r2 \in Nat : Divides(B, d, r3, n2, q2, r2)
    BY LimbStep
  <1>9. PICK q1 \in Nat, r1 \in Nat : Divides(B, d, r2, n1, q1, r1)
    BY LimbStep
  <1>b. q2 < B /\ q1 < B /\ r1 < d
    BY <1>3, <1>4, <1>7, <1>8, <1>9 DEF Divides
  <1>10. DivU256(w, d) = << q1 + q2 * B, q3 + q4 * B >>
    <2>1. w[1] = lo /\ w[2] = hi
      BY <1>1
    <2>2. QED
      BY <1>2, <1>3, <1>5, <1>6, <1>7, <1>8, <1>9, <2>1 DEF DivU256, Divides
  <1>11. PICK x \in Nat, y \in Nat : x = q1 + q2 * B /\ y = q3 + q4 * B
    <2>1. q1 + q2 * B \in Nat /\ q3 + q4 * B \in Nat
      OBVIOUS
    <2>2. QED
      BY <2>1
  <1>12. x < U128
    <2>1. q2 + 1 <= B
      BY <1>b
    <2>2. (q2 + 1) * B <= B * B /\ (q2 + 1) * B = q2 * B + B /\ q2 * B \in Nat /\ B * B \in Nat
      BY <2>1
    <2>3. QED
      BY <1>2, <1>b, <1>11, <2>2
  <1>13. d * y + r3 = hi
    <2>1. Divides(B, d, 0, n4, q4, r4)
      <3>1. 0 * B + n4 = n4
        OBVIOUS
      <3>2. n4 < B => q4 < B
        <4>1. q4 <= d * q4 /\ d * q4 \in Nat
          OBVIOUS
        <4>2. QED
          BY <1>6, <4>1
      <3>3. QED
        BY <1>6, <3>1, <3>2 DEF Divides
    <2>2. d * (q3 + q4 * B) + r3 = 0 * (B * B) + (n4 * B + n3)
      <3>1. Together(B, d, 0, n4, n3, q4, q3, r3)
        BY <1>7, <2>1, TwoLimbs
      <3>2. QED
        BY <3>1 DEF Together
    <2>3. 0 * (B * B) = 0 /\ n4 * B = B * n4 /\ n4 * B \in Nat
      OBVIOUS
    <2>4. QED
      BY <1>5, <1>11, <2>2, <2>3
  <1>14. d * x + r1 = r3 * (B * B) + lo
    <2>1. d * (q1 + q2 * B) + r1 = r3 * (B * B) + (n2 * B + n1)
      <3>1. Together(B, d, r3, n2, n1, q2, q1, r1)
        BY <1>8, <1>9, TwoLimbs
      <3>2. QED
        BY <3>1 DEF Together
    <2>2. n2 * B = B * n2
      OBVIOUS
    <2>3. QED
      BY <1>3, <1>11, <2>1, <2>2
  <1>15. v = d * (x + U128 * y) + r1
    <2>1. PICK D \in Nat : D = U128 /\ D = B * B
      BY <1>2
    <2>2. D * (d * y + r3) = d * (D * y) + r3 * D
      OBVIOUS
    <2>3. d * (x + D * y) = d * x + d * (D * y)
      OBVIOUS
    <2>4. PICK e \in Nat, f \in Nat, g \in Nat, h \in Nat : e = D * hi /\ f = d * (D * y) /\ g = r3 * D /\ h = d * x
      OBVIOUS
    <2>5. e = f + g /\ h + r1 = g + lo /\ lo + e = v
      BY <1>1, <1>13, <1>14, <2>1, <2>2, <2>4
    <2>6. d * (x + D * y) = h + f
      BY <2>3, <2>4
    <2>7. QED
      BY <2>1, <2>5, <2>6
  <1>16. PICK Q \in Nat : Q = x + U128 * y
    BY LimbFacts
  <1>17. v \div d = Q
    BY <1>b, <1>15, <1>16, Remainder
  <1>18. QED
    BY <1>10, <1>11, <1>12, <1>16, <1>17 DEF Stands

(* What ceil_div_256 returns: the quotient rounded up, when a u128 holds it. *)
Ceiling(x, span) == (x + (span - 1)) \div span

LEMMA CeilExact ==
    ASSUME NEW work \in Nat, NEW target \in Nat, NEW span \in Nat, span # 0
    PROVE  /\ Ceiling(work * target, span) \in Nat
           /\ CeilDiv256(work, target, span)
                = IF Ceiling(work * target, span) >= U128 THEN 0 ELSE Ceiling(work * target, span)
  <1>1. PICK v \in Nat : v = work * target
    OBVIOUS
  <1>2. PICK k \in Nat : k = span - 1
    <2>1. span - 1 \in Nat
      OBVIOUS
    <2>2. QED
      BY <2>1
  <1>3. Stands(MulU128(work, target), v)
    BY <1>1, MulExact
  <1>4. Stands(AddU256(MulU128(work, target), k), v + k)
    BY <1>3, AddExact
  <1>5. PICK z \in Nat : z = v + k
    OBVIOUS
  <1>6. PICK n : n = AddU256(MulU128(work, target), k) /\ Stands(n, z)
    BY <1>4, <1>5
  <1>7. Stands(DivU256(n, span), z \div span)
    BY <1>6, DivExact
  <1>8. PICK lo \in Nat, hi \in Nat :
           DivU256(n, span) = << lo, hi >> /\ lo < U128 /\ lo + U128 * hi = z \div span
    BY <1>7 DEF Stands
  <1>9. CeilDiv256(work, target, span) = IF hi # 0 THEN 0 ELSE lo
    BY <1>2, <1>6, <1>8 DEF CeilDiv256
  <1>10. Ceiling(work * target, span) = lo + U128 * hi
    BY <1>1, <1>2, <1>5, <1>8 DEF Ceiling
  <1>11. PICK D \in Nat, m \in Nat : D = U128 /\ D # 0 /\ m = D * hi /\ (hi # 0 => m >= D) /\ (hi = 0 => m = 0)
    <2>1. PICK D \in Nat : D = U128 /\ D # 0
      BY LimbFacts
    <2>2. D * hi \in Nat /\ (hi # 0 => D * hi >= D) /\ (hi = 0 => D * hi = 0)
      BY <2>1
    <2>3. QED
      BY <2>1, <2>2
  <1>12. QED
    BY <1>8, <1>9, <1>10, <1>11

LEMMA CeilingBounds ==
    ASSUME NEW x \in Nat, NEW span \in Nat, span # 0
    PROVE  /\ Ceiling(x, span) * span >= x
           /\ (Ceiling(x, span) - 1) * span < x
           /\ x # 0 => Ceiling(x, span) # 0
  <1>1. PICK k \in Nat : k = span - 1
    <2>1. span - 1 \in Nat
      OBVIOUS
    <2>2. QED
      BY <2>1
  <1>2. PICK z \in Nat : z = x + k
    OBVIOUS
  <1>3. PICK q \in Nat, m \in Nat : q = z \div span /\ m = z % span /\ m < span /\ span * q + m = z
    BY Division
  <1>4. Ceiling(x, span) = q
    BY <1>1, <1>2, <1>3 DEF Ceiling
  <1>5. PICK p \in Nat : p = span * q /\ q * span = p /\ (q - 1) * span = p - span
    <2>1. span * q \in Nat /\ q * span = span * q /\ (q - 1) * span = span * q - span
      OBVIOUS
    <2>2. QED
      BY <2>1
  <1>6. p >= x /\ p - span < x
    BY <1>1, <1>2, <1>3, <1>5
  <1>7. q = 0 => p = 0
    BY <1>5
  <1>8. QED
    BY <1>4, <1>5, <1>6, <1>7

-----------------------------------------------------------------------------
(* A function that goes step by step from a start is there. *)

RunsFrom(f, a, F, n) == f[0] = a /\ \A i \in 1..n : f[i] = F[i][f[i - 1]]

LEMMA StepsExist ==
    ASSUME NEW A, NEW a \in A, NEW n \in Nat, NEW F \in [1..n -> [A -> A]]
    PROVE  \E f \in [0..n -> A] : RunsFrom(f, a, F, n)
  <1> DEFINE T == {m \in 0..n : ~ \E f \in [0..m -> A] : RunsFrom(f, a, F, m)}
  <1>1. SUFFICES ASSUME T # {} PROVE FALSE
    <2>1. n \in 0..n
      OBVIOUS
    <2>2. QED
      BY <2>1
  <1>2. PICK m \in T : \A k \in T : m <= k
    <2>1. T \in SUBSET Nat
      OBVIOUS
    <2> HIDE DEF T
    <2>2. QED
      BY <1>1, <2>1, LeastNumber
  <1>3. m \in 0..n /\ m \in Nat
    OBVIOUS
  <1>4. m # 0
    <2>1. SUFFICES ASSUME m = 0 PROVE FALSE
      OBVIOUS
    <2>2. PICK f : f = [i \in 0..0 |-> a]
      OBVIOUS
    <2>3. f \in [0..0 -> A] /\ f[0] = a
      BY <2>2
    <2>4. 1..0 = {}
      OBVIOUS
    <2>5. RunsFrom(f, a, F, 0)
      BY <2>3, <2>4 DEF RunsFrom
    <2>6. QED
      BY <2>1, <2>3, <2>5
  <1>5. PICK k \in Nat : k = m - 1 /\ k \in 0..n /\ m \in 1..n
    <2>1. m - 1 \in Nat /\ m - 1 \in 0..n /\ m \in 1..n
      BY <1>3, <1>4
    <2>2. QED
      BY <2>1
  <1>6. k \notin T
    <2>1. ~ (m <= k)
      BY <1>3, <1>5
    <2> HIDE DEF T
    <2>2. QED
      BY <1>2, <2>1
  <1>7. PICK f \in [0..k -> A] : RunsFrom(f, a, F, k)
    BY <1>5, <1>6
  <1>8. k \in 0..k /\ f[k] \in A /\ F[m] \in [A -> A]
    BY <1>5
  <1>9. PICK g : g = [i \in 0..m |-> IF i = m THEN F[m][f[k]] ELSE f[i]]
    OBVIOUS
  <1>10. g \in [0..m -> A]
    <2>1. \A i \in 0..m : i # m => i \in 0..k
      BY <1>3, <1>5
    <2>2. F[m][f[k]] \in A
      BY <1>8
    <2>3. QED
      BY <1>9, <2>1, <2>2
  <1>11. \A i \in 0..k : g[i] = f[i]
    <2>1. \A i \in 0..k : i \in 0..m /\ i # m
      BY <1>3, <1>5
    <2>2. QED
      BY <1>9, <2>1
  <1>12. RunsFrom(g, a, F, m)
    <2>1. g[0] = a
      BY <1>5, <1>7, <1>11 DEF RunsFrom
    <2>2. ASSUME NEW i \in 1..m PROVE g[i] = F[i][g[i - 1]]
      <3>1. CASE i = m
        <4>1. i - 1 = k /\ i \in 0..m
          BY <1>3, <1>5, <3>1
        <4>2. g[i] = F[m][f[k]]
          BY <1>9, <3>1, <4>1
        <4>3. g[k] = f[k]
          BY <1>8, <1>11
        <4>4. QED
          BY <3>1, <4>1, <4>2, <4>3
      <3>2. CASE i # m
        <4>1. i \in 1..k /\ i \in 0..k /\ i - 1 \in 0..k
          BY <1>3, <1>5, <3>2
        <4>2. f[i] = F[i][f[i - 1]]
          BY <1>7, <4>1 DEF RunsFrom
        <4>3. QED
          BY <1>11, <4>1, <4>2
      <3>3. QED
        BY <3>1, <3>2
    <2>3. QED
      BY <2>1, <2>2 DEF RunsFrom
  <1>13. QED
    BY <1>2, <1>10, <1>12

(* The clock of v5 goes on at every block, and its total with it. *)
ClockBy(ts, n, f) ==
    f = [i \in 0..n |-> IF i = 0 THEN ts[1] - Target ELSE Larger(ts[i + 1], f[i - 1] + 1)]

TotalBy(c, n, f) ==
    f = [i \in 0..n |-> IF i = 0 THEN 0 ELSE f[i - 1] + i * Smaller(6 * Target, c[i] - c[i - 1])]

LEMMA Extremes ==
    ASSUME NEW a \in Int, NEW b \in Int
    PROVE  /\ Larger(a, b) \in Int /\ Larger(a, b) >= a /\ Larger(a, b) >= b
           /\ Smaller(a, b) \in Int /\ Smaller(a, b) <= a /\ Smaller(a, b) <= b
           /\ Larger(a, b) \in {a, b} /\ Smaller(a, b) \in {a, b}
  BY DEF Larger, Smaller

LEMMA TargetIs == Target \in Nat /\ Target # 0 /\ WindowV3 \in Nat /\ WindowV3 >= 2 /\ Window \in Nat /\ Window >= 2
  BY DifficultyAssumption

LEMMA ClockRuns ==
    ASSUME NEW ts \in Seq(Nat), NEW n \in Nat, n + 1 <= Len(ts), NEW f, f = CHOOSE g : ClockBy(ts, n, g)
    PROVE  (\A i \in 0..n : f[i] \in Int) /\ \A i \in 1..n : f[i] >= f[i - 1] + 1
  <1>1. \A i \in 0..n : i + 1 \in DOMAIN ts /\ ts[i + 1] \in Int
    OBVIOUS
  <1>2. PICK a \in Int : a = ts[1] - Target
    <2>1. 0 \in 0..n /\ 0 + 1 = 1
      OBVIOUS
    <2>2. ts[1] \in Int
      BY <1>1, <2>1
    <2>3. QED
      BY <2>2, TargetIs
  <1>3. PICK F \in [1..n -> [Int -> Int]] : F = [i \in 1..n |-> [x \in Int |-> Larger(ts[i + 1], x + 1)]]
    <2>1. \A i \in 1..n : \A x \in Int : Larger(ts[i + 1], x + 1) \in Int
      BY <1>1 DEF Larger
    <2>2. QED
      BY <2>1
  <1>4. PICK g \in [0..n -> Int] : RunsFrom(g, a, F, n)
    BY StepsExist
  <1>5. ClockBy(ts, n, g)
    <2>1. \A i \in 0..n : g[i] = IF i = 0 THEN ts[1] - Target ELSE Larger(ts[i + 1], g[i - 1] + 1)
      <3>1. SUFFICES ASSUME NEW i \in 0..n
                     PROVE  g[i] = IF i = 0 THEN ts[1] - Target ELSE Larger(ts[i + 1], g[i - 1] + 1)
        OBVIOUS
      <3>2. CASE i = 0
        BY <1>2, <1>4, <3>2 DEF RunsFrom
      <3>3. CASE i # 0
        <4>1. i \in 1..n /\ i - 1 \in 0..n
          BY <3>3
        <4>2. g[i - 1] \in Int /\ g[i] = F[i][g[i - 1]]
          BY <1>4, <4>1 DEF RunsFrom
        <4>3. QED
          BY <1>3, <3>3, <4>1, <4>2
      <3>4. QED
        BY <3>2, <3>3
    <2>2. g = [i \in 0..n |-> g[i]]
      OBVIOUS
    <2>3. QED
      BY <2>1, <2>2 DEF ClockBy
  <1>6. ClockBy(ts, n, f)
    BY <1>5
  <1>7. /\ f[0] = a
        /\ \A i \in 1..n : f[i] = Larger(ts[i + 1], f[i - 1] + 1)
    <2>1. \A i \in 0..n : f[i] = IF i = 0 THEN ts[1] - Target ELSE Larger(ts[i + 1], f[i - 1] + 1)
      BY <1>6 DEF ClockBy
    <2>2. 0 \in 0..n /\ \A i \in 1..n : i \in 0..n /\ i # 0
      OBVIOUS
    <2>3. QED
      BY <1>2, <2>1, <2>2
  <1>8. \A i \in 0..n : f[i] \in Int
    <2> DEFINE T == {i \in 0..n : f[i] \notin Int}
    <2>1. SUFFICES ASSUME T # {} PROVE FALSE
      OBVIOUS
    <2>2. PICK k \in T : \A j \in T : k <= j
      <3>1. T \in SUBSET Nat
        OBVIOUS
      <3> HIDE DEF T
      <3>2. QED
        BY <2>1, <3>1, LeastNumber
    <2>3. k \in 0..n /\ f[k] \notin Int
      OBVIOUS
    <2>4. k \in 1..n
      BY <1>7, <2>3
    <2>5. k - 1 \in 0..n /\ ~ (k <= k - 1)
      BY <2>4
    <2>6. f[k - 1] \in Int
      BY <2>2, <2>5
    <2>7. f[k] \in Int
      <3>1. PICK x \in Int, y \in Int : x = f[k - 1] /\ y = ts[k + 1]
        BY <1>1, <2>3, <2>6
      <3>2. f[k] = Larger(y, x + 1)
        BY <1>7, <2>4, <3>1
      <3>3. Larger(y, x + 1) \in Int
        BY DEF Larger
      <3>4. QED
        BY <3>2, <3>3
    <2>8. QED
      BY <2>3, <2>7
  <1>9. \A i \in 1..n : f[i] >= f[i - 1] + 1
    <2>1. SUFFICES ASSUME NEW i \in 1..n PROVE f[i] >= f[i - 1] + 1
      OBVIOUS
    <2>2. i \in 0..n /\ i - 1 \in 0..n
      OBVIOUS
    <2>3. PICK x \in Int, y \in Int : x = f[i - 1] /\ y = ts[i + 1] /\ f[i] = Larger(y, x + 1)
      BY <1>1, <1>7, <1>8, <2>2
    <2>4. Larger(y, x + 1) >= x + 1
      <3>1. PICK z \in Int : z = x + 1
        OBVIOUS
      <3>2. Larger(y, z) >= z
        BY Extremes
      <3>3. QED
        BY <3>1, <3>2
    <2>5. QED
      BY <2>3, <2>4
  <1>10. QED
    BY <1>8, <1>9

Summed(c, n, f) ==
    f[0] = 0 /\ \A i \in 1..n : f[i] = f[i - 1] + i * Smaller(6 * Target, c[i] - c[i - 1])

LEMMA TotalRuns ==
    ASSUME NEW n \in Nat, NEW c, \A i \in 0..n : c[i] \in Int, \A i \in 1..n : c[i] >= c[i - 1] + 1,
           NEW f, f = CHOOSE g : TotalBy(c, n, g)
    PROVE  /\ \A i \in 0..n : f[i] \in Nat /\ f[i] >= i
           /\ Summed(c, n, f)
  <1>1. \A i \in 1..n : i * Smaller(6 * Target, c[i] - c[i - 1]) \in Nat /\ i * Smaller(6 * Target, c[i] - c[i - 1]) >= 1
    <2>1. SUFFICES ASSUME NEW i \in 1..n
                   PROVE  i * Smaller(6 * Target, c[i] - c[i - 1]) \in Nat /\ i * Smaller(6 * Target, c[i] - c[i - 1]) >= 1
      OBVIOUS
    <2>2. i \in 0..n /\ i - 1 \in 0..n
      OBVIOUS
    <2>3. PICK x \in Int, y \in Int : x = c[i] /\ y = c[i - 1] /\ x >= y + 1
      BY <2>2
    <2>4. PICK z \in Nat : z = Smaller(6 * Target, x - y) /\ z >= 1
      <3>1. Smaller(6 * Target, x - y) \in Nat /\ Smaller(6 * Target, x - y) >= 1
        BY <2>3, TargetIs DEF Smaller
      <3>2. QED
        BY <3>1
    <2>5. i * z \in Nat /\ i * z >= 1
      BY <2>4
    <2>6. QED
      BY <2>3, <2>4, <2>5
  <1>2. PICK F \in [1..n -> [Int -> Int]] : F = [i \in 1..n |-> [x \in Int |-> x + i * Smaller(6 * Target, c[i] - c[i - 1])]]
    <2>1. \A i \in 1..n : \A x \in Int : x + i * Smaller(6 * Target, c[i] - c[i - 1]) \in Int
      BY <1>1
    <2>2. QED
      BY <2>1
  <1>3. PICK g \in [0..n -> Int] : RunsFrom(g, 0, F, n)
    <2>1. PICK a \in Int : a = 0
      OBVIOUS
    <2>2. \E g \in [0..n -> Int] : RunsFrom(g, a, F, n)
      BY StepsExist
    <2>3. QED
      BY <2>1, <2>2
  <1>4. TotalBy(c, n, g)
    <2>1. \A i \in 0..n : g[i] = IF i = 0 THEN 0 ELSE g[i - 1] + i * Smaller(6 * Target, c[i] - c[i - 1])
      <3>1. SUFFICES ASSUME NEW i \in 0..n
                     PROVE  g[i] = IF i = 0 THEN 0 ELSE g[i - 1] + i * Smaller(6 * Target, c[i] - c[i - 1])
        OBVIOUS
      <3>2. CASE i = 0
        BY <1>3, <3>2 DEF RunsFrom
      <3>3. CASE i # 0
        <4>1. i \in 1..n /\ i - 1 \in 0..n
          BY <3>3
        <4>2. g[i - 1] \in Int /\ g[i] = F[i][g[i - 1]]
          BY <1>3, <4>1 DEF RunsFrom
        <4>3. QED
          BY <1>2, <3>3, <4>1, <4>2
      <3>4. QED
        BY <3>2, <3>3
    <2>2. g = [i \in 0..n |-> g[i]]
      OBVIOUS
    <2>3. QED
      BY <2>1, <2>2 DEF TotalBy
  <1>5. TotalBy(c, n, f)
    BY <1>4
  <1>6. /\ f[0] = 0
        /\ \A i \in 1..n : f[i] = f[i - 1] + i * Smaller(6 * Target, c[i] - c[i - 1])
    <2>1. \A i \in 0..n : f[i] = IF i = 0 THEN 0 ELSE f[i - 1] + i * Smaller(6 * Target, c[i] - c[i - 1])
      BY <1>5 DEF TotalBy
    <2>2. 0 \in 0..n /\ \A i \in 1..n : i \in 0..n /\ i # 0
      OBVIOUS
    <2>3. QED
      BY <2>1, <2>2
  <1>7. QED
    <2> DEFINE T == {i \in 0..n : ~ (f[i] \in Nat /\ f[i] >= i)}
    <2>1. SUFFICES ASSUME T # {} PROVE FALSE
      BY <1>6 DEF Summed
    <2>2. PICK k \in T : \A j \in T : k <= j
      <3>1. T \in SUBSET Nat
        OBVIOUS
      <3> HIDE DEF T
      <3>2. QED
        BY <2>1, <3>1, LeastNumber
    <2>3. k \in 0..n /\ ~ (f[k] \in Nat /\ f[k] >= k)
      OBVIOUS
    <2>4. k \in 1..n
      BY <1>6, <2>3
    <2>5. k - 1 \in 0..n /\ ~ (k <= k - 1)
      BY <2>4
    <2>6. f[k - 1] \in Nat /\ f[k - 1] >= k - 1
      BY <2>2, <2>5
    <2>7. PICK z \in Nat : z >= 1 /\ f[k] = f[k - 1] + z
      BY <1>1, <1>6, <2>4
    <2>8. PICK x \in Nat : x = f[k - 1] /\ x >= k - 1
      BY <2>6
    <2>9. x + z \in Nat /\ x + z >= k
      BY <2>3, <2>7, <2>8
    <2>10. QED
      BY <2>3, <2>7, <2>8, <2>9

(* LWMA-1 weighs the i-th of n blocks i times, none for more than six targets: *)
(* its total is at most three n(n+1) targets.                                  *)
TotalBound(T, i, x) == x <= 3 * T * (i * (i + 1))

LEMMA TotalStep ==
    ASSUME NEW T \in Nat, NEW k \in Nat, NEW x \in Nat, TotalBound(T, k, x), NEW z \in Nat, z <= 6 * T
    PROVE  TotalBound(T, k + 1, x + (k + 1) * z)
  <1>1. PICK m \in Nat : m = k + 1
    OBVIOUS
  <1>2. x <= 3 * T * (k * m)
    BY <1>1 DEF TotalBound
  <1>3. m * z <= m * (6 * T)
    <2>1. PICK g \in Nat : 6 * T = z + g
      <3>1. 6 * T - z \in Nat /\ 6 * T = z + (6 * T - z)
        OBVIOUS
      <3>2. QED
        BY <3>1
    <2>2. m * (z + g) = m * z + m * g /\ m * g \in Nat /\ m * z \in Nat
      OBVIOUS
    <2>3. QED
      BY <2>1, <2>2
  <1>4. 3 * T * (k * m) + m * (6 * T) = 3 * T * (m * (m + 1))
    <2>1. m * (m + 1) = k * m + 2 * m
      BY <1>1
    <2>2. PICK a \in Nat, b \in Nat : a = k * m /\ b = m * T
      OBVIOUS
    <2>3. 3 * T * (a + 2 * m) = 3 * T * a + 6 * (m * T)
      OBVIOUS
    <2>4. m * (6 * T) = 6 * (m * T)
      OBVIOUS
    <2>5. QED
      BY <2>1, <2>2, <2>3, <2>4
  <1>5. m * z \in Nat /\ 3 * T * (k * m) \in Nat /\ m * (6 * T) \in Nat
    OBVIOUS
  <1>6. x + m * z <= 3 * T * (m * (m + 1))
    BY <1>2, <1>3, <1>4, <1>5
  <1>7. QED
    BY <1>1, <1>6 DEF TotalBound

LEMMA TotalBounded ==
    ASSUME NEW n \in Nat, NEW c, \A i \in 0..n : c[i] \in Int, \A i \in 1..n : c[i] >= c[i - 1] + 1,
           NEW f, f = CHOOSE g : TotalBy(c, n, g)
    PROVE  TotalBound(Target, n, f[n])
  <1>0. PICK t \in Nat : t = Target
    BY TargetIs
  <1>1. \A i \in 0..n : f[i] \in Nat
    BY TotalRuns
  <1>2. f[0] = 0 /\ \A i \in 1..n : f[i] = f[i - 1] + i * Smaller(6 * Target, c[i] - c[i - 1])
    <2>1. Summed(c, n, f)
      BY TotalRuns
    <2>2. QED
      BY <2>1 DEF Summed
  <1>3. \A i \in 1..n : Smaller(6 * t, c[i] - c[i - 1]) \in Nat /\ Smaller(6 * t, c[i] - c[i - 1]) <= 6 * t
    <2>1. SUFFICES ASSUME NEW i \in 1..n
                   PROVE  Smaller(6 * t, c[i] - c[i - 1]) \in Nat /\ Smaller(6 * t, c[i] - c[i - 1]) <= 6 * t
      OBVIOUS
    <2>2. i \in 0..n /\ i - 1 \in 0..n
      OBVIOUS
    <2>3. PICK x \in Int, y \in Int : x = c[i] /\ y = c[i - 1] /\ x >= y + 1
      BY <2>2
    <2>4. Smaller(6 * t, x - y) \in Nat /\ Smaller(6 * t, x - y) <= 6 * t
      BY <2>3 DEF Smaller
    <2>5. QED
      BY <2>3, <2>4
  <1> DEFINE T == {i \in 0..n : ~ TotalBound(t, i, f[i])}
  <1>4. SUFFICES ASSUME T # {} PROVE FALSE
    <2>1. n \in 0..n
      OBVIOUS
    <2>2. QED
      BY <1>0, <2>1
  <1>5. PICK k \in T : \A j \in T : k <= j
    <2>1. T \in SUBSET Nat
      OBVIOUS
    <2> HIDE DEF T
    <2>2. QED
      BY <1>4, <2>1, LeastNumber
  <1>6. k \in 0..n /\ ~ TotalBound(t, k, f[k])
    OBVIOUS
  <1>7. k # 0
    <2>1. TotalBound(t, 0, 0)
      BY DEF TotalBound
    <2>2. QED
      BY <1>2, <1>6, <2>1
  <1>8. PICK j \in Nat : j = k - 1 /\ k = j + 1 /\ j \in 0..n /\ ~ (k <= j) /\ k \in 1..n
    <2>1. k - 1 \in Nat /\ k = (k - 1) + 1 /\ k - 1 \in 0..n /\ ~ (k <= k - 1) /\ k \in 1..n
      BY <1>6, <1>7
    <2>2. QED
      BY <2>1
  <1>9. TotalBound(t, j, f[j])
    BY <1>5, <1>8
  <1>10. PICK x \in Nat, z \in Nat : x = f[j] /\ z = Smaller(6 * t, c[k] - c[k - 1]) /\ z <= 6 * t
    BY <1>1, <1>3, <1>8
  <1>11. f[k] = x + (j + 1) * z
    BY <1>0, <1>2, <1>8, <1>10
  <1>12. TotalBound(t, j + 1, x + (j + 1) * z)
    BY <1>9, <1>10, TotalStep
  <1>13. QED
    BY <1>6, <1>8, <1>11, <1>12

-----------------------------------------------------------------------------
(* What the algorithms answer for a window of timestamps and rising work. *)

Rising(cd) == \A i, j \in DOMAIN cd : i < j => cd[i] < cd[j]

(* What v5 divides: the average work of the window, by a total that is bounded. *)
V5Parts(ts, cd, average, l) ==
    /\ average = (cd[WindowV3 + 1] - cd[1]) \div WindowV3
    /\ l >= 1 /\ TotalBound(Target, WindowV3, l)
    /\ NextDifficultyV5(ts, cd) = (average * (WindowV3 * (WindowV3 + 1) * Target * 99)) \div (200 * l)

LEMMA V5Is ==
    ASSUME NEW ts \in Seq(Nat), NEW cd \in Seq(Nat), Len(ts) = Len(cd), Rising(cd), ~ (Len(ts) < WindowV3 + 1)
    PROVE  \E average, l \in Nat : V5Parts(ts, cd, average, l)
  <1>0. PICK n \in Nat : n = WindowV3 /\ n >= 2
    BY TargetIs
  <1>1. n + 1 <= Len(ts) /\ Len(ts) \in Nat
    BY <1>0
  <1>2. PICK c : c = CHOOSE g : ClockBy(ts, n, g)
    OBVIOUS
  <1>3. (\A i \in 0..n : c[i] \in Int) /\ \A i \in 1..n : c[i] >= c[i - 1] + 1
    BY <1>1, <1>2, ClockRuns
  <1>4. PICK t : t = CHOOSE g : TotalBy(c, n, g)
    OBVIOUS
  <1>5. (\A i \in 0..n : t[i] \in Nat /\ t[i] >= i) /\ TotalBound(Target, n, t[n])
    BY <1>3, <1>4, TotalRuns, TotalBounded
  <1>6. PICK total \in Nat : total = t[n] /\ total >= 1 /\ TotalBound(Target, n, total)
    <2>1. n \in 0..n /\ n >= 1
      BY <1>0
    <2>2. QED
      BY <1>5, <2>1
  <1>7. PICK low \in Nat : low = (n * n * Target) \div 20 /\ TotalBound(Target, n, low)
    <2>1. PICK g \in Nat : g = Target
      BY TargetIs
    <2>2. PICK x \in Nat, y \in Nat : x = n * n * g /\ y = n * g
      OBVIOUS
    <2>3. x \div 20 \in Nat /\ x \div 20 <= x
      OBVIOUS
    <2>4. 3 * g * (n * (n + 1)) = 3 * (n * n * g) + 3 * (n * g)
      OBVIOUS
    <2>5. x \div 20 <= 3 * x + 3 * y
      BY <2>3
    <2>6. QED
      BY <2>1, <2>2, <2>3, <2>4, <2>5 DEF TotalBound
  <1>8. PICK l \in Nat : l = Larger(total, low) /\ l >= 1 /\ TotalBound(Target, n, l)
    BY <1>6, <1>7 DEF Larger
  <1>9. PICK average \in Nat : average = (cd[n + 1] - cd[1]) \div n
    <2>1. 1 \in DOMAIN cd /\ n + 1 \in DOMAIN cd /\ 1 < n + 1
      BY <1>0, <1>1
    <2>2. PICK x \in Nat, y \in Nat : x = cd[1] /\ y = cd[n + 1] /\ x < y
      <3>1. cd[1] \in Nat /\ cd[n + 1] \in Nat
        BY <2>1
      <3>2. cd[1] < cd[n + 1]
        BY <2>1 DEF Rising
      <3>3. QED
        BY <3>1, <3>2
    <2>3. PICK z \in Nat : z = y - x
      <3>1. y - x \in Nat
        BY <2>2
      <3>2. QED
        BY <3>1
    <2>4. z \div n \in Nat
      <3>1. n # 0
        BY <1>0
      <3>2. QED
        BY <3>1, Division
    <2>5. QED
      BY <2>2, <2>3, <2>4
  <1>10. NextDifficultyV5(ts, cd) = (average * (n * (n + 1) * Target * 99)) \div (200 * l)
    <2>1. NextDifficultyV5(ts, cd)
            = (average * (n * (n + 1) * Target * 99)) \div (200 * Larger(t[n], (n * n * Target) \div 20))
      BY <1>0, <1>2, <1>4, <1>9, SMTT(120) DEF NextDifficultyV5, ClockBy, TotalBy
    <2>2. QED
      BY <1>6, <1>7, <1>8, <2>1
  <1>11. QED
    BY <1>0, <1>8, <1>9, <1>10 DEF V5Parts

LEMMA V5Number ==
    ASSUME NEW ts \in Seq(Nat), NEW cd \in Seq(Nat), Len(ts) = Len(cd), Rising(cd)
    PROVE  NextDifficultyV5(ts, cd) \in Nat
  <1>1. PICK n \in Nat : n = WindowV3 /\ n >= 2
    BY TargetIs
  <1>2. CASE Len(ts) < n + 1
    BY <1>1, <1>2 DEF NextDifficultyV5
  <1>3. CASE ~ (Len(ts) < n + 1)
    <2>1. PICK average \in Nat, l \in Nat : V5Parts(ts, cd, average, l)
      BY <1>1, <1>3, V5Is
    <2>2. PICK top \in Nat, bottom \in Nat :
              top = average * (n * (n + 1) * Target * 99) /\ bottom = 200 * l /\ bottom # 0
      <3>1. n * (n + 1) * Target * 99 \in Nat
        BY TargetIs
      <3>2. average * (n * (n + 1) * Target * 99) \in Nat
        BY <3>1
      <3>3. l >= 1
        BY <2>1 DEF V5Parts
      <3>4. QED
        BY <3>2, <3>3
    <2>3. top \div bottom \in Nat
      BY <2>2, Division
    <2>4. QED
      BY <1>1, <2>1, <2>2, <2>3 DEF V5Parts
  <1>4. QED
    BY <1>2, <1>3

(* With an average of seven or more, LWMA-1 never answers zero: 99 times seven *)
(* exceeds the 600 that the total's bound and the 200 come to.                 *)
LEMMA V5Positive ==
    ASSUME NEW ts \in Seq(Nat), NEW cd \in Seq(Nat), Len(ts) = Len(cd), Rising(cd),
           NextDifficultyV5(ts, cd) = 0
    PROVE  ~ (Len(ts) < WindowV3 + 1) /\ (cd[WindowV3 + 1] - cd[1]) \div WindowV3 < 7
  <1>1. PICK n \in Nat : n = WindowV3 /\ n >= 2
    BY TargetIs
  <1>2. ~ (Len(ts) < n + 1)
    BY <1>1, SMTT(30) DEF NextDifficultyV5
  <1>3. PICK average \in Nat, l \in Nat : V5Parts(ts, cd, average, l)
    BY <1>1, <1>2, V5Is
  <1>4. PICK g \in Nat : g = Target /\ g # 0
    BY TargetIs
  <1>5. PICK u \in Nat : u = n * (n + 1) * g /\ u = g * (n * (n + 1)) /\ u # 0
    <2>1. PICK v \in Nat : v = n * (n + 1) /\ v # 0
      <3>1. n * (n + 1) \in Nat /\ n * (n + 1) # 0
        BY <1>1
      <3>2. QED
        BY <3>1
    <2>2. v * g \in Nat /\ v * g = g * v /\ v * g # 0
      BY <1>4, <2>1
    <2>3. QED
      BY <2>1, <2>2
  <1>6. l >= 1 /\ l <= 3 * u
    <2>1. l >= 1 /\ l <= 3 * g * (n * (n + 1))
      BY <1>1, <1>3, <1>4 DEF V5Parts, TotalBound
    <2>2. 3 * g * (n * (n + 1)) = 3 * (g * (n * (n + 1)))
      OBVIOUS
    <2>3. QED
      BY <1>5, <2>1, <2>2
  <1>7. PICK top \in Nat, bottom \in Nat : top = average * (u * 99) /\ bottom = 200 * l /\ bottom # 0
    <2>1. average * (u * 99) \in Nat
      OBVIOUS
    <2>2. QED
      BY <1>6, <2>1
  <1>8. top \div bottom = 0
    <2>1. NextDifficultyV5(ts, cd) = (average * (n * (n + 1) * g * 99)) \div (200 * l)
      BY <1>1, <1>3, <1>4 DEF V5Parts
    <2>2. QED
      BY <1>5, <1>7, <2>1
  <1>9. top < bottom
    BY <1>7, <1>8
  <1>10. bottom <= 600 * u
    BY <1>6, <1>7
  <1>11. SUFFICES ASSUME average >= 7 PROVE FALSE
    BY <1>1, <1>2, <1>3 DEF V5Parts
  <1>12. average * (u * 99) >= 7 * (u * 99)
    <2>1. PICK e \in Nat : average = 7 + e
      <3>1. average - 7 \in Nat /\ average = 7 + (average - 7)
        BY <1>11
      <3>2. QED
        BY <3>1
    <2>2. PICK w \in Nat : w = u * 99
      OBVIOUS
    <2>3. (7 + e) * w = 7 * w + e * w /\ e * w \in Nat
      OBVIOUS
    <2>4. QED
      BY <2>1, <2>2, <2>3
  <1>13. QED
    BY <1>5, <1>7, <1>9, <1>10, <1>12

(* Where v1 and v6 cut the timestamps: after the first `skip`, and after `last`. *)
SkipOf(n, size, cut) == Larger((n - (size - 2 * cut) + 1) \div 2, 0)
LastKept(n, size, cut) == IF SkipOf(n, size, cut) = 0 THEN n ELSE SkipOf(n, size, cut) + size - 2 * cut

Ends(n, size, cut, skip, last) ==
    /\ skip = SkipOf(n, size, cut) /\ last = LastKept(n, size, cut) /\ skip + 1 < last /\ last <= n
    /\ skip = IF n <= size - 2 * cut THEN 0 ELSE (n - (size - 2 * cut) + 1) \div 2
    /\ last = IF n <= size - 2 * cut THEN n ELSE (n - (size - 2 * cut) + 1) \div 2 + (size - 2 * cut)

LEMMA CutEnds ==
    ASSUME NEW n \in Nat, n >= 2, NEW size \in Nat, NEW cut \in Nat, size > 2 * cut + 1
    PROVE  \E skip, last \in Nat : Ends(n, size, cut, skip, last)
  <1>1. PICK span \in Nat : span = size - 2 * cut /\ span >= 2
    <2>1. size - 2 * cut \in Nat /\ size - 2 * cut >= 2
      OBVIOUS
    <2>2. QED
      BY <2>1
  <1>2. PICK h \in Int : h = (n - span + 1) \div 2
    OBVIOUS
  <1>3. SkipOf(n, size, cut) = Larger(h, 0)
    BY <1>1, <1>2 DEF SkipOf
  <1>4. CASE n <= span
    <2>1. h <= 0
      BY <1>2, <1>4
    <2>2. SkipOf(n, size, cut) = 0
      BY <1>3, <2>1 DEF Larger
    <2>3. LastKept(n, size, cut) = n
      BY <2>2 DEF LastKept
    <2>4. Ends(n, size, cut, 0, n)
      BY <1>1, <1>4, <2>2, <2>3 DEF Ends
    <2>5. QED
      BY <2>4
  <1>5. CASE n > span
    <2>1. h >= 1 /\ h <= n - span
      BY <1>1, <1>2, <1>5
    <2>2. SkipOf(n, size, cut) = h
      BY <1>3, <2>1 DEF Larger
    <2>3. LastKept(n, size, cut) = h + span
      BY <1>1, <2>1, <2>2 DEF LastKept
    <2>4. h \in Nat /\ h + span \in Nat
      BY <2>1
    <2>5. Ends(n, size, cut, h, h + span)
      BY <1>1, <1>2, <1>5, <2>1, <2>2, <2>3 DEF Ends
    <2>6. QED
      BY <2>4, <2>5
  <1>6. QED
    BY <1>4, <1>5

(* v1 and v6: the work between the cut ends over the time between them,        *)
(* rounded up.                                                                 *)
WorkCut(cd, n, size, cut) == cd[LastKept(n, size, cut)] - cd[SkipOf(n, size, cut) + 1]
TimeCut(ts, n, size, cut) ==
    Larger(Nth(ts, LastKept(n, size, cut)) - Nth(ts, SkipOf(n, size, cut) + 1), 1)

Fits(q) == IF q >= U128 THEN 0 ELSE q

CutAnswer(ts, cd, n, size, cut) ==
    IF n <= 1 THEN 1
    ELSE Fits(Ceiling(WorkCut(cd, n, size, cut) * Target, TimeCut(SubSeq(ts, 1, n), n, size, cut)))

CutSound(ts, cd, n, size, cut) ==
    n > 1 => /\ WorkCut(cd, n, size, cut) \in Nat /\ WorkCut(cd, n, size, cut) # 0
             /\ TimeCut(SubSeq(ts, 1, n), n, size, cut) \in Nat
             /\ TimeCut(SubSeq(ts, 1, n), n, size, cut) # 0

LEMMA CutIs ==
    ASSUME NEW ts \in Seq(Nat), NEW cd \in Seq(Nat), Len(ts) = Len(cd), Rising(cd),
           \A k \in DOMAIN cd : cd[k] < U128,
           NEW size \in Nat, NEW cut \in Nat, size > 2 * cut + 1, NEW n \in Nat, n = Smaller(Len(ts), size)
    PROVE  /\ NextDifficultyCut(ts, cd, size, cut) = CutAnswer(ts, cd, n, size, cut)
           /\ CutSound(ts, cd, n, size, cut)
           /\ NextDifficultyCut(ts, cd, size, cut) \in Nat
  <1>1. n <= Len(ts) /\ Len(ts) \in Nat
    BY DEF Smaller
  <1>2. CASE n <= 1
    BY <1>2 DEF NextDifficultyCut, CutAnswer, CutSound
  <1>3. CASE n >= 2
    <2>e. PICK skip \in Nat, last \in Nat : Ends(n, size, cut, skip, last)
      BY <1>3, CutEnds
    <2>1. /\ skip = SkipOf(n, size, cut) /\ last = LastKept(n, size, cut) /\ skip + 1 < last /\ last <= n
          /\ skip = IF n <= size - 2 * cut THEN 0 ELSE (n - (size - 2 * cut) + 1) \div 2
          /\ last = IF n <= size - 2 * cut THEN n ELSE (n - (size - 2 * cut) + 1) \div 2 + (size - 2 * cut)
      BY <2>e DEF Ends
    <2>2. PICK times \in Seq(Nat) : times = SubSeq(ts, 1, n) /\ Len(times) = n
      <3>1. SubSeq(ts, 1, n) \in Seq(Nat) /\ Len(SubSeq(ts, 1, n)) = n
        BY <1>1
      <3>2. QED
        BY <3>1
    <2>3. skip + 1 \in 1..n /\ last \in 1..n
      BY <2>1, SMTT(30)
    <2>4. PICK a \in Nat, b \in Nat : a = Nth(times, skip + 1) /\ b = Nth(times, last)
      BY <2>2, <2>3, NthStands
    <2>5. PICK time \in Nat : time = Larger(b - a, 1) /\ time # 0
      <3>1. Larger(b - a, 1) \in Nat /\ Larger(b - a, 1) # 0
        BY DEF Larger
      <3>2. QED
        BY <3>1
    <2>6. PICK x \in Nat, y \in Nat : x = cd[skip + 1] /\ y = cd[last] /\ x < y /\ y < U128
      <3>1. skip + 1 \in DOMAIN cd /\ last \in DOMAIN cd
        BY <1>1, <2>3, SMTT(30)
      <3>2. cd[skip + 1] \in Nat /\ cd[last] \in Nat /\ cd[last] < U128
        <4>1. \A k \in DOMAIN cd : cd[k] \in Nat /\ cd[k] < U128
          OBVIOUS
        <4>2. QED
          BY <3>1, <4>1
      <3>3. skip + 1 < last
        BY <2>1
      <3>4. cd[skip + 1] < cd[last]
        BY <3>1, <3>3 DEF Rising
      <3>5. QED
        BY <3>2, <3>4
    <2>7. PICK work \in Nat : work = y - x /\ work # 0 /\ work < U128
      <3>0. PICK D \in Nat : D = U128 /\ y < D
        BY <2>6, LimbFacts
      <3>1. y - x \in Nat /\ y - x # 0 /\ y - x < D
        <4>1. \A a1, b1, c1 \in Nat : a1 < b1 /\ b1 < c1 => b1 - a1 \in Nat /\ b1 - a1 # 0 /\ b1 - a1 < c1
          OBVIOUS
        <4>2. x < y /\ y < D
          BY <2>6, <3>0
        <4>3. QED
          BY <4>1, <4>2
      <3>2. QED
        BY <3>0, <3>1
    <2>8. work % U128 = work
      <3>1. PICK D \in Nat : D = U128 /\ D # 0
        BY LimbFacts
      <3>2. work = D * 0 + work /\ work < D
        BY <2>7, <3>1
      <3>3. QED
        BY <3>1, <3>2, Remainder
    <2>9. NextDifficultyCut(ts, cd, size, cut) = CeilDiv256(work % U128, Target, time)
      <3>1. ~ (n <= 1)
        BY <1>3
      <3>2. NextDifficultyCut(ts, cd, size, cut)
              = CeilDiv256((cd[last] - cd[skip + 1]) % U128, Target, Larger(Nth(times, last) - Nth(times, skip + 1), 1))
        BY <2>1, <2>2, <3>1 DEF NextDifficultyCut
      <3>3. QED
        BY <2>4, <2>5, <2>6, <2>7, <3>2
    <2>10. WorkCut(cd, n, size, cut) = work /\ TimeCut(times, n, size, cut) = time
      BY <2>1, <2>4, <2>5, <2>6, <2>7 DEF WorkCut, TimeCut
    <2>11. /\ CeilDiv256(work, Target, time) = Fits(Ceiling(work * Target, time))
           /\ Ceiling(work * Target, time) \in Nat
      BY <2>5, TargetIs, CeilExact, ZenonT(40) DEF Fits
    <2>12. NextDifficultyCut(ts, cd, size, cut) = Fits(Ceiling(work * Target, time))
      BY <2>8, <2>9, <2>11
    <2>13. CutAnswer(ts, cd, n, size, cut) = Fits(Ceiling(work * Target, time))
      BY <1>3, <2>2, <2>10 DEF CutAnswer
    <2>14. CutSound(ts, cd, n, size, cut)
      BY <2>2, <2>5, <2>7, <2>10 DEF CutSound
    <2>15. Fits(Ceiling(work * Target, time)) \in Nat
      BY <2>11 DEF Fits
    <2>16. QED
      BY <2>12, <2>13, <2>14, <2>15
  <1>4. QED
    BY <1>2, <1>3

LEMMA AlgorithmNumber ==
    ASSUME NEW ts \in Seq(Nat), NEW cd \in Seq(Nat), Len(ts) = Len(cd), Rising(cd),
           \A k \in DOMAIN cd : cd[k] < U128, NEW version \in Nat
    PROVE  NextDifficultyBy(version, ts, cd) \in Nat
  <1>1. /\ Window \in Nat /\ Cut \in Nat /\ Window > 2 * Cut + 1
        /\ WindowV3 \in Nat /\ CutV2 \in Nat /\ WindowV3 > 2 * CutV2 + 1
    BY DifficultyAssumption
  <1>2. PICK a \in Nat, b \in Nat : a = Smaller(Len(ts), Window) /\ b = Smaller(Len(ts), WindowV3)
    <2>1. Len(ts) \in Nat
      OBVIOUS
    <2>2. QED
      BY <1>1, <2>1 DEF Smaller
  <1>3. NextDifficultyCut(ts, cd, Window, Cut) \in Nat
    BY <1>1, <1>2, CutIs
  <1>4. NextDifficultyCut(ts, cd, WindowV3, CutV2) \in Nat
    BY <1>1, <1>2, CutIs
  <1>5. NextDifficultyV5(ts, cd) \in Nat
    BY V5Number
  <1>6. QED
    BY <1>3, <1>4, <1>5 DEF NextDifficultyBy

-----------------------------------------------------------------------------
(* The difficulty asked of the block after the rows r: by the rows from        *)
(* FirstOf(r) on, the genesis block's never.                                   *)

Slice(r, a) == [k \in 1..(Len(r) - a) |-> r[a + k]]

FirstOf(r) == Larger(Len(r) - BlocksCount(RequiredVersion(Len(r))), 1)

Asked(r) ==
    IF Len(r) \in DOMAIN Pinned[net] THEN Pinned[net][Len(r)]
    ELSE NextDifficultyBy(RequiredVersion(Len(r)), StampsOf(Slice(r, FirstOf(r))), WorkOf(Slice(r, FirstOf(r))))

LEMMA CountIs ==
    ASSUME NEW version \in Nat
    PROVE  BlocksCount(version) \in Nat /\ BlocksCount(version) # 0 /\ BlocksCount(version) <= WindowCache
  <1>1. /\ Window \in Nat /\ Cut \in Nat /\ Window > 2 * Cut + 1 /\ Lag \in Nat
        /\ WindowV3 \in Nat /\ CutV2 \in Nat /\ WindowV3 > 2 * CutV2 + 1 /\ LagV2 \in Nat /\ LagV2 # 0
    BY DifficultyAssumption
  <1>2. QED
    BY <1>1 DEF BlocksCount, WindowCache, Larger

LEMMA VersionIs ==
    ASSUME net \in Network, NEW h \in Nat
    PROVE  RequiredVersion(h) \in Nat
  <1>1. PICK table \in Seq([version : Nat, height : Nat]) : table = Forks[net] /\ table # << >>
    BY NetworkAssumption
  <1>2. PICK T : T = {k \in DOMAIN table : table[k].height <= h}
    OBVIOUS
  <1>3. \A k \in DOMAIN table : table[k].version \in Nat
    <2>1. PICK E : E = [version : Nat, height : Nat]
      OBVIOUS
    <2>2. table \in Seq(E)
      BY <2>1
    <2>3. \A k \in DOMAIN table : table[k] \in E
      BY <2>2
    <2>4. \A x \in E : x.version \in Nat
      BY <2>1
    <2>5. QED
      BY <2>3, <2>4
  <1>4. CASE T = {}
    <2>1. 1 \in DOMAIN table
      BY <1>1
    <2>2. RequiredVersion(h) = table[1].version
      BY <1>1, <1>2, <1>4 DEF RequiredVersion
    <2>3. QED
      BY <1>3, <2>1, <2>2
  <1>5. CASE T # {}
    <2>1. T \in SUBSET Nat /\ Len(table) \in Nat /\ \A k \in T : k <= Len(table) /\ k \in DOMAIN table
      BY <1>2
    <2>2. PICK m \in T : \A k \in T : k <= m
      BY <1>5, <2>1, GreatestNumber
    <2>3. Max(T) = m
      <3>1. \A x \in T : (\A y \in T : x >= y) => x = m
        BY <2>1, <2>2
      <3>2. \A y \in T : m >= y
        BY <2>1, <2>2
      <3>3. QED
        BY <2>2, <3>1, <3>2 DEF Max
    <2>4. RequiredVersion(h) = table[m].version
      BY <1>1, <1>2, <1>5, <2>3 DEF RequiredVersion
    <2>5. QED
      BY <1>3, <2>1, <2>2, <2>4
  <1>6. QED
    BY <1>4, <1>5

LEMMA SliceIs ==
    ASSUME NEW r \in Seq(Row), NEW a \in Nat, a <= Len(r)
    PROVE  /\ Slice(r, a) \in Seq(Row) /\ Len(Slice(r, a)) = Len(r) - a
           /\ \A k \in 1..(Len(r) - a) : Slice(r, a)[k] = r[a + k]
  <1>1. PICK n \in Nat : n = Len(r) - a
    <2>1. Len(r) - a \in Nat
      OBVIOUS
    <2>2. QED
      BY <2>1
  <1>2. Slice(r, a) = [k \in 1..n |-> r[a + k]]
    BY <1>1 DEF Slice
  <1>3. \A k \in 1..n : r[a + k] \in Row
    BY <1>1
  <1>4. QED
    BY <1>1, <1>2, <1>3

LEMMA ColumnsOfStamps ==
    ASSUME NEW s \in Seq(Row)
    PROVE  StampsOf(Column(StampCol, s)) = StampsOf(s) /\ WorkOf(Column(StampCol, s)) = WorkOf(s)
  <1>1. \A k \in DOMAIN s : s[k] \in Row
    OBVIOUS
  <1>2. \A x \in Row : StampCol[x].ts = x.ts /\ StampCol[x].cd = x.cd
    BY DEF StampCol
  <1>3. DOMAIN Column(StampCol, s) = DOMAIN s /\ \A k \in DOMAIN s : Column(StampCol, s)[k] = StampCol[s[k]]
    BY DEF Column
  <1>4. QED
    BY <1>1, <1>2, <1>3 DEF StampsOf, WorkOf

(* next_difficulty takes that slice from the cached window. *)
LEMMA NextDifficultyIs ==
    ASSUME net \in Network, NEW r \in Seq(Row), r # << >>
    PROVE  NextDifficulty(Reloaded(r), Len(r)) = Asked(r)
  <1>1. PICK n \in Nat : n = Len(r) /\ n >= 1
    OBVIOUS
  <1>2. PICK version \in Nat : version = RequiredVersion(n)
    BY VersionIs
  <1>3. PICK count \in Nat : count = BlocksCount(version) /\ count # 0 /\ count <= WindowCache
    BY CountIs
  <1>4. PICK cache \in Nat : cache = WindowCache /\ cache # 0
    BY Sizes
  <1>5. PICK offset \in Nat : offset = Larger(n - count, 1) /\ offset = FirstOf(r) /\ offset <= n /\ offset >= n - count
    <2>1. Larger(n - count, 1) \in Nat /\ Larger(n - count, 1) <= n /\ Larger(n - count, 1) >= n - count
      BY <1>1, <1>3 DEF Larger
    <2>2. Larger(n - count, 1) = FirstOf(r)
      BY <1>1, <1>2, <1>3 DEF FirstOf
    <2>3. QED
      BY <2>1, <2>2
  <1>6. PICK a \in Seq(Row) : a = LastOf(r, cache)
    BY <1>4, LastOfIs
  <1>7. PICK l \in Nat : l = Smaller(n, cache) /\ l <= n /\ (l = n \/ l = cache)
    BY DEF Smaller
  <1>8. Len(a) = l /\ \A k \in 1..l : a[k] = r[n - l + k]
    BY <1>1, <1>4, <1>6, <1>7, LastOfIs, ZenonT(40)
  <1>9. PICK T : T = [ts : Nat, cd : Nat]
    OBVIOUS
  <1>10. PICK c \in [Row -> T] : c = StampCol
    BY <1>9, ColumnTypes
  <1>11. PICK b \in Seq(T) : b = Column(c, a) /\ Elementwise(c, a, b)
    BY ColumnIs
  <1>12. Len(b) = l /\ \A k \in 1..l : b[k] = c[r[n - l + k]]
    BY <1>8, <1>11 DEF Elementwise
  <1>13. PICK skip \in Nat : skip = Larger(offset - (n - l), 0) /\ n - l + skip = offset
    <2>1. offset >= n - l
      BY <1>3, <1>4, <1>5, <1>7
    <2>2. Larger(offset - (n - l), 0) = offset - (n - l) /\ offset - (n - l) \in Nat
      BY <1>7, <2>1 DEF Larger
    <2>3. QED
      BY <1>7, <2>2
  <1>a. l - skip = n - offset /\ skip <= l /\ n - l + skip = offset
    <2>1. offset <= n /\ n - l + skip = offset
      BY <1>5, <1>13
    <2>2. QED
      BY <2>1
  <1>14. PICK s \in Seq(Row) : /\ s = Slice(r, offset) /\ Len(s) = n - offset
                               /\ \A k \in 1..(n - offset) : s[k] = r[offset + k]
    BY <1>1, <1>5, SliceIs
  <1>15. PICK d \in Seq(T) : d = Column(c, s) /\ Elementwise(c, s, d)
    BY ColumnIs
  <1>16. Len(d) = n - offset /\ \A k \in 1..(n - offset) : d[k] = c[r[offset + k]]
    BY <1>14, <1>15 DEF Elementwise
  <1>17. PICK e \in Seq(T) : e = SubSeq(b, skip + 1, l)
    <2>1. SubSeq(b, skip + 1, l) \in Seq(T)
      <3>1. \A k \in (skip + 1)..l : b[k] \in T
        BY <1>12
      <3>2. QED
        BY <3>1
    <2>2. QED
      BY <2>1
  <1>18. Len(e) = n - offset /\ \A k \in 1..(n - offset) : e[k] = b[skip + k]
    <2>1. skip + 1 \in Nat /\ l \in Nat /\ Len(b) = l
      BY <1>12
    <2>2. Len(SubSeq(b, skip + 1, l)) = l - skip
      <3>1. skip + 1 <= l => Len(SubSeq(b, skip + 1, l)) = l - (skip + 1) + 1
        BY <2>1
      <3>2. ~ (skip + 1 <= l) => Len(SubSeq(b, skip + 1, l)) = 0
        BY <2>1
      <3>3. skip <= l
        BY <1>a
      <3>4. QED
        BY <3>1, <3>2, <3>3
    <2>3. \A k \in 1..(l - skip) : SubSeq(b, skip + 1, l)[k] = b[skip + k]
      <3>1. SUFFICES ASSUME NEW k \in 1..(l - skip) PROVE SubSeq(b, skip + 1, l)[k] = b[skip + k]
        OBVIOUS
      <3>2. SubSeq(b, skip + 1, l)[k] = b[(skip + 1) + k - 1]
        BY <2>1
      <3>3. (skip + 1) + k - 1 = skip + k
        OBVIOUS
      <3>4. QED
        BY <3>2, <3>3
    <2>4. QED
      BY <1>17, <1>a, <2>2, <2>3
  <1>19. e = d
    <2>1. \A k \in 1..(n - offset) : e[k] = d[k]
      <3>1. SUFFICES ASSUME NEW k \in 1..(n - offset) PROVE e[k] = d[k]
        OBVIOUS
      <3>2. skip + k \in 1..l /\ n - l + (skip + k) = offset + k
        BY <1>a
      <3>3. e[k] = c[r[n - l + (skip + k)]]
        BY <1>12, <1>18, <3>2
      <3>4. QED
        BY <1>16, <3>2, <3>3
    <2>2. QED
      BY <1>16, <1>18, <2>1, SameElements
  <1>20. StampsOf(e) = StampsOf(Slice(r, FirstOf(r))) /\ WorkOf(e) = WorkOf(Slice(r, FirstOf(r)))
    BY <1>5, <1>10, <1>14, <1>15, <1>19, ColumnsOfStamps
  <1>21. Reloaded(r).window = b
    BY <1>4, <1>6, <1>10, <1>11, ReloadedIs DEF ChainState
  <1>22. NextDifficulty(Reloaded(r), n) = DifficultyOf(e, n, version)
    BY <1>2, <1>3, <1>5, <1>12, <1>13, <1>17, <1>21 DEF NextDifficulty
  <1>23. QED
    BY <1>1, <1>2, <1>20, <1>22 DEF DifficultyOf, Asked

(* alt_difficulty collects that slice from the links and the rows below them. *)
LEMMA TailIs ==
    ASSUME NEW r \in Seq(Row), NEW a \in Nat, a <= Len(r)
    PROVE  SubSeq(r, a + 1, Len(r)) = Slice(r, a)
  <1>1. PICK n \in Nat : n = Len(r) /\ a <= n
    OBVIOUS
  <1>2. PICK s \in Seq(Row) : /\ s = Slice(r, a) /\ Len(s) = n - a
                              /\ \A k \in 1..(n - a) : s[k] = r[a + k]
    BY <1>1, SliceIs
  <1>3. PICK t \in Seq(Row) : t = SubSeq(r, a + 1, n)
    <2>1. \A k \in (a + 1)..n : r[k] \in Row
      BY <1>1
    <2>2. SubSeq(r, a + 1, n) \in Seq(Row)
      BY <2>1
    <2>3. QED
      BY <2>2
  <1>4. Len(t) = n - a
    <2>1. a + 1 <= n => Len(SubSeq(r, a + 1, n)) = n - (a + 1) + 1
      BY <1>1
    <2>2. ~ (a + 1 <= n) => Len(SubSeq(r, a + 1, n)) = 0
      BY <1>1
    <2>3. QED
      BY <1>1, <1>3, <2>1, <2>2
  <1>5. \A k \in 1..(n - a) : t[k] = r[a + k]
    <2>1. SUFFICES ASSUME NEW k \in 1..(n - a) PROVE t[k] = r[a + k]
      OBVIOUS
    <2>2. SubSeq(r, a + 1, n)[k] = r[(a + 1) + k - 1]
      BY <1>1
    <2>3. (a + 1) + k - 1 = a + k
      OBVIOUS
    <2>4. QED
      BY <1>3, <2>2, <2>3
  <1>6. t = s
    BY <1>2, <1>4, <1>5, SameElements
  <1>7. QED
    BY <1>1, <1>2, <1>3, <1>6

LEMMA AltDifficultyIs ==
    ASSUME net \in Network, NEW r \in Seq(Row), r # << >>, NEW from \in 1..Len(r)
    PROVE  AltDifficulty(SubSeq(r, from + 1, Len(r)), from, r, RequiredVersion(Len(r))) = Asked(r)
  <1>1. PICK n \in Nat : n = Len(r) /\ n >= 1 /\ from \in Nat /\ from >= 1 /\ from <= n
    OBVIOUS
  <1>2. PICK version \in Nat : version = RequiredVersion(n)
    BY VersionIs
  <1>3. PICK count \in Nat : count = BlocksCount(version) /\ count # 0
    BY CountIs
  <1>4. PICK offset \in Nat : /\ offset = Larger(n - count, 1) /\ offset = FirstOf(r) /\ offset <= n
                              /\ offset >= n - count /\ offset >= 1
    <2>1. /\ Larger(n - count, 1) \in Nat /\ Larger(n - count, 1) <= n
          /\ Larger(n - count, 1) >= n - count /\ Larger(n - count, 1) >= 1
      BY <1>1, <1>3 DEF Larger
    <2>2. Larger(n - count, 1) = FirstOf(r)
      BY <1>1, <1>2, <1>3 DEF FirstOf
    <2>3. QED
      BY <2>1, <2>2
  <1>5. PICK links \in Seq(Row) : links = Slice(r, from) /\ Len(links) = n - from
                                  /\ \A k \in 1..(n - from) : links[k] = r[from + k]
    BY <1>1, SliceIs
  <1>6. SubSeq(r, from + 1, Len(r)) = links
    BY <1>1, <1>5, TailIs
  <1>7. PICK s \in Seq(Row) : /\ s = Slice(r, offset) /\ Len(s) = n - offset
                              /\ \A k \in 1..(n - offset) : s[k] = r[offset + k]
    BY <1>1, <1>4, SliceIs
  <1>8. PICK m \in Nat : m = Len(links) /\ m = n - from /\ from + m = n
    <2>1. n - from \in Nat /\ from + (n - from) = n
      BY <1>1
    <2>2. Len(links) = n - from
      BY <1>5
    <2>3. QED
      BY <2>1, <2>2
  <1>9. CASE m < count
    <2>1. Larger(from - Smaller(count - m, from), 1) = offset /\ offset <= from
      BY <1>1, <1>3, <1>4, <1>8, <1>9 DEF Larger, Smaller
    <2>2. PICK below \in Seq(Row) : /\ below = [k \in 1..(from - offset) |-> r[offset + k]]
                                    /\ Len(below) = from - offset
                                    /\ \A k \in 1..(from - offset) : below[k] = r[offset + k]
      <3>1. PICK g \in Nat : g = from - offset /\ offset + g <= n
        <4>1. from - offset \in Nat
          BY <1>1, <2>1
        <4>2. QED
          BY <1>1, <2>1, <4>1
      <3>2. \A k \in 1..g : r[offset + k] \in Row
        BY <1>1, <3>1
      <3>3. PICK b : b = [k \in 1..g |-> r[offset + k]]
        OBVIOUS
      <3>4. b \in Seq(Row) /\ Len(b) = g /\ \A k \in 1..g : b[k] = r[offset + k]
        BY <3>2, <3>3
      <3>5. QED
        BY <3>1, <3>3, <3>4
    <2>3. PICK w \in Seq(Row) : w = below \o links
      <3>1. below \o links \in Seq(Row)
        OBVIOUS
      <3>2. QED
        BY <3>1
    <2>4. Len(w) = n - offset
      <3>1. Len(below \o links) = Len(below) + Len(links)
        OBVIOUS
      <3>2. QED
        <4>1. Len(w) = (from - offset) + (n - from)
          BY <1>8, <2>2, <2>3, <3>1
        <4>2. QED
          BY <1>1, <4>1
    <2>5. \A k \in 1..(n - offset) : w[k] = s[k]
      <3>1. SUFFICES ASSUME NEW k \in 1..(n - offset) PROVE w[k] = s[k]
        OBVIOUS
      <3>2. k \in 1..(Len(below) + Len(links)) /\ k \in Nat /\ Len(below) = from - offset
        BY <1>1, <1>8, <2>1, <2>2
      <3>3. (below \o links)[k] = IF k <= Len(below) THEN below[k] ELSE links[k - Len(below)]
        BY <3>2
      <3>4. CASE k <= from - offset
        BY <1>7, <2>2, <2>3, <3>2, <3>3, <3>4
      <3>5. CASE k > from - offset
        <4>1. k - (from - offset) \in 1..(n - from) /\ from + (k - (from - offset)) = offset + k
          BY <1>1, <2>1, <3>5
        <4>2. links[k - (from - offset)] = r[from + (k - (from - offset))]
          BY <1>5, <4>1
        <4>3. QED
          BY <1>1, <1>7, <2>1, <2>3, <3>2, <3>3, <3>5, <4>1, <4>2
      <3>6. QED
        BY <1>1, <2>1, <3>4, <3>5
    <2>6. w = s
      BY <1>7, <2>4, <2>5, SameElements
    <2>7. AltDifficulty(links, from, r, version) = DifficultyOf(w, n, version)
      BY <1>2, <1>3, <1>8, <1>9, <2>1, <2>2, <2>3 DEF AltDifficulty
    <2>8. QED
      BY <1>1, <1>2, <1>4, <1>6, <1>7, <2>6, <2>7 DEF DifficultyOf, Asked
  <1>10. CASE ~ (m < count)
    <2>1. offset = n - count /\ Smaller(m, count) = count /\ count <= m
      BY <1>1, <1>3, <1>4, <1>8, <1>10 DEF Larger, Smaller
    <2>2. PICK w \in Seq(Row) : /\ w = LastOf(links, count) /\ Len(w) = count
                                /\ \A k \in 1..count : w[k] = links[m - count + k]
      <3>1. /\ LastOf(links, count) \in Seq(Row) /\ Len(LastOf(links, count)) = Smaller(Len(links), count)
            /\ \A k \in 1..Smaller(Len(links), count) :
                  LastOf(links, count)[k] = links[Len(links) - Smaller(Len(links), count) + k]
        BY <1>3, LastOfIs
      <3>2. Smaller(Len(links), count) = count /\ Len(links) = m
        BY <1>8, <2>1
      <3>3. QED
        BY <3>1, <3>2
    <2>3. Len(w) = n - offset
      BY <1>1, <2>1, <2>2
    <2>4. \A k \in 1..(n - offset) : w[k] = s[k]
      <3>1. SUFFICES ASSUME NEW k \in 1..(n - offset) PROVE w[k] = s[k]
        OBVIOUS
      <3>2. /\ k \in 1..count /\ m - count + k \in 1..(n - from)
            /\ from + (m - count + k) = offset + k
        <4>1. n - offset = count /\ m = n - from /\ from + m = n /\ count <= m
          BY <1>1, <1>8, <2>1
        <4>2. k \in 1..count
          BY <4>1
        <4>3. m - count + k \in 1..m
          BY <4>1, <4>2
        <4>4. from + (m - count + k) = (from + m) - count + k
          BY <1>1, <4>2
        <4>5. QED
          BY <2>1, <4>1, <4>2, <4>3, <4>4
      <3>3. links[m - count + k] = r[from + (m - count + k)]
        BY <1>5, <3>2
      <3>4. QED
        BY <1>7, <2>2, <3>2, <3>3
    <2>5. w = s
      BY <1>7, <2>3, <2>4, SameElements
    <2>6. AltDifficulty(links, from, r, version) = DifficultyOf(w, n, version)
      BY <1>2, <1>3, <1>8, <1>10, <2>2 DEF AltDifficulty
    <2>7. QED
      BY <1>1, <1>2, <1>4, <1>6, <1>7, <2>5, <2>6 DEF DifficultyOf, Asked
  <1>11. QED
    BY <1>9, <1>10

-----------------------------------------------------------------------------
(* Median time. *)

(* A window of odd size that loses its oldest value for one not below its     *)
(* median has no smaller median: what is at or below the new median was below *)
(* the old one, one place on.                                                 *)
LEMMA MedianSlides ==
    ASSUME NEW n \in Nat, n % 2 = 1, NEW s \in Seq(Nat), Len(s) = n, NEW t \in Seq(Nat), Len(t) = n,
           \A k \in 1..(n - 1) : t[k] = s[k + 1], t[n] >= Median(s)
    PROVE  Median(t) >= Median(s)
  <1>0. \A k \in DOMAIN t : t[k] \in Nat
    BY SMTT(30)
  <1>1. PICK m \in Nat : m = n \div 2 + 1 /\ m >= 1 /\ m <= n /\ n # 0
    <2>1. n \div 2 \in Nat /\ n \div 2 + 1 >= 1 /\ n \div 2 + 1 <= n /\ n # 0
      OBVIOUS
    <2>2. QED
      BY <2>1
  <1>2. m \in 1..Len(s) /\ m \in 1..Len(t) /\ s # << >> /\ t # << >>
    BY <1>1
  <1>3. PICK x \in Nat : x = Nth(s, m) /\ StandsAt(s, m, x)
    BY <1>2, NthStands
  <1>4. PICK y \in Nat : y = Nth(t, m) /\ StandsAt(t, m, y)
    BY <1>2, NthStands
  <1>5. Median(s) = x /\ Median(t) = y
    BY <1>1, <1>2, <1>3, <1>4 DEF Median
  <1>6. SUFFICES ASSUME y < x PROVE FALSE
    BY <1>5
  <1>7. PICK U \in SUBSET DOMAIN s : U = Under(s, x)
    BY DEF Under
  <1>8. PICK A \in SUBSET DOMAIN t : A = AtMost(t, y)
    BY DEF AtMost
  <1>9. PICK V \in SUBSET DOMAIN s : V = U \ {1}
    OBVIOUS
  <1>10. IsFiniteSet(V) /\ Cardinality(V) \in Nat /\ V \in SUBSET Int
    <2>1. DOMAIN s = 1..n
      OBVIOUS
    <2>2. V \in SUBSET Int
      BY <2>1
    <2>3. IsFiniteSet(V) /\ Cardinality(V) \in Nat
      BY PlacesFinite
    <2>4. QED
      BY <2>2, <2>3
  <1>11. PICK T : T = {k - 1 : k \in V}
    OBVIOUS
  <1>12. IsFiniteSet(T) /\ Cardinality(T) = Cardinality(V)
    BY <1>10, <1>11, CountShifted
  <1>13. T \in SUBSET DOMAIN t
    <2>1. DOMAIN s = 1..n /\ DOMAIN t = 1..n
      OBVIOUS
    <2>2. \A k \in V : k - 1 \in 1..n
      BY <1>9, <2>1
    <2>3. QED
      BY <1>11, <2>1, <2>2
  <1>14. A \subseteq T
    <2>1. SUFFICES ASSUME NEW k \in A PROVE k \in T
      OBVIOUS
    <2>2. k \in 1..n /\ t[k] <= y /\ t[k] \in Nat
      <3>1. k \in DOMAIN t /\ t[k] <= y
        BY <1>8 DEF AtMost
      <3>2. DOMAIN t = 1..n
        OBVIOUS
      <3>3. t[k] \in Nat
        BY <1>0, <3>1
      <3>4. QED
        BY <3>1, <3>2, <3>3
    <2>3. k # n
      BY <1>5, <1>6, <2>2
    <2>4. k \in 1..(n - 1) /\ k + 1 \in 1..n
      BY <2>2, <2>3
    <2>5. s[k + 1] < x
      BY <1>6, <2>2, <2>4
    <2>6. k + 1 \in V
      <3>1. k + 1 \in DOMAIN s
        BY <2>4
      <3>2. k + 1 \in U
        BY <1>7, <2>5, <3>1 DEF Under
      <3>3. k + 1 # 1
        BY <2>4
      <3>4. QED
        BY <1>9, <3>2, <3>3
    <2>7. (k + 1) - 1 = k
      BY <2>2
    <2>8. QED
      BY <1>11, <2>6, <2>7
  <1>15. Cardinality(A) <= Cardinality(T) /\ Cardinality(V) <= Cardinality(U)
    BY <1>9, <1>13, <1>14, CountPlaces
  <1>16. Cardinality(A) >= m /\ Cardinality(U) < m
    BY <1>3, <1>4, <1>7, <1>8 DEF StandsAt
  <1>17. Cardinality(A) \in Nat /\ Cardinality(U) \in Nat
    BY PlacesFinite
  <1>18. QED
    BY <1>10, <1>12, <1>15, <1>16, <1>17

-----------------------------------------------------------------------------
(* Prefixes of the chain. *)

LEMMA PrefixIs ==
    ASSUME NEW r \in Seq(Row), NEW h \in Nat, h <= Len(r)
    PROVE  /\ SubSeq(r, 1, h) \in Seq(Row) /\ Len(SubSeq(r, 1, h)) = h
           /\ \A k \in 1..h : SubSeq(r, 1, h)[k] = r[k]
  <1>1. \A k \in 1..h : r[k] \in Row
    OBVIOUS
  <1>2. SubSeq(r, 1, h) \in Seq(Row)
    BY <1>1
  <1>3. Len(SubSeq(r, 1, h)) = h
    <2>1. 1 <= h => Len(SubSeq(r, 1, h)) = h - 1 + 1
      OBVIOUS
    <2>2. ~ (1 <= h) => Len(SubSeq(r, 1, h)) = 0
      OBVIOUS
    <2>3. QED
      BY <2>1, <2>2
  <1>4. \A k \in 1..h : SubSeq(r, 1, h)[k] = r[1 + k - 1]
    OBVIOUS
  <1>5. \A k \in 1..h : 1 + k - 1 = k
    OBVIOUS
  <1>6. QED
    BY <1>2, <1>3, <1>4, <1>5

(* Two chains that agree up to a height have the same prefix there. *)
Agree(r, s, h) == h <= Len(r) /\ h <= Len(s) /\ \A k \in 1..h : r[k] = s[k]

LEMMA SamePrefix ==
    ASSUME NEW r \in Seq(Row), NEW s \in Seq(Row), NEW h \in Nat, Agree(r, s, h)
    PROVE  SubSeq(r, 1, h) = SubSeq(s, 1, h)
  <1>1. h <= Len(r) /\ h <= Len(s) /\ \A k \in 1..h : r[k] = s[k]
    BY DEF Agree
  <1>2. PICK a \in Seq(Row) : a = SubSeq(r, 1, h) /\ Len(a) = h /\ \A k \in 1..h : a[k] = r[k]
    BY <1>1, PrefixIs
  <1>3. PICK b \in Seq(Row) : b = SubSeq(s, 1, h) /\ Len(b) = h /\ \A k \in 1..h : b[k] = s[k]
    BY <1>1, PrefixIs
  <1>4. a = b
    BY <1>1, <1>2, <1>3, SameElements
  <1>5. QED
    BY <1>2, <1>3, <1>4

-----------------------------------------------------------------------------
(* The state above a chain. *)

LEMMA LimitsAreNumbers ==
    ASSUME NEW version \in Nat, NEW recent \in Seq(Nat), NEW longMedian \in Nat
    PROVE  WeightLimits(version, recent, longMedian).median \in Nat
  <1>1. FullRewardZone \in Nat /\ SurgeFactor \in Nat
    BY EmissionAssumption
  <1>2. PICK stm \in Nat : stm = Median(recent)
    BY MedianIsNumber
  <1>3. PICK ltem \in Nat : ltem = Larger(FullRewardZone, longMedian)
    BY <1>1 DEF Larger
  <1>4. PICK surge \in Nat : surge = SurgeFactor * ltem
    <2>1. SurgeFactor * ltem \in Nat
      BY <1>1
    <2>2. QED
      BY <2>1
  <1>5. PICK floor \in Nat : floor = IF version >= Scaling2021 THEN ltem ELSE FullRewardZone
    BY <1>1
  <1>6. \/ WeightLimits(version, recent, longMedian).median = Larger(FullRewardZone, stm)
        \/ WeightLimits(version, recent, longMedian).median
             = Larger(FullRewardZone, Smaller(Larger(floor, stm), surge))
    BY <1>2, <1>3, <1>4, <1>5 DEF WeightLimits
  <1>7. Larger(FullRewardZone, stm) \in Nat /\ Larger(FullRewardZone, Smaller(Larger(floor, stm), surge)) \in Nat
    BY <1>1 DEF Larger, Smaller
  <1>8. QED
    BY <1>6, <1>7

LEMMA ReloadedParts ==
    ASSUME net \in Network, NEW r \in Seq(Row), r # << >>
    PROVE  /\ Reloaded(r).coins = r[Len(r)].coins /\ Reloaded(r).cd = r[Len(r)].cd
           /\ WindowMedian(Reloaded(r).long) \in Nat
           /\ WindowMedian(Reloaded(r).long) = Middle(Column(LongOf, LastOf(r, Capacity)))
           /\ Reloaded(r).limits.median \in Nat
           /\ Len(Reloaded(r).recent) \in 0..RewardWindow
           /\ Len(Reloaded(r).window) \in 0..WindowCache
           /\ Len(Reloaded(r).long.order) \in 0..Capacity
  <1>1. PICK n \in Nat : n = Len(r) /\ n >= 1
    OBVIOUS
  <1>2. PICK capacity \in Nat, reward \in Nat, cache \in Nat :
            /\ capacity = Capacity /\ capacity # 0 /\ reward = RewardWindow /\ reward # 0
            /\ cache = WindowCache /\ cache # 0
    BY Sizes
  <1>3. PICK a \in Seq(Row) : a = LastOf(r, capacity)
    BY <1>2, LastOfIs
  <1>4. PICK b \in Seq(Row) : b = LastOf(r, reward)
    BY <1>2, LastOfIs
  <1>5. PICK c \in Seq(Row) : c = LastOf(r, cache)
    BY <1>2, LastOfIs
  <1>6. Len(a) \in 1..capacity /\ Len(b) \in 0..reward /\ Len(c) \in 0..cache
    <2>1. Len(a) = Smaller(n, capacity) /\ Len(b) = Smaller(n, reward) /\ Len(c) = Smaller(n, cache)
      BY <1>1, <1>2, <1>3, <1>4, <1>5, LastOfIs
    <2>2. Smaller(n, capacity) \in 1..capacity /\ Smaller(n, reward) \in 0..reward /\ Smaller(n, cache) \in 0..cache
      BY <1>1, <1>2 DEF Smaller
    <2>3. QED
      BY <2>1, <2>2
  <1>7. PICK T : T = [ts : Nat, cd : Nat]
    OBVIOUS
  <1>8. PICK f \in [Row -> Nat], g \in [Row -> Nat], e \in [Row -> T] : f = LongOf /\ g = WeightCol /\ e = StampCol
    BY <1>7, ColumnTypes
  <1>9. PICK la \in Seq(Nat) : la = Column(f, a) /\ Elementwise(f, a, la)
    BY ColumnIs, ZenonT(40)
  <1>10. PICK wb \in Seq(Nat) : wb = Column(g, b) /\ Elementwise(g, b, wb)
    BY ColumnIs, ZenonT(40)
  <1>11. PICK sc \in Seq(T) : sc = Column(e, c) /\ Elementwise(e, c, sc)
    BY ColumnIs, ZenonT(40)
  <1>12. Len(la) = Len(a) /\ Len(wb) = Len(b) /\ Len(sc) = Len(c)
    BY <1>9, <1>10, <1>11 DEF Elementwise
  <1>13. PICK w : w = LongWindow(a)
    OBVIOUS
  <1>14. Halved(w, la)
    <2>1. r[1] \in Row
      BY <1>1
    <2>2. QED
      BY <1>2, <1>3, <1>8, <1>9, <1>13, <2>1, LongCarried
  <1>15. la # << >>
    BY <1>6, <1>12
  <1>16. WindowMedian(w) = Middle(la) /\ WindowMedian(w) \in Nat
    BY <1>14, <1>15, HalvedMedian
  <1>17. w.order = la
    <2>1. PICK L \in SUBSET DOMAIN la : w = WindowOf(la, L)
      BY <1>14 DEF Halved
    <2>2. QED
      BY <2>1 DEF WindowOf
  <1>18. PICK version \in Nat : version = RequiredVersion(n)
    BY VersionIs
  <1>19. Reloaded(r) = ChainState(w, wb, sc, r[n], version)
    BY <1>1, <1>2, <1>3, <1>4, <1>5, <1>8, <1>9, <1>10, <1>11, <1>13, <1>18, ReloadedIs
  <1>20. /\ Reloaded(r).coins = r[n].coins /\ Reloaded(r).cd = r[n].cd /\ Reloaded(r).long = w
         /\ Reloaded(r).recent = wb /\ Reloaded(r).window = sc
         /\ Reloaded(r).limits = WeightLimits(version, wb, WindowMedian(w))
    BY <1>19 DEF ChainState
  <1>21. Reloaded(r).limits.median \in Nat
    BY <1>16, <1>20, LimitsAreNumbers
  <1>22. Len(Reloaded(r).recent) \in 0..RewardWindow /\ Len(Reloaded(r).window) \in 0..WindowCache
    BY <1>2, <1>6, <1>12, <1>20
  <1>23. Len(Reloaded(r).long.order) \in 0..Capacity
    BY <1>2, <1>6, <1>12, <1>17, <1>20, SMTT(30)
  <1>24. QED
    BY <1>1, <1>2, <1>3, <1>8, <1>9, <1>16, <1>20, <1>21, <1>22, <1>23

-----------------------------------------------------------------------------
(* The difficulty asked is a number, as cumulative difficulties rise. *)

Ordered(r) == \A i, j \in DOMAIN r : i < j => r[i].cd < r[j].cd

SliceColumns(s) ==
    /\ StampsOf(s) \in Seq(Nat) /\ WorkOf(s) \in Seq(Nat)
    /\ Len(StampsOf(s)) = Len(s) /\ Len(WorkOf(s)) = Len(s)
    /\ Rising(WorkOf(s)) /\ \A k \in DOMAIN WorkOf(s) : WorkOf(s)[k] < U128

LEMMA SliceRises ==
    ASSUME NEW r \in Seq(Row), Ordered(r), NEW a \in Nat, a <= Len(r)
    PROVE  SliceColumns(Slice(r, a))
  <1>1. PICK n \in Nat : n = Len(r) /\ a <= n
    OBVIOUS
  <1>2. PICK s \in Seq(Row) : s = Slice(r, a) /\ Len(s) = n - a /\ \A k \in 1..(n - a) : s[k] = r[a + k]
    BY <1>1, SliceIs
  <1>3. PICK m \in Nat : m = n - a /\ Len(s) = m /\ DOMAIN s = 1..m
    <2>1. n - a \in Nat
      BY <1>1
    <2>2. QED
      BY <1>2, <2>1
  <1>4. \A k \in 1..m : s[k] \in Row
    BY <1>3
  <1>5. U128 \in Nat
    BY LimbFacts
  <1>6. \A x \in Row : x.ts \in Nat /\ x.cd \in Nat /\ x.cd < U128
    BY <1>5 DEF Row
  <1>7. PICK t, d : t = StampsOf(s) /\ d = WorkOf(s)
    OBVIOUS
  <1>8. t = [k \in 1..m |-> s[k].ts] /\ d = [k \in 1..m |-> s[k].cd]
    BY <1>3, <1>7 DEF StampsOf, WorkOf
  <1>9. \A k \in 1..m : s[k].ts \in Nat /\ s[k].cd \in Nat /\ s[k].cd < U128
    BY <1>4, <1>6
  <1>10. t \in Seq(Nat) /\ Len(t) = m /\ d \in Seq(Nat) /\ Len(d) = m /\ DOMAIN d = 1..m
    BY <1>8, <1>9
  <1>11. \A k \in DOMAIN d : d[k] < U128
    BY <1>8, <1>9, <1>10
  <1>12. Rising(d)
    <2>1. SUFFICES ASSUME NEW i \in DOMAIN d, NEW j \in DOMAIN d, i < j PROVE d[i] < d[j]
      BY DEF Rising
    <2>2. i \in 1..m /\ j \in 1..m
      BY <1>10
    <2>3. a + i \in DOMAIN r /\ a + j \in DOMAIN r /\ a + i < a + j
      BY <1>1, <1>3, <2>1, <2>2
    <2>4. r[a + i].cd < r[a + j].cd
      BY <2>3 DEF Ordered
    <2>5. d[i] = r[a + i].cd /\ d[j] = r[a + j].cd
      BY <1>2, <1>3, <1>8, <2>2
    <2>6. QED
      BY <2>4, <2>5
  <1>13. QED
    BY <1>2, <1>3, <1>7, <1>10, <1>11, <1>12 DEF SliceColumns

LEMMA FirstIs ==
    ASSUME net \in Network, NEW r \in Seq(Row), r # << >>
    PROVE  FirstOf(r) \in Nat /\ FirstOf(r) <= Len(r)
  <1>1. PICK n \in Nat : n = Len(r) /\ n >= 1
    OBVIOUS
  <1>2. PICK version \in Nat : version = RequiredVersion(n)
    BY VersionIs
  <1>3. PICK count \in Nat : count = BlocksCount(version) /\ count # 0
    BY CountIs
  <1>4. FirstOf(r) = Larger(n - count, 1)
    BY <1>1, <1>2, <1>3 DEF FirstOf
  <1>5. QED
    BY <1>1, <1>3, <1>4 DEF Larger

LEMMA AskedIsNumber ==
    ASSUME net \in Network, NEW r \in Seq(Row), r # << >>, Ordered(r)
    PROVE  Asked(r) \in Nat
  <1>1. PICK n \in Nat : n = Len(r)
    OBVIOUS
  <1>2. PICK version \in Nat : version = RequiredVersion(n)
    BY VersionIs
  <1>3. PICK s : s = Slice(r, FirstOf(r))
    OBVIOUS
  <1>4. SliceColumns(s)
    BY <1>3, FirstIs, SliceRises
  <1>5. PICK t \in Seq(Nat), d \in Seq(Nat) :
            t = StampsOf(s) /\ d = WorkOf(s) /\ Len(t) = Len(d) /\ Rising(d) /\ \A k \in DOMAIN d : d[k] < U128
    BY <1>4 DEF SliceColumns
  <1>6. NextDifficultyBy(version, t, d) \in Nat
    BY <1>5, AlgorithmNumber
  <1>7. n \in DOMAIN Pinned[net] => Pinned[net][n] \in Nat
    BY NetworkAssumption
  <1>8. QED
    BY <1>1, <1>2, <1>3, <1>5, <1>6, <1>7 DEF Asked

-----------------------------------------------------------------------------
(* The invariant: rows and state have their shapes, the state is the one the   *)
(* rows give, and every row after the genesis block's met, when it came, the   *)
(* rules by the rows below it.                                                 *)

Timely(r) == \A h \in 1..(Len(r) - 1) : TimestampOK(r[h + 1].ts, SubSeq(r, 1, h), RequiredVersion(h))

Worked(r) ==
    \A h \in 1..(Len(r) - 1) : /\ r[h + 1].cd = r[h].cd + Asked(SubSeq(r, 1, h))
                               /\ Asked(SubSeq(r, 1, h)) # 0

RulesInv ==
    /\ net \in Network
    /\ rows \in Seq(Row)
    /\ Len(rows) \in 1..(MaxHeight + 1)
    /\ Ordered(rows)
    /\ Timely(rows)
    /\ Worked(rows)
    /\ state = Reloaded(rows)

(* The stored row of a block that add_block accepts. *)
NewRow(ts, weight, short) ==
    LET height == Len(rows)
        version == RequiredVersion(height)
        base == BlockReward(state.limits.median, weight, state.coins)
    IN [ ts |-> ts, weight |-> weight,
         long |-> NextLongTermWeight(version, weight, WindowMedian(state.long)),
         cd |-> state.cd + NextDifficulty(state, height),
         coins |-> state.coins + AdjustedReward(version, base, Fee, base + Fee - short) ]

LEMMA LongTermNumber ==
    ASSUME NEW version \in Nat, NEW weight \in Nat, NEW longMedian \in Nat
    PROVE  NextLongTermWeight(version, weight, longMedian) \in Nat
  <1>1. FullRewardZone \in Nat
    BY EmissionAssumption
  <1>2. PICK ltem \in Nat : ltem = Larger(FullRewardZone, longMedian)
    BY <1>1 DEF Larger
  <1>3. PICK a \in Nat, b \in Nat, c \in Nat :
            a = ltem + (ltem * 2) \div 5 /\ b = (ltem * 10) \div 17 /\ c = ltem + (ltem * 7) \div 10
    <2>1. ltem + (ltem * 2) \div 5 \in Nat /\ (ltem * 10) \div 17 \in Nat /\ ltem + (ltem * 7) \div 10 \in Nat
      OBVIOUS
    <2>2. QED
      BY <2>1
  <1>4. NextLongTermWeight(version, weight, longMedian)
            \in {weight, Smaller(weight, a), Smaller(Larger(weight, b), c)}
    BY <1>2, <1>3 DEF NextLongTermWeight
  <1>5. Smaller(weight, a) \in Nat /\ Smaller(Larger(weight, b), c) \in Nat
    BY DEF Smaller, Larger
  <1>6. QED
    BY <1>4, <1>5

(* The coins counted never pass the supply: what a coinbase adds is no more    *)
(* than the reward, which is no more than what the supply has left.            *)
LEMMA RewardFits ==
    ASSUME NEW median \in Nat, NEW weight \in Nat, NEW coins \in 0..MoneySupply, ~ TooBig(median, weight),
           NEW version \in Nat, NEW base, base = BlockReward(median, weight, coins),
           NEW short \in Nat, short <= base + Fee, ClaimAllowed(version, base, Fee, base + Fee - short)
    PROVE  coins + AdjustedReward(version, base, Fee, base + Fee - short) \in 0..MoneySupply
  <1>1. Fee \in Nat /\ MoneySupply \in Nat
    BY RulesAssumption, EmissionAssumption
  <1>2. base \in Nat /\ base <= MoneySupply - coins
    <2>1. base \in Nat /\ base <= BaseReward(coins)
      BY RewardBounds
    <2>2. BaseReward(coins) \in Nat /\ BaseReward(coins) <= MoneySupply - coins
      BY BaseRewardIs
    <2>3. QED
      BY <1>1, <2>1, <2>2
  <1>3. PICK paid : paid = AdjustedReward(version, base, Fee, base + Fee - short)
    OBVIOUS
  <1>4. paid \in Nat /\ paid <= base
    <2>1. CASE version >= ExactCoinbase
      BY <1>2, <1>3, <2>1 DEF AdjustedReward
    <2>2. CASE ~ (version >= ExactCoinbase)
      <3>1. PICK claimed \in Nat : claimed = base + Fee - short
        <4>1. base + Fee - short \in Nat
          BY <1>1, <1>2
        <4>2. QED
          BY <4>1
      <3>2. paid = claimed - Fee
        BY <1>3, <2>2, <3>1 DEF AdjustedReward
      <3>3. ClaimAllowed(version, base, Fee, claimed)
        BY <3>1
      <3>4. Fee <= claimed /\ claimed <= base + Fee
        BY <2>2, <3>3 DEF ClaimAllowed
      <3>5. QED
        BY <1>1, <1>2, <3>2, <3>4
    <2>3. QED
      BY <2>1, <2>2
  <1>5. QED
    BY <1>1, <1>2, <1>3, <1>4

LEMMA AddsRow ==
    ASSUME RulesInv, NEW ts \in Nat, NEW weight \in Weights, NEW short \in Shortfalls, AddBlock(ts, weight, short)
    PROVE  /\ NewRow(ts, weight, short) \in Row
           /\ NewRow(ts, weight, short).ts = ts
           /\ NewRow(ts, weight, short).cd = rows[Len(rows)].cd + Asked(rows)
           /\ Asked(rows) \in Nat /\ Asked(rows) # 0
           /\ rows' = Append(rows, NewRow(ts, weight, short))
           /\ state' = Carried(state, NewRow(ts, weight, short), Len(rows))
           /\ TimestampOK(ts, rows, RequiredVersion(Len(rows)))
           /\ Len(rows) <= MaxHeight
           /\ net' = net
  <1>0. /\ net \in Network /\ rows \in Seq(Row) /\ Len(rows) \in Nat /\ Len(rows) >= 1 /\ rows # << >>
        /\ Ordered(rows) /\ state = Reloaded(rows)
    BY DEF RulesInv
  <1>1. PICK n \in Nat : n = Len(rows) /\ n >= 1
    BY <1>0
  <1>2. PICK version \in Nat : version = RequiredVersion(n)
    BY <1>0, VersionIs
  <1>3. PICK d \in Nat : d = Asked(rows) /\ d = NextDifficulty(state, n)
    BY <1>0, <1>1, AskedIsNumber, NextDifficultyIs
  <1>4. PICK tip \in Row : tip = rows[n]
    BY <1>0, <1>1
  <1>5. PICK median \in Nat, longMedian \in Nat :
            median = state.limits.median /\ longMedian = WindowMedian(state.long)
    BY <1>0, ReloadedParts
  <1>6. state.coins = tip.coins /\ state.cd = tip.cd
    BY <1>0, <1>1, <1>4, ReloadedParts
  <1>7. PICK coins \in 0..MoneySupply, cd \in 1..(U128 - 1) : coins = tip.coins /\ cd = tip.cd
    BY DEF Row
  <1>8. PICK base : base = BlockReward(median, weight, coins)
    OBVIOUS
  <1>9. /\ n <= MaxHeight /\ TimestampOK(ts, rows, version) /\ d # 0 /\ cd + d < U128
        /\ ~ TooBig(median, weight) /\ short <= base + Fee /\ ClaimAllowed(version, base, Fee, base + Fee - short)
        /\ rows' = Append(rows, NewRow(ts, weight, short)) /\ state' = Carried(state, NewRow(ts, weight, short), n)
        /\ net' = net
    BY <1>1, <1>2, <1>3, <1>5, <1>6, <1>7, <1>8 DEF AddBlock, NewRow
  <1>10. weight \in Nat /\ short \in Nat
    BY RulesAssumption
  <1>11. PICK total \in 0..MoneySupply : total = coins + AdjustedReward(version, base, Fee, base + Fee - short)
    BY <1>8, <1>9, <1>10, RewardFits
  <1>12. PICK long \in Nat : long = NextLongTermWeight(version, weight, longMedian)
    BY <1>10, LongTermNumber
  <1>13. cd + d \in 1..(U128 - 1)
    BY <1>7, <1>9, LimbFacts
  <1>14. NewRow(ts, weight, short) = [ts |-> ts, weight |-> weight, long |-> long, cd |-> cd + d, coins |-> total]
    BY <1>1, <1>2, <1>3, <1>5, <1>6, <1>7, <1>8, <1>11, <1>12 DEF NewRow
  <1>15. NewRow(ts, weight, short) \in Row
    BY <1>10, <1>13, <1>14 DEF Row
  <1>16. QED
    BY <1>1, <1>2, <1>3, <1>4, <1>7, <1>9, <1>14, <1>15

(* A prefix of a chain keeps what its rows met. *)
History(r) == Ordered(r) /\ Timely(r) /\ Worked(r)

LEMMA HistoryOfPrefix ==
    ASSUME NEW r \in Seq(Row), History(r), NEW m \in 1..Len(r)
    PROVE  History(SubSeq(r, 1, m))
  <1>1. PICK n \in Nat : n = Len(r) /\ m \in Nat /\ m >= 1 /\ m <= n
    OBVIOUS
  <1>2. PICK s \in Seq(Row) : s = SubSeq(r, 1, m) /\ Len(s) = m /\ \A k \in 1..m : s[k] = r[k]
    BY <1>1, PrefixIs
  <1>3. DOMAIN s = 1..m /\ DOMAIN r = 1..n
    BY <1>1, <1>2
  <1>4. Ordered(s)
    <2>1. \A i, j \in 1..m : i \in 1..n /\ j \in 1..n
      BY <1>1
    <2>2. QED
      BY <1>2, <1>3, <2>1 DEF History, Ordered
  <1>5. \A h \in 1..(m - 1) : /\ h \in 1..(n - 1) /\ s[h] = r[h] /\ s[h + 1] = r[h + 1]
                              /\ SubSeq(s, 1, h) = SubSeq(r, 1, h)
    <2>1. SUFFICES ASSUME NEW h \in 1..(m - 1)
                   PROVE  /\ h \in 1..(n - 1) /\ s[h] = r[h] /\ s[h + 1] = r[h + 1]
                          /\ SubSeq(s, 1, h) = SubSeq(r, 1, h)
      OBVIOUS
    <2>2. h \in Nat /\ h \in 1..(n - 1) /\ h \in 1..m /\ h + 1 \in 1..m /\ \A k \in 1..h : k \in 1..m
      BY <1>1
    <2>3. Agree(s, r, h)
      BY <1>1, <1>2, <2>2 DEF Agree
    <2>4. QED
      BY <1>2, <2>2, <2>3, SamePrefix
  <1>6. Timely(s)
    BY <1>1, <1>2, <1>5 DEF History, Timely
  <1>7. Worked(s)
    BY <1>1, <1>2, <1>5 DEF History, Worked
  <1>8. QED
    BY <1>2, <1>4, <1>6, <1>7 DEF History

LEMMA HistoryGrows ==
    ASSUME NEW r \in Seq(Row), r # << >>, History(r), NEW row \in Row,
           Asked(r) \in Nat, Asked(r) # 0, row.cd = r[Len(r)].cd + Asked(r),
           TimestampOK(row.ts, r, RequiredVersion(Len(r)))
    PROVE  History(Append(r, row))
  <1>1. PICK n \in Nat : n = Len(r) /\ n >= 1
    OBVIOUS
  <1>2. PICK s \in Seq(Row) : s = Append(r, row)
    <2>1. Append(r, row) \in Seq(Row)
      OBVIOUS
    <2>2. QED
      BY <2>1
  <1>3. Len(s) = n + 1 /\ DOMAIN s = 1..(n + 1) /\ s[n + 1] = row /\ DOMAIN r = 1..n
    BY <1>1, <1>2
  <1>4. \A k \in 1..n : s[k] = r[k]
    BY <1>1, <1>2
  <1>5. \A h \in 1..n : SubSeq(s, 1, h) = SubSeq(r, 1, h)
    <2>1. SUFFICES ASSUME NEW h \in 1..n PROVE SubSeq(s, 1, h) = SubSeq(r, 1, h)
      OBVIOUS
    <2>2. h \in Nat /\ h <= n /\ h <= n + 1 /\ \A k \in 1..h : k \in 1..n
      BY <1>1
    <2>3. Agree(s, r, h)
      BY <1>1, <1>3, <1>4, <2>2 DEF Agree
    <2>4. QED
      BY <2>2, <2>3, SamePrefix
  <1>6. SubSeq(r, 1, n) = r
    <2>1. PICK a \in Seq(Row) : a = SubSeq(r, 1, n) /\ Len(a) = n /\ \A k \in 1..n : a[k] = r[k]
      BY <1>1, PrefixIs
    <2>2. a = r
      BY <1>1, <2>1, SameElements
    <2>3. QED
      BY <2>1, <2>2
  <1>7. Ordered(s)
    <2>1. SUFFICES ASSUME NEW i \in 1..(n + 1), NEW j \in 1..(n + 1), i < j PROVE s[i].cd < s[j].cd
      BY <1>3 DEF Ordered
    <2>2. i \in 1..n /\ s[i] = r[i] /\ r[i] \in Row
      <3>1. i \in 1..n
        BY <1>1, <2>1
      <3>2. QED
        BY <1>1, <1>4, <3>1
    <2>3. CASE j \in 1..n
      BY <1>3, <1>4, <2>1, <2>2, <2>3 DEF History, Ordered
    <2>4. CASE j = n + 1
      <3>1. PICK last \in Row : last = r[n]
        BY <1>1
      <3>2. last.cd \in Nat /\ r[i].cd \in Nat
        <4>1. \A x \in Row : x.cd \in Nat
          BY LimbFacts, SMTT(30) DEF Row
        <4>2. QED
          BY <2>2, <4>1
      <3>3. r[i].cd <= last.cd
        <4>1. CASE i = n
          BY <3>1, <3>2, <4>1
        <4>2. CASE i < n
          <5>1. n \in 1..n
            BY <1>1
          <5>2. r[i].cd < r[n].cd
            BY <1>3, <2>2, <4>2, <5>1 DEF History, Ordered
          <5>3. QED
            BY <3>1, <3>2, <5>2
        <4>3. QED
          BY <1>1, <2>2, <4>1, <4>2
      <3>4. s[j].cd = last.cd + Asked(r)
        BY <1>1, <1>3, <2>4, <3>1
      <3>5. QED
        BY <2>2, <3>2, <3>3, <3>4, SMTT(30)
    <2>5. QED
      BY <1>1, <2>1, <2>3, <2>4
  <1>8. \A h \in 1..(Len(s) - 1) : h \in 1..n /\ (h \in 1..(n - 1) \/ h = n) /\ h + 1 \in 1..(n + 1)
    BY <1>1, <1>3
  <1>9. \A h \in 1..(n - 1) : h + 1 \in 1..n /\ h \in 1..n
    BY <1>1
  <1>10. Timely(s)
    <2>1. SUFFICES ASSUME NEW h \in 1..(Len(s) - 1)
                   PROVE  TimestampOK(s[h + 1].ts, SubSeq(s, 1, h), RequiredVersion(h))
      BY DEF Timely
    <2>2. CASE h \in 1..(n - 1)
      BY <1>1, <1>4, <1>5, <1>9, <2>2 DEF History, Timely
    <2>3. CASE h = n
      BY <1>1, <1>3, <1>5, <1>6, <1>8, <2>3
    <2>4. QED
      BY <1>8, <2>2, <2>3
  <1>11. Worked(s)
    <2>1. SUFFICES ASSUME NEW h \in 1..(Len(s) - 1)
                   PROVE  s[h + 1].cd = s[h].cd + Asked(SubSeq(s, 1, h)) /\ Asked(SubSeq(s, 1, h)) # 0
      BY DEF Worked
    <2>2. CASE h \in 1..(n - 1)
      BY <1>1, <1>4, <1>5, <1>9, <2>2 DEF History, Worked
    <2>3. CASE h = n
      BY <1>1, <1>3, <1>4, <1>5, <1>6, <1>8, <2>3
    <2>4. QED
      BY <1>8, <2>2, <2>3
  <1>12. QED
    BY <1>2, <1>7, <1>10, <1>11 DEF History

(* The state read back depends on the network, which never changes. *)
LEMMA SameRules ==
    ASSUME net' = net, NEW r
    PROVE  Reloaded(r)' = Reloaded(r)
  BY DEF Reloaded, RequiredVersion

(* The invariant as a predicate of the rows and the state. *)
Sound(r, s) == r \in Seq(Row) /\ Len(r) \in 1..(MaxHeight + 1) /\ History(r) /\ s = Reloaded(r)

LEMMA RulesStep ==
    ASSUME RulesInv, [Next]_vars
    PROVE  RulesInv'
  <1>0. net \in Network /\ rows \in Seq(Row) /\ Len(rows) \in 1..(MaxHeight + 1) /\ History(rows) /\ state = Reloaded(rows)
    BY DEF RulesInv, History
  <1>1. MaxHeight \in Nat
    BY RulesAssumption
  <1>2. SUFFICES ASSUME net' = net, NEW q, q = rows', NEW p, p = state', Sound(q, p) PROVE RulesInv'
    <2>1. net' = net /\ \E q, p : q = rows' /\ p = state' /\ Sound(q, p)
      <3>1. CASE UNCHANGED vars
        BY <1>0, <3>1 DEF vars, Sound
      <3>2. ASSUME NEW ts \in {Last(rows).ts + gap : gap \in Gaps} \cap Nat, NEW weight \in Weights,
                   NEW short \in Shortfalls, AddBlock(ts, weight, short)
            PROVE  net' = net /\ \E q, p : q = rows' /\ p = state' /\ Sound(q, p)
        <4>1. PICK row \in Row : /\ row = NewRow(ts, weight, short) /\ row.ts = ts
                                 /\ row.cd = rows[Len(rows)].cd + Asked(rows)
                                 /\ Asked(rows) \in Nat /\ Asked(rows) # 0
                                 /\ rows' = Append(rows, row) /\ state' = Carried(state, row, Len(rows))
                                 /\ TimestampOK(row.ts, rows, RequiredVersion(Len(rows)))
                                 /\ Len(rows) <= MaxHeight /\ net' = net
          BY <3>2, AddsRow
        <4>2. rows # << >>
          BY <1>0
        <4>3. History(Append(rows, row))
          BY <1>0, <4>1, <4>2, HistoryGrows
        <4>4. Carried(state, row, Len(rows)) = Reloaded(Append(rows, row))
          BY <1>0, <4>2, CarriedIsReloaded
        <4>5. Append(rows, row) \in Seq(Row) /\ Len(Append(rows, row)) \in 1..(MaxHeight + 1)
          <5>1. Append(rows, row) \in Seq(Row) /\ Len(Append(rows, row)) = Len(rows) + 1 /\ Len(rows) \in Nat
            BY <1>0
          <5>2. QED
            BY <1>1, <4>1, <5>1
        <4>6. Sound(Append(rows, row), Carried(state, row, Len(rows)))
          BY <4>3, <4>4, <4>5 DEF Sound
        <4>7. QED
          BY <4>1, <4>6
      <3>3. ASSUME NEW height \in 1..(Len(rows) - 1), PopTo(height)
            PROVE  net' = net /\ \E q, p : q = rows' /\ p = state' /\ Sound(q, p)
        <4>1. height \in Nat /\ height >= 1 /\ height <= Len(rows) /\ height \in 1..Len(rows)
          BY <1>0
        <4>2. PICK s \in Seq(Row) : s = SubSeq(rows, 1, height) /\ Len(s) = height
          BY <1>0, <4>1, PrefixIs
        <4>3. History(s)
          BY <1>0, <4>1, <4>2, HistoryOfPrefix
        <4>4. net' = net /\ rows' = s /\ state' = Reloaded(s)'
          BY <3>3, <4>2 DEF PopTo, Reloaded, RequiredVersion
        <4>5. state' = Reloaded(s)
          BY <4>4, SameRules
        <4>6. Len(s) \in 1..(MaxHeight + 1)
          BY <1>0, <1>1, <4>1, <4>2
        <4>7. Sound(s, Reloaded(s))
          BY <4>2, <4>3, <4>6 DEF Sound
        <4>8. QED
          BY <4>4, <4>5, <4>7
      <3>4. QED
        BY <3>1, <3>2, <3>3 DEF Next
    <2>2. QED
      BY <2>1
  <1>3. q \in Seq(Row) /\ Len(q) \in 1..(MaxHeight + 1) /\ History(q) /\ p = Reloaded(q)
    BY <1>2 DEF Sound
  <1>4. p = Reloaded(q)'
    BY <1>2, <1>3, SameRules
  <1>5. Ordered(rows)' /\ Timely(rows)' /\ Worked(rows)'
    <2>1. Ordered(rows)'
      BY <1>2, <1>3 DEF History, Ordered
    <2>2. Timely(rows)'
      BY <1>2, <1>3 DEF History, Timely, RequiredVersion
    <2>3. Worked(rows)'
      BY <1>2, <1>3, ZenonT(40) DEF History, Worked, Asked, FirstOf, RequiredVersion
    <2>4. QED
      BY <2>1, <2>2, <2>3
  <1>6. state' = Reloaded(rows)'
    BY <1>2, <1>4 DEF Reloaded, RequiredVersion
  <1>7. QED
    BY <1>0, <1>2, <1>3, <1>5, <1>6 DEF RulesInv

LEMMA RulesStart == Init => RulesInv
  <1>1. SUFFICES ASSUME Init PROVE RulesInv
    OBVIOUS
  <1>2. GenesisRow \in Row /\ MaxHeight \in Nat
    BY RulesAssumption DEF Row
  <1>3. net \in Network /\ rows = << GenesisRow >> /\ state = Reloaded(rows)
    BY <1>1 DEF Init
  <1>4. rows \in Seq(Row) /\ Len(rows) = 1 /\ DOMAIN rows = 1..1
    BY <1>2, <1>3
  <1>5. Ordered(rows) /\ Timely(rows) /\ Worked(rows)
    <2>1. \A i, j \in 1..1 : ~ (i < j)
      OBVIOUS
    <2>2. Ordered(rows)
      BY <1>4, <2>1 DEF Ordered
    <2>3. 1..(Len(rows) - 1) = {}
      BY <1>4
    <2>4. QED
      BY <2>2, <2>3 DEF Timely, Worked
  <1>6. QED
    BY <1>2, <1>3, <1>4, <1>5 DEF RulesInv

-----------------------------------------------------------------------------
(* What follows from it. *)

LEMMA CacheHolds == RulesInv => CacheExact
  <1>1. SUFFICES ASSUME RulesInv PROVE CacheExact
    OBVIOUS
  <1>2. net \in Network /\ rows \in Seq(Row) /\ Len(rows) \in 1..(MaxHeight + 1) /\ state = Reloaded(rows)
    BY <1>1 DEF RulesInv
  <1>3. rows # << >>
    BY <1>2
  <1>4. /\ Len(state.recent) \in 0..RewardWindow /\ Len(state.window) \in 0..WindowCache
        /\ Len(state.long.order) \in 0..Capacity
    BY <1>2, <1>3, ReloadedParts
  <1>5. TypeOK
    BY <1>2, <1>4 DEF TypeOK, Row
  <1>6. QED
    BY <1>2, <1>5 DEF CacheExact, CarriedAsReloaded

LEMMA MedianHolds == RulesInv => RollingMedianExact
  <1>1. SUFFICES ASSUME RulesInv PROVE RollingMedianExact
    OBVIOUS
  <1>2. net \in Network /\ rows \in Seq(Row) /\ Len(rows) \in 1..(MaxHeight + 1) /\ state = Reloaded(rows)
    BY <1>1 DEF RulesInv
  <1>3. rows # << >>
    BY <1>2
  <1>4. PICK a \in Seq(Row) : a = LastOf(rows, Capacity)
    BY <1>2, Sizes, LastOfIs
  <1>5. WindowMedian(state.long) = Middle(Column(LongOf, a))
    BY <1>2, <1>3, <1>4, ReloadedParts
  <1>6. Column(LongOf, a) = [k \in DOMAIN a |-> a[k].long]
    <2>1. \A k \in DOMAIN a : a[k] \in Row
      OBVIOUS
    <2>2. \A x \in Row : LongOf[x] = x.long
      BY ColumnTypes
    <2>3. QED
      BY <2>1, <2>2 DEF Column
  <1>7. QED
    BY <1>4, <1>5, <1>6 DEF RollingMedianExact, Middle

LEMMA AltHolds == RulesInv => AltDifficultyAgrees
  <1>1. SUFFICES ASSUME RulesInv, NEW from \in 1..Len(rows)
                 PROVE  AltDifficulty(SubSeq(rows, from + 1, Len(rows)), from, rows, RequiredVersion(Len(rows)))
                          = NextDifficulty(state, Len(rows))
    BY DEF AltDifficultyAgrees
  <1>2. net \in Network /\ rows \in Seq(Row) /\ Len(rows) \in 1..(MaxHeight + 1) /\ state = Reloaded(rows)
    BY <1>1 DEF RulesInv
  <1>3. rows # << >>
    BY <1>2
  <1>4. NextDifficulty(state, Len(rows)) = Asked(rows)
    BY <1>2, <1>3, NextDifficultyIs
  <1>5. AltDifficulty(SubSeq(rows, from + 1, Len(rows)), from, rows, RequiredVersion(Len(rows))) = Asked(rows)
    BY <1>2, <1>3, AltDifficultyIs
  <1>6. QED
    BY <1>4, <1>5

LEMMA RewardHolds == RulesInv => HeavierEarnsLess
  <1>1. SUFFICES ASSUME RulesInv, NEW w \in 1..(2 * state.limits.median)
                 PROVE  BlockReward(state.limits.median, w, state.coins)
                          <= BlockReward(state.limits.median, w - 1, state.coins)
    BY DEF HeavierEarnsLess
  <1>2. net \in Network /\ rows \in Seq(Row) /\ Len(rows) \in 1..(MaxHeight + 1) /\ state = Reloaded(rows)
    BY <1>1 DEF RulesInv
  <1>3. rows # << >>
    BY <1>2
  <1>4. PICK median \in Nat : median = state.limits.median
    BY <1>2, <1>3, ReloadedParts
  <1>5. PICK coins \in 0..MoneySupply : coins = state.coins
    <2>1. state.coins = rows[Len(rows)].coins
      BY <1>2, <1>3, ReloadedParts
    <2>2. rows[Len(rows)] \in Row
      BY <1>2
    <2>3. \A x \in Row : x.coins \in 0..MoneySupply
      BY DEF Row
    <2>4. QED
      BY <2>1, <2>2, <2>3
  <1>6. FullRewardZone \in Nat
    BY EmissionAssumption
  <1>7. w \in Nat /\ w # 0 /\ w <= 2 * median
    BY <1>1, <1>4
  <1>8. ~ TooBig(median, w)
    BY <1>6, <1>7 DEF TooBig, Larger
  <1>9. QED
    BY <1>4, <1>5, <1>7, <1>8, RewardBounds

LEMMA TimeHolds == RulesInv => MedianTimeAdvances
  <1>1. SUFFICES ASSUME RulesInv, NEW h \in StampWindowV2..(Len(rows) - 1), RequiredVersion(h) >= 10
                 PROVE  Median(RecentTimestamps(SubSeq(rows, 1, h + 1), 10))
                          >= Median(RecentTimestamps(SubSeq(rows, 1, h), 10))
    BY DEF MedianTimeAdvances
  <1>2. net \in Network /\ rows \in Seq(Row) /\ Len(rows) \in 1..(MaxHeight + 1) /\ Timely(rows)
    BY <1>1 DEF RulesInv
  <1>3. PICK w \in Nat : w = StampWindowV2 /\ w # 0 /\ w % 2 = 1
    BY RulesAssumption
  <1>4. PICK n \in Nat : n = Len(rows)
    BY <1>2
  <1>5. h \in Nat /\ h >= w /\ h + 1 <= n /\ h \in 1..(n - 1) /\ h <= n /\ h + 1 \in Nat /\ h - w \in Nat
    BY <1>3, <1>4
  <1>6. PICK p \in Seq(Row) : p = SubSeq(rows, 1, h) /\ Len(p) = h /\ \A k \in 1..h : p[k] = rows[k]
    BY <1>2, <1>4, <1>5, PrefixIs
  <1>7. PICK q \in Seq(Row) : q = SubSeq(rows, 1, h + 1) /\ Len(q) = h + 1 /\ \A k \in 1..(h + 1) : q[k] = rows[k]
    BY <1>2, <1>4, <1>5, PrefixIs
  <1>8. PICK s : s = [k \in 1..w |-> p[h - w + k].ts]
    OBVIOUS
  <1>9. PICK t : t = [k \in 1..w |-> q[(h + 1) - w + k].ts]
    OBVIOUS
  <1>10. \A x \in Row : x.ts \in Nat
    BY DEF Row
  <1>11. \A k \in 1..w : h - w + k \in 1..h /\ (h + 1) - w + k \in 1..(h + 1)
    BY <1>3, <1>5
  <1>12. s \in Seq(Nat) /\ Len(s) = w
    <2>1. \A j \in 1..h : p[j] \in Row
      BY <1>5, <1>6
    <2>2. \A k \in 1..w : p[h - w + k].ts \in Nat
      BY <1>10, <1>11, <2>1
    <2>3. QED
      BY <1>8, <2>2
  <1>13. t \in Seq(Nat) /\ Len(t) = w
    <2>1. \A j \in 1..(h + 1) : q[j] \in Row
      BY <1>5, <1>7
    <2>2. \A k \in 1..w : q[(h + 1) - w + k].ts \in Nat
      BY <1>10, <1>11, <2>1
    <2>3. QED
      BY <1>9, <2>2
  <1>14. RecentTimestamps(p, 10) = s /\ RecentTimestamps(p, RequiredVersion(h)) = s
    <2>1. TimestampWindow(10) = w /\ TimestampWindow(RequiredVersion(h)) = w /\ ~ (h < w)
      BY <1>1, <1>3, <1>5 DEF TimestampWindow
    <2>2. QED
      BY <1>6, <1>8, <2>1 DEF RecentTimestamps
  <1>15. RecentTimestamps(q, 10) = t
    <2>1. TimestampWindow(10) = w /\ ~ (h + 1 < w)
      BY <1>3, <1>5 DEF TimestampWindow
    <2>2. QED
      BY <1>7, <1>9, <2>1 DEF RecentTimestamps
  <1>16. \A k \in 1..(w - 1) : t[k] = s[k + 1]
    <2>1. SUFFICES ASSUME NEW k \in 1..(w - 1) PROVE t[k] = s[k + 1]
      OBVIOUS
    <2>2. /\ k \in 1..w /\ k + 1 \in 1..w /\ (h + 1) - w + k = h - w + (k + 1)
          /\ h - w + (k + 1) \in 1..h /\ h - w + (k + 1) \in 1..(h + 1)
      BY <1>3, <1>5
    <2>3. t[k] = q[h - w + (k + 1)].ts /\ s[k + 1] = p[h - w + (k + 1)].ts
      BY <1>8, <1>9, <2>2
    <2>4. QED
      BY <1>6, <1>7, <2>2, <2>3
  <1>17. t[w] >= Median(s)
    <2>1. TimestampOK(rows[h + 1].ts, p, RequiredVersion(h))
      BY <1>2, <1>4, <1>5, <1>6 DEF Timely
    <2>2. s # << >>
      BY <1>3, <1>12
    <2>3. rows[h + 1].ts >= Median(s)
      BY <1>14, <2>1, <2>2 DEF TimestampOK
    <2>4. w \in 1..w /\ (h + 1) - w + w = h + 1 /\ h + 1 \in 1..(h + 1)
      BY <1>3, <1>5
    <2>5. t[w] = q[h + 1].ts
      BY <1>9, <2>4
    <2>6. QED
      BY <1>7, <2>3, <2>4, <2>5
  <1>18. Median(t) >= Median(s)
    BY <1>3, <1>12, <1>13, <1>16, <1>17, MedianSlides
  <1>19. QED
    BY <1>6, <1>7, <1>14, <1>15, <1>18

(* The ceiling, stated of the cut columns of a window. *)
CeilingOf(d, work, time) == d * time >= work * Target /\ (d - 1) * time < work * Target

LEMMA ListIs ==
    ASSUME NEW m \in Nat, NEW f \in [1..m -> Nat]
    PROVE  f \in Seq(Nat)
  OBVIOUS

LEMMA CutCeiling ==
    ASSUME NEW ts \in Seq(Nat), NEW cd \in Seq(Nat), Len(ts) = Len(cd), Rising(cd),
           \A k \in DOMAIN cd : cd[k] < U128,
           NEW size \in Nat, NEW cut \in Nat, size > 2 * cut + 1, NEW n \in Nat, n = Smaller(Len(ts), size),
           n > 1, NEW d, d = NextDifficultyCut(ts, cd, size, cut), d # 0
    PROVE  CeilingOf(d, WorkCut(cd, n, size, cut), TimeCut(SubSeq(ts, 1, n), n, size, cut))
  <1>1. d = CutAnswer(ts, cd, n, size, cut) /\ CutSound(ts, cd, n, size, cut)
    BY CutIs
  <1>2. PICK work \in Nat, time \in Nat :
            work = WorkCut(cd, n, size, cut) /\ time = TimeCut(SubSeq(ts, 1, n), n, size, cut) /\ time # 0
    BY <1>1 DEF CutSound
  <1>3. Target \in Nat
    BY TargetIs
  <1>4. PICK x \in Nat : x = work * Target
    <2>1. work * Target \in Nat
      BY <1>3
    <2>2. QED
      BY <2>1
  <1>5. d = Fits(Ceiling(x, time))
    BY <1>1, <1>2, <1>4 DEF CutAnswer
  <1>6. d = Ceiling(x, time)
    BY <1>5 DEF Fits
  <1>7. Ceiling(x, time) * time >= x /\ (Ceiling(x, time) - 1) * time < x
    BY <1>2, CeilingBounds
  <1>8. QED
    BY <1>2, <1>4, <1>6, <1>7 DEF CeilingOf

LEMMA CeilingHolds == RulesInv => DifficultyIsCeiling
  <1>1. SUFFICES ASSUME RulesInv PROVE DifficultyIsCeiling
    OBVIOUS
  <1>2. net \in Network /\ rows \in Seq(Row) /\ Len(rows) \in 1..(MaxHeight + 1) /\ Worked(rows) /\ History(rows)
    BY <1>1 DEF RulesInv, History
  <1>3. ASSUME NEW h \in 2..(Len(rows) - 1) PROVE CeilingAt(h)
    <2> DEFINE version == RequiredVersion(h)
               d == rows[h + 1].cd - rows[h].cd
               size == IF version >= 20 THEN WindowV3 ELSE Window
               cut == IF version >= 20 THEN CutV2 ELSE Cut
               first == Larger(h - BlocksCount(version), 1)
               n == Smaller(h - first, size)
               skip == Larger((n - (size - 2 * cut) + 1) \div 2, 0)
               last == IF skip = 0 THEN n ELSE skip + size - 2 * cut
               stamps == [k \in 1..n |-> rows[first + k].ts]
               work == rows[first + last].cd - rows[first + skip + 1].cd
               time == Larger(Nth(stamps, last) - Nth(stamps, skip + 1), 1)
               Exact == d * time >= work * Target /\ (d - 1) * time < work * Target
    <2>0. SUFFICES ASSUME h \notin DOMAIN Pinned[net], version \notin 11..17, n > 1
                   PROVE  Exact
      BY DEF CeilingAt
    <2>a. version = RequiredVersion(h)
      OBVIOUS
    <2>b. d = rows[h + 1].cd - rows[h].cd
      OBVIOUS
    <2>c. size = (IF version >= 20 THEN WindowV3 ELSE Window) /\ cut = (IF version >= 20 THEN CutV2 ELSE Cut)
      OBVIOUS
    <2>d. first = Larger(h - BlocksCount(version), 1)
      OBVIOUS
    <2>e. n = Smaller(h - first, size)
      OBVIOUS
    <2>f. skip = Larger((n - (size - 2 * cut) + 1) \div 2, 0)
      OBVIOUS
    <2>g. last = IF skip = 0 THEN n ELSE skip + size - 2 * cut
      OBVIOUS
    <2>h. stamps = [k \in 1..n |-> rows[first + k].ts]
      OBVIOUS
    <2>i. work = rows[first + last].cd - rows[first + skip + 1].cd
      OBVIOUS
    <2>j. time = Larger(Nth(stamps, last) - Nth(stamps, skip + 1), 1)
      OBVIOUS
    <2> HIDE DEF version, d, size, cut, first, n, skip, last, stamps, work, time
    <2>1. PICK l \in Nat : l = Len(rows)
      BY <1>2
    <2>2. h \in Nat /\ h >= 2 /\ h + 1 <= l /\ h <= l /\ h \in 1..(l - 1) /\ h \in 1..l
      BY <2>1
    <2>3. PICK p \in Seq(Row) : p = SubSeq(rows, 1, h) /\ Len(p) = h /\ \A k \in 1..h : p[k] = rows[k]
      BY <1>2, <2>1, <2>2, PrefixIs
    <2>4. p # << >>
      BY <2>2, <2>3
    <2>5. Ordered(p)
      BY <1>2, <2>1, <2>2, <2>3, HistoryOfPrefix DEF History
    <2>6. PICK asked \in Nat : asked = Asked(p)
      BY <1>2, <2>4, <2>5, AskedIsNumber
    <2>7. d = asked /\ d # 0
      <3>1. rows[h + 1].cd = rows[h].cd + asked /\ asked # 0
        BY <1>2, <2>1, <2>2, <2>3, <2>6 DEF Worked
      <3>2. rows[h].cd \in Nat
        <4>1. rows[h] \in Row
          BY <1>2, <2>1, <2>2
        <4>2. \A x \in Row : x.cd \in Nat
          BY LimbFacts DEF Row
        <4>3. QED
          BY <4>1, <4>2
      <3>3. QED
        BY <2>b, <3>1, <3>2
    <2>8. first = FirstOf(p) /\ first \in Nat /\ first <= h
      <3>1. first = FirstOf(p)
        BY <2>a, <2>d, <2>3 DEF FirstOf
      <3>2. QED
        BY <1>2, <2>3, <2>4, <3>1, FirstIs
    <2>9. PICK s \in Seq(Row) : s = Slice(p, first) /\ Len(s) = h - first /\ \A k \in 1..(h - first) : s[k] = p[first + k]
      <3>1. first <= Len(p) /\ Len(p) = h
        BY <2>3, <2>8
      <3>2. QED
        BY <2>8, <3>1, SliceIs
    <2>10. SliceColumns(s)
      BY <2>3, <2>5, <2>8, <2>9, SliceRises
    <2>11. PICK ts \in Seq(Nat), cd \in Seq(Nat) :
              /\ ts = StampsOf(s) /\ cd = WorkOf(s) /\ Len(ts) = h - first /\ Len(cd) = h - first
              /\ Rising(cd) /\ \A k \in DOMAIN cd : cd[k] < U128
      BY <2>9, <2>10 DEF SliceColumns
    <2>12. \A k \in 1..(h - first) : ts[k] = rows[first + k].ts /\ cd[k] = rows[first + k].cd
      <3>1. SUFFICES ASSUME NEW k \in 1..(h - first)
                     PROVE  ts[k] = rows[first + k].ts /\ cd[k] = rows[first + k].cd
        OBVIOUS
      <3>2. first + k \in 1..h /\ k \in DOMAIN s
        BY <2>2, <2>8, <2>9
      <3>3. s[k] = rows[first + k]
        BY <2>3, <2>9, <3>2
      <3>4. QED
        BY <2>11, <3>2, <3>3 DEF StampsOf, WorkOf
    <2>13. size \in Nat /\ cut \in Nat /\ size > 2 * cut + 1
      BY <2>c, DifficultyAssumption
    <2>14. n \in Nat /\ n <= h - first /\ n = Smaller(Len(ts), size)
      <3>1. PICK g \in Nat : g = h - first
        <4>1. h - first \in Nat
          BY <2>2, <2>8
        <4>2. QED
          BY <4>1
      <3>2. Smaller(g, size) \in Nat /\ Smaller(g, size) <= g
        BY <2>13 DEF Smaller
      <3>3. QED
        BY <2>e, <2>11, <3>1, <3>2
    <2>15. d = NextDifficultyCut(ts, cd, size, cut)
      <3>1. asked = NextDifficultyBy(version, ts, cd)
        BY <2>0, <2>a, <2>3, <2>6, <2>8, <2>9, <2>11 DEF Asked
      <3>2. QED
        BY <2>0, <2>c, <2>7, <3>1 DEF NextDifficultyBy
    <2>16. CeilingOf(d, WorkCut(cd, n, size, cut), TimeCut(SubSeq(ts, 1, n), n, size, cut))
      BY <2>0, <2>7, <2>11, <2>13, <2>14, <2>15, CutCeiling
    <2>17. PICK a \in Nat, b \in Nat : Ends(n, size, cut, a, b)
      <3>1. n >= 2
        BY <2>0, <2>14
      <3>2. QED
        BY <2>13, <2>14, <3>1, CutEnds
    <2>18. a = skip /\ b = last /\ SkipOf(n, size, cut) = skip /\ LastKept(n, size, cut) = last
      BY <2>f, <2>g, <2>17 DEF Ends, SkipOf, LastKept
    <2>19. skip + 1 \in 1..(h - first) /\ last \in 1..(h - first)
      BY <2>8, <2>14, <2>17, <2>18, SMTT(30) DEF Ends
    <2>20. WorkCut(cd, n, size, cut) = work
      <3>1. first + (skip + 1) = first + skip + 1
        BY <2>8, <2>17, <2>18
      <3>2. cd[last] = rows[first + last].cd /\ cd[skip + 1] = rows[first + skip + 1].cd
        BY <2>12, <2>19, <3>1
      <3>3. QED
        BY <2>i, <2>18, <3>2 DEF WorkCut
    <2>21. SubSeq(ts, 1, n) = stamps
      <3>1. DOMAIN stamps = 1..n /\ \A k \in 1..n : stamps[k] = ts[k]
        <4>1. \A k \in 1..n : k \in 1..(h - first)
          BY <2>2, <2>8, <2>14
        <4>2. QED
          BY <2>h, <2>12, <4>1
      <3>2. \A k \in 1..n : ts[k] \in Nat
        <4>1. \A k \in 1..n : k \in DOMAIN ts
          BY <2>2, <2>8, <2>11, <2>14
        <4>2. QED
          BY <4>1
      <3>3. stamps \in Seq(Nat) /\ Len(stamps) = n
        <4>1. stamps = [k \in 1..n |-> ts[k]]
          BY <2>h, <3>1
        <4>2. stamps \in [1..n -> Nat]
          BY <3>2, <4>1
        <4>3. stamps \in Seq(Nat)
          BY <2>14, <4>2, ListIs
        <4>4. QED
          BY <2>14, <3>1, <4>3
      <3>4. PICK c \in Seq(Nat) : c = SubSeq(ts, 1, n)
        <4>1. SubSeq(ts, 1, n) \in Seq(Nat)
          BY <2>14, <3>2
        <4>2. QED
          BY <4>1
      <3>5. Len(c) = n /\ \A k \in 1..n : c[k] = ts[k]
        <4>1. Len(SubSeq(ts, 1, n)) = n - 1 + 1
          BY <2>0, <2>11, <2>14
        <4>2. \A k \in 1..n : SubSeq(ts, 1, n)[k] = ts[1 + k - 1] /\ 1 + k - 1 = k
          BY <2>0, <2>11, <2>14
        <4>3. QED
          BY <2>14, <3>4, <4>1, <4>2
      <3>6. c = stamps
        BY <3>1, <3>3, <3>5, SameElements
      <3>7. QED
        BY <3>4, <3>6
    <2>22. TimeCut(SubSeq(ts, 1, n), n, size, cut) = time
      BY <2>j, <2>18, <2>21 DEF TimeCut
    <2>23. QED
      BY <2>16, <2>20, <2>22 DEF CeilingOf
  <1>4. QED
    BY <1>3 DEF DifficultyIsCeiling

(* The most a cut window asks for, when it asks for more than fits. *)
LEMMA CutZero ==
    ASSUME NEW ts \in Seq(Nat), NEW cd \in Seq(Nat), Len(ts) = Len(cd), Rising(cd),
           \A k \in DOMAIN cd : cd[k] < U128,
           NEW size \in Nat, NEW cut \in Nat, size > 2 * cut + 1,
           NextDifficultyCut(ts, cd, size, cut) = 0
    PROVE  \E k \in DOMAIN cd : cd[k] * Target >= U128
  <1>0. PICK l \in Nat : l = Len(ts)
    OBVIOUS
  <1>1. PICK n \in Nat : n = Smaller(Len(ts), size) /\ n <= l
    <2>1. Smaller(l, size) \in Nat /\ Smaller(l, size) <= l
      BY DEF Smaller
    <2>2. QED
      BY <1>0, <2>1
  <1>2. CutAnswer(ts, cd, n, size, cut) = 0 /\ CutSound(ts, cd, n, size, cut)
    BY <1>1, CutIs
  <1>3. n > 1
    BY <1>2 DEF CutAnswer
  <1>4. PICK work \in Nat, time \in Nat :
            /\ work = WorkCut(cd, n, size, cut) /\ work # 0
            /\ time = TimeCut(SubSeq(ts, 1, n), n, size, cut) /\ time # 0
    BY <1>2, <1>3 DEF CutSound
  <1>5. Target \in Nat /\ Target # 0
    BY TargetIs
  <1>6. PICK x \in Nat : x = work * Target /\ x # 0
    <2>1. work * Target \in Nat /\ work * Target # 0
      BY <1>4, <1>5
    <2>2. QED
      BY <2>1
  <1>7. Fits(Ceiling(x, time)) = 0
    BY <1>2, <1>3, <1>4, <1>6 DEF CutAnswer
  <1>8. PICK c : c = Ceiling(x, time)
    OBVIOUS
  <1>9. c \in Nat /\ c # 0 /\ (c - 1) * time < x
    <2>1. Ceiling(work * Target, time) \in Nat
      BY <1>4, <1>5, CeilExact
    <2>2. (Ceiling(x, time) - 1) * time < x /\ Ceiling(x, time) # 0
      BY <1>4, <1>6, CeilingBounds
    <2>3. QED
      BY <1>6, <1>8, <2>1, <2>2
  <1>10. c >= U128
    BY <1>7, <1>8, <1>9 DEF Fits
  <1>11. c <= x
    <2>1. PICK e \in Nat : e = c - 1
      <3>1. c - 1 \in Nat
        BY <1>9
      <3>2. QED
        BY <3>1
    <2>2. e * time >= e
      <3>1. PICK u \in Nat : time = u + 1
        <4>1. time - 1 \in Nat /\ time = (time - 1) + 1
          BY <1>4
        <4>2. QED
          BY <4>1
      <3>2. e * (u + 1) = e * u + e /\ e * u \in Nat
        OBVIOUS
      <3>3. QED
        BY <3>1, <3>2
    <2>3. e * time < x /\ e * time \in Nat
      BY <1>9, <2>1
    <2>4. QED
      BY <1>9, <2>1, <2>2, <2>3
  <1>12. PICK skip \in Nat, last \in Nat : Ends(n, size, cut, skip, last)
    <2>1. n >= 2
      BY <1>3
    <2>2. QED
      BY <2>1, CutEnds
  <1>13. last \in DOMAIN cd /\ skip + 1 \in DOMAIN cd
    <2>1. last \in 1..l /\ skip + 1 \in 1..l
      <3>1. skip + 1 < last /\ last <= n
        BY <1>12 DEF Ends
      <3>2. QED
        BY <1>1, <3>1
    <2>2. DOMAIN cd = 1..l
      BY <1>0
    <2>3. QED
      BY <2>1, <2>2
  <1>14. work = cd[last] - cd[skip + 1] /\ cd[last] \in Nat /\ cd[skip + 1] \in Nat
    <2>1. SkipOf(n, size, cut) = skip /\ LastKept(n, size, cut) = last
      BY <1>12 DEF Ends
    <2>2. work = cd[last] - cd[skip + 1]
      BY <1>4, <2>1 DEF WorkCut
    <2>3. \A k \in DOMAIN cd : cd[k] \in Nat
      OBVIOUS
    <2>4. QED
      BY <1>13, <2>2, <2>3
  <1>15. x <= cd[last] * Target
    <2>1. PICK y \in Nat : y = cd[last] /\ work <= y
      BY <1>14, SMTT(30)
    <2>2. work * Target <= y * Target
      BY <1>5, <2>1
    <2>3. QED
      BY <1>6, <2>1, <2>2
  <1>16. cd[last] * Target >= U128
    <2>1. U128 \in Nat /\ cd[last] * Target \in Nat
      BY <1>5, <1>14, LimbFacts, SMTT(30)
    <2>2. QED
      BY <1>9, <1>10, <1>11, <1>15, <2>1
  <1>17. QED
    BY <1>13, <1>16

(* A difficulty of zero is asked for where the source's arithmetic has to. *)
LEMMA MineableHolds == RulesInv => AlwaysMineable
  <1>0. SUFFICES ASSUME RulesInv, NextDifficulty(state, Len(rows)) = 0 PROVE AlwaysMineable
    BY DEF AlwaysMineable
  <1>2. /\ net \in Network /\ rows \in Seq(Row) /\ Len(rows) \in 1..(MaxHeight + 1) /\ Ordered(rows)
        /\ state = Reloaded(rows)
    BY <1>0 DEF RulesInv
  <1>3. rows # << >>
    BY <1>2
  <1>4. PICK h \in Nat : h = Len(rows) /\ h >= 1
    BY <1>2
  <1>5. Asked(rows) = 0
    BY <1>0, <1>2, <1>3, NextDifficultyIs
  <1>6. h \notin DOMAIN Pinned[net]
    <2>1. h \in DOMAIN Pinned[net] => Pinned[net][h] # 0
      BY <1>2, NetworkAssumption
    <2>2. QED
      BY <1>4, <1>5, <2>1 DEF Asked
  <1>7. PICK first \in Nat : first = FirstOf(rows) /\ first <= h
    BY <1>2, <1>3, <1>4, FirstIs
  <1>8. PICK s \in Seq(Row) : s = Slice(rows, first) /\ Len(s) = h - first /\ \A k \in 1..(h - first) : s[k] = rows[first + k]
    BY <1>2, <1>4, <1>7, SliceIs
  <1>9. SliceColumns(s)
    BY <1>2, <1>4, <1>7, <1>8, SliceRises
  <1>10. PICK ts \in Seq(Nat), cd \in Seq(Nat) :
            /\ ts = StampsOf(s) /\ cd = WorkOf(s) /\ Len(ts) = h - first /\ Len(cd) = h - first
            /\ Rising(cd) /\ \A k \in DOMAIN cd : cd[k] < U128
    BY <1>8, <1>9 DEF SliceColumns
  <1>11. PICK version \in Nat : version = RequiredVersion(h)
    BY <1>2, VersionIs
  <1>12. NextDifficultyBy(version, ts, cd) = 0
    BY <1>4, <1>5, <1>6, <1>7, <1>8, <1>10, <1>11 DEF Asked
  <1>13. \A k \in 1..(h - first) : k \in DOMAIN cd /\ first + k \in 1..h /\ cd[k] = rows[first + k].cd
    <2>1. SUFFICES ASSUME NEW k \in 1..(h - first)
                   PROVE  k \in DOMAIN cd /\ first + k \in 1..h /\ cd[k] = rows[first + k].cd
      OBVIOUS
    <2>2. DOMAIN cd = 1..(h - first) /\ DOMAIN s = 1..(h - first)
      BY <1>8, <1>10
    <2>3. first + k \in 1..h
      BY <1>4, <1>7
    <2>4. QED
      BY <1>8, <1>10, <2>2, <2>3 DEF WorkOf
  <1>14. CASE version \notin 11..17
    <2>1. /\ Window \in Nat /\ Cut \in Nat /\ Window > 2 * Cut + 1
          /\ WindowV3 \in Nat /\ CutV2 \in Nat /\ WindowV3 > 2 * CutV2 + 1
      BY DifficultyAssumption
    <2>2. PICK size \in Nat, cut \in Nat : size > 2 * cut + 1 /\ NextDifficultyCut(ts, cd, size, cut) = 0
      BY <1>12, <1>14, <2>1 DEF NextDifficultyBy
    <2>3. PICK k \in DOMAIN cd : cd[k] * Target >= U128
      BY <1>10, <2>2, CutZero
    <2>4. k \in 1..(h - first)
      BY <1>10
    <2>5. cd[k] = rows[first + k].cd /\ first + k \in 1..h
      BY <1>13, <2>4
    <2>6. \A j \in 1..h : rows[j].cd \in Nat
      <3>1. \A j \in 1..h : rows[j] \in Row
        BY <1>2, <1>4
      <3>2. \A x \in Row : x.cd \in Nat
        BY LimbFacts DEF Row
      <3>3. QED
        BY <3>1, <3>2
    <2>7. rows[first + k].cd <= rows[h].cd /\ rows[h].cd \in Nat
      <3>1. h \in 1..h /\ DOMAIN rows = 1..h
        BY <1>2, <1>4
      <3>2. first + k < h => rows[first + k].cd < rows[h].cd
        BY <1>2, <2>5, <3>1 DEF Ordered
      <3>3. first + k < h \/ first + k = h
        BY <1>4, <2>5
      <3>4. QED
        BY <2>5, <2>6, <3>1, <3>2, <3>3
    <2>8. PICK a \in Nat, b \in Nat : a = cd[k] /\ b = state.cd /\ a <= b
      BY <1>2, <1>3, <1>4, <2>5, <2>6, <2>7, ReloadedParts
    <2>9. a * Target <= b * Target /\ a * Target \in Nat /\ b * Target \in Nat
      <3>1. PICK g \in Nat : b = a + g
        <4>1. b - a \in Nat /\ b = a + (b - a)
          BY <2>8
        <4>2. QED
          BY <4>1
      <3>2. PICK t \in Nat : t = Target
        BY TargetIs
      <3>3. (a + g) * t = a * t + g * t /\ a * t \in Nat /\ g * t \in Nat
        OBVIOUS
      <3>4. QED
        BY <3>1, <3>2, <3>3
    <2>10. state.cd * Target >= U128
      BY <2>3, <2>8, <2>9, LimbFacts
    <2>11. QED
      BY <2>10 DEF AlwaysMineable
  <1>15. CASE version \in 11..17
    <2>1. NextDifficultyV5(ts, cd) = 0
      BY <1>12, <1>15 DEF NextDifficultyBy
    <2>2. PICK n \in Nat : n = WindowV3 /\ n >= 2
      BY TargetIs
    <2>3. ~ (Len(ts) < n + 1) /\ (cd[n + 1] - cd[1]) \div n < 7
      BY <1>10, <2>1, <2>2, V5Positive
    <2>4. h - first >= n + 1
      BY <1>4, <1>7, <1>10, <2>3
    <2>5. first = Larger(h - (n + 1), 1)
      <3>1. BlocksCount(version) = n + 1
        BY <1>15, <2>2 DEF BlocksCount
      <3>2. QED
        BY <1>4, <1>7, <1>11, <3>1 DEF FirstOf
    <2>6. first = h - (n + 1) /\ h > n + 1
      <3>1. PICK e \in Int : e = h - (n + 1)
        OBVIOUS
      <3>2. first = 1 \/ first = e
        BY <2>5, <3>1 DEF Larger
      <3>3. first = 1 => e >= 1
        BY <2>4, <3>1
      <3>4. first = e
        BY <2>5, <3>1, <3>2, <3>3 DEF Larger
      <3>5. first >= 1
        BY <1>7, <3>1, <2>5 DEF Larger
      <3>6. QED
        BY <3>1, <3>4, <3>5
    <2>7. /\ 1 \in 1..(h - first) /\ n + 1 \in 1..(h - first)
          /\ first + 1 = h - n /\ first + (n + 1) = h
      BY <1>4, <2>2, <2>6
    <2>8. cd[1] = rows[h - n].cd /\ cd[n + 1] = rows[h].cd
      BY <1>13, <2>7
    <2>9. (rows[h].cd - rows[h - n].cd) \div n < 7
      BY <2>3, <2>8
    <2>10. QED
      BY <1>4, <1>11, <1>15, <2>2, <2>6, <2>9 DEF AlwaysMineable
  <1>16. QED
    BY <1>14, <1>15

-----------------------------------------------------------------------------
(* Fees: what round_money_up makes of a number, read digit by digit. *)

(* f[k]: the number the first k digits of d make; and f[k]: ten to the k. *)
Reading(d, f, m) ==
    f = [k \in 0..m |-> IF k = 0 THEN 0 ELSE 10 * f[k - 1] + d[k]]

LEMMA ReadingExists ==
    ASSUME NEW d, NEW m \in Nat
    PROVE  \E f : Reading(d, f, m)
  <1> DEFINE T == {n \in Nat : ~ \E f : Reading(d, f, n)}
  <1>1. SUFFICES ASSUME T # {} PROVE FALSE
    OBVIOUS
  <1>2. PICK n \in T : \A k \in T : n <= k
    <2>1. T \in SUBSET Nat
      OBVIOUS
    <2> HIDE DEF T
    <2>2. QED
      BY <1>1, <2>1, LeastNumber
  <1>3. n # 0
    <2>1. SUFFICES ASSUME n = 0 PROVE FALSE
      OBVIOUS
    <2>2. PICK f : f = [k \in {0} |-> 0]
      OBVIOUS
    <2>3. 0..0 = {0}
      OBVIOUS
    <2>4. f = [k \in {0} |-> IF k = 0 THEN 0 ELSE 10 * f[k - 1] + d[k]]
      BY <2>2
    <2>5. Reading(d, f, 0)
      BY <2>3, <2>4 DEF Reading
    <2>6. QED
      BY <1>2, <2>1, <2>5
  <1>4. n - 1 \in Nat /\ n - 1 \notin T
    BY <1>2, <1>3
  <1>5. PICK f : Reading(d, f, n - 1)
    BY <1>4
  <1>6. PICK g : g = [k \in 0..n |-> IF k < n THEN f[k] ELSE 10 * f[n - 1] + d[n]]
    OBVIOUS
  <1>7. \A k \in 0..n : g[k] = IF k = 0 THEN 0 ELSE 10 * g[k - 1] + d[k]
    <2>1. SUFFICES ASSUME NEW k \in 0..n
                   PROVE  g[k] = IF k = 0 THEN 0 ELSE 10 * g[k - 1] + d[k]
      OBVIOUS
    <2>2. \A j \in 0..(n - 1) : g[j] = f[j]
      BY <1>2, <1>6
    <2>3. CASE k < n
      <3>1. k \in 0..(n - 1) /\ (k # 0 => k - 1 \in 0..(n - 1))
        BY <1>2, <2>3
      <3>2. f[k] = IF k = 0 THEN 0 ELSE 10 * f[k - 1] + d[k]
        BY <1>5, <3>1 DEF Reading
      <3>3. QED
        BY <2>2, <3>1, <3>2
    <2>4. CASE k = n
      <3>1. g[k] = 10 * f[n - 1] + d[n]
        BY <1>2, <1>6, <2>4
      <3>2. g[n - 1] = f[n - 1]
        BY <1>2, <1>3, <2>2
      <3>3. QED
        BY <1>3, <2>4, <3>1, <3>2
    <2>5. QED
      BY <1>2, <2>3, <2>4
  <1>8. Reading(d, g, n)
    <2>1. g = [k \in 0..n |-> g[k]]
      BY <1>6
    <2>2. [k \in 0..n |-> g[k]] = [k \in 0..n |-> IF k = 0 THEN 0 ELSE 10 * g[k - 1] + d[k]]
      BY <1>7
    <2>3. QED
      BY <2>1, <2>2 DEF Reading
  <1>9. QED
    BY <1>2, <1>8

Tens(f, m) ==
    f = [k \in 0..m |-> IF k = 0 THEN 1 ELSE 10 * f[k - 1]]

LEMMA TensExist ==
    ASSUME NEW m \in Nat
    PROVE  \E f : Tens(f, m)
  <1> DEFINE T == {n \in Nat : ~ \E f : Tens(f, n)}
  <1>1. SUFFICES ASSUME T # {} PROVE FALSE
    OBVIOUS
  <1>2. PICK n \in T : \A k \in T : n <= k
    <2>1. T \in SUBSET Nat
      OBVIOUS
    <2> HIDE DEF T
    <2>2. QED
      BY <1>1, <2>1, LeastNumber
  <1>3. n # 0
    <2>1. SUFFICES ASSUME n = 0 PROVE FALSE
      OBVIOUS
    <2>2. PICK f : f = [k \in {0} |-> 1]
      OBVIOUS
    <2>3. 0..0 = {0}
      OBVIOUS
    <2>4. f = [k \in {0} |-> IF k = 0 THEN 1 ELSE 10 * f[k - 1]]
      BY <2>2
    <2>5. Tens(f, 0)
      BY <2>3, <2>4 DEF Tens
    <2>6. QED
      BY <1>2, <2>1, <2>5
  <1>4. n - 1 \in Nat /\ n - 1 \notin T
    BY <1>2, <1>3
  <1>5. PICK f : Tens(f, n - 1)
    BY <1>4
  <1>6. PICK g : g = [k \in 0..n |-> IF k < n THEN f[k] ELSE 10 * f[n - 1]]
    OBVIOUS
  <1>7. \A k \in 0..n : g[k] = IF k = 0 THEN 1 ELSE 10 * g[k - 1]
    <2>1. SUFFICES ASSUME NEW k \in 0..n
                   PROVE  g[k] = IF k = 0 THEN 1 ELSE 10 * g[k - 1]
      OBVIOUS
    <2>2. \A j \in 0..(n - 1) : g[j] = f[j]
      BY <1>2, <1>6
    <2>3. CASE k < n
      <3>1. k \in 0..(n - 1) /\ (k # 0 => k - 1 \in 0..(n - 1))
        BY <1>2, <2>3
      <3>2. f[k] = IF k = 0 THEN 1 ELSE 10 * f[k - 1]
        BY <1>5, <3>1 DEF Tens
      <3>3. QED
        BY <2>2, <3>1, <3>2
    <2>4. CASE k = n
      <3>1. g[k] = 10 * f[n - 1]
        BY <1>2, <1>6, <2>4
      <3>2. g[n - 1] = f[n - 1]
        BY <1>2, <1>3, <2>2
      <3>3. QED
        BY <1>3, <2>4, <3>1, <3>2
    <2>5. QED
      BY <1>2, <2>3, <2>4
  <1>8. Tens(g, n)
    <2>1. g = [k \in 0..n |-> g[k]]
      BY <1>6
    <2>2. [k \in 0..n |-> g[k]] = [k \in 0..n |-> IF k = 0 THEN 1 ELSE 10 * g[k - 1]]
      BY <1>7
    <2>3. QED
      BY <2>1, <2>2 DEF Tens
  <1>9. QED
    BY <1>2, <1>8

(* Inductions: what holds at j and is passed on, and what holds wherever it
   holds below. *)
LEMMA UpFrom ==
    ASSUME NEW j \in Nat, NEW n \in Nat, NEW S, j \in S, \A k \in j..(n - 1) : k \in S => k + 1 \in S
    PROVE  \A k \in j..n : k \in S
  <1> DEFINE T == {k \in j..n : k \notin S}
  <1>1. SUFFICES ASSUME T # {} PROVE FALSE
    OBVIOUS
  <1>2. PICK k \in T : \A i \in T : k <= i
    <2>1. T \in SUBSET Nat
      OBVIOUS
    <2> HIDE DEF T
    <2>2. QED
      BY <1>1, <2>1, LeastNumber
  <1>3. k # j /\ k - 1 \in j..(n - 1) /\ k - 1 \in j..n /\ (k - 1) + 1 = k
    BY <1>2
  <1>4. k - 1 \notin T
    BY <1>2
  <1>5. k - 1 \in S
    BY <1>3, <1>4
  <1>6. (k - 1) + 1 \in S
    BY <1>3, <1>5
  <1>7. QED
    BY <1>2, <1>3, <1>6

LEMMA FromBelow ==
    ASSUME NEW n \in Nat, NEW S, \A k \in 0..n : (\A i \in 0..(k - 1) : i \in S) => k \in S
    PROVE  \A k \in 0..n : k \in S
  <1> DEFINE T == {k \in 0..n : k \notin S}
  <1>1. SUFFICES ASSUME T # {} PROVE FALSE
    OBVIOUS
  <1>2. PICK k \in T : \A i \in T : k <= i
    <2>1. T \in SUBSET Nat
      OBVIOUS
    <2> HIDE DEF T
    <2>2. QED
      BY <1>1, <2>1, LeastNumber
  <1>3. k \in 0..n /\ k \notin S
    BY <1>2
  <1>4. \A i \in 0..(k - 1) : i \in 0..n /\ ~ (k <= i)
    BY <1>3
  <1>5. \A i \in 0..(k - 1) : i \in S
    BY <1>2, <1>4
  <1>6. QED
    BY <1>3, <1>5

(* The digits read so far, and the powers of ten. *)
Numbers(d, m) == \A k \in 1..m : d[k] \in Nat
Same(d, e, i, j) == \A k \in i..j : d[k] = e[k]
Zeros(d, i, j) == \A k \in i..j : d[k] = 0

LEMMA ReadingSteps ==
    ASSUME NEW m \in Nat, NEW d, Numbers(d, m), NEW f, Reading(d, f, m)
    PROVE  /\ f[0] = 0
           /\ \A k \in 0..(m - 1) : f[k + 1] = 10 * f[k] + d[k + 1]
           /\ \A k \in 0..m : f[k] \in Nat
  <1>1. f[0] = 0
    BY DEF Reading
  <1>2. \A k \in 0..(m - 1) : f[k + 1] = 10 * f[k] + d[k + 1]
    <2>1. SUFFICES ASSUME NEW k \in 0..(m - 1) PROVE f[k + 1] = 10 * f[k] + d[k + 1]
      OBVIOUS
    <2>2. k + 1 \in 0..m /\ k + 1 # 0 /\ (k + 1) - 1 = k
      OBVIOUS
    <2>3. QED
      BY <2>2 DEF Reading
  <1>3. PICK S : S = {k \in Nat : f[k] \in Nat}
    OBVIOUS
  <1>4. 0 \in S
    BY <1>1, <1>3
  <1>5. \A k \in 0..(m - 1) : k \in S => k + 1 \in S
    <2>1. \A k \in 0..(m - 1) : k + 1 \in 1..m /\ k + 1 \in Nat
      OBVIOUS
    <2>2. \A k \in 0..(m - 1) : f[k] \in Nat => f[k + 1] \in Nat
      BY <1>2, <2>1 DEF Numbers
    <2>3. QED
      BY <1>3, <2>1, <2>2
  <1>6. \A k \in 0..m : k \in S
    BY <1>4, <1>5, UpFrom
  <1>7. QED
    BY <1>1, <1>2, <1>3, <1>6

LEMMA TensSteps ==
    ASSUME NEW m \in Nat, NEW t, Tens(t, m)
    PROVE  /\ t[0] = 1
           /\ \A k \in 0..(m - 1) : t[k + 1] = 10 * t[k]
           /\ \A k \in 0..m : t[k] \in Nat /\ t[k] # 0
  <1>1. t[0] = 1
    BY DEF Tens
  <1>2. \A k \in 0..(m - 1) : t[k + 1] = 10 * t[k]
    <2>1. SUFFICES ASSUME NEW k \in 0..(m - 1) PROVE t[k + 1] = 10 * t[k]
      OBVIOUS
    <2>2. k + 1 \in 0..m /\ k + 1 # 0 /\ (k + 1) - 1 = k
      OBVIOUS
    <2>3. QED
      BY <2>2 DEF Tens
  <1>3. PICK S : S = {k \in Nat : t[k] \in Nat /\ t[k] # 0}
    OBVIOUS
  <1>4. 0 \in S
    BY <1>1, <1>3
  <1>5. \A k \in 0..(m - 1) : k \in S => k + 1 \in S
    BY <1>2, <1>3
  <1>6. \A k \in 0..m : k \in S
    BY <1>4, <1>5, UpFrom
  <1>7. QED
    BY <1>1, <1>2, <1>3, <1>6

LEMMA TensGrow ==
    ASSUME NEW m \in Nat, NEW t, Tens(t, m), NEW i \in 0..m, NEW j \in 0..m, i <= j
    PROVE  t[i] <= t[j]
  <1>1. PICK S : S = {k \in Nat : t[k] \in Nat /\ t[i] <= t[k]}
    OBVIOUS
  <1>2. i \in S
    BY <1>1, TensSteps
  <1>3. \A k \in i..(m - 1) : k \in S => k + 1 \in S
    <2>1. SUFFICES ASSUME NEW k \in i..(m - 1), k \in S PROVE k + 1 \in S
      OBVIOUS
    <2>2. k \in 0..(m - 1) /\ k + 1 \in Nat
      OBVIOUS
    <2>3. t[k + 1] = 10 * t[k]
      BY <2>2, TensSteps
    <2>4. t[i] \in Nat /\ t[k] \in Nat /\ t[i] <= t[k]
      BY <1>1, <2>1, TensSteps
    <2>5. t[k + 1] \in Nat /\ t[i] <= t[k + 1]
      BY <2>3, <2>4
    <2>6. QED
      BY <1>1, <2>2, <2>5
  <1>4. \A k \in i..m : k \in S
    BY <1>2, <1>3, UpFrom
  <1>5. QED
    BY <1>1, <1>4

LEMMA NumberIs ==
    ASSUME NEW d \in Seq(Nat), NEW m, m = Len(d)
    PROVE  \E f : Reading(d, f, m) /\ NumberOf(d) = f[m]
  <1>1. m \in Nat
    OBVIOUS
  <1>2. PICK f : f = CHOOSE g : Reading(d, g, m)
    OBVIOUS
  <1>3. Reading(d, f, m)
    BY <1>1, <1>2, ReadingExists
  <1>4. NumberOf(d) = f[m]
    BY <1>2 DEF NumberOf, Reading
  <1>5. QED
    BY <1>3, <1>4

(* Where digits agree, so does what has been read. *)
LEMMA ReadingAgrees ==
    ASSUME NEW m \in Nat, NEW d, Numbers(d, m), NEW f, Reading(d, f, m),
           NEW l \in Nat, NEW e, Numbers(e, l), NEW g, Reading(e, g, l),
           NEW j \in Nat, j <= m, j <= l, Same(d, e, 1, j)
    PROVE  Same(f, g, 0, j)
  <1>1. f[0] = 0 /\ \A k \in 0..(m - 1) : f[k + 1] = 10 * f[k] + d[k + 1]
    BY ReadingSteps
  <1>2. g[0] = 0 /\ \A k \in 0..(l - 1) : g[k + 1] = 10 * g[k] + e[k + 1]
    BY ReadingSteps
  <1>3. PICK S : S = {k \in Nat : f[k] = g[k]}
    OBVIOUS
  <1>4. 0 \in S
    BY <1>1, <1>2, <1>3
  <1>5. \A k \in 0..(j - 1) : k \in S => k + 1 \in S
    <2>1. SUFFICES ASSUME NEW k \in 0..(j - 1), f[k] = g[k] PROVE f[k + 1] = g[k + 1]
      BY <1>3
    <2>2. k \in 0..(m - 1) /\ k \in 0..(l - 1) /\ k + 1 \in 1..j
      OBVIOUS
    <2>3. d[k + 1] = e[k + 1]
      BY <2>2 DEF Same
    <2>4. QED
      BY <1>1, <1>2, <2>1, <2>2, <2>3
  <1>6. \A k \in 0..j : k \in S
    <2>1. 0 \in Nat
      OBVIOUS
    <2>2. QED
      BY <1>4, <1>5, <2>1, UpFrom
  <1>7. QED
    BY <1>3, <1>6 DEF Same

(* Zeros read after the first j digits multiply by a power of ten. *)
LEMMA ZerosRead ==
    ASSUME NEW m \in Nat, NEW d, Numbers(d, m), NEW f, Reading(d, f, m),
           NEW j \in 0..m, Zeros(d, j + 1, m),
           NEW n \in Nat, NEW t, Tens(t, n), m - j <= n
    PROVE  f[m] = f[j] * t[m - j]
  <1>1. /\ \A k \in 0..(m - 1) : f[k + 1] = 10 * f[k] + d[k + 1]
        /\ \A k \in 0..m : f[k] \in Nat
    BY ReadingSteps
  <1>2. t[0] = 1 /\ (\A k \in 0..(n - 1) : t[k + 1] = 10 * t[k]) /\ \A k \in 0..n : t[k] \in Nat
    BY TensSteps
  <1>3. PICK S : S = {i \in Nat : f[j + i] = f[j] * t[i]}
    OBVIOUS
  <1>4. 0 \in S
    BY <1>1, <1>2, <1>3
  <1>5. \A i \in 0..((m - j) - 1) : i \in S => i + 1 \in S
    <2>1. SUFFICES ASSUME NEW i \in 0..((m - j) - 1), f[j + i] = f[j] * t[i]
                   PROVE  f[j + (i + 1)] = f[j] * t[i + 1]
      BY <1>3
    <2>2. j + i \in 0..(m - 1) /\ (j + i) + 1 = j + (i + 1) /\ j + (i + 1) \in (j + 1)..m /\ i \in 0..(n - 1) /\ i \in 0..n
      OBVIOUS
    <2>3. f[j + (i + 1)] = 10 * f[j + i] + d[j + (i + 1)] /\ d[j + (i + 1)] = 0
      BY <1>1, <2>2 DEF Zeros
    <2>4. t[i + 1] = 10 * t[i] /\ t[i] \in Nat /\ f[j] \in Nat
      BY <1>1, <1>2, <2>2
    <2>5. PICK a \in Nat, p \in Nat : a = f[j] /\ p = t[i]
      BY <2>4
    <2>6. 10 * (a * p) + 0 = a * (10 * p)
      OBVIOUS
    <2>7. QED
      BY <2>1, <2>3, <2>4, <2>5, <2>6
  <1>6. m - j \in Nat /\ m - j \in 0..(m - j) /\ j + (m - j) = m
    OBVIOUS
  <1>7. \A i \in 0..(m - j) : i \in S
    <2>1. PICK q \in Nat : q = m - j
      BY <1>6
    <2>2. 0 \in Nat /\ \A i \in 0..(q - 1) : i \in S => i + 1 \in S
      BY <1>5, <2>1
    <2>3. QED
      BY <1>4, <2>1, <2>2, UpFrom
  <1>8. QED
    BY <1>3, <1>6, <1>7

(* Other digits read after them add less than that power, and nothing only if
   they are zeros. *)
Rest(d, j, i, r) == r = 0 <=> \A k \in (j + 1)..(j + i) : d[k] = 0

LEMMA DigitsRead ==
    ASSUME NEW m \in Nat, NEW d, \A k \in 1..m : d[k] \in 0..9, NEW f, Reading(d, f, m),
           NEW j \in 0..m, NEW n \in Nat, NEW t, Tens(t, n), m - j <= n
    PROVE  \E r \in Nat : r < t[m - j] /\ f[m] = f[j] * t[m - j] + r /\ Rest(d, j, m - j, r)
  <1>1. /\ \A k \in 0..(m - 1) : f[k + 1] = 10 * f[k] + d[k + 1]
        /\ \A k \in 0..m : f[k] \in Nat
    <2>1. Numbers(d, m)
      BY DEF Numbers
    <2>2. QED
      BY <2>1, ReadingSteps
  <1>2. t[0] = 1 /\ (\A k \in 0..(n - 1) : t[k + 1] = 10 * t[k]) /\ \A k \in 0..n : t[k] \in Nat
    BY TensSteps
  <1> DEFINE Splits(i) == \E r \in Nat : r < t[i] /\ f[j + i] = f[j] * t[i] + r /\ Rest(d, j, i, r)
  <1>3. PICK S : S = {i \in Nat : Splits(i)}
    OBVIOUS
  <1>4. 0 \in S
    <2>1. Rest(d, j, 0, 0)
      BY DEF Rest
    <2>2. j + 0 = j /\ f[j] = f[j] * 1 + 0
      BY <1>1
    <2>3. Splits(0)
      BY <1>2, <2>1, <2>2
    <2>4. QED
      BY <1>3, <2>3
  <1>5. \A i \in 0..((m - j) - 1) : i \in S => i + 1 \in S
    <2>1. SUFFICES ASSUME NEW i \in 0..((m - j) - 1), Splits(i) PROVE Splits(i + 1)
      BY <1>3
    <2>2. j + i \in 0..(m - 1) /\ (j + i) + 1 = j + (i + 1) /\ j + (i + 1) \in 1..m /\ i \in 0..(n - 1) /\ i \in 0..n
      OBVIOUS
    <2>3. PICK r \in Nat : r < t[i] /\ f[j + i] = f[j] * t[i] + r /\ Rest(d, j, i, r)
      BY <2>1
    <2>4. PICK c \in 0..9 : c = d[j + (i + 1)]
      BY <2>2
    <2>5. f[j + (i + 1)] = 10 * f[j + i] + c
      BY <1>1, <2>2, <2>4
    <2>6. t[i + 1] = 10 * t[i] /\ t[i] \in Nat /\ f[j] \in Nat
      BY <1>1, <1>2, <2>2
    <2>7. PICK a \in Nat, p \in Nat : a = f[j] /\ p = t[i]
      BY <2>6
    <2>8. PICK s \in Nat : s = 10 * r + c
      OBVIOUS
    <2>9. s < t[i + 1]
      BY <2>3, <2>6, <2>7, <2>8
    <2>10. f[j + (i + 1)] = f[j] * t[i + 1] + s
      <3>1. 10 * (a * p + r) + c = a * (10 * p) + (10 * r + c)
        OBVIOUS
      <3>2. QED
        BY <2>3, <2>5, <2>6, <2>7, <2>8, <3>1
    <2>11. Rest(d, j, i + 1, s)
      <3>1. s = 0 <=> r = 0 /\ c = 0
        BY <2>8
      <3>2. \A k \in (j + 1)..(j + (i + 1)) : k \in (j + 1)..(j + i) \/ k = j + (i + 1)
        OBVIOUS
      <3>3. \A k \in (j + 1)..(j + i) : k \in (j + 1)..(j + (i + 1))
        OBVIOUS
      <3>4. j + (i + 1) \in (j + 1)..(j + (i + 1))
        OBVIOUS
      <3>5. QED
        BY <2>3, <2>4, <3>1, <3>2, <3>3, <3>4 DEF Rest
    <2>12. QED
      BY <2>9, <2>10, <2>11
  <1>6. m - j \in Nat /\ m - j \in 0..(m - j) /\ j + (m - j) = m
    OBVIOUS
  <1>7. \A i \in 0..(m - j) : i \in S
    <2>1. PICK q \in Nat : q = m - j
      BY <1>6
    <2>2. 0 \in Nat /\ \A i \in 0..(q - 1) : i \in S => i + 1 \in S
      <3> HIDE DEF Splits
      <3>1. QED
        BY <1>5, <2>1
    <2>3. QED
      BY <1>4, <2>1, <2>2, UpFrom
  <1>8. Splits(m - j)
    BY <1>3, <1>6, <1>7
  <1>9. QED
    BY <1>6, <1>8


(* The digits of a number: what is read from them is the number. *)
Digiting(f, m) ==
    f = [k \in 0..m |-> IF k < 10 THEN <<k>> ELSE Append(f[k \div 10], k % 10)]

LEMMA DigitingExists ==
    ASSUME NEW m \in Nat
    PROVE  \E f : Digiting(f, m)
  <1> DEFINE T == {n \in Nat : ~ \E f : Digiting(f, n)}
             Step(f, k) == IF k < 10 THEN <<k>> ELSE Append(f[k \div 10], k % 10)
  <1>1. SUFFICES ASSUME T # {} PROVE FALSE
    OBVIOUS
  <1>2. PICK n \in T : \A k \in T : n <= k
    <2>1. T \in SUBSET Nat
      OBVIOUS
    <2> HIDE DEF T
    <2>2. QED
      BY <1>1, <2>1, LeastNumber
  <1>3. n # 0
    <2>1. SUFFICES ASSUME n = 0 PROVE FALSE
      OBVIOUS
    <2>2. PICK f : f = [k \in {0} |-> <<k>>]
      OBVIOUS
    <2>3. 0..0 = {0}
      OBVIOUS
    <2>4. \A k \in {0} : Step(f, k) = <<k>>
      OBVIOUS
    <2>5. f = [k \in {0} |-> Step(f, k)]
      <3> HIDE DEF Step
      <3>1. QED
        BY <2>2, <2>4
    <2>6. Digiting(f, 0)
      BY <2>3, <2>5 DEF Digiting
    <2>7. QED
      BY <1>2, <2>1, <2>6
  <1>4. n - 1 \in Nat /\ n - 1 \notin T
    BY <1>2, <1>3
  <1>5. PICK f : Digiting(f, n - 1)
    BY <1>4
  <1>6. PICK g : g = [k \in 0..n |-> IF k < n THEN f[k] ELSE Step(f, n)]
    OBVIOUS
  <1>7. \A k \in 0..n : k >= 10 => k \div 10 \in 0..(n - 1)
    BY <1>2
  <1>8. \A j \in 0..(n - 1) : g[j] = f[j]
    <2> HIDE DEF Step
    <2>1. QED
      BY <1>2, <1>6
  <1>9. \A k \in 0..n : Step(g, k) = Step(f, k)
    <2>1. SUFFICES ASSUME NEW k \in 0..n PROVE Step(g, k) = Step(f, k)
      OBVIOUS
    <2>2. k < 10 \/ k >= 10
      BY <1>2
    <2>3. CASE k < 10
      BY <2>3
    <2>4. CASE k >= 10
      <3>1. g[k \div 10] = f[k \div 10]
        BY <1>7, <1>8, <2>4
      <3>2. QED
        BY <3>1
    <2>5. QED
      BY <2>2, <2>3, <2>4
  <1>10. \A k \in 0..n : g[k] = Step(g, k)
    <2>1. SUFFICES ASSUME NEW k \in 0..n PROVE g[k] = Step(f, k)
      BY <1>9
    <2>2. CASE k < n
      <3>1. k \in 0..(n - 1)
        BY <1>2, <2>2
      <3>2. f[k] = Step(f, k)
        BY <1>5, <3>1 DEF Digiting
      <3>3. QED
        BY <1>8, <3>1, <3>2
    <2>3. CASE k = n
      <3> HIDE DEF Step
      <3>1. QED
        BY <1>2, <1>6, <2>3
    <2>4. QED
      BY <1>2, <2>2, <2>3
  <1>11. Digiting(g, n)
    <2> SUFFICES g = [k \in 0..n |-> Step(g, k)]
      BY DEF Digiting
    <2> HIDE DEF Step
    <2>1. g = [k \in 0..n |-> g[k]]
      BY <1>6
    <2>2. [k \in 0..n |-> g[k]] = [k \in 0..n |-> Step(g, k)]
      BY <1>10
    <2>3. QED
      BY <2>1, <2>2
  <1>12. QED
    BY <1>2, <1>11

(* d has l digits, f reads x from them, and no zero leads. *)
Spells(d, l, f, x) ==
    /\ l \in Nat \ {0} /\ d \in Seq(0..9) /\ Len(d) = l
    /\ Reading(d, f, l) /\ f[l] = x
    /\ (x # 0 \/ l > 1) => d[1] # 0

LEMMA OneDigit ==
    ASSUME NEW k \in 0..9
    PROVE  \E f : Spells(<<k>>, 1, f, k)
  <1>1. PICK d : d = <<k>>
    OBVIOUS
  <1>2. d \in Seq(0..9) /\ Len(d) = 1 /\ d[1] = k
    BY <1>1
  <1>3. PICK f : Reading(d, f, 1)
    BY ReadingExists
  <1>4. Numbers(d, 1)
    BY <1>2 DEF Numbers
  <1>5. f[0] = 0 /\ f[0 + 1] = 10 * f[0] + d[0 + 1]
    BY <1>3, <1>4, ReadingSteps
  <1>6. f[1] = k
    BY <1>2, <1>5
  <1>7. Spells(d, 1, f, k)
    BY <1>2, <1>3, <1>6 DEF Spells
  <1>8. QED
    BY <1>1, <1>7

LEMMA DigitAppended ==
    ASSUME NEW s, NEW l, NEW f, NEW x \in Nat \ {0}, Spells(s, l, f, x), NEW e \in 0..9,
           NEW d, d = Append(s, e), NEW y, y = 10 * x + e
    PROVE  \E g : Spells(d, l + 1, g, y)
  <1>1. /\ l \in Nat \ {0} /\ s \in Seq(0..9) /\ Len(s) = l
        /\ Reading(s, f, l) /\ f[l] = x /\ s[1] # 0
    BY DEF Spells
  <1>2. d \in Seq(0..9) /\ Len(d) = l + 1 /\ (\A k \in 1..l : d[k] = s[k]) /\ d[l + 1] = e
    BY <1>1
  <1>3. l + 1 \in Nat \ {0}
    BY <1>1
  <1>4. PICK g : Reading(d, g, l + 1)
    BY <1>3, ReadingExists
  <1>5. (\A k \in 1..(l + 1) : d[k] \in Nat) /\ \A k \in 1..l : s[k] \in Nat
    <2>1. \A k \in 1..(l + 1) : d[k] \in 0..9
      BY ONLY <1>2
    <2>2. \A k \in 1..l : s[k] \in 0..9
      BY ONLY <1>1
    <2>3. QED
      BY ONLY <2>1, <2>2
  <1>6. \A k \in 0..l : g[k] = f[k]
    <2>1. PICK m \in Nat : m = l + 1
      BY <1>3
    <2>2. /\ l \in Nat /\ l <= l /\ l <= m /\ Numbers(d, m) /\ Numbers(s, l)
          /\ Reading(d, g, m) /\ Reading(s, f, l) /\ Same(d, s, 1, l)
      BY <1>1, <1>2, <1>4, <1>5, <2>1 DEF Numbers, Same
    <2>3. Same(g, f, 0, l)
      BY <2>1, <2>2, ReadingAgrees
    <2>4. QED
      BY <2>3 DEF Same
  <1>7. g[l + 1] = 10 * g[l] + d[l + 1]
    <2>1. PICK m \in Nat : m = l + 1
      BY <1>3
    <2>2. \A k \in 0..(m - 1) : g[k + 1] = 10 * g[k] + d[k + 1]
      <3>1. m \in Nat /\ Numbers(d, m) /\ Reading(d, g, m)
        BY <1>4, <1>5, <2>1 DEF Numbers
      <3>2. QED
        BY ONLY <3>1, ReadingSteps
    <2>3. l \in 0..(m - 1)
      BY <1>1, <2>1
    <2>4. QED
      BY <2>2, <2>3
  <1>8. g[l] = x
    BY <1>1, <1>6
  <1>9. g[l + 1] = y
    BY <1>2, <1>7, <1>8
  <1>10. d[1] # 0
    BY <1>1, <1>2
  <1>11. Spells(d, l + 1, g, y)
    BY <1>2, <1>3, <1>4, <1>9, <1>10 DEF Spells
  <1>12. QED
    BY <1>11

LEMMA DigitsSpell ==
    ASSUME NEW x \in Nat
    PROVE  \E l, f : Spells(DigitsOf(x), l, f, x)
  <1>1. PICK h : h = CHOOSE g : Digiting(g, x)
    OBVIOUS
  <1>2. Digiting(h, x)
    BY <1>1, DigitingExists
  <1>3. DigitsOf(x) = h[x]
    BY <1>1 DEF DigitsOf, Digiting
  <1> DEFINE Fine(k) == \E l, f : Spells(h[k], l, f, k)
  <1>4. PICK S : S = {k \in Nat : Fine(k)}
    OBVIOUS
  <1>5. \A k \in 0..x : (\A i \in 0..(k - 1) : i \in S) => k \in S
    <2>1. SUFFICES ASSUME NEW k \in 0..x, \A i \in 0..(k - 1) : i \in S PROVE Fine(k)
      BY <1>4
    <2>2. CASE k < 10
      <3>1. h[k] = <<k>>
        BY <1>2, <2>2 DEF Digiting
      <3>2. PICK f : Spells(<<k>>, 1, f, k)
        BY <2>2, OneDigit
      <3>3. QED
        BY <3>1, <3>2
    <2>3. CASE k >= 10
      <3>1. PICK q \in Nat, e \in 0..9 : q = k \div 10 /\ e = k % 10
        BY <2>3
      <3>2. k = 10 * q + e /\ q # 0 /\ q \in 0..(k - 1)
        BY <2>3, <3>1
      <3>3. h[k] = Append(h[q], e)
        <4>1. ~ (k < 10)
          BY <2>3
        <4>2. QED
          BY <1>2, <3>1, <4>1 DEF Digiting
      <3>4. Fine(q)
        <4> HIDE DEF Fine
        <4>1. QED
          BY <1>4, <2>1, <3>2
      <3>5. PICK l, f : Spells(h[q], l, f, q)
        BY <3>4
      <3>6. PICK g : Spells(h[k], l + 1, g, k)
        BY <3>2, <3>3, <3>5, DigitAppended
      <3>7. QED
        BY <3>6
    <2>4. QED
      BY <2>2, <2>3
  <1>6. \A k \in 0..x : k \in S
    <2> HIDE DEF Fine
    <2>1. QED
      BY <1>5, FromBelow
  <1>7. Fine(x)
    <2> HIDE DEF Fine
    <2>1. QED
      BY <1>4, <1>6
  <1>8. QED
    BY <1>3, <1>7

LEMMA NumberReads ==
    ASSUME NEW d \in Seq(Nat), NEW m, m = Len(d), NEW f, Reading(d, f, m)
    PROVE  NumberOf(d) = f[m]
  <1>1. m \in Nat /\ \A k \in 1..m : d[k] \in Nat
    OBVIOUS
  <1>2. PICK g : Reading(d, g, m) /\ NumberOf(d) = g[m]
    BY NumberIs
  <1>3. \A k \in 0..m : f[k] = g[k]
    <2>1. m \in Nat /\ m <= m /\ Numbers(d, m) /\ Same(d, d, 1, m)
      BY <1>1 DEF Numbers, Same
    <2>2. Same(f, g, 0, m)
      BY <1>2, <2>1, ReadingAgrees
    <2>3. QED
      BY <2>2 DEF Same
  <1>4. m \in 0..m
    BY <1>1
  <1>5. QED
    BY <1>2, <1>3, <1>4

(* A bump: what is read up to the last kept digit is one more than it was,
   and the digits past it are zeros. *)
Nines(d, i, j) == \A k \in i..j : d[k] = 9

Bumped(b, d, l, last, P) ==
    /\ b \in Seq(Nat) /\ Len(b) = l /\ Same(b, d, 1, last - 1) /\ b[last] = d[last] + 1
    /\ Zeros(b, last + 1, l) /\ Nines(d, last + 1, P)

LEMMA BumpedInside ==
    ASSUME NEW x, NEW d, NEW l, NEW f, Spells(d, l, f, x), NEW P \in Nat, P < l,
           NEW last \in 1..P, NEW b, Bumped(b, d, l, last, P),
           NEW n \in Nat, NEW t, Tens(t, n), l <= n
    PROVE  NumberOf(b) = (f[P] + 1) * t[l - P]
  <1> b \in Seq(Nat) /\ Len(b) = l /\ Same(b, d, 1, last - 1) /\ b[last] = d[last] + 1
    BY DEF Bumped
  <1> Zeros(b, last + 1, l) /\ Nines(d, last + 1, P)
    BY DEF Bumped
  <1>1. l \in Nat /\ l # 0 /\ Reading(d, f, l) /\ (\A k \in 1..l : d[k] \in Nat) /\ Numbers(d, l)
    <2>1. l \in Nat /\ l # 0 /\ Reading(d, f, l) /\ d \in Seq(0..9) /\ Len(d) = l
      BY DEF Spells
    <2>2. \A k \in 1..l : d[k] \in Nat
      <3>1. \A k \in 1..l : d[k] \in 0..9
        BY ONLY <2>1
      <3>2. QED
        BY ONLY <3>1
    <2>3. QED
      BY <2>1, <2>2 DEF Numbers
  <1>2. Numbers(b, l)
    BY DEF Numbers
  <1>3. PICK g : Reading(b, g, l)
    BY <1>1, ReadingExists
  <1>4. NumberOf(b) = g[l]
    BY <1>3, NumberReads
  <1>5. /\ \A k \in 0..(l - 1) : f[k + 1] = 10 * f[k] + d[k + 1]
        /\ \A k \in 0..l : f[k] \in Nat
    <2>1. l \in Nat /\ Numbers(d, l) /\ Reading(d, f, l)
      BY <1>1
    <2>2. QED
      BY ONLY <2>1, ReadingSteps
  <1>6. /\ \A k \in 0..(l - 1) : g[k + 1] = 10 * g[k] + b[k + 1]
        /\ \A k \in 0..l : g[k] \in Nat
    <2>1. l \in Nat /\ Numbers(b, l) /\ Reading(b, g, l)
      BY <1>1, <1>2, <1>3
    <2>2. QED
      BY ONLY <2>1, ReadingSteps
  <1>7. PICK i \in Nat : i = last - 1
    OBVIOUS
  <1>8. g[i] = f[i]
    <2>1. Numbers(b, l) /\ Numbers(d, l) /\ Same(b, d, 1, i) /\ l \in Nat /\ i <= l
      BY <1>1, <1>2, <1>7
    <2>2. Same(g, f, 0, i)
      BY <1>1, <1>3, <2>1, ReadingAgrees
    <2>3. QED
      BY <2>2 DEF Same
  <1>9. g[last] = f[last] + 1
    <2>1. i \in 0..(l - 1) /\ i + 1 = last /\ last \in 1..l
      BY <1>1, <1>7
    <2>2. g[last] = 10 * g[i] + b[last] /\ f[last] = 10 * f[i] + d[last]
      BY <1>5, <1>6, <2>1
    <2>3. f[i] \in Nat /\ d[last] \in Nat
      BY <1>1, <1>5, <2>1
    <2>4. QED
      <3>1. b[last] = d[last] + 1
        OBVIOUS
      <3>2. PICK u \in Nat, v \in Nat : u = f[i] /\ v = d[last]
        BY <2>3
      <3>3. g[last] = 10 * u + (v + 1) /\ f[last] = 10 * u + v
        BY ONLY <1>8, <2>2, <3>1, <3>2
      <3>4. 10 * u + (v + 1) = (10 * u + v) + 1
        OBVIOUS
      <3>5. QED
        BY ONLY <3>3, <3>4
  <1>10. PICK S : S = {k \in Nat : g[k] = f[k] + 1}
    OBVIOUS
  <1>11. \A k \in last..(P - 1) : k \in S => k + 1 \in S
    <2>1. SUFFICES ASSUME NEW k \in last..(P - 1), g[k] = f[k] + 1 PROVE g[k + 1] = f[k + 1] + 1
      BY <1>10
    <2>2. k \in 0..(l - 1) /\ k \in 0..l /\ k + 1 \in (last + 1)..P /\ k + 1 \in (last + 1)..l
      BY <1>1
    <2>3. d[k + 1] = 9 /\ b[k + 1] = 0
      BY <2>2 DEF Nines, Zeros
    <2>4. g[k + 1] = 10 * g[k] + b[k + 1] /\ f[k + 1] = 10 * f[k] + d[k + 1] /\ f[k] \in Nat
      BY <1>5, <1>6, <2>2
    <2>5. QED
      <3>1. PICK u \in Nat : u = f[k]
        BY <2>4
      <3>2. g[k + 1] = 10 * (u + 1) + 0 /\ f[k + 1] = 10 * u + 9
        BY ONLY <2>1, <2>3, <2>4, <3>1
      <3>3. 10 * (u + 1) + 0 = (10 * u + 9) + 1
        OBVIOUS
      <3>4. QED
        BY ONLY <3>2, <3>3
  <1>12. last \in S /\ last \in Nat
    BY <1>9, <1>10
  <1>13. g[P] = f[P] + 1
    <2>1. \A k \in last..P : k \in S
      BY <1>11, <1>12, UpFrom
    <2>2. P \in last..P
      OBVIOUS
    <2>3. QED
      BY <1>10, <2>1, <2>2
  <1>14. g[l] = g[P] * t[l - P]
    <2>1. P \in 0..l /\ l \in Nat /\ l - P <= n
      BY <1>1
    <2>2. Zeros(b, P + 1, l)
      BY <1>1 DEF Zeros
    <2>3. QED
      BY <1>2, <1>3, <2>1, <2>2, ZerosRead
  <1>15. QED
    BY <1>4, <1>13, <1>14

LEMMA BumpedOver ==
    ASSUME NEW x, NEW d, NEW l, NEW f, Spells(d, l, f, x), NEW P \in Nat, P < l,
           Nines(d, 1, P), NEW m, m = l + 1,
           NEW c \in Seq(Nat), Len(c) = m, c[1] = 1, Zeros(c, 2, m),
           NEW n \in Nat, NEW t, Tens(t, n), l <= n
    PROVE  NumberOf(c) = (f[P] + 1) * t[l - P]
  <1>1. l \in Nat /\ l # 0 /\ Reading(d, f, l) /\ (\A k \in 1..l : d[k] \in Nat) /\ Numbers(d, l)
    <2>1. l \in Nat /\ l # 0 /\ Reading(d, f, l) /\ d \in Seq(0..9) /\ Len(d) = l
      BY DEF Spells
    <2>2. \A k \in 1..l : d[k] \in Nat
      <3>1. \A k \in 1..l : d[k] \in 0..9
        BY ONLY <2>1
      <3>2. QED
        BY ONLY <3>1
    <2>3. QED
      BY <2>1, <2>2 DEF Numbers
  <1>2. m \in Nat /\ Numbers(c, m)
    BY <1>1 DEF Numbers
  <1>3. PICK g : Reading(c, g, m)
    BY <1>2, ReadingExists
  <1>4. NumberOf(c) = g[m]
    BY <1>3, NumberReads
  <1>5. /\ f[0] = 0
        /\ \A k \in 0..(l - 1) : f[k + 1] = 10 * f[k] + d[k + 1]
        /\ \A k \in 0..l : f[k] \in Nat
    <2>1. l \in Nat /\ Numbers(d, l) /\ Reading(d, f, l)
      BY <1>1
    <2>2. QED
      BY ONLY <2>1, ReadingSteps
  <1>6. /\ g[0] = 0
        /\ \A k \in 0..(m - 1) : g[k + 1] = 10 * g[k] + c[k + 1]
    BY <1>2, <1>3, ReadingSteps
  <1>7. g[0 + 1] = f[0] + 1
    <2>1. 0 \in 0..(m - 1)
      BY <1>1
    <2>2. g[0 + 1] = 10 * g[0] + c[0 + 1]
      BY <1>6, <2>1
    <2>3. QED
      BY <1>5, <1>6, <2>2
  <1>8. PICK S : S = {k \in Nat : g[k + 1] = f[k] + 1}
    OBVIOUS
  <1>9. \A k \in 0..(P - 1) : k \in S => k + 1 \in S
    <2>1. SUFFICES ASSUME NEW k \in 0..(P - 1), g[k + 1] = f[k] + 1 PROVE g[(k + 1) + 1] = f[k + 1] + 1
      BY <1>8
    <2>2. k \in 0..(l - 1) /\ k \in 0..l /\ k + 1 \in 0..(m - 1) /\ k + 1 \in 1..P /\ (k + 1) + 1 \in 2..m
      BY <1>1
    <2>3. d[k + 1] = 9 /\ c[(k + 1) + 1] = 0
      BY <2>2 DEF Nines, Zeros
    <2>4. g[(k + 1) + 1] = 10 * g[k + 1] + c[(k + 1) + 1] /\ f[k + 1] = 10 * f[k] + d[k + 1] /\ f[k] \in Nat
      BY <1>5, <1>6, <2>2
    <2>5. QED
      BY <2>1, <2>3, <2>4
  <1>10. 0 \in S /\ 0 \in Nat
    BY <1>7, <1>8
  <1>11. g[P + 1] = f[P] + 1
    <2>1. \A k \in 0..P : k \in S
      BY <1>9, <1>10, UpFrom
    <2>2. P \in 0..P
      OBVIOUS
    <2>3. QED
      BY <1>8, <2>1, <2>2
  <1>12. PICK j \in Nat : j = P + 1
    OBVIOUS
  <1>13. g[m] = g[j] * t[m - j]
    <2>1. j \in 0..m /\ m - j <= n
      BY <1>1, <1>12
    <2>2. Zeros(c, j + 1, m)
      BY <1>1, <1>12 DEF Zeros
    <2>3. QED
      BY <1>2, <1>3, <2>1, <2>2, ZerosRead
  <1>14. m - j = l - P
    BY <1>1, <1>12
  <1>15. QED
    BY <1>4, <1>11, <1>12, <1>13, <1>14

(* A number below ten to the power of its digits, rounded up to a multiple of
   the unit of its last kept digit, and to no more than that power. *)
Unit(l, t, P) == IF l > P THEN t[l - P] ELSE 1
UpTo(x, z, u) == \E a \in Nat : z = a * u /\ x <= z /\ z < x + u
Rounded(x, z, l, t, P) ==
    /\ x < t[l] /\ z <= t[l] /\ (l > 1 => t[l - 1] <= x)
    /\ UpTo(x, z, Unit(l, t, P))

LEMMA NumberBounds ==
    ASSUME NEW x \in Nat, NEW d, NEW l, NEW f, Spells(d, l, f, x), NEW n \in Nat, NEW t, Tens(t, n), l <= n
    PROVE  x < t[l] /\ (l > 1 => t[l - 1] <= x)
  <1>1. l \in Nat /\ l # 0 /\ Reading(d, f, l) /\ d \in Seq(0..9) /\ Len(d) = l /\ f[l] = x /\ ((x # 0 \/ l > 1) => d[1] # 0)
    BY DEF Spells
  <1>2. \A k \in 1..l : d[k] \in 0..9
    BY ONLY <1>1
  <1>3. Numbers(d, l)
    BY ONLY <1>2 DEF Numbers
  <1>4. f[0] = 0 /\ (\A k \in 0..(l - 1) : f[k + 1] = 10 * f[k] + d[k + 1]) /\ \A k \in 0..l : f[k] \in Nat
    <2>1. l \in Nat /\ Numbers(d, l) /\ Reading(d, f, l)
      BY <1>1, <1>3
    <2>2. QED
      BY ONLY <2>1, ReadingSteps
  <1>5. t[0] = 1 /\ (\A k \in 0..(n - 1) : t[k + 1] = 10 * t[k]) /\ \A k \in 0..n : t[k] \in Nat /\ t[k] # 0
    BY TensSteps
  <1>6. x < t[l]
    <2>1. 0 \in 0..l /\ l - 0 = l /\ l - 0 <= n
      BY <1>1
    <2>2. PICK r \in Nat : r < t[l - 0] /\ f[l] = f[0] * t[l - 0] + r
      BY <1>1, <1>2, <2>1, DigitsRead
    <2>3. t[l] \in Nat
      BY <1>1, <1>5
    <2>4. 0 * t[l] = 0
      BY <2>3
    <2>5. QED
      BY <1>1, <1>4, <2>1, <2>2, <2>4
  <1>7. ASSUME l > 1 PROVE t[l - 1] <= x
    <2>1. PICK p \in Nat : p = t[l - 1] /\ p # 0
      <3>1. l - 1 \in 0..n
        BY <1>1
      <3>2. QED
        BY <1>5, <3>1
    <2>2. PICK r \in Nat : r < t[l - 1] /\ f[l] = f[1] * t[l - 1] + r
      <3>1. 1 \in 0..l /\ l - 1 <= n
        BY <1>1, <1>7
      <3>2. \E r \in Nat : r < t[l - 1] /\ f[l] = f[1] * t[l - 1] + r /\ Rest(d, 1, l - 1, r)
        BY <1>1, <1>2, <3>1, DigitsRead
      <3>3. QED
        BY <3>2
    <2>3. f[1] = d[1] /\ d[1] \in Nat
      <3>1. 0 \in 0..(l - 1) /\ 1 \in 1..l /\ 0 + 1 = 1
        BY <1>1
      <3>2. f[0 + 1] = 10 * f[0] + d[0 + 1]
        BY <1>4, <3>1
      <3>3. d[1] \in Nat
        BY <1>2, <3>1
      <3>4. QED
        BY <1>4, <3>1, <3>2, <3>3
    <2>4. PICK a \in Nat : a = d[1]
      BY <2>3
    <2>5. x = a * p + r
      BY <1>1, <2>1, <2>2, <2>3, <2>4
    <2>6. a # 0
      BY <1>1, <1>7, <2>4
    <2>7. p <= a * p
      BY <2>6
    <2>8. QED
      BY <2>1, <2>5, <2>7
  <1>8. QED
    BY <1>6, <1>7

(* What the first P digits make, and one more, is at most ten to the power P. *)
LEMMA PrefixBelow ==
    ASSUME NEW x, NEW d, NEW l, NEW f, Spells(d, l, f, x), NEW P \in Nat, P <= l,
           NEW n \in Nat, NEW t, Tens(t, n), l <= n
    PROVE  f[P] \in Nat /\ (f[P] + 1) * t[l - P] <= t[l]
  <1>1. l \in Nat /\ l # 0 /\ Reading(d, f, l) /\ d \in Seq(0..9) /\ Len(d) = l
    BY DEF Spells
  <1>2. \A k \in 1..l : d[k] \in 0..9
    BY ONLY <1>1
  <1>3. Numbers(d, l)
    BY ONLY <1>2 DEF Numbers
  <1>4. f[0] = 0 /\ (\A k \in 0..(l - 1) : f[k + 1] = 10 * f[k] + d[k + 1]) /\ \A k \in 0..l : f[k] \in Nat
    <2>1. l \in Nat /\ Numbers(d, l) /\ Reading(d, f, l)
      BY <1>1, <1>3
    <2>2. QED
      BY ONLY <2>1, ReadingSteps
  <1>5. t[0] = 1 /\ (\A k \in 0..(n - 1) : t[k + 1] = 10 * t[k]) /\ \A k \in 0..n : t[k] \in Nat
    BY TensSteps
  <1>6. PICK S : S = {k \in Nat : f[k] + 1 <= t[k]}
    OBVIOUS
  <1>7. \A k \in 0..(P - 1) : k \in S => k + 1 \in S
    <2>1. SUFFICES ASSUME NEW k \in 0..(P - 1), f[k] + 1 <= t[k] PROVE f[k + 1] + 1 <= t[k + 1]
      BY <1>6
    <2>2. k \in 0..(l - 1) /\ k \in 0..l /\ k + 1 \in 1..l /\ k \in 0..(n - 1) /\ k \in 0..n
      BY <1>1
    <2>3. f[k + 1] = 10 * f[k] + d[k + 1] /\ t[k + 1] = 10 * t[k]
      BY <1>4, <1>5, <2>2
    <2>4. PICK u \in Nat, p \in Nat, c \in 0..9 : u = f[k] /\ p = t[k] /\ c = d[k + 1]
      BY <1>2, <1>4, <1>5, <2>2
    <2>5. 10 * u + c + 1 <= 10 * p
      BY <2>1, <2>4
    <2>6. QED
      BY <2>3, <2>4, <2>5
  <1>8. 0 \in S /\ 0 \in Nat
    BY <1>4, <1>5, <1>6
  <1>9. f[P] + 1 <= t[P]
    <2>1. \A k \in 0..P : k \in S
      BY <1>7, <1>8, UpFrom
    <2>2. P \in 0..P
      OBVIOUS
    <2>3. QED
      BY <1>6, <2>1, <2>2
  <1>10. f[P] \in Nat
    BY <1>1, <1>4
  <1>11. PICK a \in Nat : a = f[P] + 1
    BY <1>10
  <1>12. PICK q \in Nat : q = l - P
    BY <1>1
  <1>13. PICK R : R = {i \in Nat : a * t[i] <= t[P + i]}
    OBVIOUS
  <1>14. 0 \in R
    <2>1. P \in 0..n /\ P + 0 = P
      BY <1>1
    <2>2. a * 1 = a /\ t[P] \in Nat
      BY <1>5, <2>1
    <2>3. a * t[0] <= t[P + 0]
      BY <1>5, <1>9, <1>11, <2>1, <2>2
    <2>4. QED
      BY <1>13, <2>3
  <1>15. \A i \in 0..(q - 1) : i \in R => i + 1 \in R
    <2>1. SUFFICES ASSUME NEW i \in 0..(q - 1), a * t[i] <= t[P + i] PROVE a * t[i + 1] <= t[P + (i + 1)]
      BY <1>13
    <2>2. i \in 0..(n - 1) /\ i \in 0..n /\ P + i \in 0..(n - 1) /\ P + i \in 0..n /\ P + (i + 1) = (P + i) + 1
      BY <1>1, <1>12
    <2>3. PICK p \in Nat, r \in Nat : p = t[i] /\ r = t[P + i]
      BY <1>5, <2>2
    <2>4. t[i + 1] = 10 * p /\ t[P + (i + 1)] = 10 * r
      BY <1>5, <2>2, <2>3
    <2>5. a * (10 * p) = 10 * (a * p) /\ a * p \in Nat
      OBVIOUS
    <2>6. a * p <= r
      BY <2>1, <2>3
    <2>7. a * (10 * p) <= 10 * r
      BY <2>5, <2>6
    <2>8. QED
      BY <2>4, <2>7
  <1>16. a * t[q] <= t[P + q]
    <2>1. \A i \in 0..q : i \in R
      BY <1>8, <1>14, <1>15, UpFrom
    <2>2. q \in 0..q
      OBVIOUS
    <2>3. QED
      BY <1>13, <2>1, <2>2
  <1>17. P + q = l
    BY <1>1, <1>12
  <1>18. QED
    BY <1>10, <1>11, <1>12, <1>16, <1>17

(* Without a bump the kept digits are all there are. *)
LEMMA KeptIsAll ==
    ASSUME NEW x \in Nat, NEW P \in Nat, NEW d, d = DigitsOf(x), NEW l, NEW f, Spells(d, l, f, x),
           \A k \in DOMAIN d : k > P => d[k] = 0
    PROVE  RoundMoneyUp(x, P) = x
  <1>1. l \in Nat /\ l # 0 /\ Reading(d, f, l) /\ d \in Seq(0..9) /\ Len(d) = l /\ f[l] = x
    BY DEF Spells
  <1>2. PICK kept : kept = [k \in DOMAIN d |-> IF k <= P THEN d[k] ELSE 0]
    OBVIOUS
  <1>3. DOMAIN d = 1..l
    BY <1>1
  <1>4. \A k \in DOMAIN d : (IF k <= P THEN d[k] ELSE 0) = d[k]
    BY <1>1, <1>3
  <1>5. d = [k \in DOMAIN d |-> d[k]]
    BY <1>1
  <1>6. kept = d
    BY ONLY <1>2, <1>4, <1>5
  <1>7. d \in Seq(Nat)
    BY <1>1
  <1>8. NumberOf(d) = x
    BY <1>1, <1>7, NumberReads
  <1>9. RoundMoneyUp(x, P) = NumberOf(kept)
    <2>1. ~ \E k \in DOMAIN d : k > P /\ d[k] # 0
      OBVIOUS
    <2>2. QED
      BY <1>2, <2>1 DEF RoundMoneyUp
  <1>10. QED
    BY <1>6, <1>8, <1>9

(* With a bump the kept digits make one more, whether a digit takes it or it
   leaves the first one. *)
LEMMA BumpIsOne ==
    ASSUME NEW x \in Nat, NEW P \in Nat, NEW d, d = DigitsOf(x), NEW l, NEW f, Spells(d, l, f, x),
           NEW o \in DOMAIN d, o > P, d[o] # 0, NEW n \in Nat, NEW t, Tens(t, n), l <= n
    PROVE  P < l /\ RoundMoneyUp(x, P) = (f[P] + 1) * t[l - P]
  <1>1. l \in Nat /\ l # 0 /\ d \in Seq(0..9) /\ Len(d) = l
    BY DEF Spells
  <1>2. DOMAIN d = 1..l /\ \A k \in 1..l : d[k] \in 0..9
    BY ONLY <1>1
  <1>3. P < l
    BY <1>1, <1>2
  <1>4. PICK stops : stops = {k \in DOMAIN d : k <= P /\ d[k] # 9}
    OBVIOUS
  <1>5. PICK last : last = IF stops = {} THEN 0 ELSE CHOOSE k \in stops : \A j \in stops : j <= k
    OBVIOUS
  <1>6. PICK b : b = [k \in DOMAIN d |-> CASE k < last -> d[k]
                                           [] k = last -> d[k] + 1
                                           [] OTHER -> 0]
    OBVIOUS
  <1>7. RoundMoneyUp(x, P) = NumberOf(IF last = 0 THEN <<1>> \o b ELSE b)
    BY <1>4, <1>5, <1>6 DEF RoundMoneyUp
  <1>8. CASE stops = {}
    <2>1. last = 0
      BY <1>5, <1>8
    <2>2. \A k \in 1..l : b[k] = 0
      BY <1>2, <1>6, <2>1
    <2>3. b \in Seq(Nat) /\ Len(b) = l
      <3>1. b = [k \in 1..l |-> b[k]] /\ \A k \in 1..l : b[k] \in Nat
        BY <1>2, <1>6, <2>2
      <3>2. b \in [1..l -> Nat]
        BY ONLY <3>1
      <3>3. QED
        BY <1>1, <3>2
    <2>4. PICK c : c = <<1>> \o b
      OBVIOUS
    <2>5. PICK m \in Nat : m = l + 1
      BY <1>1
    <2>6. c \in Seq(Nat) /\ Len(c) = m /\ c[1] = 1
      BY <1>1, <2>3, <2>4, <2>5
    <2>7. Zeros(c, 2, m)
      <3>1. SUFFICES ASSUME NEW k \in 2..m PROVE c[k] = 0
        BY DEF Zeros
      <3>2. k - 1 \in 1..l
        BY <1>1, <2>5
      <3>3. c[k] = b[k - 1]
        BY <1>1, <2>3, <2>4, <2>5
      <3>4. QED
        BY <2>2, <3>2, <3>3
    <2>8. Nines(d, 1, P)
      <3>1. SUFFICES ASSUME NEW k \in 1..P, d[k] # 9 PROVE FALSE
        BY DEF Nines
      <3>2. k \in DOMAIN d /\ k <= P
        BY <1>1, <1>2, <1>3
      <3>3. QED
        BY <1>4, <1>8, <3>1, <3>2
    <2>9. NumberOf(c) = (f[P] + 1) * t[l - P]
      BY <1>3, <2>5, <2>6, <2>7, <2>8, BumpedOver
    <2>10. QED
      BY <1>3, <1>7, <2>1, <2>4, <2>9
  <1>9. CASE stops # {}
    <2>1. last \in stops /\ \A j \in stops : j <= last
      <3>1. stops \in SUBSET Nat /\ \A k \in stops : k <= P
        BY <1>1, <1>2, <1>4
      <3>2. \E k \in stops : \A j \in stops : j <= k
        BY <1>9, <3>1, GreatestNumber
      <3>3. last = CHOOSE k \in stops : \A j \in stops : j <= k
        BY <1>5, <1>9
      <3>4. QED
        BY ONLY <3>2, <3>3
    <2>2. last \in 1..P /\ last \in 1..l
      BY <1>1, <1>2, <1>4, <2>1
    <2>3. /\ \A k \in 1..(last - 1) : b[k] = d[k]
          /\ b[last] = d[last] + 1
          /\ \A k \in (last + 1)..l : b[k] = 0
      <3>1. \A k \in 1..l : k < last => b[k] = d[k]
        BY <1>2, <1>6
      <3>2. \A k \in 1..l : ~ (k < last) /\ k = last => b[k] = d[k] + 1
        BY <1>2, <1>6
      <3>3. \A k \in 1..l : ~ (k < last) /\ k # last => b[k] = 0
        BY <1>2, <1>6
      <3>4. \A k \in 1..(last - 1) : k \in 1..l /\ k < last
        BY <1>1, <2>2
      <3>5. \A k \in (last + 1)..l : k \in 1..l /\ ~ (k < last) /\ k # last
        BY <1>1, <2>2
      <3>6. ~ (last < last)
        BY <2>2
      <3>7. QED
        BY <2>2, <3>1, <3>2, <3>3, <3>4, <3>5, <3>6
    <2>4. b \in Seq(Nat) /\ Len(b) = l
      <3>1. \A k \in 1..l : b[k] \in Nat
        <4>1. \A k \in 1..l : k \in 1..(last - 1) \/ k = last \/ k \in (last + 1)..l
          BY <1>1, <2>2
        <4>2. \A k \in 1..l : d[k] \in Nat /\ d[k] + 1 \in Nat
          BY <1>2
        <4>3. QED
          BY <2>3, <4>1, <4>2
      <3>2. b = [k \in 1..l |-> b[k]]
        BY <1>2, <1>6
      <3>3. b \in [1..l -> Nat]
        BY ONLY <3>1, <3>2
      <3>4. QED
        BY <1>1, <3>3
    <2>5. Same(b, d, 1, last - 1) /\ Zeros(b, last + 1, l)
      BY <2>3 DEF Same, Zeros
    <2>6. Nines(d, last + 1, P)
      <3>1. SUFFICES ASSUME NEW k \in (last + 1)..P, d[k] # 9 PROVE FALSE
        BY DEF Nines
      <3>2. k \in DOMAIN d /\ k <= P /\ ~ (k <= last)
        BY <1>1, <1>2, <1>3, <2>2
      <3>3. QED
        BY <1>4, <2>1, <3>1, <3>2
    <2>7. NumberOf(b) = (f[P] + 1) * t[l - P]
      <3>1. Bumped(b, d, l, last, P)
        BY <2>3, <2>4, <2>5, <2>6 DEF Bumped
      <3>2. QED
        BY <1>3, <2>2, <3>1, BumpedInside
    <2>8. last # 0
      BY <2>2
    <2>9. QED
      BY <1>3, <1>7, <2>7, <2>8
  <1>10. QED
    BY <1>8, <1>9

LEMMA RoundedUp ==
    ASSUME NEW x \in Nat, NEW P \in Nat, NEW d, d = DigitsOf(x), NEW l, NEW f, Spells(d, l, f, x),
           NEW n \in Nat, NEW t, Tens(t, n), l <= n, NEW z, z = RoundMoneyUp(x, P)
    PROVE  z \in Nat /\ Rounded(x, z, l, t, P)
  <1>1. l \in Nat /\ l # 0 /\ Reading(d, f, l) /\ d \in Seq(0..9) /\ Len(d) = l /\ f[l] = x
    BY DEF Spells
  <1>2. DOMAIN d = 1..l /\ \A k \in 1..l : d[k] \in 0..9
    BY ONLY <1>1
  <1>3. x < t[l] /\ (l > 1 => t[l - 1] <= x)
    BY NumberBounds
  <1>4. \A k \in 0..n : t[k] \in Nat /\ t[k] # 0
    BY TensSteps
  <1>5. t[l] \in Nat
    BY <1>1, <1>4
  <1>6. ASSUME P < l PROVE /\ \E r \in Nat : r < t[l - P] /\ x = f[P] * t[l - P] + r /\ Rest(d, P, l - P, r)
                           /\ f[P] \in Nat /\ (f[P] + 1) * t[l - P] <= t[l]
                           /\ t[l - P] \in Nat /\ t[l - P] # 0
    <2>1. P \in 0..l /\ l - P <= n /\ l - P \in 0..n /\ P <= l
      BY <1>1, <1>6
    <2>2. \E r \in Nat : r < t[l - P] /\ f[l] = f[P] * t[l - P] + r /\ Rest(d, P, l - P, r)
      BY <1>1, <1>2, <2>1, DigitsRead
    <2>3. f[P] \in Nat /\ (f[P] + 1) * t[l - P] <= t[l]
      BY <2>1, PrefixBelow
    <2>4. QED
      BY <1>1, <1>4, <2>1, <2>2, <2>3
  <1>7. CASE \A k \in DOMAIN d : k > P => d[k] = 0
    <2>1. z = x
      BY <1>7, KeptIsAll
    <2>2. UpTo(x, z, Unit(l, t, P))
      <3>1. CASE l > P
        <4>1. PICK r \in Nat : r < t[l - P] /\ x = f[P] * t[l - P] + r /\ Rest(d, P, l - P, r)
          BY <1>1, <1>6, <3>1
        <4>2. PICK a \in Nat, u \in Nat : a = f[P] /\ u = t[l - P] /\ u # 0
          BY <1>1, <1>6, <3>1
        <4>3. r = 0
          <5>1. \A k \in (P + 1)..(P + (l - P)) : k \in DOMAIN d /\ k > P
            BY <1>1, <1>2
          <5>2. QED
            BY <1>7, <4>1, <5>1 DEF Rest
        <4>4. a * u \in Nat
          OBVIOUS
        <4>5. z = a * u /\ x <= z /\ z < x + u
          BY <2>1, <4>1, <4>2, <4>3, <4>4
        <4>6. UpTo(x, z, u)
          BY <4>5 DEF UpTo
        <4>7. QED
          BY <3>1, <4>2, <4>6 DEF Unit
      <3>2. CASE ~ (l > P)
        <4>1. z = x * 1 /\ x <= z /\ z < x + 1
          BY <2>1
        <4>2. UpTo(x, z, 1)
          BY <4>1 DEF UpTo
        <4>3. QED
          BY <3>2, <4>2 DEF Unit
      <3>3. QED
        BY <3>1, <3>2
    <2>3. z \in Nat /\ z <= t[l]
      BY <1>3, <1>5, <2>1
    <2>4. QED
      BY <1>3, <2>2, <2>3 DEF Rounded
  <1>8. CASE \E k \in DOMAIN d : k > P /\ d[k] # 0
    <2>1. PICK o \in DOMAIN d : o > P /\ d[o] # 0
      BY <1>8
    <2>2. P < l /\ z = (f[P] + 1) * t[l - P]
      BY <2>1, BumpIsOne
    <2>3. PICK r \in Nat : r < t[l - P] /\ x = f[P] * t[l - P] + r /\ Rest(d, P, l - P, r)
      BY <1>6, <2>2
    <2>4. PICK a \in Nat, u \in Nat : a = f[P] /\ u = t[l - P] /\ u # 0
      BY <1>6, <2>2
    <2>5. r # 0
      <3>1. o \in (P + 1)..(P + (l - P))
        BY <1>1, <1>2, <2>1
      <3>2. QED
        BY <2>1, <2>3, <3>1 DEF Rest
    <2>6. PICK e \in Nat : e = a + 1
      OBVIOUS
    <2>7. PICK p \in Nat : p = a * u
      OBVIOUS
    <2>8. e * u = p + u
      BY <2>6, <2>7
    <2>9. z = e * u /\ z = p + u /\ x = p + r /\ r < u
      BY <2>2, <2>3, <2>4, <2>6, <2>7, <2>8
    <2>10. z \in Nat /\ x <= z /\ z < x + u
      BY <2>5, <2>9
    <2>11. UpTo(x, z, u)
      BY <2>9, <2>10 DEF UpTo
    <2>12. z <= t[l]
      BY <1>6, <2>2
    <2>13. Unit(l, t, P) = u
      BY <1>1, <2>2, <2>4 DEF Unit
    <2>14. QED
      BY <1>3, <2>10, <2>11, <2>12, <2>13 DEF Rounded
  <1>9. QED
    BY <1>7, <1>8

(* `round_money_up` never rounds down, and of two amounts the larger is never
   rounded to less. *)
LEMMA RoundingGrows ==
    ASSUME NEW x \in Nat, NEW y \in Nat, x <= y, NEW P \in Nat
    PROVE  /\ RoundMoneyUp(x, P) \in Nat /\ RoundMoneyUp(y, P) \in Nat
           /\ x <= RoundMoneyUp(x, P) /\ RoundMoneyUp(x, P) <= RoundMoneyUp(y, P)
  <1>1. PICK d, e : d = DigitsOf(x) /\ e = DigitsOf(y)
    OBVIOUS
  <1>2. PICK l, f : Spells(d, l, f, x)
    BY <1>1, DigitsSpell
  <1>3. PICK m, g : Spells(e, m, g, y)
    BY <1>1, DigitsSpell
  <1>4. l \in Nat /\ l # 0 /\ m \in Nat /\ m # 0
    BY <1>2, <1>3 DEF Spells
  <1>5. PICK n \in Nat : n = l + m
    BY <1>4
  <1>6. PICK t : Tens(t, n)
    BY TensExist
  <1>7. l <= n /\ m <= n
    BY <1>4, <1>5
  <1>8. PICK z, w : z = RoundMoneyUp(x, P) /\ w = RoundMoneyUp(y, P)
    OBVIOUS
  <1>9. z \in Nat /\ Rounded(x, z, l, t, P)
    BY <1>1, <1>2, <1>6, <1>7, <1>8, RoundedUp
  <1>10. w \in Nat /\ Rounded(y, w, m, t, P)
    BY <1>1, <1>3, <1>6, <1>7, <1>8, RoundedUp
  <1>11. /\ x < t[l] /\ z <= t[l] /\ (l > 1 => t[l - 1] <= x)
         /\ y < t[m] /\ w <= t[m] /\ (m > 1 => t[m - 1] <= y)
    BY <1>9, <1>10 DEF Rounded
  <1>12. PICK a \in Nat : z = a * Unit(l, t, P) /\ x <= z /\ z < x + Unit(l, t, P)
    BY <1>9 DEF Rounded, UpTo
  <1>13. PICK b \in Nat : w = b * Unit(m, t, P) /\ y <= w /\ w < y + Unit(m, t, P)
    BY <1>10 DEF Rounded, UpTo
  <1>14. \A k \in 0..n : t[k] \in Nat /\ t[k] # 0
    BY <1>6, TensSteps
  <1>15. \A i, j \in 0..n : i <= j => t[i] <= t[j]
    BY <1>6, TensGrow
  <1>16. z <= w
    <2>1. CASE l < m
      <3>1. l \in 0..n /\ m - 1 \in 0..n /\ l <= m - 1 /\ m > 1
        BY <1>4, <1>7, <2>1
      <3>2. t[l] <= t[m - 1]
        BY <1>15, <3>1
      <3>3. t[l] \in Nat /\ t[m - 1] \in Nat
        BY <1>14, <3>1
      <3>4. t[m - 1] <= y
        BY <1>11, <3>1
      <3>5. QED
        BY <1>9, <1>10, <1>11, <1>13, <3>2, <3>3, <3>4
    <2>2. CASE l > m
      <3>1. m \in 0..n /\ l - 1 \in 0..n /\ m <= l - 1 /\ l > 1
        BY <1>4, <1>7, <2>2
      <3>2. t[m] <= t[l - 1]
        BY <1>15, <3>1
      <3>3. t[m] \in Nat /\ t[l - 1] \in Nat
        BY <1>14, <3>1
      <3>4. t[l - 1] <= x
        BY <1>11, <3>1
      <3>5. QED
        BY <1>11, <3>2, <3>3, <3>4
    <2>3. CASE l = m
      <3>1. Unit(l, t, P) \in Nat /\ Unit(l, t, P) # 0
        <4>1. l > P => l - P \in 0..n
          BY <1>4, <1>7
        <4>2. QED
          BY <1>14, <4>1 DEF Unit
      <3>2. PICK u \in Nat : u = Unit(l, t, P) /\ u # 0
        BY <3>1
      <3>3. z = a * u /\ z < x + u /\ w = b * u /\ y <= w
        BY <1>12, <1>13, <2>3, <3>2
      <3>4. a * u < (b + 1) * u
        <4>1. (b + 1) * u = b * u + u /\ b * u \in Nat
          OBVIOUS
        <4>2. QED
          BY <1>9, <1>10, <3>3, <4>1
      <3>5. a <= b
        <4>1. SUFFICES ASSUME a >= b + 1 PROVE FALSE
          OBVIOUS
        <4>2. a * u >= (b + 1) * u
          BY <4>1
        <4>3. a * u \in Nat /\ (b + 1) * u \in Nat
          OBVIOUS
        <4>4. QED
          BY <3>4, <4>2, <4>3
      <3>6. a * u <= b * u
        BY <3>5
      <3>7. QED
        BY <3>3, <3>6
    <2>4. QED
      BY <1>4, <2>1, <2>2, <2>3
  <1>17. QED
    BY <1>8, <1>9, <1>10, <1>12, <1>16

(* Divisions. *)
LEMMA QuotientShrinks ==
    ASSUME NEW a \in Nat, NEW b \in Nat, NEW c \in Nat, b # 0, b <= c
    PROVE  a \div c <= a \div b
  <1>1. PICK q \in Nat, m \in Nat : q = a \div b /\ m < b /\ b * q + m = a
    BY Division
  <1>2. PICK p \in Nat, n \in Nat : p = a \div c /\ c * p + n = a
    BY Division
  <1>3. SUFFICES ASSUME p >= q + 1 PROVE FALSE
    BY <1>1, <1>2
  <1>4. b * p <= c * p
    OBVIOUS
  <1>5. b * (q + 1) <= b * p
    BY <1>3
  <1>6. b * (q + 1) = b * q + b
    OBVIOUS
  <1>7. b * q \in Nat /\ b * p \in Nat /\ c * p \in Nat
    OBVIOUS
  <1>8. QED
    BY <1>1, <1>2, <1>4, <1>5, <1>6, <1>7

LEMMA QuotientTwice ==
    ASSUME NEW a \in Nat, NEW m \in Nat, m # 0
    PROVE  (a \div m) \div m = a \div (m * m)
  <1>1. PICK q \in Nat, r \in Nat : q = a \div m /\ r < m /\ m * q + r = a
    BY Division
  <1>2. PICK p \in Nat, s \in Nat : p = q \div m /\ s < m /\ m * p + s = q
    BY Division
  <1>3. PICK u \in Nat : u = m * m
    OBVIOUS
  <1>4. u # 0
    BY <1>3
  <1>5. PICK v \in Nat : v = m * s + r
    OBVIOUS
  <1>6. v < u
    <2>1. m * s + m = m * (s + 1)
      OBVIOUS
    <2>2. m * (s + 1) <= m * m
      BY <1>2
    <2>3. m * s \in Nat
      OBVIOUS
    <2>4. QED
      BY <1>1, <1>3, <1>5, <2>1, <2>2, <2>3
  <1>7. a = u * p + v
    <2>1. m * (m * p + s) = (m * m) * p + m * s
      OBVIOUS
    <2>2. m * q = u * p + m * s
      BY <1>2, <1>3, <2>1
    <2>3. u * p \in Nat /\ m * s \in Nat
      OBVIOUS
    <2>4. QED
      BY <1>1, <1>5, <2>2, <2>3
  <1>8. a \div u = p
    BY <1>4, <1>6, <1>7, Remainder
  <1>9. QED
    BY <1>1, <1>2, <1>3, <1>8

LEMMA QuantizeGrows ==
    ASSUME NEW v \in Nat, NEW w \in Nat, v <= w
    PROVE  QuantizeUp(v) \in Nat /\ QuantizeUp(v) <= QuantizeUp(w)
  <1>1. PICK q \in Nat : q = QuantizationMask /\ q # 0
    BY EmissionAssumption
  <1>2. PICK a \in Nat, b \in Nat : a = v + q - 1 /\ b = w + q - 1
    BY <1>1
  <1>3. a <= b
    BY <1>2
  <1>4. PICK x \in Nat, y \in Nat : x = a \div q /\ y = b \div q
    BY <1>1, Division
  <1>5. x <= y
    BY <1>1, <1>3, <1>4, QuotientGrows
  <1>6. x * q <= y * q /\ x * q \in Nat
    BY <1>5
  <1>7. QuantizeUp(v) = x * q /\ QuantizeUp(w) = y * q
    BY <1>1, <1>2, <1>4 DEF QuantizeUp
  <1>8. QED
    BY <1>6, <1>7

(* Limits from version 13 on: no median below the full reward zone. *)
AboveZone(limits) ==
    /\ limits.median \in Nat /\ FullRewardZone <= limits.median
    /\ limits.ltem \in Nat /\ FullRewardZone <= limits.ltem

LEMMA SmallerAboveZone ==
    ASSUME NEW limits, AboveZone(limits), NEW m, m = Smaller(limits.median, limits.ltem)
    PROVE  m \in Nat /\ m # 0 /\ FullRewardZone <= m /\ Larger(m, FullRewardZone) = m
  <1>1. FullRewardZone \in Nat /\ FullRewardZone # 0
    BY EmissionAssumption
  <1>2. m = limits.median \/ m = limits.ltem
    BY DEF Smaller
  <1>3. m \in Nat /\ FullRewardZone <= m
    BY <1>2 DEF AboveZone
  <1>4. m # 0
    BY <1>1, <1>3
  <1>5. Larger(m, FullRewardZone) = m
    BY <1>1, <1>3 DEF Larger
  <1>6. QED
    BY <1>3, <1>4, <1>5

(* The tiers before they are rounded. *)
LEMMA TiersInOrder ==
    ASSUME NEW R \in Nat, NEW limits, AboveZone(limits), NEW tiers, tiers = FeeTiers(R, limits),
           NEW m, m = Smaller(limits.median, limits.ltem)
    PROVE  /\ \A k \in 1..3 : tiers[k] <= tiers[k + 1]
           /\ tiers[1] \in Nat
           /\ (R * ReferenceWeight) \div (m * m) \in Nat
           /\ (R * ReferenceWeight) \div (m * m) <= tiers[1]
  <1>1. PICK F \in Nat, P \in Nat, W \in Nat : F = FullRewardZone /\ F # 0 /\ P = FeePlaces /\ W = ReferenceWeight
    BY EmissionAssumption
  <1>2. m \in Nat /\ m # 0 /\ F <= m
    BY <1>1, SmallerAboveZone
  <1>3. PICK u \in Nat : u = m * m /\ u # 0
    BY <1>2
  <1>4. PICK v \in Nat : v = F * m /\ v # 0
    BY <1>1, <1>2
  <1>5. v <= u
    BY <1>1, <1>2, <1>3, <1>4
  <1>6. PICK a \in Nat : a = R * W
    OBVIOUS
  <1>7. PICK b \in Nat : b = 4 * R * W
    OBVIOUS
  <1>8. PICK c \in Nat : c = 16 * R * W
    OBVIOUS
  <1>9. a <= b /\ b <= c
    <2>1. 4 * R * W = 4 * (R * W) /\ 16 * R * W = 16 * (R * W)
      OBVIOUS
    <2>2. QED
      BY <1>6, <1>7, <1>8, <2>1
  <1>10. PICK low \in Nat, normal \in Nat, medium \in Nat :
            low = a \div u /\ normal = b \div u /\ medium = c \div v
    BY <1>3, <1>4, Division
  <1>11. low <= normal
    BY <1>3, <1>9, <1>10, QuotientGrows
  <1>12. normal <= medium
    <2>1. b \div u <= b \div v
      BY <1>4, <1>5, QuotientShrinks
    <2>2. b \div v <= c \div v
      BY <1>4, <1>9, QuotientGrows
    <2>3. b \div v \in Nat
      BY <1>4, Division
    <2>4. QED
      BY <1>10, <2>1, <2>2, <2>3
  <1>13. PICK D : D = (32 * ReferenceWeight * limits.median) \div FullRewardZone
    OBVIOUS
  <1>14. D \in Nat
    <2>1. PICK M \in Nat : M = limits.median
      BY DEF AboveZone
    <2>2. PICK e \in Nat : e = 32 * W * M
      OBVIOUS
    <2>3. D = e \div F
      BY <1>1, <1>13, <2>1, <2>2
    <2>4. QED
      BY <1>1, <2>3, Division
  <1>15. PICK s : s = IF D = 0 THEN 4 * medium ELSE (4 * medium * m) \div D
    OBVIOUS
  <1>16. s \in Nat
    <2>1. CASE D = 0
      BY <1>15, <2>1
    <2>2. CASE D # 0
      <3>1. PICK e \in Nat : e = 4 * medium * m
        BY <1>2
      <3>2. e \div D \in Nat
        BY <1>14, <2>2, Division
      <3>3. QED
        BY <1>15, <2>2, <3>1, <3>2
    <2>3. QED
      BY <2>1, <2>2
  <1>17. PICK high : high = Larger(4 * medium, s)
    OBVIOUS
  <1>18. high \in Nat /\ medium <= high
    BY <1>16, <1>17 DEF Larger
  <1>19. tiers = << RoundMoneyUp(low, P), RoundMoneyUp(normal, P),
                    RoundMoneyUp(medium, P), RoundMoneyUp(high, P) >>
    <2>1. low = (R * ReferenceWeight) \div (m * m)
      BY ONLY <1>1, <1>3, <1>6, <1>10
    <2>2. normal = (4 * R * ReferenceWeight) \div (m * m)
      BY ONLY <1>1, <1>3, <1>7, <1>10
    <2>3. medium = (16 * R * ReferenceWeight) \div (FullRewardZone * m)
      BY ONLY <1>1, <1>4, <1>8, <1>10
    <2>4. QED
      BY <1>1, <1>13, <1>15, <1>17, <2>1, <2>2, <2>3 DEF FeeTiers
  <1>20. PICK r1, r2, r3, r4 : /\ r1 = RoundMoneyUp(low, P) /\ r2 = RoundMoneyUp(normal, P)
                               /\ r3 = RoundMoneyUp(medium, P) /\ r4 = RoundMoneyUp(high, P)
    OBVIOUS
  <1>21. r1 \in Nat /\ low <= r1 /\ r1 <= r2
    BY <1>11, <1>20, RoundingGrows
  <1>22. r2 <= r3
    BY <1>12, <1>20, RoundingGrows
  <1>23. r3 <= r4
    BY <1>18, <1>20, RoundingGrows
  <1>24. tiers[1] = r1 /\ tiers[2] = r2 /\ tiers[3] = r3 /\ tiers[4] = r4
    BY <1>19, <1>20
  <1>25. \A k \in 1..3 : tiers[k] <= tiers[k + 1]
    <2>1. \A k \in 1..3 : k = 1 \/ k = 2 \/ k = 3
      OBVIOUS
    <2>2. 1 + 1 = 2 /\ 2 + 1 = 3 /\ 3 + 1 = 4
      OBVIOUS
    <2>3. QED
      BY <1>21, <1>22, <1>23, <1>24, <2>1, <2>2
  <1>26. low = (R * ReferenceWeight) \div (m * m)
    BY ONLY <1>1, <1>3, <1>6, <1>10
  <1>27. QED
    BY <1>10, <1>21, <1>24, <1>25, <1>26

(* The reward fees are reckoned from. *)
LEMMA RewardIs ==
    ASSUME NEW coins \in 0..MoneySupply, NEW limits, AboveZone(limits),
           NEW R, R = BlockReward(limits.median, 1, coins)
    PROVE  R \in Nat
  <1>1. PICK F \in Nat : F = FullRewardZone /\ F # 0
    BY EmissionAssumption
  <1>2. PICK M \in Nat : M = limits.median /\ F <= M
    BY <1>1 DEF AboveZone
  <1>3. 1 <= Larger(M, F)
    BY <1>1, <1>2 DEF Larger
  <1>4. R = BaseReward(coins)
    BY <1>1, <1>2, <1>3 DEF BlockReward
  <1>5. QED
    BY <1>4, BaseRewardIs

(* `check_fee` accepts what the lowest tier asks for. *)
LEMMA LowTierPays ==
    ASSUME NEW coins \in 0..MoneySupply, NEW limits, AboveZone(limits),
           NEW version \in Nat, version >= Scaling2021,
           NEW R, R = BlockReward(limits.median, 1, coins),
           NEW tiers, tiers = FeeTiers(R, limits), tiers[1] > 0, NEW w \in Nat
    PROVE  FeeEnough(limits, coins, version, w, QuantizeUp(w * tiers[1]))
  <1>1. PICK F \in Nat, W \in Nat : F = FullRewardZone /\ F # 0 /\ W = ReferenceWeight
    BY EmissionAssumption
  <1>2. R \in Nat
    BY <1>1, RewardIs
  <1>3. PICK m : m = Smaller(limits.median, limits.ltem)
    OBVIOUS
  <1>4. m \in Nat /\ m # 0 /\ Larger(m, FullRewardZone) = m
    BY <1>3, SmallerAboveZone
  <1>5. PICK low \in Nat : low = (R * ReferenceWeight) \div (m * m)
    BY <1>2, <1>3, TiersInOrder
  <1>6. tiers[1] \in Nat /\ low <= tiers[1]
    BY <1>2, <1>3, <1>5, TiersInOrder
  <1>7. PICK a \in Nat : a = R * ReferenceWeight
    BY <1>1, <1>2
  <1>8. (a \div m) \div m = low
    <2>1. (a \div m) \div m = a \div (m * m)
      BY <1>4, QuotientTwice
    <2>2. QED
      BY <1>5, <1>7, <2>1
  <1>9. FeeMedian(limits, version) = m
    BY <1>3 DEF FeeMedian, Scaling2021, LongTermWeights
  <1>10. PICK B : B = DynamicBaseFee(R, m, version)
    OBVIOUS
  <1>11. B = Larger(low - low \div 20, 1)
    BY <1>4, <1>7, <1>8, <1>10 DEF DynamicBaseFee
  <1>12. B \in Nat /\ B <= tiers[1]
    <2>1. PICK e \in Nat : e = low \div 20 /\ e <= low
      OBVIOUS
    <2>2. B = low - e \/ B = 1
      BY <1>11, <2>1 DEF Larger
    <2>3. low - e \in Nat /\ low - e <= low
      BY <2>1
    <2>4. QED
      BY <1>6, <2>2, <2>3
  <1>13. PICK T \in Nat : T = tiers[1]
    BY <1>6
  <1>14. w * B \in Nat /\ w * T \in Nat /\ w * B <= w * T
    BY <1>12, <1>13
  <1>15. PICK x \in Nat, y \in Nat : x = w * B /\ y = w * T
    BY <1>14
  <1>16. PICK needed, fee : needed = QuantizeUp(x) /\ fee = QuantizeUp(y)
    OBVIOUS
  <1>17. needed \in Nat /\ needed <= fee /\ fee \in Nat
    <2>1. x <= y /\ y <= y
      BY <1>14, <1>15
    <2>2. QED
      BY <1>16, <2>1, QuantizeGrows
  <1>18. fee >= needed - needed \div 50
    <2>1. PICK e \in Nat : e = needed \div 50
      BY <1>17
    <2>2. QED
      BY <1>17, <2>1
  <1>19. FeeEnough(limits, coins, version, w, fee)
    BY <1>9, <1>10, <1>15, <1>16, <1>18 DEF FeeEnough
  <1>20. QED
    BY <1>13, <1>15, <1>16, <1>19

(* From the 2021 scaling on the state above a chain has such limits. *)
LEMMA ReloadedLimits ==
    ASSUME net \in Network, NEW r \in Seq(Row), r # << >>, RequiredVersion(Len(r)) >= Scaling2021
    PROVE  AboveZone(Reloaded(r).limits)
  <1>1. FullRewardZone \in Nat
    BY EmissionAssumption
  <1>2. PICK version \in Nat : version = RequiredVersion(Len(r))
    BY VersionIs
  <1>3. PICK s : s = Reloaded(r)
    OBVIOUS
  <1>4. PICK recent, long : recent = s.recent /\ long = WindowMedian(s.long)
    OBVIOUS
  <1>5. s.limits = WeightLimits(version, recent, long)
    BY <1>2, <1>3, <1>4 DEF Reloaded, ChainState
  <1>6. long \in Nat /\ s.limits.median \in Nat
    BY <1>3, <1>4, ReloadedParts
  <1>7. PICK ltem \in Nat : ltem = Larger(FullRewardZone, long) /\ FullRewardZone <= ltem
    BY <1>1, <1>6 DEF Larger
  <1>8. PICK inner : inner = Smaller(Larger(IF version >= Scaling2021 THEN ltem ELSE FullRewardZone,
                                            Median(recent)), SurgeFactor * ltem)
    OBVIOUS
  <1>9. ~ (version < LongTermWeights)
    BY <1>2 DEF LongTermWeights, Scaling2021
  <1>10. s.limits.median = Larger(FullRewardZone, inner) /\ s.limits.ltem = ltem
    BY <1>5, <1>7, <1>8, <1>9 DEF WeightLimits
  <1>11. FullRewardZone <= s.limits.median
    <2>1. CASE FullRewardZone < inner
      BY <1>1, <1>6, <1>10, <2>1 DEF Larger
    <2>2. CASE ~ (FullRewardZone < inner)
      BY <1>1, <1>10, <2>2 DEF Larger
    <2>3. QED
      BY <2>1, <2>2
  <1>12. QED
    BY <1>3, <1>6, <1>7, <1>10, <1>11 DEF AboveZone

LEMMA FeesHold == RulesInv => LowTierSuffices
  <1>1. SUFFICES ASSUME RulesInv, RequiredVersion(Len(rows)) >= Scaling2021
                 PROVE  LET tiers == FeeTiers(BlockReward(state.limits.median, 1, state.coins), state.limits)
                        IN /\ \A k \in 1..3 : tiers[k] <= tiers[k + 1]
                           /\ tiers[1] > 0 =>
                                 \A w \in Weights :
                                    FeeEnough(state.limits, state.coins, RequiredVersion(Len(rows)), w,
                                              QuantizeUp(w * tiers[1]))
    BY DEF LowTierSuffices
  <1>2. net \in Network /\ rows \in Seq(Row) /\ Len(rows) \in 1..(MaxHeight + 1) /\ state = Reloaded(rows)
    BY <1>1 DEF RulesInv
  <1>3. rows # << >>
    BY <1>2
  <1>4. PICK limits : limits = state.limits /\ AboveZone(limits)
    BY <1>1, <1>2, <1>3, ReloadedLimits
  <1>5. PICK coins \in 0..MoneySupply : coins = state.coins
    <2>1. state.coins = rows[Len(rows)].coins
      BY <1>2, <1>3, ReloadedParts
    <2>2. rows[Len(rows)] \in Row
      BY <1>2
    <2>3. \A x \in Row : x.coins \in 0..MoneySupply
      BY DEF Row
    <2>4. QED
      BY <2>1, <2>2, <2>3
  <1>6. PICK version \in Nat : version = RequiredVersion(Len(rows)) /\ version >= Scaling2021
    <2>1. Len(rows) \in Nat
      BY <1>2
    <2>2. QED
      BY <1>1, <1>2, <2>1, VersionIs
  <1>7. PICK R : R = BlockReward(limits.median, 1, coins)
    OBVIOUS
  <1>8. PICK tiers : tiers = FeeTiers(R, limits)
    OBVIOUS
  <1>9. R \in Nat
    BY <1>4, <1>5, <1>7, RewardIs
  <1>10. \A k \in 1..3 : tiers[k] <= tiers[k + 1]
    <2>1. PICK m : m = Smaller(limits.median, limits.ltem)
      OBVIOUS
    <2>2. QED
      BY <1>4, <1>8, <1>9, <2>1, TiersInOrder
  <1>11. ASSUME tiers[1] > 0, NEW w \in Weights
         PROVE  FeeEnough(limits, coins, version, w, QuantizeUp(w * tiers[1]))
    <2>1. w \in Nat
      BY RulesAssumption
    <2>2. QED
      BY <1>4, <1>5, <1>6, <1>7, <1>8, <1>11, <2>1, LowTierPays
  <1>12. QED
    BY <1>4, <1>5, <1>6, <1>7, <1>8, <1>10, <1>11

-----------------------------------------------------------------------------
(* The theorems. *)

(* The rows and the state of `Blockchain` keep RulesInv through every          *)
(* add_block and every pop, on every network: it is inductive.                 *)
THEOREM RulesInvariant == Spec => []RulesInv
  <1>1. QED
    BY RulesStart, RulesStep, PTL DEF Spec

(* The ChainState add_block carries from block to block is the one             *)
(* reload_state reads from the rows, and neither loses its sizes, however long *)
(* the chain and whatever the windows.                                         *)
THEOREM CarriedStateExact == Spec => []CacheExact
  <1>1. QED
    BY RulesInvariant, CacheHolds, PTL

(* The median LongTermWeightWindow reads off its two halves is the median of   *)
(* the last Capacity stored weights, for every capacity.                       *)
THEOREM MedianExact == Spec => []RollingMedianExact
  <1>1. QED
    BY RulesInvariant, MedianHolds, PTL

(* alt_difficulty asks of a block on an alternative chain what next_difficulty *)
(* asks of it on the main chain, wherever the chains part.                     *)
THEOREM AltDifficultyExact == Spec => []AltDifficultyAgrees
  <1>1. QED
    BY RulesInvariant, AltHolds, PTL

(* The median check_block_timestamp compares with never goes back.             *)
THEOREM MedianTimeMonotone == Spec => []MedianTimeAdvances
  <1>1. QED
    BY RulesInvariant, TimeHolds, PTL

(* get_block_reward never pays a heavier block more.                           *)
THEOREM RewardMonotone == Spec => []HeavierEarnsLess
  <1>1. QED
    BY RulesInvariant, RewardHolds, PTL

(* Every classic difficulty stored is the exact quotient, rounded up, although *)
(* ceil_div_256 works in limbs; and the next difficulty is zero only where the *)
(* quotient does not fit, or LWMA-1 averages difficulties below seven.         *)
THEOREM DifficultyExact == Spec => []DifficultySound
  <1>1. RulesInv => DifficultySound
    BY CeilingHolds, MineableHolds DEF DifficultySound
  <1>2. QED
    BY RulesInvariant, <1>1, PTL

(* From the 2021 scaling on, whatever the chain's reward and medians, what     *)
(* get_fee_estimate tells a wallet to pay at least, rounded up digit by digit  *)
(* by round_money_up, is a fee check_fee accepts, and fee_tiers_2021 puts no   *)
(* tier below the one before it.                                               *)
THEOREM LowTierAccepted == Spec => []LowTierSuffices
  <1>1. QED
    BY RulesInvariant, FeesHold, PTL

=============================================================================
