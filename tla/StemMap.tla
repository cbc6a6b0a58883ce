------------------------------ MODULE StemMap ------------------------------
(***************************************************************************)
(* wow-p2p's `StemMap` (Dandelion++'s connection_map) as operators on its  *)
(* value: the connection in each stem slot, the slot each source is sent   *)
(* to, and how many sources each slot has.  A random draw is the set of    *)
(* what may be drawn.  The public relay and the noise channels of an       *)
(* anonymity zone each keep one.                                           *)
(***************************************************************************)
EXTENDS Naturals, Sequences, FiniteSets, FiniteSetsExt, Functions

CONSTANTS
    Stems,      \* slots in a map: DANDELION_STEMS, NOISE_CHANNELS
    NoConn      \* an empty slot

ASSUME StemAssumption == Stems \in Nat \ {0}

(* The sequences of n different members of C. *)
Draws(C, n) == {s \in [1..n -> C] : IsInjective(s)}

LiveSlots(m) == {i \in DOMAIN m.out : m.out[i] # NoConn}

Unmapped == [s \in {} |-> 0]

(* The maps `new` may make of connections C. *)
NewStems(C) ==
    {[out |-> s, sources |-> Unmapped, usage |-> [i \in 1..Stems |-> 0]] :
        s \in Draws(C, Min({Stems, Cardinality(C)}))}

(* Fault: a connection in a slot already is not told from one that is not. *)
UpdateStems_Twice(m, C) ==
    LET kept   == [i \in DOMAIN m.out |-> IF m.out[i] \in C THEN m.out[i] ELSE NoConn]
        free   == {i \in 1..Stems : i \notin DOMAIN kept \/ kept[i] = NoConn}
        filled == {i \in free : Cardinality({j \in free : j <= i}) <= Cardinality(C)}
    IN  {[m EXCEPT !.out = [i \in DOMAIN kept \cup filled |->
                               IF i \in filled THEN f[i] ELSE kept[i]]] :
            f \in {g \in [filled -> C] : IsInjective(g)}}

(* Fault: all stems are drawn again when one went away. *)
UpdateStems_All(m, C) == NewStems(C)

(* The maps `update` may leave: a slot whose connection is not in C is
   emptied, and then the first empty or unused slots take the rest of C. *)
UpdateStems(m, C) ==
    LET kept   == [i \in DOMAIN m.out |-> IF m.out[i] \in C THEN m.out[i] ELSE NoConn]
        spare  == C \ Range(kept)
        free   == {i \in 1..Stems : i \notin DOMAIN kept \/ kept[i] = NoConn}
        filled == {i \in free : Cardinality({j \in free : j <= i}) <= Cardinality(spare)}
    IN  {[m EXCEPT !.out = [i \in DOMAIN kept \cup filled |->
                               IF i \in filled THEN f[i] ELSE kept[i]]] :
            f \in {g \in [filled -> spare] : IsInjective(g)}}

LeastUsed(m, usage) ==
    {i \in LiveSlots(m) : \A j \in LiveSlots(m) : usage[i] <= usage[j]}

(* s is sent to slot i, with the counts `usage` before it. *)
Moved(m, usage, s, i) ==
    [m EXCEPT !.sources = [t \in DOMAIN m.sources \cup {s} |-> IF t = s THEN i ELSE m.sources[t]],
              !.usage = [usage EXCEPT ![i] = usage[i] + 1]]

HasStem(m, s) == s \in DOMAIN m.sources /\ m.sources[s] \in LiveSlots(m)

(* The outcomes of `get_stem`: the map after it, and s's stem.  A source
   keeps its stem while that is there, and else takes one of the least used. *)
GetStem(m, s) ==
    LET left == IF s \in DOMAIN m.sources
                  THEN [m.usage EXCEPT ![m.sources[s]] = IF @ = 0 THEN 0 ELSE @ - 1]
                  ELSE m.usage
    IN  CASE HasStem(m, s) -> {<<m, m.out[m.sources[s]]>>}
          [] ~ HasStem(m, s) /\ LiveSlots(m) # {} ->
                {<<Moved(m, left, s, i), m.out[i]>> : i \in LeastUsed(m, left)}
          [] OTHER -> {<<[m EXCEPT !.sources = Restrict(m.sources, DOMAIN m.sources \ {s}),
                                   !.usage = left], NoConn>>}

(* The slots hold different connections, every source is sent to a slot there
   is, and a slot's count is that of its sources. *)
StemsSound(m) ==
    /\ Len(m.out) <= Stems
    /\ \A i, j \in LiveSlots(m) : m.out[i] = m.out[j] => i = j
    /\ \A s \in DOMAIN m.sources : m.sources[s] \in DOMAIN m.out
    /\ \A i \in 1..Stems :
          m.usage[i] = Cardinality({s \in DOMAIN m.sources : m.sources[s] = i})
=============================================================================
